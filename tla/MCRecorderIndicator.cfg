SPECIFICATION Spec
CONSTANTS
  RingCapacity = 1
  MaxFrames = 1
  MaxTakes = 2
INVARIANTS IndicatorShowsCapture
CHECK_DEADLOCK FALSE

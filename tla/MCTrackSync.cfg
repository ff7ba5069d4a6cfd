SPECIFICATION Spec
CONSTANTS
  Second = 5
  Hz = 2
  Tolerance = 4
  Cap = 8
  DriftWindow = 2
  Timestamps <- MCTimestamps
  FrameSamples = {1, 2}
  MaxCalls = 4
INVARIANTS TypeOK OnTheTimeline SilenceFitsTheGap DriftMeasuresTheClock
PROPERTIES JumpsAreSurfaced
CHECK_DEADLOCK FALSE

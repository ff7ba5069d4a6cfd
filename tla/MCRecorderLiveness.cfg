SPECIFICATION FairSpec
CONSTANTS
  RingCapacity = 1
  MaxFrames = 1
  MaxTakes = 2
PROPERTIES WrittenOrReported StopCompletes
CHECK_DEADLOCK FALSE

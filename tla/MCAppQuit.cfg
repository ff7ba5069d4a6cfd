SPECIFICATION FairAppSpec
CONSTANTS
  QueueCapacity = 1
  Window = 1
  FramesPerUpdate = 2
  MaxFrames = 2
  MaxStarts = 1
PROPERTIES ServerIsTornDown
CHECK_DEADLOCK FALSE

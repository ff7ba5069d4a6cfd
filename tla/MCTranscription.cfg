SPECIFICATION FairTranscriptSpec
CONSTANTS
  QueueCapacity = 2
  Window = 1
  FramesPerUpdate = 1
  Revisions = 2
  MaxFrames = 5
  MaxStarts = 2
INVARIANTS TranscriptTypeOK DropsAreCounted UploadInOrder TranscriptIsLatest TranscriptIsComplete
PROPERTIES StopReturns
CHECK_DEADLOCK FALSE

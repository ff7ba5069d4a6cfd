SPECIFICATION Spec
CONSTANTS
  RingCapacity = 1
  MaxFrames = 3
  MaxTakes = 2
INVARIANTS TypeOK NoSilentLoss DropsAreFlagged LossIsReported RestReleasesEverything UploadIsComplete ShutdownJoinsEveryThread
PROPERTIES FinalFileIsComplete AudioIsNeverDeleted PipelinesOutliveTheirUsers
CHECK_DEADLOCK FALSE

SPECIFICATION FairSpec
CONSTANTS
  DeviceBuffer = 2
  MaxPackets = 6
INVARIANTS TypeOK LossIsFlagged LocalsOutliveTheirUse
PROPERTIES NoFrameAfterStop CallsReturn
CHECK_DEADLOCK FALSE

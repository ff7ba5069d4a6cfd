SPECIFICATION Spec
CONSTANTS
  Capacity = 2
  MaxItems = 8
INVARIANTS TypeOK NoSlotRace DrainTakesAll
PROPERTIES ImplementsFifo
CHECK_DEADLOCK FALSE

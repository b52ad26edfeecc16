SPECIFICATION FairSpec
CONSTANTS
  MaxAccuracy = 2
  MinAccuracy = 1
  MaxDrop = 0
  None = None
CHECK_DEADLOCK FALSE
INVARIANTS
  PassEarned
  NoChildLeft
PROPERTIES
  GateReturns

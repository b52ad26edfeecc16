SPECIFICATION FairSpec
CONSTANTS
  e1 = e1
  e2 = e2
  e3 = e3
  e4 = e4
  Proc = {p1, p2}
  CrashProc = {p2}
  Event = {e1, e2, e3}
  EventId <- EventIdOf
  Size <- SizeOf
  MaxBytes = 5
  Torn = TRUE
  None = None
  Free = Free
INVARIANTS
  SpoolBounded
  CleanlyKept
  DeliveredInOrder
PROPERTIES
  SpoolDrains
CHECK_DEADLOCK FALSE

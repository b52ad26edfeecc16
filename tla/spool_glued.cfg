SPECIFICATION Spec
CONSTANTS
  e1 = e1
  e2 = e2
  e3 = e3
  e4 = e4
  Proc = {p1}
  CrashProc = {}
  Event = {e1, e2}
  EventId <- EventIdOf
  Size <- SizeOf
  MaxBytes = 6
  Torn = TRUE
  None = None
  Free = Free
INVARIANTS AcknowledgedKept

SPECIFICATION FairService
CONSTANTS
  t1 = t1
  t2 = t2
  t3 = t3
  w1 = w1
  Task = {t1, t2, t3}
  Async = {}
  Timed = {t1}
  Worker = {w1}
  Capacity = 1
  Policy = "reject"
  LoopCloses = FALSE
  None = None
  Free = Free
  Closer = Closer
CHECK_DEADLOCK FALSE
INVARIANTS
  SlotsExact
PROPERTIES
  SlotsReturned
  WorkersStop

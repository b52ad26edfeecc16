SPECIFICATION Spec
CONSTANTS
  t1 = t1
  t2 = t2
  t3 = t3
  w1 = w1
  w2 = w2
  Task = {t1, t2}
  Async = {t1}
  Timed = {t2}
  Worker = {w1}
  Capacity = 1
  Policy = "reject"
  LoopCloses = TRUE
  None = None
  Free = Free
  Closer = Closer
CHECK_DEADLOCK FALSE
INVARIANTS WorkersAvailable

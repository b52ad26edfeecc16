SPECIFICATION Spec
CONSTANTS
  t1 = t1
  t2 = t2
  t3 = t3
  w1 = w1
  w2 = w2
  Task = {t1, t2, t3}
  Async = {t1, t2}
  Timed = {t2, t3}
  Worker = {w1, w2}
  Capacity = 1
  Policy = "drop_oldest"
  LoopCloses = TRUE
  None = None
  Free = Free
  Closer = Closer
SYMMETRY WorkerSymmetry
CHECK_DEADLOCK FALSE
INVARIANTS TypeOK RefusedNeverRun NoRequestLost CountedOnce CloseIsFinal
PROPERTIES CompletedOnce

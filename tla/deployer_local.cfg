SPECIFICATION Spec
CONSTANTS
  v1 = v1
  v2 = v2
  v3 = v3
  None = None
  Absent = Absent
  Torn = Torn
  Free = Free
  Proc = {p1}
  CrashProc = {p1}
  Version = {v1, v2, v3}
  ReleaseSeq <- ReleaseSeqOf
  UseAnchor = FALSE
  Faults = {"io"}
  MaxGeneration = 5
INVARIANTS
  Recoverable
PROPERTIES
  FloorNeverDecreases

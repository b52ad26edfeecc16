SPECIFICATION Spec
CONSTANTS
  v1 = v1
  v2 = v2
  v3 = v3
  None = None
  Absent = Absent
  Torn = Torn
  Free = Free
  Proc = {p1, p2}
  CrashProc = {p1, p2}
  Version = {v1, v2, v3}
  ReleaseSeq <- ReleaseSeqOf
  UseAnchor = TRUE
  Faults = {}
  MaxGeneration = 3
INVARIANT
  AnchorRecoverable

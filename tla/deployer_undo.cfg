SPECIFICATION Spec
CONSTANTS
  v1 = v1
  v2 = v2
  v3 = v3
  None = None
  Absent = Absent
  Torn = Torn
  Free = Free
  Proc = {p1}
  CrashProc = {}
  Version = {v1, v2, v3}
  ReleaseSeq <- ReleaseSeqOf
  UseAnchor = FALSE
  Faults = {"io", "restore"}
  MaxGeneration = 4
INVARIANT
  ReleasesKept

SPECIFICATION FairSpec
CONSTANTS
  v1 = v1
  v2 = v2
  v3 = v3
  None = None
  Absent = Absent
  Torn = Torn
  Free = Free
  Proc = {p1}
  CrashProc = {p1}
  Version = {v1, v2, v3}
  ReleaseSeq <- ReleaseSeqOf
  UseAnchor = TRUE
  Faults = {"io", "anchor"}
  MaxGeneration = 5
INVARIANTS
  TypeOK
  AnchorRecoverable
  Recoverable
PROPERTIES
  AnchorEventuallyCommitted

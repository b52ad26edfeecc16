SPECIFICATION EngineSpec
CONSTANTS
  v1 = v1
  v2 = v2
  None = None
  Absent = Absent
  Torn = Torn
  Free = Free
  Proc = {srv, p1}
  CrashProc = {p1}
  Version = {v1, v2}
  ReleaseSeq <- ReleaseSeqOf
  UseAnchor = TRUE
  Faults = {}
  MaxGeneration = 3
  Server = srv
  Request = {r1, r2}
SYMMETRY RequestSymmetry
INVARIANTS
  BoundCoherently
PROPERTIES
  NeverStale
  CacheAdvances
  RefusalExplained

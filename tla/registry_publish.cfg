SPECIFICATION Spec
CONSTANTS
  k1 = k1
  k2 = k2
  k3 = k3
  ka = ka
  kb = kb
  Proc = {p1, p2}
  CrashProc = {p1, p2}
  Package = {k1, k2, k3}
  Version = {"1.0", "1.1"}
  Key = {ka, kb}
  VersionOf <- PkgVersion
  SeqOf <- PkgSeq
  KeyOf <- PkgKey
  Faults = {"io"}
  None = None
  Absent = Absent
  Free = Free
SYMMETRY ProcSymmetry
INVARIANTS
  SequencesUnique
  PublishedIntact
  AcceptedForever
  BlockedOnlyByTrust

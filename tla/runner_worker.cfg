SPECIFICATION FairSpec
CONSTANTS
  Thread = {"worker", "closer"}
  Faults = {"crash", "timeout", "reject", "spawn"}
  RestartLimit = 1
  MaxSlides = 1
  MaxRequest = 2
  MaxGeneration = 2
CHECK_DEADLOCK FALSE
INVARIANTS
  TypeOK
  NoOrphan
  IdleBackendReady
  ResultIntact
PROPERTIES
  BackendContained

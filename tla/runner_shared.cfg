SPECIFICATION Spec
CONSTANTS
  Thread = {"worker", "monitor"}
  Faults = {"timeout"}
  RestartLimit = 1
  MaxSlides = 0
  MaxRequest = 2
  MaxGeneration = 2
CHECK_DEADLOCK FALSE
INVARIANTS
  ResultBound

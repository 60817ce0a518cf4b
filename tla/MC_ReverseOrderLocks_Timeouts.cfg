CONSTANTS
  FaultSets <- Healthy
SPECIFICATION Spec
INVARIANTS
  BothTimeOut

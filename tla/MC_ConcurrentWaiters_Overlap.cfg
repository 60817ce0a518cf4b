CONSTANTS
  Waiters = 2
  Rounds = 2
  FaultSets <- Healthy
SPECIFICATION Spec
INVARIANTS
  NoOverlapSeen

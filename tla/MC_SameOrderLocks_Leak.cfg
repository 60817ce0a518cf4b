CONSTANTS
  N = 2
  Rounds = 2
  FaultSets <- Acquisitions
SPECIFICATION Spec
INVARIANTS
  HeldIsGivenBack

CONSTANTS
  N = 3
  Iterations = 3
  FaultSets <- Environments
SPECIFICATION FairSpec
INVARIANTS
  TypeOK
  NoFalseMismatch
  PassMeansFullRing
PROPERTIES
  TakesTurns
  AlwaysEnds

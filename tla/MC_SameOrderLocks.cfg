CONSTANTS
  N = 3
  Rounds = 2
  FaultSets <- Environments
SPECIFICATION FairSpec
INVARIANTS
  TypeOK
  HeldIsOwned
  NoCircularWait
  PassMeansCleanEnd
PROPERTIES
  AlwaysEnds

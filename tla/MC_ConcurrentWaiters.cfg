CONSTANTS
  Waiters = 3
  Rounds = 3
  FaultSets <- Environments
SPECIFICATION FairSpec
INVARIANTS
  OneThreadInTurn
  CountersAreAccurate
  AssertionsHold
PROPERTIES
  AlwaysEnds

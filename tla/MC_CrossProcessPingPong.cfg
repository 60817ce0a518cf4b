CONSTANTS
  Iterations = 3
  FaultSets <- Environments
SPECIFICATION FairSpec
INVARIANTS
  VerifiersFindPeer
  VerdictIsEarned
PROPERTIES
  TakesTurns
  AbandonedIsLeftAlone
  AlwaysEnds

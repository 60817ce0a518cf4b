CONSTANTS
  FaultSets <- Environments
SPECIFICATION FairSpec
INVARIANTS
  SomeoneGivesUp
  RecoveryNeverWaits
PROPERTIES
  AlwaysEnds

CONSTANTS
  Contenders = 3
  Rounds = 3
  FaultSets <- Environments
SPECIFICATION FairSpec
INVARIANTS
  OneContenderInside
  WrongSignatureHasCause
  RoundsDoNotMix
  AssertionsHold
PROPERTIES
  AlwaysEnds

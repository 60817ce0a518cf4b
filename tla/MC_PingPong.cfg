CONSTANTS
  Iterations = 4
  Scenarios <- AllScenarios
SPECIFICATION FairSpec
INVARIANTS
  TypeOK
  FlushedFramesMatch
  PassMeansEveryFrame
PROPERTIES
  TakesTurns
  WritesStayInTurn
  AlwaysEnds

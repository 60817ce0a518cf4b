CONSTANTS
  w1 = w1
  w2 = w2
  Workers <- TwoWorkers
  Iterations = 2
  DwordSize = 4
  Settings <- Considered
SPECIFICATION FairSpec
INVARIANTS
  MismatchHasCause
  PassMeansIntact
PROPERTIES
  AlwaysEnds

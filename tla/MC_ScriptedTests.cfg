CONSTANTS
  Iterations = 2
  MaxDword = 9
  Grace = 5
  Settings <- Considered
SPECIFICATION FairSpec
INVARIANTS
  PassMeansConforming
  PassMeansGivenBack
  AbandonedIsDiscarded
PROPERTIES
  AlwaysEnds

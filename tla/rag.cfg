CONSTANTS
  d1 = d1
  d2 = d2
  x1 = x1
  x2 = x2
  Documents <- TwoDocuments
  Deletions <- TwoDeletions
  MaxBatches = 2
SPECIFICATION FairSpec
INVARIANTS
  ReadyIsComplete
  OrphansAreExplained
PROPERTIES
  EveryUploadSettles

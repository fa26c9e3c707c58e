CONSTANTS
  u1 = u1
  u2 = u2
  u3 = u3
  t1 = t1
  t2 = t2
  t3 = t3
  SourceLists <- EachSource
  Urls <- ThreeUrls
  Titles <- ThreeTitles
  MaxResults = 2
  MaxAnswer = 2
  MaxSummaries = 2
  MaxShown = 1
  Scores = {0, 1, 2}
  Relevant = 1
  Matching = 1
  Neutral = 1
SPECIFICATION CollectionSpec
SYMMETRY Symmetry
CHECK_DEADLOCK FALSE
INVARIANTS
  OnlyDuplicatesAreDropped
  ResultsCarryTheirOwn
  ResultsAreTheBest

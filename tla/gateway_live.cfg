CONSTANTS
  r1 = r1
  r2 = r2
  r3 = r3
  r4 = r4
  Requests <- ThreeRequests
  MaxConcurrency = 1
  WakesAll = FALSE
  QueueSize = 2
  MaxBatch = 2
  Streaming <- TwoStreams
SPECIFICATION FairSpec
INVARIANTS
  BatchesFitTheSlots
PROPERTIES
  EveryRequestIsAnswered

CONSTANTS
  r1 = r1
  r2 = r2
  r3 = r3
  Requests <- ThreeRequests
  MaxConcurrency = 1
  WakesAll = FALSE
  QueueSize = 2
  RequestLimit = 2
  TokenLimit = 1
  Estimate = 1
  Streaming <- OneStream
SPECIFICATION FairSpec
INVARIANTS
  HandlersAreFollowed
  DepthIsOffByTheCancelled
  LoadIsLimited
  ChargesAreExplained
PROPERTIES
  EveryRequestEnds

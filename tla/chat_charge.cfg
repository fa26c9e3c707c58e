CONSTANTS
  r1 = r1
  r2 = r2
  r3 = r3
  Requests <- ThreeRequests
  MaxConcurrency = 2
  WakesAll = TRUE
  QueueSize = 2
  RequestLimit = 3
  TokenLimit = 4
  Estimate = 1
  Streaming <- TwoStreams
SPECIFICATION Spec
INVARIANTS
  OnlySuccessIsCharged

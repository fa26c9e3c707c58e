CONSTANTS
  r1 = r1
  r2 = r2
  r3 = r3
  r4 = r4
  Requests <- FourRequests
  MaxConcurrency = 2
  WakesAll = TRUE
  QueueSize = 1
  MaxBatch = 2
  Streaming <- TwoStreams
SPECIFICATION Spec
SYMMETRY Symmetry
INVARIANTS
  HandlersAreFollowed
  LoadIsLimited

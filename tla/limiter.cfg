CONSTANTS
  Requests = {r1, r2, r3, r4, r5, r6, r7}
  MaxConcurrency = 3
  QueueSize = 3
  WakesAll = TRUE
SPECIFICATION Spec
SYMMETRY Symmetry
INVARIANTS
  SlotsConserved
  NoLostWakeUp
  QueueIsTruthful
PROPERTIES
  NoOvertaking
  ImplementsPool

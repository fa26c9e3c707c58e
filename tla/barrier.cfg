CONSTANTS
  r1 = r1
  r2 = r2
  r3 = r3
  r4 = r4
  r5 = r5
  Requests <- FiveRequests
  MaxBatch = 3
SPECIFICATION FairSpec
INVARIANTS
  NoStrandedWaiter
  TimerOpensItsOwnWindow
PROPERTIES
  ImplementsGroup
  EveryWaiterPasses

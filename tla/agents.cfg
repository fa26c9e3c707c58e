CONSTANTS
  cron = cron
  now = now
  Runs <- TwoRuns
  Scheduled <- TheScheduled
  MaxItems = 1
  MaxParts = 2
SPECIFICATION FairSpec
INVARIANTS
  CompletedRowsAreTrue
  GaugesAreRight
  HandlersSettleTheirRows
PROPERTIES
  SettledStaysSettled
  EveryRunSettles
CHECK_DEADLOCK FALSE

CONSTANTS
  r1 = r1
  r2 = r2
  d1 = d1
  Records <- TwoRecords
  Readers <- OneReader
  QueueSize = 1
  MaxAttempts = 2
  MaxRestarts = 1
  Spooling <- WithAndWithout
  SpoolMayFail = FALSE
  CommitMayBeLost = TRUE
  CallersMayBeCancelled = TRUE
SPECIFICATION FairSpec
INVARIANTS PendingIsOnItsWay ReadSeesAccepted
PROPERTIES ImplementsLedger EveryReadReturns EveryCallReturns
CHECK_DEADLOCK FALSE

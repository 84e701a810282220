CONSTANTS
  r1 = r1
  r2 = r2
  d1 = d1
  Records <- TwoRecords
  Readers <- OneReader
  QueueSize = 1
  MaxAttempts = 2
  MaxRestarts = 0
  Spooling <- WithSpool
  SpoolMayFail = TRUE
  CommitMayBeLost = FALSE
  CallersMayBeCancelled = FALSE
SPECIFICATION FairSpec
PROPERTIES EveryReadReturns
CHECK_DEADLOCK FALSE

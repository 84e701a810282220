CONSTANTS
  r1 = r1
  r2 = r2
  Records <- OneRecord
  QueueSize = 1
  MaxAttempts = 2
  MaxRestarts = 3
  SpoolMayFail = FALSE
  CommitMayBeLost = TRUE
  CallersMayBeCancelled = TRUE
SPECIFICATION FairSpec
INVARIANTS AcceptedIsKept
PROPERTIES DeletedStaysDeleted AcceptedIsSettled
CHECK_DEADLOCK FALSE

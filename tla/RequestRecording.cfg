CONSTANTS
  a1 = a1
  b1 = b1
  d1 = d1
  Records <- AllRequests
  Chats <- OneChat
  Readers <- OneReader
  MaxTime = 1
  QueueSize = 1
  MaxAttempts = 2
  MaxRestarts = 1
  Spooling <- WithSpool
  SpoolMayFail = TRUE
  CommitMayBeLost = TRUE
  CallersMayBeCancelled = TRUE
SPECIFICATION ProcessSpec
INVARIANTS AcceptedIsKept OneCopyInMemory JoinCountsWork AttemptsAgree AnswersAreOnDisk
PROPERTIES ImplementsRequests
CHECK_DEADLOCK FALSE

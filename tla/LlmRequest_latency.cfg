CONSTANTS
  a1 = a1
  b1 = b1
  Chats <- OneChat
  Records <- AllRequests
  MaxTime = 3
SPECIFICATION Spec
INVARIANTS LatencyIsElapsedTime
CHECK_DEADLOCK FALSE

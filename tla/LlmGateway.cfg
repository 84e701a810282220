CONSTANTS
  a1 = a1
  a2 = a2
  b1 = b1
  Chats <- TwoChats
  Records <- AllRequests
  MaxTime = 1
  MaxConcurrency = 1
  Threshold = 2
  Cooldown = 1
SPECIFICATION GatewaySpec
INVARIANTS AnswerMatchesRecord CallIsAccountedFor PlacesAreCallers OverloadOpensNothing
PROPERTIES EveryCallIsHandedOn
CHECK_DEADLOCK FALSE

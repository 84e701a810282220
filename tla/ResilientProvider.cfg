CONSTANTS
  c1 = c1
  c2 = c2
  c3 = c3
  c4 = c4
  Calls <- FourCalls
  MaxConcurrency = 2
  Threshold = 2
  Cooldown = 2
SPECIFICATION FairSpec
INVARIANTS PermitsAddUp NoIdlePermit LineIsExact OpenIffThresholdReached
PROPERTIES CoolsDown EveryCallEnds

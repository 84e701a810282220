CONSTANTS
  c1 = c1
  c2 = c2
  c3 = c3
  c4 = c4
  Calls <- ThreeCalls
  MaxConcurrency = 2
  Threshold = 1
  Cooldown = 2
SPECIFICATION Spec
PROPERTIES OpenForTheCooldown

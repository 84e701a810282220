CONSTANTS
  p1 = p1
  p2 = p2
  k1 = k1
  k2 = k2
  a1 = a1
  a2 = a2
  a3 = a3
  q1 = q1
  Projects <- TwoProjects
  Existing <- OneProject
  Keys <- TwoKeys
  Scopes <- ChatOrModels
  Admins <- ThreeCommands
  Requests <- OneRequest
  Unlimited <- ModelsUnlimited
SPECIFICATION CliSpec
SYMMETRY Symmetric
INVARIANTS RevokedStaysOut PrincipalWasInForce RefusedOnlyWithoutKey KeyBucketsAreTheirs LetInIsCharged
CHECK_DEADLOCK FALSE

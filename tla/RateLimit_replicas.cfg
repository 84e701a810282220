CONSTANTS
  q1 = q1
  q2 = q2
  q3 = q3
  q4 = q4
  p1 = p1
  p2 = p2
  Requests <- FourRequests
  Replicas <- TwoReplicas
  Limit = 1
  Window = 1
  Second = 2
  MaxSkew = 1
  MaxTime = 4
SPECIFICATION Spec
INVARIANTS ReplicasShareOneAllowance
CHECK_DEADLOCK FALSE

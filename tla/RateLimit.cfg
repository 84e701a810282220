CONSTANTS
  q1 = q1
  q2 = q2
  q3 = q3
  q4 = q4
  p1 = p1
  p2 = p2
  Requests <- FourRequests
  Replicas <- TwoReplicas
  Limit = 2
  Window = 1
  Second = 2
  MaxSkew = 1
  MaxTime = 4
SPECIFICATION Spec
SYMMETRY Symmetric
INVARIANTS QuotaPerOpening QuotaUnlessOvertaken RefusedOnlyWhenSpent RowMatchesAnswers RetryAfterLeavesWindow
CHECK_DEADLOCK FALSE

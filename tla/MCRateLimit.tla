----------------------------- MODULE MCRateLimit -----------------------------
(* Instances of RateLimit for TLC: the constants only.                     *)
EXTENDS RateLimit, TLC

CONSTANTS q1, q2, q3, q4, p1, p2

FourRequests == {q1, q2, q3, q4}
TwoReplicas == {p1, p2}
Symmetric == Permutations(FourRequests)
=============================================================================

--------------------------- MODULE MCUsageService ---------------------------
(* Instances of UsageService for TLC: the constants only.                  *)
EXTENDS UsageService

CONSTANTS r1, r2, d1

TwoRecords == {r1, r2}
OneReader == {d1}
WithSpool == {TRUE}
WithAndWithout == {TRUE, FALSE}
=============================================================================

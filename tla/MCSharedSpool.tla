---------------------------- MODULE MCSharedSpool ----------------------------
(* An instance of SharedSpool for TLC: the constants only.                 *)
EXTENDS SharedSpool

CONSTANTS r1, r2

OneRecord == {r1}
TwoRecords == {r1, r2}
=============================================================================

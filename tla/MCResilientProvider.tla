------------------------- MODULE MCResilientProvider -------------------------
(* Instances of ResilientProvider for TLC: the constants only.             *)
EXTENDS ResilientProvider

CONSTANTS c1, c2, c3, c4

ThreeCalls == {c1, c2, c3}
FourCalls == {c1, c2, c3, c4}
=============================================================================

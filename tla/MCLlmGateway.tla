---------------------------- MODULE MCLlmGateway ----------------------------
(* Instances of LlmGateway for TLC: the constants only.                    *)
EXTENDS LlmGateway

CONSTANTS a1, a2, b1

TwoChats == {a1, a2}
AllRequests == {a1, a2, b1}
=============================================================================

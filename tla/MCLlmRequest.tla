---------------------------- MODULE MCLlmRequest ----------------------------
(* Instances of LlmRequest for TLC: the constants only.                    *)
EXTENDS LlmRequest

CONSTANTS a1, b1

OneChat == {a1}
AllRequests == {a1, b1}
=============================================================================

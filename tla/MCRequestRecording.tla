------------------------- MODULE MCRequestRecording -------------------------
(* Instances of RequestRecording for TLC: the constants only.              *)
EXTENDS RequestRecording

CONSTANTS a1, b1, d1

OneChat == {a1}
AllRequests == {a1, b1}
OneReader == {d1}
WithSpool == {TRUE}
=============================================================================

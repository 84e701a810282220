---------------------------- MODULE ActivityLedger ----------------------------
(***************************************************************************)
(* What the gateway's activity log promises of one record, whatever the    *)
(* queue, the worker, the spool, the retries and the restarts behind it    *)
(* do.  A record is first written down; once its request has been told so  *)
(* it is accepted; it ends in the log or as an explicit dead letter, and   *)
(* never leaves either.  An accepted record cannot disappear, and reaches  *)
(* one of the two ends.                                                    *)
(***************************************************************************)
CONSTANT Records

VARIABLE fate

Fate == {"none", "written", "accepted", "logged", "dead"}

TypeOK == fate \in [Records -> Fate]

Init == fate = [r \in Records |-> "none"]

Become(r, from, to) ==
  /\ fate[r] \in from
  /\ fate' = [fate EXCEPT ![r] = to]

Write(r) == Become(r, {"none"}, "written")
Accept(r) == Become(r, {"written"}, "accepted")
Log(r) == Become(r, {"none", "written", "accepted"}, "logged")
GiveUp(r) == Become(r, {"written", "accepted"}, "dead")

Next == \E r \in Records : Write(r) \/ Accept(r) \/ Log(r) \/ GiveUp(r)

\* An accepted record is settled.
Settle(r) == fate[r] = "accepted" /\ (Log(r) \/ GiveUp(r))

Spec == Init /\ [][Next]_fate
FairSpec == Spec /\ \A r \in Records : WF_fate(Settle(r))
=============================================================================

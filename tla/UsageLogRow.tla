----------------------------- MODULE UsageLogRow -----------------------------
(***************************************************************************)
(* What Store.insert_usage_log promises its callers about one trace id: a  *)
(* single row, written once and never replaced, and everyone whose call    *)
(* returns is told that row.  A call that raises tells its caller nothing, *)
(* not even that there is no row.                                          *)
(***************************************************************************)
CONSTANTS
  Writers, \* the callers that insert a row with this trace id
  NoRow    \* no row

VARIABLES
  row, \* whose row is in usage_logs
  told \* the rows each caller has been told

Init ==
  /\ row = NoRow
  /\ told = [w \in Writers |-> {}]

\* The row is written, and its writer told, or not: the acknowledgement is
\* lost.
Write(w) ==
  /\ row = NoRow
  /\ row' = w
  /\ UNCHANGED told

\* A caller is told the row there is.
Tell(w) ==
  /\ row # NoRow
  /\ told' = [told EXCEPT ![w] = @ \cup {row}]
  /\ UNCHANGED row

Next == \E w \in Writers : Write(w) \/ Tell(w)

Spec == Init /\ [][Next]_<<row, told>>
=============================================================================

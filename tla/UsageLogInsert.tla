--------------------------- MODULE UsageLogInsert ---------------------------
(***************************************************************************)
(* Store.insert_usage_log, src/llm_control_center/db.py: the transactions  *)
(* that insert a row with one trace id into usage_logs.  A trace id has    *)
(* several when the recorder tries again an insert that was committed and  *)
(* reported as failed, or replays a receipt it had not yet deleted, or     *)
(* when two gateway processes are given the same spool.                    *)
(*                                                                         *)
(* A step is one statement.  The database is PostgreSQL at its default     *)
(* isolation, READ COMMITTED: a statement sees what is committed when it   *)
(* begins, and an INSERT that meets an uncommitted row of the same trace   *)
(* id waits until that transaction ends.  SQLite, where Store additionally *)
(* holds a lock, has fewer interleavings, and raises instead of waiting.   *)
(* Rows of other trace ids play no part, and no row is ever deleted.       *)
(***************************************************************************)
EXTENDS Naturals

CONSTANTS
  Writers, \* the callers that insert a row with this trace id
  NoRow,   \* no row
  MaxCalls \* bound: calls per caller (the recorder gives up after max_attempts)

ASSUME ConstantsAssumption == NoRow \notin Writers /\ MaxCalls \in Nat

VARIABLES
  pc,      \* where each caller's transaction is
  row,     \* whose row is committed
  pending, \* whose uncommitted row is in the unique index, if any
  found,   \* the row each caller's last SELECT returned
  told,    \* history: the rows each caller's calls returned
  calls    \* history: how many calls each caller has begun

vars == <<pc, row, pending, found, told, calls>>

TxPc == {"idle", "begun", "absent", "inserted", "conflict", "existing", "written",
         "returned", "raised"}

Row == Writers \cup {NoRow}

TypeOK ==
  /\ pc \in [Writers -> TxPc]
  /\ row \in Row
  /\ pending \in {{}} \cup {{w} : w \in Writers}
  /\ found \in [Writers -> Row]
  /\ told \in [Writers -> SUBSET Writers]
  /\ calls \in [Writers -> 0 .. MaxCalls]

Init ==
  /\ pc = [w \in Writers |-> "idle"]
  /\ row = NoRow
  /\ pending = {}
  /\ found = [w \in Writers |-> NoRow]
  /\ told = [w \in Writers |-> {}]
  /\ calls = [w \in Writers |-> 0]

Go(w, to) == pc' = [pc EXCEPT ![w] = to]

\* The SELECT by trace id.
Find(w) == found' = [found EXCEPT ![w] = row]

\* insert_usage_log is called: at first, again after it raised, or for a record
\* that is replayed although its row is there.
Begin(w) ==
  /\ pc[w] \in {"idle", "returned", "raised"}
  /\ calls[w] < MaxCalls
  /\ calls' = [calls EXCEPT ![w] = @ + 1]
  /\ Go(w, "begun")
  /\ UNCHANGED <<row, pending, found, told>>

\* The first SELECT: an existing row is the result.
Select(w) ==
  /\ pc[w] = "begun"
  /\ Find(w)
  /\ Go(w, IF row = NoRow THEN "absent" ELSE "existing")
  /\ UNCHANGED <<row, pending, told, calls>>

\* The INSERT where the unique index is missing, as UsageTable composes it.
InsertUnchecked(w) ==
  /\ pc[w] = "absent"
  /\ pending' = pending \cup {w}
  /\ Go(w, "inserted")
  /\ UNCHANGED <<row, found, told, calls>>

\* The INSERT in its savepoint, which waits for an uncommitted row: with a
\* committed one it raises IntegrityError and the savepoint is rolled back.
Insert(w) ==
  /\ pc[w] = "absent"
  /\ pending = {}
  /\ IF row = NoRow
       THEN pending' = {w} /\ Go(w, "inserted")
       ELSE Go(w, "conflict") /\ UNCHANGED pending
  /\ UNCHANGED <<row, found, told, calls>>

\* The SELECT after the conflict; without a row IntegrityError goes on.
SelectAgain(w) ==
  /\ pc[w] = "conflict"
  /\ Find(w)
  /\ Go(w, IF row = NoRow THEN "raised" ELSE "existing")
  /\ UNCHANGED <<row, pending, told, calls>>

\* conn.commit() with a new row.
Commit(w) ==
  /\ pc[w] = "inserted"
  /\ row' = w
  /\ pending' = {}
  /\ found' = [found EXCEPT ![w] = w]
  /\ Go(w, "written")
  /\ UNCHANGED <<told, calls>>

\* The call returns the row it has written, or found; in the latter case
\* nothing is committed.
Return(w) ==
  /\ pc[w] \in {"written", "existing"}
  /\ told' = [told EXCEPT ![w] = @ \cup {found[w]}]
  /\ Go(w, "returned")
  /\ UNCHANGED <<row, pending, found, calls>>

\* Mutant: no rollback.
RaiseInTransaction(w) ==
  /\ pc[w] \notin {"idle", "returned", "raised"}
  /\ Go(w, "raised")
  /\ UNCHANGED <<row, pending, found, told, calls>>

\* A statement fails, the connection is lost (also during the commit, whose
\* outcome is then unknown), or the process is killed: rollback.
Raise(w) ==
  /\ pc[w] \notin {"idle", "returned", "raised"}
  /\ pending' = pending \ {w}
  /\ Go(w, "raised")
  /\ UNCHANGED <<row, found, told, calls>>

Statement(w) ==
  Select(w) \/ Insert(w) \/ SelectAgain(w) \/ Commit(w) \/ Return(w)

Next == \E w \in Writers : Begin(w) \/ Statement(w) \/ Raise(w)

\* The database completes the statements it can.  No call need come.
Fairness == \A w \in Writers : WF_vars(Statement(w))

Spec == Init /\ [][Next]_vars
FairSpec == Spec /\ Fairness

-----------------------------------------------------------------------------
(* Properties.                                                             *)

\* The transaction with the uncommitted row is the only one of its kind, it
\* runs, and there is no committed row beside it: so nothing it can still do
\* replaces a row (the unique index, begin_nested, rollback).
UncommittedIsAlone ==
  /\ \A w \in Writers : pc[w] = "inserted" <=> pending = {w}
  /\ pending # {} => row = NoRow

\* A call about to return a row has the one that is committed, and where a
\* conflict was met there is a row to be found: the `raise` after the second
\* SELECT is for other violations only.
FindingsStay ==
  \A w \in Writers :
    /\ pc[w] \in {"existing", "written"} => found[w] = row /\ row # NoRow
    /\ pc[w] = "conflict" => row # NoRow

Promise == INSTANCE UsageLogRow

\* insert_usage_log is idempotent by trace id: one row, never replaced, and
\* every caller whose call returns is told that one.
OneRowForAll == Promise!Spec

\* No call waits for ever: a transaction that holds the row commits or is
\* rolled back.
EveryInsertEnds ==
  \A w \in Writers : pc[w] = "begun" ~> pc[w] \in {"returned", "raised"}
=============================================================================

------------------------- MODULE UsageServiceProofs -------------------------
(***************************************************************************)
(* Proofs about UsageService, for every set of records and readers, every  *)
(* queue size, attempt budget and number of restarts, with or without a    *)
(* spool, and under every combination of failures.                         *)
(***************************************************************************)
EXTENDS UsageService, FiniteSetTheorems, TLAPS

-----------------------------------------------------------------------------
(* Type correctness.  It is not inductive by itself: task_done could take  *)
(* the counter below zero, and a failure the attempts above their budget.  *)

\* The worker holds an item exactly while it is in the loop body.
HandMatchesPc ==
  IF workerPc \in {"none", "idle"}
    THEN hand = {}
    ELSE \E it \in Item : hand = {it}

\* JoinCountsWork, in the form the steps preserve.
Counted == unfinished = Len(queue) + (IF hand = {} THEN 0 ELSE 1)

\* An insert is tried only with an attempt left.
TriesAreLeft ==
  workerPc \in {"recording", "backoff"} =>
    \A it \in hand : it.attempts < MaxAttempts

\* Before start() there is no worker.
NoWorkerYet == phase = "created" => workerPc = "none"

TypeInv == TypeOK /\ HandMatchesPc /\ Counted /\ TriesAreLeft /\ NoWorkerYet

LEMMA TypeInvInit == Init => TypeInv
  BY ConstantsAssumption
  DEF Init, TypeInv, TypeOK, HandMatchesPc, Counted, TriesAreLeft, NoWorkerYet, Item,
      Phase, WorkerPc, RowStatus, CallerPc, ReaderPc

LEMMA TaskDoneType ==
  ASSUME TypeInv, unfinished # 0, TaskDone
  PROVE  /\ unfinished' = unfinished - 1
         /\ unfinished' \in Nat
         /\ phase' \in Phase
         /\ phase' = "created" => phase = "created"
         /\ reader' \in [Readers -> ReaderPc]
  BY DEF TypeInv, TypeOK, TaskDone, Phase, ReaderPc

LEMMA TypeInvNext == TypeInv /\ [Next]_<<durable, vars>> => TypeInv'
<1> SUFFICES ASSUME TypeInv, [Next]_<<durable, vars>> PROVE TypeInv'
  OBVIOUS
<1> USE ConstantsAssumption
<1>0. durable' = durable
  BY DEF Next
<1> USE <1>0
<1> USE DEF TypeInv, TypeOK, HandMatchesPc, Counted, TriesAreLeft, NoWorkerYet,
            Phase,
            WorkerPc, RowStatus, CallerPc, ReaderPc, requests, memory, disk, history
<1>1. CASE Start
  BY <1>1 DEF Start
<1>2. CASE LoadSpooled
  BY <1>2 DEF LoadSpooled, PendingReceipts, Receipt, Item
<1>3. CASE ReplayPut
  BY <1>3 DEF ReplayPut
<1>4. CASE StartDone
  BY <1>4 DEF StartDone
<1>5. ASSUME NEW r \in Records, RecordDirect(r) PROVE TypeInv'
  BY <1>5 DEF RecordDirect, LogsAfterFailure
<1>6. ASSUME NEW r \in Records, RecordAsync(r) PROVE TypeInv'
  BY <1>6 DEF RecordAsync
<1>7. ASSUME NEW r \in Records, Cancel(r) PROVE TypeInv'
  BY <1>7 DEF Cancel
<1>8. ASSUME NEW r \in Records, Persist(r) PROVE TypeInv'
  BY <1>8 DEF Persist
<1>9. ASSUME NEW r \in Records, PersistRaises(r) PROVE TypeInv'
  BY <1>9 DEF PersistRaises
<1>10. ASSUME NEW r \in Records, Put(r) PROVE TypeInv'
  <2> DEFINE it == [rec |-> r, attempts |-> 0]
  <2>1. it \in Item
    BY DEF Item
  <2>2. /\ queue' \in Seq(Item)
        /\ Len(queue') = Len(queue) + 1
    BY <1>10, <2>1 DEF Put
  <2> QED
    BY <1>10, <2>2 DEF Put
<1>11. CASE WorkerGet
  <2>1. queue \in Seq(Item) /\ queue # <<>> /\ hand = {}
    BY <1>11 DEF WorkerGet
  <2>2. /\ Head(queue) \in Item
        /\ Tail(queue) \in Seq(Item)
        /\ Len(Tail(queue)) = Len(queue) - 1
        /\ Len(queue) \in Nat
        /\ unfinished # 0
    BY <2>1
  <2>3. CASE Head(queue).attempts < MaxAttempts
    <3>1. /\ hand' = {Head(queue)}
          /\ workerPc' = "recording"
          /\ UNCHANGED <<phase, unfinished, reader>>
          /\ queue' = Tail(queue)
      BY <1>11, <2>3 DEF WorkerGet
    <3>2. HandMatchesPc' /\ Counted' /\ TriesAreLeft' /\ NoWorkerYet'
      <4>1. PICK it \in Item : it = Head(queue)
        BY <2>2
      <4>2. hand' = {it} /\ it.attempts < MaxAttempts
        BY <2>3, <3>1, <4>1
      <4>3. unfinished' = Len(queue') + 1
        BY <2>1, <2>2, <3>1
      <4>4. phase' # "created"
        BY <1>11, <3>1 DEF WorkerGet
      <4> QED
        BY <3>1, <4>1, <4>2, <4>3, <4>4
    <3>3. hand' \in SUBSET Item
      BY <2>2, <3>1
    <3> QED
      BY <1>11, <2>2, <3>1, <3>2, <3>3 DEF WorkerGet
  <2>4. CASE ~(Head(queue).attempts < MaxAttempts)
    <3>1. TaskDone /\ hand' = {} /\ workerPc' = "idle"
      BY <1>11, <2>4 DEF WorkerGet, Release
    <3> QED
      BY <1>11, <2>1, <2>2, <3>1, TaskDoneType DEF WorkerGet
  <2> QED
    BY <2>3, <2>4
<1>12. CASE RecordOk
  <2>1. PICK it \in Item : hand = {it}
    BY <1>12 DEF RecordOk
  <2>2. logs' \in SUBSET Records
    BY <1>12, <2>1 DEF RecordOk, Item
  <2>3. CASE durable
    BY <1>12, <2>1, <2>2, <2>3 DEF RecordOk, Keep
  <2>4. CASE ~durable
    <3>1. TaskDone /\ hand' = {} /\ workerPc' = "idle"
      BY <1>12, <2>4 DEF RecordOk, Release
    <3> QED
      BY <1>12, <2>1, <2>2, <3>1, TaskDoneType DEF RecordOk
  <2> QED
    BY <2>3, <2>4
<1>13. CASE RecordRaises
  <2>1. PICK it \in Item : hand = {it}
    BY <1>13 DEF RecordRaises
  <2>2. /\ logs' \in LogsAfterFailure(it.rec)
        /\ \/ /\ durable \/ it.attempts + 1 < MaxAttempts
              /\ hand' = {[it EXCEPT !.attempts = @ + 1]}
              /\ workerPc' = IF durable THEN "marking" ELSE "backoff"
              /\ UNCHANGED <<phase, unfinished, reader>>
           \/ /\ ~durable /\ it.attempts + 1 >= MaxAttempts
              /\ Release("idle")
    BY <1>13, <2>1 DEF RecordRaises
  <2>3. logs' \in SUBSET Records
    BY <2>1, <2>2 DEF LogsAfterFailure, Item
  <2>4. [it EXCEPT !.attempts = @ + 1] \in Item
    <3>1. it.attempts \in 0 .. MaxAttempts /\ it.attempts < MaxAttempts
      BY <1>13, <2>1 DEF RecordRaises, Item
    <3>2. it.attempts + 1 \in 0 .. MaxAttempts
      BY <3>1
    <3> QED
      BY <2>1, <3>2 DEF Item
  <2>5. CASE hand' = {}
    <3>1. TaskDone /\ workerPc' = "idle"
      BY <2>2, <2>5 DEF Release
    <3>2. unfinished # 0 /\ unfinished = Len(queue) + 1
      BY <1>13, <2>1 DEF RecordRaises
    <3>3. UNCHANGED <<queue, toReplay, spool, spoolAttempts, caller, expected,
                      seen, restarts>>
      BY <1>13 DEF RecordRaises
    <3> QED
      BY <2>3, <2>5, <3>1, <3>2, <3>3, TaskDoneType
  <2>6. CASE hand' # {}
    <3>1. /\ durable \/ it.attempts + 1 < MaxAttempts
          /\ hand' = {[it EXCEPT !.attempts = @ + 1]}
          /\ workerPc' = IF durable THEN "marking" ELSE "backoff"
          /\ UNCHANGED <<phase, unfinished, reader>>
      BY <2>2, <2>6 DEF Release
    <3>2. TriesAreLeft'
      BY <2>1, <3>1 DEF Item
    <3> QED
      BY <1>13, <2>1, <2>3, <2>4, <3>1, <3>2 DEF RecordRaises
  <2> QED
    BY <2>5, <2>6
<1>14. CASE MarkAttempt
  <2>1. PICK it \in Item : hand = {it}
    BY <1>14 DEF MarkAttempt
  <2>2. it.rec \in Records /\ it.attempts \in 0 .. MaxAttempts
    BY <2>1 DEF Item
  <2>3. /\ spool' \in [Records -> RowStatus]
        /\ spoolAttempts' \in [Records -> 0 .. MaxAttempts]
    <3>1. MarkReceipt(it)
      BY <1>14, <2>1 DEF MarkAttempt
    <3> QED
      BY <2>2, <3>1 DEF MarkReceipt, StatusAfter, Spent
  <2>4. CASE it.attempts >= MaxAttempts
    <3>1. TaskDone /\ hand' = {} /\ workerPc' = "idle"
      BY <1>14, <2>1, <2>4 DEF MarkAttempt, Spent, Release
    <3>2. unfinished # 0 /\ unfinished = Len(queue) + 1 /\ Len(queue) \in Nat
      BY <2>1
    <3>3. UNCHANGED <<queue, toReplay, logs, caller, expected, seen, restarts>>
      BY <1>14 DEF MarkAttempt
    <3> QED
      BY <2>3, <3>1, <3>2, <3>3, TaskDoneType
  <2>5. CASE ~(it.attempts >= MaxAttempts)
    <3>1. /\ workerPc' = "backoff"
          /\ UNCHANGED <<phase, unfinished, hand, reader>>
      BY <1>14, <2>1, <2>5 DEF MarkAttempt, Spent, Keep
    <3>2. it.attempts < MaxAttempts
      BY <2>2, <2>5
    <3>3. UNCHANGED <<queue, toReplay, logs, caller, expected, seen, restarts>>
      BY <1>14 DEF MarkAttempt
    <3>4. HandMatchesPc' /\ TriesAreLeft'
      BY <2>1, <3>1, <3>2
    <3>5. NoWorkerYet'
      BY <1>14, <3>1 DEF MarkAttempt
    <3> QED
      BY <2>3, <3>1, <3>3, <3>4, <3>5
  <2> QED
    BY <2>4, <2>5
<1>15. CASE BackoffOver
  BY <1>15 DEF BackoffOver, Keep
<1>16. CASE DeleteSpooled
  BY <1>16 DEF DeleteSpooled, Release, TaskDone, Item
<1>17. CASE WorkerDies
  <2>0. PICK it \in Item : hand = {it}
    BY <1>17 DEF WorkerDies
  <2>1. unfinished = Len(queue) + 1 /\ Len(queue) \in Nat
    BY <2>0
  <2>2. TaskDone /\ hand' = {} /\ workerPc' = "none"
    BY <1>17 DEF WorkerDies, Release
  <2>3. UNCHANGED <<queue, toReplay, spool, spoolAttempts, logs, caller,
                    expected, seen, restarts>>
    BY <1>17 DEF WorkerDies
  <2>4. unfinished # 0
    BY <2>1
  <2>5. /\ unfinished' = unfinished - 1
        /\ unfinished' \in Nat
        /\ phase' \in Phase
        /\ phase' = "created" => phase = "created"
        /\ reader' \in [Readers -> ReaderPc]
    BY <2>2, <2>4, TaskDoneType
  <2>6. TypeOK'
    BY <2>2, <2>3, <2>5
  <2> QED
    BY <1>17, <2>1, <2>2, <2>3, <2>5, <2>6
<1>18. ASSUME NEW d \in Readers, FlushStart(d) PROVE TypeInv'
  BY <1>18 DEF FlushStart, Awaited, Accepted
<1>19. ASSUME NEW d \in Readers, ListUsage(d) PROVE TypeInv'
  BY <1>19 DEF ListUsage
<1>20. CASE Stop
  BY <1>20 DEF Stop, Drained
<1>21. CASE StopCancel
  <2>1. /\ logs' \in SUBSET Records
        /\ spool' \in [Records -> RowStatus]
        /\ spoolAttempts' \in [Records -> 0 .. MaxAttempts]
    <3>1. \A it \in hand : it.rec \in Records
                          /\ it.attempts \in 0 .. MaxAttempts
      BY DEF Item
    <3> QED
      BY <1>21, <3>1 DEF StopCancel, ThreadOutcome, MarkReceipt, StatusAfter, Spent
  <2>2. CASE hand = {}
    BY <1>21, <2>1, <2>2 DEF StopCancel
  <2>3. CASE hand # {}
    <3>1. unfinished' = unfinished - 1 /\ unfinished # 0
      BY <1>21, <2>3 DEF StopCancel
    <3>2. reader' \in [Readers -> ReaderPc]
      BY <1>21, <2>3 DEF StopCancel
    <3> QED
      BY <1>21, <2>1, <2>3, <3>1, <3>2 DEF StopCancel
  <2> QED
    BY <2>2, <2>3
<1>22. CASE Exit
  BY <1>22 DEF Exit, ProcessEnds
<1>23. CASE Crash
  BY <1>23 DEF Crash, ProcessEnds
<1>24. CASE UNCHANGED <<durable, vars>>
  BY <1>24 DEF vars
<1> QED
  BY <1>1, <1>2, <1>3, <1>4, <1>5, <1>6, <1>7, <1>8, <1>9, <1>10, <1>11,
     <1>12, <1>13, <1>14, <1>15, <1>16, <1>17, <1>18, <1>19, <1>20, <1>21,
     <1>22, <1>23, <1>24
  DEF Next, Step, Startup, CallerStep, WorkerStep

\* The strengthened types hold in every state of the recorder.
THEOREM TypeInvInvariant == Spec => []TypeInv
  BY TypeInvInit, TypeInvNext, PTL DEF Spec

\* Every variable keeps its type: in particular no queue counter goes below
\* zero and no item or receipt has more attempts than the budget, for any
\* records, queue size and number of crashes.
THEOREM TypeCorrect == Spec => []TypeOK
<1>1. TypeInv => TypeOK
  BY DEF TypeInv
<1> QED
  BY <1>1, TypeInvInvariant, PTL

\* Queue.join() counts exactly the records queued or in the worker's hand, on
\* every path through the worker, stop() and a restart.
THEOREM JoinIsExact == Spec => []JoinCountsWork
<1>1. TypeInv => JoinCountsWork
  <2> SUFFICES ASSUME TypeInv PROVE JoinCountsWork
    OBVIOUS
  <2>1. CASE hand = {}
    BY <2>1, FS_EmptySet
    DEF TypeInv, TypeOK, HandMatchesPc, Counted, JoinCountsWork
  <2>2. CASE hand # {}
    <3>1. PICK it : hand = {it}
      BY <2>2 DEF TypeInv, HandMatchesPc
    <3>2. Cardinality(hand) = 1
      BY <3>1, FS_Singleton
    <3> QED
      BY <2>2, <3>2 DEF TypeInv, Counted, JoinCountsWork
  <2> QED
    BY <2>1, <2>2
<1> QED
  BY <1>1, TypeInvInvariant, PTL

-----------------------------------------------------------------------------
(* No accepted record is lost.                                             *)

\* The record is in usage_logs, or its receipt is in the spool.
Kept(r) == r \in logs \/ spool[r] # "absent"

\* A request that has persisted its receipt, or is past that, has left a trace
\* of its record; the worker deletes a receipt only after the row is there.
\* Without the second part the deletion could break the first.
KeptInv ==
  /\ durable => \A r \in Records : caller[r] \in {"putting", "returned"}
                                     => Kept(r)
  /\ workerPc = "committed" => \A it \in hand : it.rec \in logs

LEMMA KeptInvInit == Init => KeptInv
  BY DEF Init, KeptInv

LEMMA KeptInvNext == TypeInv /\ KeptInv /\ [Next]_<<durable, vars>> => KeptInv'
<1> SUFFICES ASSUME TypeInv, KeptInv, [Next]_<<durable, vars>> PROVE KeptInv'
  OBVIOUS
<1>0. durable' = durable
  BY DEF Next
<1> USE <1>0
<1> USE DEF TypeInv, TypeOK, HandMatchesPc, KeptInv, Kept, requests, memory, disk, history
<1>1. CASE Startup
  BY <1>1 DEF Startup, Start, LoadSpooled, ReplayPut, StartDone
<1>2. ASSUME NEW r \in Records, RecordDirect(r) PROVE KeptInv'
  BY <1>2 DEF RecordDirect, LogsAfterFailure
<1>3. ASSUME NEW r \in Records, RecordAsync(r) PROVE KeptInv'
  BY <1>3 DEF RecordAsync
<1>4. ASSUME NEW r \in Records, Cancel(r) PROVE KeptInv'
  BY <1>4 DEF Cancel
<1>5. ASSUME NEW r \in Records, CallerStep(r) PROVE KeptInv'
  BY <1>5 DEF CallerStep, Persist, PersistRaises, Put
<1>6. CASE WorkerGet
  BY <1>6 DEF WorkerGet, Release
<1>7. CASE RecordOk
  BY <1>7 DEF RecordOk, Keep, Release
<1>8. CASE RecordRaises
  BY <1>8 DEF RecordRaises, LogsAfterFailure, Release
<1>9. CASE MarkAttempt
  BY <1>9 DEF MarkAttempt, MarkReceipt, StatusAfter, Spent, Keep, Release
<1>10. CASE BackoffOver
  BY <1>10 DEF BackoffOver, Keep
<1>11. CASE DeleteSpooled
  BY <1>11 DEF DeleteSpooled, Release
<1>12. CASE WorkerDies
  BY <1>12 DEF WorkerDies, Release
<1>13. ASSUME NEW d \in Readers, FlushStart(d) \/ ListUsage(d) PROVE KeptInv'
  BY <1>13 DEF FlushStart, ListUsage
<1>14. CASE Stop
  BY <1>14 DEF Stop, Drained
<1>15. CASE StopCancel
  BY <1>15 DEF StopCancel, ThreadOutcome, MarkReceipt, StatusAfter, Spent
<1>16. CASE Exit \/ Crash
  BY <1>16 DEF Exit, Crash, ProcessEnds
<1>17. CASE UNCHANGED <<durable, vars>>
  BY <1>17 DEF vars
<1> QED
  BY <1>1, <1>2, <1>3, <1>4, <1>5, <1>6, <1>7, <1>8, <1>9, <1>10, <1>11,
     <1>12, <1>13, <1>14, <1>15, <1>16, <1>17
  DEF Next, Step, WorkerStep

\* What a step does to the rows others rely on: no row of usage_logs goes, and
\* a receipt goes only if its record is in usage_logs.
KeepsRows ==
  /\ logs \subseteq logs'
  /\ \A r \in Records : Kept(r) => Kept(r)'

LEMMA StepKeepsRows == TypeInv /\ KeptInv /\ [Next]_<<durable, vars>> => KeepsRows
<1> SUFFICES ASSUME TypeInv, KeptInv, [Next]_<<durable, vars>> PROVE KeepsRows
  OBVIOUS
<1> USE DEF TypeInv, TypeOK, KeptInv, Kept, KeepsRows, requests, memory, disk,
            history
<1>1. CASE Startup
  BY <1>1 DEF Startup, Start, LoadSpooled, ReplayPut, StartDone
<1>2. ASSUME NEW r \in Records, RecordDirect(r) PROVE KeepsRows
  BY <1>2 DEF RecordDirect, LogsAfterFailure
<1>3. ASSUME NEW r \in Records, RecordAsync(r) \/ Cancel(r) \/ CallerStep(r)
      PROVE  KeepsRows
  BY <1>3 DEF RecordAsync, Cancel, CallerStep, Persist, PersistRaises, Put
<1>4. CASE WorkerGet \/ BackoffOver \/ WorkerDies
  BY <1>4 DEF WorkerGet, BackoffOver, WorkerDies
<1>5. CASE RecordOk \/ RecordRaises
  BY <1>5 DEF RecordOk, RecordRaises, LogsAfterFailure
<1>6. CASE MarkAttempt
  BY <1>6 DEF MarkAttempt, MarkReceipt, StatusAfter
<1>7. CASE DeleteSpooled
  BY <1>7 DEF DeleteSpooled
<1>8. ASSUME NEW d \in Readers, FlushStart(d) \/ ListUsage(d) PROVE KeepsRows
  BY <1>8 DEF FlushStart, ListUsage
<1>9. CASE Stop
  BY <1>9 DEF Stop
<1>10. CASE StopCancel
  BY <1>10 DEF StopCancel, ThreadOutcome, MarkReceipt, StatusAfter
<1>11. CASE Exit \/ Crash
  BY <1>11 DEF Exit, Crash, ProcessEnds
<1>12. CASE UNCHANGED <<durable, vars>>
  BY <1>12 DEF vars
<1> QED
  BY <1>1, <1>2, <1>3, <1>4, <1>5, <1>6, <1>7, <1>8, <1>9, <1>10, <1>11, <1>12
  DEF Next, Step, WorkerStep

\* With a spool, a record whose request has been told that it is recorded is
\* in usage_logs or in the spool at every instant, whatever inserts, spool
\* operations, requests or processes fail.
THEOREM NoAcceptedRecordIsLost == Spec => []AcceptedIsKept
<1>1. KeptInv => AcceptedIsKept
  BY DEF KeptInv, Kept, AcceptedIsKept, Accepted
<1> QED
  BY <1>1, KeptInvInit, KeptInvNext, TypeInvInvariant, PTL DEF Spec

-----------------------------------------------------------------------------
(* What is in memory, and the receipts it stands for.                      *)

\* The items on a queue, and that no two places hold the same record.
Items(q) == {q[i] : i \in 1 .. Len(q)}
Distinct(q) ==
  \A i, j \in 1 .. Len(q) : q[i].rec = q[j].rec => i = j

LEMMA ItemsAppend ==
  ASSUME NEW q \in Seq(Item), NEW it \in Item
  PROVE  /\ Items(Append(q, it)) = Items(q) \cup {it}
         /\ Distinct(q) /\ (\A a \in Items(q) : a.rec # it.rec)
              => Distinct(Append(q, it))
<1> DEFINE p == Append(q, it)
<1>1. /\ Len(p) = Len(q) + 1
      /\ Len(q) \in Nat
      /\ \A i \in 1 .. Len(q) : p[i] = q[i]
      /\ p[Len(q) + 1] = it
  OBVIOUS
<1>2. \A i \in 1 .. Len(p) : i \in 1 .. Len(q) \/ i = Len(q) + 1
  BY <1>1
<1> HIDE DEF p
<1>3. Items(p) \subseteq Items(q) \cup {it}
  BY <1>1, <1>2 DEF Items
<1>4. Items(q) \cup {it} \subseteq Items(p)
  <2>1. \A i \in 1 .. Len(q) : i \in 1 .. Len(p)
    BY <1>1
  <2>2. Len(q) + 1 \in 1 .. Len(p)
    BY <1>1
  <2> QED
    BY <1>1, <2>1, <2>2 DEF Items
<1>5. ASSUME Distinct(q), \A a \in Items(q) : a.rec # it.rec
      PROVE  Distinct(p)
  <2>1. \A i \in 1 .. Len(q) : q[i].rec # it.rec
    BY <1>5 DEF Items
  <2> QED
    BY <1>1, <1>2, <1>5, <2>1 DEF Distinct
<1> QED
  BY <1>3, <1>4, <1>5 DEF p

LEMMA ItemsTail ==
  ASSUME NEW q \in Seq(Item), q # <<>>
  PROVE  /\ Head(q) \in Item
         /\ Items(q) = Items(Tail(q)) \cup {Head(q)}
         /\ Distinct(q) => /\ Distinct(Tail(q))
                           /\ \A a \in Items(Tail(q)) : a.rec # Head(q).rec
<1> DEFINE p == Tail(q)
<1>1. /\ Len(q) \in Nat
      /\ Len(q) >= 1
      /\ Len(p) = Len(q) - 1
      /\ \A i \in 1 .. Len(p) : p[i] = q[i + 1]
      /\ Head(q) = q[1]
      /\ Head(q) \in Item
  OBVIOUS
<1> HIDE DEF p
<1>2. \A i \in 1 .. Len(q) : i = 1 \/ (i - 1 \in 1 .. Len(p) /\ i = (i - 1) + 1)
  BY <1>1
<1>3. \A i \in 1 .. Len(p) : i + 1 \in 1 .. Len(q) /\ i + 1 # 1
  BY <1>1
<1>4. Items(q) \subseteq Items(p) \cup {Head(q)}
  <2> SUFFICES ASSUME NEW i \in 1 .. Len(q)
               PROVE  q[i] \in Items(p) \cup {Head(q)}
    BY DEF Items
  <2>1. CASE i = 1
    BY <2>1, <1>1
  <2>2. CASE i # 1
    <3>1. PICK j \in 1 .. Len(p) : i = j + 1
      BY <1>2, <2>2
    <3>2. q[i] = p[j]
      BY <3>1, <1>1
    <3> QED
      BY <3>2 DEF Items
  <2> QED
    BY <2>1, <2>2
<1>5. Items(p) \cup {Head(q)} \subseteq Items(q)
  <2>1. 1 \in 1 .. Len(q)
    BY <1>1
  <2> QED
    BY <1>1, <1>3, <2>1 DEF Items
<1>6. ASSUME Distinct(q)
      PROVE  Distinct(p) /\ \A a \in Items(p) : a.rec # Head(q).rec
  <2>1. Distinct(p)
    <3> SUFFICES ASSUME NEW i \in 1 .. Len(p), NEW j \in 1 .. Len(p),
                        p[i].rec = p[j].rec
                 PROVE  i = j
      BY DEF Distinct
    <3>1. q[i + 1].rec = q[j + 1].rec
      BY <1>1
    <3>2. i + 1 = j + 1
      BY <1>3, <1>6, <3>1 DEF Distinct
    <3> QED
      BY <3>2
  <2>2. \A i \in 1 .. Len(p) : p[i].rec # q[1].rec
    <3> SUFFICES ASSUME NEW i \in 1 .. Len(p), p[i].rec = q[1].rec
                 PROVE  FALSE
      OBVIOUS
    <3>1. q[i + 1].rec = q[1].rec
      BY <1>1
    <3>2. 1 \in 1 .. Len(q)
      BY <1>1
    <3> QED
      BY <1>3, <1>6, <3>1, <3>2 DEF Distinct
  <2> QED
    BY <1>1, <2>1, <2>2 DEF Items
<1> QED
  BY <1>1, <1>4, <1>5, <1>6 DEF p

LEMMA ItemsEmpty == Items(<<>>) = {} /\ Distinct(<<>>)
<1>1. Len(<<>>) = 0 /\ 1 .. 0 = {}
  OBVIOUS
<1> QED
  BY <1>1 DEF Items, Distinct

Waiting == Items(queue) \cup toReplay

Starting == phase \in {"created", "loading", "replaying"}

\* Each record is in one place, and is there only once its request is past the
\* put.
OnePlace ==
  /\ Distinct(queue)
  /\ \A a, b \in toReplay : a.rec = b.rec => a = b
  /\ \A a \in toReplay : \A b \in hand : a.rec # b.rec
  /\ \A a \in Items(queue) : \A b \in toReplay \cup hand : a.rec # b.rec
  /\ \A a \in Waiting \cup hand :
       caller[a.rec] \notin {"idle", "persisting", "putting"}

\* What start() relies on: it finds the memory empty and no request under way.
StartIsFresh ==
  /\ phase \in {"created", "loading"} =>
       queue = <<>> /\ toReplay = {} /\ hand = {}
  /\ Starting => \A r \in Records : caller[r] \notin {"persisting", "putting"}
  /\ phase # "replaying" => toReplay = {}
  /\ ~durable => phase \notin {"loading", "replaying"}

\* The receipt behind what is in memory.
ReceiptsMatch ==
  /\ \A r \in Records : caller[r] \in {"idle", "persisting"} =>
       spool[r] = "absent" /\ spoolAttempts[r] = 0 /\ r \notin logs
  /\ \A r \in Records : (durable /\ caller[r] = "putting") =>
       spool[r] = "pending" /\ spoolAttempts[r] = 0
  /\ durable => \A a \in Waiting :
       spool[a.rec] = "pending" /\ a.attempts = spoolAttempts[a.rec]
  /\ durable => \A a \in hand :
       /\ spool[a.rec] = "pending"
       /\ a.attempts = spoolAttempts[a.rec]
                         + (IF workerPc = "marking" THEN 1 ELSE 0)
  /\ \A r \in Records : spool[r] = "dead_letter" =>
       spoolAttempts[r] = MaxAttempts
  /\ \A r \in Records : spool[r] = "pending" => spoolAttempts[r] < MaxAttempts

\* Without a spool nothing is written to one.
NoSpoolUnused ==
  ~durable => /\ \A r \in Records : /\ spool[r] = "absent"
                                    /\ caller[r] # "persisting"
              /\ workerPc \notin {"marking", "committed"}

MemoryInv == OnePlace /\ StartIsFresh /\ ReceiptsMatch /\ NoSpoolUnused

\* A pending receipt is on its way as long as no worker has died.
OnItsWay(r) ==
  \/ \E a \in Waiting \cup hand : a.rec = r
  \/ caller[r] \in {"putting", "cancelled"}

FlowInv ==
  (durable /\ ~SpoolMayFail
     /\ phase \in {"replaying", "serving", "stopping", "joined"}) =>
    \A r \in Records : spool[r] = "pending" => OnItsWay(r)

Settled(r) == r \in logs \/ spool[r] = "dead_letter"

ReadInv ==
  (durable /\ ~SpoolMayFail) =>
    /\ \A d \in Readers : reader[d] # "idle" => expected[d] \subseteq Accepted
    /\ Starting => \A d \in Readers : reader[d] # "joining"
    /\ phase # "stopped" =>
         \A d \in Readers : reader[d] = "listing" =>
           \A r \in expected[d] : Settled(r)
    /\ \A d \in Readers : reader[d] = "done" =>
         \A r \in expected[d] : r \in seen[d] \/ spool[r] = "dead_letter"

LEMMA MemoryInvInit == Init => MemoryInv
  BY ItemsEmpty, ConstantsAssumption
  DEF Init, MemoryInv, OnePlace, StartIsFresh, ReceiptsMatch, NoSpoolUnused, Waiting,
      Starting

\* What the proofs below use of the types.
LEMMA TypesOfItems ==
  ASSUME TypeInv
  PROVE  /\ \A a \in Waiting \cup hand : /\ a \in Item
                                         /\ a.rec \in Records
                                         /\ a.attempts \in 0 .. MaxAttempts
         /\ \A a \in Waiting \cup hand, b \in Waiting \cup hand :
              a.rec = b.rec /\ a.attempts = b.attempts => a = b
         /\ workerPc \in {"none", "idle"} => hand = {}
         /\ workerPc \notin {"none", "idle"} => \E it \in Item : hand = {it}
<1> USE DEF TypeInv, TypeOK
<1>1. \A a \in Items(queue) : a \in Item
  BY DEF Items
<1>2. \A a \in Waiting \cup hand : a \in Item
  BY <1>1 DEF Waiting
<1>3. \A a \in Item : a.rec \in Records /\ a.attempts \in 0 .. MaxAttempts
  BY DEF Item
<1>4. \A a, b \in Item : a.rec = b.rec /\ a.attempts = b.attempts => a = b
  BY DEF Item
<1> QED
  BY <1>2, <1>3, <1>4 DEF HandMatchesPc

LEMMA MemoryInvNext == TypeInv /\ MemoryInv /\ [Next]_<<durable, vars>> => MemoryInv'
<1> SUFFICES ASSUME TypeInv, MemoryInv, [Next]_<<durable, vars>>
             PROVE  MemoryInv'
  OBVIOUS
<1>0. durable' = durable
  BY DEF Next
<1>t. /\ queue \in Seq(Item)
      /\ caller \in [Records -> CallerPc]
      /\ spool \in [Records -> RowStatus]
      /\ spoolAttempts \in [Records -> 0 .. MaxAttempts]
      /\ phase = "created" => workerPc = "none"
      /\ workerPc \in WorkerPc
  BY DEF TypeInv, TypeOK, NoWorkerYet
<1> USE <1>0, <1>t, ConstantsAssumption
<1> USE DEF MemoryInv, OnePlace, StartIsFresh, ReceiptsMatch, NoSpoolUnused, Waiting,
            Starting, requests, memory, disk, history
<1>1. CASE Start
  BY <1>1 DEF Start
<1>2. CASE LoadSpooled
  BY <1>2, ItemsEmpty DEF LoadSpooled, PendingReceipts, Receipt
<1>3. CASE ReplayPut
  <2>1. PICK it \in toReplay : /\ queue' = Append(queue, it)
                               /\ toReplay' = toReplay \ {it}
    BY <1>3 DEF ReplayPut
  <2>2. it \in Item
    BY <2>1, TypesOfItems
  <2>3. Items(queue') = Items(queue) \cup {it} /\ Distinct(queue')
    BY <2>1, <2>2, ItemsAppend
  <2> QED
    BY <1>3, <2>1, <2>3 DEF ReplayPut
<1>4. CASE StartDone
  BY <1>4 DEF StartDone
<1>5. ASSUME NEW r \in Records, RecordDirect(r) PROVE MemoryInv'
  BY <1>5, ItemsEmpty DEF RecordDirect, LogsAfterFailure
<1>6. ASSUME NEW r \in Records, RecordAsync(r) PROVE MemoryInv'
  BY <1>6 DEF RecordAsync, Alive
<1>7. ASSUME NEW r \in Records, Cancel(r) PROVE MemoryInv'
  <2>1. /\ caller' = [caller EXCEPT ![r] = "cancelled"]
        /\ phase' = phase /\ queue' = queue /\ toReplay' = toReplay
        /\ hand' = hand /\ workerPc' = workerPc
        /\ spoolAttempts' = spoolAttempts /\ logs' = logs
        /\ ~Starting
    BY <1>7 DEF Cancel, Alive
  <2>2. CASE UNCHANGED spool
    BY <2>1, <2>2
  <2>3. CASE caller[r] = "persisting" /\ spool' = [spool EXCEPT ![r] = "pending"]
    BY <2>1, <2>3, TypesOfItems
  <2> QED
    BY <1>7, <2>2, <2>3 DEF Cancel
<1>8. ASSUME NEW r \in Records, Persist(r) PROVE MemoryInv'
  BY <1>8 DEF Persist, Alive
<1>9. ASSUME NEW r \in Records, PersistRaises(r) PROVE MemoryInv'
  BY <1>9 DEF PersistRaises, Alive
<1>10. ASSUME NEW r \in Records, Put(r) PROVE MemoryInv'
  <2>1. PICK it \in Item : it = [rec |-> r, attempts |-> 0]
    <3> 0 \in 0 .. MaxAttempts
      OBVIOUS
    <3> [rec |-> r, attempts |-> 0] \in Item
      BY DEF Item
    <3> QED
      OBVIOUS
  <2>2. /\ queue' = Append(queue, it)
        /\ caller' = [caller EXCEPT ![r] = "returned"]
        /\ caller[r] = "putting"
        /\ it.rec = r /\ it.attempts = 0
    BY <1>10, <2>1 DEF Put
  <2>3. Items(queue') = Items(queue) \cup {it} /\ Distinct(queue')
    BY <2>2, ItemsAppend
  <2> QED
    BY <1>10, <2>2, <2>3 DEF Put, Alive
<1>11. CASE WorkerGet
  <2>1. PICK it \in Item : it = Head(queue)
    BY <1>11, ItemsTail DEF WorkerGet
  <2>2. /\ Items(queue) = Items(queue') \cup {it}
        /\ Distinct(queue')
        /\ \A a \in Items(queue') : a.rec # it.rec
    BY <1>11, <2>1, ItemsTail DEF WorkerGet
  <2>3. \/ hand' = {it} /\ workerPc' = "recording"
        \/ hand' = {} /\ workerPc' = "idle"
    <3>1. CASE Head(queue).attempts < MaxAttempts
      BY <1>11, <2>1, <3>1 DEF WorkerGet
    <3>2. CASE ~(Head(queue).attempts < MaxAttempts)
      BY <1>11, <2>1, <3>2 DEF WorkerGet, Release
    <3> QED
      BY <3>1, <3>2
  <2>4. /\ hand = {} /\ queue # <<>>
        /\ phase' = phase \/ (phase = "stopping" /\ phase' = "joined")
    BY <1>11, TypesOfItems DEF WorkerGet, Release, TaskDone
  <2> QED
    BY <1>11, <2>2, <2>3, <2>4, TypesOfItems DEF WorkerGet
<1>12. CASE RecordOk
  BY <1>12, TypesOfItems DEF RecordOk, Keep, Release, TaskDone
<1>13. CASE RecordRaises
  <2>1. PICK it \in Item : hand = {it}
    BY <1>13, TypesOfItems DEF RecordRaises
  <2>2. /\ logs' \in LogsAfterFailure(it.rec)
        /\ \/ /\ hand' = {[it EXCEPT !.attempts = @ + 1]}
              /\ workerPc' = IF durable THEN "marking" ELSE "backoff"
              /\ phase' = phase
           \/ /\ ~durable
              /\ hand' = {} /\ workerPc' = "idle" /\ TaskDone
        /\ UNCHANGED <<queue, toReplay, spool, spoolAttempts, caller>>
        /\ workerPc = "recording"
    BY <1>13, <2>1 DEF RecordRaises, Release
  <2>3. \A r \in Records : r \in logs' => r \in logs \/ r = it.rec
    BY <2>2 DEF LogsAfterFailure
  <2>4. /\ it.rec \in Records
        /\ caller[it.rec] \notin {"idle", "persisting", "putting"}
    BY <2>1, TypesOfItems
  <2>5. phase' = phase \/ (phase = "stopping" /\ phase' = "joined")
    BY <2>2 DEF TaskDone
  <2>6. CASE hand' = {}
    BY <2>1, <2>2, <2>3, <2>4, <2>5, <2>6
  <2>7. CASE hand' # {}
    <3>1. PICK nx : /\ nx = [it EXCEPT !.attempts = @ + 1]
                    /\ nx.rec = it.rec /\ nx.attempts = it.attempts + 1
      <4>1. /\ [it EXCEPT !.attempts = @ + 1].rec = it.rec
            /\ [it EXCEPT !.attempts = @ + 1].attempts = it.attempts + 1
        BY DEF Item
      <4> QED
        BY <4>1
    <3>2. hand' = {nx} /\ workerPc' = IF durable THEN "marking" ELSE "backoff"
      BY <2>2, <2>7, <3>1
    <3>3. durable => /\ spool[it.rec] = "pending"
                     /\ it.attempts = spoolAttempts[it.rec]
      BY <2>1, <2>2, <2>4
    <3>4. it.attempts \in Nat
      BY DEF Item
    <3> HIDE DEF ReceiptsMatch
    <3>5. OnePlace'
      <4>1. /\ Distinct(queue') /\ Items(queue') = Items(queue)
            /\ toReplay' = toReplay /\ caller' = caller
        BY <2>2
      <4>2. it \in hand /\ \A a \in hand' : a.rec = it.rec
        BY <2>1, <3>1, <3>2
      <4>3. OnePlace
        OBVIOUS
      <4> HIDE <1>t DEF MemoryInv, StartIsFresh, NoSpoolUnused, Starting
      <4> QED
        BY <4>1, <4>2, <4>3
    <3>6. NoSpoolUnused'
      BY <2>1, <2>2, <3>2
    <3>7. StartIsFresh'
      BY <2>1, <2>2, <2>5, <3>1, <3>2
    <3>8. ReceiptsMatch'
      BY <2>1, <2>2, <2>3, <2>4, <3>1, <3>2, <3>3, <3>4 DEF ReceiptsMatch
    <3> QED
      BY <3>5, <3>6, <3>7, <3>8
  <2> QED
    BY <2>6, <2>7
<1>14. CASE MarkAttempt
  <2>1. PICK it \in Item : hand = {it} /\ MarkReceipt(it)
    BY <1>14, TypesOfItems DEF MarkAttempt
  <2>2. /\ \/ Spent(it) /\ hand' = {} /\ workerPc' = "idle"
           \/ ~Spent(it) /\ hand' = hand /\ workerPc' = "backoff"
        /\ phase' = phase \/ (phase = "stopping" /\ phase' = "joined")
        /\ UNCHANGED <<queue, toReplay, logs, caller>>
        /\ workerPc = "marking"
    BY <1>14, <2>1 DEF MarkAttempt, Keep, Release, TaskDone
  <2>3. durable /\ spool[it.rec] = "pending"
    BY <2>1, <2>2
  <2>4. /\ spoolAttempts' = [spoolAttempts EXCEPT ![it.rec] = it.attempts]
        /\ spool' = [spool EXCEPT ![it.rec] = StatusAfter(it)]
    BY <2>1, <2>3 DEF MarkReceipt
  <2>5. it.rec \in Records /\ it.attempts \in 0 .. MaxAttempts
    BY DEF Item
  <2>6. CASE Spent(it)
    BY <2>1, <2>2, <2>3, <2>4, <2>5, <2>6, TypesOfItems DEF Spent, StatusAfter
  <2>7. CASE ~Spent(it)
    BY <2>1, <2>2, <2>3, <2>4, <2>5, <2>7, TypesOfItems DEF Spent, StatusAfter
  <2> QED
    BY <2>6, <2>7
<1>15. CASE BackoffOver
  BY <1>15 DEF BackoffOver, Keep
<1>16. CASE DeleteSpooled
  BY <1>16, TypesOfItems DEF DeleteSpooled, Release, TaskDone
<1>17. CASE WorkerDies
  BY <1>17 DEF WorkerDies, Release, TaskDone
<1>18. ASSUME NEW d \in Readers, FlushStart(d) \/ ListUsage(d) PROVE MemoryInv'
  BY <1>18 DEF FlushStart, ListUsage
<1>20. CASE Stop
  <2>1. unfinished = 0 => hand = {}
    BY DEF TypeInv, TypeOK, Counted
  <2> QED
    BY <1>20, <2>1 DEF Stop, Drained
<1>21. CASE StopCancel
  <2>1. /\ phase' = "stopped" /\ workerPc' = "none" /\ hand' = {}
        /\ UNCHANGED <<queue, toReplay, caller>>
        /\ phase = "joined" /\ ThreadOutcome
    BY <1>21 DEF StopCancel
  <2>2. CASE UNCHANGED <<logs, spool, spoolAttempts>>
    BY <2>1, <2>2
  <2>3. CASE ~UNCHANGED <<logs, spool, spoolAttempts>>
    <3>1. PICK it \in hand :
            \/ /\ logs' = logs \cup {it.rec}
               /\ UNCHANGED <<spool, spoolAttempts>>
            \/ /\ workerPc = "committed"
               /\ spool' = [spool EXCEPT ![it.rec] = "absent"]
               /\ UNCHANGED <<logs, spoolAttempts>>
            \/ /\ workerPc = "marking"
               /\ MarkReceipt(it)
               /\ UNCHANGED logs
      BY <2>1, <2>3 DEF ThreadOutcome
    <3>2. it.rec \in Records /\ it.attempts \in 0 .. MaxAttempts
      BY TypesOfItems
    <3>3. CASE logs' = logs \cup {it.rec} /\ UNCHANGED <<spool, spoolAttempts>>
      BY <2>1, <3>2, <3>3
    <3>4. CASE /\ workerPc = "committed"
               /\ spool' = [spool EXCEPT ![it.rec] = "absent"]
               /\ UNCHANGED <<logs, spoolAttempts>>
      BY <2>1, <3>2, <3>4, TypesOfItems
    <3>5. CASE workerPc = "marking" /\ MarkReceipt(it) /\ UNCHANGED logs
      <4>1. durable /\ spool[it.rec] = "pending"
        BY <3>5
      <4>2. /\ spoolAttempts' = [spoolAttempts EXCEPT ![it.rec] = it.attempts]
            /\ spool' = [spool EXCEPT ![it.rec] = StatusAfter(it)]
        BY <3>5, <4>1 DEF MarkReceipt
      <4> QED
        BY <2>1, <3>2, <3>5, <4>1, <4>2, TypesOfItems DEF Spent, StatusAfter
    <3> QED
      BY <3>1, <3>3, <3>4, <3>5
  <2> QED
    BY <2>2, <2>3
<1>22. CASE Exit \/ Crash
  BY <1>22, ItemsEmpty DEF Exit, Crash, ProcessEnds, CallerPc
<1>24. CASE UNCHANGED <<durable, vars>>
  BY <1>24 DEF vars
<1> QED
  BY <1>1, <1>2, <1>3, <1>4, <1>5, <1>6, <1>7, <1>8, <1>9, <1>10, <1>11,
     <1>12, <1>13, <1>14, <1>15, <1>16, <1>17, <1>18, <1>20, <1>21,
     <1>22, <1>24
  DEF Next, Step, Startup, CallerStep, WorkerStep

\* Memory and receipts stay matched in every state of the recorder.
THEOREM MemoryInvInvariant == Spec => []MemoryInv
  BY MemoryInvInit, MemoryInvNext, TypeInvInvariant, PTL DEF Spec

\* A record is never in memory twice, however often it is replayed, retried
\* or its request cancelled.
THEOREM NoRecordIsCopied == Spec => []OneCopyInMemory
<1>1. TypeInv /\ MemoryInv => OneCopyInMemory
  <2> SUFFICES ASSUME TypeInv, MemoryInv, NEW r \in Records
               PROVE  Cardinality(QueuedAt(r))
                        + Cardinality({it \in toReplay \cup hand : it.rec = r})
                        + (IF caller[r] = "putting" THEN 1 ELSE 0) <= 1
    BY DEF OneCopyInMemory
  <2> DEFINE Held == {it \in toReplay \cup hand : it.rec = r}
  <2> USE DEF MemoryInv, OnePlace, Waiting
  <2>1. QueuedAt(r) # {} => Held = {} /\ caller[r] # "putting"
    BY DEF QueuedAt, Items
  <2>2. Held # {} => caller[r] # "putting"
    OBVIOUS
  <2>3. \A a, b \in Held : a = b
    BY TypesOfItems
  <2>4. \A i, j \in QueuedAt(r) : i = j
    BY DEF QueuedAt, Distinct
  <2>5. Cardinality(Held) = IF Held = {} THEN 0 ELSE 1
    <3>1. CASE Held = {}
      BY <3>1, FS_EmptySet
    <3>2. CASE Held # {}
      <4>1. PICK a \in Held : TRUE
        BY <3>2
      <4>2. Held = {a}
        <5> HIDE DEF Held
        <5> QED
          BY <2>3, <4>1
      <4> QED
        BY <4>2, FS_Singleton
    <3> QED
      BY <3>1, <3>2
  <2>6. Cardinality(QueuedAt(r)) = IF QueuedAt(r) = {} THEN 0 ELSE 1
    <3>1. CASE QueuedAt(r) = {}
      BY <3>1, FS_EmptySet
    <3>2. CASE QueuedAt(r) # {}
      <4>1. PICK a : QueuedAt(r) = {a}
        BY <2>4, <3>2
      <4> QED
        BY <4>1, FS_Singleton
    <3> QED
      BY <3>1, <3>2
  <2> HIDE DEF Held
  <2> QED
    BY <2>1, <2>2, <2>5, <2>6 DEF Held
<1> QED
  BY <1>1, TypeInvInvariant, MemoryInvInvariant, PTL

\* The attempts the worker counts and those stored on the receipt stay
\* together across failures, dead workers and restarts.
THEOREM AttemptsStayTogether == Spec => []AttemptsAgree
<1>1. MemoryInv => AttemptsAgree
  BY DEF MemoryInv, ReceiptsMatch, AttemptsAgree
<1> QED
  BY <1>1, MemoryInvInvariant, PTL

-----------------------------------------------------------------------------
(* Receipts are on their way, and reads see what was accepted.             *)

LEMMA FlowInvNext ==
  TypeInv /\ MemoryInv /\ FlowInv /\ [Next]_<<durable, vars>> => FlowInv'
<1> SUFFICES ASSUME TypeInv, MemoryInv, FlowInv, [Next]_<<durable, vars>>,
                    durable, ~SpoolMayFail,
                    phase' \in {"replaying", "serving", "stopping", "joined"},
                    NEW r \in Records, spool'[r] = "pending"
             PROVE  OnItsWay(r)'
  BY DEF FlowInv, Next
<1>t. /\ queue \in Seq(Item)
      /\ caller \in [Records -> CallerPc]
      /\ spool \in [Records -> RowStatus]
      /\ phase # "replaying" => toReplay = {}
      /\ ~(phase \in {"replaying", "serving", "stopping", "joined"}
             /\ spool[r] = "pending") \/ OnItsWay(r)
  BY DEF TypeInv, TypeOK, MemoryInv, StartIsFresh, FlowInv
<1>f. \A a \in Waiting \cup hand : /\ spool[a.rec] = "pending"
                                   /\ a.rec \in Records
  BY TypesOfItems DEF MemoryInv, ReceiptsMatch
<1> USE <1>t DEF OnItsWay, Waiting, requests, memory, disk, history
<1>1. CASE Start
  BY <1>1 DEF Start
<1>2. CASE LoadSpooled
  <2>1. PICK it : it = Receipt(r)
    OBVIOUS
  <2>2. it \in toReplay' /\ it.rec = r
    BY <1>2, <2>1 DEF LoadSpooled, PendingReceipts, Receipt
  <2> QED
    BY <2>2
<1>3. CASE ReplayPut
  <2>1. PICK it \in toReplay : /\ queue' = Append(queue, it)
                               /\ toReplay' = toReplay \ {it}
    BY <1>3 DEF ReplayPut
  <2>2. it \in Item
    BY <2>1, TypesOfItems
  <2>3. Items(queue') = Items(queue) \cup {it}
    BY <2>1, <2>2, ItemsAppend
  <2> QED
    BY <1>3, <2>1, <2>3 DEF ReplayPut
<1>4. CASE StartDone
  BY <1>4 DEF StartDone
<1>5. ASSUME NEW q \in Records, RecordDirect(q) PROVE OnItsWay(r)'
  BY <1>5 DEF RecordDirect
<1>6. ASSUME NEW q \in Records, RecordAsync(q) PROVE OnItsWay(r)'
  BY <1>6 DEF RecordAsync, Alive
<1>7. ASSUME NEW q \in Records, Cancel(q) PROVE OnItsWay(r)'
  BY <1>7 DEF Cancel, Alive
<1>8. ASSUME NEW q \in Records, Persist(q) \/ PersistRaises(q)
      PROVE  OnItsWay(r)'
  BY <1>8 DEF Persist, PersistRaises, Alive
<1>10. ASSUME NEW q \in Records, Put(q) PROVE OnItsWay(r)'
  <2>1. PICK it \in Item : it = [rec |-> q, attempts |-> 0]
    <3> 0 \in 0 .. MaxAttempts
      BY ConstantsAssumption
    <3> [rec |-> q, attempts |-> 0] \in Item
      BY DEF Item
    <3> QED
      OBVIOUS
  <2>2. Items(queue') = Items(queue) \cup {it} /\ it.rec = q
    BY <1>10, <2>1, ItemsAppend DEF Put
  <2> QED
    BY <1>10, <2>2 DEF Put, Alive
<1>11. CASE WorkerGet
  <2>1. PICK it \in Item : it = Head(queue)
    BY <1>11, ItemsTail DEF WorkerGet
  <2>2. Items(queue) = Items(queue') \cup {it}
    BY <1>11, <2>1, ItemsTail DEF WorkerGet
  <2>3. it.attempts < MaxAttempts
    BY <2>2, TypesOfItems DEF MemoryInv, ReceiptsMatch
  <2>4. hand' = {it} /\ phase' = phase
    BY <1>11, <2>1, <2>3 DEF WorkerGet
  <2> QED
    BY <1>11, <2>2, <2>4, TypesOfItems DEF WorkerGet
<1>12. CASE RecordOk \/ BackoffOver
  BY <1>12 DEF RecordOk, BackoffOver, Keep
<1>13. CASE RecordRaises
  <2>1. PICK it \in Item : /\ hand = {it}
                           /\ hand' = {[it EXCEPT !.attempts = @ + 1]}
    BY <1>13, TypesOfItems DEF RecordRaises
  <2>2. [it EXCEPT !.attempts = @ + 1].rec = it.rec
    BY DEF Item
  <2> QED
    BY <1>13, <2>1, <2>2 DEF RecordRaises
<1>14. CASE MarkAttempt
  <2>1. PICK it \in hand : /\ MarkReceipt(it)
                           /\ IF Spent(it) THEN Release("idle") ELSE Keep("backoff")
    BY <1>14 DEF MarkAttempt
  <2>2. spool' = [spool EXCEPT ![it.rec] = StatusAfter(it)] /\ it.rec \in Records
    BY <1>f, <2>1 DEF MarkReceipt
  <2>3. hand = {it}
    BY <1>14, TypesOfItems DEF MarkAttempt
  <2> QED
    BY <1>14, <2>1, <2>2, <2>3 DEF MarkAttempt, StatusAfter, Keep, Release, TaskDone
<1>16. CASE DeleteSpooled
  <2>1. PICK it \in hand : spool' = [spool EXCEPT ![it.rec] = "absent"]
    BY <1>16 DEF DeleteSpooled
  <2>2. hand = {it} /\ it.rec \in Records
    BY <1>16, TypesOfItems DEF DeleteSpooled
  <2> QED
    BY <1>16, <2>1, <2>2 DEF DeleteSpooled, Release, TaskDone
<1>17. CASE WorkerDies
  BY <1>17 DEF WorkerDies
<1>18. ASSUME NEW d \in Readers, FlushStart(d) \/ ListUsage(d)
       PROVE  OnItsWay(r)'
  BY <1>18 DEF FlushStart, ListUsage
<1>20. CASE Stop
  BY <1>20 DEF Stop
<1>21. CASE StopCancel \/ Exit \/ Crash
  BY <1>21 DEF StopCancel, Exit, Crash, ProcessEnds
<1>24. CASE UNCHANGED <<durable, vars>>
  BY <1>24 DEF vars
<1> QED
  BY <1>1, <1>2, <1>3, <1>4, <1>5, <1>6, <1>7, <1>8, <1>10, <1>11, <1>12,
     <1>13, <1>14, <1>16, <1>17, <1>18, <1>20, <1>21, <1>24
  DEF Next, Step, Startup, CallerStep, WorkerStep

\* A pending receipt stays on its way while no worker has died.
THEOREM FlowInvInvariant == Spec => []FlowInv
<1>1. Init => FlowInv
  BY DEF Init, FlowInv
<1> QED
  BY <1>1, FlowInvNext, TypeInvInvariant, MemoryInvInvariant, PTL DEF Spec

\* While requests are served, no pending receipt is forgotten.
THEOREM NoReceiptIsForgotten == Spec => []PendingIsOnItsWay
<1>1. TypeInv /\ MemoryInv /\ FlowInv => PendingIsOnItsWay
  <2> SUFFICES ASSUME TypeInv, MemoryInv, FlowInv, durable, ~SpoolMayFail,
                      phase = "serving", NEW r \in Records,
                      spool[r] = "pending"
               PROVE  \/ QueuedAt(r) # {}
                      \/ Mentions(hand, r)
                      \/ caller[r] \in {"putting", "cancelled"}
    BY DEF PendingIsOnItsWay
  <2>1. OnItsWay(r) /\ toReplay = {}
    BY DEF FlowInv, MemoryInv, StartIsFresh
  <2> QED
    BY <2>1 DEF OnItsWay, Waiting, Items, QueuedAt, Mentions
<1> QED
  BY <1>1, TypeInvInvariant, MemoryInvInvariant, FlowInvInvariant, PTL

\* Once join() may return, every accepted record is settled.
DrainedIsSettled ==
  (durable /\ ~SpoolMayFail /\ phase \in {"serving", "stopping", "joined"}
     /\ Drained) =>
    \A r \in Accepted : Settled(r)

\* When flush() or stop() finds the queue drained, nothing accepted is open.
THEOREM DrainedIsSettledInvariant == Spec => []DrainedIsSettled
<1>1. TypeInv /\ KeptInv /\ MemoryInv /\ FlowInv => DrainedIsSettled
  <2> SUFFICES ASSUME TypeInv, KeptInv, MemoryInv, FlowInv, durable,
                      ~SpoolMayFail,
                      phase \in {"serving", "stopping", "joined"}, Drained,
                      NEW r \in Accepted, ~Settled(r)
               PROVE  FALSE
    BY DEF DrainedIsSettled
  <2>1. spool[r] = "pending" /\ caller[r] = "returned" /\ r \in Records
    BY DEF KeptInv, Kept, Accepted, Settled, TypeInv, TypeOK, RowStatus
  <2>2. toReplay = {}
    BY DEF MemoryInv, StartIsFresh
  <2>3. Len(queue) = 0 /\ hand = {}
    BY DEF TypeInv, TypeOK, Counted, Drained
  <2>4. Items(queue) = {}
    BY <2>3 DEF Items
  <2>5. OnItsWay(r)
    BY <2>1 DEF FlowInv
  <2> QED
    BY <2>1, <2>2, <2>3, <2>4, <2>5 DEF OnItsWay, Waiting
<1> QED
  BY <1>1, TypeInvInvariant, KeptInvInit, KeptInvNext, MemoryInvInvariant,
     FlowInvInvariant, PTL DEF Spec

\* A dead letter stays one, and an accepted record stays accepted.
LEMMA EndsAreFinal ==
  ASSUME TypeInv, KeptInv, MemoryInv, [Next]_<<durable, vars>>
  PROVE  /\ \A r \in Records : spool[r] = "dead_letter" => spool'[r] = "dead_letter"
         /\ \A r \in Records : Settled(r) => Settled(r)'
         /\ Accepted \subseteq Accepted'
<1>1. logs \subseteq logs'
  BY StepKeepsRows DEF KeepsRows
<1>2. ASSUME NEW r \in Records, spool[r] = "dead_letter"
      PROVE  spool'[r] = "dead_letter"
  <2>t. /\ spool \in [Records -> RowStatus]
        /\ caller[r] # "persisting"
        /\ durable => \A a \in hand : a.rec # r
        /\ durable
    BY <1>2 DEF TypeInv, TypeOK, MemoryInv, ReceiptsMatch, NoSpoolUnused
  <2> USE <1>2, <2>t DEF requests, memory, disk, history
  <2>1. CASE Startup
    BY <2>1 DEF Startup, Start, LoadSpooled, ReplayPut, StartDone
  <2>2. ASSUME NEW q \in Records,
               RecordDirect(q) \/ RecordAsync(q) \/ Cancel(q) \/ CallerStep(q)
        PROVE  spool'[r] = "dead_letter"
    BY <2>2 DEF RecordDirect, RecordAsync, Cancel, CallerStep, Persist,
                PersistRaises, Put
  <2>3. CASE WorkerStep
    BY <2>3 DEF WorkerStep, WorkerGet, RecordOk, RecordRaises, MarkAttempt,
                MarkReceipt, BackoffOver, DeleteSpooled, WorkerDies
  <2>4. ASSUME NEW d \in Readers, FlushStart(d) \/ ListUsage(d)
        PROVE  spool'[r] = "dead_letter"
    BY <2>4 DEF FlushStart, ListUsage
  <2>5. CASE Stop \/ Exit \/ Crash
    BY <2>5 DEF Stop, Exit, Crash, ProcessEnds
  <2>6. CASE StopCancel
    BY <2>6 DEF StopCancel, ThreadOutcome, MarkReceipt
  <2>7. CASE UNCHANGED <<durable, vars>>
    BY <2>7 DEF vars
  <2> QED
    BY <2>1, <2>2, <2>3, <2>4, <2>5, <2>6, <2>7 DEF Next, Step
<1>3. ASSUME NEW r \in Records, caller[r] = "returned"
      PROVE  caller'[r] = "returned"
  <2>t. caller \in [Records -> CallerPc]
    BY DEF TypeInv, TypeOK
  <2> USE <1>3, <2>t DEF requests, memory, disk, history
  <2>1. CASE Startup
    BY <2>1 DEF Startup, Start, LoadSpooled, ReplayPut, StartDone
  <2>2. ASSUME NEW q \in Records,
               RecordDirect(q) \/ RecordAsync(q) \/ Cancel(q) \/ CallerStep(q)
        PROVE  caller'[r] = "returned"
    BY <2>2 DEF RecordDirect, RecordAsync, Cancel, CallerStep, Persist,
                PersistRaises, Put
  <2>3. CASE WorkerStep
    BY <2>3 DEF WorkerStep, WorkerGet, RecordOk, RecordRaises, MarkAttempt,
                BackoffOver, DeleteSpooled, WorkerDies
  <2>4. ASSUME NEW d \in Readers, FlushStart(d) \/ ListUsage(d)
        PROVE  caller'[r] = "returned"
    BY <2>4 DEF FlushStart, ListUsage
  <2>5. CASE Stop \/ StopCancel \/ Exit \/ Crash
    BY <2>5 DEF Stop, StopCancel, Exit, Crash, ProcessEnds
  <2>7. CASE UNCHANGED <<durable, vars>>
    BY <2>7 DEF vars
  <2> QED
    BY <2>1, <2>2, <2>3, <2>4, <2>5, <2>7 DEF Next, Step
<1> QED
  BY <1>1, <1>2, <1>3 DEF Settled, Accepted

\* A worker step that releases the readers leaves nothing unsettled.
LEMMA ReadInvNext ==
  /\ TypeInv /\ KeptInv /\ MemoryInv /\ ReadInv
  /\ DrainedIsSettled /\ DrainedIsSettled'
  /\ [Next]_<<durable, vars>>
  => ReadInv'
<1> SUFFICES ASSUME TypeInv, KeptInv, MemoryInv, ReadInv, DrainedIsSettled,
                    DrainedIsSettled', [Next]_<<durable, vars>>,
                    durable, ~SpoolMayFail
             PROVE  ReadInv'
  BY DEF ReadInv, Next
<1>t. /\ reader \in [Readers -> ReaderPc]
      /\ expected \in [Readers -> SUBSET Records]
      /\ seen \in [Readers -> SUBSET Records]
      /\ unfinished \in Nat
      /\ phase \in Phase
  BY DEF TypeInv, TypeOK
<1>d. durable' = durable
  BY DEF Next
<1>e. /\ \A r \in Records : spool[r] = "dead_letter" => spool'[r] = "dead_letter"
      /\ \A r \in Records : Settled(r) => Settled(r)'
      /\ Accepted \subseteq Accepted'
      /\ Accepted \subseteq Records
  BY EndsAreFinal DEF Accepted
<1> USE <1>t, <1>d, <1>e DEF ReadInv, Starting, requests, memory, disk, history
\* The readers are left alone, and the phase moves on as it may.
<1>1. CASE reader' = reader /\ expected' = expected /\ seen' = seen
           /\ (phase = "stopped" => phase' = "stopped")
           /\ (Starting' => Starting)
  BY <1>1
<1>2. CASE Startup
  BY <1>1, <1>2 DEF Startup, Start, LoadSpooled, ReplayPut, StartDone
<1>3. ASSUME NEW q \in Records,
             RecordDirect(q) \/ RecordAsync(q) \/ Cancel(q) \/ CallerStep(q)
      PROVE  ReadInv'
  BY <1>1, <1>3 DEF RecordDirect, RecordAsync, Cancel, CallerStep, Persist,
              PersistRaises, Put
<1>4. CASE WorkerStep
  <2>1. /\ expected' = expected /\ seen' = seen /\ caller' = caller
        /\ (reader' = reader /\ phase' = phase) \/ TaskDone
    BY <1>4 DEF WorkerStep, WorkerGet, RecordOk, RecordRaises, MarkAttempt,
                BackoffOver, DeleteSpooled, WorkerDies, Keep, Release
  <2>2. ~Starting' \/ phase' = phase
    BY <2>1 DEF TaskDone
  <2>3. CASE TaskDone /\ unfinished = 1
    <3>1. /\ reader' = [d \in Readers |-> IF reader[d] = "joining" THEN "listing"
                                                                ELSE reader[d]]
          /\ phase' = IF phase = "stopping" THEN "joined" ELSE phase
          /\ unfinished' = 0
      BY <2>3 DEF TaskDone
    <3>2. phase' \in {"serving", "stopping", "joined"} =>
            \A r \in Accepted' : Settled(r)'
      BY <3>1 DEF DrainedIsSettled, Drained
    <3> HIDE DEF Settled
    <3>3. Starting => reader' = reader
      BY <2>3, <3>1
    <3>4. \A d \in Readers : reader'[d] # "idle" => expected'[d] \subseteq Accepted'
      BY <2>1, <3>1
    <3>5. Starting' => \A d \in Readers : reader'[d] # "joining"
      BY <3>1
    <3>6. phase' # "stopped" => \A d \in Readers : reader'[d] = "listing" =>
                                  \A r \in expected'[d] : Settled(r)'
      BY <2>1, <3>1, <3>2, <3>3, <3>4 DEF Phase
    <3>7. \A d \in Readers : reader'[d] = "done" =>
            \A r \in expected'[d] : r \in seen'[d] \/ spool'[r] = "dead_letter"
      BY <2>1, <3>1
    <3> QED
      BY <3>4, <3>5, <3>6, <3>7
  <2>4. CASE reader' = reader /\ phase' = phase
    BY <1>1, <2>1, <2>4
  <2> QED
    BY <2>1, <2>3, <2>4 DEF TaskDone
<1>5. ASSUME NEW d \in Readers, FlushStart(d) PROVE ReadInv'
  <2>1. /\ reader[d] = "idle" /\ phase' = phase /\ seen' = seen /\ spool' = spool
        /\ expected' = [expected EXCEPT ![d] = Awaited]
    BY <1>5 DEF FlushStart
  <2>2. CASE phase = "created"
    <3>1. reader' = [reader EXCEPT ![d] = "listing"]
      BY <1>5, <2>2 DEF FlushStart
    <3>2. Awaited \subseteq Accepted /\ \A r \in Awaited : Settled(r)
      BY <2>2 DEF Awaited, Accepted, KeptInv, Kept, Settled, TypeInv, TypeOK,
                  RowStatus
    <3> HIDE DEF Settled
    <3> QED
      BY <2>1, <2>2, <3>1, <3>2
  <2>3. CASE phase # "created"
    <3>1. /\ reader' = [reader EXCEPT ![d] = IF Drained THEN "listing" ELSE "joining"]
          /\ ~Starting'
          /\ Awaited = Accepted
      BY <1>5, <2>1, <2>3 DEF FlushStart, Awaited, Alive
    <3>2. (phase # "stopped" /\ Drained) => \A r \in Accepted : Settled(r)'
      BY <2>1, <3>1 DEF DrainedIsSettled, Phase
    <3> HIDE DEF Settled
    <3> QED
      BY <2>1, <3>1, <3>2
  <2> QED
    BY <2>2, <2>3
<1>6. ASSUME NEW d \in Readers, ListUsage(d) PROVE ReadInv'
  <2>1. /\ reader[d] = "listing" /\ phase' = phase
        /\ expected' = expected /\ seen' = [seen EXCEPT ![d] = logs]
        /\ spool' = spool
    BY <1>6 DEF ListUsage
  <2>2. CASE phase \in {"stopping", "joined", "stopped"}
    <3>1. reader' = [reader EXCEPT ![d] = "late"]
      BY <1>6, <2>2 DEF ListUsage
    <3> QED
      BY <2>1, <3>1
  <2>3. CASE phase \notin {"stopping", "joined", "stopped"}
    <3>1. reader' = [reader EXCEPT ![d] = "done"]
      BY <1>6, <2>3 DEF ListUsage
    <3>2. \A r \in expected[d] : r \in logs \/ spool[r] = "dead_letter"
      BY <2>1, <2>3 DEF Settled
    <3> QED
      BY <2>1, <3>1, <3>2
  <2> QED
    BY <2>2, <2>3
<1>7. CASE Stop
  BY <1>1, <1>7 DEF Stop
<1>8. CASE StopCancel
  <2>1. /\ phase' = "stopped" /\ expected' = expected /\ seen' = seen
        /\ \A d \in Readers :
             reader'[d] = reader[d]
               \/ (reader[d] = "joining" /\ reader'[d] = "listing")
    BY <1>8 DEF StopCancel
  <2> QED
    BY <2>1
<1>9. CASE Exit \/ Crash
  <2>1. ProcessEnds
    BY <1>9 DEF Exit, Crash
  <2> QED
    BY <2>1 DEF ProcessEnds
<1>10. CASE UNCHANGED <<durable, vars>>
  BY <1>1, <1>10 DEF vars
<1> QED
  BY <1>2, <1>3, <1>4, <1>5, <1>6, <1>7, <1>8, <1>9, <1>10 DEF Next, Step

\* GET /admin/usage shows what was accepted before it, across restarts and
\* whatever inserts fail; in a process without start(), what was accepted and
\* is not on a receipt that an earlier process left pending.
THEOREM ReadsAreComplete == Spec => []ReadSeesAccepted
<1>1. Init => ReadInv
  BY DEF Init, ReadInv, Accepted
<1>2. ReadInv => ReadSeesAccepted
  BY DEF ReadInv, ReadSeesAccepted
<1> QED
  BY <1>1, <1>2, ReadInvNext, TypeInvInvariant, KeptInvInit, KeptInvNext,
     MemoryInvInvariant, DrainedIsSettledInvariant, PTL DEF Spec

-----------------------------------------------------------------------------
(* Every step is a step of the ledger.                                     *)

\* A step moves one record on, as the ledger allows, or none.
Advances(r) ==
  /\ \A q \in Records \ {r} : RecordFate(q)' = RecordFate(q)
  /\ \/ RecordFate(r)' = RecordFate(r)
     \/ RecordFate(r) = "none" /\ RecordFate(r)' = "written"
     \/ RecordFate(r) = "written" /\ RecordFate(r)' = "accepted"
     \/ RecordFate(r) # "dead" /\ RecordFate(r)' = "logged"
     \/ RecordFate(r) \in {"written", "accepted"} /\ RecordFate(r)' = "dead"

Still == \A q \in Records : RecordFate(q)' = RecordFate(q)

LedgerStep == Still \/ \E r \in Records : Advances(r)

LEMMA LedgerStepIsOne == LedgerStep => [Ledger!Next]_[r \in Records |-> RecordFate(r)]
<1> DEFINE F == [r \in Records |-> RecordFate(r)]
<1>1. ASSUME Still PROVE F' = F
  BY <1>1 DEF Still
<1>2. ASSUME NEW r \in Records, Advances(r) PROVE F' = F \/ Ledger!Next
  <2>1. F' = [F EXCEPT ![r] = RecordFate(r)'] /\ F[r] = RecordFate(r)
    BY <1>2 DEF Advances
  <2>2. RecordFate(r) \in {"none", "written", "accepted", "logged", "dead"}
    BY DEF RecordFate
  <2>3. CASE RecordFate(r)' = RecordFate(r)
    BY <2>1, <2>3
  <2>4. CASE RecordFate(r) = "none" /\ RecordFate(r)' = "written"
    BY <2>1, <2>4 DEF Ledger!Next, Ledger!Write, Ledger!Become
  <2>5. CASE RecordFate(r) = "written" /\ RecordFate(r)' = "accepted"
    BY <2>1, <2>5 DEF Ledger!Next, Ledger!Accept, Ledger!Become
  <2>6. CASE RecordFate(r) # "dead" /\ RecordFate(r)' = "logged"
    <3>1. CASE RecordFate(r) = "logged"
      BY <2>1, <2>6, <3>1
    <3>2. CASE RecordFate(r) # "logged"
      BY <2>1, <2>2, <2>6, <3>2 DEF Ledger!Next, Ledger!Log, Ledger!Become
    <3> QED
      BY <3>1, <3>2
  <2>7. CASE RecordFate(r) \in {"written", "accepted"} /\ RecordFate(r)' = "dead"
    BY <2>1, <2>7 DEF Ledger!Next, Ledger!GiveUp, Ledger!Become
  <2> QED
    BY <1>2, <2>3, <2>4, <2>5, <2>6, <2>7 DEF Advances
<1> QED
  BY <1>1, <1>2 DEF LedgerStep

\* The worker, or what stop() leaves of it, moves on one record that its request
\* is done with.
Settles(r) ==
  /\ caller' = caller
  /\ caller[r] \notin {"idle", "persisting", "putting"}
  /\ durable => spool[r] = "pending"
  /\ \A q \in Records \ {r} : RecordFate(q)' = RecordFate(q)
  /\ \/ RecordFate(r)' = RecordFate(r)
     \/ RecordFate(r) # "dead" /\ RecordFate(r)' = "logged"
     \/ RecordFate(r) \in {"written", "accepted"} /\ RecordFate(r)' = "dead"

LEMMA WorkSettlesOne ==
  ASSUME TypeInv, KeptInv, MemoryInv, WorkerStep \/ StopCancel
  PROVE  caller' = caller /\ (Still \/ \E r \in Records : Settles(r))
<1>t. /\ caller \in [Records -> CallerPc]
      /\ spool \in [Records -> RowStatus]
      /\ ~durable => \A r \in Records : spool[r] = "absent"
      /\ \A a \in hand : /\ a.rec \in Records
                         /\ durable => spool[a.rec] = "pending"
                         /\ caller[a.rec] \notin {"idle", "persisting", "putting"}
      /\ workerPc \in {"marking", "committed"} => durable
      /\ workerPc = "committed" => \A a \in hand : a.rec \in logs
  BY TypesOfItems
  DEF TypeInv, TypeOK, KeptInv, MemoryInv, OnePlace, ReceiptsMatch, NoSpoolUnused
<1>c. caller' = caller
  BY DEF WorkerStep, WorkerGet, RecordOk, RecordRaises, MarkAttempt, BackoffOver,
         DeleteSpooled, WorkerDies, StopCancel
<1> USE <1>t, <1>c DEF RowStatus, disk, history
<1> DEFINE Goal == Still \/ \E r \in Records : Settles(r)
<1>0. CASE UNCHANGED <<spool, logs>>
  BY <1>0 DEF Still, RecordFate
<1>1. ASSUME NEW it \in hand, spool' = spool, logs' = logs \/ logs' = logs \cup {it.rec}
      PROVE  Goal
  <2>1. Settles(it.rec)
    BY <1>1 DEF Settles, RecordFate
  <2> QED
    BY <2>1
<1>2. ASSUME NEW it \in hand, durable, logs' = logs, MarkReceipt(it)
      PROVE  Goal
  <2>1. PICK st \in {"pending", "dead_letter"} : spool' = [spool EXCEPT ![it.rec] = st]
    BY <1>2 DEF MarkReceipt, StatusAfter
  <2>2. Settles(it.rec)
    BY <1>2, <2>1 DEF Settles, RecordFate
  <2> QED
    BY <2>2
<1>3. ASSUME NEW it \in hand, durable, logs' = logs, it.rec \in logs,
             spool' = [spool EXCEPT ![it.rec] = "absent"]
      PROVE  Goal
  <2>1. Settles(it.rec)
    BY <1>3 DEF Settles, RecordFate
  <2> QED
    BY <2>1
<1>4. CASE WorkerGet \/ BackoffOver \/ WorkerDies
  BY <1>0, <1>4 DEF WorkerGet, BackoffOver, WorkerDies
<1>5. CASE RecordOk \/ RecordRaises
  <2>1. PICK it \in hand : logs' = logs \/ logs' = logs \cup {it.rec}
    BY <1>5 DEF RecordOk, RecordRaises, LogsAfterFailure
  <2>2. spool' = spool
    BY <1>5 DEF RecordOk, RecordRaises
  <2> QED
    BY <1>1, <2>1, <2>2
<1>6. CASE MarkAttempt
  <2>1. PICK it \in hand : MarkReceipt(it)
    BY <1>6 DEF MarkAttempt
  <2>2. durable /\ logs' = logs
    BY <1>6 DEF MarkAttempt
  <2> QED
    BY <1>2, <2>1, <2>2
<1>7. CASE DeleteSpooled
  <2>1. PICK it \in hand : spool' = [spool EXCEPT ![it.rec] = "absent"]
    BY <1>7 DEF DeleteSpooled
  <2>2. durable /\ logs' = logs /\ it.rec \in logs
    BY <1>7 DEF DeleteSpooled
  <2> QED
    BY <1>3, <2>1, <2>2
<1>8. CASE StopCancel
  <2>1. ThreadOutcome
    BY <1>8 DEF StopCancel
  <2>2. CASE UNCHANGED <<logs, spool, spoolAttempts>>
    BY <1>0, <2>2
  <2>3. ASSUME NEW it \in hand, logs' = logs \cup {it.rec}, spool' = spool
        PROVE  Goal
    BY <1>1, <2>3
  <2>4. ASSUME NEW it \in hand, workerPc = "committed", logs' = logs,
               spool' = [spool EXCEPT ![it.rec] = "absent"]
        PROVE  Goal
    BY <1>3, <2>4
  <2>5. ASSUME NEW it \in hand, workerPc = "marking", logs' = logs, MarkReceipt(it)
        PROVE  Goal
    BY <1>2, <2>5
  <2> QED
    BY <2>1, <2>2, <2>3, <2>4, <2>5 DEF ThreadOutcome
<1> QED
  BY <1>4, <1>5, <1>6, <1>7, <1>8 DEF WorkerStep

\* The steps in which the recorder works for no request leave every fate alone.
LEMMA HousekeepingIsStill ==
  ASSUME TypeInv,
         \/ Startup \/ Stop \/ Exit \/ Crash \/ UNCHANGED vars
         \/ \E d \in Readers : FlushStart(d) \/ ListUsage(d)
  PROVE  Still
<1>1. CASE UNCHANGED <<spool, logs, caller>>
  BY <1>1 DEF Still, RecordFate
<1>2. CASE Startup \/ Stop \/ UNCHANGED vars
  BY <1>1, <1>2 DEF Startup, Start, LoadSpooled, ReplayPut, StartDone, Stop, vars,
                    requests, disk
<1>3. CASE \E d \in Readers : FlushStart(d) \/ ListUsage(d)
  BY <1>1, <1>3 DEF FlushStart, ListUsage, disk
<1>4. CASE Exit \/ Crash
  BY <1>4 DEF Exit, Crash, ProcessEnds, disk, Still, RecordFate, TypeInv, TypeOK
<1> QED
  BY <1>2, <1>3, <1>4

LEMMA EveryStepIsOfLedger ==
  TypeInv /\ KeptInv /\ MemoryInv /\ [Next]_<<durable, vars>> => LedgerStep
<1> SUFFICES ASSUME TypeInv, KeptInv, MemoryInv, [Next]_<<durable, vars>>
             PROVE  LedgerStep
  OBVIOUS
<1>1. ASSUME NEW r \in Records,
             RecordDirect(r) \/ RecordAsync(r) \/ Cancel(r) \/ CallerStep(r)
      PROVE  Advances(r)
  <2>t. /\ caller \in [Records -> CallerPc]
        /\ spool \in [Records -> RowStatus]
        /\ \A q \in Records : caller[q] \in {"idle", "persisting"} =>
             spool[q] = "absent" /\ q \notin logs
        /\ \A q \in Records : durable /\ caller[q] = "putting" => spool[q] = "pending"
        /\ ~durable => \A q \in Records : spool[q] = "absent"
    BY DEF TypeInv, TypeOK, MemoryInv, ReceiptsMatch, NoSpoolUnused
  <2> USE <2>t DEF RowStatus, disk, memory, history, Advances, RecordFate
  <2>1. CASE RecordDirect(r)
    BY <2>1 DEF RecordDirect, LogsAfterFailure
  <2>2. CASE RecordAsync(r)
    BY <2>2 DEF RecordAsync
  <2>3. CASE Cancel(r)
    BY <2>3 DEF Cancel
  <2>4. CASE Persist(r) \/ PersistRaises(r)
    BY <2>4 DEF Persist, PersistRaises
  <2>5. CASE Put(r)
    BY <2>5 DEF Put
  <2> QED
    BY <1>1, <2>1, <2>2, <2>3, <2>4, <2>5 DEF CallerStep
<1>2. CASE WorkerStep \/ StopCancel
  <2>1. \A r \in Records : Settles(r) => Advances(r)
    BY DEF Settles, Advances
  <2> QED
    BY <1>2, <2>1, WorkSettlesOne DEF LedgerStep
<1> QED
  BY <1>1, <1>2, HousekeepingIsStill DEF Next, Step, LedgerStep

\* The recorder implements the ledger, with or without a spool, however
\* inserts, spool operations, requests and processes fail: no record
\* disappears, is taken back or comes back.
THEOREM ImplementsTheLedger == Spec => ImplementsLedgerSafely
<1>1. Init => Ledger!Init
  BY DEF Init, Ledger!Init, RecordFate
<1>2. TypeInv /\ KeptInv /\ MemoryInv /\ [Next]_<<durable, vars>>
        => [Ledger!Next]_[r \in Records |-> RecordFate(r)]
  BY EveryStepIsOfLedger, LedgerStepIsOne
<1> QED
  BY <1>1, <1>2, TypeInvInvariant, KeptInvInit, KeptInvNext,
     MemoryInvInvariant, PTL
  DEF Spec, ImplementsLedgerSafely, Ledger!Spec

-----------------------------------------------------------------------------
(* What another process on the same spool may rely on.                     *)

Fresh(r) == caller[r] \in {"idle", "persisting"}

\* Nothing has been done about the record yet.
Untouched(r) ==
  /\ spool[r] = "absent"
  /\ r \notin logs
  /\ \A a \in Waiting \cup hand : a.rec # r

\* Only the request of a record brings it into the system, and only its
\* persisting creates a receipt.
LEMMA RequestsComeFirst ==
  ASSUME TypeInv, Next, NEW r \in Records
  PROVE  /\ Fresh(r)' => Fresh(r)
         /\ Fresh(r)' /\ Untouched(r) => Untouched(r)'
         /\ spool[r] = "absent" /\ spool'[r] # "absent" =>
              caller[r] = "persisting"
<1> DEFINE Goal == /\ Fresh(r)' => Fresh(r)
                   /\ Fresh(r)' /\ Untouched(r) => Untouched(r)'
                   /\ spool[r] = "absent" /\ spool'[r] # "absent" =>
                        caller[r] = "persisting"
<1>t. /\ queue \in Seq(Item)
      /\ caller \in [Records -> CallerPc]
      /\ spool \in [Records -> RowStatus]
      /\ \A a \in hand : a.rec \in Records
  BY TypesOfItems DEF TypeInv, TypeOK
<1> USE <1>t DEF Fresh, Untouched, Waiting, requests, memory, disk, history
<1>1. CASE Start \/ StartDone
  BY <1>1 DEF Start, StartDone
<1>2. CASE LoadSpooled
  BY <1>2 DEF LoadSpooled, PendingReceipts, Receipt
<1>3. CASE ReplayPut
  <2>1. PICK it \in toReplay : /\ queue' = Append(queue, it)
                               /\ toReplay' = toReplay \ {it}
    BY <1>3 DEF ReplayPut
  <2>2. it \in Item
    BY <2>1, TypesOfItems
  <2>3. Items(queue') = Items(queue) \cup {it}
    BY <2>1, <2>2, ItemsAppend
  <2> QED
    BY <1>3, <2>1, <2>3 DEF ReplayPut
<1>4. ASSUME NEW q \in Records,
             RecordDirect(q) \/ RecordAsync(q) \/ Cancel(q) \/ Persist(q)
               \/ PersistRaises(q)
      PROVE  Goal
  BY <1>4 DEF RecordDirect, LogsAfterFailure, RecordAsync, Cancel, Persist,
              PersistRaises
<1>5. ASSUME NEW q \in Records, Put(q) PROVE Goal
  <2>1. PICK it \in Item : it = [rec |-> q, attempts |-> 0]
    <3> 0 \in 0 .. MaxAttempts
      BY ConstantsAssumption
    <3> [rec |-> q, attempts |-> 0] \in Item
      BY DEF Item
    <3> QED
      OBVIOUS
  <2>2. Items(queue') = Items(queue) \cup {it} /\ it.rec = q
    BY <1>5, <2>1, ItemsAppend DEF Put
  <2> QED
    BY <1>5, <2>2 DEF Put
<1>6. CASE WorkerGet
  <2>1. PICK it \in Item : it = Head(queue)
    BY <1>6, ItemsTail DEF WorkerGet
  <2>2. Items(queue) = Items(queue') \cup {it}
    BY <1>6, <2>1, ItemsTail DEF WorkerGet
  <2>3. hand' = {it} \/ hand' = {}
    BY <1>6, <2>1 DEF WorkerGet, Release
  <2> QED
    BY <1>6, <2>2, <2>3 DEF WorkerGet
<1>7. CASE RecordOk \/ BackoffOver \/ WorkerDies
  BY <1>7 DEF RecordOk, BackoffOver, WorkerDies, Keep, Release
<1>8. CASE RecordRaises
  <2>1. PICK it \in Item : /\ hand = {it}
                           /\ logs' \in LogsAfterFailure(it.rec)
                           /\ \/ hand' = {[it EXCEPT !.attempts = @ + 1]}
                              \/ hand' = {}
    BY <1>8, TypesOfItems DEF RecordRaises, Release
  <2>2. [it EXCEPT !.attempts = @ + 1].rec = it.rec
    BY DEF Item
  <2> QED
    BY <1>8, <2>1, <2>2 DEF RecordRaises, LogsAfterFailure
<1>9. CASE MarkAttempt
  BY <1>9 DEF MarkAttempt, MarkReceipt, Keep, Release
<1>10. CASE DeleteSpooled
  BY <1>10 DEF DeleteSpooled, Release
<1>11. ASSUME NEW d \in Readers, FlushStart(d) \/ ListUsage(d) PROVE Goal
  BY <1>11 DEF FlushStart, ListUsage
<1>12. CASE Stop
  BY <1>12 DEF Stop
<1>13. CASE StopCancel
  BY <1>13 DEF StopCancel, ThreadOutcome, MarkReceipt
<1>14. CASE Exit \/ Crash
  BY <1>14, ItemsEmpty DEF Exit, Crash, ProcessEnds
<1> QED
  BY <1>1, <1>2, <1>3, <1>4, <1>5, <1>6, <1>7, <1>8, <1>9, <1>10, <1>11,
     <1>12, <1>13, <1>14
  DEF Next, Step, Startup, CallerStep, WorkerStep
-----------------------------------------------------------------------------
(* Attempts over time.                                                     *)

\* A step counts one failure of a record at most, and takes no count and no
\* dead letter back: not a retry, a replay, stop() or a crash.
CountsOnce(r) ==
  /\ spoolAttempts'[r] \in {spoolAttempts[r], spoolAttempts[r] + 1}
  /\ spool[r] = "dead_letter" => spool'[r] = "dead_letter"

FailuresAreCountedOnce == [][\A r \in Records : CountsOnce(r)]_<<durable, vars>>

LEMMA StepCountsOnce ==
  ASSUME TypeInv, MemoryInv, [Next]_<<durable, vars>>
  PROVE  \A r \in Records : CountsOnce(r)
<1>t. /\ spool \in [Records -> RowStatus]
      /\ spoolAttempts \in [Records -> 0 .. MaxAttempts]
      /\ MaxAttempts \in Nat
      /\ \A r \in Records : caller[r] = "persisting" => spool[r] = "absent"
      /\ workerPc \in {"marking", "committed"} => durable
      /\ durable => \A a \in hand :
           /\ a.rec \in Records /\ spool[a.rec] = "pending"
           /\ a.attempts = spoolAttempts[a.rec]
                             + (IF workerPc = "marking" THEN 1 ELSE 0)
  BY TypesOfItems, ConstantsAssumption
  DEF TypeInv, TypeOK, MemoryInv, ReceiptsMatch, NoSpoolUnused
<1> DEFINE Goal == \A r \in Records : CountsOnce(r)
<1>1. CASE UNCHANGED <<spool, spoolAttempts>>
  BY <1>t, <1>1 DEF CountsOnce
<1>2. ASSUME NEW r \in Records, spool[r] = "absent", spoolAttempts' = spoolAttempts,
             spool' = [spool EXCEPT ![r] = "pending"]
      PROVE  Goal
  BY <1>t, <1>2 DEF CountsOnce
<1>3. ASSUME NEW it \in hand, workerPc = "marking", MarkReceipt(it)
      PROVE  Goal
  <2>1. PICK st \in {"pending", "dead_letter"} : spool' = [spool EXCEPT ![it.rec] = st]
    BY <1>t, <1>3 DEF MarkReceipt, StatusAfter
  <2>2. spoolAttempts' = [spoolAttempts EXCEPT ![it.rec] = spoolAttempts[it.rec] + 1]
    BY <1>t, <1>3 DEF MarkReceipt
  <2>3. it.rec \in Records /\ spool[it.rec] = "pending"
    BY <1>t, <1>3
  <2> QED
    BY <1>t, <2>1, <2>2, <2>3 DEF CountsOnce
<1>4. ASSUME NEW it \in hand, workerPc = "committed", spoolAttempts' = spoolAttempts,
             spool' = [spool EXCEPT ![it.rec] = "absent"]
      PROVE  Goal
  BY <1>t, <1>4 DEF CountsOnce
<1>5. ASSUME NEW r \in Records,
             RecordDirect(r) \/ RecordAsync(r) \/ Cancel(r) \/ CallerStep(r)
      PROVE  Goal
  <2>1. CASE RecordDirect(r) \/ RecordAsync(r) \/ Put(r)
    BY <1>1, <2>1 DEF RecordDirect, RecordAsync, Put, disk
  <2>2. CASE Persist(r) \/ PersistRaises(r) \/ Cancel(r)
    BY <1>t, <1>1, <1>2, <2>2 DEF Persist, PersistRaises, Cancel, disk
  <2> QED
    BY <1>5, <2>1, <2>2 DEF CallerStep
<1>6. CASE WorkerStep \/ StopCancel
  <2>1. CASE WorkerGet \/ RecordOk \/ RecordRaises \/ BackoffOver \/ WorkerDies
    BY <1>1, <2>1 DEF WorkerGet, RecordOk, RecordRaises, BackoffOver, WorkerDies, disk
  <2>2. CASE MarkAttempt
    BY <1>3, <2>2 DEF MarkAttempt
  <2>3. CASE DeleteSpooled
    BY <1>4, <2>3 DEF DeleteSpooled
  <2>4. CASE StopCancel
    BY <1>1, <1>3, <1>4, <2>4 DEF StopCancel, ThreadOutcome
  <2> QED
    BY <1>6, <2>1, <2>2, <2>3, <2>4 DEF WorkerStep
<1>7. CASE Startup \/ Stop \/ UNCHANGED vars \/ Exit \/ Crash
  BY <1>1, <1>7 DEF Startup, Start, LoadSpooled, ReplayPut, StartDone, Stop, vars,
                    requests, disk, Exit, Crash, ProcessEnds
<1>8. CASE \E d \in Readers : FlushStart(d) \/ ListUsage(d)
  BY <1>1, <1>8 DEF FlushStart, ListUsage, disk
<1> QED
  BY <1>5, <1>6, <1>7, <1>8 DEF Next, Step

\* The attempts of a record add up over all its processes, and a dead letter
\* stays one, however workers, requests and processes fail.
THEOREM AttemptsAddUp == Spec => FailuresAreCountedOnce
<1>1. TypeInv /\ MemoryInv /\ [Next]_<<durable, vars>>
        => [\A r \in Records : CountsOnce(r)]_<<durable, vars>>
  BY StepCountsOnce
<1> QED
  BY <1>1, TypeInvInvariant, MemoryInvInvariant, PTL DEF Spec, FailuresAreCountedOnce
-----------------------------------------------------------------------------
(* Whoever waits, waits for work the worker can do.                        *)

SomebodyJoins == phase = "stopping" \/ \E d \in Readers : reader[d] = "joining"

\* join() is not left waiting at zero.
JoinersHaveWork == SomebodyJoins => unfinished > 0

\* Only a failed spool operation takes the worker away while it is needed.
WorkerIsThere ==
  ~SpoolMayFail /\ phase \notin {"created", "stopped"} => workerPc # "none"

\* The guard of one of the worker's steps holds.
WorkerHasAStep ==
  \/ workerPc = "idle" /\ queue # <<>>
  \/ workerPc \in {"recording", "marking", "backoff", "committed"} /\ hand # {}

\* A read or stop() that waits in join() waits for records, and while there are
\* any, on the queue or in hand, the worker has its next step: so it has when a
\* full queue makes a request or the replay wait in put().
WaitingEndsWithTheWork ==
  /\ JoinersHaveWork
  /\ (~SpoolMayFail /\ phase \notin {"created", "stopped"} /\ unfinished > 0)
       => WorkerHasAStep
  /\ (~SpoolMayFail /\ phase \notin {"created", "stopped"} /\ Len(queue) = QueueSize)
       => WorkerHasAStep

LEMMA WaitInvNext ==
  ASSUME TypeInv, JoinersHaveWork, WorkerIsThere, [Next]_<<durable, vars>>
  PROVE  JoinersHaveWork' /\ WorkerIsThere'
<1>t. /\ unfinished \in Nat
      /\ reader \in [Readers -> ReaderPc]
      /\ hand # {} => unfinished # 0
      /\ workerPc \notin {"none", "idle"} => hand # {}
  <2>1. Len(queue) \in Nat /\ unfinished \in Nat /\ reader \in [Readers -> ReaderPc]
    BY DEF TypeInv, TypeOK
  <2>2. hand # {} => unfinished # 0
    <3>1. hand # {} => unfinished = Len(queue) + 1
      BY DEF TypeInv, Counted
    <3> QED
      BY <2>1, <3>1
  <2>3. workerPc \notin {"none", "idle"} => hand # {}
    BY DEF TypeInv, HandMatchesPc
  <2> QED
    BY <2>1, <2>2, <2>3
<1> DEFINE Goal == JoinersHaveWork' /\ WorkerIsThere'
<1>1. ASSUME TaskDone, unfinished # 0,
             workerPc' # "none" \/ SpoolMayFail
      PROVE  Goal
  <2>1. CASE unfinished = 1
    BY <1>t, <1>1, <2>1 DEF TaskDone, JoinersHaveWork, SomebodyJoins, WorkerIsThere
  <2>2. CASE unfinished # 1
    <3>1. unfinished' > 0
      BY <1>t, <1>1, <2>2 DEF TaskDone
    <3> QED
      BY <1>1, <2>2, <3>1 DEF TaskDone, JoinersHaveWork, WorkerIsThere
  <2> QED
    BY <2>1, <2>2
<1>2. ASSUME UNCHANGED <<phase, reader, workerPc>>,
             unfinished' = unfinished \/ unfinished' = unfinished + 1
      PROVE  Goal
  <2>1. unfinished > 0 => unfinished' > 0
    BY <1>t, <1>2
  <2> QED
    BY <1>2, <2>1 DEF JoinersHaveWork, SomebodyJoins, WorkerIsThere
<1>3. ASSUME UNCHANGED <<phase, reader, unfinished>>, workerPc' # "none"
      PROVE  Goal
  BY <1>3 DEF JoinersHaveWork, SomebodyJoins, WorkerIsThere
<1>4. ASSUME NEW r \in Records,
             RecordDirect(r) \/ RecordAsync(r) \/ Cancel(r) \/ CallerStep(r)
      PROVE  Goal
  BY <1>2, <1>4 DEF RecordDirect, RecordAsync, Cancel, CallerStep, Persist,
                    PersistRaises, Put, memory, history
<1>5. CASE WorkerStep
  <2>1. CASE WorkerGet
    <3>1. unfinished # 0
      <4>1. Len(queue) \in Nat /\ Len(queue) # 0
        BY <2>1 DEF WorkerGet, TypeInv, TypeOK
      <4> QED
        BY <4>1 DEF TypeInv, Counted
    <3> QED
      BY <1>1, <1>3, <2>1, <3>1 DEF WorkerGet, Release
  <2>2. CASE RecordOk \/ RecordRaises \/ MarkAttempt \/ DeleteSpooled
    <3>1. unfinished # 0
      BY <1>t, <2>2 DEF RecordOk, RecordRaises, MarkAttempt, DeleteSpooled
    <3>2. CASE TaskDone /\ workerPc' # "none"
      BY <1>1, <3>1, <3>2
    <3>3. CASE UNCHANGED <<phase, reader, unfinished>> /\ workerPc' # "none"
      BY <1>3, <3>3
    <3> QED
      BY <2>2, <3>2, <3>3
      DEF RecordOk, RecordRaises, MarkAttempt, DeleteSpooled, Release, Keep
  <2>3. CASE BackoffOver
    BY <1>3, <2>3 DEF BackoffOver, Keep
  <2>4. CASE WorkerDies
    BY <1>t, <1>1, <2>4 DEF WorkerDies, Release
  <2> QED
    BY <1>5, <2>1, <2>2, <2>3, <2>4 DEF WorkerStep
<1>6. CASE Startup
  <2>1. CASE Start
    BY <2>1 DEF Start, requests, JoinersHaveWork, SomebodyJoins, WorkerIsThere
  <2>2. CASE LoadSpooled \/ StartDone
    BY <2>2 DEF LoadSpooled, StartDone, requests, JoinersHaveWork, SomebodyJoins,
                WorkerIsThere
  <2>3. CASE ReplayPut
    BY <1>2, <2>3 DEF ReplayPut, requests
  <2> QED
    BY <1>6, <2>1, <2>2, <2>3 DEF Startup
<1>7. ASSUME NEW d \in Readers, FlushStart(d) \/ ListUsage(d)
      PROVE  Goal
  BY <1>t, <1>7
  DEF FlushStart, ListUsage, Drained, memory, JoinersHaveWork, SomebodyJoins,
      WorkerIsThere
<1>8. CASE Stop
  BY <1>t, <1>8 DEF Stop, Drained, JoinersHaveWork, SomebodyJoins, WorkerIsThere
<1>9. CASE StopCancel
  BY <1>t, <1>9 DEF StopCancel, JoinersHaveWork, SomebodyJoins, WorkerIsThere
<1>10. CASE Exit \/ Crash
  BY <1>t, <1>10
  DEF Exit, Crash, ProcessEnds, JoinersHaveWork, SomebodyJoins, WorkerIsThere
<1>11. CASE UNCHANGED vars
  BY <1>2, <1>11 DEF vars
<1> QED
  BY <1>4, <1>5, <1>6, <1>7, <1>8, <1>9, <1>10, <1>11 DEF Next, Step

\* Nobody waits for nothing: reads, stop(), requests and the replay that wait
\* wait for records the worker is about to handle, unless a failed spool
\* operation ended it.
THEOREM NobodyWaitsForNothing == Spec => []WaitingEndsWithTheWork
<1>1. Init => JoinersHaveWork /\ WorkerIsThere
  BY DEF Init, JoinersHaveWork, SomebodyJoins, WorkerIsThere
<1>2. TypeInv /\ JoinersHaveWork /\ WorkerIsThere => WaitingEndsWithTheWork
  <2> SUFFICES ASSUME TypeInv, JoinersHaveWork, WorkerIsThere,
                      ~SpoolMayFail, phase \notin {"created", "stopped"},
                      unfinished > 0 \/ Len(queue) = QueueSize
               PROVE  WorkerHasAStep
    BY DEF WaitingEndsWithTheWork
  <2>1. workerPc \in {"idle", "recording", "marking", "backoff", "committed"}
    BY DEF WorkerIsThere, TypeInv, TypeOK, WorkerPc
  <2>2. CASE workerPc = "idle"
    <3>1. Len(queue) # 0
      BY <2>2, ConstantsAssumption DEF TypeInv, TypeOK, HandMatchesPc, Counted
    <3> QED
      BY <2>2, <3>1 DEF WorkerHasAStep
  <2>3. CASE workerPc # "idle"
    BY <2>1, <2>3 DEF WorkerHasAStep, TypeInv, HandMatchesPc
  <2> QED
    BY <2>2, <2>3
<1>3. TypeInv /\ JoinersHaveWork /\ WorkerIsThere /\ [Next]_<<durable, vars>>
        => JoinersHaveWork' /\ WorkerIsThere'
  BY WaitInvNext
<1> QED
  BY <1>1, <1>2, <1>3, TypeInvInvariant, PTL DEF Spec
=============================================================================

---------------------------- MODULE UsageService ----------------------------
(***************************************************************************)
(* The usage recorder of the gateway: src/llm_control_center/services/     *)
(* usage.py.  A request hands its activity record to record_async, which   *)
(* writes it to a local SQLite spool and puts it on a bounded              *)
(* asyncio.Queue; one worker task takes records off the queue, inserts     *)
(* them into the SQL table usage_logs, and deletes the spooled receipt.    *)
(* Failed inserts are retried up to MaxAttempts times, then the receipt    *)
(* becomes a dead letter.  At start-up the pending receipts are replayed.  *)
(* GET /admin/usage flushes the queue (Queue.join) before it reads.        *)
(*                                                                         *)
(* A step of this module is what happens between two suspension points of  *)
(* a coroutine, or one transaction run by a thread-pool thread.  The       *)
(* process may crash between any two steps; spool, spoolAttempts and logs  *)
(* survive, everything else is memory.                                     *)
(***************************************************************************)
EXTENDS Naturals, Sequences, FiniteSets

CONSTANTS
  Records,      \* the activity records, one per request: their trace ids
  Readers,      \* the GET /admin/usage requests
  QueueSize,    \* maxsize of the asyncio.Queue
  MaxAttempts,  \* inserts tried per record before it is given up
  MaxRestarts,  \* bound: how often the process may crash or be stopped
  Spooling,     \* whether a spool path is configured: the cases considered
  SpoolMayFail, \* an SQLite operation on the spool may raise
  CommitMayBeLost, \* an insert may be committed and yet reported as failed
  CallersMayBeCancelled \* a request task may be cancelled at an await

ASSUME ConstantsAssumption ==
  /\ QueueSize \in Nat \ {0}
  /\ MaxAttempts \in Nat \ {0}
  /\ MaxRestarts \in Nat
  /\ Spooling \subseteq BOOLEAN
  /\ {SpoolMayFail, CommitMayBeLost, CallersMayBeCancelled} \subseteq BOOLEAN

VARIABLES
  durable,    \* a spool path is configured (the application's default)
  phase,      \* where the process is in the application's lifespan
  queue,      \* UsageService._queue
  unfinished, \* the queue's counter of unfinished tasks, which join() awaits
  toReplay,   \* receipts start() has loaded and not yet put on the queue
  workerPc,   \* where the worker task is in _run_worker
  hand,       \* the item the worker has taken, as a set of at most one
  spool,      \* status of each record's row in usage_spool
  spoolAttempts, \* the row's attempts column
  logs,       \* the trace ids of the rows of usage_logs
  caller,     \* where the request of each record is in record_async
  reader,     \* where each admin read is in list_usage
  expected,   \* history: the records each read has to show (Awaited)
  seen,       \* the records each read returned
  restarts    \* history: crashes and stops so far

vars == <<phase, queue, unfinished, toReplay, workerPc, hand, spool,
          spoolAttempts, logs, caller, reader, expected, seen, restarts>>
memory == <<phase, queue, unfinished, toReplay, workerPc, hand>>
disk == <<spool, spoolAttempts, logs>>
history == <<expected, seen, restarts>>
requests == <<caller, reader, expected, seen, restarts>>

Phase == {"created", "loading", "replaying", "serving", "stopping", "joined",
          "stopped"}
WorkerPc == {"none", "idle", "recording", "committed", "marking", "backoff"}
RowStatus == {"absent", "pending", "dead_letter"}
CallerPc == {"idle", "persisting", "putting", "returned", "raised",
             "cancelled", "lost"}
ReaderPc == {"idle", "joining", "listing", "done", "late", "lost"}

Item == [rec : Records, attempts : 0 .. MaxAttempts]

\* Request handlers run: start-up has completed and the process is alive.  In
\* phase "created" they run too, without a queue, if no lifespan is there to
\* start the recorder (app.LazyApp under a server that runs none).
Alive == phase \in {"serving", "stopping", "joined", "stopped"}

TypeOK ==
  /\ durable \in Spooling
  /\ phase \in Phase
  /\ queue \in Seq(Item)
  /\ unfinished \in Nat
  /\ toReplay \in SUBSET Item
  /\ workerPc \in WorkerPc
  /\ hand \in SUBSET Item
  /\ spool \in [Records -> RowStatus]
  /\ spoolAttempts \in [Records -> 0 .. MaxAttempts]
  /\ logs \in SUBSET Records
  /\ caller \in [Records -> CallerPc]
  /\ reader \in [Readers -> ReaderPc]
  /\ expected \in [Readers -> SUBSET Records]
  /\ seen \in [Readers -> SUBSET Records]
  /\ restarts \in 0 .. MaxRestarts

Init ==
  /\ durable \in Spooling
  /\ phase = "created"
  /\ queue = <<>>
  /\ unfinished = 0
  /\ toReplay = {}
  /\ workerPc = "none"
  /\ hand = {}
  /\ spool = [r \in Records |-> "absent"]
  /\ spoolAttempts = [r \in Records |-> 0]
  /\ logs = {}
  /\ caller = [r \in Records |-> "idle"]
  /\ reader = [d \in Readers |-> "idle"]
  /\ expected = [d \in Readers |-> {}]
  /\ seen = [d \in Readers |-> {}]
  /\ restarts = 0

-----------------------------------------------------------------------------
(* Start-up.                                                               *)

\* Mutant: no worker task is created.
StartWithoutWorker ==
  /\ phase = "created"
  /\ phase' = IF durable THEN "loading" ELSE "serving"
  /\ UNCHANGED <<queue, unfinished, toReplay, workerPc, hand, disk, requests>>

\* start(): the queue and the worker task are created, then the pending
\* receipts are read in a thread.  Without a spool start() is then done.
Start ==
  /\ phase = "created"
  /\ phase' = IF durable THEN "loading" ELSE "serving"
  /\ workerPc' = "idle"
  /\ UNCHANGED <<queue, unfinished, toReplay, hand, disk, requests>>

\* A receipt as an item: its attempts go on where they stopped.
ReceiptForgetful(r) == [rec |-> r, attempts |-> 0] \* mutant
Receipt(r) == [rec |-> r, attempts |-> spoolAttempts[r]]

\* The rows selected for replay.
PendingReceiptsNone == {} \* mutant
PendingReceipts == {Receipt(r) : r \in {q \in Records : spool[q] = "pending"}}

\* _load_spooled, in a thread.
LoadSpooled ==
  /\ phase = "loading"
  /\ phase' = "replaying"
  /\ toReplay' = PendingReceipts
  /\ UNCHANGED <<queue, unfinished, workerPc, hand, disk, requests>>

\* Mutant: a receipt stays on the list of those to replay.
ReplayPutAgain ==
  /\ phase = "replaying"
  /\ Len(queue) < QueueSize
  /\ \E it \in toReplay : queue' = Append(queue, it)
  /\ unfinished' = unfinished + 1
  /\ UNCHANGED <<phase, toReplay, workerPc, hand, disk, requests>>

\* The loop of start() that puts each loaded receipt on the queue, waiting
\* while the queue is full.  The order (rowid) is left open.
ReplayPut ==
  /\ phase = "replaying"
  /\ Len(queue) < QueueSize
  /\ \E it \in toReplay :
       /\ queue' = Append(queue, it)
       /\ toReplay' = toReplay \ {it}
  /\ unfinished' = unfinished + 1
  /\ UNCHANGED <<phase, workerPc, hand, disk, requests>>

\* start() returns: the lifespan yields and requests are served.
StartDone ==
  /\ phase = "replaying"
  /\ toReplay = {}
  /\ phase' = "serving"
  /\ UNCHANGED <<queue, unfinished, toReplay, workerPc, hand, disk, requests>>

-----------------------------------------------------------------------------
(* record_async, called once for each record.                              *)

\* What an insert that raises may leave in usage_logs.
LogsAfterFailure(r) ==
  {logs} \cup (IF CommitMayBeLost THEN {logs \cup {r}} ELSE {})

\* Before start() there is no queue: the insert runs within the call.
RecordDirect(r) ==
  /\ phase = "created"
  /\ caller[r] = "idle"
  /\ \/ /\ logs' = logs \cup {r}
        /\ caller' = [caller EXCEPT ![r] = "returned"]
     \/ /\ logs' \in LogsAfterFailure(r)
        /\ caller' = [caller EXCEPT ![r] = "raised"]
     \/ /\ CallersMayBeCancelled
        /\ logs' \in {logs, logs \cup {r}}
        /\ caller' = [caller EXCEPT ![r] = "cancelled"]
  /\ UNCHANGED <<memory, spool, spoolAttempts, reader, history>>

RecordAsync(r) ==
  /\ Alive
  /\ caller[r] = "idle"
  /\ caller' = [caller EXCEPT ![r] = IF durable THEN "persisting"
                                                ELSE "putting"]
  /\ UNCHANGED <<memory, disk, reader, history>>

\* _persist_spooled: INSERT OR IGNORE of a receipt with a fresh id.
Persist(r) ==
  /\ Alive
  /\ caller[r] = "persisting"
  /\ spool' = [spool EXCEPT ![r] = "pending"]
  /\ caller' = [caller EXCEPT ![r] = "putting"]
  /\ UNCHANGED <<memory, spoolAttempts, logs, reader, history>>

PersistRaises(r) ==
  /\ Alive /\ SpoolMayFail
  /\ caller[r] = "persisting"
  /\ caller' = [caller EXCEPT ![r] = "raised"]
  /\ UNCHANGED <<memory, disk, reader, history>>

\* await self._queue.put(item): waits while the queue is full.
Put(r) ==
  /\ Alive
  /\ caller[r] = "putting"
  /\ Len(queue) < QueueSize
  /\ queue' = Append(queue, [rec |-> r, attempts |-> 0])
  /\ unfinished' = unfinished + 1
  /\ caller' = [caller EXCEPT ![r] = "returned"]
  /\ UNCHANGED <<phase, toReplay, workerPc, hand, disk, reader, history>>

\* CancelledError at either await.  The thread of a cancelled
\* _persist_spooled is not interrupted: the receipt may still be written.
Cancel(r) ==
  /\ Alive /\ CallersMayBeCancelled
  /\ caller[r] \in {"persisting", "putting"}
  /\ \/ UNCHANGED spool
     \/ /\ caller[r] = "persisting"
        /\ spool' = [spool EXCEPT ![r] = "pending"]
  /\ caller' = [caller EXCEPT ![r] = "cancelled"]
  /\ UNCHANGED <<memory, spoolAttempts, logs, reader, history>>

-----------------------------------------------------------------------------
(* _run_worker.                                                            *)

\* Queue.task_done(): at zero every join() is released.  A released coroutine
\* runs later, so it moves on whatever is put on the queue meanwhile.
TaskDone ==
  /\ unfinished' = unfinished - 1
  /\ IF unfinished = 1
       THEN /\ reader' = [d \in Readers |->
                            IF reader[d] = "joining" THEN "listing"
                                                     ELSE reader[d]]
            /\ phase' = IF phase = "stopping" THEN "joined" ELSE phase
       ELSE UNCHANGED <<reader, phase>>

\* Mutant: the loop body is left without task_done.
ReleaseUncounted(pc) ==
  /\ hand' = {}
  /\ workerPc' = pc
  /\ UNCHANGED <<phase, unfinished, reader>>

\* The worker is done with its item, whatever became of it: `finally`.
Release(pc) ==
  /\ TaskDone
  /\ hand' = {}
  /\ workerPc' = pc

\* The worker keeps its item.
Keep(pc) ==
  /\ workerPc' = pc
  /\ UNCHANGED <<phase, unfinished, hand, reader>>

\* queue.get(), and the first test of `while attempts < max_attempts`.
WorkerGet ==
  /\ workerPc = "idle"
  /\ queue # <<>>
  /\ queue' = Tail(queue)
  /\ IF Head(queue).attempts < MaxAttempts
       THEN /\ hand' = {Head(queue)}
            /\ workerPc' = "recording"
            /\ UNCHANGED <<phase, unfinished, reader>>
       ELSE Release("idle")
  /\ UNCHANGED <<toReplay, disk, caller, history>>

\* self.record returns: the row is in usage_logs, inserted now or before.
RecordOk ==
  /\ workerPc = "recording"
  /\ \E it \in hand : logs' = logs \cup {it.rec}
  /\ IF durable THEN Keep("committed") ELSE Release("idle")
  /\ UNCHANGED <<queue, toReplay, spool, spoolAttempts, caller, history>>

\* Mutant: a failed insert is taken for a success.
RecordRaisesSwallowed ==
  /\ workerPc = "recording"
  /\ Keep("committed")
  /\ UNCHANGED <<queue, toReplay, disk, caller, history>>

\* self.record raises.
RecordRaises ==
  /\ workerPc = "recording"
  /\ \E it \in hand :
       /\ logs' \in LogsAfterFailure(it.rec)
       /\ \/ /\ durable \/ it.attempts + 1 < MaxAttempts
             /\ hand' = {[it EXCEPT !.attempts = @ + 1]}
             /\ workerPc' = IF durable THEN "marking" ELSE "backoff"
             /\ UNCHANGED <<phase, unfinished, reader>>
          \/ /\ ~durable /\ it.attempts + 1 >= MaxAttempts
             /\ Release("idle")
  /\ UNCHANGED <<queue, toReplay, spool, spoolAttempts, caller, history>>

Spent(it) == it.attempts >= MaxAttempts

\* Mutant: a spent receipt is deleted.
StatusAfterDropped(it) == IF Spent(it) THEN "absent" ELSE "pending"
StatusAfter(it) == IF Spent(it) THEN "dead_letter" ELSE "pending"

\* Mutant: the receipt is written anew if it is not there.
MarkReceiptUpsert(it) ==
  /\ spoolAttempts' = [spoolAttempts EXCEPT ![it.rec] = it.attempts]
  /\ spool' = [spool EXCEPT ![it.rec] = StatusAfter(it)]

\* _mark_spool_attempt: an UPDATE, which finds no row when another process
\* on the same spool has deleted the receipt.
MarkReceipt(it) ==
  IF spool[it.rec] = "absent"
    THEN UNCHANGED <<spool, spoolAttempts>>
    ELSE /\ spoolAttempts' = [spoolAttempts EXCEPT ![it.rec] = it.attempts]
         /\ spool' = [spool EXCEPT ![it.rec] = StatusAfter(it)]

\* A failed insert is marked on the receipt, then retried or given up.
MarkAttempt ==
  /\ workerPc = "marking"
  /\ \E it \in hand :
       /\ MarkReceipt(it)
       /\ IF Spent(it) THEN Release("idle") ELSE Keep("backoff")
  /\ UNCHANGED <<queue, toReplay, logs, caller, history>>

\* asyncio.sleep is over: the insert is tried again.
BackoffOver ==
  /\ workerPc = "backoff"
  /\ Keep("recording")
  /\ UNCHANGED <<queue, toReplay, disk, caller, history>>

\* _delete_spooled.
DeleteSpooled ==
  /\ workerPc = "committed"
  /\ \E it \in hand : spool' = [spool EXCEPT ![it.rec] = "absent"]
  /\ Release("idle")
  /\ UNCHANGED <<queue, toReplay, spoolAttempts, logs, caller, history>>

\* _mark_spool_attempt or _delete_spooled raises: nothing in _run_worker
\* catches it, the task ends, and nothing starts another one.
WorkerDies ==
  /\ SpoolMayFail
  /\ workerPc \in {"marking", "committed"}
  /\ Release("none")
  /\ UNCHANGED <<queue, toReplay, disk, caller, history>>

-----------------------------------------------------------------------------
(* GET /admin/usage: flush(), then a SELECT of usage_logs.                 *)

Accepted == {r \in Records : caller[r] = "returned"}

\* join() does not wait: every record put has been marked done.
DrainedQueue == queue = <<>> \* mutant
Drained == unfinished = 0

\* What a read has to show: every record accepted when it begins, except that
\* without start() nothing replays the receipts of earlier processes, and no
\* read waits for them.
Awaited ==
  IF phase = "created" THEN {r \in Accepted : spool[r] # "pending"} ELSE Accepted

\* Without a queue, which start() makes, flush() returns at once.
FlushStart(d) ==
  /\ Alive \/ phase = "created"
  /\ reader[d] = "idle"
  /\ expected' = [expected EXCEPT ![d] = Awaited]
  /\ reader' = [reader EXCEPT ![d] = IF phase = "created" \/ Drained
                                       THEN "listing" ELSE "joining"]
  /\ UNCHANGED <<memory, disk, caller, seen, restarts>>

\* A read that ends while stop() is under way is "late": the worker it waited
\* for may have been cancelled.
ListUsage(d) ==
  /\ reader[d] = "listing"
  /\ seen' = [seen EXCEPT ![d] = logs]
  /\ reader' = [reader EXCEPT ![d] =
                  IF phase \in {"stopping", "joined", "stopped"} THEN "late"
                                                                 ELSE "done"]
  /\ UNCHANGED <<memory, disk, caller, expected, restarts>>

-----------------------------------------------------------------------------
(* stop(), and the end of the process.                                     *)

\* stop() is called by the lifespan: with an empty queue join() does not
\* suspend, and the worker, which waits in get(), is cancelled at once.
Stop ==
  /\ phase = "serving"
  /\ restarts < MaxRestarts
  /\ restarts' = restarts + 1
  /\ IF Drained
       THEN phase' = "stopped" /\ workerPc' = "none"
       ELSE phase' = "stopping" /\ UNCHANGED workerPc
  /\ UNCHANGED <<queue, unfinished, toReplay, hand, disk, caller, reader,
                 expected, seen>>

\* What the thread of the worker's cancelled await still does: it is not
\* interrupted, only its result is dropped.
ThreadOutcome ==
  \/ UNCHANGED <<logs, spool, spoolAttempts>>
  \/ \E it \in hand :
       \/ /\ workerPc = "recording"
          /\ logs' = logs \cup {it.rec}
          /\ UNCHANGED <<spool, spoolAttempts>>
       \/ /\ workerPc = "committed"
          /\ spool' = [spool EXCEPT ![it.rec] = "absent"]
          /\ UNCHANGED <<logs, spoolAttempts>>
       \/ /\ workerPc = "marking"
          /\ MarkReceipt(it)
          /\ UNCHANGED logs

\* join() has returned: the worker is cancelled and awaited.  Records may have
\* been put on the queue since the count reached zero; an item in the worker's
\* hand is dropped, with task_done.
StopCancel ==
  /\ phase = "joined"
  /\ phase' = "stopped"
  /\ workerPc' = "none"
  /\ hand' = {}
  /\ ThreadOutcome
  /\ IF hand = {}
       THEN UNCHANGED <<unfinished, reader>>
       ELSE /\ unfinished' = unfinished - 1
            /\ reader' = [d \in Readers |->
                            IF reader[d] = "joining" /\ unfinished = 1
                              THEN "listing" ELSE reader[d]]
  /\ UNCHANGED <<queue, toReplay, caller, history>>

\* The process ends, and with it what is in memory and every open request.
ProcessEnds ==
  /\ phase' = "created"
  /\ queue' = <<>>
  /\ unfinished' = 0
  /\ toReplay' = {}
  /\ workerPc' = "none"
  /\ hand' = {}
  /\ caller' = [r \in Records |->
                  IF caller[r] \in {"persisting", "putting", "cancelled"}
                    THEN "lost" ELSE caller[r]]
  /\ reader' = [d \in Readers |->
                  IF reader[d] \in {"joining", "listing"} THEN "lost"
                                                          ELSE reader[d]]
  /\ UNCHANGED <<disk, expected, seen>>

\* The lifespan has shut down.
Exit ==
  /\ phase = "stopped"
  /\ ProcessEnds
  /\ UNCHANGED restarts

\* The process is killed, or start() raises.  One that has not begun anything
\* has nothing to lose.
Crash ==
  /\ phase # "created" \/ \E d \in Readers : reader[d] = "listing"
  /\ restarts < MaxRestarts
  /\ restarts' = restarts + 1
  /\ ProcessEnds

-----------------------------------------------------------------------------
WorkerStep ==
  \/ WorkerGet \/ RecordOk \/ RecordRaises \/ MarkAttempt \/ BackoffOver
  \/ DeleteSpooled \/ WorkerDies

CallerStep(r) == Persist(r) \/ PersistRaises(r) \/ Put(r)

Startup == Start \/ LoadSpooled \/ ReplayPut \/ StartDone

Step ==
  \/ Startup
  \/ \E r \in Records : \/ RecordDirect(r) \/ RecordAsync(r) \/ Cancel(r)
                        \/ CallerStep(r)
  \/ WorkerStep
  \/ \E d \in Readers : FlushStart(d) \/ ListUsage(d)
  \/ Stop \/ StopCancel \/ Exit \/ Crash

Next == Step /\ UNCHANGED durable

\* The event loop runs every ready coroutine and every thread-pool call ends;
\* a process that ended is started again by its supervisor, with a lifespan.
\* Requests, stops, cancellations and crashes need never come.
Fairness ==
  /\ WF_vars(Startup)
  /\ WF_vars(WorkerStep)
  /\ \A r \in Records : WF_vars(CallerStep(r))
  /\ \A d \in Readers : WF_vars(ListUsage(d))
  /\ WF_vars(StopCancel)
  /\ WF_vars(Exit)

Spec == Init /\ [][Next]_<<durable, vars>>
FairSpec == Spec /\ Fairness

-----------------------------------------------------------------------------
(* Properties.                                                             *)

Mentions(items, r) == \E it \in items : it.rec = r
QueuedAt(r) == {i \in 1 .. Len(queue) : queue[i].rec = r}

\* A record whose request has been told that it is recorded is never lost:
\* it is in usage_logs, or its receipt is in the spool, at every instant,
\* across crashes, failed inserts and failed spool operations
\* (record_async, _run_worker, _load_spooled, _delete_spooled).
AcceptedIsKept ==
  durable => \A r \in Accepted : r \in logs \/ spool[r] # "absent"

\* At most one copy of a record is on its way: in a request about to put it,
\* waiting for replay, on the queue, or in the worker's hand.  Two copies
\* would share a receipt that the first one deletes (start, record_async).
OneCopyInMemory ==
  \A r \in Records :
    Cardinality(QueuedAt(r))
      + Cardinality({it \in toReplay \cup hand : it.rec = r})
      + (IF caller[r] = "putting" THEN 1 ELSE 0) <= 1

\* join() counts exactly the records queued or in the worker's hand: task_done
\* runs once per record on every path out of the loop body, including a
\* cancelled or failed one, so flush() neither returns early nor waits for
\* nobody (_run_worker, stop).
JoinCountsWork == unfinished = Len(queue) + Cardinality(hand)

\* The attempts of a receipt are never overspent, a receipt is a dead letter
\* exactly when they are spent, and the count the worker holds is the stored
\* one, ahead of it by one only while the failure is being marked: a restart
\* neither grants nor costs more than the attempt that was under way
\* (_load_spooled, _mark_spool_attempt, _run_worker).
AttemptsAgree ==
  durable =>
    /\ \A r \in Records :
         spool[r] = "dead_letter" => spoolAttempts[r] = MaxAttempts
    /\ \A r \in Records :
         spool[r] = "pending" => spoolAttempts[r] < MaxAttempts
    /\ \A it \in hand :
         it.attempts = spoolAttempts[it.rec]
                         + (IF workerPc = "marking" THEN 1 ELSE 0)

\* While requests are served, a pending receipt is on its way to the database,
\* or the request that wrote it was cancelled before it could queue it: then
\* it waits for the next start (record_async between its two awaits).
PendingIsOnItsWay ==
  (durable /\ ~SpoolMayFail /\ phase = "serving") =>
    \A r \in Records : spool[r] = "pending" =>
      \/ QueuedAt(r) # {}
      \/ Mentions(hand, r)
      \/ caller[r] \in {"putting", "cancelled"}

\* GET /admin/usage shows every record that had been accepted when it was
\* called, or that record has become a dead letter: join() covers the records
\* replayed at start-up, and those put before the call (flush, list_usage).
\* This takes start().  In a process that serves without it, flush() finds no
\* queue: a read shows what that process has inserted itself and what earlier
\* ones had settled, and misses the accepted records whose receipts they left
\* pending (Awaited), until some process starts and replays them.
ReadSeesAccepted ==
  (durable /\ ~SpoolMayFail) =>
    \A d \in Readers : reader[d] = "done" =>
      \A r \in expected[d] : r \in seen[d] \/ spool[r] = "dead_letter"

\* GET /admin/usage returns: the worker empties the queue whatever inserts
\* fail, so join() is released (flush, _run_worker).
EveryReadReturns ==
  \A d \in Readers : reader[d] = "joining" ~> reader[d] # "joining"

\* record_async returns or raises: a full queue delays a request, and never
\* blocks it for good (Queue.put, _run_worker).  This is so as long as no spool
\* operation fails (~SpoolMayFail): a failing one ends the worker, and then a
\* request waits for room on a full queue for ever.
EveryCallReturns ==
  \A r \in Records :
    caller[r] \in {"persisting", "putting"}
      ~> caller[r] \notin {"persisting", "putting"}

\* What the activity log shows for a record.
RecordFate(r) ==
  IF r \in logs THEN "logged"
  ELSE IF spool[r] = "dead_letter" THEN "dead"
  ELSE IF spool[r] = "absent" THEN "none"
  ELSE IF caller[r] = "returned" THEN "accepted" ELSE "written"

Ledger ==
  INSTANCE ActivityLedger WITH fate <- [r \in Records |-> RecordFate(r)]

\* The recorder implements the ledger: with a spool that works, no record
\* disappears, no dead letter or logged record comes back, and every accepted
\* record is eventually logged or given up, across crashes and restarts.
ImplementsLedger == Ledger!FairSpec

\* The same without the liveness half, under failing spool operations too.
ImplementsLedgerSafely == Ledger!Spec
=============================================================================

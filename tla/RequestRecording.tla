-------------------------- MODULE RequestRecording --------------------------
(***************************************************************************)
(* The request handlers of LlmRequest and the recorder they share          *)
(* (UsageService), in the process that create_app puts together with a     *)
(* spool: what LlmRequest assumes of the ledger is here what the queue,    *)
(* the worker, the spool, the replay and stop() make of it.                *)
(*                                                                         *)
(* A handler's record_async is a call of the recorder: each of its steps   *)
(* is a step of both.  Requests come when the lifespan has started the     *)
(* recorder (Alive), so record_async finds a queue; admin reads may come   *)
(* sooner.  The clock, which only the latency depends on, stands still.    *)
(***************************************************************************)
EXTENDS UsageService

CONSTANTS Chats, MaxTime \* as in LlmRequest

ASSUME RequestsAssumption == Chats \subseteq Records /\ MaxTime \in Nat

VARIABLES
  pc, answer, status, latency, started, ended, upstream, clock \* of LlmRequest

\* The handlers, to whom the recorder's state is the fate of their records.
Q == INSTANCE LlmRequest WITH fate <- [r \in Records |-> RecordFate(r)]

recorder == <<durable, vars>>
handlers == <<pc, answer, status, latency, started, ended, upstream, clock>>
process == <<recorder, handlers>>

ProcessInit ==
  /\ Init
  /\ durable
  /\ Q!Init

-----------------------------------------------------------------------------
\* A handler goes on by itself, the recorder by itself.
WithoutRecorder(step) == Alive /\ UNCHANGED recorder /\ step
WithoutHandlers(step) == step /\ UNCHANGED <<durable, handlers>>

\* The call of record_async, when the outcome is known.
Asks(r) ==
  /\ RecordAsync(r)
  /\ UNCHANGED durable
  /\ \/ Q!UpstreamReturns(r) \/ Q!UpstreamRaises(r) \/ Q!UpstreamCancelled(r)
     \/ Q!ProviderMissing(r)

\* Mutant: the record is handed to a task of its own, and the request answered
\* at once.
PersistInBackground(r) ==
  /\ Persist(r)
  /\ UNCHANGED durable
  /\ Q!Go(r, "done")
  /\ UNCHANGED <<answer, status, latency, started, ended, upstream, clock>>

\* Within record_async.
Persists(r) == Persist(r) /\ UNCHANGED durable /\ Q!Persisted(r)
FailsToPersist(r) == PersistRaises(r) /\ UNCHANGED durable /\ Q!RecordRaises(r)
Queues(r) == Put(r) /\ UNCHANGED durable /\ Q!Queued(r)
IsCutShort(r) == Cancel(r) /\ UNCHANGED durable /\ Q!CutShort(r)

\* Its end takes the open requests with it.
ProcessGone ==
  /\ Exit \/ Crash
  /\ UNCHANGED durable
  /\ IF \E r \in Records : pc[r] \in {"calling", "recording", "queueing"}
       THEN Q!Crash
       ELSE UNCHANGED handlers

Recording(r) == Persists(r) \/ FailsToPersist(r) \/ Queues(r)

Reading == \E d \in Readers : FlushStart(d) \/ ListUsage(d)

ProcessNext ==
  \/ \E r \in Records :
       \/ WithoutRecorder(Q!Refuse(r) \/ Q!Call(r))
       \/ Asks(r) \/ Recording(r) \/ IsCutShort(r)
  \/ WithoutHandlers(Startup \/ WorkerStep \/ Reading \/ Stop \/ StopCancel)
  \/ ProcessGone

ProcessSpec == ProcessInit /\ [][ProcessNext]_process

-----------------------------------------------------------------------------
(* Properties.                                                             *)

\* The handlers on this recorder behave as LlmRequest says: a receipt is
\* written once, a record accepted only after it was written, and nothing but
\* the recorder's worker settles it, and only when its request has been told or
\* has been cut off (services/chat.py against services/usage.py).
ImplementsRequests == Q!Spec

\* Whoever was answered 200 or 502 about an upstream call has its record on
\* disk from then on, in usage_logs or in the spool, whatever fails or dies
\* afterwards.
AnswersAreOnDisk ==
  \A r \in Records : pc[r] = "done" /\ answer[r] \in {200, 502} =>
    r \in logs \/ spool[r] # "absent"
=============================================================================

----------------------- MODULE RequestRecordingProofs -----------------------
(***************************************************************************)
(* Proofs about RequestRecording, for any requests and readers, any queue  *)
(* size, attempt budget and number of restarts, and under every            *)
(* combination of the recorder's failures.                                 *)
(***************************************************************************)
EXTENDS RequestRecording, UsageServiceProofs

F == [r \in Records |-> RecordFate(r)]

-----------------------------------------------------------------------------
(* Each step of the process is a step of its recorder.                     *)

LEMMA StepIsOfRecorder == [ProcessNext]_process => [Next]_<<durable, vars>>
<1>1. CASE UNCHANGED process
  BY <1>1 DEF process, recorder
<1>2. ASSUME NEW r \in Records, Asks(r) \/ Recording(r) \/ IsCutShort(r)
      PROVE  Next
  BY <1>2 DEF Asks, Recording, Persists, FailsToPersist, Queues, IsCutShort, Next,
              Step, CallerStep
<1>3. ASSUME NEW r \in Records, WithoutRecorder(Q!Refuse(r) \/ Q!Call(r))
      PROVE  UNCHANGED <<durable, vars>>
  BY <1>3 DEF WithoutRecorder, recorder
<1>4. CASE WithoutHandlers(Startup \/ WorkerStep \/ Reading \/ Stop \/ StopCancel)
  BY <1>4 DEF WithoutHandlers, Reading, Next, Step
<1>5. CASE ProcessGone
  BY <1>5 DEF ProcessGone, Next, Step
<1> QED
  BY <1>1, <1>2, <1>3, <1>4, <1>5 DEF ProcessNext

LEMMA ProcessHasRecorder == ProcessSpec => Spec
<1>1. ProcessInit => Init
  BY DEF ProcessInit
<1> QED
  BY <1>1, StepIsOfRecorder, PTL DEF ProcessSpec, Spec

\* A record about to be queued is written down and not settled yet: no replay
\* and no other copy of it can have been before its request.
QueuedIsWritten ==
  \A r \in Records : caller[r] = "putting" => RecordFate(r) = "written"

\* What is proved of the recorder holds in the process, and it has a spool.
RecorderInv == TypeInv /\ KeptInv /\ MemoryInv /\ durable /\ QueuedIsWritten

LEMMA QueuedIsWrittenNext ==
  ASSUME RecorderInv, [Next]_<<durable, vars>> PROVE QueuedIsWritten'
<1>t. /\ caller \in [Records -> CallerPc]
      /\ spool \in [Records -> RowStatus]
      /\ \A r \in Records : caller[r] \in {"idle", "persisting"} =>
           spool[r] = "absent" /\ r \notin logs
      /\ durable
      /\ TypeInv /\ KeptInv /\ MemoryInv
  BY DEF RecorderInv, TypeInv, TypeOK, MemoryInv, ReceiptsMatch
<1>1. CASE Still /\ \A r \in Records : caller'[r] = "putting" => caller[r] = "putting"
  BY <1>1 DEF RecorderInv, QueuedIsWritten, Still
<1>2. CASE WorkerStep \/ StopCancel
  <2>1. caller' = caller /\ (Still \/ \E r \in Records : Settles(r))
    BY <1>t, <1>2, WorkSettlesOne
  <2> QED
    BY <1>1, <2>1 DEF RecorderInv, QueuedIsWritten, Settles
<1>3. ASSUME NEW r \in Records,
             RecordDirect(r) \/ RecordAsync(r) \/ Cancel(r) \/ CallerStep(r)
      PROVE  QueuedIsWritten'
  <2>1. \A q \in Records \ {r} : /\ caller'[q] = caller[q]
                                 /\ spool'[q] = spool[q]
                                 /\ q \in logs' <=> q \in logs
    BY <1>t, <1>3 DEF RecordDirect, LogsAfterFailure, RecordAsync, Cancel, CallerStep,
                      Persist, PersistRaises, Put, disk
  <2>2. caller'[r] = "putting" => RecordFate(r)' = "written"
    BY <1>t, <1>3 DEF RecordDirect, RecordAsync, Cancel, CallerStep, Persist,
                      PersistRaises, Put, RecordFate
  <2> QED
    BY <2>1, <2>2 DEF RecorderInv, QueuedIsWritten, RecordFate
<1>4. CASE Startup \/ Stop \/ UNCHANGED vars
             \/ \E d \in Readers : FlushStart(d) \/ ListUsage(d)
  <2>1. caller' = caller
    BY <1>4 DEF Startup, Start, LoadSpooled, ReplayPut, StartDone, Stop, vars,
                FlushStart, ListUsage, requests
  <2> QED
    BY <1>t, <1>1, <1>4, <2>1, HousekeepingIsStill
<1>5. CASE Exit \/ Crash
  BY <1>t, <1>5 DEF Exit, Crash, ProcessEnds, QueuedIsWritten
<1> QED
  BY <1>2, <1>3, <1>4, <1>5 DEF Next, Step

LEMMA RecorderInvInvariant == ProcessSpec => []RecorderInv
<1>1. ProcessInit => durable /\ QueuedIsWritten
  BY DEF ProcessInit, Init, QueuedIsWritten
<1>2. durable /\ [Next]_<<durable, vars>> => durable'
  BY DEF Next
<1>3. (TypeInv /\ KeptInv /\ MemoryInv /\ durable /\ QueuedIsWritten)
        /\ [Next]_<<durable, vars>> => QueuedIsWritten'
  BY QueuedIsWrittenNext DEF RecorderInv
<1> QED
  BY <1>1, <1>2, <1>3, ProcessHasRecorder, TypeInvInvariant, KeptInvInit,
     KeptInvNext, MemoryInvInvariant, PTL
  DEF ProcessSpec, Spec, RecorderInv

-----------------------------------------------------------------------------
(* Where a handler is and where its call of record_async is.               *)

Coupled(r) ==
  /\ caller[r] = "persisting" <=> pc[r] = "recording"
  /\ caller[r] = "putting" <=> pc[r] = "queueing"
  /\ pc[r] \in {"idle", "calling"} => caller[r] = "idle"
  /\ caller[r] \in {"cancelled", "lost"} => pc[r] \in {"cancelled", "lost"}
  /\ caller[r] = "raised" => spool[r] = "absent"
  /\ pc[r] = "done" /\ answer[r] \in {200, 502} => caller[r] = "returned"

CoupledInv ==
  /\ pc \in [Records -> Q!RequestPc]
  /\ answer \in [Records -> Int]
  /\ \A r \in Records : Coupled(r)

\* The cases in which nothing happens between a handler and the recorder.
LEMMA CoupledStays ==
  ASSUME CoupledInv, UNCHANGED <<pc, answer, caller>>,
         \A r \in Records : caller[r] = "raised" /\ spool[r] = "absent"
                              => spool'[r] = "absent"
  PROVE  CoupledInv'
BY DEF CoupledInv, Coupled

LEMMA HandlerAlone ==
  ASSUME RecorderInv, CoupledInv, NEW r \in Records,
         WithoutRecorder(Q!Refuse(r) \/ Q!Call(r))
  PROVE  CoupledInv'
<1>1. UNCHANGED <<caller, spool>>
  BY DEF WithoutRecorder, recorder, vars
<1>2. /\ pc[r] = "idle"
      /\ \/ pc' = [pc EXCEPT ![r] = "calling"] /\ answer' = answer
         \/ /\ pc' = [pc EXCEPT ![r] = "done"]
            /\ \E code \in {403, 404, 500, 501} : answer' = [answer EXCEPT ![r] = code]
  BY DEF WithoutRecorder, Q!Refuse, Q!Call, Q!Go, Q!Reply
<1> QED
  BY <1>1, <1>2 DEF CoupledInv, Coupled, Q!RequestPc

LEMMA AsksKeepsCoupled ==
  ASSUME RecorderInv, CoupledInv, NEW r \in Records, Asks(r)
  PROVE  CoupledInv'
<1>1. /\ caller[r] = "idle"
      /\ caller' = [caller EXCEPT ![r] = "persisting"]
      /\ spool' = spool
      /\ caller \in [Records -> CallerPc]
  BY DEF Asks, RecordAsync, RecorderInv, TypeInv, TypeOK, disk
<1>2. /\ pc' = [pc EXCEPT ![r] = "recording"]
      /\ \E code \in {0, 200, 500, 502} : answer' = [answer EXCEPT ![r] = code]
  BY DEF Asks, Q!UpstreamReturns, Q!UpstreamRaises, Q!UpstreamCancelled,
         Q!ProviderMissing, Q!Record, Q!Go, Q!Reply
<1> QED
  BY <1>1, <1>2 DEF CoupledInv, Coupled, Q!RequestPc

LEMMA RecordingKeepsCoupled ==
  ASSUME RecorderInv, CoupledInv, NEW r \in Records, Recording(r) \/ IsCutShort(r)
  PROVE  CoupledInv'
<1>t. /\ caller \in [Records -> CallerPc]
      /\ spool \in [Records -> RowStatus]
      /\ caller[r] = "persisting" => spool[r] = "absent"
  BY DEF RecorderInv, TypeInv, TypeOK, MemoryInv, ReceiptsMatch
<1> USE <1>t DEF CoupledInv, Coupled, Q!RequestPc
<1>1. CASE Persists(r)
  BY <1>1 DEF Persists, Persist, Q!Persisted, Q!Go
<1>2. CASE FailsToPersist(r)
  <2>1. /\ caller[r] = "persisting" /\ caller' = [caller EXCEPT ![r] = "raised"]
        /\ pc[r] = "recording" /\ pc' = [pc EXCEPT ![r] = "done"]
        /\ answer' = [answer EXCEPT ![r] = 500]
        /\ spool' = spool
    BY <1>2 DEF FailsToPersist, PersistRaises, Q!RecordRaises, Q!Go, Q!Reply, disk
  <2> QED
    BY <2>1
<1>3. CASE Queues(r)
  <2>1. /\ caller[r] = "putting" /\ caller' = [caller EXCEPT ![r] = "returned"]
        /\ pc[r] = "queueing"
        /\ \E to \in {"done", "cancelled"} : pc' = [pc EXCEPT ![r] = to]
        /\ UNCHANGED <<answer, spool>>
    BY <1>3 DEF Queues, Put, Q!Queued, Q!Go, disk
  <2> QED
    BY <2>1
<1>4. CASE IsCutShort(r)
  <2>1. /\ caller' = [caller EXCEPT ![r] = "cancelled"]
        /\ pc' = [pc EXCEPT ![r] = "cancelled"]
        /\ answer' = [answer EXCEPT ![r] = 0]
        /\ spool' = spool \/ spool' = [spool EXCEPT ![r] = "pending"]
    BY <1>4 DEF IsCutShort, Cancel, Q!CutShort, Q!Go, Q!Reply
  <2> QED
    BY <2>1
<1> QED
  BY <1>1, <1>2, <1>3, <1>4 DEF Recording

LEMMA GoneKeepsCoupled ==
  ASSUME RecorderInv, CoupledInv, ProcessGone PROVE CoupledInv'
<1>1. /\ caller' = [r \in Records |->
                      IF caller[r] \in {"persisting", "putting", "cancelled"}
                        THEN "lost" ELSE caller[r]]
      /\ spool' = spool
  BY DEF ProcessGone, Exit, Crash, ProcessEnds, disk
<1>2. \/ /\ pc' = [r \in Records |->
                     IF pc[r] \in {"calling", "recording", "queueing"}
                       THEN "lost" ELSE pc[r]]
         /\ answer' = [r \in Records |-> IF pc[r] = "done" THEN answer[r] ELSE 0]
      \/ /\ \A r \in Records : pc[r] \notin {"calling", "recording", "queueing"}
         /\ UNCHANGED <<pc, answer>>
  BY DEF ProcessGone, Q!Crash, handlers
<1> QED
  BY <1>1, <1>2 DEF CoupledInv, Coupled, Q!RequestPc

LEMMA CoupledNext ==
  ASSUME RecorderInv, CoupledInv, [ProcessNext]_process PROVE CoupledInv'
<1>1. CASE UNCHANGED process
  BY <1>1, CoupledStays DEF process, recorder, vars, handlers
<1>2. CASE WithoutHandlers(Startup \/ WorkerStep \/ Reading \/ Stop \/ StopCancel)
  <2>1. caller' = caller
    BY <1>2, WorkSettlesOne
    DEF WithoutHandlers, RecorderInv, Reading, Startup, Start, LoadSpooled, ReplayPut,
        StartDone, FlushStart, ListUsage, Stop, requests
  <2>2. Next
    BY <1>2, StepIsOfRecorder DEF WithoutHandlers, Reading, Next, Step
  <2>3. \A r \in Records : spool[r] = "absent" /\ spool'[r] # "absent"
                             => caller[r] = "persisting"
    BY <2>2, RequestsComeFirst DEF RecorderInv
  <2> QED
    BY <1>2, <2>1, <2>3, CoupledStays DEF WithoutHandlers, handlers
<1> QED
  BY <1>1, <1>2, HandlerAlone, AsksKeepsCoupled, RecordingKeepsCoupled,
     GoneKeepsCoupled DEF ProcessNext

\* A handler records exactly while it is in record_async, at the same await.
THEOREM CoupledInvInvariant == ProcessSpec => [](RecorderInv /\ CoupledInv)
<1>1. ProcessInit => CoupledInv
  BY DEF ProcessInit, Init, Q!Init, CoupledInv, Coupled, Q!RequestPc
<1> QED
  BY <1>1, CoupledNext, RecorderInvInvariant, PTL DEF ProcessSpec

\* Whoever was answered 200 or 502 about an upstream call has its record on disk
\* from then on, for any number of requests, failures, stops and crashes.
THEOREM AnswersStayOnDisk == ProcessSpec => []AnswersAreOnDisk
<1>1. RecorderInv /\ CoupledInv => AnswersAreOnDisk
  BY DEF RecorderInv, KeptInv, Kept, CoupledInv, Coupled, AnswersAreOnDisk
<1> QED
  BY <1>1, CoupledInvInvariant, PTL

-----------------------------------------------------------------------------
(* The handlers' steps are those of LlmRequest on the ledger.              *)

\* The recorder's side of the handlers' steps, as changes of a record's fate.
LEMMA FateAlong ==
  ASSUME RecorderInv, NEW r \in Records
  PROVE  /\ Asks(r) \/ FailsToPersist(r) => F' = F
         /\ Persists(r) => F[r] = "none" /\ F' = [F EXCEPT ![r] = "written"]
         /\ Queues(r) => F[r] = "written" /\ F' = [F EXCEPT ![r] = "accepted"]
         /\ IsCutShort(r) =>
              \/ F' = F
              \/ /\ caller[r] = "persisting"
                 /\ F[r] = "none" /\ F' = [F EXCEPT ![r] = "written"]
<1>t. /\ caller \in [Records -> CallerPc]
      /\ spool \in [Records -> RowStatus]
      /\ \A q \in Records : caller[q] \in {"idle", "persisting"} =>
           spool[q] = "absent" /\ q \notin logs
      /\ \A q \in Records : caller[q] = "putting" => spool[q] = "pending"
      /\ caller[r] = "putting" => RecordFate(r) = "written"
      /\ durable
  BY DEF RecorderInv, TypeInv, TypeOK, MemoryInv, ReceiptsMatch, QueuedIsWritten
<1> USE <1>t DEF F, RecordFate, disk, memory
<1>1. ASSUME Asks(r) \/ FailsToPersist(r) PROVE F' = F
  BY <1>1 DEF Asks, RecordAsync, FailsToPersist, PersistRaises
<1>2. ASSUME Persists(r)
      PROVE  F[r] = "none" /\ F' = [F EXCEPT ![r] = "written"]
  BY <1>2 DEF Persists, Persist
<1>3. ASSUME Queues(r)
      PROVE  F[r] = "written" /\ F' = [F EXCEPT ![r] = "accepted"]
  BY <1>3 DEF Queues, Put
<1>4. ASSUME IsCutShort(r)
      PROVE  \/ F' = F
             \/ /\ caller[r] = "persisting"
                /\ F[r] = "none" /\ F' = [F EXCEPT ![r] = "written"]
  BY <1>4 DEF IsCutShort, Cancel
<1> QED
  BY <1>1, <1>2, <1>3, <1>4

LEMMA StepIsOfRequests ==
  ASSUME RecorderInv, CoupledInv, [ProcessNext]_process PROVE [Q!Next]_(Q!vars)
<1> USE DEF F, Q!Serve, Q!ReceiptWritten, Q!RecordReturns, Q!RecordCancelled,
        Q!Ledger!Become, Q!Ledger!Write, Q!Ledger!Accept, Q!Ledger!Log,
        Q!Ledger!GiveUp
<1>1. ASSUME NEW r \in Records, WithoutRecorder(Q!Refuse(r) \/ Q!Call(r))
      PROVE  Q!Next
  BY <1>1 DEF WithoutRecorder, Q!Next
<1>2. ASSUME NEW r \in Records, Asks(r) PROVE Q!Next
  BY <1>2 DEF Asks, Q!Next
<1>3. ASSUME NEW r \in Records, Persists(r) PROVE Q!Next
  BY <1>3, FateAlong DEF Persists, Q!Next
<1>4. ASSUME NEW r \in Records, FailsToPersist(r) PROVE Q!Next
  BY <1>4 DEF FailsToPersist, Q!Next
<1>5. ASSUME NEW r \in Records, Queues(r) PROVE Q!Next
  BY <1>5, FateAlong DEF Queues, Q!Next
<1>6. ASSUME NEW r \in Records, IsCutShort(r) PROVE Q!Next
  <2>1. F' = F \/ (pc[r] = "recording" /\ F[r] = "none"
                                       /\ F' = [F EXCEPT ![r] = "written"])
    BY <1>6, FateAlong DEF CoupledInv, Coupled
  <2>2. Q!RecordCancelled(r)
    BY <1>6, <2>1 DEF IsCutShort
  <2> QED
    BY <2>2 DEF Q!Next
<1>7. ASSUME Still, UNCHANGED handlers PROVE UNCHANGED Q!vars
  BY <1>7 DEF Still, handlers, Q!vars
<1>8. ASSUME NEW r \in Records, Settles(r), UNCHANGED handlers
      PROVE  [Q!Next]_(Q!vars)
  <2>1. F' = [F EXCEPT ![r] = RecordFate(r)'] /\ F[r] = RecordFate(r)
    BY <1>8 DEF Settles
  <2>2. CASE RecordFate(r)' = RecordFate(r)
    BY <1>8, <2>1, <2>2 DEF handlers, Q!vars
  <2>3. CASE RecordFate(r)' # RecordFate(r)
    <3>1. \/ F[r] = "accepted"
          \/ F[r] = "written" /\ pc[r] \in {"cancelled", "lost"}
      <4>1. caller[r] \in {"returned", "raised", "cancelled", "lost"}
        BY <1>8 DEF Settles, RecorderInv, TypeInv, TypeOK, CallerPc
      <4>2. spool[r] = "pending"
        BY <1>8 DEF Settles, RecorderInv
      <4>3. caller[r] # "raised"
        BY <4>2 DEF CoupledInv, Coupled
      <4>4. r \notin logs
        BY <1>8, <2>3 DEF Settles, RecordFate
      <4> QED
        BY <4>1, <4>2, <4>3, <4>4 DEF RecordFate, CoupledInv, Coupled
    <3>2. RecordFate(r)' \in {"logged", "dead"}
      BY <1>8, <2>3 DEF Settles
    <3>3. Q!Settle(r)
      BY <1>8, <2>1, <3>1, <3>2 DEF Q!Settle, Q!calls, handlers
    <3> QED
      BY <3>3 DEF Q!Next
  <2> QED
    BY <2>2, <2>3
<1>9. CASE WithoutHandlers(Startup \/ WorkerStep \/ Reading \/ Stop \/ StopCancel)
  BY <1>7, <1>8, <1>9, WorkSettlesOne, HousekeepingIsStill
  DEF WithoutHandlers, Reading, RecorderInv
<1>10. CASE ProcessGone
  BY <1>7, <1>10, HousekeepingIsStill DEF ProcessGone, Q!Next, RecorderInv
<1>11. CASE UNCHANGED process
  BY <1>7, <1>11, HousekeepingIsStill DEF process, recorder, RecorderInv
<1> QED
  BY <1>1, <1>2, <1>3, <1>4, <1>5, <1>6, <1>9, <1>10, <1>11
  DEF ProcessNext, Recording

\* The handlers on the real recorder implement LlmRequest: what it assumes of
\* the ledger is what queue, worker, spool, replay and stop() provide, for any
\* requests, queue size, attempts, failures and restarts.
THEOREM RecorderServesRequests == ProcessSpec => ImplementsRequests
<1>1. ProcessInit => Q!Init
  BY DEF ProcessInit
<1>2. RecorderInv /\ CoupledInv /\ [ProcessNext]_process => [Q!Next]_(Q!vars)
  BY StepIsOfRequests
<1> QED
  BY <1>1, <1>2, CoupledInvInvariant, PTL
  DEF ProcessSpec, ImplementsRequests, Q!Spec
=============================================================================

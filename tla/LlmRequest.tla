------------------------------ MODULE LlmRequest ------------------------------
(***************************************************************************)
(* The life of POST /v1/chat/completions and POST /v1/responses from the   *)
(* route handler on: src/llm_control_center/api/routes/chat.py and         *)
(* services/chat.py, with the timer of telemetry.py.  The upstream call    *)
(* (behind ResilientProvider) returns, raises or is cancelled; what        *)
(* happened is recorded through UsageService, of which this module keeps   *)
(* what ActivityLedger promises; then the request is answered.             *)
(*                                                                         *)
(* Requests are cancelled at an await and the process may crash at any     *)
(* time.  The two services differ only in where the provider is looked up. *)
(***************************************************************************)
EXTENDS Integers

CONSTANTS
  Records, \* the requests, and the trace ids of their records
  Chats,   \* the chat completion requests among them; the others are responses
  MaxTime  \* bound: the clock stops here

ASSUME ConstantsAssumption ==
  /\ Chats \subseteq Records
  /\ MaxTime \in Nat

VARIABLES
  pc,       \* where each request is
  answer,   \* its HTTP status; while it is recorded, the one it will have
  status,   \* the status its record has
  latency,  \* the latency_ms its record has
  started,  \* when the upstream call began (timer)
  ended,    \* history: when it returned, raised or was cancelled
  upstream, \* history: what became of the upstream call
  fate,     \* what became of the record: ActivityLedger
  clock     \* time.perf_counter(), which counts from the machine's start

vars == <<pc, answer, status, latency, started, ended, upstream, fate, clock>>
calls == <<started, ended, upstream>>

Ledger == INSTANCE ActivityLedger

RequestPc == {"idle", "calling", "recording", "queueing", "done", "cancelled",
              "lost"}
Status == {"none", "success", "error", "cancelled"}
\* 0: no answer.
Answer == {0, 200, 403, 404, 500, 501, 502}
Upstream == {"none", "returned", "raised", "cancelled"}

TypeOK ==
  /\ pc \in [Records -> RequestPc]
  /\ answer \in [Records -> Answer]
  /\ status \in [Records -> Status]
  /\ latency \in [Records -> Int]
  /\ started \in [Records -> 0 .. MaxTime]
  /\ ended \in [Records -> 0 .. MaxTime]
  /\ upstream \in [Records -> Upstream]
  /\ Ledger!TypeOK
  /\ clock \in 1 .. MaxTime

Init ==
  /\ pc = [r \in Records |-> "idle"]
  /\ answer = [r \in Records |-> 0]
  /\ status = [r \in Records |-> "none"]
  /\ latency = [r \in Records |-> 0]
  /\ started = [r \in Records |-> 0]
  /\ ended = [r \in Records |-> 0]
  /\ upstream = [r \in Records |-> "none"]
  /\ Ledger!Init
  /\ clock = 1

Go(r, to) == pc' = [pc EXCEPT ![r] = to]
Reply(r, code) == answer' = [answer EXCEPT ![r] = code]

-----------------------------------------------------------------------------
(* Up to the upstream call.                                                *)

\* TimerResult.latency_ms when the timer has been left, and before that, in
\* the except clauses: ended_at is still 0.
Elapsed(r) == clock - started[r]
ElapsedInside(r) == 0 - started[r]

\* record_async is called; the request is answered with code afterwards.
Record(r, st, ms, code) ==
  /\ Go(r, "recording")
  /\ status' = [status EXCEPT ![r] = st]
  /\ latency' = [latency EXCEPT ![r] = ms]
  /\ Reply(r, code)

\* Refused before anything is recorded: streaming, a missing scope, an unknown
\* alias, and for a chat a provider that is not registered.
Refuse(r) ==
  /\ pc[r] = "idle"
  /\ Go(r, "done")
  /\ \E code \in {403, 404} \cup (IF r \in Chats THEN {500, 501} ELSE {}) :
       Reply(r, code)
  /\ UNCHANGED <<status, latency, calls, fate, clock>>

\* The timer is entered and the upstream call made.
Call(r) ==
  /\ pc[r] = "idle"
  /\ Go(r, "calling")
  /\ started' = [started EXCEPT ![r] = clock]
  /\ UNCHANGED <<answer, status, latency, ended, upstream, fate, clock>>

\* For a response the provider is looked up inside the timer: that it is not
\* registered is recorded as an error, and answered 500.
ProviderMissing(r) ==
  /\ pc[r] = "idle"
  /\ r \notin Chats
  /\ started' = [started EXCEPT ![r] = clock]
  /\ ended' = [ended EXCEPT ![r] = clock]
  /\ Record(r, "error", 0 - clock, 500)
  /\ UNCHANGED <<upstream, fate, clock>>

-----------------------------------------------------------------------------
(* What becomes of the upstream call.                                      *)

Ends(r, how) ==
  /\ pc[r] = "calling"
  /\ upstream' = [upstream EXCEPT ![r] = how]
  /\ ended' = [ended EXCEPT ![r] = clock]
  /\ UNCHANGED <<started, fate, clock>>

\* It returns.  The answer is built after the record is accepted; a result the
\* response schema does not admit is answered 500.
UpstreamReturns(r) ==
  /\ Ends(r, "returned")
  /\ \E code \in {200, 500} : Record(r, "success", Elapsed(r), code)

\* It raises: ProviderExecutionError, or another exception that is turned into
\* one.
UpstreamRaises(r) ==
  /\ Ends(r, "raised")
  /\ Record(r, "error", ElapsedInside(r), 502)

\* Mutant: CancelledError is not caught.
UpstreamCancelledUnrecorded(r) ==
  /\ Ends(r, "cancelled")
  /\ Go(r, "cancelled")
  /\ UNCHANGED <<answer, status, latency>>

\* The request is cancelled during the call.
UpstreamCancelled(r) ==
  /\ Ends(r, "cancelled")
  /\ Record(r, "cancelled", ElapsedInside(r), 0)

-----------------------------------------------------------------------------
(* record_async, as UsageService implements it.                            *)

\* The receipt is persisted.
Persisted(r) ==
  /\ pc[r] = "recording"
  /\ Go(r, "queueing")
  /\ UNCHANGED <<answer, status, latency, calls, clock>>
ReceiptWritten(r) == Persisted(r) /\ Ledger!Write(r)

\* The record is queued: the exception that was recorded is raised again, or
\* the answer is built.
Queued(r) ==
  /\ pc[r] = "queueing"
  /\ Go(r, IF status[r] = "cancelled" THEN "cancelled" ELSE "done")
  /\ UNCHANGED <<answer, status, latency, calls, clock>>
RecordReturns(r) == Queued(r) /\ Ledger!Accept(r)

\* Mutant: a record that cannot be written is ignored.
RecordRaisesIgnored(r) ==
  /\ pc[r] = "recording"
  /\ Go(r, "done")
  /\ UNCHANGED <<answer, status, latency, calls, fate, clock>>

\* The receipt cannot be persisted: nothing catches that, whatever the outcome
\* of the call was.
RecordRaises(r) ==
  /\ pc[r] = "recording"
  /\ Go(r, "done")
  /\ Reply(r, 500)
  /\ UNCHANGED <<status, latency, calls, fate, clock>>

\* The request is cancelled while it records: no second record is made.
CutShort(r) ==
  /\ pc[r] \in {"recording", "queueing"}
  /\ Go(r, "cancelled")
  /\ Reply(r, 0)
  /\ UNCHANGED <<status, latency, calls, clock>>
RecordCancelled(r) ==
  /\ CutShort(r)
  /\ UNCHANGED fate \/ (pc[r] = "recording" /\ Ledger!Write(r))

\* The recorder settles an accepted record, or replays at the next start one
\* whose request was cut off.
Settle(r) ==
  /\ \/ fate[r] = "accepted"
     \/ fate[r] = "written" /\ pc[r] \in {"cancelled", "lost"}
  /\ Ledger!Log(r) \/ Ledger!GiveUp(r)
  /\ UNCHANGED <<pc, answer, status, latency, calls, clock>>

-----------------------------------------------------------------------------
Tick ==
  /\ clock < MaxTime
  /\ clock' = clock + 1
  /\ UNCHANGED <<pc, answer, status, latency, calls, fate>>

\* The process is killed: its open requests are gone.
Crash ==
  /\ \E r \in Records : pc[r] \in {"calling", "recording", "queueing"}
  /\ pc' = [r \in Records |-> IF pc[r] \in {"calling", "recording", "queueing"}
                                THEN "lost" ELSE pc[r]]
  /\ answer' = [r \in Records |-> IF pc[r] = "done" THEN answer[r] ELSE 0]
  /\ UNCHANGED <<status, latency, calls, fate, clock>>

Serve(r) ==
  \/ UpstreamReturns(r) \/ UpstreamRaises(r) \/ UpstreamCancelled(r)
  \/ ReceiptWritten(r) \/ RecordReturns(r) \/ RecordRaises(r)

Next ==
  \/ \E r \in Records : \/ Refuse(r) \/ Call(r) \/ ProviderMissing(r)
                        \/ Serve(r) \/ RecordCancelled(r) \/ Settle(r)
  \/ Tick \/ Crash

Spec == Init /\ [][Next]_vars

-----------------------------------------------------------------------------
(* Properties.                                                             *)

Recorded(r) == fate[r] \in {"accepted", "logged", "dead"}

\* What a client was told agrees with what was recorded, and by then the record
\* is safe: after 200 a success, after 502 an error; a refused request leaves
\* no record.
AnswerMatchesRecord ==
  \A r \in Records : pc[r] = "done" =>
    /\ answer[r] = 200 => Recorded(r) /\ status[r] = "success"
    /\ answer[r] = 502 => Recorded(r) /\ status[r] = "error"
    /\ answer[r] \in {403, 404, 501} => fate[r] = "none"

\* An upstream call that returned, raised or was cancelled is accounted for
\* under its own outcome, unless recording itself failed (500), was cancelled
\* or was cut off by a crash: so also a call cancelled half-way.
CallIsAccountedFor ==
  \A r \in Records :
    /\ upstream[r] # "none" =>
         \/ pc[r] \in {"recording", "queueing", "lost"}
         \/ pc[r] = "done" /\ answer[r] = 500
         \/ pc[r] = "cancelled" /\ status[r] # "none"
         \/ Recorded(r)
    /\ upstream[r] = "returned" => status[r] \in {"none", "success"}
    /\ upstream[r] = "raised" => status[r] \in {"none", "error"}
    /\ upstream[r] = "cancelled" => status[r] \in {"none", "cancelled"}

\* The latency in the record is the time the call took.
LatencyIsElapsedTime ==
  \A r \in Records :
    status[r] # "none" => latency[r] = ended[r] - started[r]
=============================================================================

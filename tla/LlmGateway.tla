----------------------------- MODULE LlmGateway -----------------------------
(***************************************************************************)
(* The requests of LlmRequest on one provider: each upstream call goes     *)
(* through the adapter's bulkhead and circuit breaker (ResilientProvider)  *)
(* to the adapter itself (ProviderAdapters).  The circuit, the semaphore   *)
(* and its line are in the memory of the process and shared by all its     *)
(* requests.                                                               *)
(*                                                                         *)
(* A step of a call is a step of LlmRequest and of ResilientProvider at    *)
(* once.  A request that is calling while its call is idle has been        *)
(* rejected by the circuit: the exception is on its way to the service.    *)
(*                                                                         *)
(* Once its record is spooled a request waits in UsageService's put().     *)
(* Nothing is assumed of when that returns: it may take for ever.          *)
(***************************************************************************)
EXTENDS LlmRequest, Sequences, FiniteSets, ProviderAdapters

CONSTANTS MaxConcurrency, Threshold, Cooldown \* as in ResilientProvider

ASSUME AdapterAssumption ==
  /\ IsFiniteSet(Records)
  /\ {MaxConcurrency, Threshold, Cooldown} \subseteq Nat \ {0}

VARIABLES
  outcomes, \* what a chat and a response can come to at the provider's adapter
  call, permits, waiters, failures, open, age, \* as in ResilientProvider
  raised \* history: how many calls have raised themselves in this process

B == INSTANCE ResilientProvider WITH Calls <- Records

request == vars
breaker == <<call, permits, waiters, failures, open, age>>
gateway == <<request, breaker, raised>>

\* What a call can come to at an adapter, for some reply and some input: the
\* status it will be answered with, which is 502 if the adapter raises.
ChatOutcomes(adapter) ==
  {IF result = Raised THEN 502 ELSE ChatAnswer(result) :
     result \in {Chat(adapter, reply) : reply \in UpstreamReply}}
ResponseOutcomes(adapter) ==
  {IF result = Raised THEN 502 ELSE ResponseAnswer(result) :
     result \in {Respond(adapter, fits, reply) : fits \in BOOLEAN,
                                               reply \in UpstreamReply}}

\* The provider is one of the registered adapters.  Some outcomes are not
\* possible everywhere: no chat raises at the mock adapter, and without an API
\* key all calls do.
GatewayInit ==
  /\ Init
  /\ B!Init
  /\ outcomes \in {[chat |-> ChatOutcomes(a), response |-> ResponseOutcomes(a)] :
                     a \in Adapters}
  /\ raised = 0

-----------------------------------------------------------------------------
(* The upstream call.                                                      *)

\* _execute begins: the circuit lets the call pass, or rejects it.
StartCall(r) ==
  /\ Call(r)
  /\ \/ B!Enter(r)
     \/ ~B!Passes /\ UNCHANGED breaker
  /\ UNCHANGED raised

Resumes(r) ==
  /\ B!Resume(r)
  /\ UNCHANGED <<request, raised>>

\* "provider circuit is open" reaches the service.
Rejected(r) ==
  /\ call[r] = "idle"
  /\ UpstreamRaises(r)
  /\ UNCHANGED <<breaker, raised>>

\* Mutant: the queue timeout is handled like a failure of the call.
QueueTimesOutCounted(r) ==
  /\ UpstreamRaises(r)
  /\ call[r] \in {"waiting", "granted"}
  /\ B!WakeUpNext([call EXCEPT ![r] = "idle"], B!Without(r),
                  permits + B!Returned(r))
  /\ failures' = failures + 1
  /\ IF failures + 1 >= Threshold
       THEN open' = TRUE /\ age' = 0
       ELSE UNCHANGED <<open, age>>
  /\ UNCHANGED raised

\* "provider concurrency limit reached".
QueueTimesOut(r) ==
  /\ UpstreamRaises(r)
  /\ B!GiveUpWaiting(r)
  /\ UNCHANGED raised

Outcomes(r) == IF r \in Chats THEN outcomes.chat ELSE outcomes.response

Returns(r) ==
  /\ B!Succeed(r)
  /\ UpstreamReturns(r)
  /\ answer'[r] \in Outcomes(r)
  /\ UNCHANGED raised

\* The adapter raises, be it for the upstream, its own settings or the input.
Raises(r) ==
  /\ B!Fail(r)
  /\ 502 \in Outcomes(r)
  /\ UpstreamRaises(r)
  /\ raised' = raised + 1

\* Mutant: release() is skipped when the request is cancelled.
CancelledKeeps(r) ==
  /\ UpstreamCancelled(r)
  /\ \/ B!GiveUpWaiting(r)
     \/ call[r] = "running" /\ UNCHANGED breaker
  /\ UNCHANGED raised

\* The request is cancelled, in line or upstream; one that was rejected has no
\* await left at which it could be.
Cancelled(r) ==
  /\ UpstreamCancelled(r)
  /\ B!GiveUpWaiting(r) \/ B!CancelRunning(r)
  /\ UNCHANGED raised

-----------------------------------------------------------------------------
\* What goes on without the adapter.
Apart(step) == step /\ UNCHANGED <<breaker, raised>>

\* The circuit cools down.  The clock of LlmRequest stands still: latencies are
\* not looked at here.
TimePasses == B!Tick /\ UNCHANGED <<request, raised>>

\* The next process starts with a new adapter.
Dies ==
  /\ Crash
  /\ call' = [r \in Records |-> "idle"]
  /\ permits' = MaxConcurrency
  /\ waiters' = <<>>
  /\ failures' = 0
  /\ open' = FALSE
  /\ age' = 0
  /\ raised' = 0

\* What a request that has begun does next, up to the put() of its record.
Proceeds(r) ==
  \/ Rejected(r) \/ Resumes(r) \/ QueueTimesOut(r)
  \/ Returns(r) \/ Raises(r) \/ Cancelled(r)
  \/ Apart(ReceiptWritten(r) \/ RecordRaises(r))

GatewayStep ==
  \/ \E r \in Records :
       \/ StartCall(r) \/ Proceeds(r)
       \/ Apart(\/ Refuse(r) \/ ProviderMissing(r) \/ RecordReturns(r)
                \/ RecordCancelled(r) \/ Settle(r))
  \/ TimePasses \/ Dies

GatewayNext == GatewayStep /\ UNCHANGED outcomes

\* A request goes on: an exception travels up, the event loop resumes granted
\* calls and fires the queue timeout, an upstream call ends, as the HTTP clients
\* have a timeout, and so does the thread that persists the receipt.  put()
\* (RecordReturns) need not: on a full queue it waits for the recorder's worker,
\* which a failing spool operation ends for good (UsageService.WorkerDies).
GatewayFairness == \A r \in Records : WF_gateway(Proceeds(r))

GatewaySpec ==
  GatewayInit /\ [][GatewayNext]_<<outcomes, gateway>> /\ GatewayFairness

-----------------------------------------------------------------------------
(* Properties.                                                             *)

\* A place in line or a permit belongs to a request that is in its upstream
\* call: a request that is recorded, answered, cancelled or cut off by a crash
\* holds none, so a slow usage spool does not use up the provider's
\* concurrency (_execute's `finally` against the except clauses of the
\* services).
PlacesAreCallers == \A r \in Records : call[r] # "idle" => pc[r] = "calling"

\* Only calls that raised themselves count towards the threshold: requests
\* turned away by the circuit, or after the queue timeout, and cancelled ones
\* do not, so an overloaded provider is not cut off and an open circuit does
\* not keep itself open (_execute).
OverloadOpensNothing == failures <= raised

\* Every upstream call ends and its outcome is handed to the recorder: a request
\* in line, rejected, upstream or persisting its receipt gets on, unless the
\* process dies, also while others hang in put() for ever behind a dead worker,
\* as they hold no permit by then.  (Whether put() returns is the question of
\* UsageService.EveryCallReturns.  Requests come once: that each of them gets
\* on is that all have.)
AtWork(r) == pc[r] \in {"calling", "recording"}
EveryCallIsHandedOn ==
  (\E r \in Records : AtWork(r)) ~> (\A r \in Records : ~AtWork(r))
=============================================================================

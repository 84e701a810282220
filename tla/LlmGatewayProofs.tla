-------------------------- MODULE LlmGatewayProofs --------------------------
(***************************************************************************)
(* Proofs about LlmRequest and LlmGateway, for any sets of requests and    *)
(* any settings of the provider's adapter.                                 *)
(***************************************************************************)
EXTENDS LlmGateway, TLAPS

-----------------------------------------------------------------------------
(* One request at a time: what its answer and its record have to do with   *)
(* each other wherever it is.                                              *)

Typed ==
  /\ pc \in [Records -> RequestPc]
  /\ answer \in [Records -> Answer]
  /\ status \in [Records -> Status]
  /\ upstream \in [Records -> Upstream]
  /\ fate \in [Records -> Ledger!Fate]

\* Before the call there is neither record nor outcome.
NothingYet(r) == fate[r] = "none" /\ status[r] = "none" /\ upstream[r] = "none"

\* What is recorded is what was decided to answer, and what the call came to.
Decided(r) ==
  /\ answer[r] = 200 => status[r] = "success"
  /\ answer[r] = 502 => status[r] = "error"
  /\ answer[r] \notin {403, 404, 501}
  /\ status[r] # "none"

Kept(r) == fate[r] \in {"accepted", "logged", "dead"}

Consistent(r) ==
  /\ pc[r] \in {"idle", "calling"} => NothingYet(r)
  /\ pc[r] = "recording" => Decided(r) /\ fate[r] = "none"
  /\ pc[r] = "queueing" => Decided(r) /\ fate[r] = "written"
  /\ pc[r] = "cancelled" => status[r] # "none"
  /\ pc[r] = "done" => \/ NothingYet(r) /\ answer[r] \notin {200, 502}
                       \/ Decided(r) /\ Kept(r)
                       \/ answer[r] = 500
  /\ upstream[r] = "returned" => status[r] = "success"
  /\ upstream[r] = "raised" => status[r] = "error"
  /\ upstream[r] = "cancelled" => status[r] = "cancelled"

ReqInv == Typed /\ \A r \in Records : Consistent(r)

\* A request that no step is about.
Untouched(r) ==
  /\ pc'[r] = pc[r] /\ answer'[r] = answer[r] /\ status'[r] = status[r]
  /\ upstream'[r] = upstream[r] /\ fate'[r] = fate[r]

LEMMA UntouchedStays ==
  ASSUME NEW r \in Records, Consistent(r), Untouched(r)
  PROVE  Consistent(r)'
BY DEF Consistent, Untouched, NothingYet, Decided, Kept

\* A step about r leaves the others alone.
LEMMA OneAtATime ==
  ASSUME ReqInv, NEW r \in Records, Typed', Consistent(r)',
         \A q \in Records \ {r} : Untouched(q)
  PROVE  ReqInv'
BY UntouchedStays DEF ReqInv

LEMMA InitialRequests == ASSUME Init PROVE ReqInv
BY DEF Init, Ledger!Init, Ledger!Fate, ReqInv, Typed, Consistent, NothingYet,
       RequestPc, Answer, Status, Upstream

\* Each step of a request.
LEMMA RefuseKeeps ==
  ASSUME ReqInv, NEW r \in Records, Refuse(r) PROVE ReqInv'
<1>1. Typed' /\ \A q \in Records \ {r} : Untouched(q)
  BY DEF ReqInv, Typed, Refuse, Go, Reply, calls, RequestPc, Answer, Untouched
<1>2. Consistent(r)'
  BY DEF ReqInv, Typed, Refuse, Go, Reply, calls, RequestPc, Answer, Consistent,
         NothingYet, Decided, Kept
<1> QED  BY <1>1, <1>2, OneAtATime

LEMMA CallKeeps ==
  ASSUME ReqInv, NEW r \in Records, Call(r) PROVE ReqInv'
<1>1. Typed' /\ \A q \in Records \ {r} : Untouched(q)
  BY DEF ReqInv, Typed, Call, Go, RequestPc, Untouched
<1>2. Consistent(r)'
  BY DEF ReqInv, Typed, Call, Go, RequestPc, Consistent, NothingYet
<1> QED  BY <1>1, <1>2, OneAtATime

LEMMA ProviderMissingKeeps ==
  ASSUME ReqInv, NEW r \in Records, ProviderMissing(r) PROVE ReqInv'
<1>1. Typed' /\ \A q \in Records \ {r} : Untouched(q)
  BY DEF ReqInv, Typed, ProviderMissing, Record, Go, Reply, RequestPc, Answer,
         Status, Untouched
<1>2. Consistent(r)'
  BY DEF ReqInv, Typed, ProviderMissing, Record, Go, Reply, RequestPc, Answer,
         Status, Consistent, NothingYet, Decided
<1> QED  BY <1>1, <1>2, OneAtATime

LEMMA CallEndKeeps ==
  ASSUME ReqInv, NEW r \in Records,
         UpstreamReturns(r) \/ UpstreamRaises(r) \/ UpstreamCancelled(r)
  PROVE  ReqInv'
<1>1. CASE UpstreamReturns(r)
  <2>1. Typed' /\ \A q \in Records \ {r} : Untouched(q)
    BY <1>1 DEF ReqInv, Typed, UpstreamReturns, Ends, Record, Go, Reply, RequestPc,
                Answer, Status, Upstream, Untouched
  <2>2. Consistent(r)'
    BY <1>1 DEF ReqInv, Typed, UpstreamReturns, Ends, Record, Go, Reply, RequestPc,
                Answer, Status, Upstream, Consistent, NothingYet, Decided
  <2> QED  BY <2>1, <2>2, OneAtATime
<1>2. CASE UpstreamRaises(r)
  <2>1. Typed' /\ \A q \in Records \ {r} : Untouched(q)
    BY <1>2 DEF ReqInv, Typed, UpstreamRaises, Ends, Record, Go, Reply, RequestPc,
                Answer, Status, Upstream, Untouched
  <2>2. Consistent(r)'
    BY <1>2 DEF ReqInv, Typed, UpstreamRaises, Ends, Record, Go, Reply, RequestPc,
                Answer, Status, Upstream, Consistent, NothingYet, Decided
  <2> QED  BY <2>1, <2>2, OneAtATime
<1>3. CASE UpstreamCancelled(r)
  <2>1. Typed' /\ \A q \in Records \ {r} : Untouched(q)
    BY <1>3 DEF ReqInv, Typed, UpstreamCancelled, Ends, Record, Go, Reply, RequestPc,
                Answer, Status, Upstream, Untouched
  <2>2. Consistent(r)'
    BY <1>3 DEF ReqInv, Typed, UpstreamCancelled, Ends, Record, Go, Reply, RequestPc,
                Answer, Status, Upstream, Consistent, NothingYet, Decided
  <2> QED  BY <2>1, <2>2, OneAtATime
<1> QED  BY <1>1, <1>2, <1>3

LEMMA RecordingKeeps ==
  ASSUME ReqInv, NEW r \in Records,
         \/ ReceiptWritten(r) \/ RecordReturns(r) \/ RecordRaises(r)
         \/ RecordCancelled(r) \/ Settle(r)
  PROVE  ReqInv'
<1> USE DEF ReqInv, Typed, Go, Reply, calls, RequestPc, Answer, Ledger!Fate,
            Ledger!Become, Ledger!Write, Ledger!Accept, Ledger!Log, Ledger!GiveUp
<1>1. CASE ReceiptWritten(r)
  <2>1. Typed' /\ \A q \in Records \ {r} : Untouched(q)
    BY <1>1 DEF ReceiptWritten, Persisted, Untouched
  <2>2. Consistent(r)'
    BY <1>1 DEF ReceiptWritten, Persisted, Consistent, NothingYet, Decided
  <2> QED  BY <2>1, <2>2, OneAtATime
<1>2. CASE RecordReturns(r)
  <2>1. Typed' /\ \A q \in Records \ {r} : Untouched(q)
    BY <1>2 DEF RecordReturns, Queued, Untouched
  <2>2. Consistent(r)'
    BY <1>2 DEF RecordReturns, Queued, Consistent, NothingYet, Decided, Kept
  <2> QED  BY <2>1, <2>2, OneAtATime
<1>3. CASE RecordRaises(r)
  <2>1. Typed' /\ \A q \in Records \ {r} : Untouched(q)
    BY <1>3 DEF RecordRaises, Untouched
  <2>2. Consistent(r)'
    BY <1>3 DEF RecordRaises, Consistent, NothingYet, Decided, Kept
  <2> QED  BY <2>1, <2>2, OneAtATime
<1>4. CASE RecordCancelled(r)
  <2>1. Typed' /\ \A q \in Records \ {r} : Untouched(q)
    BY <1>4 DEF RecordCancelled, CutShort, Untouched
  <2>2. Consistent(r)'
    BY <1>4 DEF RecordCancelled, CutShort, Consistent, NothingYet, Decided, Kept
  <2> QED  BY <2>1, <2>2, OneAtATime
<1>5. CASE Settle(r)
  <2>1. Typed' /\ \A q \in Records \ {r} : Untouched(q)
    BY <1>5 DEF Settle, Untouched
  <2>2. Consistent(r)'
    BY <1>5 DEF Settle, Consistent, NothingYet, Decided, Kept
  <2> QED  BY <2>1, <2>2, OneAtATime
<1> QED  BY <1>1, <1>2, <1>3, <1>4, <1>5

LEMMA CrashKeeps == ASSUME ReqInv, Crash PROVE ReqInv'
<1>1. Typed'
  BY DEF ReqInv, Typed, Crash, calls, RequestPc, Answer
<1>2. ASSUME NEW r \in Records PROVE Consistent(r)'
  <2>1. Consistent(r)  BY DEF ReqInv
  <2>2. /\ pc'[r] = (IF pc[r] \in {"calling", "recording", "queueing"}
                       THEN "lost" ELSE pc[r])
        /\ answer'[r] = (IF pc[r] = "done" THEN answer[r] ELSE 0)
        /\ status' = status /\ upstream' = upstream /\ fate' = fate
    BY DEF Crash, calls
  <2> QED
    BY <2>1, <2>2 DEF Consistent, NothingYet, Decided, Kept
<1> QED  BY <1>1, <1>2 DEF ReqInv

LEMMA RequestsKeep == ASSUME ReqInv, [Next]_vars PROVE ReqInv'
<1>1. CASE UNCHANGED vars
  BY <1>1 DEF vars, calls, ReqInv, Typed, Consistent, NothingYet, Decided, Kept
<1>2. CASE Tick
  BY <1>2 DEF Tick, calls, ReqInv, Typed, Consistent, NothingYet, Decided, Kept
<1>3. ASSUME NEW r \in Records,
             \/ Refuse(r) \/ Call(r) \/ ProviderMissing(r)
             \/ Serve(r) \/ RecordCancelled(r) \/ Settle(r)
      PROVE  ReqInv'
  BY <1>3, RefuseKeeps, CallKeeps, ProviderMissingKeeps, CallEndKeeps,
     RecordingKeeps DEF Serve
<1> QED  BY <1>1, <1>2, <1>3, CrashKeeps DEF Next

LEMMA ConsistentRequests ==
  ASSUME ReqInv PROVE AnswerMatchesRecord /\ CallIsAccountedFor
BY DEF ReqInv, Typed, Consistent, NothingYet, Decided, Kept, AnswerMatchesRecord,
       CallIsAccountedFor, Recorded, RequestPc, Answer, Status, Upstream

\* The handler's place, outcome and record stay matched in every state.
THEOREM ReqInvInvariant == Spec => []ReqInv
<1>1. Init => ReqInv  BY InitialRequests
<1>2. ReqInv /\ [Next]_vars => ReqInv'  BY RequestsKeep
<1> QED  BY <1>1, <1>2, PTL DEF Spec

-----------------------------------------------------------------------------
(* Each step of the gateway is a step of its requests.                     *)

LEMMA StepIsOfRequests == GatewayNext => [Next]_request
<1>1. ASSUME NEW r \in Records, StartCall(r) PROVE Next
  BY <1>1 DEF StartCall, Next
<1>2. ASSUME NEW r \in Records, Proceeds(r) PROVE [Next]_request
  BY <1>2 DEF Proceeds, Rejected, Resumes, QueueTimesOut, Returns, Raises, Cancelled,
              Apart, Serve, Next
<1>3. ASSUME NEW r \in Records,
             Apart(\/ Refuse(r) \/ ProviderMissing(r) \/ RecordReturns(r)
                   \/ RecordCancelled(r) \/ Settle(r))
      PROVE  Next
  BY <1>3 DEF Apart, Serve, Next
<1>4. TimePasses => UNCHANGED request  BY DEF TimePasses
<1>5. Dies => Next  BY DEF Dies, Next
<1> QED  BY <1>1, <1>2, <1>3, <1>4, <1>5 DEF GatewayNext, GatewayStep

\* The gateway implements LlmRequest: whatever bulkhead, breaker and adapters
\* do, its requests behave as LlmRequest says (services/chat.py).
THEOREM GatewayImplementsRequests == GatewaySpec => Spec
<1>1. GatewayInit => Init  BY DEF GatewayInit
<1>2. [GatewayNext]_<<outcomes, gateway>> => [Next]_vars
  BY StepIsOfRequests DEF gateway, request
<1> QED  BY <1>1, <1>2, PTL DEF GatewaySpec, Spec

\* What a client was told agrees with its record, which by then is safe
\* (services/chat.py, record_async).
THEOREM AnswersMatchRecords == GatewaySpec => []AnswerMatchesRecord
BY GatewayImplementsRequests, ReqInvInvariant, ConsistentRequests, PTL

\* Every upstream call is accounted for under its own outcome (the except
\* clauses of services/chat.py).
THEOREM CallsAreAccountedFor == GatewaySpec => []CallIsAccountedFor
BY GatewayImplementsRequests, ReqInvInvariant, ConsistentRequests, PTL

-----------------------------------------------------------------------------
(* The shared adapter.                                                     *)

PlaceInv ==
  /\ call \in [Records -> B!CallPc]
  /\ failures \in Nat
  /\ raised \in Nat
  /\ OverloadOpensNothing
  /\ PlacesAreCallers

\* Handing a permit on gives no place to a call that has none.
LEMMA WakeUpGivesNoPlace ==
  ASSUME NEW calls_ \in [Records -> B!CallPc], NEW line, NEW free,
         B!WakeUpNext(calls_, line, free)
  PROVE  /\ call' \in [Records -> B!CallPc]
         /\ \A q \in Records : call'[q] # "idle" => calls_[q] # "idle"
<1>1. CASE free > 0 /\ B!InLine(calls_, line) # {}
  <2>1. PICK i \in B!InLine(calls_, line) :
               call' = [calls_ EXCEPT ![line[i]] = "granted"]
    BY <1>1 DEF B!WakeUpNext
  <2>2. calls_[line[i]] = "waiting"  BY DEF B!InLine
  <2> QED  BY <2>1, <2>2 DEF B!CallPc
<1>2. CASE ~(free > 0 /\ B!InLine(calls_, line) # {})
  BY <1>2 DEF B!WakeUpNext
<1> QED  BY <1>1, <1>2

\* A call that leaves has no place any more.
LEMMA LeavingTakesNoPlace ==
  ASSUME NEW r \in Records, call \in [Records -> B!CallPc], NEW line, NEW free,
         B!WakeUpNext([call EXCEPT ![r] = "idle"], line, free)
  PROVE  /\ call' \in [Records -> B!CallPc]
         /\ \A q \in Records : call'[q] # "idle" => q # r /\ call[q] # "idle"
<1>1. [call EXCEPT ![r] = "idle"] \in [Records -> B!CallPc]  BY DEF B!CallPc
<1> QED  BY <1>1, WakeUpGivesNoPlace

LEMMA StartCallKeepsPlaces ==
  ASSUME ReqInv, PlaceInv, NEW r \in Records, StartCall(r) PROVE PlaceInv'
<1>1. pc'[r] = "calling" /\ \A q \in Records : q # r => pc'[q] = pc[q]
  BY DEF StartCall, Call, Go, ReqInv, Typed
<1>2. raised' = raised  BY DEF StartCall
<1>3. CASE B!Enter(r)
  <2>1. /\ call' \in [Records -> B!CallPc]
        /\ \A q \in Records : q # r => call'[q] = call[q]
    BY <1>3 DEF B!Enter, B!Acquire, B!CallPc, PlaceInv
  <2>2. failures' = failures \/ failures' = 0
    BY <1>3 DEF B!Enter, B!Close, B!breaker
  <2> QED
    BY <1>1, <1>2, <2>1, <2>2 DEF PlaceInv, PlacesAreCallers, OverloadOpensNothing
<1>4. CASE UNCHANGED breaker
  BY <1>1, <1>2, <1>4 DEF breaker, PlaceInv, PlacesAreCallers, OverloadOpensNothing
<1> QED  BY <1>3, <1>4 DEF StartCall

LEMMA ResumesKeepsPlaces ==
  ASSUME ReqInv, PlaceInv, NEW r \in Records, Resumes(r) PROVE PlaceInv'
<1>1. pc' = pc /\ raised' = raised /\ failures' = failures /\ call[r] = "granted"
  BY DEF Resumes, request, vars, B!Resume, B!breaker
<1> DEFINE after == [call EXCEPT ![r] = "running"]
<1>2. after \in [Records -> B!CallPc] /\ \A q \in Records : after[q] = "idle" <=> call[q] = "idle"
  BY <1>1 DEF PlaceInv, B!CallPc
<1>3. B!WakeUpNext(after, B!Without(r), permits)
  BY DEF Resumes, B!Resume
<1> HIDE DEF after
<1>4. /\ call' \in [Records -> B!CallPc]
      /\ \A q \in Records : call'[q] # "idle" => after[q] # "idle"
  BY <1>2, <1>3, WakeUpGivesNoPlace
<1> QED
  BY <1>1, <1>2, <1>4 DEF PlaceInv, PlacesAreCallers, OverloadOpensNothing

\* The three ways a call ends move its request on, and no other.
LEMMA EndsMovesOne ==
  ASSUME ReqInv, NEW r \in Records,
         UpstreamReturns(r) \/ UpstreamRaises(r) \/ UpstreamCancelled(r)
  PROVE  pc[r] = "calling" /\ \A q \in Records : q # r => pc'[q] = pc[q]
BY DEF UpstreamReturns, UpstreamRaises, UpstreamCancelled, Ends, Record, Go, ReqInv,
       Typed

LEMMA CallEndKeepsPlaces ==
  ASSUME ReqInv, PlaceInv, NEW r \in Records,
         QueueTimesOut(r) \/ Returns(r) \/ Raises(r) \/ Cancelled(r)
  PROVE  PlaceInv'
<1>1. \A q \in Records : q # r => pc'[q] = pc[q]
  BY EndsMovesOne DEF QueueTimesOut, Returns, Raises, Cancelled
<1>2. PICK line, free : B!WakeUpNext([call EXCEPT ![r] = "idle"], line, free)
  BY DEF QueueTimesOut, Returns, Raises, Cancelled, B!GiveUpWaiting, B!Succeed,
         B!Fail, B!CancelRunning, B!Release
<1>3. /\ call' \in [Records -> B!CallPc]
      /\ \A q \in Records : call'[q] # "idle" => q # r /\ call[q] # "idle"
  BY <1>2, LeavingTakesNoPlace DEF PlaceInv
<1>4. PlacesAreCallers'
  BY <1>1, <1>3 DEF PlaceInv, PlacesAreCallers
<1>5. \/ failures' \in {failures, 0} /\ raised' = raised
      \/ failures' = failures + 1 /\ raised' = raised + 1
  BY DEF QueueTimesOut, Returns, Raises, Cancelled, B!GiveUpWaiting, B!Succeed,
         B!Fail, B!CancelRunning, B!Close, B!breaker
<1> QED  BY <1>3, <1>4, <1>5 DEF PlaceInv, OverloadOpensNothing

LEMMA RejectedKeepsPlaces ==
  ASSUME ReqInv, PlaceInv, NEW r \in Records, Rejected(r) PROVE PlaceInv'
<1>1. \A q \in Records : q # r => pc'[q] = pc[q]
  BY EndsMovesOne DEF Rejected
<1> QED
  BY <1>1 DEF Rejected, breaker, PlaceInv, PlacesAreCallers, OverloadOpensNothing

LEMMA ApartKeepsPlaces ==
  ASSUME ReqInv, PlaceInv, NEW r \in Records,
         Apart(\/ ReceiptWritten(r) \/ RecordReturns(r) \/ RecordRaises(r)
               \/ Refuse(r) \/ ProviderMissing(r) \/ RecordCancelled(r) \/ Settle(r))
  PROVE  PlaceInv'
<1>1. /\ pc[r] # "calling" \/ pc' = pc
      /\ \A q \in Records : q # r => pc'[q] = pc[q]
  BY DEF Apart, ReceiptWritten, Persisted, RecordReturns, Queued, RecordRaises, Refuse,
         ProviderMissing, Record, RecordCancelled, CutShort, Settle, Go, ReqInv, Typed
<1> QED
  BY <1>1 DEF Apart, breaker, PlaceInv, PlacesAreCallers, OverloadOpensNothing

LEMMA PlacesKeep ==
  ASSUME ReqInv, PlaceInv, [GatewayNext]_<<outcomes, gateway>> PROVE PlaceInv'
<1> USE DEF PlaceInv, PlacesAreCallers, OverloadOpensNothing
<1>1. CASE UNCHANGED <<outcomes, gateway>>
  BY <1>1 DEF gateway, request, vars, breaker
<1>2. ASSUME NEW r \in Records, Proceeds(r) PROVE PlaceInv'
  <2>1. CASE Apart(ReceiptWritten(r) \/ RecordRaises(r))
    <3>1. Apart(\/ ReceiptWritten(r) \/ RecordReturns(r) \/ RecordRaises(r)
                \/ Refuse(r) \/ ProviderMissing(r) \/ RecordCancelled(r) \/ Settle(r))
      BY <2>1 DEF Apart
    <3> QED  BY <3>1, ApartKeepsPlaces
  <2> QED
    BY <1>2, <2>1, RejectedKeepsPlaces, ResumesKeepsPlaces, CallEndKeepsPlaces
    DEF Proceeds
<1>3. ASSUME NEW r \in Records,
             Apart(\/ Refuse(r) \/ ProviderMissing(r) \/ RecordReturns(r)
                   \/ RecordCancelled(r) \/ Settle(r))
      PROVE  PlaceInv'
  <2>1. Apart(\/ ReceiptWritten(r) \/ RecordReturns(r) \/ RecordRaises(r)
              \/ Refuse(r) \/ ProviderMissing(r) \/ RecordCancelled(r) \/ Settle(r))
    BY <1>3 DEF Apart
  <2> QED  BY <2>1, ApartKeepsPlaces
<1>4. CASE TimePasses
  BY <1>4 DEF TimePasses, B!Tick, request, vars
<1>5. CASE Dies
  BY <1>5 DEF Dies, B!CallPc
<1> QED
  BY <1>1, <1>2, <1>3, <1>4, <1>5, StartCallKeepsPlaces DEF GatewayNext, GatewayStep

LEMMA GatewayInvInvariant == GatewaySpec => [](ReqInv /\ PlaceInv)
<1>1. GatewayInit => ReqInv /\ PlaceInv
  BY InitialRequests DEF GatewayInit, B!Init, B!CallPc, PlaceInv, PlacesAreCallers,
                         OverloadOpensNothing
<1>2. ReqInv /\ PlaceInv /\ [GatewayNext]_<<outcomes, gateway>> => (ReqInv /\ PlaceInv)'
  <2>1. [GatewayNext]_<<outcomes, gateway>> => [Next]_vars
    BY StepIsOfRequests DEF gateway, request
  <2> QED  BY <2>1, RequestsKeep, PlacesKeep
<1> QED  BY <1>1, <1>2, PTL DEF GatewaySpec

\* Requests that are not calling hold neither permit nor place in line, for any
\* number of them and any concurrency (_execute).
THEOREM OnlyCallersHoldPlaces == GatewaySpec => []PlacesAreCallers
<1>1. PlaceInv => PlacesAreCallers  BY DEF PlaceInv
<1> QED  BY <1>1, GatewayInvInvariant, PTL

\* Rejections, queue timeouts and cancellations never count towards the
\* threshold (_execute).
THEOREM OnlyCallsOpenTheCircuit == GatewaySpec => []OverloadOpensNothing
<1>1. PlaceInv => OverloadOpensNothing  BY DEF PlaceInv
<1> QED  BY <1>1, GatewayInvInvariant, PTL

-----------------------------------------------------------------------------
(* The adapter keeps its promises behind the requests.                     *)

\* What is proved of ResilientProvider.
P == INSTANCE ResilientProviderProofs WITH Calls <- Records

LEMMA AdapterAssumptionHolds == P!ConstantsAssumption
  BY AdapterAssumption DEF P!ConstantsAssumption, P!IsFiniteSet, IsFiniteSet

\* The steps of B are those the theorems are about.
LEMMA SameSteps ==
  ASSUME NEW r \in Records
  PROVE  /\ B!Enter(r) => P!Enter(r)
         /\ B!Resume(r) => P!Resume(r)
         /\ B!GiveUpWaiting(r) => P!GiveUpWaiting(r)
         /\ B!Succeed(r) => P!Succeed(r)
         /\ B!Fail(r) => P!Fail(r)
         /\ B!CancelRunning(r) => P!CancelRunning(r)
         /\ B!Tick => P!Tick
         /\ B!Init => P!Init
<1> USE DEF B!WakeUpNext, P!WakeUpNext, B!InLine, P!InLine, B!ServedNext, P!ServedNext,
            B!breaker, P!breaker
<1>1. B!Without(r) = P!Without(r) /\ B!Returned(r) = P!Returned(r)
  BY DEF B!Without, P!Without, B!PlaceOf, P!PlaceOf, B!RemoveAt, P!RemoveAt, B!Returned,
         P!Returned
<1>2. B!Enter(r) => P!Enter(r)
  BY DEF B!Enter, P!Enter, B!Passes, P!Passes, B!Close, P!Close, B!Acquire, P!Acquire
<1>3. B!Resume(r) => P!Resume(r)
  BY <1>1 DEF B!Resume, P!Resume
<1>4. B!GiveUpWaiting(r) => P!GiveUpWaiting(r)
  BY <1>1 DEF B!GiveUpWaiting, P!GiveUpWaiting
<1>5. B!Succeed(r) => P!Succeed(r)
  BY DEF B!Succeed, P!Succeed, B!Close, P!Close, B!Release, P!Release
<1>6. B!Fail(r) => P!Fail(r)
  BY DEF B!Fail, P!Fail, B!Release, P!Release
<1>7. B!CancelRunning(r) => P!CancelRunning(r)
  BY DEF B!CancelRunning, P!CancelRunning, B!Release, P!Release
<1>8. (B!Tick => P!Tick) /\ (B!Init => P!Init)
  BY DEF B!Tick, P!Tick, B!Init, P!Init
<1> QED
  BY <1>2, <1>3, <1>4, <1>5, <1>6, <1>7, <1>8

\* Each step of the gateway is one of the adapter, leaves it alone, or is the
\* start of a new process with a new one.
LEMMA StepIsOfAdapter ==
  [GatewayNext]_<<outcomes, gateway>> => [P!Next]_(P!vars) \/ P!Init'
<1>1. ASSUME NEW r \in Records, StartCall(r) \/ Proceeds(r) PROVE [P!Next]_(P!vars)
  BY <1>1, SameSteps
  DEF StartCall, Proceeds, Rejected, Resumes, QueueTimesOut, Returns, Raises, Cancelled,
      Apart, P!Next, P!vars, breaker
<1>2. ASSUME NEW r \in Records,
             Apart(\/ Refuse(r) \/ ProviderMissing(r) \/ RecordReturns(r)
                   \/ RecordCancelled(r) \/ Settle(r))
      PROVE  UNCHANGED P!vars
  BY <1>2 DEF Apart, breaker, P!vars
<1>3. TimePasses => P!Next
  <2>1. B!Tick => P!Tick
    BY DEF B!Tick, P!Tick
  <2> QED
    BY <2>1 DEF TimePasses, P!Next
<1>4. Dies => P!Init'
  BY DEF Dies, P!Init
<1>5. UNCHANGED gateway => UNCHANGED P!vars
  BY DEF gateway, breaker, P!vars
<1> QED
  BY <1>1, <1>2, <1>3, <1>4, <1>5 DEF GatewayNext, GatewayStep

AdapterPromises ==
  /\ B!PermitsAddUp
  /\ B!NoIdlePermit
  /\ B!LineIsExact
  /\ B!OpenIffThresholdReached

\* Behind the requests, which come and go, are cancelled and die with their
\* process, the adapter keeps what it promises of permits, line and circuit.
THEOREM AdapterKeepsPromises == GatewaySpec => []AdapterPromises
<1>1. GatewayInit => P!Init
  BY DEF GatewayInit, B!Init, P!Init
<1>2. P!Init => P!Inv /\ P!LineInv
  BY AdapterAssumptionHolds, P!InvInit, P!LineInvInit
<1>3. P!Inv /\ P!LineInv /\ [P!Next]_(P!vars) => (P!Inv /\ P!LineInv)'
  BY AdapterAssumptionHolds, P!InvNext, P!LineInvNext
<1>4. ASSUME P!Inv, P!LineInv PROVE AdapterPromises
  <2>1. P!PermitsAddUp /\ P!LineIsExact /\ P!NoIdlePermit /\ P!OpenIffThresholdReached
    BY <1>4, AdapterAssumptionHolds, P!PermitsCounted, P!LineNumbersWhoWaits
    DEF P!Inv, P!LineInv
  <2> QED
    BY <2>1
    DEF AdapterPromises, P!PermitsAddUp, P!LineIsExact, P!NoIdlePermit, P!At,
        P!OpenIffThresholdReached, P!Cardinality, B!PermitsAddUp, B!LineIsExact,
        B!NoIdlePermit, B!At, B!OpenIffThresholdReached, B!Cardinality
<1> QED
  BY <1>1, <1>2, <1>3, <1>4, StepIsOfAdapter, PTL DEF GatewaySpec
=============================================================================

-------------------------- MODULE ResilientProvider --------------------------
(***************************************************************************)
(* ResilientProviderAdapter, src/llm_control_center/providers/resilient.py *)
(* : every upstream call first asks a circuit breaker, then takes a permit *)
(* of an asyncio.Semaphore within a queue timeout, runs, counts its        *)
(* outcome, and gives the permit back.                                     *)
(*                                                                         *)
(* All coroutines share one event loop.  The sections under _state_lock    *)
(* contain no await, so the lock is never contended and each section is    *)
(* part of the step around it; the suspension points are the wait for a    *)
(* permit and the upstream call.  The semaphore is CPython 3.12's: permits *)
(* are handed to waiters in order, a waiter that has been granted one      *)
(* resumes later, and wait_for runs acquire() in the caller's own task.    *)
(***************************************************************************)
EXTENDS Naturals, Sequences, FiniteSets, SequencesExt

CONSTANTS
  Calls,          \* the calls that may be under way together
  MaxConcurrency, \* max_concurrency
  Threshold,      \* failure_threshold
  Cooldown        \* cooldown_seconds, in ticks of the clock

ASSUME ConstantsAssumption ==
  /\ IsFiniteSet(Calls)
  /\ MaxConcurrency \in Nat \ {0}
  /\ Threshold \in Nat \ {0}
  /\ Cooldown \in Nat \ {0}

VARIABLES
  call,     \* where each call is in _execute; a finished one may come again
  permits,  \* the semaphore's value
  waiters,  \* its deque: calls waiting, or granted and not yet resumed
  failures, \* _consecutive_failures
  open,     \* _circuit_opened_at is set
  age       \* ticks since _circuit_opened_at, up to Cooldown

vars == <<call, permits, waiters, failures, open, age>>
breaker == <<failures, open, age>>

CallPc == {"idle", "waiting", "granted", "running"}

TypeOK ==
  /\ call \in [Calls -> CallPc]
  /\ permits \in 0 .. MaxConcurrency
  /\ waiters \in Seq(Calls)
  /\ failures \in Nat
  /\ open \in BOOLEAN
  /\ age \in 0 .. Cooldown

Init ==
  /\ call = [c \in Calls |-> "idle"]
  /\ permits = MaxConcurrency
  /\ waiters = <<>>
  /\ failures = 0
  /\ open = FALSE
  /\ age = 0

At(pc) == {c \in Calls : call[c] = pc}

-----------------------------------------------------------------------------
(* The semaphore.                                                          *)

WithoutNobody(c) == waiters \* mutant: the line keeps who gave up
PlaceOf(c) == CHOOSE i \in 1 .. Len(waiters) : waiters[i] = c
Without(c) == RemoveAt(waiters, PlaceOf(c))

InLine(calls, line) == {i \in 1 .. Len(line) : calls[line[i]] = "waiting"}

\* The place in line that is served next: the first that waits.
ServedNext(calls, line, i) == \A j \in InLine(calls, line) : i <= j

\* _wake_up_next, from the given state: a free permit goes to the call next in
\* line.  (Some CPython releases repeat this in acquire while permits are left;
\* here the call that is woken does so when it resumes.)
WakeUpNext(calls, line, free) ==
  /\ waiters' = line
  /\ IF free > 0 /\ InLine(calls, line) # {}
       THEN /\ \E i \in InLine(calls, line) :
                 /\ ServedNext(calls, line, i)
                 /\ call' = [calls EXCEPT ![line[i]] = "granted"]
            /\ permits' = free - 1
       ELSE /\ call' = calls
            /\ permits' = free

\* The permit a call that gives up has to hand on.
ReturnedNone(c) == 0   \* mutant: a permit granted too late is lost
Returned(c) == IF call[c] = "granted" THEN 1 ELSE 0

\* Mutant: the permit is put back and nobody is woken.
ReleaseQuietly(c) ==
  /\ call' = [call EXCEPT ![c] = "idle"]
  /\ permits' = permits + 1
  /\ UNCHANGED waiters

\* The call leaves with its permit: release(), in `finally`.
Release(c) == WakeUpNext([call EXCEPT ![c] = "idle"], waiters, permits + 1)

-----------------------------------------------------------------------------
(* _execute.                                                               *)

\* _require_closed_circuit lets a call pass.  A call it rejects changes
\* nothing.
Passes == ~open \/ age >= Cooldown

\* The circuit is closed, and counting starts over.
CloseOnly == open' = FALSE /\ age' = 0 /\ UNCHANGED failures \* mutant
Close == open' = FALSE /\ age' = 0 /\ failures' = 0

\* acquire(), up to where it suspends: a free permit is taken at once unless
\* somebody is in line.
Acquire(c) ==
  IF permits > 0 /\ waiters = <<>>
    THEN /\ permits' = permits - 1
         /\ call' = [call EXCEPT ![c] = "running"]
         /\ UNCHANGED waiters
    ELSE /\ waiters' = Append(waiters, c)
         /\ call' = [call EXCEPT ![c] = "waiting"]
         /\ UNCHANGED permits

\* Mutant: a rejected call starts the cooldown over.
EnterProlonging(c) ==
  /\ call[c] = "idle"
  /\ IF Passes
       THEN (IF open THEN Close ELSE UNCHANGED breaker) /\ Acquire(c)
       ELSE age' = 0 /\ UNCHANGED <<call, permits, waiters, failures, open>>

\* The breaker check, which closes a circuit that has cooled down, then
\* acquire().
Enter(c) ==
  /\ call[c] = "idle"
  /\ Passes
  /\ IF open THEN Close ELSE UNCHANGED breaker
  /\ Acquire(c)

\* A granted call resumes in acquire() and starts the upstream call.
Resume(c) ==
  /\ call[c] = "granted"
  /\ WakeUpNext([call EXCEPT ![c] = "running"], Without(c), permits)
  /\ UNCHANGED breaker

\* Mutant: no timeout, and a permit granted to a cancelled call is lost.
GiveUpWaitingForever(c) ==
  /\ call[c] = "granted"
  /\ call' = [call EXCEPT ![c] = "idle"]
  /\ waiters' = Without(c)
  /\ UNCHANGED <<permits, breaker>>

\* wait_for times out, or the request is cancelled, before the call resumes.
\* A permit that had been granted is handed on.
GiveUpWaiting(c) ==
  /\ call[c] \in {"waiting", "granted"}
  /\ WakeUpNext([call EXCEPT ![c] = "idle"], Without(c), permits + Returned(c))
  /\ UNCHANGED breaker

\* The upstream call returns: whatever the circuit was, it is now closed.
Succeed(c) ==
  /\ call[c] = "running"
  /\ Close
  /\ Release(c)

\* The upstream call raises: from the threshold on, each failure opens the
\* circuit anew.
Fail(c) ==
  /\ call[c] = "running"
  /\ failures' = failures + 1
  /\ IF failures + 1 >= Threshold
       THEN open' = TRUE /\ age' = 0
       ELSE UNCHANGED <<open, age>>
  /\ Release(c)

\* The request is cancelled during the upstream call.
CancelRunning(c) ==
  /\ call[c] = "running"
  /\ Release(c)
  /\ UNCHANGED breaker

\* Time passes.
Tick ==
  /\ open /\ age < Cooldown
  /\ age' = age + 1
  /\ UNCHANGED <<call, permits, waiters, failures, open>>

Next ==
  \/ \E c \in Calls : \/ Enter(c) \/ Resume(c) \/ GiveUpWaiting(c)
                      \/ Succeed(c) \/ Fail(c) \/ CancelRunning(c)
  \/ Tick

\* The event loop resumes granted calls and fires timers, time passes, and an
\* upstream call ends (the HTTP clients have a timeout).  No call need come.
Fairness ==
  /\ \A c \in Calls : /\ WF_vars(Resume(c) \/ GiveUpWaiting(c))
                      /\ WF_vars(Succeed(c) \/ Fail(c) \/ CancelRunning(c))
  /\ WF_vars(Tick)

Spec == Init /\ [][Next]_vars
FairSpec == Spec /\ Fairness

-----------------------------------------------------------------------------
(* Properties.                                                             *)

\* No permit is lost or made up, whatever times out, fails or is cancelled in
\* whatever order: the free permits and the calls that hold one add up, and at
\* most MaxConcurrency calls are upstream (acquire within wait_for, release in
\* `finally`).
PermitsAddUp ==
  permits + Cardinality(At("granted") \cup At("running")) = MaxConcurrency

\* A call waits while a permit is free only behind one that has been granted
\* its own and will pass the free one on when it resumes: every exit passes its
\* permit on, also that of a call that gives up just after it was granted one.
NoIdlePermit == permits > 0 /\ At("waiting") # {} => At("granted") # {}

\* The line holds exactly the calls that wait or have been granted a permit,
\* each once: a call that gave up does not come back as a waiter.
LineIsExact ==
  /\ \A c \in Calls :
       Cardinality({i \in 1 .. Len(waiters) : waiters[i] = c})
         = (IF call[c] \in {"waiting", "granted"} THEN 1 ELSE 0)
  /\ Len(waiters) = Cardinality(At("waiting") \cup At("granted"))

\* The circuit is open exactly when the failures since the last success or
\* cooldown have reached the threshold, also after late outcomes of calls that
\* were under way when it opened (_execute, _require_closed_circuit).
OpenIffThresholdReached == open <=> failures >= Threshold

\* A circuit stays open for a finite time even if calls that were already past
\* the check fail late, and open it anew: nothing joins them meanwhile, so the
\* cooldown ends.
CoolsDown == open ~> (~open \/ age = Cooldown)

\* Every call ends: the wait is bounded by the queue timeout, and the permit
\* comes back.
EveryCallEnds == \A c \in Calls : call[c] # "idle" ~> call[c] = "idle"

\* The circuit, once open, stays open for the cooldown.
OpenForTheCooldown == [][open /\ age < Cooldown => open']_vars
=============================================================================

------------------------------ MODULE RateLimit ------------------------------
(***************************************************************************)
(* The shared rate limit: RateLimitMiddleware.dispatch in                  *)
(* src/llm_control_center/api/middleware.py and Store.consume_rate_limit   *)
(* in src/llm_control_center/db.py, for the requests of one bucket (an API *)
(* key, or a client IP and a group of endpoints) on any number of gateway  *)
(* replicas.  Rows of other buckets are never touched together with it.    *)
(*                                                                         *)
(* A request reads the clock of its replica, is handed to the thread pool, *)
(* and there runs one INSERT ... ON CONFLICT DO UPDATE, which the database *)
(* makes atomic.  Requests may overtake each other in between, and the     *)
(* clocks of two replicas differ.                                          *)
(***************************************************************************)
EXTENDS Integers, FiniteSets, FiniteSetsExt

CONSTANTS
  Requests, \* the requests of the bucket
  Replicas, \* the gateway processes that share the database
  Limit,    \* requests allowed per window (0 switches the limit off)
  Window,   \* window_seconds
  Second,   \* ticks of time.time() in a second: it reads fractions
  MaxSkew,  \* how far the replicas' clocks may be apart, in ticks
  MaxTime   \* bound: the clocks stop here

ASSUME ConstantsAssumption ==
  /\ Limit \in Nat \ {0}
  /\ Window \in Nat \ {0}
  /\ Second \in Nat \ {0}
  /\ MaxSkew \in Nat
  /\ MaxTime \in Nat
  /\ IsFiniteSet(Requests)

VARIABLES
  clock,   \* ticks of time.time() on each replica
  pc,      \* where each request is in dispatch
  now,     \* the ticks each request has read
  reset,   \* the reset_time each request got back, in seconds
  remaining, \* the requests that remained in the window, as it was told
  start,   \* window_start of the bucket's row, in seconds, -1 without a row
  count,   \* request_count of the row
  openings, \* history: how often each window was opened in the row
  overtaken \* history: a request came with an earlier window than the row's

vars == <<clock, pc, now, reset, remaining, start, count, openings, overtaken>>
row == <<start, count, openings, overtaken>>
answers == <<reset, remaining>>

Time == 0 .. MaxTime
RequestPc == {"idle", "timed", "allowed", "limited", "unavailable", "charged"}

TypeOK ==
  /\ clock \in [Replicas -> Time]
  /\ pc \in [Requests -> RequestPc]
  /\ now \in [Requests -> Time]
  /\ reset \in [Requests -> Nat]
  /\ remaining \in [Requests -> 0 .. Limit]
  /\ start \in {-1} \cup Time
  /\ count \in Nat
  /\ openings \in [Time -> Nat]
  /\ overtaken \in BOOLEAN

Init ==
  /\ clock = [p \in Replicas |-> 0]
  /\ pc = [q \in Requests |-> "idle"]
  /\ now = [q \in Requests |-> 0]
  /\ reset = [q \in Requests |-> 0]
  /\ remaining = [q \in Requests |-> 0]
  /\ start = -1
  /\ count = 0
  /\ openings = [w \in Time |-> 0]
  /\ overtaken = FALSE

\* The window a time falls into: int(now // window_seconds) * window_seconds.
WindowOf(t) == (t \div (Window * Second)) * Window

\* Time passes on one replica, within the skew.
Tick(p) ==
  /\ clock[p] < MaxTime
  /\ \A o \in Replicas \ {p} : clock[p] + 1 <= clock[o] + MaxSkew
  /\ clock' = [clock EXCEPT ![p] = @ + 1]
  /\ UNCHANGED <<pc, now, answers, row>>

\* now = time.time(), after the body has been read and the key looked up.
ReadClock(q) ==
  /\ pc[q] = "idle"
  /\ \E p \in Replicas : now' = [now EXCEPT ![q] = clock[p]]
  /\ pc' = [pc EXCEPT ![q] = "timed"]
  /\ UNCHANGED <<clock, answers, row>>

\* The count after the statement: 1 in a window the row does not hold.
CountAfterForgetful(w) == 1 \* mutant
CountAfterSticky(w) == count + 1 \* mutant
CountAfter(w) == IF start = w THEN count + 1 ELSE 1

\* Mutant: <, so that the last request of the allowance is refused.
WithinStrict(n) == n < Limit
\* Mutant: the request after the last is let through.
WithinOneMore(n) == n <= Limit + 1
Within(n) == n <= Limit

\* The row after the statement, for a request of window w.
CountIn(w) ==
  /\ count' = CountAfter(w)
  /\ start' = w
  /\ openings' = IF start = w THEN openings
                              ELSE [openings EXCEPT ![w] = @ + 1]
  /\ overtaken' = (overtaken \/ w < start)

\* consume_rate_limit, and dispatch's answer.
Consume(q) ==
  LET w == WindowOf(now[q])
      n == CountAfter(w)
  IN /\ pc[q] = "timed"
     /\ CountIn(w)
     /\ pc' = [pc EXCEPT ![q] = IF Within(n) THEN "allowed" ELSE "limited"]
     /\ remaining' = [remaining EXCEPT ![q] = IF Within(n) THEN Limit - n ELSE 0]
     /\ reset' = [reset EXCEPT ![q] = w + Window]
     /\ UNCHANGED <<clock, now>>

\* The statement fails: 503.  The row is as before, or the commit was done and
\* only its acknowledgement lost: then the request is charged.
ConsumeRaises(q) ==
  /\ pc[q] = "timed"
  /\ \/ /\ pc' = [pc EXCEPT ![q] = "unavailable"]
        /\ UNCHANGED row
     \/ /\ pc' = [pc EXCEPT ![q] = "charged"]
        /\ CountIn(WindowOf(now[q]))
  /\ UNCHANGED <<clock, now, answers>>

Next ==
  \/ \E p \in Replicas : Tick(p)
  \/ \E q \in Requests : ReadClock(q) \/ Consume(q) \/ ConsumeRaises(q)

Spec == Init /\ [][Next]_vars

-----------------------------------------------------------------------------
(* Properties.                                                             *)

Admitted(w) == {q \in Requests : pc[q] = "allowed" /\ WindowOf(now[q]) = w}
Refused(w) == {q \in Requests : pc[q] = "limited" /\ WindowOf(now[q]) = w}
Charged(w) == {q \in Requests : pc[q] = "charged" /\ WindowOf(now[q]) = w}

\* Retry-After of a refused request: int(reset_time - now) + 1 seconds.
RetryAfterRoundedDown(q) == (reset[q] * Second - now[q]) \div Second \* mutant
RetryAfter(q) == (reset[q] * Second - now[q]) \div Second + 1

\* Each time a window is opened in the row it admits at most Limit requests,
\* however requests and replicas interleave: the statement counts and decides
\* at once (consume_rate_limit).
QuotaPerOpening ==
  \A w \in Time : Cardinality(Admitted(w)) <= Limit * openings[w]

\* As long as no request reaches the database after one of a later window, a
\* window is opened once, so it admits at most Limit requests on all replicas
\* together.
QuotaUnlessOvertaken ==
  ~overtaken => \A w \in Time : /\ openings[w] <= 1
                                /\ Cardinality(Admitted(w)) <= Limit

\* Nobody is refused while the allowance lasts: when a request is refused in a
\* window, Limit requests were admitted in it, or charged and answered 503.
RefusedOnlyWhenSpent ==
  \A w \in Time :
    Refused(w) # {} => Cardinality(Admitted(w) \cup Charged(w)) >= Limit

\* What the row says is what was answered: the row counts exactly the requests
\* admitted, refused and charged in the window it holds, and exactly those past
\* the limit were refused, if the window was opened once.
RowMatchesAnswers ==
  start # -1 /\ openings[start] = 1 =>
    /\ count = Cardinality(Admitted(start) \cup Refused(start) \cup Charged(start))
    /\ Cardinality(Admitted(start) \cup Charged(start)) >= Min({count, Limit})
    /\ Cardinality(Admitted(start)) <= Limit

\* A client that is refused and waits Retry-After seconds comes back in a later
\* window (dispatch).
RetryAfterLeavesWindow ==
  \A q \in Requests : pc[q] = "limited" =>
    WindowOf(now[q] + RetryAfter(q) * Second) > WindowOf(now[q])

\* One allowance for all replicas: a window admits at most Limit requests.
ReplicasShareOneAllowance ==
  \A w \in Time : Cardinality(Admitted(w)) <= Limit
=============================================================================

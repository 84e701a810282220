----------------------- MODULE ResilientProviderProofs -----------------------
(***************************************************************************)
(* Proofs about ResilientProvider, for every finite set of concurrent      *)
(* calls, every number of permits, threshold and cooldown.                 *)
(***************************************************************************)
EXTENDS ResilientProvider, FiniteSetTheorems, SequenceTheorems, TLAPS

\* The calls that hold a permit, when the calls are as given.
HoldersIn(calls) == {c \in Calls : calls[c] \in {"granted", "running"}}

\* A call that waits or has just been granted a permit has a place in line:
\* removing it from the line leaves a line.
InLineArePlaced ==
  \A c \in Calls : call[c] \in {"waiting", "granted"} =>
    \E i \in 1 .. Len(waiters) : waiters[i] = c

\* Everybody but c who has a place in line has one in the other line.
OthersPlaced(c, line) ==
  \A d \in Calls \ {c} :
    (\E i \in 1 .. Len(waiters) : waiters[i] = d) =>
      \E i \in 1 .. Len(line) : line[i] = d

\* TypeOK and PermitsAddUp depend on each other: permits stays in its range
\* because the holders are counted, and taking one changes the count by one.
Inv ==
  /\ TypeOK
  /\ permits + Cardinality(HoldersIn(call)) = MaxConcurrency
  /\ OpenIffThresholdReached
  /\ InLineArePlaced

\* One call is given a permit: one holder more.
LEMMA OneMoreHolder ==
  ASSUME NEW calls \in [Calls -> CallPc], NEW c \in Calls,
         calls[c] \notin {"granted", "running"},
         NEW pc \in {"granted", "running"}
  PROVE  /\ Cardinality(HoldersIn([calls EXCEPT ![c] = pc]))
              = Cardinality(HoldersIn(calls)) + 1
         /\ Cardinality(HoldersIn(calls)) \in Nat
<1> DEFINE H == HoldersIn(calls)
<1>1. IsFiniteSet(H)
  BY ConstantsAssumption, FS_Subset DEF HoldersIn
<1>2. HoldersIn([calls EXCEPT ![c] = pc]) = H \cup {c} /\ c \notin H
  BY DEF HoldersIn
<1> QED
  BY <1>1, <1>2, FS_AddElement, FS_CardinalityType

\* A holder becomes idle: one holder less.
LEMMA OneHolderLess ==
  ASSUME NEW calls \in [Calls -> CallPc], NEW c \in Calls,
         calls[c] \in {"granted", "running"}
  PROVE  /\ Cardinality(HoldersIn([calls EXCEPT ![c] = "idle"]))
              = Cardinality(HoldersIn(calls)) - 1
         /\ Cardinality(HoldersIn(calls)) \in Nat \ {0}
<1> DEFINE after == [calls EXCEPT ![c] = "idle"]
<1>1. after \in [Calls -> CallPc] /\ after[c] = "idle"
  BY DEF CallPc
<1>2. [after EXCEPT ![c] = calls[c]] = calls
  OBVIOUS
<1>3. Cardinality(HoldersIn(calls)) = Cardinality(HoldersIn(after)) + 1
  BY <1>1, <1>2, OneMoreHolder
<1>4. Cardinality(HoldersIn(after)) \in Nat
  BY <1>1, OneMoreHolder
<1> QED
  BY <1>3, <1>4

\* What a permit passed on, or kept, by _wake_up_next leaves of the count.
LEMMA WakeUpNextKeepsCount ==
  ASSUME NEW calls \in [Calls -> CallPc], NEW line \in Seq(Calls),
         NEW free \in Nat,
         free + Cardinality(HoldersIn(calls)) = MaxConcurrency,
         WakeUpNext(calls, line, free)
  PROVE  /\ call' \in [Calls -> CallPc]
         /\ waiters' \in Seq(Calls)
         /\ permits' \in 0 .. MaxConcurrency
         /\ permits' + Cardinality(HoldersIn(call')) = MaxConcurrency
<1>1. Cardinality(HoldersIn(calls)) \in Nat
  <2>1. HoldersIn(calls) \subseteq Calls
    BY DEF HoldersIn
  <2> QED
    BY <2>1, ConstantsAssumption, FS_Subset, FS_CardinalityType
<1>2. CASE free > 0 /\ InLine(calls, line) # {}
  <2>1. PICK i \in InLine(calls, line) :
               call' = [calls EXCEPT ![line[i]] = "granted"]
    BY <1>2 DEF WakeUpNext
  <2>2. permits' = free - 1 /\ waiters' = line
    BY <1>2 DEF WakeUpNext
  <2>3. line[i] \in Calls /\ calls[line[i]] = "waiting"
    BY DEF InLine
  <2>4. Cardinality(HoldersIn(call')) = Cardinality(HoldersIn(calls)) + 1
    BY <2>1, <2>3, OneMoreHolder
  <2>5. call' \in [Calls -> CallPc]
    BY <2>1 DEF CallPc
  <2> QED
    BY <1>1, <1>2, <2>2, <2>4, <2>5, ConstantsAssumption
<1>3. CASE ~(free > 0 /\ InLine(calls, line) # {})
  BY <1>1, <1>3, ConstantsAssumption DEF WakeUpNext
<1> QED
  BY <1>2, <1>3

\* The line without a call is a line of the others.
LEMMA OthersKeepTheirPlace ==
  ASSUME waiters \in Seq(Calls), NEW c \in Calls,
         \E i \in 1 .. Len(waiters) : waiters[i] = c
  PROVE  Without(c) \in Seq(Calls) /\ OthersPlaced(c, Without(c))
<1> DEFINE p == PlaceOf(c)
<1> DEFINE before == SubSeq(waiters, 1, p - 1)
<1> DEFINE after == SubSeq(waiters, p + 1, Len(waiters))
<1>1. p \in 1 .. Len(waiters) /\ waiters[p] = c
  BY DEF PlaceOf
<1> HIDE DEF p
<1>2. /\ before \in Seq(Calls)
      /\ Len(before) = p - 1
      /\ \A i \in 1 .. p - 1 : before[i] = waiters[i]
  BY <1>1
<1>3. /\ after \in Seq(Calls)
      /\ Len(after) = Len(waiters) - p
      /\ \A i \in 1 .. Len(waiters) - p : after[i] = waiters[p + i]
  BY <1>1
<1>4. Without(c) = before \o after
  BY DEF Without, RemoveAt, p
<1> HIDE DEF before, after
<1>5. before \o after \in Seq(Calls)
  BY <1>2, <1>3
<1>6. ASSUME NEW d \in Calls \ {c}, NEW i \in 1 .. Len(waiters),
             waiters[i] = d
      PROVE  \E j \in 1 .. Len(before \o after) : (before \o after)[j] = d
  <2>1. CASE i < p
    <3>1. before[i] = d /\ i \in 1 .. Len(before)
      BY <1>1, <1>2, <1>6, <2>1
    <3>2. /\ i \in 1 .. Len(before \o after)
          /\ (before \o after)[i] = before[i]
      BY <1>2, <1>3, <3>1
    <3> QED
      BY <3>1, <3>2
  <2>2. CASE i > p
    <3>1. i - p \in 1 .. Len(after) /\ after[i - p] = d
      BY <1>1, <1>3, <1>6, <2>2
    <3>2. /\ i - 1 \in 1 .. Len(before \o after)
          /\ (before \o after)[i - 1] = after[i - 1 - Len(before)]
      BY <1>1, <1>2, <1>3, <1>6, <2>2
    <3>3. i - 1 - Len(before) = i - p
      BY <1>1, <1>2, <1>6
    <3> QED
      BY <3>1, <3>2, <3>3
  <2>3. i # p
    BY <1>1, <1>6
  <2> QED
    BY <1>1, <2>1, <2>2, <2>3
<1> QED
  BY <1>4, <1>5, <1>6 DEF OthersPlaced

LEMMA InvInit == Init => Inv
<1> SUFFICES ASSUME Init PROVE Inv
  OBVIOUS
<1>1. HoldersIn(call) = {}
  BY DEF Init, HoldersIn
<1>2. Cardinality(HoldersIn(call)) = 0
  BY <1>1, FS_EmptySet
<1>3. OpenIffThresholdReached
  BY ConstantsAssumption DEF Init, OpenIffThresholdReached
<1>4. TypeOK
  <2>1. MaxConcurrency \in Nat /\ Cooldown \in Nat
    BY ConstantsAssumption
  <2>2. permits \in 0 .. MaxConcurrency /\ age \in 0 .. Cooldown
    BY <2>1 DEF Init
  <2>3. call \in [Calls -> CallPc] /\ waiters \in Seq(Calls)
    BY DEF Init, CallPc
  <2> QED
    BY <2>2, <2>3 DEF Init, TypeOK
<1>5. InLineArePlaced
  BY DEF Init, InLineArePlaced
<1> QED
  BY <1>2, <1>3, <1>4, <1>5, ConstantsAssumption DEF Init, Inv

\* The steps that pass a permit on keep the permits and the line in order: the
\* call that leaves has nothing to do with the line any more.
LEMMA LeavingKeepsLine ==
  ASSUME Inv, NEW c \in Calls, NEW pc \in {"idle", "running"},
         NEW line \in Seq(Calls), NEW free \in Nat,
         OthersPlaced(c, line),
         WakeUpNext([call EXCEPT ![c] = pc], line, free)
  PROVE  InLineArePlaced'
<1> DEFINE calls == [call EXCEPT ![c] = pc]
<1>1. ASSUME NEW d \in Calls, call'[d] \in {"waiting", "granted"}
      PROVE  calls[d] \in {"waiting", "granted"}
  BY <1>1 DEF WakeUpNext, InLine, Inv, TypeOK
<1>2. ASSUME NEW d \in Calls, calls[d] \in {"waiting", "granted"}
      PROVE  d # c /\ call[d] \in {"waiting", "granted"}
  BY <1>2 DEF Inv, TypeOK
<1>3. waiters' = line
  BY DEF WakeUpNext
<1> QED
  BY <1>1, <1>2, <1>3 DEF Inv, InLineArePlaced, OthersPlaced

LEMMA CloseResets ==
  ASSUME Close
  PROVE  /\ failures' \in Nat /\ open' \in BOOLEAN /\ age' \in 0 .. Cooldown
         /\ OpenIffThresholdReached'
<1>1. ~(0 >= Threshold) /\ 0 \in 0 .. Cooldown
  BY ConstantsAssumption
<1> QED
  BY <1>1 DEF Close, OpenIffThresholdReached

LEMMA InvNext == Inv /\ [Next]_vars => Inv'
<1> SUFFICES ASSUME Inv, [Next]_vars PROVE Inv'
  OBVIOUS
<1> USE DEF breaker
<1>t. /\ call \in [Calls -> CallPc] /\ permits \in 0 .. MaxConcurrency
      /\ waiters \in Seq(Calls) /\ failures \in Nat /\ open \in BOOLEAN
      /\ age \in 0 .. Cooldown
      /\ permits + Cardinality(HoldersIn(call)) = MaxConcurrency
  BY DEF Inv, TypeOK
<1>c. MaxConcurrency \in Nat \ {0} /\ Threshold \in Nat \ {0}
      /\ Cooldown \in Nat \ {0}
  BY ConstantsAssumption
\* What a step that only moves calls and permits has to show.
<1>q. ASSUME call' \in [Calls -> CallPc], waiters' \in Seq(Calls),
             permits' \in 0 .. MaxConcurrency,
             permits' + Cardinality(HoldersIn(call')) = MaxConcurrency,
             InLineArePlaced', UNCHANGED breaker
      PROVE  Inv'
  BY <1>t, <1>q DEF Inv, TypeOK, OpenIffThresholdReached, HoldersIn
\* What a call that leaves with its permit has to show.
<1>r. ASSUME NEW c \in Calls, call[c] = "running", Release(c)
      PROVE  /\ call' \in [Calls -> CallPc]
             /\ waiters' \in Seq(Calls)
             /\ permits' \in 0 .. MaxConcurrency
             /\ permits' + Cardinality(HoldersIn(call')) = MaxConcurrency
             /\ InLineArePlaced'
  <2> DEFINE calls == [call EXCEPT ![c] = "idle"]
  <2>1. calls \in [Calls -> CallPc] /\ permits + 1 \in Nat
    BY <1>t DEF CallPc
  <2>2. permits + 1 + Cardinality(HoldersIn(calls)) = MaxConcurrency
    <3>1. /\ Cardinality(HoldersIn(calls)) = Cardinality(HoldersIn(call)) - 1
          /\ Cardinality(HoldersIn(call)) \in Nat \ {0}
      BY <1>t, <1>r, OneHolderLess
    <3> QED
      BY <1>t, <1>c, <3>1
  <2>3. WakeUpNext(calls, waiters, permits + 1)
    BY <1>r DEF Release
  <2>4. OthersPlaced(c, waiters)
    BY DEF OthersPlaced
  <2>5. InLineArePlaced'
    BY <1>t, <2>1, <2>3, <2>4, LeavingKeepsLine
  <2> QED
    BY <1>t, <2>1, <2>2, <2>3, <2>5, WakeUpNextKeepsCount
<1>1. ASSUME NEW c \in Calls, Enter(c) PROVE Inv'
  <2>1. call[c] = "idle" /\ Acquire(c)
    BY <1>1 DEF Enter
  <2>2. /\ failures' \in Nat /\ open' \in BOOLEAN /\ age' \in 0 .. Cooldown
        /\ OpenIffThresholdReached'
    <3>1. CASE open
      BY <1>1, <1>c, <3>1, CloseResets DEF Enter
    <3>2. CASE ~open
      BY <1>1, <1>t, <3>2 DEF Enter, Inv, OpenIffThresholdReached
    <3> QED
      BY <3>1, <3>2
  <2>3. CASE permits > 0 /\ waiters = <<>>
    <3>1. /\ permits' = permits - 1
          /\ call' = [call EXCEPT ![c] = "running"]
          /\ waiters' = waiters
      BY <2>1, <2>3 DEF Acquire
    <3>2. permits' + Cardinality(HoldersIn(call')) = MaxConcurrency
      <4>1. /\ Cardinality(HoldersIn(call'))
                 = Cardinality(HoldersIn(call)) + 1
            /\ Cardinality(HoldersIn(call)) \in Nat
        BY <1>t, <2>1, <3>1, OneMoreHolder
      <4> QED
        BY <1>t, <1>c, <3>1, <4>1
    <3>3. call' \in [Calls -> CallPc] /\ permits' \in 0 .. MaxConcurrency
      BY <1>t, <1>c, <2>3, <3>1 DEF CallPc
    <3>4. InLineArePlaced'
      BY <1>t, <2>1, <3>1 DEF Inv, InLineArePlaced
    <3> QED
      BY <1>t, <2>2, <3>1, <3>2, <3>3, <3>4 DEF Inv, TypeOK, HoldersIn
  <2>4. CASE ~(permits > 0 /\ waiters = <<>>)
    <3>1. /\ permits' = permits
          /\ call' = [call EXCEPT ![c] = "waiting"]
          /\ waiters' = Append(waiters, c)
      BY <2>1, <2>4 DEF Acquire
    <3>2. HoldersIn(call') = HoldersIn(call)
      BY <1>t, <2>1, <3>1 DEF HoldersIn
    <3>3. call' \in [Calls -> CallPc] /\ waiters' \in Seq(Calls)
      BY <1>t, <3>1 DEF CallPc
    <3>4. InLineArePlaced'
      <4>1. ASSUME NEW d \in Calls, call'[d] \in {"waiting", "granted"}
            PROVE  \E i \in 1 .. Len(waiters') : waiters'[i] = d
        <5>1. CASE d = c
          BY <1>t, <3>1, <5>1
        <5>2. CASE d # c
          <6>1. PICK i \in 1 .. Len(waiters) : waiters[i] = d
            BY <1>t, <3>1, <4>1, <5>2 DEF Inv, InLineArePlaced
          <6> QED
            BY <1>t, <3>1, <6>1
        <5> QED
          BY <5>1, <5>2
      <4> QED
        BY <4>1 DEF InLineArePlaced
    <3> QED
      BY <1>t, <2>2, <3>1, <3>2, <3>3, <3>4 DEF Inv, TypeOK, HoldersIn
  <2> QED
    BY <2>3, <2>4
<1>2. ASSUME NEW c \in Calls, Resume(c) PROVE Inv'
  <2> DEFINE calls == [call EXCEPT ![c] = "running"]
  <2>1. /\ call[c] = "granted"
        /\ WakeUpNext(calls, Without(c), permits)
        /\ UNCHANGED breaker
    BY <1>2 DEF Resume
  <2>2. \E i \in 1 .. Len(waiters) : waiters[i] = c
    BY <2>1 DEF Inv, InLineArePlaced
  <2>3. Without(c) \in Seq(Calls) /\ OthersPlaced(c, Without(c))
    BY <1>t, <2>2, OthersKeepTheirPlace
  <2>4. calls \in [Calls -> CallPc] /\ permits \in Nat
    BY <1>t DEF CallPc
  <2>5. HoldersIn(calls) = HoldersIn(call)
    BY <1>t, <2>1 DEF HoldersIn
  <2>6. InLineArePlaced'
    BY <2>1, <2>3, <2>4, LeavingKeepsLine
  <2> QED
    BY <1>t, <1>q, <2>1, <2>3, <2>4, <2>5, <2>6, WakeUpNextKeepsCount
<1>3. ASSUME NEW c \in Calls, GiveUpWaiting(c) PROVE Inv'
  <2> DEFINE calls == [call EXCEPT ![c] = "idle"]
  <2> DEFINE free == permits + Returned(c)
  <2>1. /\ call[c] \in {"waiting", "granted"}
        /\ WakeUpNext(calls, Without(c), free)
        /\ UNCHANGED breaker
    BY <1>3 DEF GiveUpWaiting
  <2>2. \E i \in 1 .. Len(waiters) : waiters[i] = c
    BY <2>1 DEF Inv, InLineArePlaced
  <2>3. Without(c) \in Seq(Calls) /\ OthersPlaced(c, Without(c))
    BY <1>t, <2>2, OthersKeepTheirPlace
  <2>4. calls \in [Calls -> CallPc]
    BY <1>t DEF CallPc
  <2>5. free \in Nat /\ free + Cardinality(HoldersIn(calls)) = MaxConcurrency
    <3>1. CASE call[c] = "granted"
      <4>1. /\ Cardinality(HoldersIn(calls)) = Cardinality(HoldersIn(call)) - 1
            /\ Cardinality(HoldersIn(call)) \in Nat \ {0}
        BY <1>t, <3>1, OneHolderLess
      <4> QED
        BY <1>t, <1>c, <3>1, <4>1 DEF Returned
    <3>2. CASE call[c] = "waiting"
      <4>1. HoldersIn(calls) = HoldersIn(call)
        BY <1>t, <3>2 DEF HoldersIn
      <4> QED
        BY <1>t, <3>2, <4>1 DEF Returned
    <3> QED
      BY <2>1, <3>1, <3>2
  <2>6. InLineArePlaced'
    BY <2>1, <2>3, <2>4, <2>5, LeavingKeepsLine
  <2> QED
    BY <1>t, <1>q, <2>1, <2>3, <2>4, <2>5, <2>6, WakeUpNextKeepsCount
<1>4. ASSUME NEW c \in Calls, Succeed(c) PROVE Inv'
  <2>1. /\ failures' \in Nat /\ open' \in BOOLEAN /\ age' \in 0 .. Cooldown
        /\ OpenIffThresholdReached'
    BY <1>4, CloseResets DEF Succeed
  <2> QED
    BY <1>4, <1>r, <2>1 DEF Succeed, Inv, TypeOK, HoldersIn
<1>5. ASSUME NEW c \in Calls, Fail(c) PROVE Inv'
  <2>1. /\ failures' \in Nat /\ open' \in BOOLEAN /\ age' \in 0 .. Cooldown
        /\ OpenIffThresholdReached'
    <3>1. failures' = failures + 1
      BY <1>5 DEF Fail
    <3>2. CASE failures + 1 >= Threshold
      <4>1. open' = TRUE /\ age' = 0
        BY <1>5, <3>2 DEF Fail
      <4>2. failures' >= Threshold
        BY <3>1, <3>2
      <4> QED
        BY <1>t, <1>c, <3>1, <4>1, <4>2 DEF OpenIffThresholdReached
    <3>3. CASE ~(failures + 1 >= Threshold)
      <4>1. UNCHANGED <<open, age>>
        BY <1>5, <3>3 DEF Fail
      <4>2. ~(failures >= Threshold) /\ ~(failures' >= Threshold)
        BY <1>t, <1>c, <3>1, <3>3
      <4> QED
        BY <1>t, <3>1, <4>1, <4>2 DEF Inv, OpenIffThresholdReached
    <3> QED
      BY <3>2, <3>3
  <2> QED
    BY <1>5, <1>r, <2>1 DEF Fail, Inv, TypeOK, HoldersIn
<1>6. ASSUME NEW c \in Calls, CancelRunning(c) PROVE Inv'
  BY <1>6, <1>q, <1>r DEF CancelRunning
<1>7. CASE Tick
  BY <1>7, <1>t, <1>c
  DEF Tick, Inv, TypeOK, OpenIffThresholdReached, InLineArePlaced, HoldersIn
<1>8. CASE UNCHANGED vars
  BY <1>8, <1>t
  DEF vars, Inv, TypeOK, OpenIffThresholdReached, InLineArePlaced, HoldersIn
<1> QED
  BY <1>1, <1>2, <1>3, <1>4, <1>5, <1>6, <1>7, <1>8 DEF Next

\* The inductive invariant holds in every state.
THEOREM InvInvariant == Spec => []Inv
  BY InvInit, InvNext, PTL DEF Spec

\* Every variable keeps its type: in particular the semaphore's value stays
\* between zero and max_concurrency.
THEOREM TypeCorrect == Spec => []TypeOK
<1>1. Inv => TypeOK
  BY DEF Inv
<1> QED
  BY <1>1, InvInvariant, PTL

LEMMA PermitsCounted == Inv => PermitsAddUp
<1>1. HoldersIn(call) = At("granted") \cup At("running")
  BY DEF HoldersIn, At
<1> QED
  BY <1>1 DEF Inv, PermitsAddUp

\* No permit is lost or made up by any order of grants, timeouts,
\* cancellations, failures and successes, so at most max_concurrency calls are
\* upstream at once.
THEOREM PermitsAlwaysAddUp == Spec => []PermitsAddUp
  BY PermitsCounted, InvInvariant, PTL

\* The circuit is open exactly when the failure count has reached the
\* threshold.
THEOREM BreakerFollowsCount == Spec => []OpenIffThresholdReached
<1>1. Inv => OpenIffThresholdReached
  BY DEF Inv
<1> QED
  BY <1>1, InvInvariant, PTL

-----------------------------------------------------------------------------
(* Who is in line, and whom a free permit may pass over.                   *)

\* Nobody is in the line twice.
Distinct(line) == \A i, j \in 1 .. Len(line) : line[i] = line[j] => i = j

\* The line holds nobody but those who wait or have been granted a permit.
NobodyElse ==
  \A i \in 1 .. Len(waiters) : call[waiters[i]] \in {"waiting", "granted"}

LineInv == Distinct(waiters) /\ NobodyElse /\ NoIdlePermit

\* A line for those who stay when c leaves it.
LineOfOthers(c, line) ==
  /\ line \in Seq(Calls)
  /\ Distinct(line)
  /\ \A i \in 1 .. Len(line) :
       line[i] # c /\ call[line[i]] \in {"waiting", "granted"}
  /\ OthersPlaced(c, line)

\* What is left of the line when c is taken out.
LEMMA LineWithoutOne ==
  ASSUME Inv, LineInv, NEW c \in Calls, call[c] \in {"waiting", "granted"}
  PROVE  LineOfOthers(c, Without(c))
<1> DEFINE p == PlaceOf(c)
<1>0. waiters \in Seq(Calls)  BY DEF Inv, TypeOK
<1>1. p \in 1 .. Len(waiters) /\ waiters[p] = c
  BY DEF PlaceOf, Inv, InLineArePlaced
<1>2. Without(c) = SubSeq(waiters, 1, p - 1) \o SubSeq(waiters, p + 1, Len(waiters))
  BY DEF Without, RemoveAt
<1> HIDE DEF p
<1>3. /\ Without(c) \in Seq(Calls)
      /\ Len(Without(c)) = Len(waiters) - 1
      /\ \A i \in 1 .. Len(waiters) - 1 :
           Without(c)[i] = waiters[IF i < p THEN i ELSE i + 1]
  <2> DEFINE before == SubSeq(waiters, 1, p - 1)
  <2> DEFINE after == SubSeq(waiters, p + 1, Len(waiters))
  <2>1. /\ before \in Seq(Calls) /\ Len(before) = p - 1
        /\ \A i \in 1 .. p - 1 : before[i] = waiters[i]
    BY <1>0, <1>1
  <2>2. /\ after \in Seq(Calls) /\ Len(after) = Len(waiters) - p
        /\ \A i \in 1 .. Len(waiters) - p : after[i] = waiters[p + i]
    BY <1>0, <1>1
  <2>3. Without(c) = before \o after  BY <1>2
  <2> HIDE DEF before, after
  <2>4. Without(c) \in Seq(Calls) /\ Len(Without(c)) = Len(waiters) - 1
    <3>1. /\ before \o after \in Seq(Calls)
          /\ Len(before \o after) = Len(before) + Len(after)
      BY <2>1, <2>2
    <3>2. Len(before) + Len(after) = Len(waiters) - 1
      BY <1>0, <1>1, <2>1, <2>2
    <3> QED  BY <2>3, <3>1, <3>2
  <2>5. ASSUME NEW i \in 1 .. Len(waiters) - 1
        PROVE  Without(c)[i] = waiters[IF i < p THEN i ELSE i + 1]
    <3>1. CASE i < p
      BY <1>0, <1>1, <2>1, <2>2, <2>3, <3>1
    <3>2. CASE ~(i < p)
      <4>1. Without(c)[i] = after[i - (p - 1)]
        <5>1. /\ i \in 1 .. Len(before) + Len(after) /\ i > Len(before)
              /\ i - Len(before) = i - (p - 1)
          BY <1>0, <1>1, <2>1, <2>2, <3>2
        <5>2. (before \o after)[i] = after[i - Len(before)]
          BY <2>1, <2>2, <5>1
        <5> QED  BY <2>3, <5>1, <5>2
      <4>2. i - (p - 1) \in 1 .. Len(waiters) - p /\ p + (i - (p - 1)) = i + 1
        BY <1>0, <1>1, <3>2
      <4> QED  BY <2>2, <3>2, <4>1, <4>2
    <3> QED  BY <3>1, <3>2
  <2> QED  BY <2>4, <2>5
<1>4. ASSUME NEW i \in 1 .. Len(Without(c))
      PROVE  /\ (IF i < p THEN i ELSE i + 1) \in 1 .. Len(waiters)
             /\ (IF i < p THEN i ELSE i + 1) # p
  BY <1>0, <1>1, <1>3
<1>5. Distinct(Without(c))
  <2>1. ASSUME NEW i \in 1 .. Len(Without(c)), NEW j \in 1 .. Len(Without(c)),
               Without(c)[i] = Without(c)[j]
        PROVE  i = j
    <3>1. (IF i < p THEN i ELSE i + 1) = (IF j < p THEN j ELSE j + 1)
      BY <1>3, <1>4, <2>1 DEF LineInv, Distinct
    <3> QED  BY <1>0, <1>1, <1>3, <3>1
  <2> QED  BY <2>1 DEF Distinct
<1>6. ASSUME NEW i \in 1 .. Len(Without(c))
      PROVE  Without(c)[i] # c /\ call[Without(c)[i]] \in {"waiting", "granted"}
  <2> DEFINE j == IF i < p THEN i ELSE i + 1
  <2>1. j \in 1 .. Len(waiters) /\ j # p /\ Without(c)[i] = waiters[j]
    BY <1>3, <1>4
  <2>2. waiters[j] # c
    BY <1>1, <2>1 DEF LineInv, Distinct
  <2>3. call[waiters[j]] \in {"waiting", "granted"}
    BY <2>1 DEF LineInv, NobodyElse
  <2> QED  BY <2>1, <2>2, <2>3
<1>7. OthersPlaced(c, Without(c))
  BY <1>0, <1>1, OthersKeepTheirPlace
<1> QED  BY <1>3, <1>5, <1>6, <1>7 DEF LineOfOthers

\* Passing a permit on leaves a line in order, and no permit idle.
LEMMA WakeUpKeepsLine ==
  ASSUME Inv, LineInv, NEW c \in Calls, NEW pc \in {"idle", "running"},
         NEW line, NEW free \in Nat, LineOfOthers(c, line),
         WakeUpNext([call EXCEPT ![c] = pc], line, free)
  PROVE  LineInv'
<1>0. call \in [Calls -> CallPc]  BY DEF Inv, TypeOK
<1>1. PICK calls : calls = [call EXCEPT ![c] = pc]  OBVIOUS
<1>2. /\ calls \in [Calls -> {"waiting", "granted", "idle", "running"}]
      /\ calls[c] = pc /\ \A d \in Calls \ {c} : calls[d] = call[d]
  BY <1>0, <1>1 DEF CallPc
<1>3. \A i \in 1 .. Len(line) : line[i] \in Calls \ {c}
                                /\ calls[line[i]] \in {"waiting", "granted"}
  BY <1>2 DEF LineOfOthers
<1>4. waiters' = line /\ Distinct(waiters)'
  BY DEF WakeUpNext, LineOfOthers, Distinct
<1>5. CASE free > 0 /\ InLine(calls, line) # {}
  <2>1. PICK i \in InLine(calls, line) : call' = [calls EXCEPT ![line[i]] = "granted"]
    BY <1>1, <1>5 DEF WakeUpNext
  <2>2. i \in 1 .. Len(line)  BY DEF InLine
  <2>3. call'[line[i]] = "granted"  BY <1>2, <1>3, <2>1, <2>2
  <2>4. \A j \in 1 .. Len(line) : call'[line[j]] \in {"waiting", "granted"}
    BY <1>2, <1>3, <2>1, <2>2
  <2>5. NobodyElse'  BY <1>4, <2>4 DEF NobodyElse
  <2>6. NoIdlePermit'  BY <1>3, <2>2, <2>3 DEF NoIdlePermit, At
  <2> QED  BY <1>4, <2>5, <2>6 DEF LineInv
<1>6. CASE ~(free > 0 /\ InLine(calls, line) # {})
  <2>1. call' = calls /\ permits' = free  BY <1>1, <1>6 DEF WakeUpNext
  <2>2. NobodyElse'  BY <1>3, <1>4, <2>1 DEF NobodyElse
  <2>3. NoIdlePermit'
    <3>1. CASE free = 0  BY <2>1, <3>1 DEF NoIdlePermit
    <3>2. CASE InLine(calls, line) = {}
      <4>1. ASSUME NEW d \in Calls, calls[d] = "waiting" PROVE FALSE
        <5>1. d # c /\ call[d] = "waiting"  BY <1>2, <4>1
        <5>2. PICK i \in 1 .. Len(line) : line[i] = d
          BY <5>1 DEF Inv, InLineArePlaced, LineOfOthers, OthersPlaced
        <5> QED  BY <3>2, <4>1, <5>2 DEF InLine
      <4> QED  BY <2>1, <4>1 DEF NoIdlePermit, At
    <3> QED  BY <1>6, <3>1, <3>2
  <2> QED  BY <1>4, <2>2, <2>3 DEF LineInv
<1> QED  BY <1>5, <1>6

LEMMA AcquireKeepsLine ==
  ASSUME Inv, LineInv, NEW c \in Calls, call[c] = "idle", Acquire(c)
  PROVE  LineInv'
<1>0. call \in [Calls -> CallPc] /\ waiters \in Seq(Calls)
      /\ permits \in 0 .. MaxConcurrency /\ MaxConcurrency \in Nat
  BY ConstantsAssumption DEF Inv, TypeOK
<1>1. CASE permits > 0 /\ waiters = <<>>
  <2>1. /\ call' = [call EXCEPT ![c] = "running"] /\ waiters' = <<>>
    BY <1>1 DEF Acquire
  <2>2. \A d \in Calls : call[d] \notin {"waiting", "granted"}
    BY <1>1 DEF Inv, InLineArePlaced
  <2>3. At("waiting")' = {}  BY <1>0, <2>1, <2>2 DEF At
  <2> QED  BY <2>1, <2>3 DEF LineInv, Distinct, NobodyElse, NoIdlePermit
<1>2. CASE ~(permits > 0 /\ waiters = <<>>)
  <2>1. /\ permits' = permits
        /\ call' = [call EXCEPT ![c] = "waiting"]
        /\ waiters' = Append(waiters, c)
    BY <1>2 DEF Acquire
  <2>2. /\ Len(waiters') = Len(waiters) + 1 /\ Len(waiters) \in Nat
        /\ waiters'[Len(waiters) + 1] = c
        /\ \A i \in 1 .. Len(waiters) : waiters'[i] = waiters[i] /\ waiters[i] \in Calls
    BY <1>0, <2>1
  <2>3. \A i \in 1 .. Len(waiters) : waiters[i] # c
    BY DEF LineInv, NobodyElse
  <2>4. Distinct(waiters)'
    <3>1. ASSUME NEW i \in 1 .. Len(waiters'), NEW j \in 1 .. Len(waiters'),
                 waiters'[i] = waiters'[j]
          PROVE  i = j
      <4>1. CASE i \in 1 .. Len(waiters) /\ j \in 1 .. Len(waiters)
        BY <2>2, <3>1, <4>1 DEF LineInv, Distinct
      <4>2. CASE i = Len(waiters) + 1 \/ j = Len(waiters) + 1
        BY <2>2, <2>3, <3>1, <4>2
      <4> QED  BY <2>2, <4>1, <4>2
    <3> QED  BY <3>1 DEF Distinct
  <2>5. /\ call'[c] = "waiting"
        /\ \A d \in Calls \ {c} : call'[d] = call[d]
    BY <1>0, <2>1
  <2>6. NobodyElse'
    <3>1. ASSUME NEW i \in 1 .. Len(waiters')
          PROVE  call'[waiters'[i]] \in {"waiting", "granted"}
      <4>1. CASE i \in 1 .. Len(waiters)
        BY <2>2, <2>3, <2>5, <4>1 DEF LineInv, NobodyElse
      <4>2. CASE i = Len(waiters) + 1
        BY <2>2, <2>5, <4>2
      <4> QED  BY <2>2, <4>1, <4>2
    <3> QED  BY <3>1 DEF NobodyElse
  <2>7. NoIdlePermit'
    <3>1. ASSUME permits > 0 PROVE At("granted") # {}
      <4>1. 1 \in 1 .. Len(waiters)  BY <1>0, <1>2, <3>1
      <4>2. waiters[1] \in Calls /\ call[waiters[1]] \in {"waiting", "granted"}
        BY <2>2, <4>1 DEF LineInv, NobodyElse
      <4> QED  BY <3>1, <4>2 DEF LineInv, NoIdlePermit, At
    <3>2. At("granted") \subseteq At("granted")'
      BY <2>5 DEF At
    <3> QED  BY <2>1, <3>1, <3>2 DEF NoIdlePermit
  <2> QED  BY <2>4, <2>6, <2>7 DEF LineInv
<1> QED  BY <1>1, <1>2

LEMMA LineInvNext == Inv /\ LineInv /\ [Next]_vars => LineInv'
<1> SUFFICES ASSUME Inv, LineInv, [Next]_vars PROVE LineInv'  OBVIOUS
<1>0. permits \in Nat /\ waiters \in Seq(Calls)
  BY ConstantsAssumption DEF Inv, TypeOK
<1>1. ASSUME NEW c \in Calls, call[c] = "running", Release(c) PROVE LineInv'
  <2>1. LineOfOthers(c, waiters)
    BY <1>0, <1>1 DEF LineOfOthers, OthersPlaced, LineInv, NobodyElse
  <2>2. permits + 1 \in Nat  BY <1>0
  <2>3. WakeUpNext([call EXCEPT ![c] = "idle"], waiters, permits + 1)
    BY <1>1 DEF Release
  <2> QED  BY <2>1, <2>2, <2>3, WakeUpKeepsLine
<1>2. ASSUME NEW c \in Calls, Enter(c) PROVE LineInv'
  BY <1>2, AcquireKeepsLine DEF Enter
<1>3. ASSUME NEW c \in Calls, Resume(c) PROVE LineInv'
  <2>1. LineOfOthers(c, Without(c))  BY <1>3, LineWithoutOne DEF Resume
  <2> QED  BY <1>0, <1>3, <2>1, WakeUpKeepsLine DEF Resume
<1>4. ASSUME NEW c \in Calls, GiveUpWaiting(c) PROVE LineInv'
  <2>1. LineOfOthers(c, Without(c))  BY <1>4, LineWithoutOne DEF GiveUpWaiting
  <2>2. permits + Returned(c) \in Nat  BY <1>0 DEF Returned
  <2> QED  BY <1>4, <2>1, <2>2, WakeUpKeepsLine DEF GiveUpWaiting
<1>5. ASSUME NEW c \in Calls, Succeed(c) \/ Fail(c) \/ CancelRunning(c)
      PROVE  LineInv'
  BY <1>1, <1>5 DEF Succeed, Fail, CancelRunning
<1>6. CASE Tick \/ UNCHANGED vars
  BY <1>6 DEF Tick, vars, LineInv, Distinct, NobodyElse, NoIdlePermit, At
<1> QED  BY <1>2, <1>3, <1>4, <1>5, <1>6 DEF Next

LEMMA LineInvInit == Init => LineInv
  BY DEF Init, LineInv, Distinct, NobodyElse, NoIdlePermit, At

LEMMA LineInvInvariant == Spec => [](Inv /\ LineInv)
  BY LineInvInit, LineInvNext, InvInit, InvNext, PTL DEF Spec

\* The line as a numbering of those in it.
LEMMA LineNumbers ==
  ASSUME Inv, LineInv
  PROVE  Len(waiters) = Cardinality(At("waiting") \cup At("granted"))
<1> DEFINE S == At("waiting") \cup At("granted")
<1>0. waiters \in Seq(Calls) /\ Len(waiters) \in Nat  BY DEF Inv, TypeOK
<1>1. waiters \in [1 .. Len(waiters) -> S]
  <2>1. waiters = [i \in 1 .. Len(waiters) |-> waiters[i]]  BY <1>0
  <2>2. \A i \in 1 .. Len(waiters) : waiters[i] \in S
    BY <1>0 DEF LineInv, NobodyElse, At
  <2> QED  BY <2>1, <2>2
<1>2. waiters \in Injection(1 .. Len(waiters), S)
  BY <1>1 DEF LineInv, Distinct, Injection, IsInjective
<1>3. waiters \in Surjection(1 .. Len(waiters), S)
  BY <1>1 DEF Inv, InLineArePlaced, At, Surjection
<1>4. ExistsBijection(1 .. Len(waiters), S)
  BY <1>2, <1>3 DEF ExistsBijection, Bijection
<1> QED  BY <1>0, <1>4, FS_CountingElements

LEMMA LineNumbersWhoWaits == ASSUME Inv, LineInv PROVE LineIsExact
<1>0. waiters \in Seq(Calls) /\ Len(waiters) \in Nat  BY DEF Inv, TypeOK
<1>1. ASSUME NEW c \in Calls
      PROVE  Cardinality({i \in 1 .. Len(waiters) : waiters[i] = c})
               = (IF call[c] \in {"waiting", "granted"} THEN 1 ELSE 0)
  <2>1. CASE call[c] \in {"waiting", "granted"}
    <3>1. PICK p \in 1 .. Len(waiters) : waiters[p] = c
      BY <2>1 DEF Inv, InLineArePlaced
    <3>2. {i \in 1 .. Len(waiters) : waiters[i] = c} = {p}
      BY <3>1 DEF LineInv, Distinct
    <3> QED  BY <2>1, <3>2, FS_Singleton
  <2>2. CASE call[c] \notin {"waiting", "granted"}
    <3>1. {i \in 1 .. Len(waiters) : waiters[i] = c} = {}
      BY <2>2 DEF LineInv, NobodyElse
    <3> QED  BY <2>2, <3>1, FS_EmptySet
  <2> QED  BY <2>1, <2>2
<1> QED  BY <1>1, LineNumbers DEF LineIsExact

\* A permit that is free beside a waiting call is on its way to one, whatever
\* gives up, is cancelled or ends at that moment (_execute, Semaphore.release).
THEOREM NoPermitIsIdle == Spec => []NoIdlePermit
<1>1. LineInv => NoIdlePermit  BY DEF LineInv
<1> QED  BY <1>1, LineInvInvariant, PTL

\* The semaphore's deque holds exactly the calls in acquire(), each once: who
\* timed out or was cancelled has left it.
THEOREM LineHoldsWhoWaits == Spec => []LineIsExact
  BY LineNumbersWhoWaits, LineInvInvariant, PTL
=============================================================================

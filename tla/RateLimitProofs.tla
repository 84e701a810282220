--------------------------- MODULE RateLimitProofs ---------------------------
(***************************************************************************)
(* Proofs about RateLimit, for any number of requests and replicas, any    *)
(* limit, window and skew.                                                 *)
(***************************************************************************)
EXTENDS RateLimit, FiniteSetTheorems, TLAPS

-----------------------------------------------------------------------------
(* Windows.                                                                *)

Span == Window * Second

LEMMA SpanIsPositive == Span \in Nat \ {0}
<1>1. Window \in Nat \ {0} /\ Second \in Nat \ {0}  BY ConstantsAssumption
<1>2. Window * Second >= Window  BY <1>1
<1> QED  BY <1>1, <1>2 DEF Span

LEMMA Division ==
  ASSUME NEW t \in Nat, NEW d \in Nat \ {0}
  PROVE  /\ t \div d \in Nat
         /\ d * (t \div d) <= t
         /\ t < d * (t \div d) + d
OBVIOUS

LEMMA Windows ==
  ASSUME NEW t \in Nat
  PROVE  WindowOf(t) \in Nat /\ WindowOf(t) <= t
<1> DEFINE k == t \div Span
<1>1. k \in Nat /\ Span * k <= t  BY SpanIsPositive, Division
<1> HIDE DEF k
<1>2. Window \in Nat \ {0} /\ Second \in Nat \ {0}  BY ConstantsAssumption
<1>3. k * Window \in Nat /\ k * Window <= (k * Window) * Second
  BY <1>1, <1>2
<1>4. (k * Window) * Second = Span * k  BY <1>1, <1>2 DEF Span
<1>5. k * Window <= Span * k  BY <1>3, <1>4
<1>6. Span * k \in Nat  BY <1>1, SpanIsPositive
<1>7. WindowOf(t) = k * Window  BY DEF WindowOf, Span, k
<1> QED  BY <1>1, <1>3, <1>5, <1>6, <1>7

LEMMA LaterMultiple ==
  ASSUME NEW d \in Nat \ {0}, NEW i \in Nat, NEW j \in Nat,
         d * i + d < d * j + d
  PROVE  i < j
<1>1. SUFFICES ASSUME j <= i PROVE FALSE  OBVIOUS
<1>2. d * j <= d * i  BY <1>1
<1> QED  BY <1>2

\* Whoever waits the seconds that are left of a window, and the rest of one
\* more, comes back in a later one.
LEMMA WaitingLeavesWindow ==
  ASSUME NEW t \in Nat
  PROVE  WindowOf(t + (((WindowOf(t) + Window) * Second - t) \div Second + 1) * Second)
           > WindowOf(t)
<1> DEFINE k == t \div Span
<1> DEFINE left == (WindowOf(t) + Window) * Second - t
<1> DEFINE late == t + (left \div Second + 1) * Second
<1>1. Window \in Nat \ {0} /\ Second \in Nat \ {0} /\ Span \in Nat \ {0}
  BY ConstantsAssumption, SpanIsPositive
<1>2. k \in Nat /\ Span * k <= t /\ t < Span * k + Span
  BY <1>1, Division
<1>3. WindowOf(t) = k * Window  BY DEF WindowOf, Span
<1> HIDE DEF k
<1>4. left = Span * k + Span - t
  BY <1>1, <1>2, <1>3 DEF Span
<1>5. left \in Nat  BY <1>1, <1>2, <1>4
<1> HIDE DEF left
<1>6. left \div Second \in Nat /\ left < Second * (left \div Second) + Second
  BY <1>1, <1>5, Division
<1>7. late \in Nat /\ late > Span * k + Span
  BY <1>1, <1>2, <1>4, <1>5, <1>6
<1> HIDE DEF late
<1> DEFINE j == late \div Span
<1>8. j \in Nat /\ late < Span * j + Span
  BY <1>1, <1>7, Division
<1>9. WindowOf(late) = j * Window  BY DEF WindowOf, Span
<1> HIDE DEF j
<1>10. Span * k + Span < Span * j + Span  BY <1>1, <1>2, <1>7, <1>8
<1>11. k < j  BY <1>1, <1>2, <1>8, <1>10, LaterMultiple
<1>12. j >= k + 1  BY <1>2, <1>8, <1>11
<1>13. j * Window >= (k + 1) * Window  BY <1>1, <1>2, <1>8, <1>12
<1>14. j * Window > k * Window  BY <1>1, <1>2, <1>8, <1>13
<1> QED  BY <1>3, <1>9, <1>14 DEF late, left

-----------------------------------------------------------------------------
(* Types.                                                                  *)

Counted == {"allowed", "limited", "charged"}

\* The requests with one of the outcomes P whose reading is of window w.
In(P, w) == {q \in Requests : pc[q] \in P /\ WindowOf(now[q]) = w}

LEMMA WindowsOfReadings ==
  ASSUME TypeOK, NEW q \in Requests
  PROVE  WindowOf(now[q]) \in Time /\ WindowOf(now[q]) \in Nat
<1>1. now[q] \in Nat /\ now[q] <= MaxTime
  BY ConstantsAssumption DEF TypeOK, Time
<1> QED  BY <1>1, Windows, ConstantsAssumption DEF Time

LEMMA TypesKept == TypeOK /\ [Next]_vars => TypeOK'
<1> SUFFICES ASSUME TypeOK, [Next]_vars PROVE TypeOK'  OBVIOUS
<1> USE ConstantsAssumption
<1>1. ASSUME NEW p \in Replicas, Tick(p) PROVE TypeOK'
  <2>1. clock[p] \in Nat /\ clock[p] < MaxTime  BY <1>1 DEF Tick, TypeOK, Time
  <2>2. clock' \in [Replicas -> Time]  BY <1>1, <2>1 DEF Tick, TypeOK, Time
  <2> QED  BY <1>1, <2>2 DEF Tick, TypeOK, row, answers
<1>2. ASSUME NEW q \in Requests, ReadClock(q) PROVE TypeOK'
  BY <1>2 DEF ReadClock, TypeOK, RequestPc, row, answers
<1>3. ASSUME NEW q \in Requests, CountIn(WindowOf(now[q]))
      PROVE  /\ start' \in {-1} \cup Time
             /\ count' \in Nat
             /\ openings' \in [Time -> Nat]
             /\ overtaken' \in BOOLEAN
  <2>1. WindowOf(now[q]) \in Time  BY WindowsOfReadings
  <2> QED  BY <1>3, <2>1 DEF CountIn, CountAfter, TypeOK
<1>4. ASSUME NEW q \in Requests, Consume(q) PROVE TypeOK'
  <2> DEFINE w == WindowOf(now[q])
  <2>1. w \in Nat  BY WindowsOfReadings
  <2>2. CountIn(w)  BY <1>4 DEF Consume
  <2>3. CountAfter(w) \in Nat  BY DEF CountAfter, TypeOK
  <2>4. pc' \in [Requests -> RequestPc]
    BY <1>4 DEF Consume, TypeOK, RequestPc
  <2>5. reset' \in [Requests -> Nat]
    BY <1>4, <2>1 DEF Consume, TypeOK
  <2>6. remaining' \in [Requests -> 0 .. Limit]
    BY <1>4, <2>3 DEF Consume, TypeOK, Within
  <2>7. clock' = clock /\ now' = now  BY <1>4 DEF Consume
  <2> QED  BY <1>3, <2>2, <2>4, <2>5, <2>6, <2>7 DEF TypeOK
<1>5. ASSUME NEW q \in Requests, ConsumeRaises(q) PROVE TypeOK'
  <2>1. pc' \in [Requests -> RequestPc]
    BY <1>5 DEF ConsumeRaises, TypeOK, RequestPc
  <2>2. UNCHANGED <<clock, now, reset, remaining>>
    BY <1>5 DEF ConsumeRaises, answers
  <2>3. UNCHANGED row \/ CountIn(WindowOf(now[q]))  BY <1>5 DEF ConsumeRaises
  <2>4. CASE UNCHANGED row  BY <2>1, <2>2, <2>4 DEF TypeOK, row
  <2>5. CASE CountIn(WindowOf(now[q]))  BY <1>3, <2>1, <2>2, <2>5 DEF TypeOK
  <2> QED  BY <2>3, <2>4, <2>5
<1>6. CASE UNCHANGED vars  BY <1>6 DEF vars, TypeOK
<1> QED  BY <1>1, <1>2, <1>4, <1>5, <1>6 DEF Next

LEMMA TypesAtFirst == Init => TypeOK
<1> SUFFICES ASSUME Init PROVE TypeOK  OBVIOUS
<1>1. 0 \in Time /\ 0 \in 0 .. Limit  BY ConstantsAssumption DEF Time
<1>2. clock \in [Replicas -> Time]  BY <1>1 DEF Init
<1>3. pc \in [Requests -> RequestPc]  BY DEF Init, RequestPc
<1>4. now \in [Requests -> Time]  BY <1>1 DEF Init
<1>5. reset \in [Requests -> Nat]  BY DEF Init
<1>6. remaining \in [Requests -> 0 .. Limit]  BY <1>1 DEF Init
<1>7. openings \in [Time -> Nat]  BY DEF Init
<1>8. start \in {-1} \cup Time /\ count \in Nat /\ overtaken \in BOOLEAN
  BY DEF Init
<1> QED  BY <1>2, <1>3, <1>4, <1>5, <1>6, <1>7, <1>8 DEF TypeOK

\* What TypeOK bounds: readings and windows stay in the modelled time, what a
\* request is told that remains is never above the limit.
THEOREM TypeCorrect == Spec => []TypeOK
<1> QED  BY TypesAtFirst, TypesKept, PTL DEF Spec

-----------------------------------------------------------------------------
(* The two kinds of step.  A step that does not touch the row leaves every *)
(* set of counted requests alone; a step that does adds one request, with  *)
(* one outcome, to the sets of the window it read.                         *)

Least(a, b) == IF a <= b THEN a ELSE b

LEMMA MinOfTwo ==
  ASSUME NEW a \in Nat, NEW b \in Nat
  PROVE  Min({a, b}) = Least(a, b)
BY DEF Min, Least

Counts(q, outcome) ==
  /\ q \in Requests
  /\ pc[q] = "timed"
  /\ outcome \in Counted
  /\ CountIn(WindowOf(now[q]))
  /\ pc' = [pc EXCEPT ![q] = outcome]
  /\ now' = now
  /\ outcome = "allowed" => CountAfter(WindowOf(now[q])) <= Limit
  /\ outcome = "limited" => CountAfter(WindowOf(now[q])) > Limit

Quiet ==
  /\ UNCHANGED row
  /\ \A P \in SUBSET Counted : \A w \in Time : In(P, w)' = In(P, w)

LEMMA Steps ==
  ASSUME TypeOK, [Next]_vars
  PROVE  Quiet \/ \E q, outcome : Counts(q, outcome)
<1>1. ASSUME NEW p \in Replicas, Tick(p) PROVE Quiet
  BY <1>1 DEF Tick, Quiet, In
<1>2. ASSUME NEW q \in Requests, ReadClock(q) PROVE Quiet
  <2>1. \A r \in Requests : r # q => pc'[r] = pc[r] /\ now'[r] = now[r]
    BY <1>2 DEF ReadClock, TypeOK
  <2>2. pc[q] \notin Counted /\ pc'[q] \notin Counted
    BY <1>2 DEF ReadClock, TypeOK, Counted
  <2>3. ASSUME NEW P \in SUBSET Counted, NEW w \in Time
        PROVE  In(P, w)' = In(P, w)
    <3>1. In(P, w)' = {r \in Requests : pc'[r] \in P /\ WindowOf(now'[r]) = w}
      BY DEF In, WindowOf
    <3> QED  BY <2>1, <2>2, <3>1 DEF In
  <2> QED  BY <1>2, <2>3 DEF ReadClock, Quiet
<1>3. ASSUME NEW q \in Requests, Consume(q)
      PROVE  \E outcome : Counts(q, outcome)
  <2> DEFINE n == CountAfter(WindowOf(now[q]))
  <2>1. n \in Nat  BY DEF CountAfter, TypeOK
  <2>2. CASE n <= Limit
    <3>1. Counts(q, "allowed")
      BY <1>3, <2>2 DEF Consume, Counts, Counted, Within
    <3> QED  BY <3>1
  <2>3. CASE ~(n <= Limit)
    <3>1. n > Limit  BY <2>1, <2>3, ConstantsAssumption
    <3>2. Counts(q, "limited")
      BY <1>3, <2>3, <3>1 DEF Consume, Counts, Counted, Within
    <3> QED  BY <3>2
  <2> QED  BY <2>2, <2>3
<1>4. ASSUME NEW q \in Requests, ConsumeRaises(q)
      PROVE  Quiet \/ \E outcome : Counts(q, outcome)
  <2>1. CASE pc' = [pc EXCEPT ![q] = "unavailable"] /\ UNCHANGED row
    <3>1. \A r \in Requests : r # q => pc'[r] = pc[r]
      BY <2>1 DEF TypeOK
    <3>2. pc[q] \notin Counted /\ pc'[q] \notin Counted /\ now' = now
      BY <1>4, <2>1 DEF ConsumeRaises, TypeOK, Counted
    <3>3. ASSUME NEW P \in SUBSET Counted, NEW w \in Time
          PROVE  In(P, w)' = In(P, w)
      <4>1. In(P, w)' = {r \in Requests : pc'[r] \in P /\ WindowOf(now'[r]) = w}
        BY DEF In, WindowOf
      <4> QED  BY <3>1, <3>2, <4>1 DEF In
    <3> QED  BY <2>1, <3>3 DEF Quiet
  <2>2. CASE pc' = [pc EXCEPT ![q] = "charged"] /\ CountIn(WindowOf(now[q]))
    <3>1. Counts(q, "charged")
      BY <1>4, <2>2 DEF ConsumeRaises, Counts, Counted
    <3> QED  BY <3>1
  <2> QED  BY <1>4, <2>1, <2>2 DEF ConsumeRaises
<1>5. CASE UNCHANGED vars  BY <1>5 DEF vars, row, Quiet, In
<1> QED  BY <1>1, <1>2, <1>3, <1>4, <1>5 DEF Next

LEMMA Finite ==
  ASSUME NEW P, NEW w
  PROVE  IsFiniteSet(In(P, w)) /\ Cardinality(In(P, w)) \in Nat
<1>1. In(P, w) \in SUBSET Requests  BY DEF In
<1> QED  BY <1>1, FS_Subset, FS_CardinalityType, ConstantsAssumption

LEMMA CountingAdds ==
  ASSUME TypeOK, NEW q, NEW outcome, Counts(q, outcome),
         NEW P \in SUBSET Counted, NEW w \in Time
  PROVE  Cardinality(In(P, w)') =
           IF w = WindowOf(now[q]) /\ outcome \in P
           THEN Cardinality(In(P, w)) + 1 ELSE Cardinality(In(P, w))
<1>1. In(P, w)' = {r \in Requests : pc'[r] \in P /\ WindowOf(now[r]) = w}
  BY DEF In, WindowOf, Counts
<1>2. pc'[q] = outcome /\ \A r \in Requests : r # q => pc'[r] = pc[r]
  BY DEF Counts, TypeOK
<1>3. q \notin In(P, w)  BY DEF Counts, In, Counted
<1>4. CASE w = WindowOf(now[q]) /\ outcome \in P
  <2>1. In(P, w)' = In(P, w) \cup {q}
    BY <1>1, <1>2, <1>4 DEF In, Counts
  <2> QED  BY <1>3, <1>4, <2>1, Finite, FS_AddElement
<1>5. CASE ~(w = WindowOf(now[q]) /\ outcome \in P)
  <2>1. In(P, w)' = In(P, w)
    BY <1>1, <1>2, <1>3, <1>5 DEF In
  <2> QED  BY <1>5, <2>1
<1> QED  BY <1>4, <1>5

-----------------------------------------------------------------------------
(* The row and the answers.                                                *)

Admit == {"allowed"}
Spend == {"allowed", "charged"}

\* The window in the row has been opened, and counted at least once.
RowIsOpen == start # -1 => openings[start] >= 1 /\ count >= 1

\* A window that was never opened has no counted request.
UnopenedIsEmpty ==
  \A w \in Time : openings[w] = 0 => Cardinality(In(Counted, w)) = 0

\* QuotaPerOpening, with what the last opening still has to give.
QuotaLeft ==
  \A w \in Time :
    IF w = start
    THEN Cardinality(In(Admit, w)) + Limit <= Limit * openings[w] + Least(count, Limit)
    ELSE Cardinality(In(Admit, w)) <= Limit * openings[w]

\* In the window of the row, every place the count has passed is spent.
SpentAsCounted ==
  start # -1 => Cardinality(In(Spend, start)) >= Least(count, Limit)

RefusedWhenSpent ==
  \A w \in Time : Cardinality(In({"limited"}, w)) > 0 =>
                    Cardinality(In(Spend, w)) >= Limit

\* While nothing is overtaken, windows are opened in their order.
OpenedInOrder ==
  overtaken = FALSE =>
    \A w \in Time : openings[w] <= 1 /\ (w > start => openings[w] = 0)

CountIsExact ==
  start # -1 /\ openings[start] = 1 => count = Cardinality(In(Counted, start))

RowInv ==
  /\ TypeOK
  /\ RowIsOpen
  /\ UnopenedIsEmpty
  /\ QuotaLeft
  /\ SpentAsCounted
  /\ RefusedWhenSpent
  /\ OpenedInOrder
  /\ CountIsExact

LEMMA OneMoreOpening ==
  ASSUME NEW a \in Nat PROVE Limit * (a + 1) = Limit * a + Limit
BY ConstantsAssumption

LEMMA RowInvAtFirst == Init => RowInv
<1> SUFFICES ASSUME Init PROVE RowInv  OBVIOUS
<1>1. \A P \in SUBSET Counted : \A w : In(P, w) = {}
  BY DEF Init, In, Counted
<1>2. \A P \in SUBSET Counted : \A w : Cardinality(In(P, w)) = 0
  BY <1>1, FS_EmptySet
<1>3. Admit \in SUBSET Counted /\ Spend \in SUBSET Counted
      /\ Counted \in SUBSET Counted /\ {"limited"} \in SUBSET Counted
  BY DEF Admit, Spend, Counted
<1>4. start = -1 /\ \A w \in Time : openings[w] = 0 /\ w # -1
  BY ConstantsAssumption DEF Init, Time
<1>5. QuotaLeft
  BY <1>2, <1>3, <1>4, ConstantsAssumption DEF QuotaLeft
<1>6. RowIsOpen /\ SpentAsCounted /\ CountIsExact
  BY <1>4 DEF RowIsOpen, SpentAsCounted, CountIsExact
<1>7. UnopenedIsEmpty /\ RefusedWhenSpent
  BY <1>2, <1>3 DEF UnopenedIsEmpty, RefusedWhenSpent
<1>8. OpenedInOrder  BY <1>4 DEF OpenedInOrder
<1> QED  BY TypesAtFirst, <1>5, <1>6, <1>7, <1>8 DEF RowInv

LEMMA RowInvKept == RowInv /\ [Next]_vars => RowInv'
<1> SUFFICES ASSUME RowInv, [Next]_vars PROVE RowInv'  OBVIOUS
<1>0. TypeOK /\ TypeOK'  BY TypesKept DEF RowInv
<1>1. Admit \in SUBSET Counted /\ Spend \in SUBSET Counted
      /\ Counted \in SUBSET Counted /\ {"limited"} \in SUBSET Counted
  BY DEF Admit, Spend, Counted
<1>2. CASE Quiet
  <2>1. start' = start /\ count' = count /\ openings' = openings
        /\ overtaken' = overtaken
    BY <1>2 DEF Quiet, row
  <2>2. \A P \in {Admit, Spend, Counted, {"limited"}} : \A w \in Time :
          Cardinality(In(P, w)') = Cardinality(In(P, w))
    BY <1>1, <1>2 DEF Quiet
  <2>3. start = -1 \/ start \in Time  BY <1>0 DEF TypeOK
  <2>4. RowIsOpen' /\ OpenedInOrder'
    BY <2>1 DEF RowInv, RowIsOpen, OpenedInOrder
  <2>5. UnopenedIsEmpty'
    <3>1. ASSUME NEW w \in Time, openings'[w] = 0
          PROVE  Cardinality(In(Counted, w)') = 0
      BY <2>1, <2>2, <3>1 DEF RowInv, UnopenedIsEmpty
    <3> QED  BY <3>1 DEF UnopenedIsEmpty
  <2>6. QuotaLeft'
    BY <2>1, <2>2 DEF RowInv, QuotaLeft
  <2>7. SpentAsCounted' /\ CountIsExact'
    BY <2>1, <2>2, <2>3 DEF RowInv, SpentAsCounted, CountIsExact
  <2>8. RefusedWhenSpent'
    BY <2>2 DEF RowInv, RefusedWhenSpent
  <2> QED  BY <1>0, <2>4, <2>5, <2>6, <2>7, <2>8 DEF RowInv
<1>3. ASSUME NEW q, NEW outcome, Counts(q, outcome) PROVE RowInv'
  <2>0. PICK v \in Time : v = WindowOf(now[q])
    BY <1>0, <1>3, WindowsOfReadings DEF Counts
  <2>1. v \in Time /\ v \in Nat /\ outcome \in Counted
    BY <1>0, <1>3, <2>0, WindowsOfReadings DEF Counts
  <2>2. /\ start' = v
        /\ count' = IF start = v THEN count + 1 ELSE 1
        /\ openings' = IF start = v THEN openings
                                    ELSE [openings EXCEPT ![v] = @ + 1]
        /\ overtaken' = (overtaken \/ v < start)
        /\ outcome = "allowed" => count' <= Limit
        /\ outcome = "limited" => count' > Limit
    BY <1>3, <2>0 DEF Counts, CountIn, CountAfter
  <2>3. \A P \in {Admit, Spend, Counted, {"limited"}} : \A w \in Time :
          Cardinality(In(P, w)') =
            IF w = v /\ outcome \in P
            THEN Cardinality(In(P, w)) + 1 ELSE Cardinality(In(P, w))
    BY <1>0, <1>1, <1>3, <2>0, CountingAdds
  <2>4. \A P \in {Admit, Spend, Counted, {"limited"}} : \A w \in Time :
          Cardinality(In(P, w)) \in Nat
    BY Finite
  <2>5. Limit \in Nat \ {0} /\ count \in Nat /\ count' \in Nat
        /\ openings \in [Time -> Nat] /\ openings' \in [Time -> Nat]
        /\ start \in {-1} \cup Time /\ Time \subseteq Nat
    BY <1>0, ConstantsAssumption DEF TypeOK, Time
  <2>6. RowIsOpen'
    BY <2>1, <2>2, <2>5 DEF RowInv, RowIsOpen
  <2>7. UnopenedIsEmpty'
    <3>1. ASSUME NEW w \in Time, openings'[w] = 0
          PROVE  Cardinality(In(Counted, w)') = 0
      <4>1. w # v  BY <2>1, <2>2, <2>5, <3>1 DEF RowInv, RowIsOpen
      <4>2. openings[w] = 0  BY <2>2, <2>5, <3>1, <4>1
      <4> QED  BY <2>3, <4>1, <4>2 DEF RowInv, UnopenedIsEmpty
    <3> QED  BY <3>1 DEF UnopenedIsEmpty
  <2>8. QuotaLeft'
    <3>1. ASSUME NEW w \in Time, w # v
          PROVE  Cardinality(In(Admit, w)') <= Limit * openings'[w]
      <4>1. Cardinality(In(Admit, w)') = Cardinality(In(Admit, w))
            /\ openings'[w] = openings[w]
        BY <2>2, <2>3, <2>5, <3>1
      <4>2. Limit * openings[w] \in Nat  BY <2>5
      <4> QED  BY <2>4, <2>5, <4>1, <4>2 DEF RowInv, QuotaLeft, Least
    <3>2. Cardinality(In(Admit, v)') + Limit
            <= Limit * openings'[v] + Least(count', Limit)
      <4> DEFINE a == Cardinality(In(Admit, v))
      <4> DEFINE b == Cardinality(In(Admit, v)')
      <4>1. a \in Nat /\ (b = a \/ (outcome = "allowed" /\ b = a + 1))
        BY <2>1, <2>3, <2>4 DEF Admit
      <4>2. CASE start = v
        <5>1. a + Limit <= Limit * openings[v] + Least(count, Limit)
          BY <2>1, <4>2 DEF RowInv, QuotaLeft
        <5>2. count' = count + 1 /\ openings'[v] = openings[v]  BY <2>2, <4>2
        <5>3. Limit * openings[v] \in Nat  BY <2>1, <2>5
        <5> HIDE DEF a, b
        <5>4. b + Limit <= Limit * openings[v] + Least(count', Limit)
          BY <2>2, <2>5, <4>1, <5>1, <5>2, <5>3 DEF Least
        <5> QED  BY <5>2, <5>4 DEF b
      <4>3. CASE start # v
        <5>1. a <= Limit * openings[v]
          BY <2>1, <4>3 DEF RowInv, QuotaLeft
        <5>2. count' = 1 /\ openings'[v] = openings[v] + 1
          BY <2>1, <2>2, <2>5, <4>3
        <5>3. Limit * openings'[v] = Limit * openings[v] + Limit
          BY <2>1, <2>5, <5>2, OneMoreOpening
        <5>4. Limit * openings[v] \in Nat  BY <2>1, <2>5
        <5> HIDE DEF a, b
        <5>5. b + Limit <= Limit * openings'[v] + Least(count', Limit)
          BY <2>5, <4>1, <5>1, <5>2, <5>3, <5>4 DEF Least
        <5> QED  BY <5>5 DEF b
      <4> QED  BY <4>2, <4>3
    <3> QED  BY <2>2, <3>1, <3>2 DEF QuotaLeft
  <2>9. Cardinality(In(Spend, v)') >= Least(count', Limit)
    <3> DEFINE a == Cardinality(In(Spend, v))
    <3> DEFINE b == Cardinality(In(Spend, v)')
    <3>1. a \in Nat /\ ((outcome = "limited" /\ b = a) \/ b = a + 1)
      BY <2>1, <2>3, <2>4 DEF Spend, Counted
    <3>2. start = v => a >= Least(count, Limit)
      BY <2>1, <2>5 DEF RowInv, SpentAsCounted
    <3> HIDE DEF a, b
    <3>3. b >= Least(count', Limit)
      BY <2>2, <2>5, <3>1, <3>2 DEF Least
    <3> QED  BY <3>3 DEF b
  <2>10. SpentAsCounted'
    BY <2>2, <2>9 DEF SpentAsCounted
  <2>11. RefusedWhenSpent'
    <3>1. ASSUME NEW w \in Time, Cardinality(In({"limited"}, w)') > 0
          PROVE  Cardinality(In(Spend, w)') >= Limit
      <4>1. CASE w = v /\ outcome = "limited"
        BY <2>2, <2>5, <2>9, <4>1 DEF Least
      <4>2. CASE ~(w = v /\ outcome = "limited")
        <5>1. Cardinality(In({"limited"}, w)') = Cardinality(In({"limited"}, w))
          BY <2>3, <4>2
        <5>2. Cardinality(In(Spend, w)) >= Limit
          BY <3>1, <5>1 DEF RowInv, RefusedWhenSpent
        <5>3. Cardinality(In(Spend, w)') >= Cardinality(In(Spend, w))
          BY <2>3, <2>4
        <5>4. Cardinality(In(Spend, w)') \in Nat  BY <2>3, <2>4
        <5> QED  BY <2>4, <2>5, <5>2, <5>3, <5>4
      <4> QED  BY <4>1, <4>2
    <3> QED  BY <3>1 DEF RefusedWhenSpent
  <2>12. OpenedInOrder'
    <3>1. ASSUME overtaken' = FALSE, NEW w \in Time
          PROVE  openings'[w] <= 1 /\ (w > v => openings'[w] = 0)
      <4>1. overtaken = FALSE /\ ~(v < start)
        BY <1>0, <2>2, <3>1 DEF TypeOK
      <4>2. openings[w] <= 1 /\ (w > start => openings[w] = 0)
            /\ (v > start => openings[v] = 0)
        BY <2>1, <4>1 DEF RowInv, OpenedInOrder
      <4> QED  BY <2>1, <2>2, <2>5, <4>1, <4>2
    <3> QED  BY <2>2, <3>1 DEF OpenedInOrder
  <2>13. CountIsExact'
    <3>1. ASSUME openings'[v] = 1 PROVE count' = Cardinality(In(Counted, v)')
      <4>1. Cardinality(In(Counted, v)') = Cardinality(In(Counted, v)) + 1
        BY <2>1, <2>3
      <4>2. CASE start = v
        BY <2>1, <2>2, <2>5, <3>1, <4>1, <4>2 DEF RowInv, CountIsExact
      <4>3. CASE start # v
        <5>1. openings[v] = 0  BY <2>1, <2>2, <2>5, <3>1, <4>3
        <5> QED  BY <2>1, <2>2, <4>1, <4>3, <5>1 DEF RowInv, UnopenedIsEmpty
      <4> QED  BY <4>2, <4>3
    <3> QED  BY <2>2, <3>1 DEF CountIsExact
  <2> QED  BY <1>0, <2>6, <2>7, <2>8, <2>10, <2>11, <2>12, <2>13 DEF RowInv
<1> QED  BY <1>0, <1>2, <1>3, Steps

LEMMA RowInvInvariant == Spec => []RowInv
<1> QED  BY RowInvAtFirst, RowInvKept, PTL DEF Spec

LEMMA SetsOfOutcomes ==
  ASSUME NEW w
  PROVE  /\ Admitted(w) = In(Admit, w)
         /\ Refused(w) = In({"limited"}, w)
         /\ Admitted(w) \cup Charged(w) = In(Spend, w)
         /\ Admitted(w) \cup Refused(w) \cup Charged(w) = In(Counted, w)
BY DEF Admitted, Refused, Charged, In, Admit, Spend, Counted

LEMMA WithinQuota ==
  ASSUME RowInv, NEW w \in Time
  PROVE  Cardinality(Admitted(w)) <= Limit * openings[w]
<1> DEFINE a == Cardinality(In(Admit, w))
<1> DEFINE b == Limit * openings[w]
<1>1. Limit \in Nat /\ count \in Nat /\ openings[w] \in Nat /\ a \in Nat
  BY ConstantsAssumption, Finite DEF RowInv, TypeOK
<1>2. b \in Nat  BY <1>1
<1>3. IF w = start THEN a + Limit <= b + Least(count, Limit) ELSE a <= b
  BY DEF RowInv, QuotaLeft
<1>4. Admitted(w) = In(Admit, w)  BY SetsOfOutcomes
<1> HIDE DEF a, b
<1>5. a <= b  BY <1>1, <1>2, <1>3 DEF Least
<1> QED  BY <1>4, <1>5 DEF a, b

\* Each opening of a window admits at most Limit requests (QuotaPerOpening).
THEOREM OpeningsAreWithinQuota == Spec => []QuotaPerOpening
<1>1. RowInv => QuotaPerOpening  BY WithinQuota DEF QuotaPerOpening
<1> QED  BY <1>1, RowInvInvariant, PTL

LEMMA WithinWindow ==
  ASSUME RowInv, ~overtaken, NEW w \in Time
  PROVE  openings[w] <= 1 /\ Cardinality(Admitted(w)) <= Limit
<1>1. overtaken = FALSE  BY DEF RowInv, TypeOK
<1>2. openings[w] \in Nat /\ openings[w] <= 1
  BY <1>1 DEF RowInv, TypeOK, OpenedInOrder
<1>3. openings[w] = 0 \/ openings[w] = 1  BY <1>2
<1>4. Limit * openings[w] <= Limit  BY <1>3, ConstantsAssumption
<1>5. Admitted(w) = In(Admit, w)  BY SetsOfOutcomes
<1>6. Cardinality(Admitted(w)) \in Nat  BY <1>5, Finite
<1>7. Limit * openings[w] \in Nat /\ Limit \in Nat
  BY <1>2, ConstantsAssumption
<1>8. Cardinality(Admitted(w)) <= Limit * openings[w]
  BY WithinQuota
<1> QED  BY <1>2, <1>4, <1>6, <1>7, <1>8

\* Unless a request reaches the row after one of a later window, each window
\* is opened once and admits at most Limit requests, on all replicas together
\* (QuotaUnlessOvertaken).
THEOREM ReplicasShareTheQuota == Spec => []QuotaUnlessOvertaken
<1>1. RowInv => QuotaUnlessOvertaken  BY WithinWindow DEF QuotaUnlessOvertaken
<1> QED  BY <1>1, RowInvInvariant, PTL

\* Nobody is refused before the allowance is spent (RefusedOnlyWhenSpent).
THEOREM RefusalsHaveAReason == Spec => []RefusedOnlyWhenSpent
<1>1. ASSUME RowInv, NEW w \in Time, Refused(w) # {}
      PROVE  Cardinality(Admitted(w) \cup Charged(w)) >= Limit
  <2>1. In({"limited"}, w) # {}  BY <1>1, SetsOfOutcomes
  <2>2. Cardinality(In({"limited"}, w)) # 0
    BY <2>1, Finite, FS_EmptySet
  <2>3. Cardinality(In({"limited"}, w)) > 0  BY <2>2, Finite
  <2>4. Cardinality(In(Spend, w)) >= Limit
    BY <1>1, <2>3 DEF RowInv, RefusedWhenSpent
  <2> QED  BY <2>4, SetsOfOutcomes
<1>2. RowInv => RefusedOnlyWhenSpent
  BY <1>1 DEF RefusedOnlyWhenSpent
<1> QED  BY <1>2, RowInvInvariant, PTL

\* In a window opened once, the row counts exactly the requests that were
\* answered or charged (RowMatchesAnswers).
THEOREM RowIsWhatWasAnswered == Spec => []RowMatchesAnswers
<1>1. ASSUME RowInv, start # -1, openings[start] = 1
      PROVE  /\ count = Cardinality(Admitted(start) \cup Refused(start)
                                                    \cup Charged(start))
             /\ Cardinality(Admitted(start) \cup Charged(start))
                  >= Min({count, Limit})
             /\ Cardinality(Admitted(start)) <= Limit
  <2>1. start \in Time /\ count \in Nat /\ Limit \in Nat
    BY <1>1, ConstantsAssumption DEF RowInv, TypeOK
  <2>2. count = Cardinality(In(Counted, start))
    BY <1>1 DEF RowInv, CountIsExact
  <2>3. Cardinality(In(Spend, start)) >= Least(count, Limit)
    BY <1>1 DEF RowInv, SpentAsCounted
  <2>4. Cardinality(Admitted(start)) <= Limit * 1
    BY <1>1, <2>1, WithinQuota
  <2>5. Limit * 1 = Limit  BY <2>1
  <2>6. Min({count, Limit}) = Least(count, Limit)  BY <2>1, MinOfTwo
  <2> QED  BY <2>2, <2>3, <2>4, <2>5, <2>6, SetsOfOutcomes
<1>2. RowInv => RowMatchesAnswers  BY <1>1 DEF RowMatchesAnswers
<1> QED  BY <1>2, RowInvInvariant, PTL

\* What a refused request is told to wait brings it into a later window
\* (RetryAfterLeavesWindow).
THEOREM WaitingIsEnough == Spec => []RetryAfterLeavesWindow
<1> DEFINE ResetIsWindowEnd ==
      \A q \in Requests : pc[q] = "limited" =>
                            reset[q] = WindowOf(now[q]) + Window
<1>1. Init => ResetIsWindowEnd  BY DEF Init
<1>2. TypeOK /\ ResetIsWindowEnd /\ [Next]_vars => ResetIsWindowEnd'
  <2> SUFFICES ASSUME TypeOK, ResetIsWindowEnd, [Next]_vars,
                      NEW q \in Requests, pc'[q] = "limited"
               PROVE  reset'[q] = WindowOf(now'[q]) + Window
    BY DEF WindowOf
  <2>1. ASSUME NEW p \in Replicas, Tick(p)
        PROVE  reset'[q] = WindowOf(now'[q]) + Window
    BY <2>1 DEF Tick, answers
  <2>2. ASSUME NEW r \in Requests, ReadClock(r)
        PROVE  reset'[q] = WindowOf(now'[q]) + Window
    <3>1. q # r /\ now'[q] = now[q] /\ pc[q] = "limited" /\ reset' = reset
      BY <2>2 DEF ReadClock, TypeOK, answers
    <3> QED  BY <3>1
  <2>3. ASSUME NEW r \in Requests, Consume(r)
        PROVE  reset'[q] = WindowOf(now'[q]) + Window
    <3>1. now' = now /\ reset' = [reset EXCEPT ![r] = WindowOf(now[r]) + Window]
          /\ (q # r => pc[q] = "limited")
      BY <2>3 DEF Consume, TypeOK
    <3> QED  BY <3>1 DEF TypeOK
  <2>4. ASSUME NEW r \in Requests, ConsumeRaises(r)
        PROVE  reset'[q] = WindowOf(now'[q]) + Window
    <3>1. now' = now /\ reset' = reset /\ pc[q] = "limited"
      BY <2>4 DEF ConsumeRaises, TypeOK, answers
    <3> QED  BY <3>1
  <2>5. CASE UNCHANGED vars  BY <2>5 DEF vars
  <2> QED  BY <2>1, <2>2, <2>3, <2>4, <2>5 DEF Next
<1>3. TypeOK /\ ResetIsWindowEnd => RetryAfterLeavesWindow
  <2> SUFFICES ASSUME TypeOK, ResetIsWindowEnd, NEW q \in Requests,
                      pc[q] = "limited"
               PROVE  WindowOf(now[q] + RetryAfter(q) * Second)
                        > WindowOf(now[q])
    BY DEF RetryAfterLeavesWindow
  <2>1. now[q] \in Nat  BY ConstantsAssumption DEF TypeOK, Time
  <2>2. reset[q] = WindowOf(now[q]) + Window  OBVIOUS
  <2> QED  BY <2>1, <2>2, WaitingLeavesWindow DEF RetryAfter
<1> QED  BY <1>1, <1>2, <1>3, TypeCorrect, PTL DEF Spec
-----------------------------------------------------------------------------
(* A length of time that is not aligned with the windows.                  *)

\* It meets two windows.
LEMMA TwoWindowsMeetASpan ==
  ASSUME NEW t \in Nat, NEW u \in Nat, t <= u, u < t + Span
  PROVE  WindowOf(u) \in {WindowOf(t), WindowOf(t) + Window}
<1> DEFINE k == t \div Span
<1> DEFINE j == u \div Span
<1>1. Span \in Nat \ {0} /\ Window \in Nat  BY SpanIsPositive, ConstantsAssumption
<1>2. /\ k \in Nat /\ Span * k <= t /\ t < Span * k + Span
      /\ j \in Nat /\ Span * j <= u /\ u < Span * j + Span
  BY <1>1, Division
<1>3. WindowOf(t) = k * Window /\ WindowOf(u) = j * Window  BY DEF WindowOf, Span
<1> HIDE DEF k, j
<1>4. Span * (j + 1) = Span * j + Span /\ Span * (k + 2) = Span * k + Span + Span
  BY <1>1, <1>2
<1>5. ~(j < k)
  <2>1. j < k => Span * (j + 1) <= Span * k  BY <1>1, <1>2
  <2> QED  BY <1>1, <1>2, <1>4, <2>1
<1>6. ~(k + 2 <= j)
  <2>1. k + 2 <= j => Span * (k + 2) <= Span * j  BY <1>1, <1>2
  <2> QED  BY <1>1, <1>2, <1>4, <2>1
<1>7. j = k \/ j = k + 1  BY <1>2, <1>5, <1>6
<1>8. (k + 1) * Window = k * Window + Window  BY <1>1, <1>2
<1> QED  BY <1>3, <1>7, <1>8

\* The requests admitted whose readings lie in the length of a window from t on.
AdmittedFrom(t) ==
  {q \in Requests : pc[q] = "allowed" /\ t <= now[q] /\ now[q] < t + Span}

\* Unless requests overtake each other, no time as long as a window, wherever
\* it begins, lets more than two allowances through: what the fixed windows of
\* consume_rate_limit keep of the sliding window the docs speak of.
TwoAllowancesAtMost ==
  ~overtaken => \A t \in Nat : Cardinality(AdmittedFrom(t)) <= 2 * Limit

LEMMA EachWindowItsAllowance ==
  ASSUME RowInv, ~overtaken, NEW w
  PROVE  /\ IsFiniteSet(Admitted(w))
         /\ Cardinality(Admitted(w)) \in Nat
         /\ Cardinality(Admitted(w)) <= Limit
<1>1. IsFiniteSet(Admitted(w)) /\ Cardinality(Admitted(w)) \in Nat
  BY Finite, SetsOfOutcomes
<1>2. CASE w \in Time
  BY <1>1, <1>2, WithinWindow
<1>3. CASE w \notin Time
  <2>1. Admitted(w) = {}
    BY <1>3, WindowsOfReadings DEF RowInv, Admitted
  <2> QED  BY <1>1, <2>1, FS_EmptySet, ConstantsAssumption
<1> QED  BY <1>1, <1>2, <1>3

THEOREM TwoAllowancesAtMostPass == Spec => []TwoAllowancesAtMost
<1>1. ASSUME RowInv, ~overtaken, NEW t \in Nat
      PROVE  Cardinality(AdmittedFrom(t)) <= 2 * Limit
  <2> DEFINE A == Admitted(WindowOf(t))
  <2> DEFINE B == Admitted(WindowOf(t) + Window)
  <2>1. AdmittedFrom(t) \subseteq A \cup B
    <3>1. ASSUME NEW q \in AdmittedFrom(t) PROVE q \in A \cup B
      <4>1. now[q] \in Nat
        BY <1>1, <3>1, ConstantsAssumption DEF RowInv, TypeOK, Time, AdmittedFrom
      <4> QED  BY <1>1, <3>1, <4>1, TwoWindowsMeetASpan DEF AdmittedFrom, Admitted
    <3> QED  BY <3>1
  <2>2. /\ IsFiniteSet(A) /\ Cardinality(A) \in Nat /\ Cardinality(A) <= Limit
        /\ IsFiniteSet(B) /\ Cardinality(B) \in Nat /\ Cardinality(B) <= Limit
    BY <1>1, EachWindowItsAllowance
  <2> HIDE DEF A, B
  <2>3. /\ IsFiniteSet(A \cup B)
        /\ Cardinality(A \cup B) = Cardinality(A) + Cardinality(B) - Cardinality(A \cap B)
    BY <2>2, FS_Union
  <2>4. Cardinality(A \cap B) \in Nat
    BY <2>2, FS_Intersection, FS_CardinalityType
  <2>5. Cardinality(AdmittedFrom(t)) <= Cardinality(A \cup B)
        /\ Cardinality(AdmittedFrom(t)) \in Nat
    BY <2>1, <2>3, FS_Subset, FS_CardinalityType
  <2> QED  BY <2>2, <2>3, <2>4, <2>5, ConstantsAssumption
<1>2. RowInv => TwoAllowancesAtMost
  BY <1>1 DEF TwoAllowancesAtMost
<1> QED  BY <1>2, RowInvInvariant, PTL
=============================================================================

-------------------------- MODULE UsageTableProofs --------------------------
(***************************************************************************)
(* What is proved of UsageLogInsert and UsageTable, for any number of      *)
(* replicas and calls, any columns, every older schema and any number of   *)
(* crashes: the transactions of insert_usage_log implement the single row  *)
(* of UsageLogRow; a replica that serves has a complete table, and         *)
(* therefore so do the inserts of the replicas that serve; and neither     *)
(* inserts nor replicas that start up wait for one another in a circle.    *)
(***************************************************************************)
EXTENDS UsageTable, TLAPS

-----------------------------------------------------------------------------
(* The inserts, on a table with its unique index.                          *)

\* The row is single because at most one transaction holds an uncommitted one,
\* beside no committed one, and what a call has found stays true.
Inv ==
  /\ TypeOK
  /\ UncommittedIsAlone
  /\ FindingsStay

LEMMA InvInit == Init => Inv
<1> SUFFICES ASSUME Init PROVE Inv
  OBVIOUS
<1>1. TypeOK
  BY ConstantsAssumption DEF Init, TypeOK, TxPc, Row
<1>2. UncommittedIsAlone /\ FindingsStay
  BY DEF Init, UncommittedIsAlone, FindingsStay
<1> QED
  BY <1>1, <1>2 DEF Inv

LEMMA InvNext == Inv /\ [Next]_vars => Inv'
<1> SUFFICES ASSUME Inv, [Next]_vars PROVE Inv'
  OBVIOUS
<1> USE ConstantsAssumption DEF Inv, TypeOK, TxPc, Row, Go,
        UncommittedIsAlone, FindingsStay
<1>1. ASSUME NEW w \in Writers, Begin(w) PROVE Inv'
  <2>1. calls'[w] \in 0 .. MaxCalls
    BY <1>1 DEF Begin
  <2> QED
    BY <1>1, <2>1 DEF Begin
<1>2. ASSUME NEW w \in Writers, Select(w) PROVE Inv'
  BY <1>2 DEF Select, Find
<1>3. ASSUME NEW w \in Writers, Insert(w) PROVE Inv'
  BY <1>3 DEF Insert
<1>4. ASSUME NEW w \in Writers, SelectAgain(w) PROVE Inv'
  BY <1>4 DEF SelectAgain, Find
<1>5. ASSUME NEW w \in Writers, Commit(w) PROVE Inv'
  BY <1>5 DEF Commit
<1>6. ASSUME NEW w \in Writers, Return(w) PROVE Inv'
  BY <1>6 DEF Return
<1>7. ASSUME NEW w \in Writers, Raise(w) PROVE Inv'
  BY <1>7 DEF Raise
<1>8. ASSUME UNCHANGED vars PROVE Inv'
  BY <1>8 DEF vars
<1> QED
  BY <1>1, <1>2, <1>3, <1>4, <1>5, <1>6, <1>7, <1>8 DEF Next, Statement

\* The invariant holds in every state (insert_usage_log).
THEOREM InvInvariant == Spec => []Inv
<1> QED
  BY InvInit, InvNext, PTL DEF Spec

\* Every state is of its type, for any number of callers: at most one
\* uncommitted row is ever in the unique index.
THEOREM TypeCorrect == Spec => []TypeOK
<1>1. Inv => TypeOK
  BY DEF Inv
<1> QED
  BY <1>1, InvInvariant, PTL

-----------------------------------------------------------------------------
(* The refinement.                                                         *)

LEMMA PromiseInit == Init => Promise!Init
BY DEF Init, Promise!Init

LEMMA PromiseNext ==
  Inv /\ [Next]_vars => [Promise!Next]_<<row, told>>
<1> SUFFICES ASSUME Inv, [Next]_vars
             PROVE  Promise!Next \/ UNCHANGED <<row, told>>
  OBVIOUS
<1>1. ASSUME NEW w \in Writers, Commit(w) PROVE Promise!Write(w)
  BY <1>1 DEF Commit, Promise!Write, Inv, UncommittedIsAlone
<1>2. ASSUME NEW w \in Writers, Return(w) PROVE Promise!Tell(w)
  BY <1>2 DEF Return, Promise!Tell, Inv, FindingsStay
<1>3. ASSUME NEW w \in Writers,
             Begin(w) \/ Select(w) \/ Insert(w) \/ SelectAgain(w) \/ Raise(w)
      PROVE  UNCHANGED <<row, told>>
  BY <1>3 DEF Begin, Select, Insert, SelectAgain, Raise
<1>4. ASSUME UNCHANGED vars PROVE UNCHANGED <<row, told>>
  BY <1>4 DEF vars
<1> QED
  BY <1>1, <1>2, <1>3, <1>4 DEF Next, Statement, Promise!Next

\* insert_usage_log is idempotent for any number of concurrent and repeated
\* calls: the transactions implement a row written once, of which every caller
\* is told the same.
THEOREM InsertIsIdempotent == Spec => OneRowForAll
<1> QED
  BY PromiseInit, PromiseNext, InvInvariant, PTL
     DEF Spec, OneRowForAll, Promise!Spec

-----------------------------------------------------------------------------
(* The schema.                                                             *)

\* What a replica's next statement finds.
Visible(p) == schema \cup ddl[p]

\* How far initialize() has brought the table when it is at a stage: the
\* objects it relies on are committed, or created by its own transaction.
Progress(p) ==
  /\ stage[p] \in {"tables+indexes", "tables done"}
       => Columns \cup {"table", "unique"} \subseteq Visible(p)
  /\ stage[p] = "tables done" => "indexes" \in Visible(p)
  /\ stage[p] \in {"inspect", "alter", "unique", "indexes?", "indexes", "commit"}
       => "table" \in Visible(p)
  /\ stage[p] = "alter" => Columns \subseteq Visible(p) \cup todo[p]
  /\ stage[p] \in {"unique", "indexes?", "indexes", "commit"}
       => Columns \subseteq Visible(p)
  /\ stage[p] \in {"indexes?", "indexes", "commit"} => "unique" \in Visible(p)
  /\ stage[p] = "commit" => "indexes" \in Visible(p)
  /\ stage[p] = "ready" => schema = Objects

TableInv == TableTypeOK /\ \A p \in Replicas : Progress(p)

LEMMA TableInvInit == TableInit => TableInv
  BY TableAssumption
  DEF TableInit, TableInv, TableTypeOK, Progress, Visible, Stage, Objects

\* A step that shrinks neither the schema nor what another replica has
\* created leaves that replica's progress alone.
LEMMA OthersProgress ==
  ASSUME TableInv, NEW q \in Replicas,
         schema \subseteq schema', schema' \subseteq Objects,
         stage'[q] = stage[q], ddl'[q] = ddl[q], todo'[q] = todo[q]
  PROVE  Progress(q)'
  BY DEF TableInv, Progress, Visible

LEMMA CreateShows ==
  ASSUME TableTypeOK, NEW p \in Replicas, NEW objects, Create(p, objects)
  PROVE  Visible(p)' = Visible(p) \cup objects
<1>1. CASE transactional
  <2>1. ddl'[p] = ddl[p] \cup objects /\ schema' = schema
    BY <1>1 DEF Create, TableTypeOK
  <2> QED
    BY <2>1 DEF Visible
<1>2. CASE ~transactional
  <2>1. ddl' = ddl /\ schema' = schema \cup objects
    BY <1>2 DEF Create
  <2> QED
    BY <2>1 DEF Visible
<1> QED
  BY <1>1, <1>2

LEMMA TableInvNext == TableInv /\ [TableNext]_allVars => TableInv'
<1> SUFFICES ASSUME TableInv, [TableNext]_allVars PROVE TableInv'
  OBVIOUS
<1>1. CASE UNCHANGED allVars
  BY <1>1 DEF allVars, tableVars, TableInv, TableTypeOK, Progress, Visible
<1>2. ASSUME NEW p \in Replicas, Call(p) \/ Write(p) \/ WriteRaises(p)
      PROVE  TableInv'
  BY <1>2 DEF Call, Write, WriteRaises, tableVars, TableInv, TableTypeOK,
              Progress, Visible
<1>3. ASSUME NEW p \in Replicas, Fails(p),
             UNCHANGED <<transactional, duplicates>>, crashes' \in 0 .. MaxCrashes
      PROVE  TableInv'
  <2>1. TableTypeOK'
    BY <1>3 DEF Fails, TableInv, TableTypeOK, Stage
  <2>2. Progress(p)'
    BY <1>3 DEF Fails, Progress, TableInv, TableTypeOK
  <2>3. ASSUME NEW q \in Replicas, q # p PROVE Progress(q)'
    BY <1>3, <2>3, OthersProgress DEF Fails, TableInv, TableTypeOK
  <2> QED
    BY <2>1, <2>2, <2>3 DEF TableInv
<1>4. ASSUME NEW p \in Replicas, Crash(p) PROVE TableInv'
  <2>1. crashes' \in 0 .. MaxCrashes
    BY <1>4, TableAssumption DEF Crash, TableInv, TableTypeOK
  <2> QED
    BY <1>3, <1>4, <2>1 DEF Crash
<1>5. ASSUME NEW p \in Replicas, Initialize(p) PROVE TableInv'
  <2> UNCHANGED <<transactional, duplicates, crashes>>
    BY <1>5 DEF Initialize
  <2> USE DEF TableInv, TableTypeOK
  <2>1. CASE Fails(p)
    BY <1>3, <2>1
  <2>2. ASSUME NEW to \in Stage, NEW objects \in SUBSET Objects,
               stage' = [stage EXCEPT ![p] = to],
               Create(p, objects), todo' \in [Replicas -> SUBSET Columns],
               \A q \in Replicas \ {p} : todo'[q] = todo[q],
               Progress(p)'
        PROVE  TableInv'
    <3>1. TableTypeOK' /\ schema \subseteq schema'
      BY <2>2 DEF Create
    <3>2. ASSUME NEW q \in Replicas, q # p PROVE Progress(q)'
      BY <2>2, <3>1, <3>2, OthersProgress DEF Create
    <3> QED
      BY <2>2, <3>1, <3>2
  <2>3. ASSUME NEW to \in Stage, stage' = [stage EXCEPT ![p] = to],
               UNCHANGED <<schema, ddl>>, todo' \in [Replicas -> SUBSET Columns],
               \A q \in Replicas \ {p} : todo'[q] = todo[q],
               Progress(p)'
        PROVE  TableInv'
    <3>1. TableTypeOK'
      BY <2>3
    <3>2. ASSUME NEW q \in Replicas, q # p PROVE Progress(q)'
      BY <2>3, <3>1, <3>2, OthersProgress
    <3> QED
      BY <2>3, <3>1, <3>2
  <2>4. ASSUME NEW from \in Stage, NEW to \in Stage, Publish(p, from, to), Progress(p)'
        PROVE  TableInv'
    <3>1. TableTypeOK' /\ schema \subseteq schema'
      BY <2>4 DEF Publish, At, Visible
    <3>2. ASSUME NEW q \in Replicas, q # p PROVE Progress(q)'
      BY <2>4, <3>1, <3>2, OthersProgress DEF Publish, At, Visible
    <3> QED
      BY <2>4, <3>1, <3>2
  <2> USE DEF Progress
  <2>5. CASE Boot(p) \/ FindTable(p)
    <3>1. PICK to \in {"tables?", "inspect", "tables"} :
               /\ stage' = [stage EXCEPT ![p] = to]
               /\ to = "inspect" => "table" \in schema
               /\ UNCHANGED <<schema, ddl, todo>>
      BY <2>5 DEF Boot, FindTable, At
    <3>2. Progress(p)' /\ to \in Stage
      BY <3>1 DEF Stage, Visible
    <3> QED
      BY <2>3, <3>1, <3>2
  <2>6. CASE CreateTable(p) /\ ~Fails(p)
    <3>1. /\ Create(p, Columns \cup {"table", "unique"})
          /\ stage' = [stage EXCEPT ![p] = "tables+indexes"]
          /\ todo' = todo
      BY <2>6 DEF CreateTable, At
    <3>2. Progress(p)'
      <4>1. Visible(p)' = Visible(p) \cup (Columns \cup {"table", "unique"})
        BY <3>1, CreateShows
      <4> QED
        BY <3>1, <4>1
    <3>3. "tables+indexes" \in Stage /\ Columns \cup {"table", "unique"} \in SUBSET Objects
      BY DEF Stage, Objects
    <3> QED
      BY <2>2, <3>1, <3>2, <3>3
  <2>7. CASE CreateTableIndexes(p) /\ ~Fails(p)
    <3>1. /\ Create(p, {"indexes"})
          /\ stage[p] = "tables+indexes"
          /\ stage' = [stage EXCEPT ![p] = "tables done"]
          /\ todo' = todo
      BY <2>7 DEF CreateTableIndexes, At
    <3>2. Progress(p)'
      <4>1. Visible(p)' = Visible(p) \cup {"indexes"}
        BY <3>1, CreateShows
      <4> QED
        BY <3>1, <4>1
    <3>3. "tables done" \in Stage /\ {"indexes"} \in SUBSET Objects
      BY DEF Stage, Objects
    <3> QED
      BY <2>2, <3>1, <3>2, <3>3
  <2>8. CASE Publish(p, "tables done", "inspect")
    <3>1. Progress(p)'
      BY <2>8 DEF Publish, At, Visible
    <3> QED
      BY <2>4, <2>8, <3>1 DEF Stage
  <2>9. CASE Inspect(p)
    <3>1. Progress(p)'
      BY <2>9 DEF Inspect, Missing, At, Visible
    <3> QED
      BY <2>3, <2>9, <3>1 DEF Inspect, Missing, At, Stage
  <2>10. CASE AddColumn(p) /\ ~Fails(p)
    <3>1. PICK c \in todo[p] :
               /\ Create(p, {c})
               /\ todo' = [todo EXCEPT ![p] = @ \ {c}]
               /\ stage' = stage
      BY <2>10 DEF AddColumn
    <3>2. stage[p] = "alter" /\ stage' = [stage EXCEPT ![p] = "alter"]
      BY <2>10, <3>1 DEF AddColumn
    <3>3. Progress(p)'
      <4>1. Visible(p)' = Visible(p) \cup {c}
        BY <3>1, CreateShows
      <4> QED
        BY <3>1, <3>2, <4>1
    <3>4. "alter" \in Stage /\ {c} \in SUBSET Objects
      BY <3>1 DEF Stage, Objects
    <3> QED
      BY <2>2, <3>1, <3>2, <3>3, <3>4
  <2>11. CASE FindUnique(p)
    <3>1. PICK to \in {"indexes?", "unique"} :
               /\ stage[p] = "alter"
               /\ todo[p] = {}
               /\ stage' = [stage EXCEPT ![p] = to]
               /\ to = "indexes?" => "unique" \in schema
               /\ UNCHANGED <<schema, ddl, todo>>
      BY <2>11 DEF FindUnique
    <3>2. Progress(p)' /\ to \in Stage
      BY <3>1 DEF Stage, Visible
    <3> QED
      BY <2>3, <3>1, <3>2
  <2>12. CASE CreateUnique(p) /\ ~Fails(p)
    <3>1. /\ Create(p, {"unique"})
          /\ stage[p] = "unique"
          /\ stage' = [stage EXCEPT ![p] = "indexes?"]
          /\ todo' = todo
      BY <2>12 DEF CreateUnique, At
    <3>2. Progress(p)'
      <4>1. Visible(p)' = Visible(p) \cup {"unique"}
        BY <3>1, CreateShows
      <4> QED
        BY <3>1, <4>1
    <3>3. "indexes?" \in Stage /\ {"unique"} \in SUBSET Objects
      BY DEF Stage, Objects
    <3> QED
      BY <2>2, <3>1, <3>2, <3>3
  <2>13. CASE FindIndexes(p)
    <3>1. PICK to \in {"commit", "indexes"} :
               /\ stage[p] = "indexes?"
               /\ stage' = [stage EXCEPT ![p] = to]
               /\ to = "commit" => "indexes" \in schema
               /\ UNCHANGED <<schema, ddl, todo>>
      BY <2>13 DEF FindIndexes
    <3>2. Progress(p)' /\ to \in Stage
      BY <3>1 DEF Stage, Visible
    <3> QED
      BY <2>3, <3>1, <3>2
  <2>14. CASE CreateIndexes(p) /\ ~Fails(p)
    <3>1. /\ Create(p, {"indexes"})
          /\ stage[p] = "indexes"
          /\ stage' = [stage EXCEPT ![p] = "commit"]
          /\ todo' = todo
      BY <2>14 DEF CreateIndexes, At
    <3>2. Progress(p)'
      <4>1. Visible(p)' = Visible(p) \cup {"indexes"}
        BY <3>1, CreateShows
      <4> QED
        BY <3>1, <4>1
    <3>3. "commit" \in Stage /\ {"indexes"} \in SUBSET Objects
      BY DEF Stage, Objects
    <3> QED
      BY <2>2, <3>1, <3>2, <3>3
  <2>15. CASE Publish(p, "commit", "ready")
    <3>1. Objects \subseteq Visible(p)
      BY <2>15 DEF Publish, At, Objects, Visible
    <3>2. Progress(p)'
      BY <2>15, <3>1 DEF Publish, At, Visible
    <3> QED
      BY <2>4, <2>15, <3>2 DEF Stage
  <2> QED
    BY <1>5, <2>1, <2>5, <2>6, <2>7, <2>8, <2>9, <2>10, <2>11, <2>12, <2>13,
       <2>14, <2>15 DEF Initialize
<1> QED
  BY <1>1, <1>2, <1>4, <1>5 DEF TableNext

\* What each stage of initialize() has behind it holds in every state.
THEOREM TableInvInvariant == TableSpec => []TableInv
  BY TableInvInit, TableInvNext, PTL DEF TableSpec

\* A replica that serves has the complete table under it: for any number of
\* replicas that race each other and crash at any statement, and whatever
\* schema they found.
THEOREM ServesOnCompleteTable == TableSpec => []ReadyMeansComplete
<1>1. TableInv => ReadyMeansComplete
  BY DEF TableInv, Progress, ReadyMeansComplete
<1> QED
  BY <1>1, TableInvInvariant, PTL

-----------------------------------------------------------------------------
(* The inserts.                                                            *)

\* A replica inserts only when it serves, and then meets the unique index: so
\* the composed steps are steps of UsageLogInsert.
LEMMA StepIsInsertStep == TableInv /\ [TableNext]_allVars => [Next]_vars
<1> SUFFICES ASSUME TableInv, [TableNext]_allVars PROVE [Next]_vars
  OBVIOUS
<1>1. CASE UNCHANGED allVars
  BY <1>1 DEF allVars
<1>2. ASSUME NEW p \in Replicas, Write(p) PROVE Next
  <2>1. "unique" \in schema
    BY <1>2 DEF Write, TableInv, Progress, Objects
  <2> QED
    BY <1>2, <2>1 DEF Write, InsertInto, Next, Statement, Replicas
<1>3. ASSUME NEW p \in Replicas, Initialize(p) PROVE UNCHANGED vars
  BY <1>3 DEF Initialize
<1>4. ASSUME NEW p \in Replicas, Call(p) \/ WriteRaises(p) \/ Crash(p)
      PROVE  [Next]_vars
  BY <1>4 DEF Call, WriteRaises, Crash, Next, Replicas
<1> QED
  BY <1>1, <1>2, <1>3, <1>4 DEF TableNext

\* On a table that replicas bring up as they please, the inserts of those that
\* serve are idempotent: one row, never replaced, told to every caller.
THEOREM InsertIsIdempotentOnAnyTable == TableSpec => OneRowForAll
<1>1. TableInit => Init
  BY DEF TableInit
<1>2. TableSpec => Spec
  BY <1>1, StepIsInsertStep, TableInvInvariant, PTL DEF TableSpec, Spec
<1> QED
  BY <1>2, InsertIsIdempotent

-----------------------------------------------------------------------------
(* Nobody waits in a circle.                                               *)

\* The statement replica p is at waits for replica q: for its uncommitted
\* object of the same name, its table lock, or its uncommitted row.
WaitsFor(p, q) ==
  /\ q # p
  /\ \/ stage[p] = "tables" /\ "table" \in ddl[q]
     \/ stage[p] = "unique" /\ "unique" \in ddl[q]
     \/ stage[p] = "indexes" /\ "indexes" \in ddl[q]
     \/ stage[p] = "alter" /\ todo[p] # {} /\ ExcludesWrites(q)
     \/ stage[p] = "alter" /\ todo[p] = {} /\ Excludes(q)
     \/ pc[p] = "absent" /\ ExcludesWrites(q)
     \/ (stage[p] = "alter" \/ pc[p] = "absent") /\ q \in pending

\* What a replica's transaction has created at each stage, and that it inserts
\* only when it is up.
Created(p) ==
  /\ stage[p] \in {"down", "tables?", "tables", "inspect", "ready"} => ddl[p] = {}
  /\ ~transactional => ddl[p] = {}
  /\ stage[p] \in {"tables+indexes", "tables done"} => (transactional => "table" \in ddl[p])
  /\ stage[p] \in {"alter", "unique", "indexes?", "indexes", "commit"}
       => "table" \notin ddl[p]
  /\ stage[p] \in {"alter", "unique"} => "unique" \notin ddl[p]
  /\ stage[p] \in {"alter", "unique", "indexes?", "indexes", "tables+indexes"}
       => "indexes" \notin ddl[p]
  /\ stage[p] # "ready" => pc[p] \in {"idle", "returned", "raised"}

\* The lock of ALTER TABLE excludes every other user of the table.
Exclusive ==
  \A p, q \in Replicas : p # q /\ Excludes(p) => ~ExcludesWrites(q) /\ q \notin pending

LockInv == Exclusive /\ \A p \in Replicas : Created(p)

\* A step of one replica keeps the locks apart if it takes a lock only where
\* no other's stands against it.
LEMMA OneTakesLock ==
  ASSUME Exclusive, TableTypeOK, NEW p \in Replicas, transactional' = transactional,
         \A q \in Replicas \ {p} : stage'[q] = stage[q] /\ ddl'[q] = ddl[q],
         \/ Excludes(p)' => Excludes(p)
         \/ pending = {} /\ \A q \in Replicas \ {p} : ~ExcludesWrites(q),
         \/ ExcludesWrites(p)' => ExcludesWrites(p)
         \/ \A q \in Replicas \ {p} : ~Excludes(q),
         \/ pending' \subseteq pending
         \/ pending' = {p} /\ \A q \in Replicas : ~Excludes(q)
  PROVE  Exclusive'
<1>1. \A q \in Replicas \ {p} : /\ Excludes(q)' <=> Excludes(q)
                                /\ ExcludesWrites(q)' <=> ExcludesWrites(q)
  BY DEF Excludes, ExcludesWrites
<1>2. \A q \in Replicas : Excludes(q) => ExcludesWrites(q)
  BY DEF ExcludesWrites
<1>3. ASSUME NEW a \in Replicas, NEW b \in Replicas, a # b, Excludes(a)'
      PROVE  ~ExcludesWrites(b)' /\ b \notin pending'
  <2>1. CASE a = p
    BY <1>1, <1>2, <1>3, <2>1 DEF Exclusive
  <2>2. CASE b = p
    BY <1>1, <1>2, <1>3, <2>2 DEF Exclusive
  <2>3. CASE a # p /\ b # p
    BY <1>1, <1>3, <2>3 DEF Exclusive
  <2> QED
    BY <2>1, <2>2, <2>3
<1> QED
  BY <1>3 DEF Exclusive

\* What a step of initialize() does to the locks: Excludes and ExcludesWrites
\* hold of the replica afterwards only if they did, or if nobody's lock stands
\* against it.
LEMMA InitializeTakesLock ==
  ASSUME LockInv, TableInv, NEW p \in Replicas, Initialize(p)
  PROVE  /\ \A q \in Replicas \ {p} : stage'[q] = stage[q] /\ ddl'[q] = ddl[q]
         /\ Created(p)'
         /\ \/ Excludes(p)' => Excludes(p)
            \/ pending = {} /\ \A q \in Replicas \ {p} : ~ExcludesWrites(q)
         /\ \/ ExcludesWrites(p)' => ExcludesWrites(p)
            \/ \A q \in Replicas \ {p} : ~Excludes(q)
<1> DEFINE Others == \A q \in Replicas \ {p} : stage'[q] = stage[q] /\ ddl'[q] = ddl[q]
           Same == Excludes(p)' => Excludes(p)
           SameWrites == ExcludesWrites(p)' => ExcludesWrites(p)
           NoneWrites == pending = {} /\ \A q \in Replicas \ {p} : ~ExcludesWrites(q)
           NoneExcludes == \A q \in Replicas \ {p} : ~Excludes(q)
<1>t. /\ stage \in [Replicas -> Stage] /\ ddl \in [Replicas -> SUBSET Objects]
      /\ transactional' = transactional /\ pc' = pc
      /\ Columns \cap {"table", "unique", "indexes"} = {}
      /\ Created(p)
      /\ stage[p] # "ready" /\ pc[p] \in {"idle", "returned", "raised"}
  <2>1. stage[p] # "ready"
    BY DEF Initialize, Boot, At, FindTable, CreateTable, CreateTableIndexes, Publish,
           Inspect, AddColumn, FindUnique, CreateUnique, FindIndexes, CreateIndexes
  <2> QED
    BY <2>1, TableAssumption
    DEF TableInv, TableTypeOK, LockInv, Created, Initialize, vars
<1>f. ASSUME Fails(p) PROVE Others /\ Created(p)' /\ Same /\ SameWrites
  <2>1. Others /\ stage'[p] = "down" /\ ddl'[p] = {}
    BY <1>t, <1>f DEF Fails
  <2>2. Created(p)'
    BY <1>t, <2>1 DEF Created
  <2> QED
    BY <1>t, <2>1, <2>2 DEF Excludes, ExcludesWrites
<1>c. ASSUME NEW objects, Create(p, objects)
      PROVE  /\ \A q \in Replicas \ {p} : ddl'[q] = ddl[q]
             /\ ddl'[p] = IF transactional THEN ddl[p] \cup objects ELSE ddl[p]
  BY <1>t, <1>c DEF Create
\* Steps that create nothing.
<1>1. CASE Boot(p) \/ FindTable(p) \/ Inspect(p) \/ FindIndexes(p)
  BY <1>t, <1>1
  DEF Boot, At, FindTable, Inspect, FindIndexes, Created, Excludes, ExcludesWrites
<1>2. CASE CreateTable(p)
  <2>1. CASE Fails(p)
    BY <1>f, <2>1
  <2>2. CASE ~Fails(p)
    <3>1. /\ stage[p] = "tables" /\ stage' = [stage EXCEPT ![p] = "tables+indexes"]
          /\ Create(p, Columns \cup {"table", "unique"})
      BY <1>2, <2>2 DEF CreateTable, At
    <3>2. /\ \A q \in Replicas \ {p} : stage'[q] = stage[q] /\ ddl'[q] = ddl[q]
          /\ stage'[p] = "tables+indexes"
          /\ ddl'[p] = IF transactional THEN ddl[p] \cup (Columns \cup {"table", "unique"})
                                        ELSE ddl[p]
      <4> HIDE DEF Others, Same, SameWrites, NoneWrites, NoneExcludes
      <4>1. stage'[p] = "tables+indexes" /\ \A q \in Replicas \ {p} : stage'[q] = stage[q]
        BY <1>t, <3>1
      <4> QED
        BY <1>c, <3>1, <4>1
    <3> QED
      BY <1>t, <3>1, <3>2 DEF Created, Excludes, ExcludesWrites
  <2> QED
    BY <2>1, <2>2
<1>3. CASE CreateTableIndexes(p)
  <2>1. CASE Fails(p)
    BY <1>f, <2>1
  <2>2. CASE ~Fails(p)
    <3>1. /\ stage[p] = "tables+indexes" /\ stage' = [stage EXCEPT ![p] = "tables done"]
          /\ Create(p, {"indexes"})
      BY <1>3, <2>2 DEF CreateTableIndexes, At
    <3>2. /\ \A q \in Replicas \ {p} : stage'[q] = stage[q] /\ ddl'[q] = ddl[q]
          /\ stage'[p] = "tables done"
          /\ ddl'[p] = IF transactional THEN ddl[p] \cup {"indexes"} ELSE ddl[p]
      BY <1>t, <1>c, <3>1
    <3> QED
      BY <1>t, <3>1, <3>2 DEF Created, Excludes, ExcludesWrites
  <2> QED
    BY <2>1, <2>2
<1>4. CASE Publish(p, "tables done", "inspect") \/ Publish(p, "commit", "ready")
  BY <1>t, <1>4 DEF Publish, At, Created, Excludes, ExcludesWrites
<1>5. CASE AddColumn(p)
  <2>2. NoneWrites /\ stage[p] = "alter"
    BY <1>5 DEF AddColumn
  <2>3. NoneExcludes
    BY <2>2 DEF ExcludesWrites
  <2>4. CASE Fails(p)
    BY <1>f, <2>4
  <2>5. CASE ~Fails(p)
    <3>1. PICK c \in todo[p] : Create(p, {c}) /\ stage' = stage
      BY <1>5, <2>5 DEF AddColumn
    <3>2. c \in Columns
      BY <3>1 DEF TableInv, TableTypeOK
    <3>3. /\ \A q \in Replicas \ {p} : stage'[q] = stage[q] /\ ddl'[q] = ddl[q]
          /\ ddl'[p] = IF transactional THEN ddl[p] \cup {c} ELSE ddl[p]
      BY <1>c, <3>1
    <3>4. Created(p)'
      BY <1>t, <2>2, <3>1, <3>2, <3>3 DEF Created
    <3> QED
      BY <2>2, <2>3, <3>3, <3>4
  <2> QED
    BY <2>4, <2>5
<1>6. CASE FindUnique(p)
  BY <1>t, <1>6 DEF FindUnique, Created, Excludes, ExcludesWrites
<1>7. CASE CreateUnique(p)
  <2>1. CASE Fails(p)
    BY <1>f, <2>1
  <2>2. CASE ~Fails(p)
    <3>1. /\ stage[p] = "unique" /\ stage' = [stage EXCEPT ![p] = "indexes?"]
          /\ Create(p, {"unique"})
      BY <1>7, <2>2 DEF CreateUnique, At
    <3>2. /\ \A q \in Replicas \ {p} : stage'[q] = stage[q] /\ ddl'[q] = ddl[q]
          /\ stage'[p] = "indexes?"
          /\ ddl'[p] = IF transactional THEN ddl[p] \cup {"unique"} ELSE ddl[p]
      BY <1>t, <1>c, <3>1
    <3> QED
      BY <1>t, <3>1, <3>2 DEF Created, Excludes, ExcludesWrites
  <2> QED
    BY <2>1, <2>2
<1>8. CASE CreateIndexes(p)
  <2>1. CASE Fails(p)
    BY <1>f, <2>1
  <2>2. CASE ~Fails(p)
    <3>1. /\ stage[p] = "indexes" /\ stage' = [stage EXCEPT ![p] = "commit"]
          /\ Create(p, {"indexes"})
      BY <1>8, <2>2 DEF CreateIndexes, At
    <3>2. /\ \A q \in Replicas \ {p} : stage'[q] = stage[q] /\ ddl'[q] = ddl[q]
          /\ stage'[p] = "commit"
          /\ ddl'[p] = IF transactional THEN ddl[p] \cup {"indexes"} ELSE ddl[p]
      BY <1>t, <1>c, <3>1
    <3> QED
      BY <1>t, <3>1, <3>2 DEF Created, Excludes, ExcludesWrites
  <2> QED
    BY <2>1, <2>2
<1> QED
  BY <1>1, <1>2, <1>3, <1>4, <1>5, <1>6, <1>7, <1>8 DEF Initialize

LEMMA LockInvInit == TableInit => LockInv
  BY DEF TableInit, Init, LockInv, Exclusive, Created, Excludes, Replicas

LEMMA LockInvNext ==
  ASSUME LockInv, TableInv, Inv, [TableNext]_allVars PROVE LockInv'
<1>t. /\ stage \in [Replicas -> Stage] /\ ddl \in [Replicas -> SUBSET Objects]
      /\ pc \in [Replicas -> TxPc]
      /\ TableTypeOK /\ Exclusive
      /\ pending \in {{}} \cup {{w} : w \in Replicas}
  BY DEF TableInv, TableTypeOK, LockInv, Inv, TypeOK, Replicas
<1>1. CASE UNCHANGED allVars
  BY <1>1 DEF allVars, tableVars, vars, LockInv, Exclusive, Created, Excludes,
              ExcludesWrites
<1>2. ASSUME NEW p \in Replicas, Initialize(p) PROVE LockInv'
  <2>1. /\ transactional' = transactional /\ pc' = pc /\ pending' = pending
    BY <1>2 DEF Initialize, vars
  <2>2. \A q \in Replicas \ {p} : Created(q)'
    BY <1>2, <2>1, InitializeTakesLock DEF Created, LockInv
  <2>3. Exclusive'
    BY <1>t, <1>2, <2>1, InitializeTakesLock, OneTakesLock
  <2> QED
    BY <1>2, <2>2, <2>3, InitializeTakesLock DEF LockInv
<1>3. ASSUME NEW p \in Replicas, Crash(p) PROVE LockInv'
  <2>1. /\ transactional' = transactional
        /\ \A q \in Replicas \ {p} : /\ stage'[q] = stage[q] /\ ddl'[q] = ddl[q]
                                     /\ pc'[q] = pc[q]
        /\ stage'[p] = "down" /\ ddl'[p] = {}
        /\ pc'[p] \in {"idle", "returned", "raised"}
        /\ pending' \subseteq pending
    BY <1>t, <1>3 DEF Crash, Fails, Raise, Go, vars
  <2>2. ~Excludes(p)' /\ ~ExcludesWrites(p)'
    BY <2>1 DEF Excludes, ExcludesWrites
  <2>3. Exclusive'
    BY <1>t, <2>1, <2>2, OneTakesLock
  <2>4. \A q \in Replicas : Created(q)'
    BY <2>1 DEF LockInv, Created
  <2> QED
    BY <2>3, <2>4 DEF LockInv
<1>4. ASSUME NEW p \in Replicas, Call(p) \/ Write(p) \/ WriteRaises(p) PROVE LockInv'
  <2>1. UNCHANGED tableVars /\ stage[p] = "ready"
    BY <1>4 DEF Call, Write, WriteRaises
  <2>2. \A q \in Replicas \ {p} : pc'[q] = pc[q]
    BY <1>t, <1>4 DEF Call, Write, WriteRaises, Begin, Select, InsertInto, Insert,
       InsertUnchecked, SelectAgain, Commit, Return, Raise, Go
  <2>3. \A q \in Replicas : Created(q)'
    BY <2>1, <2>2 DEF LockInv, Created, tableVars
  <2>4. \/ pending' \subseteq pending
        \/ pending' = {p} /\ \A q \in Replicas : ~Excludes(q)
    <3>1. CASE InsertInto(p)
      <4>1. \A q \in Replicas : ~Excludes(q)
        BY <3>1 DEF InsertInto, ExcludesWrites
      <4>2. "unique" \in schema
        BY <2>1 DEF TableInv, Progress, Objects
      <4> QED
        BY <3>1, <4>1, <4>2 DEF InsertInto, Insert
    <3>2. CASE ~InsertInto(p)
      BY <1>4, <3>2 DEF Call, Write, WriteRaises, Begin, Select, SelectAgain, Commit,
         Return, Raise
    <3> QED
      BY <3>1, <3>2
  <2>5. Excludes(p)' <=> Excludes(p)
    BY <2>1 DEF tableVars, Excludes
  <2>6. ExcludesWrites(p)' <=> ExcludesWrites(p)
    BY <2>1, <2>5 DEF tableVars, ExcludesWrites
  <2>7. Exclusive'
    BY <1>t, <2>1, <2>4, <2>5, <2>6, OneTakesLock DEF tableVars
  <2> QED
    BY <2>3, <2>7 DEF LockInv
<1> QED
  BY <1>1, <1>2, <1>3, <1>4 DEF TableNext

\* How far a replica's statement is from one that waits for nobody.
Rank(p) ==
  CASE stage[p] = "tables" \/ pc[p] = "absent" -> 0
    [] stage[p] = "alter" /\ ~Excludes(p) -> 1
    [] stage[p] = "unique" -> 2
    [] stage[p] = "indexes" -> 3
    [] OTHER -> 4

LEMMA WaitsGoUp ==
  ASSUME LockInv, TableInv, Inv, NEW p \in Replicas, NEW q \in Replicas, WaitsFor(p, q)
  PROVE  Rank(p) < Rank(q)
<1>t. /\ stage[p] \in Stage /\ stage[q] \in Stage
      /\ Created(p) /\ Created(q)
      /\ Excludes(p) => ~ExcludesWrites(q) /\ q \notin pending
  BY DEF TableInv, TableTypeOK, LockInv, Exclusive, WaitsFor
<1>1. q \in pending => pc[q] = "inserted" /\ stage[q] = "ready"
  <2>1. q \in pending => pc[q] = "inserted"
    BY DEF Inv, TypeOK, UncommittedIsAlone, Replicas
  <2> QED
    BY <1>t, <2>1 DEF Created
<1>2. stage[p] = "ready" \/ pc[p] # "absent"
  BY <1>t DEF Created
<1>3. stage[q] = "ready" \/ pc[q] # "absent"
  BY <1>t DEF Created
\* Whom somebody waits for is past the statements that wait, or higher up.
<1>4. q \in pending => Rank(q) = 4
  BY <1>1 DEF Rank
<1>5. "table" \in ddl[q] => Rank(q) = 4
  BY <1>t, <1>3 DEF Rank, Created, Stage
<1>6. "unique" \in ddl[q] => Rank(q) \in {3, 4}
  BY <1>t, <1>3, <1>5 DEF Rank, Created, Stage
<1>7. "indexes" \in ddl[q] => Rank(q) = 4
  BY <1>t, <1>3, <1>5 DEF Rank, Created, Stage
<1>8. ExcludesWrites(q) => Rank(q) \in {2, 3, 4}
  <2>1. CASE Excludes(q)
    <3>1. stage[q] \in {"alter", "unique", "indexes?", "indexes", "commit"}
      BY <1>t, <2>1 DEF Created, Excludes, Stage
    <3> QED
      BY <1>3, <2>1, <3>1 DEF Rank
  <2>2. CASE stage[q] \in {"unique", "indexes?", "indexes", "commit"}
    BY <1>3, <2>2 DEF Rank
  <2> QED
    BY <2>1, <2>2 DEF ExcludesWrites
<1>9. CASE stage[p] = "alter"
  <2>1. ~Excludes(p)
    BY <1>t, <1>9 DEF WaitsFor, ExcludesWrites
  <2>2. Rank(p) = 1
    BY <1>2, <1>9, <2>1 DEF Rank
  <2> QED
    BY <1>2, <1>4, <1>8, <1>9, <2>2 DEF WaitsFor, ExcludesWrites
<1>10. CASE stage[p] = "tables" \/ pc[p] = "absent"
  <2>1. Rank(p) = 0
    BY <1>2, <1>10 DEF Rank
  <2> QED
    BY <1>2, <1>4, <1>5, <1>8, <1>10, <2>1 DEF WaitsFor
<1>11. CASE stage[p] = "unique"
  <2>1. Rank(p) = 2
    BY <1>2, <1>11 DEF Rank
  <2> QED
    BY <1>2, <1>6, <1>11, <2>1 DEF WaitsFor
<1>12. CASE stage[p] = "indexes"
  <2>1. Rank(p) = 3
    BY <1>2, <1>12 DEF Rank
  <2> QED
    BY <1>2, <1>7, <1>12, <2>1 DEF WaitsFor
<1> QED
  BY <1>9, <1>10, <1>11, <1>12 DEF WaitsFor

LEMMA RanksEnd ==
  ASSUME NEW S \in SUBSET Replicas, S # {}
  PROVE  \E p \in S : \A q \in S : ~(Rank(p) < Rank(q))
<1>1. \A p \in S : Rank(p) \in 0 .. 4
  BY DEF Rank
<1>2. CASE \E p \in S : Rank(p) = 4
  BY <1>1, <1>2
<1>3. CASE (\A p \in S : Rank(p) < 4) /\ \E p \in S : Rank(p) = 3
  BY <1>1, <1>3
<1>4. CASE (\A p \in S : Rank(p) < 3) /\ \E p \in S : Rank(p) = 2
  BY <1>1, <1>4
<1>5. CASE (\A p \in S : Rank(p) < 2) /\ \E p \in S : Rank(p) = 1
  BY <1>1, <1>5
<1>6. CASE \A p \in S : Rank(p) < 1
  BY <1>1, <1>6
<1> HIDE DEF Rank
<1> QED
  BY <1>1, <1>2, <1>3, <1>4, <1>5, <1>6

\* What the statement replica p is at asks of the others' transactions: the
\* guards of the actions.
NothingInItsWay(p) ==
  /\ stage[p] = "tables" => Free(p, "table")
  /\ stage[p] = "unique" => Free(p, "unique")
  /\ stage[p] = "indexes" => Free(p, "indexes")
  /\ stage[p] = "alter" /\ todo[p] # {} => \A q \in Replicas \ {p} : ~ExcludesWrites(q)
  /\ stage[p] = "alter" => pending = {} /\ \A q \in Replicas \ {p} : ~Excludes(q)
  /\ pc[p] = "absent" => pending = {} /\ \A q \in Replicas : ~ExcludesWrites(q)

LEMMA GuardsAreTheWaits ==
  ASSUME LockInv, TableInv, Inv, NEW p \in Replicas, \A q \in Replicas : ~WaitsFor(p, q)
  PROVE  NothingInItsWay(p)
<1>t. /\ pending \in {{}} \cup {{q} : q \in Replicas}
      /\ Created(p)
  BY DEF Inv, TypeOK, LockInv, Replicas
<1>1. p \in pending => pc[p] = "inserted"
  BY DEF Inv, TypeOK, UncommittedIsAlone, Replicas
<1>2. stage[p] = "alter" \/ pc[p] = "absent" => pending = {}
  BY <1>t, <1>1 DEF WaitsFor, Created
<1>3. pc[p] = "absent" => ~ExcludesWrites(p)
  BY <1>t DEF Created, ExcludesWrites, Excludes
<1> QED
  BY <1>2, <1>3 DEF NothingInItsWay, WaitsFor, Free, ExcludesWrites

\* A replica that is starting up or in a call of insert_usage_log.
UnderWay(p) == stage[p] # "ready" \/ pc[p] \notin {"idle", "returned", "raised"}

\* Of any set of replicas one waits for none of the others.
NoCircle ==
  \A S \in SUBSET Replicas : S # {} =>
    \E p \in S : \A q \in S : ~WaitsFor(p, q)

\* While any replica is under way, one of them has nothing in its way.
SomebodyGoesOn ==
  (\E p \in Replicas : UnderWay(p)) =>
    \E p \in Replicas : UnderWay(p) /\ NothingInItsWay(p)

LEMMA LockInvInvariant == TableSpec => [](LockInv /\ TableInv /\ Inv)
<1>1. TableInit => Init
  BY DEF TableInit
<1>2. TableSpec => []Inv
  BY <1>1, StepIsInsertStep, TableInvInvariant, InvInvariant, PTL DEF TableSpec, Spec
<1> QED
  BY <1>2, LockInvInit, LockInvNext, TableInvInvariant, PTL DEF TableSpec

\* The order in which initialize() and insert_usage_log take names, table locks
\* and rows admits no deadlock: among any replicas, at whatever statements, one
\* waits for none of the others.
THEOREM NobodyWaitsInACircle == TableSpec => []NoCircle
<1>1. LockInv /\ TableInv /\ Inv => NoCircle
  BY WaitsGoUp, RanksEnd DEF NoCircle
<1> QED
  BY <1>1, LockInvInvariant, PTL

\* So while replicas start up or insert, the database can complete the statement
\* of one of them, on either database and whatever schema they found.
THEOREM SomebodyAlwaysGoesOn == TableSpec => []SomebodyGoesOn
<1>1. ASSUME LockInv, TableInv, Inv, \E p \in Replicas : UnderWay(p)
      PROVE  \E p \in Replicas : UnderWay(p) /\ NothingInItsWay(p)
  <2> DEFINE Busy == {p \in Replicas : UnderWay(p)}
  <2>1. PICK p \in Busy : \A q \in Busy : ~WaitsFor(p, q)
    BY <1>1, WaitsGoUp, RanksEnd
  <2>2. ASSUME NEW q \in Replicas, WaitsFor(p, q) PROVE UnderWay(q)
    <3>1. Rank(p) < Rank(q) /\ Created(q)
      BY <1>1, <2>2, WaitsGoUp DEF LockInv
    <3>2. q \in pending => pc[q] = "inserted"
      BY <1>1 DEF Inv, TypeOK, UncommittedIsAlone, Replicas
    <3> QED
      BY <2>2, <3>1, <3>2 DEF WaitsFor, UnderWay, ExcludesWrites, Excludes, Created
  <2>3. \A q \in Replicas : ~WaitsFor(p, q)
    BY <2>1, <2>2
  <2> QED
    BY <1>1, <2>1, <2>3, GuardsAreTheWaits
<1> QED
  BY <1>1, LockInvInvariant, PTL DEF SomebodyGoesOn
=============================================================================

----------------------------- MODULE UsageTable -----------------------------
(***************************************************************************)
(* The table usage_logs as replicas of the gateway bring it up and use it: *)
(* Store.initialize, which every replica runs before it serves, composed   *)
(* with the inserts of the replicas that are up (UsageLogInsert).  Nothing *)
(* coordinates the replicas: several may find the same table, column or    *)
(* index missing at once.  The database lets one create it; the others'    *)
(* statements fail, create_app raises, and it is called again: by the next *)
(* process the supervisor starts, or by LazyApp when the next request or   *)
(* health check comes.  The table may be new, complete, or one of an older *)
(* version, with columns or indexes missing, and with rows that share a    *)
(* trace id, on which no unique index can be created.                      *)
(*                                                                         *)
(* A step is one statement.  PostgreSQL runs DDL in the transaction, and   *)
(* holds its locks until the commit; with SQLite's driver every DDL        *)
(* statement takes effect at once.  The writers of UsageLogInsert are the  *)
(* replicas' workers.                                                      *)
(***************************************************************************)
EXTENDS UsageLogInsert, FiniteSets

CONSTANTS
  Columns,    \* the columns initialize() adds to an older table
  Versions,   \* the schemas an older version, or none, may have left
  MaxCrashes  \* bound: replicas killed, or failing for another reason

Replicas == Writers
Objects == Columns \cup {"table", "unique", "indexes"}

ASSUME TableAssumption ==
  /\ Columns \cap {"table", "unique", "indexes"} = {}
  /\ Versions \subseteq SUBSET Objects
  /\ MaxCrashes \in Nat

VARIABLES
  transactional, \* DDL is part of the transaction (PostgreSQL)
  duplicates, \* the table has rows of an older version sharing a trace id
  schema,     \* what is there: the table, its columns, its unique index on
              \* trace_id, and its other indexes
  ddl,        \* what each replica's transaction has created, uncommitted
  todo,       \* the columns each replica has found missing
  stage,      \* where each replica is in initialize()
  crashes     \* history: crashes so far

tableVars == <<transactional, duplicates, schema, ddl, todo, stage, crashes>>
allVars == <<tableVars, vars>>

Stage == {"down", "tables?", "tables", "tables+indexes", "tables done",
          "inspect", "alter", "unique", "indexes?", "indexes", "commit",
          "ready"}

TableTypeOK ==
  /\ transactional \in BOOLEAN
  /\ duplicates \in BOOLEAN
  /\ schema \subseteq Objects
  /\ ddl \in [Replicas -> SUBSET Objects]
  /\ todo \in [Replicas -> SUBSET Columns]
  /\ stage \in [Replicas -> Stage]
  /\ crashes \in 0 .. MaxCrashes

TableInit ==
  /\ Init
  /\ transactional \in BOOLEAN
  /\ schema \in Versions
  /\ duplicates \in {b \in BOOLEAN : b => "table" \in schema /\ "unique" \notin schema}
  /\ ddl = [p \in Replicas |-> {}]
  /\ todo = [p \in Replicas |-> {}]
  /\ stage = [p \in Replicas |-> "down"]
  /\ crashes = 0

-----------------------------------------------------------------------------
(* initialize().                                                           *)

At(p, from, to) == stage[p] = from /\ stage' = [stage EXCEPT ![p] = to]

\* The statement raises, and with it create_app: the transaction is rolled
\* back.
Fails(p) ==
  /\ stage' = [stage EXCEPT ![p] = "down"]
  /\ ddl' = [ddl EXCEPT ![p] = {}]
  /\ todo' = [todo EXCEPT ![p] = {}]
  /\ UNCHANGED schema

\* A DDL statement that creates objects.
Create(p, objects) ==
  IF transactional
    THEN ddl' = [ddl EXCEPT ![p] = @ \cup objects] /\ UNCHANGED schema
    ELSE schema' = schema \cup objects /\ UNCHANGED ddl

\* Another transaction's uncommitted object of the same name is waited for.
Free(p, o) == \A q \in Replicas \ {p} : o \notin ddl[q]

\* The table locks a replica's transaction holds: ALTER TABLE takes one that
\* excludes every other use, CREATE INDEX one that excludes changes.
Excludes(q) == "table" \notin ddl[q] /\ ddl[q] \cap Columns # {}
ExcludesWrites(q) ==
  \/ Excludes(q)
  \/ transactional /\ stage[q] \in {"unique", "indexes?", "indexes", "commit"}

\* create_all creates the tables that it does not find.
FindTable(p) ==
  /\ stage[p] = "tables?"
  /\ stage' = [stage EXCEPT ![p] = IF "table" \in schema THEN "inspect"
                                                         ELSE "tables"]
  /\ UNCHANGED <<schema, ddl, todo>>

\* CREATE TABLE, with all columns and the unique constraint on trace_id.  The
\* constraint and the index uq_usage_logs_trace_id, which initialize() adds even
\* so, do the same and are both "unique" here: how replicas race to create that
\* index is seen on older tables only.
CreateTable(p) ==
  /\ stage[p] = "tables"
  /\ Free(p, "table")
  /\ IF "table" \in schema
       THEN Fails(p)
       ELSE /\ Create(p, Columns \cup {"table", "unique"})
            /\ At(p, "tables", "tables+indexes")
            /\ UNCHANGED todo

\* The indexes of the new table.  Where it is visible at once, another replica
\* may have created them by now.
CreateTableIndexes(p) ==
  /\ stage[p] = "tables+indexes"
  /\ IF "indexes" \in schema
       THEN Fails(p)
       ELSE /\ Create(p, {"indexes"})
            /\ At(p, "tables+indexes", "tables done")
            /\ UNCHANGED todo

\* Commit of either transaction, of create_all and of what follows.
Publish(p, from, to) ==
  /\ At(p, from, to)
  /\ schema' = schema \cup ddl[p]
  /\ ddl' = [ddl EXCEPT ![p] = {}]
  /\ UNCHANGED todo

\* Mutant: every column is added, whatever is there.
MissingAll == Columns
\* _ensure_usage_activity_columns: the columns the inspector does not find.
Missing == Columns \ schema

Inspect(p) ==
  /\ At(p, "inspect", "alter")
  /\ todo' = [todo EXCEPT ![p] = Missing]
  /\ UNCHANGED <<schema, ddl>>

\* ALTER TABLE ADD COLUMN, of one column at a time.
AddColumn(p) ==
  /\ stage[p] = "alter"
  /\ pending = {}
  /\ \A q \in Replicas \ {p} : ~ExcludesWrites(q)
  /\ \E c \in todo[p] :
       IF c \in schema
         THEN Fails(p)
         ELSE /\ Create(p, {c})
              /\ todo' = [todo EXCEPT ![p] = @ \ {c}]
              /\ UNCHANGED stage

\* CREATE UNIQUE INDEX IF NOT EXISTS: the lock is taken, the name looked up.
FindUnique(p) ==
  /\ stage[p] = "alter"
  /\ todo[p] = {}
  /\ pending = {}
  /\ \A q \in Replicas \ {p} : ~Excludes(q)
  /\ stage' = [stage EXCEPT ![p] = IF "unique" \in schema THEN "indexes?"
                                                          ELSE "unique"]
  /\ UNCHANGED <<schema, ddl, todo>>

\* Mutants: a failing index is ignored; it is not created.
CreateUniqueIfItCan(p) ==
  /\ At(p, "unique", "indexes?")
  /\ IF duplicates
       THEN UNCHANGED <<schema, ddl>>
       ELSE Create(p, {"unique"})
  /\ UNCHANGED todo
CreateUniqueNever(p) ==
  /\ At(p, "unique", "indexes?")
  /\ UNCHANGED <<schema, ddl, todo>>

\* The index is built, which fails on rows that share a trace id.  In
\* PostgreSQL the name may have been taken since it was looked up.
CreateUnique(p) ==
  /\ stage[p] = "unique"
  /\ Free(p, "unique")
  /\ IF duplicates \/ (transactional /\ "unique" \in schema)
       THEN Fails(p)
       ELSE /\ Create(p, {"unique"})
            /\ At(p, "unique", "indexes?")
            /\ UNCHANGED todo

\* index.create(checkfirst=True): looked up, then created.
FindIndexes(p) ==
  /\ stage[p] = "indexes?"
  /\ stage' = [stage EXCEPT ![p] = IF "indexes" \in schema THEN "commit"
                                                           ELSE "indexes"]
  /\ UNCHANGED <<schema, ddl, todo>>

CreateIndexes(p) ==
  /\ stage[p] = "indexes"
  /\ Free(p, "indexes")
  /\ IF "indexes" \in schema
       THEN Fails(p)
       ELSE /\ Create(p, {"indexes"})
            /\ At(p, "indexes", "commit")
            /\ UNCHANGED todo

Boot(p) == At(p, "down", "tables?") /\ UNCHANGED <<schema, ddl, todo>>

Initialize(p) ==
  /\ \/ Boot(p)
     \/ FindTable(p) \/ CreateTable(p) \/ CreateTableIndexes(p)
     \/ Publish(p, "tables done", "inspect")
     \/ Inspect(p) \/ AddColumn(p)
     \/ FindUnique(p) \/ CreateUnique(p)
     \/ FindIndexes(p) \/ CreateIndexes(p)
     \/ Publish(p, "commit", "ready")
  /\ UNCHANGED <<transactional, duplicates, crashes, vars>>

-----------------------------------------------------------------------------
(* The inserts of a replica that is up.                                    *)

\* Without the unique index the INSERT would meet no conflict.
InsertInto(p) ==
  /\ \A q \in Replicas : ~ExcludesWrites(q)
  /\ IF "unique" \in schema THEN Insert(p) ELSE InsertUnchecked(p)

Call(p) == stage[p] = "ready" /\ Begin(p) /\ UNCHANGED tableVars

Write(p) ==
  /\ stage[p] = "ready"
  /\ \/ Select(p) \/ InsertInto(p) \/ SelectAgain(p) \/ Commit(p) \/ Return(p)
  /\ UNCHANGED tableVars

\* A statement of an insert raises, and the replica goes on.
WriteRaises(p) == stage[p] = "ready" /\ Raise(p) /\ UNCHANGED tableVars

\* The replica is killed, or initialize() raises for any other reason.
Crash(p) ==
  /\ stage[p] # "down"
  /\ crashes < MaxCrashes
  /\ crashes' = crashes + 1
  /\ Fails(p)
  /\ IF pc[p] \in {"idle", "returned", "raised"} THEN UNCHANGED vars ELSE Raise(p)
  /\ UNCHANGED <<transactional, duplicates>>

TableNext ==
  \E p \in Replicas :
    Initialize(p) \/ Call(p) \/ Write(p) \/ WriteRaises(p) \/ Crash(p)

\* The database completes the statements it can, and create_app is called again
\* after it raised.  Calls and crashes need never come.
TableFairness ==
  \A p \in Replicas : WF_allVars(Initialize(p)) /\ WF_allVars(Write(p))

TableSpec == TableInit /\ [][TableNext]_allVars
TableFairSpec == TableSpec /\ TableFairness

-----------------------------------------------------------------------------
(* Properties.                                                             *)

\* A replica that serves has a complete table under it, whatever it found and
\* whoever else was creating it: above all the unique index, on which the
\* insert relies to meet a conflict (initialize, insert_usage_log).
ReadyMeansComplete ==
  \A p \in Replicas : stage[p] = "ready" => schema = Objects

\* Replicas that race each other, or fall over half-way, all come up in the
\* end, unless rows of an older version share a trace id: then none ever does
\* (initialize, and whoever calls create_app again).
EveryReplicaComesUp ==
  \A p \in Replicas : stage[p] = "down" ~> stage[p] = "ready" \/ duplicates
=============================================================================

# Verification of LLM Control Center

TLA+ specifications of the gateway in `src/src/llm_control_center`, the TLC
configurations that check them on small instances, and TLAPS proofs for every
value of the constants. Paths below are relative to that package unless they
begin with `src/`.

## 1. The system

One asyncio process (or several replicas on one SQL database) serves
`POST /v1/chat/completions`, `POST /v1/responses`, `GET /v1/models`, `/admin/*`
and `/health`. Coroutines share an event loop; database and spool operations run
in thread-pool threads.

| Component | State it keeps | Operations | Talks to |
|---|---|---|---|
| Usage recorder (`services/usage.py`) | `asyncio.Queue` and its unfinished count, worker task, SQLite spool (`usage_spool`: attempts, status) | `start`, `record_async`, `_run_worker`, `flush`, `stop`, replay | called by the LLM services, by `GET /admin/usage` (flush) and by the lifespan (start, stop); writes through the usage log table |
| Usage log table (`db.py`, `insert_usage_log`, `list_usage_logs`) | rows of `usage_logs`, unique by `trace_id` | idempotent insert, filtered select | called by the recorder and the admin read |
| Provider bulkhead and breaker (`providers/resilient.py`) | semaphore, consecutive failures, time the circuit opened | `chat`, `respond`, both through `_execute` | wraps every provider adapter; called by the LLM services |
| Rate limiting (`api/middleware.py`, `db.py` `consume_rate_limit`) | one row per bucket: window start and count | consume, answer 429/503, headers | in front of every route; shared by replicas |
| Projects and API keys (`services/projects.py`, `services/api_keys.py`, `auth.py`, `api/deps.py`, `api/routes/admin.py`) | rows of `projects` and `api_keys`; the row kept on a request | create project; create, look up, revoke key; scope check | the middleware looks keys up for its bucket, the route for the principal |
| LLM request handling (`services/chat.py`, `api/routes/chat.py`, `telemetry.py`) | per request: outcome, timer, record, answer | the two POST handlers | bulkhead, recorder |
| Routing, models listing (`routing.py`, `services/models.py`) | none after start-up | look-ups | LLM services |
| Provider adapters, registry (`providers/*`) | HTTP clients | translate payloads | upstream APIs |
| Assembly, settings (`app.py`, `config.py`) | none after start-up | wiring, lifespan | all |
| Schema (`db.py` `initialize`) | which tables, columns and indexes exist | create, add columns and indexes | every replica, as it starts, against the shared database |
| Request context, security and docs middleware (`middleware.py`, `api/middleware.py`) | none | headers, correlation ids, token check | every request |
| Schemas, errors, logging, health (`schemas.py`, `errors.py`, `logging_config.py`, `api/routes/health.py`) | none | validation, formatting | all |
| Command-line client (`cli.py`) | what the operator was told | create projects, create and revoke keys; listings | gateway, over HTTP with a timeout |

### Where it is hard, and what makes it correct

- **Recorder.** A record exists as a receipt, in a request about to queue it, on
  the queue, in the worker's hand and as a row; a crash, a cancelled request, a
  failed insert or a failed spool operation may come between any two steps.
  Correct: an accepted record is in the log or the spool at every instant; one
  copy only is on its way; attempts neither grow nor vanish over restarts;
  `join()` counts exactly the work left; an admin read shows what was accepted
  before it, in a process that replays; every accepted record ends in the log or
  as a dead letter. The spool file is not locked: a second process replays receipts the first still
  works on, and both insert, mark and delete the same record.
- **Usage log table.** The same trace id is inserted again after a lost
  acknowledgement, in a replay, or by two processes with one spool. Correct: one
  row, never replaced, and whoever is answered is told that row. It rests on the
  unique index, which racing replicas may be creating, on rows an older version
  left behind. Correct: who serves has the whole schema under it, and replicas
  come up.
- **Bulkhead and breaker.** A queue timeout or a cancellation meets a permit
  that was granted and not yet taken up; outcomes of old calls arrive after the
  circuit has opened. Correct: permits add up and are never idle while somebody
  waits; the circuit follows the failure count; it cools down; calls end.
- **Rate limiting.** The clock is read long before the row is updated, on
  replicas with different clocks. Correct: each opening of a window admits no
  more than its limit; nobody is refused before it is spent; Retry-After leads
  out of the window.
- **Keys.** A key is looked up twice in one request and may be created or
  revoked in between, and the first look-up may fail silently. Correct: every
  decision agrees with the key table at some instant of the request itself, and
  allowances are charged to their owners only. An operator whose answer is lost
  runs the command again. Correct: a key reported as revoked, or as unknown to a
  project, lets nobody in, or nobody for that project.
- **LLM requests.** The call ends in one of three ways, then recording may
  itself fail, be cancelled or cut off; circuit, queue timeout and upstream raise
  the same exception, and a success may not fit into the answer. Correct: answer
  and record agree; every call is accounted for under its own outcome; who
  records holds no permit; overload does not open the circuit; every call ends
  and is handed to the recorder.

## 2. The modules

Atomicity everywhere: a step is what happens between two suspension points
(`await`s) of a coroutine, or one database statement or transaction run in a
thread.

| Module | Models | Composition |
|---|---|---|
| `ActivityLedger` | what the activity log promises of a record: none, written, accepted, logged, dead | abstract specification, implemented by `UsageService`; `LlmRequest` is written against it |
| `UsageService` | `services/usage.py`, the lifespan, `GET /admin/usage` | implements `ActivityLedger` |
| `SharedSpool` | two processes on one spool file and database | two instances of `UsageService` that share the rows |
| `UsageLogRow` | what `insert_usage_log` promises about one trace id | abstract specification, implemented by `UsageLogInsert`; `UsageService` takes the insert as this one step |
| `UsageLogInsert` | the statements of `Store.insert_usage_log` under READ COMMITTED | implements `UsageLogRow` |
| `UsageTable` | `Store.initialize` on `usage_logs` by racing replicas | EXTENDS `UsageLogInsert`: the same replicas insert once they are up |
| `ResilientProvider` | `providers/resilient.py` over CPython 3.12's `asyncio.Semaphore` | the upstream calls of `LlmGateway` |
| `ProviderAdapters` | `providers/mock.py`, `ollama.py`, `openai_compatible.py`, `base.py` as functions from a reply to a result | evaluated by `LlmGateway` |
| `LlmRequest` | the two POST handlers and their services, the timer, what is recorded and answered | abstract specification of a request; drives a copy of `ActivityLedger` (INSTANCE) in place of the recorder |
| `LlmGateway` | requests that share one provider | `LlmRequest`, `ResilientProvider` and `ProviderAdapters` in lock-step; implements `LlmRequest` |
| `RequestRecording` | the handlers and the recorder of one process | `LlmRequest` and `UsageService` in lock-step; implements `LlmRequest` with the recorder's state as its ledger |
| `RateLimit` | `consume_rate_limit` and the part of `dispatch` around it, one bucket | a `Charge` of `ApiAccess` |
| `ApiAccess` | admin requests on projects and keys; `dispatch` up to the route, `require_project_principal`, scopes | in front of `LlmRequest` |
| `AdminCli` | the `llmcc` commands that change something | EXTENDS `ApiAccess`: a command is an admin request and what its operator is told |
| `MC...` | the constants TLC uses, nothing else | EXTENDS its specification |
| `...Proofs` | theorems and proofs | EXTENDS its specification and TLAPS |

### How state and actions correspond to the code

`UsageService`. `queue`, `unfinished` are the `asyncio.Queue` (`unfinished` is
what `join()` waits on); `workerPc`/`hand` is where `_run_worker` is between
`get()` and `task_done()`; `spool`, `spoolAttempts` are the columns of
`usage_spool`; `durable` says whether a spool is configured; `logs` is
`usage_logs` by trace id; `caller[r]` and `reader[d]` are requests inside
`record_async` and `list_usage`. `RecordAsync`, `Persist`, `Put` are its two
awaits; `WorkerGet`, `RecordOk`/`RecordRaises`, `MarkAttempt`, `BackoffOver`,
`DeleteSpooled` the loop body; `Release` is the `finally` with `task_done()`.
`Cancel` raises `CancelledError` at an await, knowing that the thread of a
cancelled thread-pool call still finishes. `Crash` ends the process anywhere,
`Stop`/`StopCancel`/`Exit` are the orderly way. Payloads are left out: a record
is its trace id, and the receipt's random id is one to one with it because a
record is persisted once. `list_usage` is the read without filters and within
its `limit`. Requests and reads are also served in phase "created", without
`start()` and a queue, as by `LazyApp` under a server that runs no lifespan:
`RecordDirect` inserts at once, and `FlushStart` goes straight to the select.
`Awaited` is what a read has to show: every accepted record, without those whose
receipts nobody replays in such a process (section 5).

`SharedSpool`. Queue, worker and requests exist once per process (`...A`,
`...B`); spool and log rows are common. Each step is a step of one instance. A
mark of a receipt that is gone changes nothing (`UPDATE` without a match).

`UsageLogInsert`. `row` is the committed row of one trace id, `pending` the
uncommitted one in the unique index, `pc` the statement a transaction is at.
SQLite's lock in `_locked_connection` only removes interleavings, and its
`database is locked` is a `Raise`. Nothing deletes rows of `usage_logs`.

`UsageTable`. `schema` is what is visible to everybody, `ddl[p]` what replica
`p`'s transaction has created and not committed, `stage[p]` its place in
`initialize()`. With `transactional` (PostgreSQL) DDL becomes visible at the
commit, and its locks make others wait; without (SQLite's driver) each statement
takes effect at once. A statement that finds its object taken raises, and
`create_app` with it; it is called again by the supervisor's next process, or by
`LazyApp` at the next request or health check. `duplicates` are rows of an older
version that share a trace id: no unique index can be built on them.

`ResilientProvider`. `permits`/`waiters` are the semaphore's value and deque;
"granted" is a waiter whose future is done and which has not resumed. Sections
under `_state_lock` contain no `await`, so they belong to the step around them.
`age` counts the ticks since the circuit opened, up to the cooldown. The
semaphore is CPython's (the Dockerfile's 3.12): its operators are marked
external in the map.

`ProviderAdapters`. A reply is the set of facts about it the adapters ask for:
whether it is a JSON object, has choices, readable counts, what kind of text. A
result is what the response schema can tell apart: `ChatAnswer` and
`ResponseAnswer` say whether it can be answered.

`LlmRequest`. `answer`, `status`, `latency` are what the client gets and what
the record says; `fate` is the record's state in `ActivityLedger`. `ended` and
`upstream` are history. `Persisted`, `Queued` and `CutShort` are what the handler
sees of the steps inside `record_async`. What the ledger may do is an assumption
here; `RequestRecording` discharges it.

`LlmGateway`. A request's upstream call is one call of `ResilientProvider`;
`Returns`, `Raises`, `Cancelled`, `QueueTimesOut` are a step of both at once.
Each behaviour has one of the adapters behind the circuit, chosen at the start:
`outcomes` is the set of statuses a chat and a response can come to at it, over
every reply and input. (The mock adapter never raises in a chat, and without an
API key every call does.) A
request rejected by the circuit is "calling" with an idle call until the
exception reaches the service. `Dies` is a crash: the next process has a new
semaphore and a closed circuit. The clock of `LlmRequest` stands still here;
only the cooldown's runs. `raised` is history.

`RequestRecording`. A handler that calls `record_async` (`Asks`), writes the
receipt (`Persists`, `FailsToPersist`), queues the record (`Queues`) or is
cancelled meanwhile (`IsCutShort`) takes a step of both modules at once; worker,
replay, reads and `stop()` are steps of the recorder alone, and up to
`record_async` a handler is alone. Requests come once start-up has completed, so
there is a queue, and they may still come and end while `stop()` runs. The fate `LlmRequest` speaks of is read off
queue, spool and rows (`RecordFate`). The process has a spool,
as the settings give it unless the path is emptied. The clock, which only the latency depends on, stands still.

`RateLimit`. `start`/`count` are the bucket's row; `now[q]` is the request's
clock reading. Time is in ticks, `Second` ticks to the second, since
`time.time()` reads fractions and windows are whole seconds. `openings` and
`overtaken` are history.

`ApiAccess`. `keys` are the rows of `api_keys`; a raw key, its hash and its id
are one value (generation and SHA-256 are taken as collision-free);
`req[q].cached` is `request.state.authenticated_api_key`. `live[q]` and `gap[q]`
are history: what the table contained, or lacked, at some time since the request
began.

`AdminCli`. `cli[a]` is whether a command still waits for its answer (`httpx`
gives up after ten seconds; nothing is retried). What a command asks for is
chosen when the gateway handles it; one whose request is lost is never handled,
and one whose answer is lost has `TimeOut` before `Show`. A revocation
names a project and a key, in whatever combination the operator types (`Grant`).
`Told` is what the status code tells: 204 that the key is revoked, for every
project, 404 that the project named has no such key. `_handle_error` prints
"API key not found" then, although the key may be in force for another project,
and stays so: `Told` does not count it as gone there. `gone` and `barred` are
history.

## 3. The runs

"Pass" runs find no error; "violation" runs show, with a counterexample, a
statement of the docs that the code does not keep (section 5). Deadlock checking
is off where the environment is finite, so that the system really stops
(bounded restarts, calls or clock); `ResilientProvider` runs with it on.

| Run | Question | Bounds |
|---|---|---|
| `usage_live` | With a spool that works, and without one: reads are complete, receipts are on their way, and everything ends (`PendingIsOnItsWay`, `ReadSeesAccepted`, `ImplementsLedger`, `EveryReadReturns`, `EveryCallReturns`) | 2 records, 1 reader, queue of 1, 2 attempts, 1 restart |
| `usage_spoolfails` | violation of `EveryReadReturns` when a spool operation may fail | 2 records, no restart |
| `shared_spool` | What remains of it with two processes on one spool? `AcceptedIsKept`, `DeletedStaysDeleted`, `AcceptedIsSettled` | 1 record, queue of 1, 2 attempts, 3 restarts of either; 37,318 states |
| `usage_table` | Does whoever serves have the unique index, is the insert idempotent on it, and do inserts and start-ups end? `ReadyMeansComplete`, `OneRowForAll`, `EveryInsertEnds`, `EveryReplicaComesUp` | 2 replicas, 2 columns, 2 calls each, 2 crashes; no table, three older ones; both databases; about 26,000 states |
| `breaker` | `PermitsAddUp`, `NoIdlePermit`, `LineIsExact`, `OpenIffThresholdReached`, `CoolsDown`, `EveryCallEnds` | 4 calls, 2 permits, threshold 2, cooldown 2 |
| `breaker_cooldown` | violation of `OpenForTheCooldown` | 3 calls, threshold 1 |
| `ratelimit` | What do windows admit and refuse? `QuotaPerOpening`, `QuotaUnlessOvertaken`, `RefusedOnlyWhenSpent`, `RowMatchesAnswers`, `RetryAfterLeavesWindow` | 4 requests, 2 replicas a tick apart, limit 2, windows of 1 s = 2 ticks, clock to 4 |
| `ratelimit_replicas` | violation of `ReplicasShareOneAllowance` | limit 1 |
| `access` | Do admission, refusal and charging agree with the keys in force, and do operators learn the truth? `RevokedStaysOut`, `PrincipalWasInForce`, `RefusedOnlyWithoutKey`, `KeyBucketsAreTheirs`, `LetInIsCharged` | 3 commands, 2 projects (one exists), 2 keys, 1 request; models endpoint unlimited; symmetric commands and keys; 1,341,236 states |
| `request` | Do answer and record agree, is every call accounted for, who holds the permits, what opens the circuit, does every call end? `AnswerMatchesRecord`, `CallIsAccountedFor`, `PlacesAreCallers`, `OverloadOpensNothing`, `EveryCallIsHandedOn` | 2 chats, 1 response, 1 permit, threshold 2, cooldown 1, any one adapter; 627,143 states |
| `recording` | Does the recorder do for the handlers what they assume, if everything may fail? `AcceptedIsKept`, `OneCopyInMemory`, `JoinCountsWork`, `AttemptsAgree`, `AnswersAreOnDisk`, and each step one of `LlmRequest` on its ledger (`ImplementsRequests`) | 1 chat, 1 response, 1 reader, queue of 1, 2 attempts, 1 restart; the spool may fail; 1,259,723 states |
| `request_latency` | violation of `LatencyIsElapsedTime` | 1 chat, 1 response, clock to 3, without the gateway |

Why the bounds are enough to be interesting. With a queue of one,
two records suffice for one in the worker's hand and one queued, or for one queued
(the worker has not taken it yet, or is dead) while the other's request is blocked
on `put`; two attempts give a retry and a dead letter; one restart gives a
replay, next to a new record. (`max_attempts` is 3 in the code and never configured; the
module takes any number.) In `shared_spool` records do not influence one another
except through the queue, which `recording` and `usage_live` fill; one record and three
restarts let each process take over from the other while that one is still in a
retry. In `usage_table` two replicas meet at every statement, and the versions
differ in what is missing: everything, columns and indexes, the unique index
only, nothing. Four calls over two permits give two running and two in line, so
a permit can be granted while the next waiter gives up; in `request` three
requests over one permit give one upstream, one in line and one that comes when
the circuit has opened. The clock of `ratelimit` covers two windows and both
sides of their boundary, with the replicas on different sides. Three commands
suffice to create a key in the existing project, to revoke it, and to revoke it
again or create another one meanwhile, so that a key comes or goes during each
step of the request; who was told "gone" may have been told so by either
revocation. Project requests do not influence one another in `ApiAccess` (they
only read), so one is enough.

Every property of a passing run has a mutant of the code (an operator named
after the change and marked "mutant" in its module) that violates it.

### Fairness

Weak fairness, and only for what the runtime drives: ready coroutines are run
and thread-pool calls end (`Startup`, `WorkerStep`, `CallerStep`, `ListUsage`,
`StopCancel`, `Resume`); timers fire (`GiveUpWaiting`, `Tick`, `BackoffOver`); an
upstream call ends because the HTTP clients have a timeout
(`providers/ollama.py`, `providers/openai_compatible.py`; it is httpx's, per
operation, so that the whole call ends is an assumption); the database completes statements that
are not blocked; a supervisor starts an exited process again (`Exit` leads to
`Start`; docker-compose restarts the container), and `create_app` is called
again after it raised. In the gateway all that a request can do next, up to the
`put()` of its record, is one fair action (`Proceeds`): which of its ends comes
first is left open. That `put()` returns (`RecordReturns`) is not assumed there:
a failing spool operation ends the worker (`usage_spoolfails`), and once the
queue is full behind a dead worker, `put()` waits for ever and POST requests hang
like `GET /admin/usage` does. `EveryCallReturns` says that `put()` ends as long as
no spool operation fails (`SpoolMayFail = FALSE`), and `EveryCallIsHandedOn` that
upstream calls end, and their permits come back, even beside requests that hang.
The recorder's liveness properties assume a lifespan, which calls `start()`. No
request,
cancellation, crash, revocation, command or stop is ever assumed to happen.
Liveness is checked for finitely many requests: under an endless stream of
records `join()` may never see an empty queue, and the code promises nothing
else. `AcceptedIsSettled` and `EveryCallIsHandedOn` speak of all records or
requests at once; as each comes only once, that all end is that each does.

## 4. What is proved

Every theorem holds for all values of the constants that satisfy the assumption
named in its module (positive queue size, attempts, permits, threshold, limit
and window; finitely many calls or requests). Nothing else is assumed.

- `UsageServiceProofs`: `TypeCorrect`, `JoinIsExact` (`JoinCountsWork`),
  `NoAcceptedRecordIsLost` (`AcceptedIsKept`). `TypeInv` strengthens types and
  count with what the worker's place implies about its hand, with attempts that
  are left wherever a record is still to be inserted (without which incrementing
  them leaves the type), and with there being no worker before `start()`.
  `AcceptedIsKept` needs `KeptInv`: an item that is about to lose its receipt is
  in the log, and a request about to queue its record has a receipt or a row.
  `NoRecordIsCopied` (`OneCopyInMemory`), `AttemptsStayTogether`
  (`AttemptsAgree`) and `ImplementsTheLedger` (`ImplementsLedgerSafely`) rest on
  `MemoryInv`: each record is in one place of the memory, and only once its
  request is past the put; what is in memory has a pending receipt with its
  attempts, one behind while a failure is being marked; `start()` finds the
  memory empty and no request under way, so replay cannot meet a live copy. A
  worker therefore never holds the record of a dead letter, and no step leaves
  an end of the ledger (the safety half of what `usage_live` checks as
  `ImplementsLedger`). `NoReceiptIsForgotten` (`PendingIsOnItsWay`) carries the
  same statement through start-up (`FlowInv`), from which a drained queue means
  that all that was accepted is settled (`DrainedIsSettled`); a reader released
  by `task_done` or not made to wait then has everything it expected to see
  (`ReadInv`), which gives `ReadsAreComplete` (`ReadSeesAccepted`). A read before
  `start()` expects records without a pending receipt, which `KeptInv` has in the
  log or as dead letters.
  `AttemptsAddUp`: no step counts a failure twice, or takes a count or a dead
  letter back, because the worker's count is the stored one. `NobodyWaitsForNothing`
  is the safety half of `EveryReadReturns` and `EveryCallReturns`: whoever waits
  in `join()` waits for unfinished records (`JoinersHaveWork`), and then, as
  when the queue is full, the worker has its next step unless a spool operation
  failed, which is what `usage_spoolfails` shows.
- `SharedSpoolProofs`: `NoAcceptedRecordIsLost` for two processes. A step of one
  process keeps its own `TypeInv` and `KeptInv` by the lemmas of
  `UsageServiceProofs`, and never takes a receipt away without a row in the log
  (`KeepsRows`), which is all the other process's `KeptInv` depends on.
  `NoReceiptComesBack` (`DeletedStaysDeleted`): one process at most handles a
  record's request, and until that request has persisted it neither process
  has it in memory nor is it in the log (`OwnInv`).
- `UsageTableProofs`: of `UsageLogInsert` alone `TypeCorrect`, and
  `InsertIsIdempotent`, the refinement `Spec => Promise!Spec`. The invariant (`UncommittedIsAlone`, `FindingsStay`)
  says that a single uncommitted row beside no committed one makes `Commit` a
  first write, and that what a call has found stays the row.
  Of `UsageTable`: `ServesOnCompleteTable` (`ReadyMeansComplete`) and
  `InsertIsIdempotentOnAnyTable` (`OneRowForAll`). The invariant says what each
  stage of `initialize()` has behind it, in the schema or in the replica's own
  transaction; it makes every step of the composition a step of
  `UsageLogInsert`, whose unchecked insert (no unique index) is unreachable.
  `NobodyWaitsInACircle`: among any replicas that wait for names, table locks or
  rows, one waits for none of the others. `LockInv` says what each transaction
  has created by its stage and that `ALTER TABLE` excludes every other user;
  each wait then goes to a higher `Rank`, from the transaction that wants the
  table to the one that only commits. `SomebodyAlwaysGoesOn` adds that these
  waits are the guards of the actions (`GuardsAreTheWaits`): while a replica
  starts up or is in a call, the statement of one of them can be completed.
  `EveryInsertEnds` and `EveryReplicaComesUp` rest on it.
- `ResilientProviderProofs`: `TypeCorrect`, `PermitsAlwaysAddUp`,
  `BreakerFollowsCount`, `NoPermitIsIdle`, `LineHoldsWhoWaits`. Lemmas count the calls that hold a permit over one
  update of `call`; the invariant adds that the line contains exactly the calls
  that wait or were granted, so that a call that gives up has a place to leave.
  `LineInv` adds that nobody is in line twice and nobody else is in it; leaving
  the line keeps that (`LineWithoutOne`), and whoever leaves wakes the next one or
  finds nobody waiting, so `NoIdlePermit` is kept. The line's length is the
  number of those in it because the line is a bijection onto them.
- `LlmGatewayProofs`: `GatewayImplementsRequests` (`GatewaySpec => Spec` of
  `LlmRequest`), with `AnswersMatchRecords` and `CallsAreAccountedFor` proved
  of `LlmRequest` and carried over by it; `OnlyCallersHoldPlaces` and
  `OnlyCallsOpenTheCircuit`. The request invariant ties each place of a
  handler to the outcome and to the record's fate it may have; `PlacesAreCallers`
  needs that handing a permit on gives nobody a place who had none.
  `AdapterKeepsPromises`: `PermitsAddUp`, `NoIdlePermit`, `LineIsExact` and
  `OpenIffThresholdReached` hold of the adapter behind the requests as well. Each
  step of the gateway is one of the adapter, leaves it alone or starts it anew
  (`StepIsOfAdapter`), so the lemmas of `ResilientProviderProofs` apply.
- `RequestRecordingProofs`: `RecorderServesRequests` (`ImplementsRequests`). A
  handler records exactly while its call of the recorder is open, at the same
  await, and one who answers 200 or 502 has seen it return (`CoupledInv`); a record
  about to be queued is written and not settled (`QueuedIsWritten`). With the lemmas of
  `UsageServiceProofs` about what a step does to a record's fate (`Settles`,
  `WorkSettlesOne`, `HousekeepingIsStill`) each step of the process is one of
  `LlmRequest` or a stutter. `AnswersStayOnDisk` (`AnswersAreOnDisk`) follows from
  the same coupling and `AcceptedIsKept`.
- `RateLimitProofs`: `TypeCorrect` and the five properties of the run. The
  argument is arithmetic on one row: what was admitted, charged and refused in a
  window stays within `Limit` per opening, minus what the row still has left
  (`QuotaLeft`); nothing happened in a window never opened (`UnopenedIsEmpty`);
  a refusal has a full opening before it (`RefusedWhenSpent`, from
  `SpentAsCounted`); windows open in order unless overtaken (`OpenedInOrder`); a
  window opened once is counted exactly (`CountIsExact`). `WaitingIsEnough` is
  division by the ticks of a window. `TwoAllowancesAtMostPass`: unless requests
  overtake each other, a stretch of time as long as a window meets two windows,
  wherever it begins, and admits at most twice the limit; this is what is left
  of the docs' sliding window (section 5).
- `AdminCliProofs`: `TypeCorrect` and the five properties of `access`. What a
  request carries comes from rows that were in force since it began (`Sound`, one
  request at a time: history, rows, bucket, code, each with the place the request
  is at); a key has one row, ever (`OneRowPerKey`), so that deleting the row of a
  key and project takes the key away for every project (`Away`); what is reported
  as gone, or is about to be by an open command, is gone for good (`GoneIsGone`,
  `ReportIsTrue`), as no key is issued twice. An admin request leaves the keys alone, adds a row or
  takes some away; the lemmas about requests depend on nothing else of it.

Only model-checked, as liveness under fairness is beyond TLAPS: the liveness half
of the ledger's refinement (`ImplementsLedger`), `EveryReadReturns`,
`EveryCallReturns`, `AcceptedIsSettled`, `EveryInsertEnds`, `EveryReplicaComesUp`,
`CoolsDown`, `EveryCallEnds` and `EveryCallIsHandedOn`. Every safety property of a
passing run is proved. That whatever was answered 200 or 502 is settled in the end
is not a run of its own: `AnswerMatchesRecord` says such a record was accepted, and
the ledger's liveness that accepted records end in the log or as dead letters.

## 5. Where code and documentation disagree

1. **A failing spool operation stops recording for good** (`usage_spoolfails`).
   `_run_worker` catches exceptions of `self.record` only; one from
   `_mark_spool_attempt` or `_delete_spooled` ends the task. `flush()` then
   waits forever, and so does `GET /admin/usage`; once the queue is full, so does
   every POST request that has been recorded, in `put()`. In `stop()` the dead worker's
   exception is raised again, which skips `providers.aclose()` and
   `store.close()` (`app.py:67-70`).
2. **The cooldown may be cut short** (`breaker_cooldown`): a late success closes
   a circuit that opened meanwhile.
3. **Replicas can exceed the allowance** (`ratelimit_replicas`): a request of an
   older window sets the row back and opens that window again. Requests of one
   replica can overtake each other in the thread pool as well.
4. **Latency of failed calls** (`request_latency`): read before the timer ends,
   it is minus the start's clock reading, in milliseconds; on PostgreSQL's
   INTEGER it overflows after about 24.8 days of uptime, and the record becomes
   a dead letter.

Smaller ones, met while reading and not turned into runs: calls queued when the
circuit opens are still sent (`resilient.py:48` is not repeated after the wait);
`src/docs/API.md:292` and the middleware's docstring say sliding window, the
code counts fixed ones, so twice the limit may pass around a boundary, and no
more (`TwoAllowancesAtMostPass`); a limit of 0 also switches the size check off
(`api/middleware.py:131`); the headers promised for every response are missing
on 400, 413 and 503. "exhausted records remain as explicit dead letters"
(`src/docs/ARCHITECTURE.md:94-95`) does not hold for two processes on one spool:
the one that still holds an older copy marks the dead letter pending again.
`SharedSpool` states what does hold, that every accepted record is settled for
good in the end (`AcceptedIsSettled`). "Admin usage reads flush the queue first, so
monitoring sees recent records" (`src/docs/ARCHITECTURE.md:90-91`) does not hold for a process that serves without
`start()` (`services/usage.py:56`): accepted records whose receipts an earlier
process left pending are missing from its reads, until some process starts and
replays them; with them in `Awaited`, TLC violates `ReadSeesAccepted` by a crash
after the receipt, followed by a read in the next process. `DELETE
/admin/projects/{project_id}/api-keys/{key_id}` under another project than the
key's is answered 404 "API key not found", which `llmcc key revoke` prints,
while the key stays in force for its own project: an operator who mistypes the
project must not take it for a revoked key.

## 6. What is not modelled

- Model routing and `GET /v1/models`: look-ups in a table read at start-up;
  their failures are inputs of `LlmRequest`.
- Request context, security headers and the docs token check, the correlation
  ids, logging and settings: they keep no state, and no property here is about
  what they format. The address behind a proxy (`X-Forwarded-For`) is one
  constant of `ApiAccess`.
- Schemas: only what decides whether a result can be answered
  (`ProviderAdapters`).
- Payloads sent upstream: the adapters are modelled from the reply on.
- Listing and filtering endpoints and commands, `health`: they only read.
- The other tables of the schema: created by the same `create_all` as
  `usage_logs`, and never migrated. The engine's connection pool is SQLAlchemy's.

## 7. Plan

Done, in this order: `UsageService` with `ActivityLedger`, `ResilientProvider`,
`RateLimit`, `LlmRequest`, `UsageLogInsert` with `UsageLogRow`, `ApiAccess`;
then the compositions `SharedSpool`, `UsageTable`, `LlmGateway` with
`ProviderAdapters`, `AdminCli`, and `RequestRecording`; proofs as listed in section 4.

What is left of the code is in section 6: it keeps no state of its own, or only
reads. A change to the recorder, to the limiter or to the start-up of a replica
starts with the action that models it: the map of the project names the lines
of each.

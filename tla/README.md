# Verification of the ContextLattice orchestrator

TLA+ models, TLC model checking and TLAPS proofs for the parts of ContextLattice
whose correctness depends on concurrency, faults and order: the agent task queue, the
memory-write path, the durable fanout outbox and its sinks, the memory-bank client,
retrieval with its caches, the topic tree, and the pruning and retention runners.
`app.py` below is `services/orchestrator/app.py`; line numbers refer to it unless
another file is named. `PROJECT.json` lists components, runs, mutants, the map from definitions to
source lines, findings, hazards and theorems.

## 1. The system

ContextLattice is one asyncio process (the orchestrator) in front of several stores.

| Part | State | Operations | Where |
|---|---|---|---|
| Agent task queue | SQLite table `tasks`; in-process workers; leases | create, claim, update, approve, replay, retry, lease recovery, scheduler tick | 6661-6713, 9425-10372, 13850-13940 |
| External task worker | the task it holds | poll, execute, report, report a failure after an unanswered success | `scripts/task_agent_worker.py` |
| Memory-write ingress | duplicate window, latest hashes, rollup buffer, `memory_bank_queue`, waiters | `POST /memory/write`, bank workers, rollup flush | 1953-2040, 6845-7102, 13996-14335 |
| Fanout outbox | SQLite table `fanout_outbox` (or its Mongo twin) | enqueue, coalesce, requeue, claim, push, mark, recover, collect, prune | 2246-2581, 7365-8413 |
| Letta kill switch | `letta_runtime_enabled`, transient error streak | trip, fail the backlog, drop chunks | 2291-2345, 2931-2980, 8032-8051 |
| Outbox backends | rows in Mongo and in SQLite, the active backend | Mongo enqueue as document operations, row-by-row claim, demotion, promotion | 7239-7954, 8416-8569 |
| Raw store | Mongo collection of raw events | upsert, retry through the outbox, backfill | 7132-7236, 17505-17669 |
| Letta backlog | cached outbox summary | admission of low-value writes, automatic pruning | 2097-2243, 8178-8269, 8661-8727, 9064-9171 |
| Letta agent | agent id per session, time of its verification | resolve, create, repair, push, second push | 13376-13572 |
| MindsDB sync | current table, table lock | check, move to a fallback table, insert | 1704-1775, 13575-13716 |
| Retention | Qdrant, Mongo, Letta | scan a window, delete what is due | 8751-9061 |
| Topic tree and rollups | tree, write history, rollup index, two files | count, rebuild, backfill and hold, restart | 5770-6636 |
| Memory-bank client | shared MCP session id and its lock | tool calls, session renewal, reposts | 10588-10695 |
| File reads | read cache, refreshes under way | read, serve stale, refresh, placeholder | 11602-11872 |
| Letta search cache | rows, marks of background fetches | search, warm | 3066-3255, 12586-12666 |
| Federated retrieval | pathway cache and its Redis copy, slow-source counters, warmer | search, escalate, expand, merge, store | 3286-3965, 12163-13332, 16112-16241 |
| Services | Qdrant, MindsDB, Langfuse, Letta, Redis, the memory bank | answer, fail, hang, restart | external |
| Telemetry, feedback, dashboard, scripts | see `PROJECT.json` | | not modelled |

How they interact: a request is checked against the duplicate window, its raw event
goes to Mongo, the write goes to `memory_bank_queue` (or, for a high-frequency
"hot" file, to the rollup buffer); a bank worker stores it and enqueues one outbox
row per sink; fanout workers claim batches of rows and push them. Task workers claim
tasks under a lease and report one outcome.

What makes it hard:

* handlers of the task queue read a row, then open a transaction and write back
  values of the row they read, so every pair of them can interleave;
* leases expire while their holder still works, and late reports arrive after the
  task has been handed to someone else; answers to reports get lost;
* several bank workers finish in any order, while the coalescer keeps whatever was
  enqueued last;
* a sink may have taken what it reports as an error; marks may raise; a row may be
  deleted, inserted again, or requeued while a worker holds a copy of it;
* the process stops between any two steps, and all queues, windows and switches but
  the SQLite and Mongo tables are in memory;
* queues are bounded and refuse work after part of a request has already been done;
* caches sit on top of caches, answers come back in another order than the requests
  left, and a request that timed out may still be executed;
* one session id, one agent id and one table name are shared by all callers, each of
  which may find it broken and replace it.

## 2. Modules

| Module | Models |
|---|---|
| `TaskQueue` | the task table, internal and external workers, operators, scheduler, restarts |
| `TaskQueueProofs` | the inductive invariant of `TaskQueue` and the theorems |
| `FanoutOutbox` | the outbox on SQLite, its workers, the kill switch, raw events, backfill, deletion, crashes |
| `FanoutOutboxProofs` | types of `FanoutOutbox`, what each of its steps does to rows and workers, raw durability |
| `FanoutClaimProofs` | claims, attempts and finality of delivery |
| `MemoryWrite` | one write request from the duplicate checks to its answer, the bank queue and workers, rollups |
| `MemoryWriteProofs` | the inductive invariant of `MemoryWrite`, the theorems, and that it implements `WriteContract` |
| `WriteContract` | what `POST /memory/write` promises about raw copies: the abstract specification |
| `OutboxBackend` | the Mongo outbox, and the switch between Mongo and SQLite |
| `LettaBacklog` | the cached summary, admission by it, automatic pruning |
| `LettaAgent` | resolving, creating and repairing the agent of a session, pushing to it |
| `MindsdbSync` | the MindsDB tables, their fallbacks, and the pushes into them |
| `Retention` | retention runs over the three sinks |
| `Topics` | the topic tree, the write history, the rollups and their files |
| `McpSession` | the memory-bank client and its shared session |
| `ReadCache` | reads of memory-bank files with the fail-open cache |
| `BankProofs` | theorems about `McpSession` and `ReadCache` |
| `LettaSearch` | the Letta search cache and its background fetches |
| `Retrieval` | federated search, the pathway cache, the warmer |
| `RetrievalProofs` | the inductive invariant of `Retrieval` and the theorems |
| `SinkProofs` | theorems about `LettaBacklog`, `LettaAgent`, `Retention` and `MindsdbSync` |
| `SharedProofs` | theorems about `OutboxBackend` and `LettaSearch` |
| `MC...` | TLC instances; `MCWrites`, `MCShared`, `MCSinks` and `MCReads` hold several instances each |

In those four modules a constant variable `scope`, chosen in the initial state, says
which instance moves; the others stay in their initial state. A property is the
component's own where the module extends the component, and holds of the initial state in
the other scopes; one re-exported from an `INSTANCE` speaks of its scope only. Components
that one such module extends have constants, variables and specifications of their own
names (`CacheSpec`, `SearchSpec`, `LettaSpec` and so on). One
weak-fairness condition may stand for one of each scope because `scope` never changes.

### TaskQueue

`task[t]` is the row; statuses are the source's strings. `update_task_status`,
`approve_task_record`, `replay_task_record` and `requeue_task_for_retry` each are a
read (`operator_request` or `Report`, which stores the row in `call[c]`) and a
write (`Commit`, computed by `WrittenRow` from the stored copy and the current row).
Claims, lease recovery and creation are single transactions in the code and single
actions here. Time is two facts: `due` (run_after reached) and `elapsed[t]`, the last
claim of `t` whose deadline has passed; `epoch[t]` counts claims and serves as the
deadline of the latest one. `interfered[t]` and `handed[t]` are ghosts: a row was
written by someone other than the holder of its current claim; how often the task
has been handed out since the last resetting replay.

`report_unanswered` and `commit_unanswered` are the two ways an external worker's
success report can get no answer (before and after its commit); it then reports
"failed" (`task_agent_worker.py` 209-235). Not modelled: a success report that
commits only after the failure report that followed it. At a restart an external
worker's report in flight is dropped and the worker polls again.

### FanoutOutbox

Rows are indexed by their unique `dedupe_key`, an event and a target; `gen` stands for
the AUTOINCREMENT id, so that a mark by id misses a row that was deleted and inserted
again. A claimed job is a copy of its row. `push_batch` chooses what the sink received
and what it reported separately. Ages are not modelled: wherever the code compares a
timestamp with the clock, the choice is open. `owed[t][f]` is a ghost, the newest
event enqueued for a sink and file that has not been pushed since. The write side
(`write_memory`, `enqueue_memory_write_fanout`, `seed_mongo_retry`) is the part of the
ingress that touches the outbox; `MemoryWrite` has the rest of it.

### MemoryWrite

What a handler does between two awaits is one action. The duplicate-window,
latest-hash and rollup locks are never held across an await, and `put()` on a queue
that is not full does not suspend; so the two checks are one step, and so is a flush.
`reject` is a 400 or 422, `queue_full` the 503, `failed` a 500 or 502, `cut` a request
that a crash ended. A content stands for its hash, a rollup document for the hash it
carries. A shutdown is a flush followed by `crash`: nothing drains the queue in
between. Duplicate checks are enabled, as they are by default.

`WriteContract` is what a client may rely on: a request is answered at most once, a
granting answer ("ok", "unchanged") needs a raw copy, and a copy is never given up. The
mapping is `answer[r]` = the request's program counter once it is an answer, and
`safe` = the events in Mongo or in a seeded outbox row (`Contract` in `MemoryWrite`).

### OutboxBackend

The Mongo enqueue finds a waiting row, updates it, or inserts one; each is an action and
claims, deletions and other enqueues happen in between. A batch is claimed row by row.
An operation of Mongo that raises demotes the outbox to SQLite, a disk I/O error of
SQLite promotes it to Mongo; rows and the ids that workers hold stay behind. A requeue is
an `update_one` by the id of a row found earlier; if that has been deleted since, nothing
is written and the call is answered all the same.

### LettaBacklog, LettaAgent, MindsdbSync, Retention

In `LettaBacklog` a row holds a write of low or high value, and a later write to its file
replaces what it holds while it waits. Admission and pruning go by the count in the cached
summary, whose refresh, timeout and age are modelled. A prune selects rows, outside a
transaction, and then deletes them by id; `raced` is a ghost, the selected rows that a
high-value write has joined since. The pruning thread goes on after its run timed out
(`leftover`). `LettaAgent` has one program counter per caller, through the locked
resolution (cached, verified, looked up, created, lost answers) and up to two posts. The
server's agents may drift, be deleted or be created by others, and it may come to a create
request after its caller has given up (`create_times_out`, `CreatedLate`). In
`MindsdbSync` table 0 is the primary table; an insert may have been applied although its
answer is an error, and a caller starts its search for a fallback from the table that
failed it, which others may have left long ago.
In `Retention` a sink is a sequence of rows in the order in which it lists them; a run
scans a window of it and deletes what it chose there. A Letta passage may have no date.

### Topics

A locked section is one action, since the locks never span an await. Files are rewritten
in threads: two threads that share a file may leave a mixture that does not parse, and
so may a stop. The tree and its copy for the file are taken in one step.

### McpSession, ReadCache

A posted request stays on the wire until the bank handles it, perhaps after its caller
has given up; the bank forgets its sessions at a restart. `attempt` and `tries` are the
loops of `_call_mcp` and `_post_mcp_request`. In `ReadCache` contents are numbered in
the order the bank stored them, and the ghost `until` remembers when each was replaced.
The key of an entry folds case and trims (`_memory_read_cache_key`), so files of the bank
may share one: `KeyOf` is a constant, and an entry remembers which file it was read from.

### LettaSearch, Retrieval

Rows of `LettaSearch` are the time at which Letta computed them. In `Retrieval` a
coroutine that runs is not interrupted before it waits for a service or Redis; a bundle
is the set of documents and the sources that failed, were skipped, raised, or answered in
part without saying so. A source answers with what it held at most `Lag` ticks ago, since
some have caches or indexes of their own; it may leave out documents silently
(`source_partial`: files that cannot be read, failures turned into an empty list, a
substitute vector), raise, or hang.
Scores are strong or weak, and query variants are a constant.

## 3. What TLC checks

| Run | Instance | Shows |
|---|---|---|
| `task_operators` | 1 task that needs approval, 1 internal and 1 external worker, 1 operator with any 2 requests | approval gate, attempt bound, lease exclusion, leases of running tasks, finality, against stale reads |
| `task_workers` | 2 tasks of 2 priorities and agents, 1 database error | `HandedOutWithinLimit` |
| `task_progress` | 2 tasks, recovery limit 1, 1 restart | `TaskSettles` |
| `task_deadletter` | 1 task, 1 attempt | violated: see findings |
| `outbox_crash` | 1 job, 1 crash | violated: see findings |
| `outbox_reorder` | 2 bank workers | violated: see findings |
| `memory_retry` | 3 asynchronous requests, queue of 1 | violated: see findings |
| `outbox` | 2 writes whose raw events Mongo may refuse, 2 workers, 1 backfill, 1 failing mark | `RawDurable` |
| `writes` | see below | stored before "ok", rollup freshness, every request answered, the write contract; topic counts, the forest of rollups, rollups catch up |
| `shared` | see below | safety of state that coroutines share |
| `sinks` | see below | the outbox loses nothing silently, claims exclude each other, attempts are bounded, delivery is final; rows on their way into the sinks settle, only due rows go |
| `reads` | see below | sessions, stale reads and searches; every call, refresh and search ends |

The scopes of the last four:

| Run | Scope | Instance | Properties |
|---|---|---|---|
| `writes` | memory | 2 synchronous requests, a plain and a hot file, queue of 1, 1 crash | `OkIsStored`, `RollupFresh`, `RequestsAnswered`, `KeepsContract` |
| | topics | 2 writers, 2 writes two topics deep, a history of 1 row, 1 backfill or restart | `CountsNeverInflated`, `RollupsNest` |
| | rollups | the same with 1 writer and fair rebuilds | the same, and `RollupsCatchUp` |
| `shared` | backend | 2 enqueue calls at a time, 1 worker, 2 or 3 calls in all and 2 or 3 faults but not 3 of both (`OneThird`), Mongo with SQLite behind it | `AnsweredIsRecorded`, `SucceededWasPushed` |
| | cache | deep searches, a client and the warmer, a source that lags 1 tick, 6 ticks, 1 restart, a document indexed before the first tick | `FreshOrExplained` |
| | search | 2 queries, 2 searchers, at most 1 background fetch, 5 ticks | `LettaRowsAge`, `WarmsBounded` |
| | agent | 2 callers, 2 drifts, 2 faults (a late creation among them), 1 agent made by others | `OneAgent`, `SecondPostRepaired` |
| `sinks` | letta | 2 low-value writes of a file, 2 workers for Letta, 1 crash, 1 deletion | `NoSilentLoss`, `ClaimExclusive`, `AttemptsBounded`, `SucceededIsFinal` |
| | sinks | MindsDB and Qdrant, a shared and a dedicated worker | the same |
| | restart | MindsDB, 2 workers, 1 crash, 1 deletion | the same |
| | settle | a worker for Letta and one for MindsDB, chunks of 1, no fault but the sinks' | the same, and `RowsSettle` (`JobsSettle` of these two sinks) |
| | backlog | 3 rows, soft limit and trigger 2, 1 row a prune, 3 writes, 1 claim, 1 fault | `HighValueKept`, `BacklogPruned` |
| | minds | 3 pushes, 2 fallback tables, 4 faults | `RowsVisible`, `PushesSettle` (`MindsSettles` in its scope) |
| | retention | 3 positions a sink, window of 2, 3 inserts, any one sink down | `OnlyDueDeleted`, `DueRowsGo` |
| `reads` | session | 2 calls, 2 tries each, 2 restarts of the bank | `SessionFailureNeedsRestart`, `ExecutedAtLeastOnce`, `CallsEnd` |
| | files | 2 files with one cache key, 2 readers, 2 writes, 3 reads, 3 ticks | `ServedAge`, `RefreshesEnd` |
| | pipeline | fast and balanced searches with 2 variants, with and without a list of sources, 1 tick, which ends every TTL and cooldown | `ErrorsAreWarned`, `SearchesEnd` |

Some properties name exceptions, which are what the code does:
`AnsweredIsRecorded`, an `insert_one` that failed for another reason than a duplicate, and
a requeue of a row that has vanished; `HighValueKept`, a write that joins a row between a
prune's selection and its deletion; `OneAgent`, agents made by other processes or of
requests whose caller had given up; `OnlyDueDeleted`, a raw document that was written again
between the scan and the deletion, and a Letta passage without a date; `ServedAge`, the
placeholder; `FreshOrExplained`, a source that answered in part without saying so or that
the slow-source policy skipped; `LettaRowsAge` and `WarmsBounded`, a background fetch that
outlived its mark; `LeaseExclusive`, `RunningIsLeased` and `TerminalIsFinal`, a write to the
row by anybody but the holder of its latest claim. `TerminalIsFinal` is about leaving the
terminal statuses: a success report without an answer, followed by a failure report, turns
"succeeded" into "failed". `ErrorsAreWarned` is about the warnings, which name every source
that raised in any hop; `source_errors`, and with it the degraded flag, has the last hop's
only. `DueRowsGo` needs fewer retained rows than the scan window.

In `task_operators` the status updates an operator may ask for leave out "succeeded"
and "failed": "canceled" stands for the terminal statuses, which `update_task_status`
treats alike; workers report the other two. There and in `task_progress` every task needs
approval (`GatedNext`): `needs_approval` is read only together with `approved`, so that a task
that needs none behaves as one submitted with its approval. `task_workers` has tasks of
both kinds.

Bounds. Two attempts tell first, last and exhausted apart. Two writes of one file are
what coalescing and duplicate checks need, and two workers what a race needs; a batch
of two with chunks of one or two covers a batch that ends inside a chunk. A queue of
one is full after one item. For `FanoutOutbox`, `MemoryWrite` and `Topics` one fault of a
kind, placed anywhere, covers every place a single fault can hit; the session, backend,
agent and MindsDB scopes take two or more. Clocks are long enough for an entry
to be stored, to expire and to be stored again. `CHECK_DEADLOCK` is off because the
bounded instances end: their writes,
tasks, calls and ticks are used up.

Symmetry is used only in runs without temporal formulas beyond `[][A]_vars`, over tasks,
events, workers and enqueue calls that the instance treats alike. Runs with liveness
formulas fix the order of what is interchangeable instead: which of two writes (`InOrder`,
also in `outbox`), contents, idle writers, pushes, calls or idle readers comes first, and
the number of the only refresh of a file. These constraints rename and forbid nothing
else. `IndexedEarly` leaves out searches that cannot miss anything: in six ticks
`FreshOrExplained` asks only for a document that was there before the first. The outbox scopes of
`sinks` share the constants the properties speak of: rows of a sink that nobody serves
wait, and `NotAdmitted` and `budget` take Letta and the faults out of a scope.

Where everything a scope does is bounded, one weak-fairness condition for all of it stands
for one per worker or handler: it assumes less, and each still gets its turn because the
others run out of steps. In `writes` the rebuilds never end and have a condition of their
own; only the `rollups` scope needs them fair.

Fairness. `TaskQueue`: the scheduler and the in-process workers keep running on the
event loop, task actions have client timeouts, time passes; nothing is assumed of
external workers. `FanoutOutbox`: workers poll every `FANOUT_POLL_SECS` even when no
signal arrives, sink calls have timeouts, a stopped container is started again.
`MemoryWrite`: Mongo, SQLite and memory-bank calls have timeouts, so a handler or
worker that can step does. `Topics`: tasks and threads end, the rollup worker wakes
again, time passes. `LettaBacklog`, `Retention`: the workers wake again and a summary
refresh ends (it is under a timeout); Letta need not take anything and one sink may be
down for good.
`MindsdbSync`: calls of MindsDB have timeouts. `McpSession`, `ReadCache`, `Retrieval`:
the event loop runs every coroutine that can go on, timers of `wait_for` and of the HTTP
client fire and time passes; no service needs to answer.

Every property of a passing run comes with a mutant of a mapped definition (the
operators named `..._running`, `..._lost` and so on, just before the definition they
change) under which TLC finds the property violated.

### Findings

* `task_deadletter`: lease recovery requeues a task whose last attempt timed out; no
  claim picks it and it never becomes a dead letter, though `max_attempts` is
  described as "Max worker attempts before deadletter" (10394).
* `outbox_crash`: recovery runs once, at start, and only for rows older than
  `FANOUT_RUNNING_STALE_SECS`; a row claimed just before a quick restart stays running.
* `outbox_reorder`: two bank workers finish two writes of a file in reverse order, and
  the coalescer puts the older payload over the newer one.
* `memory_retry`: a write refused with 503 is already in the duplicate window; its
  retry is acknowledged and dropped.

Seen with other bounds, and the reason for some restrictions of the passing runs: a
replay that keeps the attempts can undo a claim's increment, so
`HandedOutWithinLimit` needs resetting replays; a backfill enqueues newest first, so
coalescing leaves the oldest version; a mark that raises re-marks a whole chunk, so with two workers
`NoSilentLoss` and `SucceededIsFinal` do not survive it; a forced requeue of a running
row lets two workers hold it, so `ClaimExclusive` and `AttemptsBounded` are checked
without forced requeues; a client's write that arrives between a read that finds a file
missing and the write of its placeholder is overwritten; a rebuild of the rollups may
replace a backfilled index before the hold begins.

## 4. What TLAPS proves

`TaskQueueProofs`, for every value of the constants that satisfies
`TaskQueueAssumption` (sets of names are disjoint, numbers are naturals,
`DefaultMaxAttempts` is positive):

| Theorem | States |
|---|---|
| `TypeCorrect` | `Spec => []TypeOK` |
| `ApprovalGate` | `Spec => []ApprovedBeforeRun` |
| `AttemptBound` | `Spec => []AttemptsBounded` |
| `LeaseExclusion` | `Spec => []LeaseExclusive` |
| `RunningLease` | `Spec => []RunningIsLeased` |
| `TerminalFinality` | `Spec => TerminalIsFinal` |
| `HandedOut` | `HandedOutWithinLimit`, if every replay an operator makes resets the attempts |

The argument. `IInv` is the conjunction of `TypeOK`, `ApprovedBeforeRun` and

* `Known`: the tasks that workers and handlers in progress name exist;
* `Attempts`: not only rows but the copies held by handlers stay within
  `max_attempts`, which is what makes a stale replay harmless to the bound;
* `Reports`: what a worker is reporting is about the task it holds;
* `Claims`: a worker's claim is not newer than the task's latest, deadlines that have
  passed were given out, and so on;
* `Leases`: until a foreign write, a worker whose lease has not expired holds the latest
  claim, and the row is `Unclaimable` (running, or terminal after an unanswered report).

The safety properties are not inductive by themselves: `LeaseExclusive` says nothing of
why a second claim cannot happen (`Leases` does), `AttemptsBounded` nothing of the
copies that will be written back (`Attempts` does). There is one lemma per action,
`NextIInv` joins them, and the theorems follow. `TerminalFinality` adds
`KeepsTerminal`, a lemma on single steps; `HandedOut` adds its own invariant `HInv`.

`MemoryWriteProofs`, for every value of the constants that satisfies
`MemoryWriteAssumption` (a finite, nonempty set of files, a queue of at least one
item, `NoContent` is no content):

| Theorem | States |
|---|---|
| `TypeCorrect` | `Spec => []TypeOK`, with the bound of `memory_bank_queue` |
| `AnsweredRaw` | `Spec => []AnsweredIsRaw` |
| `OkStored` | `Spec => []OkIsStored` |
| `RollupsFresh` | `Spec => []RollupFresh` |

`AnsweredIsRaw` needs `RawSafe`: a request that remembers `persisted` is in Mongo, and
one that waits for the memory bank has been secured before (the handler seeds before
it awaits). `OkIsStored` needs `StoredSafe`: a waiter that holds a result, and an item
whose tool call returned, belong to stored requests. `RollupFresh` is inductive given
the types; the work is in the positions of the queue: what a flush appends comes behind
every older rollup of the file (`FreshFlush`), and what a worker takes is the newest one
only when no other is queued (`FreshGet`).

The same module, under the same assumptions:

| Theorem | States |
|---|---|
| `ImplementsContract` | `Spec => KeepsContract`: `MemoryWrite` implements `WriteContract` |

Initial states map to initial states (`ContractInit`). A step of one request answers it,
secures it, both or neither (`ContractStep`), a crash is `Die`, everything else stutters.
That a granting answer comes with a copy is `RawSafe`, so the step lemma is used
together with the inductive invariant. The contract contains
`AnsweredIsRaw`, which is therefore proved, and checked as part of `KeepsContract`.

`BankProofs`, for any finite set of calls, at least one try and any number of restarts
(`McpSession`), and for any readers, files, cache size, number of refreshes at a time and
time limits (`ReadCacheAssumption`: times and the number of writes are naturals):

| Theorem | States |
|---|---|
| `SessionTypes` | `Spec => []TypeOK`: both loops stay within their bounds |
| `RefreshSuffices` | `Spec => []SessionFailureNeedsRestart` |
| `ExecutionsBounded` | `Spec => []ExecutedAtLeastOnce` |
| `ServedAgeBounded` | `CacheSpec => []ServedAge` |

For the session the inductive invariant adds to the types: `TriesLeft`, a call about to
post has a try left; `SecondKnown`, a second attempt posts with an id that the bank gave out during
the call, so that only a restart can make it unknown; `Numbered` and `Listening`, posts
of a call have distinct numbers, are on the wire or executed once, and the one being
waited for carries the call's own id; `Spared`, a call in its second attempt has a post
that is never executed, the refused one, which is why the bound is one less than twice
the tries. The shared id itself is not constrained: late answers and invalidations may
put anything there.

For the cache `CInv` follows a content from the bank to the reader. `BankHolds`: what the
bank has now has not been replaced. `ReadHolds` and `TaskHolds`: what a read or refresh
got, the bank had when it was asked or later, none has outlived its time limit, and what was
served is of a file with the key that was asked for.
`EntryHolds`: what an entry has left the bank at most one read or refresh before the entry
was made. The last one is the point: an entry is dated when it is stored, not when the
bank was asked, so a slow read may store an older content over a newer one with a fresh
date, and the bound has to carry that delay besides the stale limit.

`FanoutOutboxProofs` and `FanoutClaimProofs`, for any events, files, sinks, workers and
settings that satisfy `FanoutAssumption` (names in their sets, sizes positive):

| Theorem | States | If |
|---|---|---|
| `TypeCorrect` | `[](TypeOK /\ Carried)`: a row that exists carries an event | |
| `RawDurability` | `[]RawDurable` | no crashes and deletions, `mongo_raw` is not coalesced |
| `ExclusiveClaims` | `[]ClaimExclusive` | `[]Unforced` |
| `BoundedAttempts` | `[]AttemptsBounded` | `[]Unforced` |
| `DeliveredOnce` | `SucceededIsFinal` | `[]Unforced` |

The conditions exclude what the properties do not survive (see Findings); a crash loses a
raw event that is still to be seeded. `Unforced`: no forced requeue (a raw event being
seeded, a forced backfill) is under way and no mark has failed so far. The
conditions are about states, so the theorems also hold of the part of a behaviour that
precedes the first such event.

A job in a worker's hands is a copy, and what the properties need is how copies and rows
relate. For raw durability `RawRows`: a row or job of `mongo_raw` carries its own event,
and a job about to be marked as delivered is in Mongo. For the claims `ClaimInv`:
`Held`, while a job is in flight its row, unless deleted, is running or failed with the
payload and attempts of the copy, so that `mark_fanout_retry`, which decides by the copy,
decides by the row; `Alone`, no other job stems from the same row; `Tried`, a row that
will be claimed again has an attempt left, one of `FANOUT_MAX_ATTEMPTS` or one that a
crash has granted. `gen` keeps a late mark off a re-inserted row.
Every action first gets a lemma that says what it does to rows and hands (`RowStep`,
`OwedStep`, `Claims`, `Pushes`, `Drops`), and the invariants are proved from those.

`SinkProofs`, for any number of callers, pushes, tables, positions and faults:

| Theorem | States | If |
|---|---|---|
| `HighValueLostOnlyInRace` | `BacklogFairSpec => HighValueKept` | |
| `SessionHasOneAgent` | `AgentSpec => []OneAgent` | no caller is named "free" |
| `RetryIsRepaired` | `AgentSpec => []SecondPostRepaired` | |
| `RetentionDeletesDue` | `RetentionFairSpec => OnlyDueDeleted` | |
| `RowsStayVisible` | `MindsSpec => []RowsVisible` | `LastTable` is a natural |

`HighValueKept` rests on `SelectedWereLow` (a selected row that holds a high-value write got
it after it was selected, by runs under way and by threads left behind alike); `OneAgent` on
`ResolvesLocked` (who talks to the server about the agent has the lock) and `CreatesFirst`
(who is about to create one has found none, so that whatever there is was made since, by
others or of abandoned requests); `SecondPostRepaired` on `RepairedSince` (after a failed
post the shared id counts as verified only after a repair); `OnlyDueDeleted` on `ChosenStay`
(the rows about to be deleted are still there and due, those of Mongo may have been written
again); `RowsVisible` on `PassedAreCorrupt` (every table before the target is corrupted) and
`OnTheWay` (a caller that moves starts from a corrupted table not beyond the target, so that
a late one comes to the target again or to a table after it).

`SharedProofs`:

| Theorem | States | If |
|---|---|---|
| `AnswersAreRecorded` | `Spec => AnsweredIsRecorded` (of `OutboxBackend`) | the configured backend is one of the two |
| `DeliveredWasPushed` | `Spec => []SucceededWasPushed` | the same |
| `RowsAgeBounded` | `LettaSpec => []LettaRowsAge` | `LettaSetting` |
| `WarmsStayBounded` | `LettaSpec => []WarmsBounded` | `LettaSetting` |

`LettaSetting`: times and limits are naturals, marks last, searchers and background
fetches are distinct. For the backends `BackendInv` has `RowHistory`, a row that counts as
delivered was pushed, and `CallHistory`, a call under way has an event; `AnsweredIsRecorded`
is about the step that answers, and is proved of each of the document operations that can be
the last one. For the searches `LettaInv`
has `FetchTimes`, rows were computed after they were asked for and a request is within its
limit, and `CacheTimes`, an entry expires within the bound after its rows were computed,
however late it was cached. For the background fetches `WarmInv` has `MarksMatch` and
`MarksCount`: until one is overdue, running fetches and marks correspond one to one and a
mark lapses when its fetch would be overdue, so that clearing lapsed marks never clears
that of a running fetch (`NoneLapsed`).

`RetrievalProofs`, for any clients, queries, sources, documents, modes, limits and cache
sizes that satisfy `RetrievalAssumption` (requests name known texts, modes and sources,
the first variant of a text is the text itself, documents are finitely many, numbers are
naturals and the time to live is positive):

| Theorem | States |
|---|---|
| `SearchTypes` | `SearchSpec => []SearchTypeOK`, with the bounds of the caches |
| `AnswersAreWarned` | `SearchSpec => []ErrorsAreWarned` |
| `AnswersAreFresh` | `SearchSpec => []FreshOrExplained` |

`FreshOrExplained` speaks of answers only, and what makes it true is how old the data is
at every place it passes through; `RInv` says so. `Covers(b, k, t, slack, h)`: bundle `b`
has, or explains why it has not, every document that matches key `k` and was held for more
than `slack` before `t`; `h` is `Ripe`, the time since when a source can no longer miss the
document by its own lag. A stage is never waited for longer than its timeout (`Timed`), so
the rows of the fast stage (`FastHolds`) are one stage old when those of the slow stage
(`SlowHolds`) begin, and a bundle about to be stored covers all but the last two timeouts
(`StoreHolds`). An entry is judged by its expiry: in Redis that is one time to live after
the store (`RedisHolds`), in process memory possibly another one after it was read from
Redis (`LocalHolds`), whoever stored it and in whichever order, so that overwriting an
entry or evicting one needs no argument. The first hop of the first variant asks for what
the answer is about (`FirstHolds`); from there on every further hop and variant keeps what
the search has gathered or reported (`NextHolds`, with `Kept`), and merging cuts the
documents only when the answer is full. `ErrorsAreWarned` comes with the shape of a
search: what raises joins the search with its warning, and `Told` says the same of every
bundle in a cache, however long ago it was computed. The bounds of the caches and the
counters of slow sources are a second invariant, `BInv`, on top of `RInv`.

Only model-checked: all liveness (fairness and ENABLED are outside the prover); and the
topic counts and rollups (`CountsNeverInflated`, `RollupsNest`), which are folds over
trees of any depth and would need induction over data; and `NoSilentLoss`, which holds for
one memory-bank worker without backfills only. Every other safety property of
the passing runs is proved, some under the conditions above. The types of the proved
modules are proved only.

## 5. Not modelled

Left out of the modelled components: formatting, logging, telemetry counters,
authentication, `task_events` rows, the memory note written after a task's outcome (its
errors are suppressed), the contents of the sinks, texts of topic entries, the counters
in a rollup document, ages in the outbox (every comparison of a timestamp with the
clock is an open choice).

Not modelled, and why:

* the Mongo twin of failing the Letta backlog, and the Mongo summaries: the transitions
  of their SQLite counterparts, which `FanoutOutbox` and `LettaBacklog` have (the Mongo
  prune, in batches of 500, is in `LettaBacklog` as one batch);
* the MindsDB queue with its worker and salvage (1865-1928, 13671-13687): nothing enters
  it, since no caller passes `allow_fallback_queue=True`;
* the start-up bootstrap of MindsDB rows and the trading table: inserts through
  functions that are modelled;
* the embedding cache and the cache of retrieval templates: bounded maps with
  expiry that no other state depends on;
* how a record is judged to be of low value, re-ranking, grounding and query expansion:
  text heuristics; the models take their result as a Boolean or a constant;
* the Qdrant and Langfuse adapters, the rate limiter, the rehydration endpoints: I/O
  behind `push_batch`, or callers of functions that are modelled;
* feedback, telemetry, overrides, the migration runtime: inserts, read-only views and
  delegation;
* the dashboard and the operational scripts: separate programs; of the scripts only
  the external task worker takes part in a protocol of the orchestrator.

Risks the models show or touch without a property, because nothing in the repository
says what should hold:

* a rollup item has no waiter: when the memory bank refuses it, the entry stays clean and
  the update is lost until the next write (2020);
* the flush at shutdown puts rollups on a queue that nobody drains (5151);
* an error that hides a delivery is retried, so a sink may hold a record twice (11995);
  the same goes for a MindsDB batch (2425);
* garbage collection judges a row by its last attempt, so one refreshed by coalescing
  may be collected as stale (8374);
* a Mongo error in the middle of a claim leaves the rows claimed so far running (7907);
* the placeholder is cached and returned although its write failed (11804);
* an agent deleted at the server keeps its cached id until a restart (13428).

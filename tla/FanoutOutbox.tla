---------------------------- MODULE FanoutOutbox ----------------------------
(***************************************************************************)
(* The durable fanout outbox: one row per event and target sink in the     *)
(* SQLite table `fanout_outbox', the workers that claim batches of rows,   *)
(* push them to the sinks and mark the outcome, the coalescer that folds   *)
(* repeated writes of a file into a waiting row, the Letta kill switch,    *)
(* garbage collection and pruning, and crashes of the orchestrator.        *)
(*                                                                         *)
(* dedupe_key (event_id:target) is UNIQUE, so rows are indexed by it; `gen'*)
(* tells a re-inserted row from the deleted one it replaces, as its new    *)
(* AUTOINCREMENT id does.  A row's payload is the event it carries.        *)
(*                                                                         *)
(* Timestamps are left out.  Where a query compares one with the clock, the*)
(* rows it picks are any rows that could have the age: a retrying row may  *)
(* or may not be due, a waiting row may or may not be within the coalesce  *)
(* window, a running row may or may not be stale at a restart.             *)
(***************************************************************************)
EXTENDS Integers, FiniteSets, Sequences, Functions

CONSTANTS Events,           \* event ids
          NoEvent,
          Targets,          \* configured sinks; "letta", "mindsdb", "mongo_raw" are special
          Files,            \* project/file pairs
          FileOf,           \* the file an event writes
          LowValue,         \* events the low-value classifier matches
          RawOutcomes,      \* outcomes of writing a raw event to Mongo: a set of Booleans
          BankWorkers,      \* MEMORY_BANK_WORKERS
          Workers,          \* fanout workers
          Serves,           \* the targets each worker claims
          BatchSize,        \* FANOUT_BATCH_SIZE
          BulkSize,         \* FANOUT_<TARGET>_BULK_SIZE
          MaxAttempts,      \* FANOUT_MAX_ATTEMPTS
          CoalesceTargets,  \* FANOUT_COALESCE_TARGETS
          CoalesceStale,    \* FANOUT_COALESCE_STALE_TARGETS
          StaleTargets,     \* FANOUT_OUTBOX_STALE_TARGETS
          LettaThreshold,   \* LETTA_TRANSIENT_ERROR_THRESHOLD
          FailOpen,         \* MINDSDB_FAIL_OPEN_ON_PERMANENT_ERROR
          Limits            \* bounds of a behaviour: backfills, dbErrors, crashes, deletions

VARIABLES outbox,   \* the rows
          worker,   \* what each fanout worker is doing
          letta,    \* letta_runtime_enabled and letta_transient_error_streak
          doomed,   \* rows a prune has selected and not deleted yet
          up,       \* the orchestrator process is running
          written,  \* events in the order write_memory accepted them
          raw,      \* events in the Mongo raw collection
          intake,   \* memory_bank_queue, each item with the fanout it will enqueue
          seeds,    \* raw events still to be seeded as mongo_raw jobs
          scan,     \* the Mongo backfill in progress: documents left, targets, force
          owed,     \* ghost: the newest event enqueued for a target and file
                    \* that has not been pushed since (nor, being a raw event,
                    \* is in Mongo already)
          budget    \* what is left of Limits

source == <<written, raw, intake, seeds, scan>>
vars == <<outbox, worker, letta, doomed, up, source, owed, budget>>

Keys == Events \X Targets
Outstanding == {"pending", "retrying", "running"}
Waiting == {"pending", "retrying"}

ASSUME FanoutAssumption ==
    /\ NoEvent \notin Events
    /\ FileOf \in [Events -> Files]
    /\ LowValue \subseteq Events
    /\ RawOutcomes \subseteq BOOLEAN
    /\ Serves \in [Workers -> SUBSET Targets]
    /\ {BankWorkers, BatchSize, BulkSize, MaxAttempts, LettaThreshold} \subseteq Nat \ {0}
    /\ FailOpen \in BOOLEAN
    /\ Limits \in [backfills : Nat, dbErrors : Nat, crashes : Nat, deletions : Nat]

Row == [status : Outstanding \cup {"absent", "succeeded", "failed"},
        payload : Events \cup {NoEvent}, attempts : Nat, gen : Nat]

Absent(gen) == [status |-> "absent", payload |-> NoEvent, attempts |-> 0, gen |-> gen]

\* A claimed job is a copy of the row: _fanout_row_to_dict.
Job == [key : Keys, payload : Events, attempts : Nat, gen : Nat]
JobOf(k, row) == [key |-> k, payload |-> row.payload, attempts |-> row.attempts, gen |-> row.gen]

Errors == {"permanent", "server", "other"}
Idle == [pc |-> "idle", todo |-> {}, batch |-> {}, left |-> {}, failed |-> {}, error |-> "none"]

NoScan == [docs |-> {}, targets |-> {}, force |-> FALSE, begun |-> FALSE]

\* `budget' after one use of limit f, allowed while some is left.
Spend(f) ==
    /\ budget[f] > 0
    /\ budget' = [budget EXCEPT ![f] = @ - 1]

Init ==
    /\ outbox = [k \in Keys |-> Absent(0)]
    /\ worker = [w \in Workers |-> Idle]
    /\ letta = [enabled |-> TRUE, streak |-> 0]
    /\ doomed = {}
    /\ up = TRUE
    /\ written = <<>>
    /\ raw = {}
    /\ intake = <<>>
    /\ seeds = {}
    /\ scan = NoScan
    /\ owed = [t \in Targets |-> [f \in Files |-> NoEvent]]
    /\ budget = Limits

-----------------------------------------------------------------------------
(* Enqueue *)

\* Mutant: the coalescer also takes rows that a worker is pushing.
Coalescable_running(f, t) ==
    {e \in Events : t \in CoalesceTargets /\ FileOf[e] = f /\ outbox[<<e, t>>].status \in Outstanding}

\* Events in whose row the coalescer can fold an event of file f.
Coalescable(f, t) ==
    {e \in Events : t \in CoalesceTargets /\ FileOf[e] = f /\ outbox[<<e, t>>].status \in Waiting}

CoalescedRow(row, e) == [row EXCEPT !.payload = e]

InsertedRow(row, e) == [status |-> "pending", payload |-> e, attempts |-> 0, gen |-> row.gen + 1]

RequeuedRow(row, e) == [row EXCEPT !.status = "pending", !.payload = e, !.attempts = 0]

\* d was accepted before e.
Before(d, e) == \E i, j \in DOMAIN written : i < j /\ written[i] = d /\ written[j] = e

\* The event a sink is owed for a file once e is enqueued too: the newer one.
Newer(old, e) == IF old # NoEvent /\ Before(e, old) THEN old ELSE e

\* One transaction over the targets ts.  into[t] is the event whose row takes e: a
\* coalescable one, or e's own when there is none, none is recent or e is forced.
enqueue_fanout_outbox(e, ts, force) ==
    \E into \in [ts -> Events], coalesced \in SUBSET ts :
        LET Found(t)  == Coalescable(FileOf[e], t)
            Exists(t) == outbox[<<e, t>>].status # "absent"
            Taken(t)  == LET row == outbox[<<into[t], t>>] IN
                           IF t \in coalesced THEN CoalescedRow(row, e)
                           ELSE IF ~Exists(t) THEN InsertedRow(row, e)
                           ELSE IF force THEN RequeuedRow(row, e) ELSE row
        IN  /\ \A t \in ts : IF t \in coalesced
                             THEN ~force /\ into[t] \in Found(t)
                             ELSE into[t] = e /\ (t \in CoalesceStale => force \/ Found(t) = {})
            /\ outbox' = [k \in Keys |-> IF k[2] \in ts /\ k[1] = into[k[2]] THEN Taken(k[2]) ELSE outbox[k]]
            /\ owed' = [t \in Targets |->
                          IF t \in ts /\ (force \/ t \in coalesced \/ ~Exists(t)) /\ (t = "mongo_raw" => e \notin raw)
                          THEN [owed[t] EXCEPT ![FileOf[e]] = Newer(@, e)] ELSE owed[t]]

\* Mutant: the raw event is left to the memory-bank worker's fanout.
write_memory_unseeded(e, persisted) ==
    /\ up
    /\ e \notin Range(written)
    /\ written' = Append(written, e)
    /\ raw' = IF persisted THEN raw \cup {e} ELSE raw
    /\ intake' = Append(intake, [event |-> e, persisted |-> persisted])
    /\ UNCHANGED <<outbox, worker, letta, doomed, up, seeds, scan, owed, budget>>

\* write_memory up to its outbox calls: the raw event is built and written to
\* Mongo, the write is queued for the memory bank, and an event that Mongo
\* refused is also seeded as a mongo_raw job.
write_memory(e, persisted) ==
    /\ up
    /\ e \notin Range(written)
    /\ written' = Append(written, e)
    /\ raw' = IF persisted THEN raw \cup {e} ELSE raw
    /\ intake' = Append(intake, [event |-> e, persisted |-> persisted])
    /\ seeds' = IF persisted THEN seeds ELSE seeds \cup {e}
    /\ UNCHANGED <<outbox, worker, letta, doomed, up, scan, owed, budget>>

\* The memory-bank workers take items first in, first out, and as many as there
\* are workers are in progress at once and finish in any order.
InProgress == DOMAIN intake \cap 1..BankWorkers

\* A queue without its i-th item.
Without(queue, i) == SubSeq(queue, 1, i - 1) \o SubSeq(queue, i + 1, Len(queue))

\* A memory-bank worker has stored the item and enqueues its fanout: mongo_raw
\* only when the raw event was not persisted, letta when enabled and admitted.  The
\* enabled check precedes the transaction and Letta is only ever switched off, so
\* a check may have passed that would now fail.
enqueue_memory_write_fanout(i, lettaAdmit) ==
    /\ up
    /\ i \in InProgress
    /\ intake' = Without(intake, i)
    /\ enqueue_fanout_outbox(intake[i].event, {t \in Targets : /\ t = "mongo_raw" => ~intake[i].persisted
                                                               /\ t = "letta" => lettaAdmit}, FALSE)
    /\ UNCHANGED <<worker, letta, doomed, up, written, raw, seeds, scan, budget>>

\* The memory bank refused the write, or the outbox did: nothing is enqueued.
memory_bank_write_fails(i) ==
    /\ up
    /\ i \in InProgress
    /\ intake' = Without(intake, i)
    /\ UNCHANGED <<outbox, worker, letta, doomed, up, written, raw, seeds, scan, owed, budget>>

seed_mongo_retry(e) ==
    /\ up
    /\ e \in seeds
    /\ seeds' = seeds \ {e}
    /\ enqueue_fanout_outbox(e, Targets \cap {"mongo_raw"}, TRUE)
    /\ UNCHANGED <<worker, letta, doomed, up, written, raw, intake, scan, budget>>

\* The documents are read once, newest first, and enqueued one by one.
backfill_scan(ts, force) ==
    /\ up
    /\ scan = NoScan
    /\ raw # {}
    /\ Spend("backfills")
    /\ scan' = [docs |-> raw, targets |-> ts, force |-> force, begun |-> FALSE]
    /\ UNCHANGED <<outbox, worker, letta, doomed, up, written, raw, intake, seeds, owed>>

\* The newest document left.
NextDocs == {e \in scan.docs : \A d \in scan.docs \ {e} : Before(d, e)}

\* Unless forced, the raw event is first upserted and mongo_raw is left out when
\* that succeeds.
backfill_enqueue(upserted) ==
    /\ up
    /\ \E e \in NextDocs :
         /\ enqueue_fanout_outbox(e, IF upserted /\ ~scan.force THEN scan.targets \ {"mongo_raw"}
                                     ELSE scan.targets, scan.force)
         /\ scan' = IF scan.docs = {e} THEN NoScan ELSE [scan EXCEPT !.docs = @ \ {e}, !.begun = TRUE]
    /\ UNCHANGED <<worker, letta, doomed, up, written, raw, intake, seeds, budget>>

\* A document without project, file or summary, or whose enqueue raised, is passed over.
backfill_skips ==
    /\ up
    /\ \E e \in NextDocs : scan' = IF scan.docs = {e} THEN NoScan ELSE [scan EXCEPT !.docs = @ \ {e}]
    /\ UNCHANGED <<outbox, worker, letta, doomed, up, written, raw, intake, seeds, owed, budget>>

\* max_pending_jobs: the backfill stops when too many jobs are outstanding.
backfill_throttled ==
    /\ up
    /\ scan.begun
    /\ \E k \in Keys : outbox[k].status \in Outstanding
    /\ scan' = NoScan
    /\ UNCHANGED <<outbox, worker, letta, doomed, up, written, raw, intake, seeds, owed, budget>>

-----------------------------------------------------------------------------
(* Claim and push *)

\* Mutant: running rows are claimed again.
Claimable_running(w, statuses) ==
    {k \in Keys : k[2] \in Serves[w] /\ outbox[k].status \in statuses \cup {"running"}}

Claimable(w, statuses) == {k \in Keys : k[2] \in Serves[w] /\ outbox[k].status \in statuses}

ClaimedRow(row) == [row EXCEPT !.status = "running", !.attempts = @ + 1]

claim_fanout_batch(w) ==
    /\ up
    /\ worker[w].pc = "idle"
    /\ \E S \in SUBSET Claimable(w, Waiting) :
         /\ S # {}
         /\ Cardinality(S) <= BatchSize
         /\ Cardinality(S) < BatchSize => Claimable(w, {"pending"}) \subseteq S
         /\ outbox' = [k \in Keys |-> IF k \in S THEN ClaimedRow(outbox[k]) ELSE outbox[k]]
         /\ worker' = [worker EXCEPT ![w] =
                         [Idle EXCEPT !.pc = "claimed",
                                      !.todo = {JobOf(k, ClaimedRow(outbox[k])) : k \in S}]]
    /\ UNCHANGED <<letta, doomed, up, source, owed, budget>>

\* The next chunk of one target's jobs.
Chunks(w) ==
    {B \in SUBSET worker[w].todo : \E t \in Targets :
        LET jobs == {j \in worker[w].todo : j.key[2] = t} IN
        /\ B # {}
        /\ B \subseteq jobs
        /\ Cardinality(B) <= BulkSize
        /\ Cardinality(B) < BulkSize => B = jobs}

IsLetta(j) == j.key[2] = "letta"

\* A chunk is pushed: the jobs of R reach the sink, the jobs of F report an error
\* (an error may hide a delivery).  Letta jobs are pushed one by one, the other
\* sinks take or refuse the chunk as a whole.
push_batch(w) ==
    /\ up
    /\ worker[w].pc = "claimed"
    /\ \E B \in Chunks(w), F \in SUBSET worker[w].todo, R \in SUBSET worker[w].todo, err \in Errors :
         LET lettaChunk == \E j \in B : IsLetta(j)
             Received(t, e) == \E j \in R : j.key[2] = t /\ j.payload = e IN
         /\ F \subseteq B
         /\ B \ F \subseteq R
         /\ R \subseteq B
         /\ lettaChunk => letta.enabled
         /\ lettaChunk \/ F \in {{}, B}
         /\ err # "other" => F # {} /\ \E j \in B : j.key[2] = "mindsdb"
         /\ owed' = [t \in Targets |-> [f \in Files |->
                       IF Received(t, owed[t][f]) THEN NoEvent ELSE owed[t][f]]]
         /\ raw' = raw \cup {e \in Events : Received("mongo_raw", e)}
         /\ worker' = [worker EXCEPT ![w] =
                         [pc |-> IF lettaChunk \/ F = {} THEN "marking" ELSE "failing",
                          todo |-> @.todo \ B, batch |-> B, left |-> B, failed |-> F,
                          error |-> err]]
    /\ UNCHANGED <<outbox, letta, doomed, up, written, intake, seeds, scan, budget>>

-----------------------------------------------------------------------------
(* Marking *)

\* UPDATE ... WHERE id = ?: a row that was deleted, or deleted and inserted
\* again, is not touched.
Marked(j, row) ==
    [outbox EXCEPT ![j.key] = IF @.gen = j.gen /\ @.status # "absent" THEN row ELSE @]

SucceededRow(row) == [row EXCEPT !.status = "succeeded"]
FailedRow(row) == [row EXCEPT !.status = "failed"]

\* Mutant: one attempt too many.
RetriedRow_offbyone(row, j) ==
    IF j.attempts <= MaxAttempts THEN [row EXCEPT !.status = "retrying"] ELSE FailedRow(row)

\* mark_fanout_retry: the number of attempts is that of the claimed copy.
RetriedRow(row, j) ==
    IF j.attempts < MaxAttempts THEN [row EXCEPT !.status = "retrying"] ELSE FailedRow(row)

\* Mutant: every Letta row is failed, finished ones too.
fail_letta_backlog_all ==
    [k \in Keys |-> IF k[2] = "letta" /\ outbox[k].status # "absent" THEN FailedRow(outbox[k])
                    ELSE outbox[k]]

fail_letta_backlog ==
    [k \in Keys |-> IF k[2] = "letta" /\ outbox[k].status \in Outstanding THEN FailedRow(outbox[k])
                    ELSE outbox[k]]

\* _set_letta_runtime_disabled
Disabled(l) == IF l.enabled THEN [enabled |-> FALSE, streak |-> 0] ELSE l

\* A Letta outcome's effect on the kill switch, before the row is marked.
SwitchedLetta(j, outcome) ==
    LET counted == [letta EXCEPT !.streak = @ + 1] IN
    CASE ~IsLetta(j)                    -> letta
      [] IsLetta(j) /\ outcome = "permanent" -> Disabled(letta)
      [] IsLetta(j) /\ outcome = "server" ->
            IF counted.streak >= LettaThreshold THEN Disabled(counted) ELSE counted
      [] OTHER                          -> [letta EXCEPT !.streak = 0]

TripsLetta(j, err) ==
    /\ IsLetta(j)
    /\ err = "permanent" \/ (err = "server" /\ letta.streak + 1 >= LettaThreshold)

\* A job of the chunk is done; the chunk ends with its last job, the batch with
\* its last chunk.
Advance(r, j) ==
    IF r.left # {j} THEN [r EXCEPT !.left = @ \ {j}]
    ELSE IF r.todo # {} THEN [Idle EXCEPT !.pc = "claimed", !.todo = r.todo]
    ELSE Idle

mark_fanout_job_success(w, j) ==
    /\ up
    /\ worker[w].pc = "marking"
    /\ j \in worker[w].left \ worker[w].failed
    /\ letta' = SwitchedLetta(j, "ok")
    /\ outbox' = Marked(j, SucceededRow(outbox[j.key]))
    /\ worker' = [worker EXCEPT ![w] = Advance(@, j)]
    /\ UNCHANGED <<doomed, up, source, owed, budget>>

\* The job whose error is handled next: a failed Letta job while its chunk is
\* marked, any job of a chunk that raised.
HandlesError(w, j, err) ==
    \/ /\ worker[w].pc = "marking"
       /\ j \in worker[w].left \cap worker[w].failed
    \/ /\ worker[w].pc = "failing"
       /\ j \in worker[w].left
       /\ err = worker[w].error

handle_fanout_job_error(w, j, err) ==
    LET failsOpen == j.key[2] = "mindsdb" /\ err = "permanent"
        row       == outbox[j.key] IN
    /\ up
    /\ HandlesError(w, j, err)
    /\ letta' = IF IsLetta(j) /\ err = "permanent" THEN [SwitchedLetta(j, err) EXCEPT !.streak = 0]
                ELSE SwitchedLetta(j, err)
    /\ outbox' = CASE TripsLetta(j, err) -> fail_letta_backlog
                   [] failsOpen          -> Marked(j, IF FailOpen THEN SucceededRow(row) ELSE FailedRow(row))
                   [] OTHER              -> Marked(j, RetriedRow(row, j))
    /\ owed' = IF failsOpen /\ FailOpen
               THEN [owed EXCEPT !["mindsdb"][FileOf[j.payload]] = IF @ = j.payload THEN NoEvent ELSE @]
               ELSE owed
    /\ worker' = [worker EXCEPT ![w] = Advance(@, j)]
    /\ UNCHANGED <<doomed, up, source, budget>>

\* The write that marks a job raises, after the retries of _task_db_exec.  While
\* a chunk is marked this sends every job of the chunk to the error handler; in
\* the error handler it ends the batch and leaves the other jobs as they are.
mark_raises(w, j, outcome) ==
    /\ up
    /\ Spend("dbErrors")
    /\ \/ outcome = "ok" /\ worker[w].pc = "marking" /\ j \in worker[w].left \ worker[w].failed
       \/ outcome \in Errors /\ HandlesError(w, j, outcome)
    /\ letta' = SwitchedLetta(j, outcome)
    /\ worker' = [worker EXCEPT ![w] =
                    IF @.pc = "marking"
                    THEN [@ EXCEPT !.pc = "failing", !.left = worker[w].batch, !.failed = {},
                                   !.error = "other"]
                    ELSE Idle]
    /\ UNCHANGED <<outbox, doomed, up, source, owed>>

\* Mutant: the chunk is dropped and its rows are left running.
letta_chunk_dropped_running(w) ==
    /\ up
    /\ worker[w].pc = "claimed"
    /\ ~letta.enabled
    /\ \E B \in Chunks(w) :
         /\ \A j \in B : IsLetta(j)
         /\ worker' = [worker EXCEPT ![w] = IF @.todo = B THEN Idle
                                                  ELSE [@ EXCEPT !.todo = worker[w].todo \ B]]
    /\ UNCHANGED <<outbox, letta, doomed, up, source, owed, budget>>

\* A chunk of Letta jobs while Letta is disabled.
letta_chunk_dropped(w) ==
    /\ up
    /\ worker[w].pc = "claimed"
    /\ ~letta.enabled
    /\ \E B \in Chunks(w) :
         /\ \A j \in B : IsLetta(j)
         /\ worker' = [worker EXCEPT ![w] = IF @.todo = B THEN Idle
                                                  ELSE [@ EXCEPT !.todo = worker[w].todo \ B]]
    /\ outbox' = fail_letta_backlog
    /\ UNCHANGED <<letta, doomed, up, source, owed, budget>>

-----------------------------------------------------------------------------
(* Deletion, crashes and time *)

\* A deleted row's payload is no longer owed when the policy meant it to go.
Deleted(S) == [k \in Keys |-> IF k \in S THEN Absent(outbox[k].gen) ELSE outbox[k]]
Forgiven(S) ==
    [t \in Targets |-> [f \in Files |->
        IF \E k \in S : k[2] = t /\ outbox[k].payload = owed[t][f] THEN NoEvent ELSE owed[t][f]]]

\* Rows past their retention; which they are depends on ages the model leaves out.
fanout_outbox_gc ==
    LET expirable == {k \in Keys : \/ outbox[k].status \in {"succeeded", "failed"}
                                   \/ outbox[k].status \in Outstanding /\ k[2] \in StaleTargets} IN
    /\ up
    /\ Spend("deletions")
    /\ \E S \in (SUBSET expirable) \ {{}} : outbox' = Deleted(S) /\ owed' = Forgiven(S)
    /\ UNCHANGED <<worker, letta, doomed, up, source>>

\* _prune_letta_low_value_outbox_sqlite selects outside a transaction, among the
\* requested statuses and up to a limit ...
prune_select ==
    LET matched == {k \in Keys : /\ k[2] = "letta"
                                 /\ outbox[k].status \in Outstanding
                                 /\ outbox[k].payload \in LowValue} IN
    /\ up
    /\ doomed = {}
    /\ Spend("deletions")
    /\ \E S \in (SUBSET matched) \ {{}} : doomed' = {[key |-> k, gen |-> outbox[k].gen] : k \in S}
    /\ UNCHANGED <<outbox, worker, letta, up, source, owed>>

\* ... and deletes what it selected by id, whatever has become of the rows.
prune_delete ==
    LET gone == {k \in Keys : /\ outbox[k].status # "absent"
                              /\ \E d \in doomed : d.key = k /\ d.gen = outbox[k].gen} IN
    /\ up
    /\ doomed # {}
    /\ doomed' = {}
    /\ outbox' = Deleted(gone)
    /\ owed' = Forgiven({k \in gone : outbox[k].payload \in LowValue})
    /\ UNCHANGED <<worker, letta, up, source, budget>>

\* The process ends; workers, the kill switch and queued writes are in memory.
crash ==
    /\ up
    /\ Spend("crashes")
    /\ up' = FALSE
    /\ worker' = [w \in Workers |-> Idle]
    /\ letta' = [enabled |-> TRUE, streak |-> 0]
    /\ doomed' = {}
    /\ intake' = <<>>
    /\ seeds' = {}
    /\ scan' = NoScan
    /\ UNCHANGED <<outbox, written, raw, owed>>

\* recover_stale_running_jobs for the stale ones among the running rows, S.
Recovered(S) ==
    [k \in Keys |-> IF k \in S THEN [outbox[k] EXCEPT !.status = "retrying"] ELSE outbox[k]]

start_background_tasks ==
    /\ ~up
    /\ up' = TRUE
    /\ \E S \in SUBSET {k \in Keys : outbox[k].status = "running"} : outbox' = Recovered(S)
    /\ UNCHANGED <<worker, letta, doomed, source, owed, budget>>

-----------------------------------------------------------------------------
Write ==
    \/ \E e \in Events, persisted \in RawOutcomes : write_memory(e, persisted)
    \/ \E e \in seeds : seed_mongo_retry(e)
    \/ \E i \in InProgress, a \in BOOLEAN : enqueue_memory_write_fanout(i, a)
    \/ \E i \in InProgress : memory_bank_write_fails(i)

Backfill ==
    \/ \E ts \in (SUBSET Targets) \ {{}}, force \in BOOLEAN : backfill_scan(ts, force)
    \/ \E upserted \in BOOLEAN : backfill_enqueue(upserted)
    \/ backfill_skips \/ backfill_throttled

Mark(w) == \E j \in worker[w].left :
    \/ mark_fanout_job_success(w, j)
    \/ \E err \in Errors : handle_fanout_job_error(w, j, err)

WorkerStep(w) == claim_fanout_batch(w) \/ push_batch(w) \/ letta_chunk_dropped(w) \/ Mark(w)

Delete == prune_select \/ prune_delete \/ fanout_outbox_gc

Next ==
    \/ Write \/ Backfill \/ Delete
    \/ crash \/ start_background_tasks
    \/ \E w \in Workers : WorkerStep(w)
    \/ \E w \in Workers : \E j \in worker[w].left, o \in Errors \cup {"ok"} : mark_raises(w, j, o)

Spec == Init /\ [][Next]_vars

\* Workers poll every FANOUT_POLL_SECS whether or not they are signalled, sink
\* calls have timeouts, and a stopped container is restarted.
Fairness ==
    /\ \A w \in Workers : WF_vars(WorkerStep(w))
    /\ WF_vars(start_background_tasks)

FairSpec == Spec /\ Fairness

-----------------------------------------------------------------------------
(* Properties *)

TypeOK ==
    /\ outbox \in [Keys -> Row]
    /\ worker \in [Workers -> [pc : {"idle", "claimed", "marking", "failing"},
                               todo : SUBSET Job, batch : SUBSET Job, left : SUBSET Job,
                               failed : SUBSET Job, error : Errors \cup {"none"}]]
    /\ letta \in [enabled : BOOLEAN, streak : Nat]
    /\ doomed \subseteq [key : Keys, gen : Nat]
    /\ up \in BOOLEAN
    /\ written \in Seq(Events)
    /\ raw \subseteq Events
    /\ intake \in Seq([event : Events, persisted : BOOLEAN])
    /\ seeds \subseteq Events
    /\ scan \in [docs : SUBSET Events, targets : SUBSET Targets, force : BOOLEAN, begun : BOOLEAN]
    /\ owed \in [Targets -> [Files -> Events \cup {NoEvent}]]
    /\ budget \in [backfills : Nat, dbErrors : Nat, crashes : Nat, deletions : Nat]

\* No accepted write is silently lost: while the newest event enqueued for a sink
\* and file has not reached the sink, some row of that sink carries it and is
\* waiting, running or recorded as failed.  The coalescer overwrites payloads, marks
\* come late and deletions go by id, and none of them may drop the newest payload.
NoSilentLoss ==
    \A t \in Targets, f \in Files : owed[t][f] # NoEvent =>
        \E e \in Events : /\ outbox[<<e, t>>].payload = owed[t][f]
                          /\ outbox[<<e, t>>].status \in Outstanding \cup {"failed"}

\* Every accepted write reaches the raw store or is on its way there: in it, about
\* to be seeded by its request, or in a row that is outstanding or recorded as
\* failed, whatever happens to the memory-bank write and to concurrent requeues.
RawDurable ==
    "mongo_raw" \in Targets =>
        \A e \in Range(written) :
            \/ e \in raw \cup seeds
            \/ outbox[<<e, "mongo_raw">>].status \in Outstanding \cup {"failed"}

InFlight(w) == worker[w].todo \cup worker[w].left

\* A row is in the hands of one worker at a time: claim_fanout_batch takes it out
\* of the waiting rows, and nothing makes it claimable again before its worker has
\* marked it.
ClaimExclusive ==
    \A v, w \in Workers : v # w =>
        \A i \in InFlight(v), j \in InFlight(w) : <<i.key, i.gen>> # <<j.key, j.gen>>

\* A row is attempted at most FANOUT_MAX_ATTEMPTS times, and once more for every
\* restart that finds it running: claim_fanout_batch does not look at the count,
\* mark_fanout_retry ends the row when its claimed copy has used them up, and
\* recover_stale_running_jobs ignores the limit.
AttemptsBounded ==
    \A k \in Keys : outbox[k].attempts <= MaxAttempts + (Limits.crashes - budget.crashes)

\* A delivered row is delivered once: from succeeded a row can only be garbage-
\* collected, whatever late marks, kill switch trips and restarts do, or be reset by a
\* forced requeue (a backfill with force_requeue, the seed of a raw event).
SucceededStays ==
    \A k \in Keys : outbox[k].status = "succeeded" /\ outbox'[k].status \notin {"succeeded", "absent"}
                     => scan.force \/ k[1] \in seeds
SucceededIsFinal == [][SucceededStays]_vars

\* Every outstanding job is eventually delivered, given up or removed: retries are
\* bounded, a disabled Letta fails its backlog, and no job stays running forever.
JobsSettle ==
    \A k \in Keys : []<>(outbox[k].status \notin Outstanding)

=============================================================================

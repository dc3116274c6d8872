----------------------------- MODULE MemoryWrite -----------------------------
(***************************************************************************)
(* POST /memory/write up to the memory bank: the duplicate window, the     *)
(* latest-hash check and the rollup buffer of high-frequency ("hot")       *)
(* files, the raw copy in Mongo or, when Mongo refuses it, in the outbox,  *)
(* the bounded memory_bank_queue and its workers, and the waiter that      *)
(* tells a synchronous caller the outcome.                                 *)
(*                                                                         *)
(* The handler runs on one event loop: what it does between two awaits is  *)
(* one step.  The dedupe, hash and rollup locks are never held across an   *)
(* await, and put() on a queue that is not full does not suspend.          *)
(*                                                                         *)
(* Clocks are left out: a key may leave the window, and a rollup may be    *)
(* due, at any time.  A content stands for its hash.                       *)
(***************************************************************************)
EXTENDS Integers, SequencesExt

CONSTANTS MaxRequests,   \* bound: requests in a behaviour
          Files,         \* project/file pairs
          Hot,           \* those is_hot_memory_file accepts
          Contents, NoContent,
          RollupEnabled, \* HOT_MEMORY_ROLLUP_ENABLED
          Async,         \* MEMORY_WRITE_ASYNC
          QueueMax,      \* MEMORY_BANK_QUEUE_MAX
          Workers,       \* memory-bank workers
          MaxCrashes     \* bound: crashes in a behaviour

VARIABLES req,      \* the requests and their answers
          seen,     \* memory_write_dedupe_seen
          latest,   \* memory_write_latest_hashes
          rollup,   \* hot_memory_rollup_entries; dirty: events_since_flush > 0
          queue,    \* memory_bank_queue
          worker,   \* what each memory-bank worker is doing
          raw,      \* requests whose raw event is in Mongo
          seeded,   \* requests whose raw event has a mongo_raw job
          stored,   \* requests whose content the memory bank has taken
          enqueued, \* ghost: requests queued for the memory bank or buffered
          rolled,   \* ghost: the rollup of each file a worker took last
          crashes

durable == <<raw, seeded, stored>>
vars == <<req, seen, latest, rollup, queue, worker, durable, enqueued, rolled, crashes>>

Requests == 1..MaxRequests
Rollup == 0    \* the item's requester, for a rollup

ASSUME MemoryWriteAssumption ==
    /\ {MaxRequests, MaxCrashes} \subseteq Nat
    /\ QueueMax \in Nat \ {0}
    /\ Files # {} /\ IsFiniteSet(Files)
    /\ Hot \subseteq Files
    /\ NoContent \notin Contents
    /\ {RollupEnabled, Async} \subseteq BOOLEAN

Answers == {"ok", "unchanged", "deduped", "rejected", "queue_full", "failed", "cut"}
InProgress == {"persisting", "enqueueing", "seeding", "waiting"}

NoRequest == [pc |-> "none", kind |-> "plain", file |-> CHOOSE f \in Files : TRUE,
              content |-> NoContent, persisted |-> FALSE, waiter |-> "none"]
NoEntry == [hash |-> NoContent, dirty |-> FALSE]
IdleWorker == [pc |-> "idle", item |-> [from |-> Rollup, file |-> CHOOSE f \in Files : TRUE,
                                        content |-> NoContent]]

Init ==
    /\ req = [r \in Requests |-> NoRequest]
    /\ seen = {}
    /\ latest = [f \in Hot |-> NoContent]
    /\ rollup = [f \in Hot |-> NoEntry]
    /\ queue = <<>>
    /\ worker = [w \in Workers |-> IdleWorker]
    /\ raw = {} /\ seeded = {} /\ stored = {}
    /\ enqueued = {}
    /\ rolled = [f \in Hot |-> NoContent]
    /\ crashes = 0

-----------------------------------------------------------------------------
(* The request *)

\* Requests are numbered in the order in which they pass the duplicate checks.
IsNext(r) == req[r].pc = "none" /\ \A q \in 1..(r - 1) : req[q].pc # "none"

\* No file name, or a secret while SECRETS_STORAGE_MODE is "block".
reject(r) ==
    /\ IsNext(r)
    /\ req' = [req EXCEPT ![r].pc = "rejected"]
    /\ UNCHANGED <<seen, latest, rollup, queue, worker, durable, enqueued, rolled, crashes>>

should_skip_unchanged_latest_hash(f, c) == f \in Hot /\ latest[f] = c
should_skip_duplicate_memory_write(f, c) == <<f, c>> \in seen

\* Both checks record what they are asked, whatever becomes of the write.
write_memory(r, f, c) ==
    LET unchanged == should_skip_unchanged_latest_hash(f, c)
        duplicate == should_skip_duplicate_memory_write(f, c) IN
    /\ IsNext(r)
    /\ latest' = IF f \in Hot THEN [latest EXCEPT ![f] = c] ELSE latest
    /\ seen' = IF unchanged THEN seen ELSE seen \cup {<<f, c>>}
    /\ req' = [req EXCEPT ![r] =
                 [@ EXCEPT !.file = f, !.content = c,
                           !.pc = IF duplicate /\ ~unchanged THEN "deduped" ELSE "persisting",
                           !.kind = CASE unchanged -> "unchanged"
                                      [] ~unchanged /\ f \in Hot /\ RollupEnabled -> "rollup"
                                      [] OTHER -> "plain"]]
    /\ UNCHANGED <<rollup, queue, worker, durable, enqueued, rolled, crashes>>

\* Mutant: the upsert goes by the file instead of the event.
persist_raw_event_by_file(r, ok) ==
    /\ req[r].pc = "persisting"
    /\ raw' = (IF ok THEN {q \in raw : req[q].file # req[r].file} \cup {r} ELSE raw)
    /\ req' = [req EXCEPT ![r].persisted = ok,
                          ![r].pc = IF req[r].kind # "unchanged" THEN "enqueueing"
                                    ELSE IF ok THEN "unchanged" ELSE "seeding"]
    /\ UNCHANGED <<seen, latest, rollup, queue, worker, seeded, stored, enqueued, rolled, crashes>>

\* A refusal may hide an upsert that did happen.
persist_raw_event_to_mongo(r, ok) ==
    /\ req[r].pc = "persisting"
    /\ raw' \in IF ok THEN {raw \cup {r}} ELSE {raw, raw \cup {r}}
    /\ req' = [req EXCEPT ![r].persisted = ok,
                          ![r].pc = IF req[r].kind # "unchanged" THEN "enqueueing"
                                    ELSE IF ok THEN "unchanged" ELSE "seeding"]
    /\ UNCHANGED <<seen, latest, rollup, queue, worker, seeded, stored, enqueued, rolled, crashes>>

\* Where a request goes once its raw event is safe.  Reading the fanout summary
\* for the answer may raise.
Then(r) ==
    CASE req[r].kind = "unchanged" -> {"unchanged"}
      [] req[r].kind = "plain" /\ ~Async -> {"waiting"}
      [] OTHER -> {"ok", "failed"}

enqueue_hot_memory_rollup(r) ==
    /\ req[r].pc = "enqueueing"
    /\ req[r].kind = "rollup"
    /\ rollup' = [rollup EXCEPT ![req[r].file] = [hash |-> req[r].content, dirty |-> TRUE]]
    /\ enqueued' = enqueued \cup {r}
    /\ \E pc \in IF req[r].persisted THEN Then(r) ELSE {"seeding"} : req' = [req EXCEPT ![r].pc = pc]
    /\ UNCHANGED <<seen, latest, queue, worker, durable, rolled, crashes>>

enqueue_memory_bank_write(r) ==
    /\ req[r].pc = "enqueueing"
    /\ req[r].kind = "plain"
    /\ Len(queue) < QueueMax
    /\ queue' = Append(queue, [from |-> r, file |-> req[r].file, content |-> req[r].content])
    /\ enqueued' = enqueued \cup {r}
    /\ \E pc \in IF req[r].persisted THEN Then(r) ELSE {"seeding"} : req' = [req EXCEPT ![r].pc = pc]
    /\ UNCHANGED <<seen, latest, rollup, worker, durable, rolled, crashes>>

\* 503: raised before a refused raw event is seeded.
queue_full(r) ==
    /\ req[r].pc = "enqueueing"
    /\ req[r].kind = "plain"
    /\ Len(queue) >= QueueMax
    /\ req' = [req EXCEPT ![r].pc = "queue_full"]
    /\ UNCHANGED <<seen, latest, rollup, queue, worker, durable, enqueued, rolled, crashes>>

seed_mongo_retry(r) ==
    /\ req[r].pc = "seeding"
    /\ seeded' = seeded \cup {r}
    /\ \E pc \in Then(r) : req' = [req EXCEPT ![r].pc = pc]
    /\ UNCHANGED <<seen, latest, rollup, queue, worker, raw, stored, enqueued, rolled, crashes>>

seed_raises(r) ==
    /\ req[r].pc = "seeding"
    /\ req' = [req EXCEPT ![r].pc = "failed"]
    /\ UNCHANGED <<seen, latest, rollup, queue, worker, durable, enqueued, rolled, crashes>>

\* await waiter; a failed one answers 502.
waiter_resolved(r) ==
    /\ req[r].pc = "waiting"
    /\ req[r].waiter # "none"
    /\ \E pc \in IF req[r].waiter = "result" THEN {"ok", "failed"} ELSE {"failed"} :
         req' = [req EXCEPT ![r].pc = pc]
    /\ UNCHANGED <<seen, latest, rollup, queue, worker, durable, enqueued, rolled, crashes>>

-----------------------------------------------------------------------------
(* Memory-bank workers *)

memory_bank_queue_get(w) ==
    /\ worker[w].pc = "idle"
    /\ queue # <<>>
    /\ worker' = [worker EXCEPT ![w] = [pc |-> "calling", item |-> Head(queue)]]
    /\ queue' = Tail(queue)
    /\ rolled' = IF Head(queue).from = Rollup
                 THEN [rolled EXCEPT ![Head(queue).file] = Head(queue).content] ELSE rolled
    /\ UNCHANGED <<req, seen, latest, rollup, durable, enqueued, crashes>>

Stored(w) == stored \cup ({worker[w].item.from} \ {Rollup})

memory_bank_write(w) ==
    /\ worker[w].pc = "calling"
    /\ stored' = Stored(w)
    /\ worker' = [worker EXCEPT ![w].pc = "stored"]
    /\ UNCHANGED <<req, seen, latest, rollup, queue, raw, seeded, enqueued, rolled, crashes>>

\* The waiter, where there is one, gets the outcome.
Resolved(w, outcome) ==
    LET r == worker[w].item.from IN
    IF r = Rollup \/ Async THEN req ELSE [req EXCEPT ![r].waiter = outcome]

\* History, topic tree and fanout are written.
memory_bank_item_done(w) ==
    /\ worker[w].pc = "stored"
    /\ req' = Resolved(w, "result")
    /\ worker' = [worker EXCEPT ![w] = IdleWorker]
    /\ UNCHANGED <<seen, latest, rollup, queue, durable, enqueued, rolled, crashes>>

\* Mutant: the error is logged and the waiter left alone.
memory_bank_item_raises_unresolved(w) ==
    /\ worker[w].pc # "idle"
    /\ stored' \in IF worker[w].pc = "calling" THEN {stored, Stored(w)} ELSE {stored}
    /\ worker' = [worker EXCEPT ![w] = IdleWorker]
    /\ UNCHANGED <<req, seen, latest, rollup, queue, raw, seeded, enqueued, rolled, crashes>>

\* Mutant: set_result also when the item raised.
memory_bank_item_raises_result(w) ==
    /\ worker[w].pc # "idle"
    /\ stored' \in IF worker[w].pc = "calling" THEN {stored, Stored(w)} ELSE {stored}
    /\ req' = Resolved(w, "result")
    /\ worker' = [worker EXCEPT ![w] = IdleWorker]
    /\ UNCHANGED <<seen, latest, rollup, queue, raw, seeded, enqueued, rolled, crashes>>

\* The tool call raises, perhaps after the bank has taken the content, or a later
\* step does.  Only a waiter hears of it.
memory_bank_item_raises(w) ==
    /\ worker[w].pc # "idle"
    /\ stored' \in IF worker[w].pc = "calling" THEN {stored, Stored(w)} ELSE {stored}
    /\ req' = Resolved(w, "exception")
    /\ worker' = [worker EXCEPT ![w] = IdleWorker]
    /\ UNCHANGED <<seen, latest, rollup, queue, raw, seeded, enqueued, rolled, crashes>>

-----------------------------------------------------------------------------
(* Rollups, expiry and crashes *)

RollupItem(f) == [from |-> Rollup, file |-> f, content |-> rollup[f].hash]

\* Mutant: an entry that found the queue full is not put back.
flush_hot_memory_rollups_lost(due) ==
    \E sent \in SetToAllKPermutations(due) :
        /\ Len(sent) = Min({Cardinality(due), QueueMax - Len(queue)})
        /\ queue' = queue \o [i \in DOMAIN sent |-> RollupItem(sent[i])]
        /\ rollup' = [f \in Hot |-> IF f \in due THEN [rollup[f] EXCEPT !.dirty = FALSE] ELSE rollup[f]]
        /\ UNCHANGED <<req, seen, latest, worker, durable, enqueued, rolled, crashes>>

\* The due entries are marked clean and sent in turn; those that find the queue
\* full are marked dirty again.
flush_hot_memory_rollups(due) ==
    \E sent \in SetToAllKPermutations(due) :
        /\ Len(sent) = Min({Cardinality(due), QueueMax - Len(queue)})
        /\ queue' = queue \o [i \in DOMAIN sent |-> RollupItem(sent[i])]
        /\ rollup' = [f \in Hot |-> IF f \in Range(sent) THEN [rollup[f] EXCEPT !.dirty = FALSE] ELSE rollup[f]]
        /\ UNCHANGED <<req, seen, latest, worker, durable, enqueued, rolled, crashes>>

\* A key outlives its window or is evicted by newer keys.
dedupe_key_expires(k) ==
    /\ k \in seen
    /\ seen' = seen \ {k}
    /\ UNCHANGED <<req, latest, rollup, queue, worker, durable, enqueued, rolled, crashes>>

latest_hash_evicted(f) ==
    /\ latest[f] # NoContent
    /\ latest' = [latest EXCEPT ![f] = NoContent]
    /\ UNCHANGED <<req, seen, rollup, queue, worker, durable, enqueued, rolled, crashes>>

\* Everything but Mongo, the outbox and the memory bank is in memory.
crash ==
    /\ crashes < MaxCrashes
    /\ crashes' = crashes + 1
    /\ req' = [r \in Requests |-> IF req[r].pc \in InProgress THEN [req[r] EXCEPT !.pc = "cut"] ELSE req[r]]
    /\ seen' = {}
    /\ latest' = [f \in Hot |-> NoContent]
    /\ rollup' = [f \in Hot |-> NoEntry]
    /\ queue' = <<>>
    /\ worker' = [w \in Workers |-> IdleWorker]
    /\ rolled' = [f \in Hot |-> NoContent]
    /\ UNCHANGED <<durable, enqueued>>

-----------------------------------------------------------------------------
Handle(r) ==
    \/ \E ok \in BOOLEAN : persist_raw_event_to_mongo(r, ok)
    \/ enqueue_hot_memory_rollup(r)
    \/ enqueue_memory_bank_write(r)
    \/ queue_full(r)
    \/ seed_mongo_retry(r)
    \/ seed_raises(r)
    \/ waiter_resolved(r)

Work(w) ==
    \/ memory_bank_queue_get(w)
    \/ memory_bank_write(w)
    \/ memory_bank_item_done(w)
    \/ memory_bank_item_raises(w)

Next ==
    \/ \E r \in Requests : reject(r) \/ \E f \in Files, c \in Contents : write_memory(r, f, c)
    \/ \E r \in Requests : Handle(r)
    \/ \E w \in Workers : Work(w)
    \/ \E due \in (SUBSET {f \in Hot : rollup[f].dirty}) \ {{}} : flush_hot_memory_rollups(due)
    \/ \E k \in seen : dedupe_key_expires(k)
    \/ \E f \in Hot : latest_hash_evicted(f)
    \/ crash

Spec == Init /\ [][Next]_vars

\* Mongo, SQLite and memory-bank calls have timeouts, so handlers and workers that
\* can take a step do.
Fairness ==
    /\ \A r \in Requests : WF_vars(Handle(r))
    /\ \A w \in Workers : WF_vars(Work(w))

FairSpec == Spec /\ Fairness

-----------------------------------------------------------------------------
(* Properties *)

Request == [pc : Answers \cup InProgress \cup {"none"}, kind : {"plain", "rollup", "unchanged"},
            file : Files, content : Contents \cup {NoContent}, persisted : BOOLEAN,
            waiter : {"none", "result", "exception"}]
Item == [from : Requests \cup {Rollup}, file : Files, content : Contents \cup {NoContent}]

TypeOK ==
    /\ req \in [Requests -> Request]
    /\ seen \subseteq Files \X Contents
    /\ latest \in [Hot -> Contents \cup {NoContent}]
    /\ rollup \in [Hot -> [hash : Contents \cup {NoContent}, dirty : BOOLEAN]]
    /\ queue \in Seq(Item) /\ Len(queue) <= QueueMax
    /\ worker \in [Workers -> [pc : {"idle", "calling", "stored"}, item : Item]]
    /\ raw \cup seeded \cup stored \cup enqueued \subseteq Requests
    /\ rolled \in [Hot -> Contents \cup {NoContent}]
    /\ crashes \in 0..MaxCrashes

\* Every write that is answered "ok" or "unchanged" has its raw event in Mongo or in
\* the outbox, whichever way it took (buffered, queued, unchanged), whatever became of
\* its memory-bank write, and across crashes.
AnsweredIsRaw ==
    \A r \in Requests : req[r].pc \in {"ok", "unchanged"} => r \in raw \cup seeded

\* With MEMORY_WRITE_ASYNC off, a plain write that is answered "ok" is in the memory
\* bank: the waiter is resolved by the worker that stored it, even when that happened
\* while the request was still seeding its raw event.
OkIsStored ==
    \A r \in Requests : ~Async /\ req[r].pc = "ok" /\ req[r].kind = "plain" => r \in stored

\* Where memory_bank_queue holds rollups of file f.
RollupsAt(f) == {i \in DOMAIN queue : queue[i].from = Rollup /\ queue[i].file = f}

\* A rollup entry with nothing left to flush has been handed over as it is: writes
\* buffered around a flush, and flushes that find the queue full, never leave a clean
\* entry whose newest hash is not the last one queued or, with none queued, taken.
RollupFresh ==
    \A f \in Hot : ~rollup[f].dirty =>
        /\ RollupsAt(f) = {} => rolled[f] = rollup[f].hash
        /\ \A i \in RollupsAt(f) :
             (\A j \in RollupsAt(f) : j <= i) => queue[i].content = rollup[f].hash

\* Every write request is eventually answered: the waiter is resolved on every path of
\* the memory-bank worker, and no other wait of the handler is unbounded.
RequestsAnswered ==
    \A r \in Requests : []<>(req[r].pc \notin InProgress)

\* The answer a caller has got.
AnswerOf(r) == IF req[r].pc \in Answers THEN req[r].pc ELSE "none"

Contract == INSTANCE WriteContract WITH
                Clients <- Requests, answer <- [r \in Requests |-> AnswerOf(r)], safe <- raw \cup seeded

\* The handler with its queue, buffer, workers and crashes implements the contract of
\* WriteContract: no answer is revised, none promises a copy that is yet to be made, no
\* copy is given up, and only a crash cuts off more than one request at a time.
KeepsContract == Contract!Spec

\* A write that is acknowledged, as a duplicate too, has reached the memory-bank queue
\* or the rollup buffer, or a request with the same content is still under way: the
\* duplicate window answers for a write that was taken, not for one that was refused.
AcknowledgedIsEnqueued ==
    \A r \in Requests : req[r].pc \in {"ok", "deduped"} =>
        \E q \in Requests : /\ <<req[q].file, req[q].content>> = <<req[r].file, req[r].content>>
                            /\ q \in enqueued \/ req[q].pc \in InProgress

=============================================================================

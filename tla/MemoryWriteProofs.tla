-------------------------- MODULE MemoryWriteProofs --------------------------
(***************************************************************************)
(* What an answer of POST /memory/write guarantees, for any number of      *)
(* requests, files, workers and crashes: a write that is acknowledged is   *)
(* raw-durable, and a synchronous one is in the memory bank.               *)
(***************************************************************************)
EXTENDS MemoryWrite, FiniteSetTheorems, SequenceTheorems, TLAPS

\* The strengthening of AnsweredIsRaw: a request knows whether its raw event is in
\* Mongo, and does not wait for the memory bank before the event is safe.
RawSafe ==
    \A r \in Requests : /\ req[r].persisted => r \in raw
                        /\ req[r].pc \in {"ok", "unchanged", "waiting"} => r \in raw \cup seeded

\* The strengthening of OkIsStored: a waiter with a result, and an item whose tool call
\* has returned, belong to requests that are stored.
StoredSafe ==
    /\ \A r \in Requests : req[r].waiter = "result" => r \in stored
    /\ \A w \in Workers : worker[w].pc = "stored" => worker[w].item.from \in stored \cup {Rollup}
    /\ OkIsStored

IInv == TypeOK /\ RawSafe /\ StoredSafe

\* The initial records are well typed.
LEMMA EmptyFacts ==
    /\ NoRequest \in Request
    /\ IdleWorker \in [pc : {"idle", "calling", "stored"}, item : Item]
    /\ NoRequest.pc = "none" /\ NoRequest.waiter = "none" /\ ~NoRequest.persisted
    /\ IdleWorker.pc = "idle"
    /\ \A f \in Hot : NoEntry \in [hash : Contents \cup {NoContent}, dirty : BOOLEAN]
  <1>1. (CHOOSE f \in Files : TRUE) \in Files
    BY Zenon, MemoryWriteAssumption
  <1> QED  BY Zenon, <1>1 DEF NoRequest, Request, IdleWorker, Item, NoEntry, Rollup

\* The invariant holds at the start.
LEMMA InitIInv == Init => IInv
  <1> SUFFICES ASSUME Init PROVE IInv
    BY Zenon
  <1> USE EmptyFacts
  <1>1. TypeOK
    BY MemoryWriteAssumption DEF Init, TypeOK
  <1>2. RawSafe
    BY Zenon DEF Init, RawSafe
  <1>3. StoredSafe
    BY DEF Init, StoredSafe, OkIsStored
  <1> QED  BY Zenon, <1>1, <1>2, <1>3 DEF IInv

-----------------------------------------------------------------------------
(* Steps of a request *)

\* A request moves on: what it must have secured for its new program counter.
LEMMA PcStep ==
    ASSUME IInv, NEW r \in Requests, NEW pc \in Answers \cup InProgress,
           req' = [req EXCEPT ![r].pc = pc],
           raw \subseteq raw', seeded \subseteq seeded', stored' = stored, worker' = worker,
           pc \in {"ok", "unchanged", "waiting"} => r \in raw' \cup seeded',
           pc = "ok" /\ req[r].kind = "plain" /\ ~Async => r \in stored
    PROVE  req' \in [Requests -> Request] /\ RawSafe' /\ StoredSafe'
  <1> USE DEF IInv
  <1>1. req \in [Requests -> Request]
    BY Zenon DEF TypeOK
  <1>2. /\ req'[r] = [req[r] EXCEPT !.pc = pc]
        /\ \A q \in Requests : q # r => req'[q] = req[q]
        /\ req[r] \in Request
    BY Zenon, <1>1
  <1>3. /\ req'[r] \in Request
        /\ req'[r].pc = pc /\ req'[r].kind = req[r].kind
        /\ req'[r].waiter = req[r].waiter
    BY <1>2 DEF Request
  <1>p. req'[r].persisted = req[r].persisted
    BY <1>2 DEF Request
  <1>4. req' \in [Requests -> Request]
    BY Zenon, <1>1, <1>2, <1>3
  <1>5. RawSafe'
    BY Zenon, <1>2, <1>3, <1>p DEF RawSafe
  <1>6. StoredSafe'
    BY <1>2, <1>3 DEF StoredSafe, OkIsStored
  <1> QED  BY Zenon, <1>4, <1>5, <1>6

\* Where a request whose raw event is safe may go.
LEMMA ThenFacts ==
    ASSUME IInv, NEW r \in Requests, NEW pc \in Then(r)
    PROVE  /\ pc \in Answers \cup InProgress
           /\ pc = "ok" => req[r].kind # "plain" \/ Async
  <1>1. req[r].kind \in {"plain", "rollup", "unchanged"}
    BY Zenon DEF IInv, TypeOK, Request
  <1> QED  BY Zenon, <1>1 DEF Then, Answers, InProgress

\* A rejected request secures nothing and is told nothing.
LEMMA RejectStep ==
    ASSUME IInv, NEW r \in Requests, reject(r)
    PROVE  IInv'
  <1>1. "rejected" \in Answers \cup InProgress
    BY Zenon DEF Answers
  <1>2. req' \in [Requests -> Request] /\ RawSafe' /\ StoredSafe'
    BY Zenon, <1>1, PcStep DEF reject, durable
  <1>3. TypeOK'
    BY Zenon, <1>2 DEF IInv, TypeOK, reject, durable
  <1> QED  BY <1>2, <1>3 DEF IInv

\* write_memory: the duplicate checks.
LEMMA WriteStep ==
    ASSUME IInv, NEW r \in Requests, NEW f \in Files, NEW c \in Contents, write_memory(r, f, c)
    PROVE  IInv'
  <1> DEFINE unchanged == should_skip_unchanged_latest_hash(f, c)
             duplicate == should_skip_duplicate_memory_write(f, c)
             pc == IF duplicate /\ ~unchanged THEN "deduped" ELSE "persisting"
             kind == CASE unchanged -> "unchanged"
                       [] ~unchanged /\ f \in Hot /\ RollupEnabled -> "rollup"
                       [] OTHER -> "plain"
  <1>1. /\ req \in [Requests -> Request]
        /\ req' = [req EXCEPT ![r] = [@ EXCEPT !.file = f, !.content = c, !.pc = pc, !.kind = kind]]
        /\ pc \in {"deduped", "persisting"}
        /\ UNCHANGED <<rollup, queue, worker, raw, seeded, stored, enqueued, rolled, crashes>>
    BY Zenon DEF IInv, TypeOK, write_memory, durable
  <1>2. kind \in {"plain", "rollup", "unchanged"}
    BY Zenon
  <1>3. /\ latest' \in [Hot -> Contents \cup {NoContent}]
        /\ seen' \subseteq Files \X Contents
    BY DEF IInv, TypeOK, write_memory
  <1> HIDE DEF pc, kind, unchanged, duplicate
  <1>4. /\ req'[r] = [req[r] EXCEPT !.file = f, !.content = c, !.pc = pc, !.kind = kind]
        /\ \A q \in Requests : q # r => req'[q] = req[q]
        /\ req[r] \in Request
    BY Zenon, <1>1
  <1>5. /\ req'[r] \in Request
        /\ req'[r].pc = pc /\ req'[r].waiter = req[r].waiter
    BY <1>1, <1>2, <1>4 DEF Request, Answers, InProgress
  <1>6. req'[r].persisted = req[r].persisted
    BY Zenon, <1>4 DEF Request
  <1>7. req' \in [Requests -> Request]
    BY <1>1, <1>4, <1>5
  <1>8. TypeOK'
    BY Zenon, <1>1, <1>3, <1>7 DEF IInv, TypeOK
  <1>9. RawSafe'
    BY Zenon, <1>1, <1>4, <1>5, <1>6 DEF IInv, RawSafe
  <1>10. StoredSafe'
    BY Zenon, <1>1, <1>4, <1>5 DEF IInv, StoredSafe, OkIsStored
  <1> QED  BY <1>8, <1>9, <1>10 DEF IInv

\* The raw upsert: persisted only when Mongo took it.
LEMMA PersistStep ==
    ASSUME IInv, NEW r \in Requests, NEW ok \in BOOLEAN, persist_raw_event_to_mongo(r, ok)
    PROVE  IInv'
  <1> DEFINE pc == IF req[r].kind # "unchanged" THEN "enqueueing"
                   ELSE IF ok THEN "unchanged" ELSE "seeding"
  <1>1. /\ req \in [Requests -> Request]
        /\ req' = [req EXCEPT ![r].persisted = ok, ![r].pc = pc]
        /\ pc \in {"enqueueing", "unchanged", "seeding"}
        /\ pc = "unchanged" => ok
    BY Zenon DEF IInv, TypeOK, persist_raw_event_to_mongo
  <1>2. /\ raw \subseteq raw' /\ raw' \subseteq raw \cup {r}
        /\ ok => r \in raw'
        /\ UNCHANGED <<seen, latest, rollup, queue, worker, seeded, stored, enqueued, rolled, crashes>>
    BY Zenon DEF persist_raw_event_to_mongo
  <1> HIDE DEF pc
  <1>3. /\ req'[r] = [req[r] EXCEPT !.persisted = ok, !.pc = pc]
        /\ \A q \in Requests : q # r => req'[q] = req[q]
        /\ req[r] \in Request
    BY Zenon, <1>1
  <1>4. req'[r] \in Request /\ req'[r].pc = pc /\ req'[r].waiter = req[r].waiter
    BY Zenon, <1>1, <1>3 DEF Request, Answers, InProgress
  <1>5. req'[r].persisted = ok
    BY Zenon, <1>3 DEF Request
  <1>6. req' \in [Requests -> Request]
    BY <1>1, <1>3, <1>4
  <1>7. TypeOK'
    BY <1>2, <1>6 DEF IInv, TypeOK
  <1>8. RawSafe'
    BY Zenon, <1>1, <1>2, <1>3, <1>4, <1>5 DEF IInv, RawSafe
  <1>9. StoredSafe'
    BY Zenon, <1>1, <1>2, <1>3, <1>4 DEF IInv, StoredSafe, OkIsStored
  <1> QED  BY Zenon, <1>7, <1>8, <1>9 DEF IInv

\* After the write is queued or buffered, a raw event that Mongo refused is seeded first.
LEMMA EnqueuedFacts ==
    ASSUME IInv, NEW r \in Requests,
           NEW pc \in IF req[r].persisted THEN Then(r) ELSE {"seeding"}
    PROVE  /\ pc \in Answers \cup InProgress
           /\ pc \in {"ok", "unchanged", "waiting"} => r \in raw
           /\ pc = "ok" => req[r].kind # "plain" \/ Async
  <1>1. CASE req[r].persisted
    BY Zenon, <1>1, ThenFacts DEF IInv, RawSafe
  <1>2. CASE ~req[r].persisted
    BY <1>2 DEF InProgress
  <1> QED  BY <1>1, <1>2

\* The write goes to the rollup buffer.
LEMMA BufferStep ==
    ASSUME IInv, NEW r \in Requests, enqueue_hot_memory_rollup(r)
    PROVE  IInv'
  <1>1. PICK pc \in IF req[r].persisted THEN Then(r) ELSE {"seeding"} : req' = [req EXCEPT ![r].pc = pc]
    BY Zenon DEF enqueue_hot_memory_rollup
  <1>2. req' \in [Requests -> Request] /\ RawSafe' /\ StoredSafe'
    BY Zenon, <1>1, EnqueuedFacts, PcStep DEF enqueue_hot_memory_rollup, durable
  <1>3. req[r].file \in Files /\ req[r].content \in Contents \cup {NoContent}
    BY Zenon DEF IInv, TypeOK, Request
  <1>4. rollup' \in [Hot -> [hash : Contents \cup {NoContent}, dirty : BOOLEAN]]
    BY Zenon, <1>3 DEF IInv, TypeOK, enqueue_hot_memory_rollup
  <1>5. TypeOK'
    BY Zenon, <1>2, <1>4 DEF IInv, TypeOK, enqueue_hot_memory_rollup, durable
  <1> QED  BY Zenon, <1>2, <1>5 DEF IInv

\* The write goes to memory_bank_queue.
LEMMA QueueStep ==
    ASSUME IInv, NEW r \in Requests, enqueue_memory_bank_write(r)
    PROVE  IInv'
  <1>1. PICK pc \in IF req[r].persisted THEN Then(r) ELSE {"seeding"} : req' = [req EXCEPT ![r].pc = pc]
    BY Zenon DEF enqueue_memory_bank_write
  <1>2. req' \in [Requests -> Request] /\ RawSafe' /\ StoredSafe'
    BY Zenon, <1>1, EnqueuedFacts, PcStep DEF enqueue_memory_bank_write, durable
  <1>3. [from |-> r, file |-> req[r].file, content |-> req[r].content] \in Item
    BY Zenon DEF IInv, TypeOK, Request, Item
  <1>4. queue' \in Seq(Item) /\ Len(queue') <= QueueMax
    BY <1>3, MemoryWriteAssumption DEF IInv, TypeOK, enqueue_memory_bank_write
  <1>5. TypeOK'
    BY <1>2, <1>4 DEF IInv, TypeOK, enqueue_memory_bank_write, durable
  <1> QED  BY <1>2, <1>5 DEF IInv

\* The queue is full: 503.
LEMMA QueueFullStep ==
    ASSUME IInv, NEW r \in Requests, queue_full(r)
    PROVE  IInv'
  <1>1. "queue_full" \in Answers \cup InProgress
    BY Zenon DEF Answers
  <1>2. req' \in [Requests -> Request] /\ RawSafe' /\ StoredSafe'
    BY Zenon, <1>1, PcStep DEF queue_full, durable
  <1>3. TypeOK'
    BY Zenon, <1>2 DEF IInv, TypeOK, queue_full, durable
  <1> QED  BY <1>2, <1>3 DEF IInv

\* The refused raw event is seeded in the outbox.
LEMMA SeedStep ==
    ASSUME IInv, NEW r \in Requests, seed_mongo_retry(r)
    PROVE  IInv'
  <1>1. PICK pc \in Then(r) : req' = [req EXCEPT ![r].pc = pc]
    BY Zenon DEF seed_mongo_retry
  <1>2. req' \in [Requests -> Request] /\ RawSafe' /\ StoredSafe'
    BY Zenon, <1>1, ThenFacts, PcStep DEF seed_mongo_retry
  <1>3. TypeOK'
    BY Zenon, <1>2 DEF IInv, TypeOK, seed_mongo_retry
  <1> QED  BY <1>2, <1>3 DEF IInv

\* Seeding fails: the request does too.
LEMMA SeedRaisesStep ==
    ASSUME IInv, NEW r \in Requests, seed_raises(r)
    PROVE  IInv'
  <1>1. "failed" \in Answers \cup InProgress
    BY Zenon DEF Answers
  <1>2. req' \in [Requests -> Request] /\ RawSafe' /\ StoredSafe'
    BY Zenon, <1>1, PcStep DEF seed_raises, durable
  <1>3. TypeOK'
    BY Zenon, <1>2 DEF IInv, TypeOK, seed_raises, durable
  <1> QED  BY <1>2, <1>3 DEF IInv

\* The waiter is resolved.
LEMMA WaiterStep ==
    ASSUME IInv, NEW r \in Requests, waiter_resolved(r)
    PROVE  IInv'
  <1>1. PICK pc \in IF req[r].waiter = "result" THEN {"ok", "failed"} ELSE {"failed"} :
           req' = [req EXCEPT ![r].pc = pc]
    BY Zenon DEF waiter_resolved
  <1>2. pc \in {"ok", "failed"} /\ pc \in Answers \cup InProgress
    BY Zenon, <1>1 DEF Answers
  <1>3. /\ pc = "ok" => r \in stored
        /\ r \in raw \cup seeded
    BY Zenon, <1>1 DEF IInv, StoredSafe, RawSafe, waiter_resolved
  <1>4. req' \in [Requests -> Request] /\ RawSafe' /\ StoredSafe'
    BY Zenon, <1>1, <1>2, <1>3, PcStep DEF waiter_resolved, durable
  <1>5. TypeOK'
    BY <1>4 DEF IInv, TypeOK, waiter_resolved, durable
  <1> QED  BY Zenon, <1>4, <1>5 DEF IInv

\* Every step of a request keeps the invariant.
LEMMA HandleStep ==
    ASSUME IInv, NEW r \in Requests, Handle(r)
    PROVE  IInv'
  BY Zenon, PersistStep, BufferStep, QueueStep, QueueFullStep, SeedStep, SeedRaisesStep, WaiterStep DEF Handle

-----------------------------------------------------------------------------
(* Steps of a memory-bank worker *)

\* A worker takes the head of the queue.
LEMMA GetStep ==
    ASSUME IInv, NEW w \in Workers, memory_bank_queue_get(w)
    PROVE  IInv'
  <1>1. Head(queue) \in Item /\ Tail(queue) \in Seq(Item) /\ Len(Tail(queue)) <= QueueMax
    BY MemoryWriteAssumption DEF IInv, TypeOK, memory_bank_queue_get
  <1>2. worker' \in [Workers -> [pc : {"idle", "calling", "stored"}, item : Item]]
    BY Zenon, <1>1 DEF IInv, TypeOK, memory_bank_queue_get
  <1>3. rolled' \in [Hot -> Contents \cup {NoContent}]
    BY Zenon, <1>1 DEF IInv, TypeOK, memory_bank_queue_get, Item
  <1>4. TypeOK'
    BY Zenon, <1>1, <1>2, <1>3 DEF IInv, TypeOK, memory_bank_queue_get, durable
  <1>5. RawSafe'
    BY DEF IInv, RawSafe, memory_bank_queue_get, durable
  <1>6. /\ worker'[w].pc = "calling"
        /\ \A v \in Workers : v # w => worker'[v] = worker[v]
    BY Zenon DEF IInv, TypeOK, memory_bank_queue_get
  <1>7. StoredSafe'
    BY Zenon, <1>6 DEF IInv, StoredSafe, OkIsStored, memory_bank_queue_get, durable
  <1> QED  BY Zenon, <1>4, <1>5, <1>7 DEF IInv

\* The memory bank takes the content.
LEMMA BankWriteStep ==
    ASSUME IInv, NEW w \in Workers, memory_bank_write(w)
    PROVE  IInv'
  <1>1. worker[w] \in [pc : {"idle", "calling", "stored"}, item : Item]
    BY Zenon DEF IInv, TypeOK
  <1>2. /\ worker' \in [Workers -> [pc : {"idle", "calling", "stored"}, item : Item]]
        /\ worker'[w].item = worker[w].item
        /\ \A v \in Workers : v # w => worker'[v] = worker[v]
    BY Zenon, <1>1 DEF IInv, TypeOK, memory_bank_write
  <1>3. /\ stored \subseteq stored' /\ stored' \subseteq Requests
        /\ worker[w].item.from \in stored' \cup {Rollup}
    BY <1>1 DEF IInv, TypeOK, memory_bank_write, Stored, Item
  <1>4. TypeOK'
    BY Zenon, <1>2, <1>3 DEF IInv, TypeOK, memory_bank_write
  <1>5. RawSafe'
    BY Zenon DEF IInv, RawSafe, memory_bank_write
  <1>6. StoredSafe'
    BY Zenon, <1>2, <1>3 DEF IInv, StoredSafe, OkIsStored, memory_bank_write
  <1> QED  BY <1>4, <1>5, <1>6 DEF IInv

\* A worker finishes an item: the waiter may hear of a result only for a stored request.
LEMMA ResolvedFacts ==
    ASSUME IInv, NEW w \in Workers, NEW outcome \in {"result", "exception"},
           req' = Resolved(w, outcome), worker' = [worker EXCEPT ![w] = IdleWorker],
           raw' = raw, seeded' = seeded, stored \subseteq stored',
           outcome = "result" => worker[w].item.from \in stored \cup {Rollup}
    PROVE  /\ req' \in [Requests -> Request]
           /\ worker' \in [Workers -> [pc : {"idle", "calling", "stored"}, item : Item]]
           /\ RawSafe' /\ StoredSafe'
  <1> DEFINE r == worker[w].item.from
  <1>1. req \in [Requests -> Request] /\ r \in Requests \cup {Rollup}
    BY Zenon DEF IInv, TypeOK, Item
  <1>2. /\ worker' \in [Workers -> [pc : {"idle", "calling", "stored"}, item : Item]]
        /\ worker'[w].pc = "idle"
        /\ \A v \in Workers : v # w => worker'[v] = worker[v]
    BY Zenon, EmptyFacts DEF IInv, TypeOK
  <1>3. CASE r = Rollup \/ Async
    <2>1. req' = req
      BY Zenon, <1>3 DEF Resolved
    <2> QED  BY Zenon, <1>1, <1>2, <2>1 DEF IInv, RawSafe, StoredSafe, OkIsStored
  <1>4. CASE ~(r = Rollup \/ Async)
    <2>1. r \in Requests /\ req' = [req EXCEPT ![r].waiter = outcome]
      BY Zenon, <1>1, <1>4 DEF Resolved
    <2> HIDE DEF r
    <2>2. /\ req'[r] = [req[r] EXCEPT !.waiter = outcome]
          /\ \A q \in Requests : q # r => req'[q] = req[q]
          /\ req[r] \in Request
      BY Zenon, <1>1, <2>1
    <2>3. /\ req'[r] \in Request
          /\ req'[r].pc = req[r].pc /\ req'[r].kind = req[r].kind /\ req'[r].waiter = outcome
      BY Zenon, <2>2 DEF Request
    <2>4. req'[r].persisted = req[r].persisted
      BY Zenon, <2>2 DEF Request
    <2>5. req' \in [Requests -> Request]
      BY Zenon, <1>1, <2>1, <2>2, <2>3
    <2>6. RawSafe'
      BY Zenon, <2>1, <2>2, <2>3, <2>4 DEF IInv, RawSafe
    <2>7. outcome = "result" => r \in stored
      BY Zenon, <1>4, <2>1 DEF r
    <2>8. StoredSafe'
      BY Zenon, <1>2, <2>1, <2>2, <2>3, <2>7 DEF IInv, StoredSafe, OkIsStored
    <2> QED  BY Zenon, <1>2, <2>5, <2>6, <2>8
  <1> QED  BY Zenon, <1>3, <1>4

\* The worker reports the result of a stored item.
LEMMA DoneStep ==
    ASSUME IInv, NEW w \in Workers, memory_bank_item_done(w)
    PROVE  IInv'
  <1>1. worker[w].item.from \in stored \cup {Rollup}
    BY Zenon DEF IInv, StoredSafe, memory_bank_item_done
  <1>2. /\ req' \in [Requests -> Request]
        /\ worker' \in [Workers -> [pc : {"idle", "calling", "stored"}, item : Item]]
        /\ RawSafe' /\ StoredSafe'
    BY Zenon, <1>1, ResolvedFacts DEF memory_bank_item_done, durable
  <1>3. TypeOK'
    BY Zenon, <1>2 DEF IInv, TypeOK, memory_bank_item_done, durable
  <1> QED  BY Zenon, <1>2, <1>3 DEF IInv

\* The worker reports an error.
LEMMA RaisesStep ==
    ASSUME IInv, NEW w \in Workers, memory_bank_item_raises(w)
    PROVE  IInv'
  <1>1. stored \subseteq stored' /\ stored' \subseteq Requests
    BY DEF IInv, TypeOK, memory_bank_item_raises, Stored, Item
  <1>2. /\ req' \in [Requests -> Request]
        /\ worker' \in [Workers -> [pc : {"idle", "calling", "stored"}, item : Item]]
        /\ RawSafe' /\ StoredSafe'
    BY Zenon, <1>1, ResolvedFacts DEF memory_bank_item_raises
  <1>3. TypeOK'
    BY Zenon, <1>1, <1>2 DEF IInv, TypeOK, memory_bank_item_raises
  <1> QED  BY <1>2, <1>3 DEF IInv

\* Every step of a worker keeps the invariant.
LEMMA WorkStep ==
    ASSUME IInv, NEW w \in Workers, Work(w)
    PROVE  IInv'
  BY Zenon, GetStep, BankWriteStep, DoneStep, RaisesStep DEF Work

-----------------------------------------------------------------------------
(* Rollups, expiry and crashes *)

\* Min of a pair is at most either.
LEMMA MinOfTwo ==
    ASSUME NEW a \in Int, NEW b \in Int
    PROVE  Min({a, b}) <= a /\ Min({a, b}) <= b
  <1>1. \E x \in {a, b} : \A y \in {a, b} : x <= y
    <2>1. CASE a <= b  BY <2>1
    <2>2. CASE b <= a  BY <2>2
    <2> QED  BY <2>1, <2>2
  <1> QED  BY Zenon, <1>1 DEF Min

\* The elements of a concatenation.
LEMMA ConcatFacts ==
    ASSUME NEW S, NEW s \in Seq(S), NEW t \in Seq(S), NEW u, u = s \o t
    PROVE  /\ u \in Seq(S) /\ Len(u) = Len(s) + Len(t)
           /\ \A i \in 1..Len(s) : u[i] = s[i]
           /\ \A k \in 1..Len(t) : u[Len(s) + k] = t[k]
  <1>1. /\ u \in Seq(S) /\ Len(u) = Len(s) + Len(t)
        /\ \A i \in 1..Len(s) + Len(t) : u[i] = IF i <= Len(s) THEN s[i] ELSE t[i - Len(s)]
    BY Zenon, ConcatProperties
  <1>2. Len(s) \in Nat /\ Len(t) \in Nat
    BY Zenon, LenProperties
  <1>3. \A i \in 1..Len(s) : u[i] = s[i]
    BY <1>1, <1>2
  <1>4. ASSUME NEW k \in 1..Len(t) PROVE u[Len(s) + k] = t[k]
    <2>1. Len(s) + k \in 1..Len(s) + Len(t) /\ ~(Len(s) + k <= Len(s)) /\ (Len(s) + k) - Len(s) = k
      BY <1>2
    <2> QED  BY Zenon, <1>1, <2>1
  <1> QED  BY Zenon, <1>1, <1>3, <1>4

\* What flush_hot_memory_rollups puts on the queue: rollups of due files, after what
\* is there, and no more than fit.
LEMMA FlushFacts ==
    ASSUME IInv, NEW due \in SUBSET Hot, NEW sent \in SetToAllKPermutations(due),
           Len(sent) = Min({Cardinality(due), QueueMax - Len(queue)}),
           queue' = queue \o [i \in DOMAIN sent |-> RollupItem(sent[i])]
    PROVE  /\ sent \in Seq(due)
           /\ queue' \in Seq(Item) /\ Len(queue') <= QueueMax
           /\ Len(queue') = Len(queue) + Len(sent)
           /\ \A i \in 1..Len(queue) : queue'[i] = queue[i]
           /\ \A k \in 1..Len(sent) : queue'[Len(queue) + k] = RollupItem(sent[k])
  <1>1. PICK s \in SUBSET due : sent \in SetToSeqs(s)
    BY Zenon DEF SetToAllKPermutations
  <1>2. /\ IsFiniteSet(due) /\ Cardinality(due) \in Nat
        /\ IsFiniteSet(s) /\ Cardinality(s) \in Nat
    BY MemoryWriteAssumption, FS_Subset, FS_CardinalityType
  <1>3. sent \in [1..Cardinality(s) -> s]
    BY <1>1 DEF SetToSeqs
  <1>4. sent \in Seq(due) /\ DOMAIN sent = 1..Len(sent) /\ Len(sent) \in Nat
    BY <1>2, <1>3
  <1>5. queue \in Seq(Item) /\ Len(queue) \in Nat /\ QueueMax \in Nat
    BY MemoryWriteAssumption DEF IInv, TypeOK
  <1>6. Len(sent) <= QueueMax - Len(queue)
    <2> DEFINE n == Cardinality(due)
               room == QueueMax - Len(queue)
    <2>1. n \in Int /\ room \in Int
      BY <1>2, <1>5
    <2> HIDE DEF n, room
    <2>2. Min({n, room}) <= room
      BY Zenon, <2>1, MinOfTwo
    <2> QED  BY Zenon, <2>2 DEF n, room
  <1>7. \A f \in due : RollupItem(f) \in Item
    <2> SUFFICES ASSUME NEW f \in due PROVE RollupItem(f) \in Item
      BY Zenon
    <2>1. f \in Files /\ rollup[f].hash \in Contents \cup {NoContent}
      BY MemoryWriteAssumption DEF IInv, TypeOK
    <2> QED  BY Zenon, <2>1 DEF RollupItem, Item
  <1> DEFINE items == [i \in DOMAIN sent |-> RollupItem(sent[i])]
  <1>8. items \in Seq(Item) /\ Len(items) = Len(sent)
        /\ \A k \in 1..Len(sent) : items[k] = RollupItem(sent[k])
    <2>1. \A k \in 1..Len(sent) : sent[k] \in due
      BY <1>4
    <2>2. items \in [1..Len(sent) -> Item]
      BY Zenon, <1>4, <1>7, <2>1
    <2>3. \A k \in 1..Len(sent) : items[k] = RollupItem(sent[k])
      BY Zenon, <1>4
    <2> HIDE DEF items
    <2>4. items \in Seq(Item)
      BY Zenon, <1>4, <2>2, SeqDef
    <2>5. Len(items) = Len(sent)
      <3>1. DOMAIN items = 1..Len(sent) /\ DOMAIN items = 1..Len(items) /\ Len(items) \in Nat
        BY <2>2, <2>4, LenProperties
      <3> QED  BY <1>4, <3>1
    <2> QED  BY Zenon, <2>3, <2>4, <2>5
  <1> HIDE DEF items
  <1>9. queue' = queue \o items
    BY Zenon DEF items
  <1>10. /\ queue' \in Seq(Item) /\ Len(queue') = Len(queue) + Len(items)
         /\ \A i \in 1..Len(queue) : queue'[i] = queue[i]
         /\ \A k \in 1..Len(items) : queue'[Len(queue) + k] = items[k]
    <2>1. queue \in Seq(Item) /\ items \in Seq(Item)
      BY Zenon, <1>5, <1>8
    <2> DEFINE q == queue
               u == queue'
    <2>2. q \in Seq(Item) /\ u = q \o items
      BY Zenon, <1>9, <2>1
    <2> HIDE DEF q, u
    <2>3. /\ u \in Seq(Item) /\ Len(u) = Len(q) + Len(items)
          /\ \A i \in 1..Len(q) : u[i] = q[i]
          /\ \A k \in 1..Len(items) : u[Len(q) + k] = items[k]
      BY ONLY <2>1, <2>2, ConcatFacts
    <2> QED  BY Zenon, <2>3 DEF q, u
  <1>11. ASSUME NEW k \in 1..Len(sent)
         PROVE  queue'[Len(queue) + k] = RollupItem(sent[k])
    <2>1. k \in 1..Len(items) /\ items[k] = RollupItem(sent[k])
      BY Zenon, <1>8
    <2> QED  BY Zenon, <1>10, <2>1
  <1>12. Len(queue') = Len(queue) + Len(sent) /\ Len(queue') <= QueueMax
    BY <1>4, <1>5, <1>6, <1>8, <1>10
  <1> QED  BY Zenon, <1>4, <1>10, <1>11, <1>12

\* A flush keeps the queue within its bound.
LEMMA FlushStep ==
    ASSUME IInv, NEW due \in SUBSET Hot, flush_hot_memory_rollups(due)
    PROVE  IInv'
  <1>1. PICK sent \in SetToAllKPermutations(due) :
          /\ Len(sent) = Min({Cardinality(due), QueueMax - Len(queue)})
          /\ queue' = queue \o [i \in DOMAIN sent |-> RollupItem(sent[i])]
          /\ rollup' = [f \in Hot |-> IF f \in Range(sent) THEN [rollup[f] EXCEPT !.dirty = FALSE]
                                     ELSE rollup[f]]
          /\ UNCHANGED <<req, seen, latest, worker, durable, enqueued, rolled, crashes>>
    BY Zenon DEF flush_hot_memory_rollups
  <1>2. queue' \in Seq(Item) /\ Len(queue') <= QueueMax
    BY Zenon, <1>1, FlushFacts
  <1>3. rollup' \in [Hot -> [hash : Contents \cup {NoContent}, dirty : BOOLEAN]]
    <2>1. rollup \in [Hot -> [hash : Contents \cup {NoContent}, dirty : BOOLEAN]]
      BY Zenon DEF IInv, TypeOK
    <2>2. \A e \in [hash : Contents \cup {NoContent}, dirty : BOOLEAN] :
            [e EXCEPT !.dirty = FALSE] \in [hash : Contents \cup {NoContent}, dirty : BOOLEAN]
      BY Zenon
    <2> QED  BY Zenon, <1>1, <2>1, <2>2
  <1>4. TypeOK'
    BY Zenon, <1>1, <1>2, <1>3 DEF IInv, TypeOK, durable
  <1>5. RawSafe' /\ StoredSafe'
    BY <1>1 DEF IInv, RawSafe, StoredSafe, OkIsStored, durable
  <1> QED  BY Zenon, <1>4, <1>5 DEF IInv

\* Forgetting a key or a hash.
LEMMA ExpiryStep ==
    ASSUME IInv, \/ \E k \in seen : dedupe_key_expires(k)
                 \/ \E f \in Hot : latest_hash_evicted(f)
    PROVE  IInv'
  <1>1. UNCHANGED <<req, rollup, queue, worker, raw, seeded, stored, enqueued, rolled, crashes>>
    BY Zenon DEF dedupe_key_expires, latest_hash_evicted, durable
  <1>2. /\ seen' \subseteq Files \X Contents
        /\ latest' \in [Hot -> Contents \cup {NoContent}]
    BY Zenon DEF IInv, TypeOK, dedupe_key_expires, latest_hash_evicted
  <1>3. TypeOK'
    BY Zenon, <1>1, <1>2 DEF IInv, TypeOK
  <1>4. RawSafe' /\ StoredSafe'
    BY Zenon, <1>1 DEF IInv, RawSafe, StoredSafe, OkIsStored
  <1> QED  BY Zenon, <1>3, <1>4 DEF IInv

\* A crash loses what is in memory and keeps what is durable.
LEMMA CrashStep ==
    ASSUME IInv, crash
    PROVE  IInv'
  <1>1. req \in [Requests -> Request]
    BY Zenon DEF IInv, TypeOK
  <1>2. ASSUME NEW r \in Requests
        PROVE  /\ req'[r] \in Request
               /\ req'[r].pc \in {req[r].pc, "cut"} /\ req'[r].kind = req[r].kind
               /\ req'[r].waiter = req[r].waiter
    <2>1. req[r] \in Request /\ req'[r] \in {req[r], [req[r] EXCEPT !.pc = "cut"]}
      BY Zenon, <1>1 DEF crash
    <2> QED  BY Zenon, <2>1 DEF Request, Answers
  <1>3. ASSUME NEW r \in Requests
        PROVE  req'[r].persisted = req[r].persisted
    <2>1. req[r] \in Request /\ req'[r] \in {req[r], [req[r] EXCEPT !.pc = "cut"]}
      BY <1>1 DEF crash
    <2> QED  BY Zenon, <2>1 DEF Request
  <1>4. req' \in [Requests -> Request]
    BY Zenon, <1>2 DEF crash
  <1>5. UNCHANGED <<raw, seeded, stored, enqueued>>
    BY Zenon DEF crash, durable
  <1>6. worker' = [w \in Workers |-> IdleWorker]
    BY Zenon DEF crash
  <1>7. TypeOK'
    <2>1. crashes' \in 0..MaxCrashes
      BY MemoryWriteAssumption DEF IInv, TypeOK, crash
    <2>2. queue' \in Seq(Item) /\ Len(queue') <= QueueMax
      BY MemoryWriteAssumption DEF crash
    <2> QED  BY Zenon, <1>4, <1>5, <1>6, <2>1, <2>2, EmptyFacts DEF IInv, TypeOK, crash
  <1>8. RawSafe'
    BY Zenon, <1>2, <1>3, <1>5 DEF IInv, RawSafe
  <1>9. StoredSafe'
    BY Zenon, <1>2, <1>5, <1>6, EmptyFacts DEF IInv, StoredSafe, OkIsStored
  <1> QED  BY Zenon, <1>7, <1>8, <1>9 DEF IInv

\* Every step keeps the invariant.
LEMMA NextIInv == IInv /\ [Next]_vars => IInv'
  <1> SUFFICES ASSUME IInv, [Next]_vars PROVE IInv'
    BY Zenon
  <1>1. ASSUME NEW r \in Requests, reject(r) PROVE IInv'
    BY Zenon, <1>1, RejectStep
  <1>2. ASSUME NEW r \in Requests, NEW f \in Files, NEW c \in Contents, write_memory(r, f, c)
        PROVE  IInv'
    BY Zenon, <1>2, WriteStep
  <1>3. ASSUME NEW r \in Requests, Handle(r) PROVE IInv'
    BY <1>3, HandleStep
  <1>4. ASSUME NEW w \in Workers, Work(w) PROVE IInv'
    BY Zenon, <1>4, WorkStep
  <1>5. ASSUME NEW due \in SUBSET {f \in Hot : rollup[f].dirty}, flush_hot_memory_rollups(due)
        PROVE  IInv'
    <2>1. due \in SUBSET Hot
      BY Zenon
    <2> QED  BY Zenon, <1>5, <2>1, FlushStep
  <1>6. CASE UNCHANGED vars
    <2>1. UNCHANGED <<req, seen, latest, rollup, queue, worker, raw, seeded, stored, enqueued,
                      rolled, crashes>>
      BY Zenon, <1>6 DEF vars, durable
    <2>2. TypeOK'
      BY Zenon, <2>1 DEF IInv, TypeOK
    <2>3. RawSafe' /\ StoredSafe'
      BY Zenon, <2>1 DEF IInv, RawSafe, StoredSafe, OkIsStored
    <2> QED  BY Zenon, <2>2, <2>3 DEF IInv
  <1> QED  BY Zenon, <1>1, <1>2, <1>3, <1>4, <1>5, <1>6, ExpiryStep, CrashStep DEF Next

-----------------------------------------------------------------------------
(* Rollups *)

\* A step that touches neither the rollup entries nor the queue keeps RollupFresh.
LEMMA FreshUntouched ==
    ASSUME RollupFresh, UNCHANGED <<rollup, queue, rolled>>
    PROVE  RollupFresh'
  BY Zenon DEF RollupFresh, RollupsAt

\* A write that goes to the buffer leaves its entry dirty.
LEMMA FreshBuffer ==
    ASSUME IInv, RollupFresh, NEW r \in Requests, enqueue_hot_memory_rollup(r)
    PROVE  RollupFresh'
  <1>1. rollup' = [rollup EXCEPT ![req[r].file] = [hash |-> req[r].content, dirty |-> TRUE]]
        /\ UNCHANGED <<queue, rolled>>
    BY Zenon DEF enqueue_hot_memory_rollup
  <1>2. ASSUME NEW f \in Hot, ~rollup'[f].dirty
        PROVE  rollup'[f] = rollup[f]
    BY Zenon, <1>1, <1>2 DEF IInv, TypeOK
  <1> QED  BY <1>1, <1>2 DEF RollupFresh, RollupsAt

\* A write of its own put on the queue is no rollup.
LEMMA FreshQueue ==
    ASSUME IInv, RollupFresh, NEW r \in Requests, enqueue_memory_bank_write(r)
    PROVE  RollupFresh'
  <1> DEFINE item == [from |-> r, file |-> req[r].file, content |-> req[r].content]
  <1>1. queue' = Append(queue, item) /\ UNCHANGED <<rollup, rolled>>
    BY Zenon DEF enqueue_memory_bank_write
  <1>2. item.from # Rollup
    BY DEF Requests, Rollup
  <1> HIDE DEF item
  <1>3. /\ DOMAIN queue' = 1..Len(queue) + 1 /\ DOMAIN queue = 1..Len(queue) /\ Len(queue) \in Nat
        /\ \A i \in DOMAIN queue : queue'[i] = queue[i]
        /\ queue'[Len(queue) + 1] = item
    BY <1>1 DEF IInv, TypeOK
  <1>4. \A f \in Hot : RollupsAt(f)' = RollupsAt(f)
    BY <1>2, <1>3 DEF RollupsAt
  <1> QED  BY <1>1, <1>3, <1>4 DEF RollupFresh, RollupsAt

\* The item a worker takes is the file's newest rollup only when no other is queued.
LEMMA FreshGet ==
    ASSUME IInv, RollupFresh, NEW w \in Workers, memory_bank_queue_get(w)
    PROVE  RollupFresh'
  <1>1. /\ queue # <<>> /\ queue \in Seq(Item) /\ queue' = Tail(queue) /\ rollup' = rollup
        /\ rolled' = IF Head(queue).from = Rollup
                     THEN [rolled EXCEPT ![Head(queue).file] = Head(queue).content] ELSE rolled
    BY Zenon DEF memory_bank_queue_get, IInv, TypeOK
  <1>2. /\ Len(queue) \in Nat \ {0} /\ DOMAIN queue = 1..Len(queue)
        /\ DOMAIN queue' = 1..(Len(queue) - 1)
        /\ \A i \in DOMAIN queue' : queue'[i] = queue[i + 1]
        /\ Head(queue) = queue[1]
    BY <1>1
  <1> SUFFICES ASSUME NEW f \in Hot, ~rollup[f].dirty
               PROVE  /\ RollupsAt(f)' = {} => rolled'[f] = rollup[f].hash
                      /\ \A i \in RollupsAt(f)' : (\A j \in RollupsAt(f)' : j <= i)
                             => queue'[i].content = rollup[f].hash
    BY Zenon, <1>1 DEF RollupFresh
  <1>3. \A i \in 1..(Len(queue) - 1) : i \in RollupsAt(f)' <=> i + 1 \in RollupsAt(f)
    BY <1>2 DEF RollupsAt
  <1>4. RollupsAt(f) \subseteq 1..Len(queue) /\ RollupsAt(f)' \subseteq 1..(Len(queue) - 1)
    BY Zenon, <1>2 DEF RollupsAt
  <1>5. ASSUME RollupsAt(f)' = {} PROVE rolled'[f] = rollup[f].hash
    <2>1. RollupsAt(f) \subseteq {1}
      BY <1>2, <1>3, <1>4, <1>5
    <2>2. CASE 1 \in RollupsAt(f)
      <3>1. queue[1].content = rollup[f].hash
        BY <2>1, <2>2 DEF RollupFresh
      <3>2. queue[1].from = Rollup /\ queue[1].file = f
        BY Zenon, <2>2 DEF RollupsAt
      <3> QED  BY Zenon, <1>1, <1>2, <3>1, <3>2 DEF IInv, TypeOK
    <2>3. CASE 1 \notin RollupsAt(f)
      <3>1. rolled[f] = rollup[f].hash
        BY Zenon, <2>1, <2>3 DEF RollupFresh
      <3>2. ~(queue[1].from = Rollup /\ queue[1].file = f)
        BY <1>2, <2>3 DEF RollupsAt
      <3> QED  BY Zenon, <1>1, <1>2, <3>1, <3>2 DEF IInv, TypeOK
    <2> QED  BY <2>2, <2>3
  <1>6. ASSUME NEW i \in RollupsAt(f)', \A j \in RollupsAt(f)' : j <= i
        PROVE  queue'[i].content = rollup[f].hash
    <2>1. i \in 1..(Len(queue) - 1) /\ i + 1 \in RollupsAt(f) /\ queue'[i] = queue[i + 1]
      BY Zenon, <1>2, <1>3, <1>4
    <2>2. ASSUME NEW j \in RollupsAt(f) PROVE j <= i + 1
      <3>1. CASE j = 1  BY <1>2, <2>1, <3>1
      <3>2. CASE j # 1
        <4>1. j - 1 \in 1..(Len(queue) - 1) /\ (j - 1) + 1 = j
          BY <1>2, <1>4, <3>2
        <4>2. j - 1 \in RollupsAt(f)'
          BY Zenon, <1>3, <4>1
        <4> QED  BY <1>2, <1>6, <2>1, <4>1, <4>2
      <3> QED  BY Zenon, <3>1, <3>2
    <2> QED  BY Zenon, <2>1, <2>2 DEF RollupFresh
  <1> QED  BY Zenon, <1>5, <1>6

\* A flush that marks an entry clean queues its hash behind every older rollup of it.
LEMMA FreshFlush ==
    ASSUME IInv, RollupFresh, NEW due \in SUBSET Hot, flush_hot_memory_rollups(due)
    PROVE  RollupFresh'
  <1>1. PICK sent \in SetToAllKPermutations(due) :
          /\ Len(sent) = Min({Cardinality(due), QueueMax - Len(queue)})
          /\ queue' = queue \o [i \in DOMAIN sent |-> RollupItem(sent[i])]
          /\ rollup' = [f \in Hot |-> IF f \in Range(sent) THEN [rollup[f] EXCEPT !.dirty = FALSE]
                                     ELSE rollup[f]]
          /\ rolled' = rolled
    BY Zenon DEF flush_hot_memory_rollups
  <1> DEFINE n == Len(queue)
             m == Len(sent)
  <1>2. /\ sent \in Seq(due) /\ queue' \in Seq(Item) /\ Len(queue') = n + m
        /\ \A i \in 1..n : queue'[i] = queue[i]
        /\ \A k \in 1..m : queue'[n + k] = RollupItem(sent[k])
    BY Zenon, <1>1, FlushFacts
  <1>3. /\ n \in Nat /\ m \in Nat /\ DOMAIN queue = 1..n /\ DOMAIN queue' = 1..(n + m)
        /\ DOMAIN sent = 1..m
    BY <1>2 DEF IInv, TypeOK
  <1>4. rollup \in [Hot -> [hash : Contents \cup {NoContent}, dirty : BOOLEAN]]
    BY Zenon DEF IInv, TypeOK
  <1>5. \A f \in Hot : rollup'[f].hash = rollup[f].hash
    BY Zenon, <1>1, <1>4
  <1> HIDE DEF n, m
  <1>6. ASSUME NEW k \in 1..m
        PROVE  /\ queue'[n + k].from = Rollup /\ queue'[n + k].file = sent[k]
               /\ queue'[n + k].content = rollup[sent[k]].hash
    <2>1. queue'[n + k] = RollupItem(sent[k])
      BY Zenon, <1>2
    <2> QED  BY <2>1 DEF RollupItem
  <1>7. \A i \in 1..(n + m) : i \in 1..n \/ (i - n \in 1..m /\ n + (i - n) = i)
    BY <1>3
  <1> SUFFICES ASSUME NEW f \in Hot, ~rollup'[f].dirty
               PROVE  /\ RollupsAt(f)' = {} => rolled'[f] = rollup'[f].hash
                      /\ \A i \in RollupsAt(f)' : (\A j \in RollupsAt(f)' : j <= i)
                             => queue'[i].content = rollup'[f].hash
    BY Zenon DEF RollupFresh
  <1>8. CASE f \in Range(sent)
    <2>1. PICK k \in 1..m : sent[k] = f
      BY Zenon, <1>3, <1>8 DEF Range
    <2>2. n + k \in RollupsAt(f)'
      BY <1>3, <1>6, <2>1 DEF RollupsAt
    <2>3. ASSUME NEW i \in RollupsAt(f)', \A j \in RollupsAt(f)' : j <= i
          PROVE  queue'[i].content = rollup'[f].hash
      <3>1. i \in 1..(n + m) /\ n + k <= i /\ queue'[i].file = f
        BY Zenon, <1>3, <2>2, <2>3 DEF RollupsAt
      <3>2. i - n \in 1..m /\ n + (i - n) = i
        BY <1>3, <3>1
      <3> QED  BY <1>5, <1>6, <3>1, <3>2
    <2> QED  BY Zenon, <2>2, <2>3
  <1>9. CASE f \notin Range(sent)
    <2>1. rollup'[f] = rollup[f]
      BY Zenon, <1>1, <1>9
    <2>2. \A k \in 1..m : sent[k] # f
      BY Zenon, <1>3, <1>9 DEF Range
    <2>3. RollupsAt(f)' = RollupsAt(f)
      <3>1. ASSUME NEW i \in 1..(n + m)
            PROVE  i \in RollupsAt(f)' <=> i \in RollupsAt(f)
        <4>1. CASE i \in 1..n
          BY Zenon, <1>2, <1>3, <4>1 DEF RollupsAt, n, m
        <4>2. CASE i \notin 1..n
          <5>1. i - n \in 1..m /\ n + (i - n) = i
            BY Zenon, <1>7, <4>2
          <5>2. queue'[i].file # f
            BY Zenon, <1>6, <2>2, <5>1
          <5> QED  BY Zenon, <1>3, <4>2, <5>2 DEF RollupsAt
        <4> QED  BY Zenon, <4>1, <4>2
      <3>2. RollupsAt(f) \subseteq 1..(n + m) /\ RollupsAt(f)' \subseteq 1..(n + m)
        BY <1>3 DEF RollupsAt
      <3> QED  BY Zenon, <3>1, <3>2
    <2>4. \A i \in RollupsAt(f) : queue'[i] = queue[i]
      BY Zenon, <1>2, <1>3 DEF RollupsAt, n
    <2> QED  BY Zenon, <1>1, <2>1, <2>3, <2>4 DEF RollupFresh
  <1> QED  BY Zenon, <1>8, <1>9

\* After a crash there is nothing buffered, queued or taken.
LEMMA FreshCrash ==
    ASSUME crash
    PROVE  RollupFresh'
  <1>1. /\ rollup' = [f \in Hot |-> NoEntry] /\ queue' = <<>>
        /\ rolled' = [f \in Hot |-> NoContent]
    BY Zenon DEF crash
  <1>2. \A f \in Hot : RollupsAt(f)' = {} /\ rolled'[f] = rollup'[f].hash
    BY <1>1 DEF RollupsAt, NoEntry
  <1> QED  BY <1>2 DEF RollupFresh

\* RollupFresh holds at the start.
LEMMA InitFresh == Init => RollupFresh
  <1> SUFFICES ASSUME Init PROVE RollupFresh
    BY Zenon
  <1>1. \A f \in Hot : RollupsAt(f) = {} /\ rolled[f] = rollup[f].hash
    BY DEF Init, RollupsAt, NoEntry
  <1> QED  BY Zenon, <1>1 DEF RollupFresh

\* Every step keeps RollupFresh.
LEMMA NextFresh == IInv /\ RollupFresh /\ [Next]_vars => RollupFresh'
  <1> SUFFICES ASSUME IInv, RollupFresh, [Next]_vars PROVE RollupFresh'
    BY Zenon
  <1>1. ASSUME NEW r \in Requests, \/ reject(r)
                                  \/ \E f \in Files, c \in Contents : write_memory(r, f, c)
        PROVE  RollupFresh'
    BY Zenon, <1>1, FreshUntouched DEF reject, write_memory
  <1>2. ASSUME NEW r \in Requests, Handle(r) PROVE RollupFresh'
    <2>1. CASE enqueue_hot_memory_rollup(r)  BY Zenon, <2>1, FreshBuffer
    <2>2. CASE enqueue_memory_bank_write(r)  BY Zenon, <2>2, FreshQueue
    <2>3. CASE \/ \E ok \in BOOLEAN : persist_raw_event_to_mongo(r, ok)
               \/ queue_full(r) \/ seed_mongo_retry(r) \/ seed_raises(r) \/ waiter_resolved(r)
      BY Zenon, <2>3, FreshUntouched
         DEF persist_raw_event_to_mongo, queue_full, seed_mongo_retry, seed_raises, waiter_resolved
    <2> QED  BY Zenon, <1>2, <2>1, <2>2, <2>3 DEF Handle
  <1>3. ASSUME NEW w \in Workers, Work(w) PROVE RollupFresh'
    <2>1. CASE memory_bank_queue_get(w)  BY <2>1, FreshGet
    <2>2. CASE memory_bank_write(w) \/ memory_bank_item_done(w) \/ memory_bank_item_raises(w)
      BY Zenon, <2>2, FreshUntouched DEF memory_bank_write, memory_bank_item_done, memory_bank_item_raises
    <2> QED  BY Zenon, <1>3, <2>1, <2>2 DEF Work
  <1>4. ASSUME NEW due \in SUBSET {f \in Hot : rollup[f].dirty}, flush_hot_memory_rollups(due)
        PROVE  RollupFresh'
    <2>1. due \in SUBSET Hot
      BY Zenon
    <2> QED  BY Zenon, <1>4, <2>1, FreshFlush
  <1>5. ASSUME \/ \E k \in seen : dedupe_key_expires(k)
               \/ \E f \in Hot : latest_hash_evicted(f)
               \/ UNCHANGED vars
        PROVE  RollupFresh'
    BY Zenon, <1>5, FreshUntouched DEF dedupe_key_expires, latest_hash_evicted, vars
  <1> QED  BY Zenon, <1>1, <1>2, <1>3, <1>4, <1>5, FreshCrash DEF Next

-----------------------------------------------------------------------------
(* The theorems *)

\* The invariant holds in every state write_memory, the workers, the rollup flusher and
\* crashes can reach.
THEOREM Invariance == Spec => [](IInv /\ RollupFresh)
  <1>1. Init => IInv /\ RollupFresh
    BY Zenon, InitIInv, InitFresh
  <1>2. (IInv /\ RollupFresh) /\ [Next]_vars => (IInv /\ RollupFresh)'
    BY Zenon, NextIInv, NextFresh
  <1> QED  BY <1>1, <1>2, PTL DEF Spec

\* The handler, the queue and the workers keep their types, and memory_bank_queue never
\* holds more than MEMORY_BANK_QUEUE_MAX items, whoever puts them there.
THEOREM TypeCorrect == Spec => []TypeOK
  <1>1. IInv /\ RollupFresh => TypeOK
    BY Zenon DEF IInv
  <1> QED  BY <1>1, Invariance, PTL

\* A write answered "ok" or "unchanged" has its raw event in Mongo or in the outbox.
THEOREM AnsweredRaw == Spec => []AnsweredIsRaw
  <1>1. IInv /\ RollupFresh => AnsweredIsRaw
    BY Zenon DEF IInv, RawSafe, AnsweredIsRaw
  <1> QED  BY <1>1, Invariance, PTL

\* A synchronous plain write answered "ok" is in the memory bank.
THEOREM OkStored == Spec => []OkIsStored
  <1>1. IInv /\ RollupFresh => OkIsStored
    BY Zenon DEF IInv, StoredSafe
  <1> QED  BY <1>1, Invariance, PTL

\* The newest hash of a clean rollup entry is the last one handed to the workers.
THEOREM RollupsFresh == Spec => []RollupFresh
  BY Invariance, PTL

-----------------------------------------------------------------------------
(* POST /memory/write implements WriteContract: every step maps to one of the *)
(* contract or leaves its variables alone; that a good answer comes with a    *)
(* raw copy is the invariant RawSafe.                                         *)

\* The variables of the contract in the states of MemoryWrite.
AnswerMap == [r \in Requests |-> AnswerOf(r)]
Safe == raw \cup seeded

\* At the start no request is answered and nothing is copied.
LEMMA ContractInit == Init => Contract!Init
  <1> SUFFICES ASSUME Init PROVE Contract!Init
    BY Zenon
  <1>1. \A r \in Requests : req[r].pc = "none"
    BY Zenon, EmptyFacts DEF Init
  <1>2. \A r \in Requests : AnswerOf(r) = "none"
    BY Zenon, <1>1 DEF AnswerOf, Answers
  <1>3. raw \cup seeded = {}
    BY Zenon DEF Init
  <1> QED  BY Zenon, <1>2, <1>3 DEF Contract!Init

\* A step that keeps the program counters and the copies is no step of the contract.
LEMMA ContractStutter ==
    ASSUME \A r \in Requests : req'[r].pc = req[r].pc, raw' = raw, seeded' = seeded
    PROVE  [Contract!Next]_<<AnswerMap, Safe>>
  <1>1. AnswerMap' = AnswerMap
    BY Zenon DEF AnswerMap, AnswerOf
  <1>2. Safe' = Safe
    BY Zenon DEF Safe
  <1> QED  BY Zenon, <1>1, <1>2

\* A step of one request that is not answered yet answers it, copies its event, or neither.
LEMMA ContractStep ==
    ASSUME NEW r \in Requests, req[r].pc \notin Answers, req'[r].pc # "cut",
           \A q \in Requests \ {r} : req'[q].pc = req[q].pc,
           Safe' \in {Safe, Safe \cup {r}},
           RawSafe'
    PROVE  [Contract!Next]_<<AnswerMap, Safe>>
  <1>1. \A q \in Requests \ {r} : AnswerOf(q)' = AnswerOf(q)
    BY Zenon DEF AnswerOf
  <1>2. AnswerOf(r) = "none"
    BY Zenon DEF AnswerOf
  <1>3. CASE req'[r].pc \in Answers
    <2> DEFINE a == req'[r].pc
    <2>1. AnswerOf(r)' = a
      BY Zenon, <1>3 DEF AnswerOf
    <2>2. AnswerMap' = [AnswerMap EXCEPT ![r] = a]
      BY Zenon, <1>1, <2>1 DEF AnswerMap
    <2>3. a \in {"ok", "unchanged"} => r \in Safe'
      BY Zenon DEF RawSafe, Safe
    <2>4. AnswerMap[r] = "none"
      BY Zenon, <1>2 DEF AnswerMap
    <2>5. Contract!Answer(r, a)
      BY <2>2, <2>3, <2>4 DEF Contract!Answer, Contract!Granting, AnswerMap, Safe
    <2> QED  BY Zenon, <1>3, <2>5 DEF Contract!Next
  <1>4. CASE req'[r].pc \notin Answers
    <2>1. AnswerOf(r)' = AnswerOf(r)
      BY Zenon, <1>2, <1>4 DEF AnswerOf
    <2>2. AnswerMap' = AnswerMap
      BY Zenon, <1>1, <2>1 DEF AnswerMap
    <2>3. CASE Safe' = Safe
      BY Zenon, <2>2, <2>3
    <2>4. CASE Safe' = Safe \cup {r}
      <3>1. Contract!Secure(r)
        BY Zenon, <2>2, <2>4 DEF Contract!Secure, AnswerMap, Safe
      <3> QED  BY Zenon, <3>1 DEF Contract!Next
    <2> QED  BY Zenon, <2>3, <2>4
  <1> QED  BY Zenon, <1>3, <1>4

\* A crash cuts off the requests under way.
LEMMA ContractCrash ==
    ASSUME IInv, crash
    PROVE  [Contract!Next]_<<AnswerMap, Safe>>
  <1> DEFINE cut == {r \in Requests : req[r].pc \in InProgress}
  <1>1. req' = [r \in Requests |-> IF req[r].pc \in InProgress THEN [req[r] EXCEPT !.pc = "cut"] ELSE req[r]]
    BY Zenon DEF crash
  <1>2. \A r \in Requests : req[r] \in Request
    BY Zenon DEF IInv, TypeOK
  <1>3. \A r \in cut : req'[r].pc = "cut"
    BY Zenon, <1>1, <1>2 DEF Request
  <1>4. \A r \in Requests \ cut : req'[r] = req[r]
    BY Zenon, <1>1
  <1>5. \A r \in cut : AnswerOf(r) = "none" /\ AnswerOf(r)' = "cut"
    BY Zenon, <1>3 DEF AnswerOf, Answers, InProgress
  <1>6. \A r \in Requests \ cut : AnswerOf(r)' = AnswerOf(r)
    BY Zenon, <1>4 DEF AnswerOf
  <1>7. /\ \A r \in cut : AnswerMap[r] = "none"
        /\ AnswerMap' = [r \in Requests |-> IF r \in cut THEN "cut" ELSE AnswerMap[r]]
        /\ Safe' = Safe
    BY Zenon, <1>5, <1>6 DEF AnswerMap, Safe, crash, durable
  <1>8. Contract!Die(cut)
    BY Zenon, <1>7 DEF Contract!Die, AnswerMap, Safe
  <1>9. cut \in SUBSET Requests
    BY Zenon
  <1> QED  BY Zenon, <1>8, <1>9 DEF Contract!Next

\* Every step of a request.
LEMMA ContractHandle ==
    ASSUME IInv, IInv', NEW r \in Requests,
           \/ reject(r)
           \/ \E f \in Files, c \in Contents : write_memory(r, f, c)
           \/ Handle(r)
    PROVE  [Contract!Next]_<<AnswerMap, Safe>>
  <1>1. /\ req \in [Requests -> Request] /\ RawSafe'
        /\ req[r].kind \in {"plain", "rollup", "unchanged"}
    BY Zenon DEF IInv, TypeOK, Request
  <1>2. ASSUME NEW x, req' = [req EXCEPT ![r] = x]
        PROVE  req'[r] = x /\ \A q \in Requests \ {r} : req'[q].pc = req[q].pc
    BY Zenon, <1>1, <1>2
  <1>3. ASSUME NEW pc, req' = [req EXCEPT ![r].pc = pc]
        PROVE  req'[r].pc = pc /\ \A q \in Requests \ {r} : req'[q].pc = req[q].pc
    BY Zenon, <1>1, <1>3 DEF Request
  <1>4. \A pc \in Then(r) : pc # "cut"
    BY Zenon, <1>1 DEF Then
  <1>5. CASE reject(r)
    <2>1. req[r].pc = "none" /\ req' = [req EXCEPT ![r].pc = "rejected"] /\ Safe' = Safe
      BY Zenon, <1>5 DEF reject, IsNext, durable, Safe
    <2>2. req'[r].pc = "rejected" /\ \A q \in Requests \ {r} : req'[q].pc = req[q].pc
      BY Zenon, <1>3, <2>1
    <2> QED  BY Zenon, <1>1, <2>1, <2>2, ContractStep DEF Answers
  <1>6. ASSUME NEW f \in Files, NEW c \in Contents, write_memory(r, f, c)
        PROVE  [Contract!Next]_<<AnswerMap, Safe>>
    <2>1. PICK pc \in {"deduped", "persisting"}, kind \in {"unchanged", "rollup", "plain"} :
              req' = [req EXCEPT ![r] = [@ EXCEPT !.file = f, !.content = c, !.pc = pc, !.kind = kind]]
      BY Zenon, <1>6 DEF write_memory
    <2>2. req[r].pc = "none" /\ Safe' = Safe
      BY Zenon, <1>6 DEF write_memory, IsNext, durable, Safe
    <2>3. req'[r].pc = pc /\ \A q \in Requests \ {r} : req'[q].pc = req[q].pc
      BY Zenon, <1>1, <2>1 DEF Request
    <2> QED  BY <1>1, <2>2, <2>3, ContractStep DEF Answers
  <1>7. ASSUME NEW ok \in BOOLEAN, persist_raw_event_to_mongo(r, ok)
        PROVE  [Contract!Next]_<<AnswerMap, Safe>>
    <2>1. PICK pc \in {"enqueueing", "unchanged", "seeding"} :
              req' = [req EXCEPT ![r].persisted = ok, ![r].pc = pc]
      BY Zenon, <1>7 DEF persist_raw_event_to_mongo
    <2>2. req[r].pc = "persisting" /\ Safe' \in {Safe, Safe \cup {r}}
      BY Zenon, <1>7 DEF persist_raw_event_to_mongo, Safe
    <2>3. req'[r].pc = pc /\ \A q \in Requests \ {r} : req'[q].pc = req[q].pc
      BY Zenon, <1>1, <2>1 DEF Request
    <2> QED  BY Zenon, <1>1, <2>2, <2>3, ContractStep DEF Answers
  <1>8. CASE enqueue_hot_memory_rollup(r) \/ enqueue_memory_bank_write(r)
    <2>1. PICK pc \in Then(r) \cup {"seeding"} : req' = [req EXCEPT ![r].pc = pc]
      BY Zenon, <1>8 DEF enqueue_hot_memory_rollup, enqueue_memory_bank_write
    <2>2. req[r].pc = "enqueueing" /\ Safe' = Safe
      BY Zenon, <1>8 DEF enqueue_hot_memory_rollup, enqueue_memory_bank_write, durable, Safe
    <2> QED  BY <1>1, <1>3, <1>4, <2>1, <2>2, ContractStep DEF Answers
  <1>9. CASE queue_full(r) \/ seed_raises(r)
    <2>1. PICK pc \in {"queue_full", "failed"} : req' = [req EXCEPT ![r].pc = pc]
      BY <1>9 DEF queue_full, seed_raises
    <2>2. req[r].pc \in {"enqueueing", "seeding"} /\ Safe' = Safe
      BY Zenon, <1>9 DEF queue_full, seed_raises, durable, Safe
    <2> QED  BY <1>1, <1>3, <2>1, <2>2, ContractStep DEF Answers
  <1>10. CASE seed_mongo_retry(r)
    <2>1. PICK pc \in Then(r) : req' = [req EXCEPT ![r].pc = pc]
      BY Zenon, <1>10 DEF seed_mongo_retry
    <2>2. req[r].pc = "seeding" /\ Safe' = Safe \cup {r}
      BY Zenon, <1>10 DEF seed_mongo_retry, Safe
    <2> QED  BY <1>1, <1>3, <1>4, <2>1, <2>2, ContractStep DEF Answers
  <1>11. CASE waiter_resolved(r)
    <2>1. PICK pc \in {"ok", "failed"} : req' = [req EXCEPT ![r].pc = pc]
      BY Zenon, <1>11 DEF waiter_resolved
    <2>2. req[r].pc = "waiting" /\ Safe' = Safe
      BY Zenon, <1>11 DEF waiter_resolved, durable, Safe
    <2> QED  BY Zenon, <1>1, <1>3, <2>1, <2>2, ContractStep DEF Answers
  <1> QED  BY <1>5, <1>6, <1>7, <1>8, <1>9, <1>10, <1>11 DEF Handle

\* The workers tell waiters, never callers.
LEMMA ContractWork ==
    ASSUME IInv, NEW w \in Workers, Work(w)
    PROVE  [Contract!Next]_<<AnswerMap, Safe>>
  <1>1. req \in [Requests -> Request] /\ raw' = raw /\ seeded' = seeded
    BY Zenon DEF IInv, TypeOK, Work, memory_bank_queue_get, memory_bank_write, memory_bank_item_done,
           memory_bank_item_raises, durable
  <1>2. \/ req' = req
        \/ \E q, outcome : req' = [req EXCEPT ![q].waiter = outcome]
    BY Zenon DEF Work, memory_bank_queue_get, memory_bank_write, memory_bank_item_done,
           memory_bank_item_raises, Resolved
  <1>3. ASSUME NEW q, NEW outcome, req' = [req EXCEPT ![q].waiter = outcome]
        PROVE  \A r \in Requests : req'[r].pc = req[r].pc
    BY Zenon, <1>1, <1>3 DEF Request
  <1>4. \A r \in Requests : req'[r].pc = req[r].pc
    BY Zenon, <1>2, <1>3
  <1> QED  BY Zenon, <1>1, <1>4, ContractStutter

\* Every step of MemoryWrite is a step of the contract or none.
LEMMA ContractNext ==
    ASSUME IInv, IInv', [Next]_vars
    PROVE  [Contract!Next]_<<AnswerMap, Safe>>
  <1>1. ASSUME NEW due, flush_hot_memory_rollups(due)
        PROVE  [Contract!Next]_<<AnswerMap, Safe>>
    BY Zenon, <1>1, ContractStutter DEF flush_hot_memory_rollups, durable
  <1>2. CASE \/ \E k \in seen : dedupe_key_expires(k)
             \/ \E f \in Hot : latest_hash_evicted(f)
             \/ UNCHANGED vars
    BY Zenon, <1>2, ContractStutter DEF dedupe_key_expires, latest_hash_evicted, vars, durable
  <1> QED  BY Zenon, <1>1, <1>2, ContractHandle, ContractWork, ContractCrash DEF Next

\* The handler of POST /memory/write, with the workers, the rollup flusher and crashes,
\* implements WriteContract: answers are final and a good one stands for a lasting copy.
THEOREM ImplementsContract == Spec => KeepsContract
  <1>1. Init => Contract!Init
    BY Zenon, ContractInit
  <1>2. IInv /\ IInv' /\ [Next]_vars => [Contract!Next]_<<AnswerMap, Safe>>
    BY Zenon, ContractNext
  <1>3. Spec => [](IInv /\ RollupFresh)
    BY Invariance
  <1> QED  BY <1>1, <1>2, <1>3, PTL DEF Spec, KeepsContract, Contract!Spec, AnswerMap, Safe
=============================================================================

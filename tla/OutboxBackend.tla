---------------------------- MODULE OutboxBackend ----------------------------
(***************************************************************************)
(* The two backends of the fanout outbox and the switch between them:      *)
(* Mongo, where an enqueue is a series of separate document operations and *)
(* a batch is claimed row by row, and SQLite, where each is a transaction. *)
(* A Mongo operation that raises demotes the outbox to SQLite, a disk I/O  *)
(* error of SQLite promotes it to Mongo; rows stay where they were.        *)
(*                                                                         *)
(* The events are writes of one project file to one target, so that a row  *)
(* is named by its event (dedupe_key) and any waiting row can take a newer *)
(* event (the coalescer).  Ids of the two backends differ in kind (a hex   *)
(* string, an integer): a mark never finds a row of the other backend.     *)
(***************************************************************************)
EXTENDS Naturals, FiniteSets

CONSTANTS
    Events, NoEvent,
    Enqueuers,      \* concurrent calls of enqueue_fanout_outbox
    Workers,        \* fanout workers
    BatchSize,      \* FANOUT_BATCH_SIZE
    MaxAttempts,    \* FANOUT_MAX_ATTEMPTS
    Configured,     \* FANOUT_OUTBOX_BACKEND
    Fallback,       \* FANOUT_OUTBOX_FALLBACK_TO_SQLITE
    AutoPromote,    \* FANOUT_OUTBOX_AUTO_PROMOTE_MONGO_ON_SQLITE_IO_ERROR
    MaxFaults,      \* bound: database errors and crashes
    MaxEnqueues     \* bound: enqueue calls

VARIABLES
    active,     \* fanout_outbox_backend_active
    store,      \* the rows of each backend
    enq,        \* the enqueue calls
    wk,         \* the workers
    faults,     \* errors and crashes so far
    enqueues,   \* enqueue calls so far
    pushed      \* ghost: rows of which a claimed copy reached the sink

ovars == <<active, store, enq, wk, faults, enqueues, pushed>>

Backends == {"mongo", "sqlite"}
Waiting == {"pending", "retrying"}
Outstanding == Waiting \cup {"running"}

Absent == [status |-> "absent", payload |-> NoEvent, attempts |-> 0]
NoCall == [pc |-> "idle", event |-> NoEvent, force |-> FALSE, candidate |-> NoEvent, last |-> FALSE]
NoBatch == [pc |-> "idle", jobs |-> {}, last |-> FALSE]

Init ==
    /\ active = Configured
    /\ store = [b \in Backends |-> [e \in Events |-> Absent]]
    /\ enq = [a \in Enqueuers |-> NoCall]
    /\ wk = [w \in Workers |-> NoBatch]
    /\ faults = 0 /\ enqueues = 0 /\ pushed = {}

Fault == faults < MaxFaults /\ faults' = faults + 1

(* _demote_outbox_backend *)
Demoted == IF Fallback THEN "sqlite" ELSE active

(* _promote_outbox_backend_to_mongo_if_sqlite_error: the error is a disk I/O
   error and Mongo answers.                                                 *)
MayPromote == active = "sqlite" /\ AutoPromote
-----------------------------------------------------------------------------
(* Rows *)

Pending(e) == [status |-> "pending", payload |-> e, attempts |-> 0]
Coalesced(row, e) == [row EXCEPT !.payload = e]
Claimed(row) == [row EXCEPT !.status = "running", !.attempts = row.attempts + 1]
WaitingRows(b) == {e \in Events : store[b][e].status \in Waiting}

Put(b, key, row) == [store EXCEPT ![b][key] = row]
-----------------------------------------------------------------------------
(* enqueue_fanout_outbox *)

AnswerTo(a) == enq' = [enq EXCEPT ![a].pc = "answered"]
Goto(a, pc) == enq' = [enq EXCEPT ![a].pc = pc]

enqueue_fanout_outbox(a, e, force) ==
    /\ enq[a].pc = "idle" /\ enqueues < MaxEnqueues
    /\ enqueues' = enqueues + 1
    /\ enq' = [enq EXCEPT ![a] = [NoCall EXCEPT !.pc = active, !.event = e, !.force = force]]
    /\ UNCHANGED <<active, store, wk, faults, pushed>>

(* Mongo: look for a waiting row of the file, in the window or not. *)
mongo_find_candidate(a) ==
    /\ enq[a].pc = "mongo"
    /\ \/ \E c \in WaitingRows("mongo") :
             ~enq[a].force /\ enq' = [enq EXCEPT ![a].pc = "coalesce", ![a].candidate = c]
       \/ Goto(a, "find")
    /\ UNCHANGED <<active, store, wk, faults, enqueues, pushed>>

CoalesceUnchecked(a) ==
    LET c == enq[a].candidate
        e == enq[a].event
    IN  /\ enq[a].pc = "coalesce"
        /\ AnswerTo(a)
        /\ IF c \in WaitingRows("mongo")
           THEN store' = Put("mongo", c, Coalesced(store["mongo"][c], e)) ELSE UNCHANGED store
        /\ UNCHANGED <<active, wk, faults, enqueues, pushed>>

(* update_one repeats the status test; a row that was claimed meanwhile is not
   modified and the call goes on to its own row.                              *)
mongo_coalesce(a) ==
    LET c == enq[a].candidate
        e == enq[a].event
    IN  /\ enq[a].pc = "coalesce"
        /\ IF c \in WaitingRows("mongo")
           THEN store' = Put("mongo", c, Coalesced(store["mongo"][c], e)) /\ AnswerTo(a)
           ELSE Goto(a, "find") /\ UNCHANGED store
        /\ UNCHANGED <<active, wk, faults, enqueues, pushed>>

mongo_find_row(a) ==
    /\ enq[a].pc = "find"
    /\ IF store["mongo"][enq[a].event].status = "absent" THEN Goto(a, "insert")
       ELSE IF enq[a].force THEN Goto(a, "requeue") ELSE AnswerTo(a)
    /\ UNCHANGED <<active, store, wk, faults, enqueues, pushed>>

(* update_one by _id: a row that was deleted meanwhile is not found, and the call
   counts it as requeued all the same.                                          *)
mongo_requeue(a) ==
    LET e == enq[a].event
    IN  /\ enq[a].pc = "requeue"
        /\ AnswerTo(a)
        /\ store' = IF store["mongo"][e].status = "absent" THEN store ELSE Put("mongo", e, Pending(e))
        /\ UNCHANGED <<active, wk, faults, enqueues, pushed>>

(* insert_one: every exception is taken for a duplicate. *)
mongo_insert(a) ==
    LET e == enq[a].event
    IN  /\ enq[a].pc = "insert"
        /\ AnswerTo(a)
        /\ \/ /\ store["mongo"][e].status = "absent"
              /\ store' = Put("mongo", e, Pending(e)) /\ UNCHANGED faults
           \/ store["mongo"][e].status # "absent" /\ UNCHANGED <<store, faults>>
           \/ Fault /\ UNCHANGED store
        /\ UNCHANGED <<active, wk, enqueues, pushed>>

(* Another Mongo operation raises: the call starts over in SQLite, whether or
   not the backend is demoted, unless it came from there.                     *)
mongo_enqueue_raises(a) ==
    /\ enq[a].pc \in {"mongo", "coalesce", "find", "requeue"}
    /\ Fault
    /\ IF enq[a].last THEN Goto(a, "raised") /\ UNCHANGED active
                      ELSE Goto(a, "sqlite") /\ active' = Demoted
    /\ UNCHANGED <<store, wk, enqueues, pushed>>

(* SQLite: the same decisions in one transaction. *)
sqlite_enqueue(a) ==
    LET e == enq[a].event
        own == store["sqlite"][e]
    IN  /\ enq[a].pc = "sqlite"
        /\ \/ \E c \in WaitingRows("sqlite") :
                 /\ ~enq[a].force
                 /\ store' = Put("sqlite", c, Coalesced(store["sqlite"][c], e))
           \/ /\ own.status = "absent" \/ enq[a].force
              /\ store' = Put("sqlite", e, Pending(e))
           \/ own.status # "absent" /\ ~enq[a].force /\ UNCHANGED store
        /\ AnswerTo(a)
        /\ UNCHANGED <<active, wk, faults, enqueues, pushed>>

sqlite_enqueue_raises(a) ==
    /\ enq[a].pc = "sqlite"
    /\ Fault
    /\ \/ MayPromote /\ active' = "mongo"
          /\ enq' = [enq EXCEPT ![a].pc = "mongo", ![a].last = TRUE]
       \/ Goto(a, "raised") /\ UNCHANGED active
    /\ UNCHANGED <<store, wk, enqueues, pushed>>

enqueue_returns(a) ==
    /\ enq[a].pc \in {"answered", "raised"}
    /\ enq' = [enq EXCEPT ![a] = NoCall]
    /\ UNCHANGED <<active, store, wk, faults, enqueues, pushed>>
-----------------------------------------------------------------------------
(* claim_fanout_batch *)

claim_fanout_batch(w) ==
    /\ wk[w].pc = "idle"
    /\ wk' = [wk EXCEPT ![w].pc = active]
    /\ UNCHANGED <<active, store, enq, faults, enqueues, pushed>>

JobOf(b, e) == [backend |-> b, key |-> e, payload |-> store[b][e].payload,
                attempts |-> store[b][e].attempts + 1]

(* find_one_and_update, one row at a time. *)
mongo_claim_one(w) ==
    /\ wk[w].pc = "mongo" /\ Cardinality(wk[w].jobs) < BatchSize
    /\ \E e \in WaitingRows("mongo") :
          /\ store' = Put("mongo", e, Claimed(store["mongo"][e]))
          /\ wk' = [wk EXCEPT ![w].jobs = @ \cup {JobOf("mongo", e)}]
    /\ UNCHANGED <<active, enq, faults, enqueues, pushed>>

(* The batch is full or no row is due; a pending row always is. *)
mongo_claim_ends(w) ==
    /\ wk[w].pc = "mongo"
    /\ \/ Cardinality(wk[w].jobs) = BatchSize
       \/ \A e \in WaitingRows("mongo") : store["mongo"][e].status = "retrying"
    /\ wk' = [wk EXCEPT ![w] = IF wk[w].jobs = {} THEN NoBatch ELSE [wk[w] EXCEPT !.pc = "push"]]
    /\ UNCHANGED <<active, store, enq, faults, enqueues, pushed>>

(* The rows claimed so far are forgotten; SQLite is asked instead. *)
mongo_claim_raises(w) ==
    /\ wk[w].pc = "mongo"
    /\ Fault
    /\ IF wk[w].last THEN wk' = [wk EXCEPT ![w] = NoBatch] /\ UNCHANGED active
       ELSE wk' = [wk EXCEPT ![w] = [NoBatch EXCEPT !.pc = "sqlite"]] /\ active' = Demoted
    /\ UNCHANGED <<store, enq, enqueues, pushed>>

sqlite_claim(w) ==
    /\ wk[w].pc = "sqlite"
    /\ \E S \in SUBSET WaitingRows("sqlite") :
          /\ Cardinality(S) <= BatchSize
          /\ Cardinality(S) < BatchSize =>
                \A e \in WaitingRows("sqlite") \ S : store["sqlite"][e].status = "retrying"
          /\ store' = [store EXCEPT !["sqlite"] =
                          [e \in Events |-> IF e \in S THEN Claimed(store["sqlite"][e]) ELSE store["sqlite"][e]]]
          /\ wk' = [wk EXCEPT ![w] =
                      IF S = {} THEN NoBatch
                      ELSE [NoBatch EXCEPT !.pc = "push", !.jobs = {JobOf("sqlite", e) : e \in S}]]
    /\ UNCHANGED <<active, enq, faults, enqueues, pushed>>

sqlite_claim_raises(w) ==
    /\ wk[w].pc = "sqlite"
    /\ Fault
    /\ \/ MayPromote /\ active' = "mongo"
          /\ wk' = [wk EXCEPT ![w] = [NoBatch EXCEPT !.pc = "mongo", !.last = TRUE]]
       \/ wk' = [wk EXCEPT ![w] = NoBatch] /\ UNCHANGED active
    /\ UNCHANGED <<store, enq, enqueues, pushed>>
-----------------------------------------------------------------------------
(* Push and mark *)

JobsLeft(w, j) == IF wk[w].jobs = {j} THEN NoBatch ELSE [wk[w] EXCEPT !.jobs = wk[w].jobs \ {j}]

MarkedByKey(j, status) ==
    IF store[active][j.key].status # "absent"
    THEN [store EXCEPT ![active][j.key].status = status] ELSE store

(* The mark goes to the backend that is active now and changes the row only if
   the job came from there.                                                    *)
MarkedRow(j, status) ==
    IF j.backend = active /\ store[active][j.key].status # "absent"
    THEN [store EXCEPT ![active][j.key].status = status] ELSE store

push_and_mark_success(w, j) ==
    /\ wk[w].pc = "push"
    /\ pushed' = pushed \cup {<<j.backend, j.key>>}
    /\ store' = MarkedRow(j, "succeeded")
    /\ wk' = [wk EXCEPT ![w] = JobsLeft(w, j)]
    /\ UNCHANGED <<active, enq, faults, enqueues>>

push_fails(w, j) ==
    /\ wk[w].pc = "push"
    /\ store' = MarkedRow(j, IF j.attempts < MaxAttempts THEN "retrying" ELSE "failed")
    /\ wk' = [wk EXCEPT ![w] = JobsLeft(w, j)]
    /\ UNCHANGED <<active, enq, faults, enqueues, pushed>>

(* The mark raises: the batch is given up; a disk error of SQLite promotes. *)
mark_raises(w) ==
    /\ wk[w].pc = "push"
    /\ Fault
    /\ wk' = [wk EXCEPT ![w] = NoBatch]
    /\ active' \in IF MayPromote THEN {"mongo", active} ELSE {active}
    /\ UNCHANGED <<store, enq, enqueues, pushed>>
-----------------------------------------------------------------------------
(* run_fanout_outbox_gc_once: finished rows past their retention go, in the
   backend that is active or, when Mongo raises, in SQLite.                   *)
run_fanout_outbox_gc_once ==
    /\ \/ active' = active /\ UNCHANGED faults
       \/ active = "mongo" /\ Fault /\ active' = Demoted
    /\ LET b == IF faults' = faults THEN active ELSE "sqlite"
           finished == {e \in Events : store[b][e].status \in {"succeeded", "failed"}}
       IN  \E S \in (SUBSET finished) \ {{}} :
              store' = [store EXCEPT ![b] = [e \in Events |-> IF e \in S THEN Absent ELSE store[b][e]]]
    /\ UNCHANGED <<enq, wk, enqueues, pushed>>

(* A crash and the next start: the backend is the configured one again, or
   SQLite when Mongo cannot be reached, and its stale running rows are recovered. *)
restart ==
    /\ Fault
    /\ enq' = [a \in Enqueuers |-> NoCall]
    /\ wk' = [w \in Workers |-> NoBatch]
    /\ active' \in {Configured} \cup (IF Configured = "mongo" /\ Fallback THEN {"sqlite"} ELSE {})
    /\ \E S \in SUBSET {e \in Events : store[active'][e].status = "running"} :
          store' = [store EXCEPT ![active'] =
                      [e \in Events |-> IF e \in S THEN [store[active'][e] EXCEPT !.status = "retrying"]
                                        ELSE store[active'][e]]]
    /\ UNCHANGED <<enqueues, pushed>>

Enqueuer(a) ==
    \/ \E e \in Events, force \in BOOLEAN : enqueue_fanout_outbox(a, e, force)
    \/ mongo_find_candidate(a) \/ mongo_coalesce(a) \/ mongo_find_row(a) \/ mongo_requeue(a)
    \/ mongo_insert(a) \/ mongo_enqueue_raises(a)
    \/ sqlite_enqueue(a) \/ sqlite_enqueue_raises(a) \/ enqueue_returns(a)

Worker(w) ==
    \/ claim_fanout_batch(w) \/ mongo_claim_one(w) \/ mongo_claim_ends(w) \/ mongo_claim_raises(w)
    \/ sqlite_claim(w) \/ sqlite_claim_raises(w) \/ mark_raises(w)
    \/ \E j \in wk[w].jobs : push_and_mark_success(w, j) \/ push_fails(w, j)

Next ==
    \/ \E a \in Enqueuers : Enqueuer(a)
    \/ \E w \in Workers : Worker(w)
    \/ run_fanout_outbox_gc_once \/ restart

Spec == Init /\ [][Next]_ovars
-----------------------------------------------------------------------------
(* The two ways in which an enqueue on Mongo answers without a row: the row it
   was to requeue has been deleted since it was found (7434-7451), or insert_one
   failed for another reason than a duplicate.                                *)
Vanished(a) == enq[a].pc = "requeue" /\ store["mongo"][enq[a].event].status = "absent"
InsertLost(a) == enq[a].pc = "insert" /\ Fault

(* When an enqueue is answered without an error its event is in the backend that
   served it, in a row of its own or in one that still waits: whatever claims,
   deletions and other enqueues came between its document operations
   (_enqueue_fanout_outbox_mongo), but for the two cases above.               *)
AnsweredIsRecorded ==
    [][\A a \in Enqueuers : enq[a].pc # "answered" /\ enq'[a].pc = "answered" =>
         LET e == enq[a].event
             b == IF enq[a].pc = "sqlite" THEN "sqlite" ELSE "mongo"
         IN  \/ store'[b][e].status # "absent"
             \/ \E c \in Events : store'[b][c].status \in Waiting /\ store'[b][c].payload = e
             \/ Vanished(a) \/ InsertLost(a)]_ovars

(* Only a row whose own job reached the sink is marked delivered: a mark that is made
   after the backend was switched never lands on the other backend's row.             *)
SucceededWasPushed ==
    \A b \in Backends, e \in Events : store[b][e].status = "succeeded" => <<b, e>> \in pushed
=============================================================================

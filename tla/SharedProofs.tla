---------------------------- MODULE SharedProofs ----------------------------
(***************************************************************************)
(* State that concurrent requests share, for any number of calls, workers,  *)
(* searches and faults: the two backends of the fanout outbox and the       *)
(* switch between them, and the cache and background fetches of the Letta   *)
(* search.                                                                  *)
(***************************************************************************)
EXTENDS OutboxBackend, LettaSearch, FiniteSetTheorems, TLAPS

-----------------------------------------------------------------------------
(* The backends of the outbox *)

Statuses == {"absent", "pending", "retrying", "running", "succeeded", "failed"}
Rows == [status : Statuses, payload : Events \cup {NoEvent}, attempts : Nat]
Jobs == [backend : Backends, key : Events, payload : Events \cup {NoEvent}, attempts : Nat]
Batches == [pc : Backends \cup {"idle", "push"}, jobs : SUBSET Jobs, last : BOOLEAN]
Asked == {"mongo", "sqlite", "coalesce", "find", "requeue", "insert"}
Enqueues == [pc : Asked \cup {"idle", "answered", "raised"}, event : Events \cup {NoEvent}, force : BOOLEAN,
             candidate : Events \cup {NoEvent}, last : BOOLEAN]

BackendTypes ==
    /\ active \in Backends
    /\ store \in [Backends -> [Events -> Rows]]
    /\ enq \in [Enqueuers -> Enqueues]
    /\ wk \in [Workers -> Batches]

\* A row that counts as delivered was pushed.
RowHistory(b, e) == store[b][e].status = "succeeded" => <<b, e>> \in pushed

\* An enqueue call that is under way has an event.
CallHistory(a) == enq[a].pc \in Asked => enq[a].event \in Events

BackendInv ==
    /\ BackendTypes
    /\ \A b \in Backends, e \in Events : RowHistory(b, e)
    /\ \A a \in Enqueuers : CallHistory(a)

\* What every step may do to a row: mark it delivered once it is pushed, or anything else.
RowSteps ==
    \A b \in Backends, e \in Events :
        store'[b][e].status = "succeeded" => store[b][e].status = "succeeded" \/ <<b, e>> \in pushed'

\* A step that takes row steps, and forgets nothing pushed, keeps every row's history.
LEMMA HistoryKept ==
    ASSUME \A b \in Backends, e \in Events : RowHistory(b, e), RowSteps,
           pushed \subseteq pushed'
    PROVE  \A b \in Backends, e \in Events : RowHistory(b, e)'
  BY DEF RowHistory, RowSteps

\* A step of one enqueuer keeps the history of every other enqueuer's call.
LEMMA CallsKept ==
    ASSUME BackendTypes, \A a \in Enqueuers : CallHistory(a), NEW a \in Enqueuers, CallHistory(a)',
           \A x \in Enqueuers \ {a} : enq'[x] = enq[x]
    PROVE  \A x \in Enqueuers : CallHistory(x)'
  BY DEF CallHistory

\* One row is put in a backend.
LEMMA RowPut ==
    ASSUME BackendTypes, NEW b \in Backends, NEW e \in Events, NEW row \in Rows,
           store' = Put(b, e, row)
    PROVE  /\ store' \in [Backends -> [Events -> Rows]]
           /\ store'[b][e] = row
           /\ \A c \in Backends, x \in Events : <<c, x>> # <<b, e>> => store'[c][x] = store[c][x]
  BY DEF BackendTypes, Put

\* Writing one row changes no other row of either backend: the whole table takes row steps.
LEMMA RowPutSteps ==
    ASSUME BackendTypes, NEW b \in Backends, NEW e \in Events, NEW row \in Rows,
           store' = Put(b, e, row),
           row.status = "succeeded" => store[b][e].status = "succeeded" \/ <<b, e>> \in pushed'
    PROVE  RowSteps
  <1>1. /\ store'[b][e] = row
        /\ \A c \in Backends, x \in Events : <<c, x>> # <<b, e>> => store'[c][x] = store[c][x]
    BY RowPut
  <1> QED  BY <1>1 DEF RowSteps

\* The rows that operations make.
LEMMA RowKinds ==
    ASSUME BackendTypes, NEW b \in Backends, NEW e \in Events, NEW x \in Events
    PROVE  /\ Pending(e) \in Rows /\ Pending(e).status = "pending"
           /\ Coalesced(store[b][x], e) \in Rows /\ Coalesced(store[b][x], e).status = store[b][x].status
           /\ Claimed(store[b][x]) \in Rows /\ Claimed(store[b][x]).status = "running"
           /\ JobOf(b, x) \in Jobs
           /\ \A s \in Statuses : [store[b][x] EXCEPT !.status = s] \in Rows
           /\ Absent \in Rows /\ Absent.status = "absent"
  <1>1. store[b][x] \in Rows
    BY DEF BackendTypes
  <1>2. Pending(e) \in Rows /\ Pending(e).status = "pending" /\ Absent \in Rows /\ Absent.status = "absent"
    BY DEF Pending, Rows, Statuses, Absent
  <1>3. Coalesced(store[b][x], e) \in Rows /\ Coalesced(store[b][x], e).status = store[b][x].status
    BY <1>1 DEF Coalesced, Rows
  <1>4. Claimed(store[b][x]) \in Rows /\ Claimed(store[b][x]).status = "running"
    <2>1. \A n \in Nat : [store[b][x] EXCEPT !.status = "running", !.attempts = n] \in Rows
      BY Zenon, <1>1 DEF Rows, Statuses
    <2>2. store[b][x].attempts + 1 \in Nat
      BY <1>1 DEF Rows
    <2>3. [store[b][x] EXCEPT !.status = "running", !.attempts = store[b][x].attempts + 1].status = "running"
      BY <1>1 DEF Rows
    <2> QED  BY Zenon, <2>1, <2>2, <2>3 DEF Claimed
  <1>5. JobOf(b, x) \in Jobs
    BY <1>1 DEF JobOf, Jobs, Rows
  <1>6. \A s \in Statuses : [store[b][x] EXCEPT !.status = s] \in Rows
    BY <1>1 DEF Rows
  <1> QED  BY <1>2, <1>3, <1>4, <1>5, <1>6

-----------------------------------------------------------------------------
(* Enqueue calls *)

\* A call that only goes to another place.
LEMMA CallMoves ==
    ASSUME BackendInv, NEW a \in Enqueuers, NEW w \in Asked \cup {"answered", "raised"}, Goto(a, w)
    PROVE  /\ enq' \in [Enqueuers -> Enqueues]
           /\ enq'[a].pc = w /\ enq'[a].event = enq[a].event
           /\ \A x \in Enqueuers \ {a} : enq'[x] = enq[x]
  <1>1. enq \in [Enqueuers -> Enqueues]
    BY DEF BackendInv, BackendTypes
  <1>2. [enq[a] EXCEPT !.pc = w] \in Enqueues /\ [enq[a] EXCEPT !.pc = w].pc = w
        /\ [enq[a] EXCEPT !.pc = w].event = enq[a].event
    BY <1>1 DEF Enqueues
  <1>3. enq' = [enq EXCEPT ![a] = [enq[a] EXCEPT !.pc = w]]
    BY <1>1 DEF Goto
  <1> QED  BY <1>1, <1>2, <1>3

\* A call goes on without touching a row.
LEMMA CallMovesKeeps ==
    ASSUME BackendInv, NEW a \in Enqueuers, NEW w \in Asked \cup {"answered", "raised"}, Goto(a, w),
           UNCHANGED <<store, wk, pushed>>, active' \in Backends, enq[a].event \in Events
    PROVE  BackendInv'
  <1>1. /\ enq' \in [Enqueuers -> Enqueues]
        /\ enq'[a].pc = w /\ enq'[a].event = enq[a].event
        /\ \A x \in Enqueuers \ {a} : enq'[x] = enq[x]
    BY CallMoves
  <1>2. BackendTypes'
    BY <1>1 DEF BackendInv, BackendTypes
  <1>3. CallHistory(a)'
    BY <1>1 DEF CallHistory
  <1>4. \A x \in Enqueuers : CallHistory(x)'
    BY <1>1, <1>3, CallsKept DEF BackendInv
  <1>5. \A b \in Backends, e \in Events : RowHistory(b, e)'
    BY DEF BackendInv, RowHistory
  <1> QED  BY <1>2, <1>4, <1>5 DEF BackendInv

\* A call puts its event in a row and answers.
LEMMA AnswersKeeps ==
    ASSUME BackendInv, NEW a \in Enqueuers, NEW b \in Backends, NEW x \in Events, NEW row \in Rows,
           AnswerTo(a), store' = Put(b, x, row), enq[a].event \in Events,
           UNCHANGED <<active, wk, pushed>>, row.status # "succeeded"
    PROVE  BackendInv'
  <1>1. /\ enq' \in [Enqueuers -> Enqueues]
        /\ enq'[a].pc = "answered" /\ enq'[a].event = enq[a].event
        /\ \A c \in Enqueuers \ {a} : enq'[c] = enq[c]
    BY Zenon, CallMoves DEF AnswerTo, Goto
  <1>2. BackendTypes
    BY DEF BackendInv
  <1>3. store' \in [Backends -> [Events -> Rows]]
    BY <1>2, RowPut
  <1>4. BackendTypes'
    BY <1>1, <1>2, <1>3 DEF BackendTypes
  <1>5. CallHistory(a)'
    BY <1>1 DEF CallHistory, Asked
  <1>6. \A c \in Enqueuers : CallHistory(c)'
    BY Zenon, <1>1, <1>2, <1>5, CallsKept DEF BackendInv
  <1>7. RowSteps
    BY Zenon, <1>2, RowPutSteps
  <1>8. \A c \in Backends, e \in Events : RowHistory(c, e)'
    BY Zenon, <1>7, HistoryKept DEF BackendInv
  <1> QED  BY <1>4, <1>6, <1>8 DEF BackendInv

\* Every step of enqueue_fanout_event, on either backend, keeps the invariant.
LEMMA EnqueuerKeeps ==
    ASSUME BackendInv, NEW a \in Enqueuers, Enqueuer(a)
    PROVE  BackendInv'
  <1> DEFINE ev == enq[a].event
  <1>t. /\ BackendTypes /\ CallHistory(a) /\ enq[a] \in Enqueues /\ active \in Backends
        /\ enq \in [Enqueuers -> Enqueues]
        /\ \A b \in Backends, e \in Events : RowHistory(b, e)
    BY DEF BackendInv, BackendTypes
  <1>e. enq[a].pc \in Asked => ev \in Events
    BY <1>t DEF CallHistory
  <1>b. "mongo" \in Backends /\ "sqlite" \in Backends /\ Demoted \in Backends
    BY <1>t DEF Backends, Demoted
  <1>1. ASSUME NEW e \in Events, NEW force \in BOOLEAN, enqueue_fanout_outbox(a, e, force) PROVE BackendInv'
    <2>1. /\ enq' = [enq EXCEPT ![a] = [NoCall EXCEPT !.pc = active, !.event = e, !.force = force]]
          /\ UNCHANGED <<active, store, wk, pushed>>
      BY <1>1 DEF enqueue_fanout_outbox
    <2> DEFINE new == [NoCall EXCEPT !.pc = active, !.event = e, !.force = force]
    <2>2. new \in Enqueues /\ new.pc = active /\ new.event = e
      BY Zenon, <1>t, <1>1 DEF NoCall, Enqueues, Backends, Asked
    <2> HIDE DEF new
    <2>3. enq' \in [Enqueuers -> Enqueues] /\ enq'[a] = new /\ \A x \in Enqueuers \ {a} : enq'[x] = enq[x]
      BY <1>t, <2>1, <2>2 DEF new
    <2>4. CallHistory(a)'
      BY <1>t, <2>2, <2>3 DEF CallHistory, Backends
    <2>5. \A x \in Enqueuers : CallHistory(x)'
      BY <1>t, <2>1, <2>3, <2>4, CallsKept DEF BackendInv
    <2>6. BackendTypes' /\ \A b \in Backends, x \in Events : RowHistory(b, x)'
      BY <1>t, <2>1, <2>3 DEF BackendTypes, RowHistory
    <2> QED  BY <2>5, <2>6 DEF BackendInv
  <1>2. CASE mongo_find_candidate(a)
    <2>1. UNCHANGED <<active, store, wk, pushed>> /\ enq[a].pc = "mongo"
      BY <1>2 DEF mongo_find_candidate
    <2>2. ev \in Events
      BY <1>e, <2>1 DEF Asked
    <2>3. CASE Goto(a, "find")
      BY <1>t, <2>1, <2>2, <2>3, CallMovesKeeps DEF Asked
    <2>4. CASE \E c \in WaitingRows("mongo") : enq' = [enq EXCEPT ![a].pc = "coalesce", ![a].candidate = c]
      <3>1. PICK c \in WaitingRows("mongo") : enq' = [enq EXCEPT ![a].pc = "coalesce", ![a].candidate = c]
        BY Zenon, <2>4
      <3>2. c \in Events
        BY DEF WaitingRows
      <3>3. /\ [enq[a] EXCEPT !.pc = "coalesce", !.candidate = c] \in Enqueues
            /\ [enq[a] EXCEPT !.pc = "coalesce", !.candidate = c].pc = "coalesce"
            /\ [enq[a] EXCEPT !.pc = "coalesce", !.candidate = c].event = ev
        BY Zenon, <1>t, <3>2 DEF Enqueues, Asked
      <3>4. enq' = [enq EXCEPT ![a] = [enq[a] EXCEPT !.pc = "coalesce", !.candidate = c]]
        BY Zenon, <1>t, <3>1
      <3>5. /\ enq' \in [Enqueuers -> Enqueues] /\ enq'[a].pc = "coalesce" /\ enq'[a].event = ev
            /\ \A x \in Enqueuers \ {a} : enq'[x] = enq[x]
        BY <1>t, <3>3, <3>4
      <3>6. CallHistory(a)'
        BY <2>2, <3>5 DEF CallHistory
      <3>7. \A x \in Enqueuers : CallHistory(x)'
        BY <1>t, <2>1, <3>5, <3>6, CallsKept DEF BackendInv
      <3>8. BackendTypes' /\ \A b \in Backends, x \in Events : RowHistory(b, x)'
        BY <1>t, <2>1, <3>5 DEF BackendTypes, RowHistory
      <3> QED  BY <3>7, <3>8 DEF BackendInv
    <2> QED  BY <1>2, <2>3, <2>4 DEF mongo_find_candidate
  <1>3. CASE mongo_coalesce(a)
    <2>1. ev \in Events /\ UNCHANGED <<active, wk, pushed>>
      BY <1>3, <1>e DEF mongo_coalesce, Asked
    <2>2. CASE enq[a].candidate \in WaitingRows("mongo")
      <3> DEFINE c == enq[a].candidate
      <3>1. c \in Events /\ store["mongo"][c].status \in Waiting
        BY Zenon, <2>2 DEF WaitingRows
      <3>2. /\ store' = Put("mongo", c, Coalesced(store["mongo"][c], ev)) /\ AnswerTo(a)
        BY Zenon, <1>3, <2>2 DEF mongo_coalesce
      <3>3. Coalesced(store["mongo"][c], ev) \in Rows /\ Coalesced(store["mongo"][c], ev).status = store["mongo"][c].status
        BY Zenon, <1>b, <1>t, <2>1, <3>1, RowKinds
      <3>4. store["mongo"][c].status \notin {"absent", "succeeded"}
        BY <3>1 DEF Waiting
      <3> QED  BY <1>b, <2>1, <3>1, <3>2, <3>3, <3>4, AnswersKeeps
    <2>3. CASE enq[a].candidate \notin WaitingRows("mongo")
      <3>1. Goto(a, "find") /\ UNCHANGED store
        BY <1>3, <2>3 DEF mongo_coalesce
      <3> QED  BY <1>t, <2>1, <3>1, CallMovesKeeps DEF Asked
    <2> QED  BY <2>2, <2>3
  <1>4. CASE mongo_find_row(a)
    <2>1. ev \in Events /\ UNCHANGED <<active, wk, pushed, store>>
      BY <1>4, <1>e DEF mongo_find_row, Asked
    <2>2. CASE store["mongo"][ev].status = "absent"
      <3>1. Goto(a, "insert")
        BY <1>4, <2>2 DEF mongo_find_row
      <3> QED  BY Zenon, <1>t, <2>1, <3>1, CallMovesKeeps DEF Asked
    <2>3. CASE store["mongo"][ev].status # "absent"
      <3>1. Goto(a, "requeue") \/ Goto(a, "answered")
        BY <1>4, <2>3 DEF mongo_find_row, AnswerTo, Goto
      <3> QED  BY <1>t, <2>1, <3>1, CallMovesKeeps DEF Asked
    <2> QED  BY Zenon, <2>2, <2>3
  <1>5. CASE mongo_requeue(a)
    <2>1. ev \in Events /\ UNCHANGED <<active, wk, pushed>> /\ AnswerTo(a)
      BY <1>5, <1>e, <1>t DEF mongo_requeue, Asked, CallHistory
    <2>2. CASE store["mongo"][ev].status = "absent"
      <3>1. UNCHANGED store /\ Goto(a, "answered")
        BY Zenon, <1>5, <2>1, <2>2 DEF mongo_requeue, AnswerTo, Goto
      <3> QED  BY <1>t, <2>1, <3>1, CallMovesKeeps
    <2>3. CASE store["mongo"][ev].status # "absent"
      <3>1. store' = Put("mongo", ev, Pending(ev))
        BY <1>5, <2>3 DEF mongo_requeue
      <3>2. Pending(ev) \in Rows /\ Pending(ev).status = "pending"
        BY Zenon, <1>b, <1>t, <2>1, RowKinds
      <3> QED  BY Zenon, <1>b, <2>1, <3>1, <3>2, AnswersKeeps
    <2> QED  BY <2>2, <2>3
  <1>6. CASE mongo_insert(a)
    <2>1. ev \in Events /\ UNCHANGED <<active, wk, pushed>> /\ AnswerTo(a) /\ Goto(a, "answered")
      BY Zenon, <1>6, <1>e DEF mongo_insert, Asked, AnswerTo, Goto
    <2>2. CASE store' = Put("mongo", ev, Pending(ev))
      <3>1. Pending(ev) \in Rows /\ Pending(ev).status = "pending"
        BY Zenon, <1>b, <1>t, <2>1, RowKinds
      <3> QED  BY <1>b, <2>1, <2>2, <3>1, AnswersKeeps
    <2>3. CASE UNCHANGED store
      BY Zenon, <1>t, <2>1, <2>3, CallMovesKeeps
    <2> QED  BY <1>6, <2>2, <2>3 DEF mongo_insert
  <1>7. CASE mongo_enqueue_raises(a)
    <2>1. ev \in Events /\ UNCHANGED <<store, wk, pushed>>
      BY <1>7, <1>e DEF mongo_enqueue_raises, Asked
    <2>2. CASE Goto(a, "raised") /\ UNCHANGED active
      BY <1>t, <2>1, <2>2, CallMovesKeeps
    <2>3. CASE Goto(a, "sqlite") /\ active' = Demoted
      BY Zenon, <1>b, <2>1, <2>3, CallMovesKeeps DEF Asked
    <2> QED  BY <1>7, <2>2, <2>3 DEF mongo_enqueue_raises
  <1>8. CASE sqlite_enqueue(a)
    <2>1. ev \in Events /\ UNCHANGED <<active, wk, pushed>> /\ AnswerTo(a)
      BY Zenon, <1>8, <1>e DEF sqlite_enqueue, Asked
    <2>2. CASE \E c \in WaitingRows("sqlite") : store' = Put("sqlite", c, Coalesced(store["sqlite"][c], ev))
      <3>1. PICK c \in WaitingRows("sqlite") : store' = Put("sqlite", c, Coalesced(store["sqlite"][c], ev))
        BY <2>2
      <3>2. c \in Events /\ store["sqlite"][c].status \in Waiting
        BY DEF WaitingRows
      <3>3. /\ Coalesced(store["sqlite"][c], ev) \in Rows
            /\ Coalesced(store["sqlite"][c], ev).status = store["sqlite"][c].status
        BY <1>b, <1>t, <2>1, <3>2, RowKinds
      <3>4. store["sqlite"][c].status \notin {"absent", "succeeded"}
        BY Zenon, <3>2 DEF Waiting
      <3> QED  BY <1>b, <2>1, <3>1, <3>2, <3>3, <3>4, AnswersKeeps
    <2>3. CASE store' = Put("sqlite", ev, Pending(ev))
      <3>1. Pending(ev) \in Rows /\ Pending(ev).status = "pending"
        BY <1>b, <1>t, <2>1, RowKinds
      <3> QED  BY <1>b, <2>1, <2>3, <3>1, AnswersKeeps
    <2>4. CASE UNCHANGED store
      BY Zenon, <1>t, <2>1, <2>4, CallMovesKeeps DEF AnswerTo, Goto
    <2> QED  BY Zenon, <1>8, <2>2, <2>3, <2>4 DEF sqlite_enqueue
  <1>9. CASE sqlite_enqueue_raises(a)
    <2>1. ev \in Events /\ UNCHANGED <<store, wk, pushed>>
      BY <1>9, <1>e DEF sqlite_enqueue_raises, Asked
    <2>2. CASE Goto(a, "raised") /\ UNCHANGED active
      BY <1>t, <2>1, <2>2, CallMovesKeeps
    <2>3. CASE active' = "mongo" /\ enq' = [enq EXCEPT ![a].pc = "mongo", ![a].last = TRUE]
      <3>3. /\ [enq[a] EXCEPT !.pc = "mongo", !.last = TRUE] \in Enqueues
            /\ [enq[a] EXCEPT !.pc = "mongo", !.last = TRUE].pc = "mongo"
            /\ [enq[a] EXCEPT !.pc = "mongo", !.last = TRUE].event = ev
        BY Zenon, <1>t DEF Enqueues, Asked
      <3>4. enq' = [enq EXCEPT ![a] = [enq[a] EXCEPT !.pc = "mongo", !.last = TRUE]]
        BY Zenon, <1>t, <2>3
      <3>5. /\ enq' \in [Enqueuers -> Enqueues] /\ enq'[a].pc = "mongo" /\ enq'[a].event = ev
            /\ \A x \in Enqueuers \ {a} : enq'[x] = enq[x]
        BY <1>t, <3>3, <3>4
      <3>6. CallHistory(a)'
        BY Zenon, <2>1, <3>5 DEF CallHistory
      <3>7. \A x \in Enqueuers : CallHistory(x)'
        BY <1>t, <2>1, <3>5, <3>6, CallsKept DEF BackendInv
      <3>8. BackendTypes' /\ \A b \in Backends, x \in Events : RowHistory(b, x)'
        BY <1>b, <1>t, <2>1, <2>3, <3>5 DEF BackendTypes, RowHistory
      <3> QED  BY <3>7, <3>8 DEF BackendInv
    <2> QED  BY <1>9, <2>2, <2>3 DEF sqlite_enqueue_raises
  <1>10. CASE enqueue_returns(a)
    <2>1. enq' = [enq EXCEPT ![a] = NoCall] /\ UNCHANGED <<active, store, wk, pushed>>
      BY <1>10 DEF enqueue_returns
    <2>2. NoCall \in Enqueues /\ NoCall.pc = "idle"
      BY DEF NoCall, Enqueues
    <2>3. enq' \in [Enqueuers -> Enqueues] /\ enq'[a] = NoCall /\ \A x \in Enqueuers \ {a} : enq'[x] = enq[x]
      BY <1>t, <2>1, <2>2
    <2>4. CallHistory(a)'
      BY <2>2, <2>3 DEF CallHistory, Asked
    <2>5. \A x \in Enqueuers : CallHistory(x)'
      BY Zenon, <1>t, <2>1, <2>3, <2>4, CallsKept DEF BackendInv
    <2>6. BackendTypes' /\ \A b \in Backends, x \in Events : RowHistory(b, x)'
      BY <1>t, <2>1, <2>3 DEF BackendTypes, RowHistory
    <2> QED  BY <2>5, <2>6 DEF BackendInv
  <1> QED  BY <1>1, <1>2, <1>3, <1>4, <1>5, <1>6, <1>7, <1>8, <1>9, <1>10 DEF Enqueuer

-----------------------------------------------------------------------------
(* Workers, deletion and restarts *)

\* A step that leaves the enqueue calls alone and takes rows only where they may go.
LEMMA RowsMoveKeeps ==
    ASSUME BackendInv, BackendTypes', RowSteps, UNCHANGED enq, pushed \subseteq pushed'
    PROVE  BackendInv'
  <1>1. \A b \in Backends, e \in Events : RowHistory(b, e)'
    BY Zenon, HistoryKept DEF BackendInv
  <1>2. \A a \in Enqueuers : CallHistory(a)'
    BY DEF BackendInv, CallHistory
  <1> QED  BY <1>1, <1>2 DEF BackendInv

\* A step that leaves the tables alone takes row steps.
LEMMA SameRows ==
    ASSUME store' = store
    PROVE  RowSteps
  BY DEF RowSteps

\* What a worker of the outbox holds, and every update of it the actions write, is a batch.
LEMMA BatchKinds ==
    ASSUME BackendTypes, NEW w \in Workers
    PROVE  /\ wk[w] \in Batches /\ NoBatch \in Batches /\ wk[w].jobs \subseteq Jobs
           /\ \A pc \in Backends \cup {"push"} : [wk[w] EXCEPT !.pc = pc] \in Batches
           /\ \A b \in BOOLEAN, pc \in Backends : [NoBatch EXCEPT !.pc = pc, !.last = b] \in Batches
           /\ \A pc \in Backends : [NoBatch EXCEPT !.pc = pc] \in Batches
           /\ \A J \in SUBSET Jobs : /\ [wk[w] EXCEPT !.jobs = J] \in Batches
                                     /\ [NoBatch EXCEPT !.pc = "push", !.jobs = J] \in Batches
  <1>1. wk[w] \in Batches
    BY Zenon DEF BackendTypes
  <1>2. NoBatch \in Batches
    BY Zenon DEF NoBatch, Batches
  <1> QED  BY Zenon, <1>1, <1>2 DEF Batches

\* The mark of a job: on its own row if the job's backend is the active one, nowhere otherwise.
LEMMA MarkSteps ==
    ASSUME BackendTypes, NEW j \in Jobs, NEW s \in {"succeeded", "retrying", "failed"},
           store' = MarkedRow(j, s), s = "succeeded" => <<j.backend, j.key>> \in pushed'
    PROVE  store' \in [Backends -> [Events -> Rows]] /\ RowSteps
  <1>1. j.backend \in Backends /\ j.key \in Events /\ s \in Statuses
    BY DEF Jobs, Statuses
  <1>2. CASE store' = store
    BY <1>2, SameRows DEF BackendTypes
  <1>3. CASE /\ j.backend = active /\ store[active][j.key].status # "absent"
             /\ store' = [store EXCEPT ![active][j.key].status = s]
    <2> DEFINE row == [store[active][j.key] EXCEPT !.status = s]
    <2>1. row \in Rows /\ row.status = s
      <3>1. store[active][j.key] \in Rows
        BY <1>1, <1>3 DEF BackendTypes
      <3> QED  BY <1>1, <3>1 DEF Rows
    <2>2. store' = Put(active, j.key, row)
      BY Zenon, <1>1, <1>3 DEF BackendTypes, Put
    <2> HIDE DEF row
    <2>3. store' \in [Backends -> [Events -> Rows]]
      BY <1>1, <1>3, <2>1, <2>2, RowPut
    <2>4. RowSteps
      BY <1>1, <1>3, <2>1, <2>2, RowPutSteps
    <2> QED  BY <2>3, <2>4
  <1> QED  BY <1>2, <1>3 DEF MarkedRow

\* Every step of the outbox worker (claim, push, mark, on either backend) keeps the invariant.
LEMMA WorkerKeeps ==
    ASSUME BackendInv, NEW w \in Workers, Worker(w)
    PROVE  BackendInv'
  <1>t. /\ BackendTypes /\ active \in Backends /\ wk \in [Workers -> Batches]
        /\ enq \in [Enqueuers -> Enqueues] /\ store \in [Backends -> [Events -> Rows]]
    BY DEF BackendInv, BackendTypes
  <1>b. "mongo" \in Backends /\ "sqlite" \in Backends /\ Demoted \in Backends
    BY <1>t DEF Backends, Demoted
  <1>k. /\ wk[w] \in Batches /\ NoBatch \in Batches /\ wk[w].jobs \subseteq Jobs
        /\ \A pc \in Backends \cup {"push"} : [wk[w] EXCEPT !.pc = pc] \in Batches
        /\ \A b \in BOOLEAN, pc \in Backends : [NoBatch EXCEPT !.pc = pc, !.last = b] \in Batches
        /\ \A pc \in Backends : [NoBatch EXCEPT !.pc = pc] \in Batches
        /\ \A J \in SUBSET Jobs : /\ [wk[w] EXCEPT !.jobs = J] \in Batches
                                  /\ [NoBatch EXCEPT !.pc = "push", !.jobs = J] \in Batches
    BY Zenon, <1>t, BatchKinds
  <1>w. \A new \in Batches : [wk EXCEPT ![w] = new] \in [Workers -> Batches]
    BY <1>t
  <1>s. ASSUME store' = store, wk' \in [Workers -> Batches], active' \in Backends,
               UNCHANGED enq, pushed' = pushed
        PROVE  BackendInv'
    <2>1. BackendTypes'
      BY <1>t, <1>s DEF BackendTypes
    <2>2. RowSteps
      BY <1>s, SameRows
    <2> QED  BY <1>s, <2>1, <2>2, RowsMoveKeeps
  <1>1. CASE claim_fanout_batch(w)
    <2>1. wk' = [wk EXCEPT ![w] = [wk[w] EXCEPT !.pc = active]]
      BY <1>1, <1>t DEF claim_fanout_batch
    <2> QED  BY Zenon, <1>1, <1>k, <1>s, <1>t, <1>w, <2>1 DEF claim_fanout_batch
  <1>2. CASE mongo_claim_one(w)
    <2>1. PICK e \in WaitingRows("mongo") :
             /\ store' = Put("mongo", e, Claimed(store["mongo"][e]))
             /\ wk' = [wk EXCEPT ![w].jobs = wk[w].jobs \cup {JobOf("mongo", e)}]
      BY <1>2 DEF mongo_claim_one
    <2>2. UNCHANGED <<active, enq, pushed>>
      BY <1>2 DEF mongo_claim_one
    <2>3. e \in Events /\ store["mongo"][e].status \in Waiting
      BY DEF WaitingRows
    <2>4. /\ Claimed(store["mongo"][e]) \in Rows /\ Claimed(store["mongo"][e]).status = "running"
          /\ JobOf("mongo", e) \in Jobs
      BY <1>b, <1>t, <2>3, RowKinds
    <2>5. wk' = [wk EXCEPT ![w] = [wk[w] EXCEPT !.jobs = wk[w].jobs \cup {JobOf("mongo", e)}]]
      BY <1>t, <2>1
    <2>6. wk' \in [Workers -> Batches]
      BY Zenon, <1>k, <1>w, <2>4, <2>5
    <2>7. store' \in [Backends -> [Events -> Rows]]
      BY <1>b, <1>t, <2>1, <2>3, <2>4, RowPut
    <2>8. RowSteps
      BY <1>b, <1>t, <2>1, <2>3, <2>4, RowPutSteps DEF Waiting
    <2>9. BackendTypes'
      BY Zenon, <1>t, <2>2, <2>6, <2>7 DEF BackendTypes
    <2> QED  BY <2>2, <2>8, <2>9, RowsMoveKeeps
  <1>3. CASE mongo_claim_ends(w)
    <2>1. wk' \in [Workers -> Batches]
      BY Zenon, <1>3, <1>k, <1>w DEF mongo_claim_ends
    <2> QED  BY <1>3, <1>s, <1>t, <2>1 DEF mongo_claim_ends
  <1>4. CASE mongo_claim_raises(w)
    <2>1. wk' \in [Workers -> Batches] /\ active' \in Backends
      BY Zenon, <1>4, <1>b, <1>k, <1>t, <1>w DEF mongo_claim_raises
    <2> QED  BY <1>4, <1>s, <2>1 DEF mongo_claim_raises
  <1>5. CASE sqlite_claim(w)
    <2>1. PICK S \in SUBSET WaitingRows("sqlite") :
             /\ store' = [store EXCEPT !["sqlite"] =
                            [e \in Events |-> IF e \in S THEN Claimed(store["sqlite"][e]) ELSE store["sqlite"][e]]]
             /\ wk' = [wk EXCEPT ![w] =
                         IF S = {} THEN NoBatch
                         ELSE [NoBatch EXCEPT !.pc = "push", !.jobs = {JobOf("sqlite", e) : e \in S}]]
      BY Zenon, <1>5 DEF sqlite_claim
    <2>2. UNCHANGED <<active, enq, pushed>>
      BY <1>5 DEF sqlite_claim
    <2>3. S \subseteq Events /\ \A e \in S : store["sqlite"][e].status \in Waiting
      BY DEF WaitingRows
    <2>4. \A e \in Events : /\ Claimed(store["sqlite"][e]) \in Rows /\ Claimed(store["sqlite"][e]).status = "running"
                            /\ JobOf("sqlite", e) \in Jobs
      BY Zenon, <1>b, <1>t, RowKinds
    <2>5. {JobOf("sqlite", e) : e \in S} \in SUBSET Jobs
      BY <2>3, <2>4
    <2>6. wk' \in [Workers -> Batches]
      BY Zenon, <1>k, <1>w, <2>1, <2>5
    <2>7. /\ store' \in [Backends -> [Events -> Rows]]
          /\ \A b \in Backends, e \in Events :
                store'[b][e] = IF b = "sqlite" /\ e \in S THEN Claimed(store["sqlite"][e]) ELSE store[b][e]
      BY Zenon, <1>b, <1>t, <2>1, <2>4
    <2>8. RowSteps
      BY Zenon, <2>3, <2>4, <2>7 DEF RowSteps, Waiting
    <2>9. BackendTypes'
      BY <1>t, <2>2, <2>6, <2>7 DEF BackendTypes
    <2> QED  BY <2>2, <2>8, <2>9, RowsMoveKeeps
  <1>6. CASE sqlite_claim_raises(w)
    <2>1. wk' \in [Workers -> Batches] /\ active' \in Backends
      BY Zenon, <1>6, <1>b, <1>k, <1>t, <1>w DEF sqlite_claim_raises
    <2> QED  BY <1>6, <1>s, <2>1 DEF sqlite_claim_raises
  <1>7. CASE mark_raises(w)
    <2>1. wk' \in [Workers -> Batches] /\ active' \in Backends
      BY Zenon, <1>7, <1>b, <1>k, <1>t, <1>w DEF mark_raises
    <2> QED  BY <1>7, <1>s, <2>1 DEF mark_raises
  <1>j. \A j \in wk[w].jobs : JobsLeft(w, j) \in Batches
    BY Zenon, <1>k DEF JobsLeft
  <1>8. ASSUME NEW j \in wk[w].jobs, push_and_mark_success(w, j) PROVE BackendInv'
    <2>1. /\ pushed' = pushed \cup {<<j.backend, j.key>>} /\ store' = MarkedRow(j, "succeeded")
          /\ wk' \in [Workers -> Batches] /\ UNCHANGED <<active, enq>> /\ j \in Jobs
      BY Zenon, <1>8, <1>j, <1>k, <1>w DEF push_and_mark_success
    <2>2. store' \in [Backends -> [Events -> Rows]] /\ RowSteps
      BY <1>t, <2>1, MarkSteps
    <2>3. BackendTypes'
      BY Zenon, <1>t, <2>1, <2>2 DEF BackendTypes
    <2> QED  BY <2>1, <2>2, <2>3, RowsMoveKeeps
  <1>9. ASSUME NEW j \in wk[w].jobs, push_fails(w, j) PROVE BackendInv'
    <2> DEFINE s == IF j.attempts < MaxAttempts THEN "retrying" ELSE "failed"
    <2>1. /\ store' = MarkedRow(j, s) /\ wk' \in [Workers -> Batches]
          /\ UNCHANGED <<active, enq, pushed>> /\ j \in Jobs
      BY Zenon, <1>9, <1>j, <1>k, <1>w DEF push_fails
    <2>2. s \in {"retrying", "failed"}
      BY Zenon
    <2> HIDE DEF s
    <2>3. store' \in [Backends -> [Events -> Rows]] /\ RowSteps
      BY Zenon, <1>t, <2>1, <2>2, MarkSteps
    <2>4. BackendTypes'
      BY Zenon, <1>t, <2>1, <2>3 DEF BackendTypes
    <2> QED  BY Zenon, <2>1, <2>3, <2>4, RowsMoveKeeps
  <1> QED  BY <1>1, <1>2, <1>3, <1>4, <1>5, <1>6, <1>7, <1>8, <1>9 DEF Worker

\* The outbox sweep, which only deletes rows, keeps the invariant.
LEMMA GcKeeps ==
    ASSUME BackendInv, run_fanout_outbox_gc_once
    PROVE  BackendInv'
  <1>t. BackendTypes
    BY DEF BackendInv
  <1> DEFINE b == IF faults' = faults THEN active ELSE "sqlite"
             finished == {e \in Events : store[b][e].status \in {"succeeded", "failed"}}
  <1>1. PICK S \in (SUBSET finished) \ {{}} :
           store' = [store EXCEPT ![b] = [e \in Events |-> IF e \in S THEN Absent ELSE store[b][e]]]
    BY Zenon DEF run_fanout_outbox_gc_once
  <1>2. active' \in Backends /\ UNCHANGED <<enq, wk, pushed>>
    BY Zenon, <1>t DEF run_fanout_outbox_gc_once, BackendTypes, Backends, Demoted
  <1>3. b \in Backends
    BY Zenon, <1>t DEF BackendTypes, Backends
  <1> HIDE DEF b, finished
  <1>4. Absent \in Rows /\ Absent.status = "absent"
    BY DEF Absent, Rows, Statuses
  <1>5. /\ store' \in [Backends -> [Events -> Rows]]
        /\ \A c \in Backends, e \in Events : store'[c][e] = IF c = b /\ e \in S THEN Absent ELSE store[c][e]
    BY <1>t, <1>1, <1>3, <1>4 DEF BackendTypes
  <1>6. RowSteps
    BY Zenon, <1>4, <1>5 DEF RowSteps
  <1>7. BackendTypes'
    BY <1>t, <1>2, <1>5 DEF BackendTypes
  <1> QED  BY <1>2, <1>6, <1>7, RowsMoveKeeps

\* A restart, which may come up on the other backend, keeps the invariant.
LEMMA RestartKeeps ==
    ASSUME BackendInv, Configured \in Backends, restart
    PROVE  BackendInv'
  <1>t. BackendTypes
    BY DEF BackendInv
  <1>1. PICK S \in SUBSET {e \in Events : store[active'][e].status = "running"} :
          store' = [store EXCEPT ![active'] =
                      [e \in Events |-> IF e \in S THEN [store[active'][e] EXCEPT !.status = "retrying"]
                                        ELSE store[active'][e]]]
    BY Zenon DEF restart
  <1>2. active' \in Backends /\ UNCHANGED pushed
    BY DEF restart, Backends
  <1>3. enq' = [a \in Enqueuers |-> NoCall] /\ wk' = [w \in Workers |-> NoBatch]
    BY DEF restart
  <1>4. NoCall \in Enqueues /\ NoCall.pc = "idle" /\ NoBatch \in Batches
    BY Zenon DEF NoCall, Enqueues, NoBatch, Batches
  <1>5. \A e \in Events : /\ store[active'][e] \in Rows
                          /\ [store[active'][e] EXCEPT !.status = "retrying"] \in Rows
                          /\ [store[active'][e] EXCEPT !.status = "retrying"].status = "retrying"
    <2>1. \A e \in Events : store[active'][e] \in Rows
      BY <1>t, <1>2 DEF BackendTypes
    <2> QED  BY <2>1 DEF Rows, Statuses
  <1>6. /\ store' \in [Backends -> [Events -> Rows]]
        /\ \A c \in Backends, e \in Events :
              store'[c][e] = IF c = active' /\ e \in S THEN [store[active'][e] EXCEPT !.status = "retrying"]
                             ELSE store[c][e]
    BY <1>t, <1>1, <1>2, <1>5 DEF BackendTypes
  <1>7. RowSteps
    <2>1. \A e \in S : e \in Events /\ store[active'][e].status = "running"
      BY Zenon
    <2> QED  BY <1>2, <1>5, <1>6, <2>1 DEF RowSteps
  <1>8. BackendTypes'
    BY <1>2, <1>3, <1>4, <1>6 DEF BackendTypes
  <1>9. \A c \in Backends, e \in Events : RowHistory(c, e)'
    BY Zenon, <1>2, <1>7, HistoryKept DEF BackendInv
  <1>10. \A a \in Enqueuers : CallHistory(a)'
    BY <1>3, <1>4 DEF CallHistory, Asked
  <1> QED  BY <1>8, <1>9, <1>10 DEF BackendInv

\* The invariant holds in every state of the outbox over its two backends.
LEMMA BackendInvariant ==
    ASSUME Configured \in Backends
    PROVE  Spec => []BackendInv
  <1>1. Init => BackendInv
    <2> SUFFICES ASSUME Init PROVE BackendInv
      BY Zenon
    <2>1. NoCall \in Enqueues /\ NoCall.pc = "idle" /\ NoBatch \in Batches
      BY DEF NoCall, Enqueues, NoBatch, Batches
    <2>2. Absent \in Rows /\ Absent.status = "absent"
      BY DEF Absent, Rows, Statuses
    <2>3. BackendTypes
      BY <2>1, <2>2 DEF Init, BackendTypes
    <2>4. \A b \in Backends, e \in Events : RowHistory(b, e)
      BY Zenon, <2>2 DEF Init, RowHistory
    <2>5. \A a \in Enqueuers : CallHistory(a)
      BY <2>1 DEF Init, CallHistory, Asked
    <2> QED  BY <2>3, <2>4, <2>5 DEF BackendInv
  <1>2. BackendInv /\ [Next]_ovars => BackendInv'
    <2> SUFFICES ASSUME BackendInv, [Next]_ovars PROVE BackendInv'
      BY Zenon
    <2>1. CASE UNCHANGED ovars
      BY <2>1 DEF ovars, BackendInv, BackendTypes, RowHistory, CallHistory
    <2> QED  BY <2>1, EnqueuerKeeps, WorkerKeeps, GcKeeps, RestartKeeps DEF Next
  <1> QED  BY <1>1, <1>2, PTL DEF Spec

\* What an enqueue call that is answered has to show for it.
Shown(a) ==
    LET e == enq[a].event
        b == IF enq[a].pc = "sqlite" THEN "sqlite" ELSE "mongo"
    IN  \/ store'[b][e].status # "absent"
        \/ \E c \in Events : store'[b][c].status \in Waiting /\ store'[b][c].payload = e
        \/ Vanished(a) \/ InsertLost(a)

\* A row that took the event of a call in its place, or was made for it, shows it.
LEMMA PutShows ==
    ASSUME BackendTypes, NEW a \in Enqueuers, NEW e \in Events, e = enq[a].event, NEW b \in Backends,
           b = IF enq[a].pc = "sqlite" THEN "sqlite" ELSE "mongo",
           \/ store' = Put(b, e, Pending(e))
           \/ \E c \in WaitingRows(b) : store' = Put(b, c, Coalesced(store[b][c], e))
    PROVE  Shown(a)
  <1>1. CASE store' = Put(b, e, Pending(e))
    <2>1. Pending(e) \in Rows /\ Pending(e).status = "pending"
      BY RowKinds
    <2>2. store'[b][e].status # "absent"
      BY <1>1, <2>1, RowPut
    <2> QED  BY Zenon, <2>2 DEF Shown
  <1>2. ASSUME NEW c \in WaitingRows(b), store' = Put(b, c, Coalesced(store[b][c], e)) PROVE Shown(a)
    <2>1. c \in Events /\ store[b][c].status \in Waiting
      BY DEF WaitingRows
    <2>2. Coalesced(store[b][c], e) \in Rows /\ Coalesced(store[b][c], e).status = store[b][c].status
      BY <2>1, RowKinds
    <2>3. Coalesced(store[b][c], e).payload = e
      <3>1. store[b][c] \in Rows
        BY <2>1 DEF BackendTypes
      <3> QED  BY <3>1 DEF Coalesced, Rows
    <2>4. store'[b][c] = Coalesced(store[b][c], e)
      <3> DEFINE row == Coalesced(store[b][c], e)
      <3>1. row \in Rows /\ store' = Put(b, c, row)
        BY <1>2, <2>2
      <3> HIDE DEF row
      <3>2. store'[b][c] = row
        BY <2>1, <3>1, RowPut
      <3> QED  BY <3>2 DEF row
    <2>5. store'[b][c].status \in Waiting /\ store'[b][c].payload = e
      BY Zenon, <2>1, <2>2, <2>3, <2>4
    <2> QED  BY Zenon, <2>1, <2>5 DEF Shown
  <1> QED  BY <1>1, <1>2

\* Every step with which an enqueue call answers.
LEMMA AnswersShow ==
    ASSUME BackendInv, NEW a \in Enqueuers, Enqueuer(a), enq[a].pc # "answered", enq'[a].pc = "answered"
    PROVE  Shown(a)
  <1> DEFINE ev == enq[a].event
  <1>t. BackendTypes /\ CallHistory(a) /\ enq \in [Enqueuers -> Enqueues] /\ active \in Backends
    BY DEF BackendInv, BackendTypes
  <1>e. enq[a].pc \in Asked => ev \in Events
    BY <1>t DEF CallHistory
  <1>b. "mongo" \in Backends /\ "sqlite" \in Backends
    BY DEF Backends
  <1>g. \A w : Goto(a, w) => w = "answered"
    BY <1>t DEF Goto, Enqueues
  <1>1. ASSUME NEW e \in Events, NEW force \in BOOLEAN PROVE ~enqueue_fanout_outbox(a, e, force)
    <2>1. [NoCall EXCEPT !.pc = active, !.event = e, !.force = force].pc = active /\ active # "answered"
      BY <1>t DEF NoCall, Backends
    <2> QED  BY <1>t, <2>1 DEF enqueue_fanout_outbox
  <1>2. ~mongo_find_candidate(a)
    <2>1. \A c : [enq[a] EXCEPT !.pc = "coalesce", !.candidate = c].pc = "coalesce"
      BY <1>t DEF Enqueues
    <2>2. \A c : enq' # [enq EXCEPT ![a].pc = "coalesce", ![a].candidate = c]
      BY <1>t, <2>1
    <2> QED  BY Zenon, <1>g, <2>2 DEF mongo_find_candidate
  <1>3. CASE mongo_coalesce(a)
    <2>1. ev \in Events /\ enq[a].pc = "coalesce"
      BY <1>3, <1>e DEF mongo_coalesce, Asked
    <2>2. \E c \in WaitingRows("mongo") : store' = Put("mongo", c, Coalesced(store["mongo"][c], ev))
      BY Zenon, <1>3, <1>g DEF mongo_coalesce
    <2> QED  BY <1>b, <1>t, <2>1, <2>2, PutShows
  <1>4. CASE mongo_find_row(a)
    <2>1. store' = store /\ enq[a].pc = "find" /\ store["mongo"][ev].status # "absent"
      BY Zenon, <1>4, <1>g DEF mongo_find_row
    <2> QED  BY <2>1 DEF Shown
  <1>5. CASE mongo_requeue(a)
    <2>1. ev \in Events /\ enq[a].pc = "requeue"
      BY <1>5, <1>e DEF mongo_requeue, Asked
    <2>2. Vanished(a) \/ store' = Put("mongo", ev, Pending(ev))
      BY Zenon, <1>5 DEF mongo_requeue, Vanished
    <2>3. CASE Vanished(a)
      BY Zenon, <2>3 DEF Shown
    <2>4. CASE store' = Put("mongo", ev, Pending(ev))
      BY <1>b, <1>t, <2>1, <2>4, PutShows
    <2> QED  BY <2>2, <2>3, <2>4
  <1>6. CASE mongo_insert(a)
    <2>1. ev \in Events /\ enq[a].pc = "insert"
      BY <1>6, <1>e DEF mongo_insert, Asked
    <2>2. CASE store' = Put("mongo", ev, Pending(ev))
      BY <1>b, <1>t, <2>1, <2>2, PutShows
    <2>3. CASE store["mongo"][ev].status # "absent" /\ store' = store
      BY <2>1, <2>3 DEF Shown
    <2>4. CASE Fault
      <3>1. InsertLost(a)
        BY <2>1, <2>4 DEF InsertLost
      <3> QED  BY Zenon, <3>1 DEF Shown
    <2> QED  BY Zenon, <1>6, <2>2, <2>3, <2>4 DEF mongo_insert
  <1>7. ~mongo_enqueue_raises(a)
    BY Zenon, <1>g DEF mongo_enqueue_raises
  <1>8. CASE sqlite_enqueue(a)
    <2>1. ev \in Events /\ enq[a].pc = "sqlite"
      BY <1>8, <1>e DEF sqlite_enqueue, Asked
    <2>2. CASE \/ store' = Put("sqlite", ev, Pending(ev))
               \/ \E c \in WaitingRows("sqlite") : store' = Put("sqlite", c, Coalesced(store["sqlite"][c], ev))
      BY <1>b, <1>t, <2>1, <2>2, PutShows
    <2>3. CASE store["sqlite"][ev].status # "absent" /\ store' = store
      BY <2>1, <2>3 DEF Shown
    <2> QED  BY Zenon, <1>8, <2>2, <2>3 DEF sqlite_enqueue
  <1>9. ~sqlite_enqueue_raises(a)
    <2>1. [enq[a] EXCEPT !.pc = "mongo", !.last = TRUE].pc = "mongo"
      BY <1>t DEF Enqueues
    <2>2. enq' # [enq EXCEPT ![a].pc = "mongo", ![a].last = TRUE]
      BY <1>t, <2>1
    <2> QED  BY Zenon, <1>g, <2>2 DEF sqlite_enqueue_raises
  <1>10. ~enqueue_returns(a)
    BY <1>t DEF enqueue_returns, NoCall
  <1> QED  BY <1>1, <1>2, <1>3, <1>4, <1>5, <1>6, <1>7, <1>8, <1>9, <1>10 DEF Enqueuer

\* A step of an enqueuer leaves the calls of the others alone.
LEMMA OthersWait ==
    ASSUME BackendInv, NEW a \in Enqueuers, Enqueuer(a), NEW x \in Enqueuers, x # a
    PROVE  enq'[x] = enq[x]
  <1>1. enq \in [Enqueuers -> Enqueues]
    BY DEF BackendInv, BackendTypes
  <1>2. \A w : (Goto(a, w) => enq'[x] = enq[x]) /\ (AnswerTo(a) => enq'[x] = enq[x])
    BY <1>1 DEF Goto, AnswerTo
  <1>3. ASSUME NEW e \in Events, NEW force \in BOOLEAN, enqueue_fanout_outbox(a, e, force) PROVE enq'[x] = enq[x]
    BY <1>1, <1>3 DEF enqueue_fanout_outbox
  <1>4. CASE mongo_find_candidate(a)
    BY <1>1, <1>2, <1>4 DEF mongo_find_candidate
  <1>5. CASE \/ mongo_coalesce(a) \/ mongo_find_row(a) \/ mongo_requeue(a) \/ mongo_insert(a)
             \/ mongo_enqueue_raises(a) \/ sqlite_enqueue(a)
    BY Zenon, <1>2, <1>5 DEF mongo_coalesce, mongo_find_row, mongo_requeue, mongo_insert,
                             mongo_enqueue_raises, sqlite_enqueue
  <1>6. CASE sqlite_enqueue_raises(a)
    BY <1>1, <1>2, <1>6 DEF sqlite_enqueue_raises
  <1>7. CASE enqueue_returns(a)
    BY <1>1, <1>7 DEF enqueue_returns
  <1> QED  BY <1>3, <1>4, <1>5, <1>6, <1>7 DEF Enqueuer

\* Whatever claims, deletions, switches of the backend, errors and crashes come between the document
\* operations of an enqueue, one that returns without an error leaves its event in a row of the
\* backend that served it, unless the row it was to requeue has been deleted since it was found or
\* an insert_one failed for another reason than a duplicate.
THEOREM AnswersAreRecorded ==
    ASSUME Configured \in Backends
    PROVE  Spec => AnsweredIsRecorded
  <1>1. BackendInv /\ [Next]_ovars =>
          [\A a \in Enqueuers : enq[a].pc # "answered" /\ enq'[a].pc = "answered" => Shown(a)]_ovars
    <2> SUFFICES ASSUME BackendInv, Next, NEW a \in Enqueuers, enq[a].pc # "answered", enq'[a].pc = "answered"
                 PROVE  Shown(a)
      BY Zenon
    <2>1. ASSUME NEW x \in Enqueuers, Enqueuer(x) PROVE Shown(a)
      <3>1. x = a
        BY <2>1, OthersWait
      <3> QED  BY <2>1, <3>1, AnswersShow
    <2>2. ASSUME UNCHANGED enq PROVE FALSE
      BY <2>2
    <2>3. ASSUME NEW w \in Workers, Worker(w) PROVE FALSE
      BY Zenon, <2>2, <2>3 DEF Worker, claim_fanout_batch, mongo_claim_one, mongo_claim_ends, mongo_claim_raises,
                        sqlite_claim, sqlite_claim_raises, mark_raises, push_and_mark_success, push_fails
    <2>4. CASE run_fanout_outbox_gc_once
      BY Zenon, <2>2, <2>4 DEF run_fanout_outbox_gc_once
    <2>5. CASE restart
      BY <2>5 DEF restart, NoCall
    <2> QED  BY <2>1, <2>3, <2>4, <2>5 DEF Next
  <1> QED  BY <1>1, BackendInvariant, PTL DEF Spec, AnsweredIsRecorded, Shown

\* A row counts as delivered only after a claimed copy of that very row reached the sink: a mark made
\* after the backend was switched does not land on the other backend's row of the same event.
THEOREM DeliveredWasPushed ==
    ASSUME Configured \in Backends
    PROVE  Spec => []SucceededWasPushed
  <1>1. BackendInv => SucceededWasPushed
    BY Zenon DEF BackendInv, RowHistory, SucceededWasPushed
  <1> QED  BY <1>1, BackendInvariant, PTL

-----------------------------------------------------------------------------
(* The Letta search *)

\* What the deployment gives the search: a mark lives for some time (warm_timeout + 5), and
\* searches and background tasks are different coroutines.
LettaSetting ==
    /\ LettaTtl \in Nat /\ SearchTimeout \in Nat /\ MarkSecs \in Nat \ {0} /\ MaxWarms \in Nat
    /\ MaxLettaTime \in Nat /\ Searchers \cap Warmers = {}

Entries == [query : LettaQueries, at : Nat, expires : Nat]
Fetches == [query : LettaQueries, since : Nat, at : Nat]
Longest == IF MarkSecs > SearchTimeout THEN MarkSecs ELSE SearchTimeout

LettaTypes ==
    /\ ltime \in Nat /\ ltime <= MaxLettaTime /\ overdue \in BOOLEAN /\ age \in Int
    /\ lcache \in Seq(Entries)
    /\ fetch \in [Searchers \cup Warmers -> Fetches \cup {NoFetch}]

\* The rows of a request were computed after it was made; a search is within its limit, and so is
\* a background fetch as long as none has outlived its mark.
FetchTimes ==
    \A a \in Searchers \cup Warmers : Busy(a) =>
        /\ fetch[a].since <= ltime
        /\ fetch[a].at # Unread => fetch[a].since <= fetch[a].at /\ fetch[a].at <= ltime
        /\ a \in Searchers => ltime <= fetch[a].since + SearchTimeout
        /\ a \in Warmers /\ ~overdue => ltime < fetch[a].since + MarkSecs

CacheTimes == ~overdue => \A e \in Range(lcache) : e.expires <= e.at + LettaTtl + Longest

LettaInv == LettaTypes /\ FetchTimes /\ CacheTimes /\ LettaRowsAge

\* Dropping a query from the search cache leaves a sequence of entries that were there before.
LEMMA DropKeeps ==
    ASSUME NEW cache \in Seq(Entries), NEW q
    PROVE  Drop(cache, q) \in Seq(Entries) /\ Range(Drop(cache, q)) \subseteq Range(cache)
  <1>1. CASE ~\E j \in DOMAIN cache : cache[j].query = q
    BY <1>1 DEF Drop
  <1>2. CASE \E j \in DOMAIN cache : cache[j].query = q
    <2> DEFINE n == Len(cache) - 1
               kept == [i \in 1..n |-> IF \E j \in 1..i : cache[j].query = q THEN cache[i + 1] ELSE cache[i]]
    <2>1. Drop(cache, q) = kept
      BY <1>2 DEF Drop
    <2>2. DOMAIN cache = 1..Len(cache) /\ Len(cache) \in Nat /\ \A i \in DOMAIN cache : cache[i] \in Entries
      OBVIOUS
    <2>3. n \in Nat
      BY <1>2, <2>2
    <2>4. \A i \in 1..n : i \in DOMAIN cache /\ i + 1 \in DOMAIN cache
      BY <2>2
    <2>5. \A i \in 1..n : kept[i] = cache[i + 1] \/ kept[i] = cache[i]
      BY Zenon
    <2>6. DOMAIN kept = 1..n /\ kept = [i \in 1..n |-> kept[i]]
      BY Zenon
    <2> HIDE DEF kept, n
    <2>7. kept \in [1..n -> Entries]
      BY <2>2, <2>4, <2>5, <2>6
    <2>8. kept \in Seq(Entries)
      BY <2>3, <2>7
    <2>9. Range(kept) \subseteq Range(cache)
      BY Zenon, <2>4, <2>5, <2>6 DEF Range
    <2> QED  BY <2>1, <2>8, <2>9
  <1> QED  BY <1>1, <1>2

\* Storing an entry adds that entry to the cache and nothing else.
LEMMA AppendKeeps ==
    ASSUME NEW cache \in Seq(Entries), NEW e \in Entries
    PROVE  Append(cache, e) \in Seq(Entries) /\ Range(Append(cache, e)) \subseteq Range(cache) \cup {e}
  <1>1. /\ Append(cache, e) \in Seq(Entries) /\ Len(Append(cache, e)) = Len(cache) + 1 /\ Len(cache) \in Nat
        /\ Append(cache, e)[Len(cache) + 1] = e /\ \A i \in 1..Len(cache) : Append(cache, e)[i] = cache[i]
    OBVIOUS
  <1>2. DOMAIN Append(cache, e) = 1..(Len(cache) + 1) /\ DOMAIN cache = 1..Len(cache)
    BY <1>1
  <1>3. \A i \in 1..(Len(cache) + 1) : i \in 1..Len(cache) \/ i = Len(cache) + 1
    BY <1>1
  <1> QED  BY <1>1, <1>2, <1>3 DEF Range

\* What the cache holds after an entry was set.
LEMMA CacheSetKeeps ==
    ASSUME LettaTypes, LettaTtl \in Nat, NEW q \in LettaQueries, NEW t \in Nat, letta_search_cache_set(q, t)
    PROVE  /\ lcache' \in Seq(Entries)
           /\ Range(lcache') \subseteq Range(lcache) \cup {[query |-> q, at |-> t, expires |-> ltime + LettaTtl]}
  <1> DEFINE new == [query |-> q, at |-> t, expires |-> ltime + LettaTtl]
             put == Append(Drop(lcache, q), new)
  <1>1. new \in Entries
    <2>1. ltime + LettaTtl \in Nat
      BY DEF LettaTypes
    <2> QED  BY Zenon, <2>1 DEF Entries
  <1>2. lcache' = put \/ (Len(put) > LettaMaxKeys /\ lcache' = Tail(put))
    BY Zenon DEF letta_search_cache_set
  <1> HIDE DEF new
  <1>3. Drop(lcache, q) \in Seq(Entries) /\ Range(Drop(lcache, q)) \subseteq Range(lcache)
    BY DropKeeps DEF LettaTypes
  <1>4. put \in Seq(Entries) /\ Range(put) \subseteq Range(lcache) \cup {new}
    BY <1>1, <1>3, AppendKeeps
  <1>5. put # <<>>
    BY <1>1, <1>3
  <1> HIDE DEF put
  <1>6. Tail(put) \in Seq(Entries) /\ Range(Tail(put)) \subseteq Range(put)
    <2>1. Tail(put) \in Seq(Entries) /\ Len(Tail(put)) = Len(put) - 1 /\ Len(put) \in Nat
          /\ \A i \in 1..Len(Tail(put)) : Tail(put)[i] = put[i + 1]
      BY <1>4, <1>5
    <2>2. DOMAIN Tail(put) = 1..Len(Tail(put)) /\ DOMAIN put = 1..Len(put)
      BY <1>4, <2>1
    <2>3. \A i \in 1..Len(Tail(put)) : i + 1 \in 1..Len(put)
      BY <2>1
    <2> QED  BY <2>1, <2>2, <2>3 DEF Range
  <1> QED  BY Zenon, <1>2, <1>4, <1>6 DEF new

\* The longest a fetch may hold its rows covers both the deadline of a search and the mark of a warm.
LEMMA LongestFact ==
    ASSUME LettaSetting
    PROVE  Longest \in Nat /\ MarkSecs <= Longest /\ SearchTimeout <= Longest
  BY DEF LettaSetting, Longest

\* A busy actor holds a fetch, with a query and two times; the idle value is not a fetch.
LEMMA FetchFacts ==
    ASSUME LettaTypes
    PROVE  /\ NoFetch \notin Fetches
           /\ \A a \in Searchers \cup Warmers :
                 Busy(a) => /\ fetch[a] \in Fetches /\ fetch[a].query \in LettaQueries
                            /\ fetch[a].since \in Nat /\ fetch[a].at \in Nat
  <1>1. NoFetch \notin Fetches
    BY DEF NoFetch, Fetches
  <1>2. \A a \in Searchers \cup Warmers : Busy(a) => fetch[a] \in Fetches
    BY Zenon DEF LettaTypes, Busy
  <1> QED  BY Zenon, <1>1, <1>2 DEF Fetches

\* The rows of a request that is in time may be cached and returned.
LEMMA FetchedInTime ==
    ASSUME LettaSetting, LettaInv, NEW a \in Searchers \cup Warmers, Busy(a), fetch[a].at # Unread, ~overdue
    PROVE  ltime <= fetch[a].at + Longest
  <1>1. fetch[a].since \in Nat /\ fetch[a].at \in Nat /\ ltime \in Nat
    BY Zenon, FetchFacts DEF LettaInv, LettaTypes
  <1>2. fetch[a].since <= fetch[a].at
    BY Zenon DEF LettaInv, FetchTimes
  <1>3. Longest \in Nat /\ MarkSecs <= Longest /\ SearchTimeout <= Longest /\ MarkSecs \in Nat /\ SearchTimeout \in Nat
    BY Zenon, LongestFact DEF LettaSetting
  <1>4. CASE a \in Searchers
    <2>1. ltime <= fetch[a].since + SearchTimeout
      BY Zenon, <1>4 DEF LettaInv, FetchTimes
    <2> QED  BY <1>1, <1>2, <1>3, <2>1
  <1>5. CASE a \in Warmers
    <2>1. ltime < fetch[a].since + MarkSecs
      BY Zenon, <1>5 DEF LettaInv, FetchTimes
    <2> QED  BY <1>1, <1>2, <1>3, <2>1
  <1> QED  BY Zenon, <1>4, <1>5

\* A request that ends, and the rows it leaves in the cache.
LEMMA FetchedKeeps ==
    ASSUME LettaSetting, LettaInv, NEW a \in Searchers \cup Warmers, Busy(a), fetch[a].at # Unread,
           letta_search_cache_set(fetch[a].query, fetch[a].at)
    PROVE  lcache' \in Seq(Entries) /\ (~overdue /\ ltime' = ltime /\ overdue' = overdue => CacheTimes')
  <1>1. fetch[a].query \in LettaQueries /\ fetch[a].at \in Nat /\ ltime \in Nat /\ LettaTypes
    BY Zenon, FetchFacts DEF LettaInv, LettaTypes
  <1>2. LettaTtl \in Nat /\ Longest \in Nat
    BY Zenon, LongestFact DEF LettaSetting
  <1> DEFINE new == [query |-> fetch[a].query, at |-> fetch[a].at, expires |-> ltime + LettaTtl]
  <1>3. lcache' \in Seq(Entries) /\ Range(lcache') \subseteq Range(lcache) \cup {new}
    BY Zenon, <1>1, <1>2, CacheSetKeeps
  <1>4. new.at = fetch[a].at /\ new.expires = ltime + LettaTtl
    BY Zenon
  <1> HIDE DEF new
  <1>5. ASSUME ~overdue PROVE new.expires <= new.at + LettaTtl + Longest
    <2>1. ltime <= fetch[a].at + Longest
      BY Zenon, <1>5, FetchedInTime
    <2> QED  BY <1>1, <1>2, <1>4, <2>1
  <1>6. ASSUME ~overdue, overdue' = overdue PROVE CacheTimes'
    BY Zenon, <1>3, <1>5, <1>6 DEF LettaInv, CacheTimes
  <1> QED  BY Zenon, <1>3, <1>6

\* Requests end or begin: a step that changes nothing else about the times.
Renewed(a) == fetch'[a] = [query |-> fetch'[a].query, since |-> ltime, at |-> Unread] /\ fetch'[a].query \in LettaQueries

\* A step in which every actor keeps its fetch, ends it or starts a new one keeps the fetches' times.
LEMMA FetchesChange ==
    ASSUME LettaSetting, LettaInv, ltime' = ltime, overdue' = overdue,
           DOMAIN fetch' = Searchers \cup Warmers, fetch' = [a \in Searchers \cup Warmers |-> fetch'[a]],
           \A a \in Searchers \cup Warmers : fetch'[a] = fetch[a] \/ fetch'[a] = NoFetch \/ Renewed(a)
    PROVE  fetch' \in [Searchers \cup Warmers -> Fetches \cup {NoFetch}] /\ FetchTimes'
  <1>1. ltime \in Nat /\ Unread \in Nat /\ SearchTimeout \in Nat /\ MarkSecs \in Nat \ {0} /\ LettaTypes
    BY DEF LettaInv, LettaTypes, LettaSetting, Unread
  <1>2. ASSUME NEW a \in Searchers \cup Warmers, Renewed(a)
        PROVE  fetch'[a] \in Fetches /\ fetch'[a].since = ltime /\ fetch'[a].at = Unread
    BY <1>1, <1>2 DEF Renewed, Fetches
  <1>3. fetch' \in [Searchers \cup Warmers -> Fetches \cup {NoFetch}]
    BY Zenon, <1>1, <1>2 DEF LettaTypes
  <1>4. ASSUME NEW a \in Searchers \cup Warmers, fetch'[a] # NoFetch
        PROVE  /\ fetch'[a].since <= ltime
               /\ fetch'[a].at # Unread => fetch'[a].since <= fetch'[a].at /\ fetch'[a].at <= ltime
               /\ a \in Searchers => ltime <= fetch'[a].since + SearchTimeout
               /\ a \in Warmers /\ ~overdue => ltime < fetch'[a].since + MarkSecs
    <2>1. CASE fetch'[a] = fetch[a]
      BY Zenon, <1>4, <2>1 DEF LettaInv, FetchTimes, Busy
    <2>2. CASE Renewed(a)
      BY <1>1, <1>2, <2>2
    <2> QED  BY Zenon, <1>4, <2>1, <2>2
  <1>5. FetchTimes'
    BY Zenon, <1>4 DEF FetchTimes, Busy, Unread
  <1> QED  BY Zenon, <1>3, <1>5

\* Every step of the Letta search keeps the invariant on the ages of fetched and cached rows.
LEMMA LettaStep ==
    ASSUME LettaSetting
    PROVE  LettaInv /\ [LettaNext]_lettaVars => LettaInv'
  <1> SUFFICES ASSUME LettaInv, [LettaNext]_lettaVars PROVE LettaInv'
    BY Zenon
  <1> DEFINE Actors == Searchers \cup Warmers
  <1>t. /\ LettaTypes /\ ltime \in Nat /\ overdue \in BOOLEAN /\ fetch \in [Actors -> Fetches \cup {NoFetch}]
        /\ lcache \in Seq(Entries) /\ age \in Int
    BY Zenon DEF LettaInv, LettaTypes
  <1>f. /\ NoFetch \notin Fetches
        /\ \A a \in Actors :
              Busy(a) => /\ fetch[a] \in Fetches /\ fetch[a].query \in LettaQueries
                         /\ fetch[a].since \in Nat /\ fetch[a].at \in Nat
    BY Zenon, <1>t, FetchFacts
  <1>c. LettaTtl \in Nat /\ Longest \in Nat /\ MaxLettaTime \in Nat
    BY LongestFact DEF LettaSetting
  <1>a. \A s \in Searchers : s \in Actors
    BY Zenon
  <1>w. \A w \in Warmers : w \in Actors
    BY Zenon
  <1> HIDE DEF Actors
  <1>g. \A a \in Actors : /\ DOMAIN [fetch EXCEPT ![a] = NoFetch] = Actors
                          /\ [fetch EXCEPT ![a] = NoFetch] = [x \in Actors |-> [fetch EXCEPT ![a] = NoFetch][x]]
                          /\ \A x \in Actors : [fetch EXCEPT ![a] = NoFetch][x] \in {fetch[x], NoFetch}
    BY Zenon, <1>t
  \* One request ends.
  <1>e. ASSUME NEW a \in Actors, fetch' = [fetch EXCEPT ![a] = NoFetch], ltime' = ltime, overdue' = overdue
        PROVE  fetch' \in [Actors -> Fetches \cup {NoFetch}] /\ FetchTimes'
    <2>1. /\ DOMAIN fetch' = Actors /\ fetch' = [x \in Actors |-> fetch'[x]]
          /\ \A x \in Actors : fetch'[x] = fetch[x] \/ fetch'[x] = NoFetch
      BY Zenon, <1>e, <1>g
    <2> QED  BY Zenon, <1>e, <2>1, FetchesChange DEF Actors
  <1>1. ASSUME NEW s \in Searchers, search_cached(s) PROVE LettaInv'
    <2>1. UNCHANGED <<ltime, fetch, overdue>>
      BY Zenon, <1>1 DEF search_cached
    <2>2. PICK q \in LettaQueries : \E e \in Hit(q) : age' = ltime - e.at /\ lcache' = Append(Drop(lcache, q), e)
      BY <1>1 DEF search_cached
    <2>3. PICK e \in Hit(q) : age' = ltime - e.at /\ lcache' = Append(Drop(lcache, q), e)
      BY Zenon, <2>2
    <2>4. e \in Range(lcache) /\ e.expires > ltime
      BY DEF Hit, Live
    <2>5. e \in Entries /\ e.at \in Nat /\ e.expires \in Nat
      <3>1. \A i \in DOMAIN lcache : lcache[i] \in Entries
        BY <1>t
      <3>2. e \in Entries
        BY Zenon, <2>4, <3>1 DEF Range
      <3> QED  BY Zenon, <3>2 DEF Entries
    <2>6. Drop(lcache, q) \in Seq(Entries) /\ Range(Drop(lcache, q)) \subseteq Range(lcache)
      BY Zenon, <1>t, DropKeeps
    <2>7. lcache' \in Seq(Entries) /\ Range(lcache') \subseteq Range(lcache)
      BY <2>3, <2>4, <2>5, <2>6, AppendKeeps
    <2>8. CacheTimes'
      BY Zenon, <2>1, <2>7 DEF LettaInv, CacheTimes
    <2>9. LettaRowsAge'
      <3>1. SUFFICES ASSUME ~overdue PROVE age' <= LettaTtl + Longest
        BY Zenon, <2>1 DEF LettaRowsAge, Longest
      <3>2. e.expires <= e.at + LettaTtl + Longest
        BY Zenon, <2>4, <3>1 DEF LettaInv, CacheTimes
      <3> QED  BY <1>c, <1>t, <2>3, <2>4, <2>5, <3>2
    <2>10. LettaTypes' /\ FetchTimes'
      BY <1>t, <2>1, <2>3, <2>5, <2>7 DEF LettaInv, LettaTypes, FetchTimes, Busy
    <2> QED  BY Zenon, <2>8, <2>9, <2>10 DEF LettaInv
  <1>2. ASSUME NEW s \in Searchers, search_letta_archival(s) PROVE LettaInv'
    <2>1. UNCHANGED <<ltime, overdue, age>>
      BY Zenon, <1>2 DEF search_letta_archival
    <2>2. PICK q \in LettaQueries :
             /\ lcache' = Drop(lcache, q)
             /\ fetch' = [fetch EXCEPT ![s] = [query |-> q, since |-> ltime, at |-> Unread]]
      BY Zenon, <1>2 DEF search_letta_archival
    <2>3. /\ DOMAIN fetch' = Actors /\ fetch' = [x \in Actors |-> fetch'[x]]
          /\ fetch'[s] = [query |-> q, since |-> ltime, at |-> Unread]
          /\ \A x \in Actors \ {s} : fetch'[x] = fetch[x]
      BY Zenon, <1>a, <1>t, <2>2
    <2>4. Renewed(s)
      BY <2>3 DEF Renewed
    <2>5. fetch' \in [Actors -> Fetches \cup {NoFetch}] /\ FetchTimes'
      BY Zenon, <2>1, <2>3, <2>4, FetchesChange DEF Actors
    <2>6. lcache' \in Seq(Entries) /\ Range(lcache') \subseteq Range(lcache)
      BY Zenon, <1>t, <2>2, DropKeeps
    <2>7. CacheTimes' /\ LettaRowsAge'
      BY Zenon, <2>1, <2>6 DEF LettaInv, CacheTimes, LettaRowsAge
    <2>8. LettaTypes'
      BY Zenon, <1>t, <2>1, <2>5, <2>6 DEF LettaTypes, Actors
    <2> QED  BY Zenon, <2>5, <2>7, <2>8 DEF LettaInv
  <1>3. ASSUME NEW s \in Searchers, search_returns(s) PROVE LettaInv'
    <2>1. /\ UNCHANGED <<ltime, overdue>> /\ age' = ltime - fetch[s].at /\ fetch' = [fetch EXCEPT ![s] = NoFetch]
          /\ Busy(s) /\ fetch[s].at # Unread /\ letta_search_cache_set(fetch[s].query, fetch[s].at)
      BY Zenon, <1>3 DEF search_returns
    <2>2. fetch' \in [Actors -> Fetches \cup {NoFetch}] /\ FetchTimes'
      BY Zenon, <1>a, <1>e, <2>1
    <2>3. lcache' \in Seq(Entries) /\ (~overdue => CacheTimes')
      BY Zenon, <2>1, FetchedKeeps
    <2>4. CacheTimes'
      BY Zenon, <2>1, <2>3 DEF CacheTimes
    <2>5. fetch[s].at \in Nat
      BY <1>a, <1>f, <2>1
    <2>6. LettaRowsAge'
      <3>1. SUFFICES ASSUME ~overdue PROVE age' <= LettaTtl + Longest
        BY Zenon, <2>1 DEF LettaRowsAge, Longest
      <3>2. ltime <= fetch[s].at + Longest
        BY Zenon, <2>1, <3>1, FetchedInTime
      <3> QED  BY <1>c, <1>t, <2>1, <2>5, <3>2
    <2>7. LettaTypes'
      <3>1. age' \in Int
        BY <1>t, <2>1, <2>5
      <3> QED  BY Zenon, <1>t, <2>1, <2>2, <2>3, <3>1 DEF LettaTypes, Actors
    <2> QED  BY Zenon, <2>2, <2>4, <2>6, <2>7 DEF LettaInv
  <1>4. ASSUME NEW a \in Actors, fetch' = [fetch EXCEPT ![a] = NoFetch], UNCHANGED <<ltime, lcache, age, overdue>>
        PROVE  LettaInv'
    <2>1. fetch' \in [Actors -> Fetches \cup {NoFetch}] /\ FetchTimes'
      BY Zenon, <1>4, <1>e
    <2>2. CacheTimes' /\ LettaRowsAge'
      BY Zenon, <1>4 DEF LettaInv, CacheTimes, LettaRowsAge
    <2>3. LettaTypes'
      BY Zenon, <1>4, <1>t, <2>1 DEF LettaTypes, Actors
    <2> QED  BY Zenon, <2>1, <2>2, <2>3 DEF LettaInv
  <1>5. ASSUME NEW s \in Searchers, search_times_out(s) PROVE LettaInv'
    <2>1. UNCHANGED <<ltime, lcache, age, overdue>> /\ Busy(s) /\ schedule_warm(s, fetch[s].query)
      BY Zenon, <1>5 DEF search_times_out
    <2>2. CASE fetch' = [fetch EXCEPT ![s] = NoFetch]
      BY Zenon, <1>4, <1>a, <2>1, <2>2
    <2>3. ASSUME NEW w \in Warmers,
                 fetch' = [fetch EXCEPT ![s] = NoFetch,
                                        ![w] = [query |-> fetch[s].query, since |-> ltime, at |-> Unread]]
          PROVE  LettaInv'
      <3>1. /\ DOMAIN fetch' = Actors /\ fetch' = [x \in Actors |-> fetch'[x]]
            /\ fetch'[w] = [query |-> fetch[s].query, since |-> ltime, at |-> Unread]
            /\ \A x \in Actors \ {w} : fetch'[x] = fetch[x] \/ fetch'[x] = NoFetch
        BY Zenon, <1>a, <1>t, <1>w, <2>3
      <3>2. Renewed(w)
        BY <1>a, <1>f, <2>1, <3>1 DEF Renewed
      <3>3. fetch' \in [Actors -> Fetches \cup {NoFetch}] /\ FetchTimes'
        BY Zenon, <2>1, <3>1, <3>2, FetchesChange DEF Actors
      <3>4. CacheTimes' /\ LettaRowsAge'
        BY Zenon, <2>1 DEF LettaInv, CacheTimes, LettaRowsAge
      <3>5. LettaTypes'
        BY Zenon, <1>t, <2>1, <3>3 DEF LettaTypes, Actors
      <3> QED  BY <3>3, <3>4, <3>5 DEF LettaInv
    <2> QED  BY <2>1, <2>2, <2>3 DEF schedule_warm
  <1>6. ASSUME NEW a \in Actors, letta_reads(a) PROVE LettaInv'
    <2>1. /\ Busy(a) /\ fetch' = [fetch EXCEPT ![a].at = ltime] /\ UNCHANGED <<ltime, lcache, age, overdue>>
      BY <1>6 DEF letta_reads
    <2>2. fetch' = [fetch EXCEPT ![a] = [fetch[a] EXCEPT !.at = ltime]]
      BY <1>t, <2>1
    <2>3. /\ [fetch[a] EXCEPT !.at = ltime] \in Fetches /\ [fetch[a] EXCEPT !.at = ltime].at = ltime
          /\ [fetch[a] EXCEPT !.at = ltime].since = fetch[a].since
      BY <1>f, <1>t, <2>1 DEF Fetches
    <2>4. /\ fetch' \in [Actors -> Fetches \cup {NoFetch}] /\ fetch'[a].at = ltime
          /\ fetch'[a].since = fetch[a].since /\ \A x \in Actors \ {a} : fetch'[x] = fetch[x]
      BY Zenon, <1>t, <2>2, <2>3
    <2>5. FetchTimes'
      <3>1. ASSUME NEW x \in Actors \ {a}, fetch'[x] # NoFetch
            PROVE  /\ fetch'[x].since <= ltime
                   /\ fetch'[x].at # Unread => fetch'[x].since <= fetch'[x].at /\ fetch'[x].at <= ltime
                   /\ x \in Searchers => ltime <= fetch'[x].since + SearchTimeout
                   /\ x \in Warmers /\ ~overdue => ltime < fetch'[x].since + MarkSecs
        BY <2>4, <3>1 DEF LettaInv, FetchTimes, Busy, Actors
      <3>2. /\ fetch'[a].since <= ltime /\ fetch'[a].at <= ltime /\ fetch'[a].since <= fetch'[a].at
            /\ a \in Searchers => ltime <= fetch'[a].since + SearchTimeout
            /\ a \in Warmers /\ ~overdue => ltime < fetch'[a].since + MarkSecs
        <4>1. ltime <= ltime
          BY <1>t
        <4> QED  BY <2>1, <2>4, <4>1 DEF LettaInv, FetchTimes, Actors
      <3> QED  BY Zenon, <2>1, <3>1, <3>2 DEF FetchTimes, Busy, Actors, Unread
    <2>6. CacheTimes' /\ LettaRowsAge'
      BY <2>1 DEF LettaInv, CacheTimes, LettaRowsAge
    <2>7. LettaTypes'
      BY Zenon, <1>t, <2>1, <2>4 DEF LettaTypes, Actors
    <2> QED  BY <2>5, <2>6, <2>7 DEF LettaInv
  <1>7. ASSUME NEW w \in Warmers, warm_completes(w) PROVE LettaInv'
    <2>1. /\ UNCHANGED <<ltime, age, overdue>> /\ fetch' = [fetch EXCEPT ![w] = NoFetch]
          /\ Busy(w) /\ fetch[w].at # Unread /\ letta_search_cache_set(fetch[w].query, fetch[w].at)
      BY Zenon, <1>7 DEF warm_completes
    <2>2. fetch' \in [Actors -> Fetches \cup {NoFetch}] /\ FetchTimes'
      BY Zenon, <1>e, <1>w, <2>1
    <2>3. lcache' \in Seq(Entries) /\ (~overdue => CacheTimes')
      BY Zenon, <2>1, FetchedKeeps
    <2>4. CacheTimes' /\ LettaRowsAge'
      BY Zenon, <2>1, <2>3 DEF LettaInv, CacheTimes, LettaRowsAge
    <2>5. LettaTypes'
      BY <1>t, <2>1, <2>2, <2>3 DEF LettaTypes, Actors
    <2> QED  BY Zenon, <2>2, <2>4, <2>5 DEF LettaInv
  <1>8. CASE LettaTick
    <2>1. /\ ltime < MaxLettaTime /\ ltime' = ltime + 1 /\ UNCHANGED <<lcache, fetch, age>>
          /\ \A s \in Searchers : Busy(s) => ltime - fetch[s].since < SearchTimeout
          /\ overdue' = (overdue \/ \E w \in Warmers : Busy(w) /\ ltime' - fetch[w].since >= MarkSecs)
      BY Zenon, <1>8 DEF LettaTick
    <2>2. /\ overdue' \in BOOLEAN /\ (~overdue' => ~overdue)
          /\ \A w \in Warmers : ~overdue' /\ Busy(w) => ~(ltime' - fetch[w].since >= MarkSecs)
      BY Zenon, <1>t, <2>1
    <2>3. FetchTimes'
      <3>1. SUFFICES ASSUME NEW a \in Actors, Busy(a)
                     PROVE  /\ fetch[a].since <= ltime'
                            /\ fetch[a].at # Unread => fetch[a].since <= fetch[a].at /\ fetch[a].at <= ltime'
                            /\ a \in Searchers => ltime' <= fetch[a].since + SearchTimeout
                            /\ a \in Warmers /\ ~overdue' => ltime' < fetch[a].since + MarkSecs
        BY <2>1 DEF FetchTimes, Busy, Actors, Unread
      <3>2. fetch[a].since \in Nat /\ fetch[a].at \in Nat /\ SearchTimeout \in Nat /\ MarkSecs \in Nat
        BY <1>f, <3>1 DEF LettaSetting
      <3>3. /\ fetch[a].since <= ltime
            /\ fetch[a].at # Unread => fetch[a].since <= fetch[a].at /\ fetch[a].at <= ltime
        BY Zenon, <3>1 DEF LettaInv, FetchTimes, Actors
      <3>4. CASE a \in Searchers
        <4>1. ltime - fetch[a].since < SearchTimeout /\ a \notin Warmers
          BY Zenon, <2>1, <3>1, <3>4 DEF LettaSetting
        <4> QED  BY <1>t, <2>1, <3>2, <3>3, <4>1
      <3>5. CASE a \in Warmers
        <4>1. (~overdue' => ~(ltime' - fetch[a].since >= MarkSecs)) /\ a \notin Searchers
          BY Zenon, <2>2, <3>1, <3>5 DEF LettaSetting
        <4> QED  BY <1>t, <2>1, <3>2, <3>3, <4>1
      <3> QED  BY Zenon, <3>4, <3>5 DEF Actors
    <2>4. CacheTimes' /\ LettaRowsAge'
      BY Zenon, <2>1, <2>2 DEF LettaInv, CacheTimes, LettaRowsAge
    <2>5. LettaTypes'
      <3>1. ltime' \in Nat /\ ltime' <= MaxLettaTime
        BY <1>c, <1>t, <2>1
      <3> QED  BY Zenon, <1>t, <2>1, <2>2, <3>1 DEF LettaTypes, Actors
    <2> QED  BY Zenon, <2>3, <2>4, <2>5 DEF LettaInv
  <1>9. CASE UNCHANGED lettaVars
    BY Zenon, <1>9 DEF lettaVars, LettaInv, LettaTypes, FetchTimes, Busy, CacheTimes, LettaRowsAge
  <1>10. ASSUME NEW s \in Searchers, search_fails(s) PROVE LettaInv'
    BY Zenon, <1>10, <1>4, <1>a DEF search_fails
  <1>11. ASSUME NEW w \in Warmers, warm_fails(w) PROVE LettaInv'
    BY Zenon, <1>11, <1>4, <1>w DEF warm_fails
  <1> QED  BY <1>1, <1>2, <1>3, <1>5, <1>6, <1>7, <1>8, <1>9, <1>10, <1>11 DEF LettaNext, Warming, Actors

\* The search starts with no rows in hand and none cached.
LEMMA LettaStarts ==
    ASSUME LettaSetting
    PROVE  LettaInit => LettaInv
  <1> SUFFICES ASSUME LettaInit PROVE LettaInv
    BY Zenon
  <1>1. ltime = 0 /\ lcache = <<>> /\ age = 0 /\ overdue = FALSE /\ \A a \in Searchers \cup Warmers : ~Busy(a)
    BY Zenon DEF LettaInit, Busy
  <1>2. lcache \in Seq(Entries) /\ Range(lcache) = {}
    <2>1. lcache \in Seq(Entries) /\ Len(lcache) = 0
      BY <1>1
    <2>2. DOMAIN lcache = {}
      BY <2>1
    <2> QED  BY <2>1, <2>2 DEF Range
  <1>f. fetch \in [Searchers \cup Warmers -> Fetches \cup {NoFetch}]
    BY Zenon DEF LettaInit
  <1>3. LettaTypes
    <2>1. 0 \in Nat /\ 0 <= MaxLettaTime /\ 0 \in Int
      BY DEF LettaSetting
    <2> QED  BY Zenon, <1>1, <1>2, <1>f, <2>1 DEF LettaTypes
  <1>4. FetchTimes /\ CacheTimes
    BY Zenon, <1>1, <1>2 DEF FetchTimes, CacheTimes
  <1>5. LettaRowsAge
    BY <1>1 DEF LettaRowsAge, LettaSetting
  <1> QED  BY <1>3, <1>4, <1>5 DEF LettaInv

\* The ages are bounded in every state of the Letta search.
LEMMA LettaInvariant ==
    ASSUME LettaSetting
    PROVE  LettaSpec => []LettaInv
  <1>1. LettaInit => LettaInv
    BY LettaStarts
  <1>2. LettaInv /\ [LettaNext]_lettaVars => LettaInv'
    BY LettaStep
  <1> QED  BY <1>1, <1>2, PTL DEF LettaSpec

\* However searches and background fetches overtake one another, the rows a search returns are no
\* older than the cache's lifetime and the longest fetch together, as long as no background fetch
\* outlives its mark.
THEOREM RowsAgeBounded ==
    ASSUME LettaSetting
    PROVE  LettaSpec => []LettaRowsAge
  <1>1. LettaInv => LettaRowsAge
    BY Zenon DEF LettaInv
  <1> QED  BY <1>1, LettaInvariant, PTL

-----------------------------------------------------------------------------
(* Background fetches and their marks *)

Running == {w \in Warmers : Busy(w)}

MarkTypes == marks = [q \in DOMAIN marks |-> marks[q]] /\ \A q \in DOMAIN marks : marks[q] \in Nat

\* As long as none has outlived its mark, the running fetches and the marks go together, one for
\* one, and a mark lapses when its fetch would be overdue.
MarksMatch ==
    /\ \A w \in Running : /\ fetch[w].query \in DOMAIN marks
                          /\ marks[fetch[w].query] = fetch[w].since + MarkSecs
    /\ \A q \in DOMAIN marks : \E w \in Running : fetch[w].query = q
    /\ \A v, w \in Running : fetch[v].query = fetch[w].query => v = w

MarksCount ==
    /\ IsFiniteSet(Running) /\ IsFiniteSet(DOMAIN marks)
    /\ Cardinality(Running) = Cardinality(DOMAIN marks) /\ Cardinality(Running) <= MaxWarms

WarmInv == LettaInv /\ MarkTypes /\ (~overdue => MarksMatch /\ MarksCount)

\* A step that leaves the background fetches and the marks alone.
LEMMA WarmsAlone ==
    ASSUME WarmInv, LettaInv', overdue' = overdue \/ (overdue' # overdue /\ overdue'), marks' = marks, Running' = Running,
           \A w \in Running : fetch'[w].query = fetch[w].query /\ fetch'[w].since = fetch[w].since
    PROVE  WarmInv'
  <1>1. MarkTypes'
    BY Zenon DEF WarmInv, MarkTypes
  <1>2. ASSUME ~overdue' PROVE MarksMatch' /\ MarksCount'
    <2>1. MarksMatch /\ MarksCount
      BY Zenon, <1>2 DEF WarmInv
    <2>2. MarksMatch'
      BY <2>1 DEF MarksMatch
    <2>3. MarksCount'
      BY Zenon, <2>1 DEF MarksCount
    <2> QED  BY Zenon, <2>2, <2>3
  <1> QED  BY Zenon, <1>1, <1>2 DEF WarmInv

\* A background fetch ends and its query's mark goes.
LEMMA WarmEnds ==
    ASSUME LettaSetting, WarmInv, LettaInv', NEW w \in Running, overdue' = overdue,
           marks' = Unmarked(fetch[w].query), fetch' = [fetch EXCEPT ![w] = NoFetch]
    PROVE  WarmInv'
  <1>t. LettaTypes /\ w \in Searchers \cup Warmers /\ fetch \in [Searchers \cup Warmers -> Fetches \cup {NoFetch}]
    BY Zenon DEF WarmInv, LettaInv, LettaTypes, Running
  <1> DEFINE q0 == fetch[w].query
  <1>1. /\ DOMAIN marks' = DOMAIN marks \ {q0}
        /\ \A q \in DOMAIN marks \ {q0} : marks'[q] = marks[q]
        /\ marks' = [q \in DOMAIN marks' |-> marks'[q]]
    BY Zenon DEF Unmarked
  <1>2. \A x \in (Searchers \cup Warmers) \ {w} : fetch'[x] = fetch[x]
    BY Zenon, <1>t
  <1>3. Running' = Running \ {w}
    BY Zenon, <1>t, <1>2 DEF Running, Busy
  <1>4. MarkTypes'
    BY Zenon, <1>1 DEF WarmInv, MarkTypes
  <1>5. ASSUME ~overdue' PROVE MarksMatch' /\ MarksCount'
    <2>1. MarksMatch /\ MarksCount
      BY Zenon, <1>5 DEF WarmInv
    <2>2. \A x \in Running' : x \in Running /\ x # w /\ fetch'[x] = fetch[x] /\ fetch[x].query # q0
      BY Zenon, <1>2, <1>3, <2>1 DEF MarksMatch, Running
    <2>3. \A x \in Running' : fetch'[x].query \in DOMAIN marks' /\ marks'[fetch'[x].query] = fetch'[x].since + MarkSecs
      BY <1>1, <2>1, <2>2 DEF MarksMatch
    <2>4. \A q \in DOMAIN marks' : \E x \in Running' : fetch'[x].query = q
      BY <1>1, <1>2, <1>3, <2>1 DEF MarksMatch, Running
    <2>5. \A x, y \in Running' : fetch'[x].query = fetch'[y].query => x = y
      BY <2>1, <2>2 DEF MarksMatch
    <2>6. MarksMatch'
      BY Zenon, <2>3, <2>4, <2>5 DEF MarksMatch
    <2>7. MarksCount'
      <3>1. q0 \in DOMAIN marks /\ IsFiniteSet(Running) /\ IsFiniteSet(DOMAIN marks)
        BY Zenon, <2>1 DEF MarksMatch, MarksCount
      <3>2. IsFiniteSet(Running \ {w}) /\ Cardinality(Running \ {w}) = Cardinality(Running) - 1
        BY Zenon, <3>1, FS_RemoveElement
      <3>3. /\ IsFiniteSet(DOMAIN marks \ {q0})
            /\ Cardinality(DOMAIN marks \ {q0}) = Cardinality(DOMAIN marks) - 1
        BY Zenon, <3>1, FS_RemoveElement
      <3>4. Cardinality(Running) \in Nat /\ MaxWarms \in Nat
        BY <3>1, FS_CardinalityType DEF LettaSetting
      <3> QED  BY <1>1, <1>3, <2>1, <3>2, <3>3, <3>4 DEF MarksCount
    <2> QED  BY <2>6, <2>7
  <1> QED  BY Zenon, <1>4, <1>5 DEF WarmInv

\* No mark of a running fetch lapses before the fetch is overdue.
LEMMA NoneLapsed ==
    ASSUME LettaSetting, WarmInv, ~overdue
    PROVE  WithoutLapsed = marks
  <1>1. MarksMatch /\ LettaTypes /\ MarkTypes
    BY Zenon DEF WarmInv, LettaInv
  <1>2. ASSUME NEW q \in DOMAIN marks PROVE marks[q] > ltime
    <2>1. PICK w \in Running : fetch[w].query = q
      BY Zenon, <1>1 DEF MarksMatch
    <2>2. marks[q] = fetch[w].since + MarkSecs
      BY <1>1, <2>1 DEF MarksMatch
    <2>3. w \in Searchers \cup Warmers /\ w \in Warmers /\ Busy(w)
      BY Zenon DEF Running
    <2>4. ltime < fetch[w].since + MarkSecs
      BY Zenon, <2>3 DEF WarmInv, LettaInv, FetchTimes
    <2>5. fetch[w].since \in Nat /\ ltime \in Nat /\ MarkSecs \in Nat
      BY <1>1, <2>3, FetchFacts DEF LettaTypes, LettaSetting
    <2> QED  BY Zenon, <2>2, <2>4, <2>5
  <1>3. {q \in DOMAIN marks : marks[q] > ltime} = DOMAIN marks
    BY Zenon, <1>2
  <1> QED  BY <1>1, <1>3 DEF WithoutLapsed, MarkTypes

\* A search that ran out of time has its query fetched in the background.
LEMMA WarmBegins ==
    ASSUME LettaSetting, WarmInv, LettaInv', NEW s \in Searchers, Busy(s), NEW w \in Warmers, ~Busy(w),
           overdue' = overdue, MayWarm(WithoutLapsed, fetch[s].query),
           marks' = Marked(WithoutLapsed, fetch[s].query),
           fetch' = [fetch EXCEPT ![s] = NoFetch,
                                  ![w] = [query |-> fetch[s].query, since |-> ltime, at |-> Unread]]
    PROVE  WarmInv'
  <1> DEFINE q0 == fetch[s].query
             m == WithoutLapsed
  <1>t. /\ LettaTypes /\ w \in Searchers \cup Warmers /\ s \in Searchers \cup Warmers /\ s \notin Warmers
        /\ fetch \in [Searchers \cup Warmers -> Fetches \cup {NoFetch}] /\ ltime \in Nat /\ MarkSecs \in Nat
    BY Zenon DEF WarmInv, LettaInv, LettaTypes, LettaSetting
  <1>q. q0 \in LettaQueries
    BY Zenon, <1>t, FetchFacts
  <1>1. /\ DOMAIN marks' = DOMAIN m \cup {q0} /\ marks' = [q \in DOMAIN marks' |-> marks'[q]]
        /\ \A q \in DOMAIN marks' : marks'[q] = IF q = q0 THEN ltime + MarkSecs ELSE m[q]
    BY Zenon DEF Marked
  <1>2. /\ fetch'[w] = [query |-> q0, since |-> ltime, at |-> Unread]
        /\ \A x \in Warmers \ {w} : fetch'[x] = fetch[x]
    BY Zenon, <1>t
  <1>3. fetch'[w].query = q0 /\ fetch'[w].since = ltime /\ fetch'[w] # NoFetch
    <2>1. [query |-> q0, since |-> ltime, at |-> Unread] \in Fetches
      BY <1>q, <1>t DEF Fetches, Unread, LettaSetting
    <2> QED  BY Zenon, <1>2, <1>t, <2>1, FetchFacts
  <1>4. Running' = Running \cup {w}
    BY Zenon, <1>2, <1>3 DEF Running, Busy
  <1>5. MarkTypes'
    <2>1. \A q \in DOMAIN m : m[q] = marks[q] /\ q \in DOMAIN marks
      BY DEF WithoutLapsed
    <2>2. \A q \in DOMAIN marks : marks[q] \in Nat
      BY DEF WarmInv, MarkTypes
    <2>3. ltime + MarkSecs \in Nat
      BY <1>t
    <2> QED  BY Zenon, <1>1, <2>1, <2>2, <2>3 DEF MarkTypes
  <1>6. ASSUME ~overdue' PROVE MarksMatch' /\ MarksCount'
    <2>1. MarksMatch /\ MarksCount /\ m = marks
      BY Zenon, <1>6, NoneLapsed DEF WarmInv
    <2>2. q0 \notin DOMAIN marks /\ Cardinality(DOMAIN marks) < MaxWarms
      BY Zenon, <2>1 DEF MayWarm
    <2>3. \A x \in Running : x # w /\ fetch'[x] = fetch[x] /\ fetch[x].query # q0
      BY Zenon, <1>2, <2>1, <2>2 DEF Running, MarksMatch
    <2>m. /\ DOMAIN marks' = DOMAIN marks \cup {q0} /\ marks'[q0] = ltime + MarkSecs
          /\ \A q \in DOMAIN marks : marks'[q] = marks[q]
      BY Zenon, <1>1, <2>1, <2>2
    <2> HIDE DEF q0, m
    <2>4. ASSUME NEW x \in Running'
          PROVE  fetch'[x].query \in DOMAIN marks' /\ marks'[fetch'[x].query] = fetch'[x].since + MarkSecs
      <3>1. CASE x = w
        BY Zenon, <1>3, <2>m, <3>1
      <3>2. CASE x # w
        <4>1. x \in Running /\ fetch'[x] = fetch[x]
          BY Zenon, <1>4, <2>3, <3>2
        <4>2. fetch[x].query \in DOMAIN marks /\ marks[fetch[x].query] = fetch[x].since + MarkSecs
          BY Zenon, <2>1, <4>1 DEF MarksMatch
        <4> QED  BY <2>m, <4>1, <4>2
      <3> QED  BY <3>1, <3>2
    <2>5. ASSUME NEW q \in DOMAIN marks' PROVE \E x \in Running' : fetch'[x].query = q
      <3>1. CASE q = q0
        BY <1>3, <1>4, <3>1
      <3>2. CASE q # q0
        <4>1. PICK x \in Running : fetch[x].query = q
          BY Zenon, <2>1, <2>m, <3>2 DEF MarksMatch
        <4> QED  BY Zenon, <1>4, <2>3, <4>1
      <3> QED  BY Zenon, <3>1, <3>2
    <2>6. ASSUME NEW x \in Running', NEW y \in Running', fetch'[x].query = fetch'[y].query PROVE x = y
      <3>1. \A z \in Running' : z # w => z \in Running /\ fetch'[z] = fetch[z] /\ fetch'[z].query # q0
        BY Zenon, <1>4, <2>3
      <3>2. CASE x # w /\ y # w
        <4>1. x \in Running /\ y \in Running /\ fetch[x].query = fetch[y].query
          BY Zenon, <2>6, <3>1, <3>2
        <4>2. \A u, v \in Running : fetch[u].query = fetch[v].query => u = v
          BY Zenon, <2>1 DEF MarksMatch
        <4> QED  BY Zenon, <4>1, <4>2
      <3>3. CASE x = w /\ y # w
        <4>1. fetch'[y].query # q0
          BY Zenon, <3>1, <3>3
        <4>2. fetch'[x].query = q0
          BY Zenon, <1>3, <3>3
        <4> QED  BY <2>6, <4>1, <4>2
      <3>4. CASE x # w /\ y = w
        BY Zenon, <1>3, <2>6, <3>1, <3>4
      <3> QED  BY <3>2, <3>3, <3>4
    <2>7. MarksMatch'
      BY Zenon, <2>4, <2>5, <2>6 DEF MarksMatch
    <2>8. MarksCount'
      <3>1. w \notin Running /\ IsFiniteSet(Running) /\ IsFiniteSet(DOMAIN marks)
        BY Zenon, <2>1 DEF MarksCount, Running
      <3>2. IsFiniteSet(Running \cup {w}) /\ Cardinality(Running \cup {w}) = Cardinality(Running) + 1
        BY Zenon, <3>1, FS_AddElement
      <3>3. /\ IsFiniteSet(DOMAIN marks \cup {q0})
            /\ Cardinality(DOMAIN marks \cup {q0}) = Cardinality(DOMAIN marks) + 1
        BY Zenon, <2>2, <3>1, FS_AddElement
      <3>4. Cardinality(Running) \in Nat /\ MaxWarms \in Nat
        BY Zenon, <3>1, FS_CardinalityType DEF LettaSetting
      <3>5. DOMAIN marks' = DOMAIN marks \cup {q0}
        BY Zenon, <1>1, <2>1
      <3> QED  BY <1>4, <2>1, <2>2, <3>2, <3>3, <3>4, <3>5 DEF MarksCount
    <2> QED  BY Zenon, <2>7, <2>8
  <1> QED  BY Zenon, <1>5, <1>6 DEF WarmInv

\* Every step keeps the count of warms bounded by the marks that are still held.
LEMMA WarmStep ==
    ASSUME LettaSetting
    PROVE  WarmInv /\ [LettaNext]_lettaVars => WarmInv'
  <1> SUFFICES ASSUME WarmInv, [LettaNext]_lettaVars PROVE WarmInv'
    BY Zenon
  <1>t. /\ LettaInv /\ LettaTypes /\ overdue \in BOOLEAN
        /\ fetch \in [Searchers \cup Warmers -> Fetches \cup {NoFetch}] /\ NoFetch \notin Fetches
    BY FetchFacts DEF WarmInv, LettaInv, LettaTypes
  <1>l. LettaInv'
    BY Zenon, <1>t, LettaStep
  \* A searcher's own request begins or ends.
  <1>s. ASSUME NEW s \in Searchers, NEW new, fetch' = [fetch EXCEPT ![s] = new], UNCHANGED <<marks, overdue>>
        PROVE  WarmInv'
    <2>1. \A w \in Warmers : fetch'[w] = fetch[w]
      BY Zenon, <1>s, <1>t DEF LettaSetting
    <2>2. Running' = Running /\ \A w \in Running : fetch'[w] = fetch[w]
      BY Zenon, <2>1 DEF Running, Busy
    <2> QED  BY Zenon, <1>l, <1>s, <2>2, WarmsAlone
  <1>1. ASSUME NEW s \in Searchers, search_cached(s) PROVE WarmInv'
    <2>1. UNCHANGED <<marks, fetch, overdue>>
      BY <1>1 DEF search_cached
    <2>2. Running' = Running
      BY <2>1 DEF Running, Busy
    <2> QED  BY Zenon, <1>l, <2>1, <2>2, WarmsAlone
  <1>2. ASSUME NEW s \in Searchers, search_letta_archival(s) PROVE WarmInv'
    <2>1. UNCHANGED <<marks, overdue>> /\ \E new : fetch' = [fetch EXCEPT ![s] = new]
      BY Zenon, <1>2 DEF search_letta_archival
    <2> QED  BY Zenon, <1>s, <2>1
  <1>3. ASSUME NEW s \in Searchers, search_returns(s) \/ search_fails(s) PROVE WarmInv'
    <2>1. UNCHANGED <<marks, overdue>> /\ fetch' = [fetch EXCEPT ![s] = NoFetch]
      BY Zenon, <1>3 DEF search_returns, search_fails
    <2> QED  BY Zenon, <1>s, <2>1
  <1>4. ASSUME NEW s \in Searchers, search_times_out(s) PROVE WarmInv'
    <2>1. overdue' = overdue /\ Busy(s) /\ schedule_warm(s, fetch[s].query)
      BY Zenon, <1>4 DEF search_times_out
    <2>2. ASSUME marks' = WithoutLapsed, fetch' = [fetch EXCEPT ![s] = NoFetch] PROVE WarmInv'
      <3>1. \A w \in Warmers : fetch'[w] = fetch[w]
        BY Zenon, <1>t, <2>2 DEF LettaSetting
      <3>2. Running' = Running /\ \A w \in Running : fetch'[w] = fetch[w]
        BY <3>1 DEF Running, Busy
      <3>3. CASE overdue
        <4>1. /\ marks' = [q \in DOMAIN marks' |-> marks'[q]]
              /\ \A q \in DOMAIN marks' : q \in DOMAIN marks /\ marks'[q] = marks[q]
          BY Zenon, <2>2 DEF WithoutLapsed
        <4>2. MarkTypes'
          BY Zenon, <4>1 DEF WarmInv, MarkTypes
        <4> QED  BY Zenon, <1>l, <2>1, <3>3, <4>2 DEF WarmInv
      <3>4. CASE ~overdue
        <4>1. marks' = marks
          BY Zenon, <2>2, <3>4, NoneLapsed
        <4> QED  BY <1>l, <2>1, <3>2, <4>1, WarmsAlone
      <3> QED  BY Zenon, <3>3, <3>4
    <2>3. ASSUME NEW w \in Warmers, ~Busy(w), MayWarm(WithoutLapsed, fetch[s].query),
                 marks' = Marked(WithoutLapsed, fetch[s].query),
                 fetch' = [fetch EXCEPT ![s] = NoFetch,
                                        ![w] = [query |-> fetch[s].query, since |-> ltime, at |-> Unread]]
          PROVE  WarmInv'
      BY Zenon, <1>l, <2>1, <2>3, WarmBegins
    <2> QED  BY Zenon, <2>1, <2>2, <2>3 DEF schedule_warm
  <1>5. ASSUME NEW a \in Searchers \cup Warmers, letta_reads(a) PROVE WarmInv'
    <2>1. Busy(a) /\ fetch' = [fetch EXCEPT ![a].at = ltime] /\ UNCHANGED <<marks, overdue>>
      BY <1>5 DEF letta_reads
    <2>2. fetch[a] \in Fetches /\ ltime \in Nat
      BY <1>t, <2>1, FetchFacts DEF LettaTypes
    <2>3. fetch' = [fetch EXCEPT ![a] = [fetch[a] EXCEPT !.at = ltime]]
      BY <1>t, <2>1
    <2>4. /\ [fetch[a] EXCEPT !.at = ltime] \in Fetches
          /\ [fetch[a] EXCEPT !.at = ltime].query = fetch[a].query
          /\ [fetch[a] EXCEPT !.at = ltime].since = fetch[a].since
      BY <2>2 DEF Fetches
    <2>5. /\ fetch'[a] # NoFetch /\ fetch'[a].query = fetch[a].query /\ fetch'[a].since = fetch[a].since
          /\ \A x \in (Searchers \cup Warmers) \ {a} : fetch'[x] = fetch[x]
      BY <1>t, <2>3, <2>4
    <2>6. Running' = Running
      BY <2>1, <2>5 DEF Running, Busy
    <2>7. \A w \in Running : fetch'[w].query = fetch[w].query /\ fetch'[w].since = fetch[w].since
      BY <2>5 DEF Running
    <2> QED  BY <1>l, <2>1, <2>6, <2>7, WarmsAlone
  <1>6. ASSUME NEW w \in Warmers, warm_completes(w) \/ warm_fails(w) PROVE WarmInv'
    <2>1. /\ w \in Running /\ overdue' = overdue /\ marks' = Unmarked(fetch[w].query)
          /\ fetch' = [fetch EXCEPT ![w] = NoFetch]
      BY Zenon, <1>6 DEF warm_completes, warm_fails, Running
    <2> QED  BY Zenon, <1>l, <2>1, WarmEnds
  <1>7. CASE LettaTick
    <2>1. UNCHANGED <<marks, fetch>> /\ (~overdue' => ~overdue) /\ overdue' \in BOOLEAN
      BY Zenon, <1>7 DEF LettaTick
    <2>2. Running' = Running
      BY <2>1 DEF Running, Busy
    <2>3. overdue' = overdue \/ (overdue' # overdue /\ overdue')
      BY <1>t, <2>1
    <2> QED  BY Zenon, <1>l, <2>1, <2>2, <2>3, WarmsAlone
  <1>8. CASE UNCHANGED lettaVars
    <2>1. UNCHANGED <<marks, fetch, overdue>>
      BY <1>8 DEF lettaVars
    <2>2. Running' = Running
      BY <2>1 DEF Running, Busy
    <2> QED  BY Zenon, <1>l, <2>1, <2>2, WarmsAlone
  <1> QED  BY Zenon, <1>1, <1>2, <1>3, <1>4, <1>5, <1>6, <1>7, <1>8 DEF LettaNext, Warming

\* As long as no background fetch outlives its mark, there is one per query and no more than the
\* limit, and the marks are exactly those of the running fetches.
THEOREM WarmsStayBounded ==
    ASSUME LettaSetting
    PROVE  LettaSpec => []WarmsBounded
  <1>1. LettaInit => WarmInv
    <2> SUFFICES ASSUME LettaInit PROVE WarmInv
      BY Zenon
    <2>1. LettaInv
      <3>1. LettaInit => LettaInv
        BY LettaStarts
      <3> QED  BY <3>1
    <2>2. marks = <<>> /\ DOMAIN marks = {}
      BY DEF LettaInit
    <2>3. Running = {}
      BY DEF LettaInit, Running, Busy
    <2>4. MarkTypes
      BY <2>2 DEF MarkTypes
    <2>5. MarksMatch
      BY Zenon, <2>2, <2>3 DEF MarksMatch
    <2>6. MarksCount
      BY <2>2, <2>3, FS_EmptySet DEF MarksCount, LettaSetting
    <2> QED  BY <2>1, <2>4, <2>5, <2>6 DEF WarmInv
  <1>2. WarmInv => WarmsBounded
    <2> SUFFICES ASSUME WarmInv, ~overdue PROVE
                   /\ Cardinality({w \in Warmers : Busy(w)}) <= MaxWarms
                   /\ \A v, w \in Warmers : Busy(v) /\ Busy(w) /\ fetch[v].query = fetch[w].query => v = w
                   /\ DOMAIN marks = {fetch[w].query : w \in {w \in Warmers : Busy(w)}}
      BY DEF WarmsBounded
    <2>1. MarksMatch /\ MarksCount
      BY Zenon DEF WarmInv
    <2>2. /\ \A q \in DOMAIN marks : \E w \in Running : q = fetch[w].query
          /\ \A w \in Running : fetch[w].query \in DOMAIN marks
      BY Zenon, <2>1 DEF MarksMatch
    <2>3. DOMAIN marks = {fetch[w].query : w \in Running}
      BY Zenon, <2>2
    <2> QED  BY Zenon, <2>1, <2>3 DEF MarksMatch, MarksCount, Running
  <1>3. WarmInv /\ [LettaNext]_lettaVars => WarmInv'
    BY WarmStep
  <1> QED  BY <1>1, <1>2, <1>3, PTL DEF LettaSpec

=============================================================================

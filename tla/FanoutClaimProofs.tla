-------------------------- MODULE FanoutClaimProofs --------------------------
(***************************************************************************)
(* The fanout outbox for any number of events, files, sinks and workers,   *)
(* and any number of crashes and deletions: a claimed row is in the hands  *)
(* of one worker, attempts are bounded, and a delivered row stays          *)
(* delivered.                                                              *)
(***************************************************************************)
EXTENDS FanoutOutboxProofs

-----------------------------------------------------------------------------
(* Jobs in the hands of the workers *)

\* No forced requeue is under way, and no mark has failed so far.  A forced requeue makes
\* a row claimable that a worker holds; a failing mark hands a chunk to the error handler
\* whose first rows have been let go already.
Unforced == ~scan.force /\ seeds = {} /\ budget.dbErrors = Limits.dbErrors

\* Which of a worker's sets hold jobs.
Hands ==
    \A w \in Workers :
        /\ worker[w].pc = "idle" => InFlight(w) = {}
        /\ worker[w].pc = "claimed" => worker[w].left = {}
        /\ worker[w].todo \cap worker[w].left = {}
        /\ ~up => InFlight(w) = {}

\* As long as a job is in flight its row still is what was claimed; the kill switch may have
\* failed it, and a deletion may have removed it.
Held ==
    \A w \in Workers : \A j \in InFlight(w) :
        /\ j.gen <= outbox[j.key].gen
        /\ RowOf(j) => /\ outbox[j.key].status \in {"running", "failed"}
                       /\ outbox[j.key].payload = j.payload
                       /\ outbox[j.key].attempts = j.attempts

\* No other job in flight stems from the same row.
Alone ==
    \A v, w \in Workers : \A i \in InFlight(v), j \in InFlight(w) :
        i.key = j.key /\ i.gen = j.gen => v = w /\ i = j

\* A row that will be claimed again has an attempt left: one of MaxAttempts, or one that
\* a restart has granted.
Allowed == MaxAttempts + (Limits.crashes - budget.crashes)
Tried ==
    \A k \in Keys :
        /\ outbox[k].attempts <= Allowed
        /\ outbox[k].status \in Waiting => outbox[k].attempts < Allowed
        /\ ~up /\ outbox[k].status = "running" => outbox[k].attempts < Allowed

ClaimInv == TypeInv /\ budget.crashes <= Limits.crashes /\ Hands /\ Held /\ Alone /\ Tried

-----------------------------------------------------------------------------
(* Steps in which no job enters a worker's hands *)

\* A change of row k that no job in flight can be surprised by: the row stays, is deleted, is
\* inserted anew, is failed, was waiting, or is in nobody's hands any more.
Quiet(k) ==
    \/ outbox'[k] = outbox[k]
    \/ outbox'[k].gen = outbox[k].gen /\ outbox'[k].status = "absent"
    \/ outbox'[k].gen = outbox[k].gen + 1
    \/ /\ outbox'[k].gen = outbox[k].gen /\ outbox'[k].payload = outbox[k].payload
       /\ outbox'[k].attempts = outbox[k].attempts
       /\ outbox[k].status # "absent" /\ outbox'[k].status = "failed"
    \/ outbox'[k].gen = outbox[k].gen /\ outbox[k].status \in Waiting
    \/ /\ outbox'[k].gen = outbox[k].gen
       /\ \A w \in Workers : \A i \in InFlight(w)' : ~(i.key = k /\ i.gen = outbox[k].gen)

\* Jobs in flight are copies of natural-numbered rows.
LEMMA FlightFacts ==
    ASSUME TypeInv, NEW w \in Workers, NEW j \in InFlight(w)
    PROVE  j \in Job /\ j.key \in Keys /\ j.gen \in Nat /\ outbox[j.key] \in Row /\ outbox[j.key].gen \in Nat
  <1>1. worker[w] \in Hand
    BY HandType DEF TypeInv
  <1>2. j \in Job
    BY <1>1 DEF Hand, InFlight
  <1>3. outbox \in [Keys -> Row]
    BY DEF TypeInv, TypeOK
  <1> QED  BY <1>2, <1>3 DEF Job, Row

\* A step that changes rows in one of these ways and hands no job out keeps each claim with its one holder.
LEMMA QuietKeeps ==
    ASSUME TypeInv, Held, Alone, \A k \in Keys : Quiet(k),
           \A w \in Workers : InFlight(w)' \subseteq InFlight(w)
    PROVE  Held' /\ Alone'
  <1>1. ASSUME NEW w \in Workers, NEW j \in InFlight(w)'
        PROVE  /\ j.gen <= outbox'[j.key].gen
               /\ outbox'[j.key].gen = j.gen /\ outbox'[j.key].status # "absent" =>
                    /\ outbox'[j.key].status \in {"running", "failed"}
                    /\ outbox'[j.key].payload = j.payload
                    /\ outbox'[j.key].attempts = j.attempts
    <2>1. j \in InFlight(w) /\ j.key \in Keys /\ j.gen \in Nat /\ outbox[j.key].gen \in Nat
      BY <1>1, FlightFacts
    <2>2. /\ j.gen <= outbox[j.key].gen
          /\ outbox[j.key].gen = j.gen /\ outbox[j.key].status # "absent" =>
               /\ outbox[j.key].status \in {"running", "failed"}
               /\ outbox[j.key].payload = j.payload
               /\ outbox[j.key].attempts = j.attempts
      BY <2>1 DEF Held, RowOf
    <2>3. Quiet(j.key)
      BY Zenon, <2>1
    <2>4. CASE outbox'[j.key] = outbox[j.key]
      BY <2>2, <2>4
    <2>5. CASE outbox'[j.key].gen = outbox[j.key].gen /\ outbox'[j.key].status = "absent"
      BY <2>2, <2>5
    <2>6. CASE outbox'[j.key].gen = outbox[j.key].gen + 1
      BY <2>1, <2>2, <2>6
    <2>7. CASE /\ outbox'[j.key].gen = outbox[j.key].gen /\ outbox'[j.key].payload = outbox[j.key].payload
               /\ outbox'[j.key].attempts = outbox[j.key].attempts
               /\ outbox[j.key].status # "absent" /\ outbox'[j.key].status = "failed"
      BY Zenon, <2>2, <2>7
    <2>8. CASE outbox'[j.key].gen = outbox[j.key].gen /\ outbox[j.key].status \in Waiting
      BY <2>2, <2>8 DEF Waiting
    <2>9. CASE /\ outbox'[j.key].gen = outbox[j.key].gen
               /\ \A v \in Workers : \A i \in InFlight(v)' : ~(i.key = j.key /\ i.gen = outbox[j.key].gen)
      BY Zenon, <1>1, <2>2, <2>9
    <2> QED  BY <2>3, <2>4, <2>5, <2>6, <2>7, <2>8, <2>9 DEF Quiet
  <1>2. Held'
    BY <1>1 DEF Held, RowOf
  <1>3. Alone'
    BY DEF Alone
  <1> QED  BY Zenon, <1>2, <1>3

\* The number of attempts a row has, and the rows that still wait.
AttemptStep(k) ==
    \/ outbox'[k].attempts <= outbox[k].attempts /\ outbox'[k].status \notin Waiting
    \/ outbox'[k].attempts = outbox[k].attempts /\ outbox[k].status \in Waiting
    \/ outbox'[k] = outbox[k]
    \/ outbox'[k].attempts < MaxAttempts

\* A step that adds an attempt only below the limit keeps the bound on attempts.
LEMMA AttemptKeeps ==
    ASSUME TypeInv, TypeInv', Tried, budget.crashes <= Limits.crashes, budget'.crashes = budget.crashes, up',
           \A k \in Keys : AttemptStep(k)
    PROVE  Tried'
  <1>1. MaxAttempts \in Nat /\ Limits.crashes \in Nat /\ budget.crashes \in Nat /\ Allowed' = Allowed
    BY FanoutAssumption DEF TypeInv, TypeOK, Allowed
  <1>2. MaxAttempts <= Allowed /\ Allowed \in Int
    BY <1>1 DEF Allowed
  <1>3. ASSUME NEW k \in Keys
        PROVE  /\ outbox'[k].attempts <= Allowed
               /\ outbox'[k].status \in Waiting => outbox'[k].attempts < Allowed
    <2>1. outbox[k].attempts \in Nat /\ outbox'[k].attempts \in Nat
      BY Zenon DEF TypeInv, TypeOK, Row
    <2>2. outbox[k].attempts <= Allowed /\ (outbox[k].status \in Waiting => outbox[k].attempts < Allowed)
      BY DEF Tried
    <2> QED  BY <1>1, <1>2, <2>1, <2>2 DEF AttemptStep
  <1> QED  BY Zenon, <1>1, <1>3 DEF Tried

-----------------------------------------------------------------------------
(* Enqueueing *)

\* An unforced transaction touches no row that a worker holds and no delivered row, and leaves
\* an attempt to every waiting row.
LEMMA ClaimEnqueue ==
    ASSUME ClaimInv, NEW e \in Events, NEW ts \in SUBSET Targets,
           enqueue_fanout_outbox(e, ts, FALSE)
    PROVE  \A k \in Keys : /\ Quiet(k) /\ AttemptStep(k)
                           /\ outbox[k].status = "succeeded" => outbox'[k].status = "succeeded"
  <1> SUFFICES ASSUME NEW k \in Keys
               PROVE  /\ Quiet(k) /\ AttemptStep(k)
                      /\ outbox[k].status = "succeeded" => outbox'[k].status = "succeeded"
    BY Zenon
  <1>1. TypeOK /\ outbox[k] \in Row
    BY Zenon DEF ClaimInv, TypeInv, TypeOK
  <1>2. RowStep(k, e, ts, FALSE)
    BY Zenon, <1>1, EnqueueFacts
  <1>3. CASE outbox'[k] = outbox[k]
    BY <1>3 DEF Quiet, AttemptStep
  <1>4. CASE outbox[k].status \in Waiting /\ outbox'[k] = CoalescedRow(outbox[k], e)
    <2>1. /\ outbox'[k].gen = outbox[k].gen /\ outbox'[k].attempts = outbox[k].attempts
          /\ outbox'[k].status = outbox[k].status
      BY <1>1, <1>4, RowFacts
    <2> QED  BY <1>4, <2>1 DEF Quiet, AttemptStep
  <1>5. CASE outbox[k].status = "absent" /\ outbox'[k] = InsertedRow(outbox[k], e)
    <2>1. outbox'[k].gen = outbox[k].gen + 1 /\ outbox'[k].attempts = 0
      BY <1>1, <1>5, RowFacts
    <2>2. 0 < MaxAttempts
      BY FanoutAssumption
    <2> QED  BY <1>5, <2>1, <2>2 DEF Quiet, AttemptStep
  <1> QED  BY Zenon, <1>2, <1>3, <1>4, <1>5 DEF RowStep

\* A step that leaves the workers alone, and touches rows quietly.
LEMMA ClaimQuiet ==
    ASSUME ClaimInv, TypeInv', up, up', worker' = worker, budget'.crashes = budget.crashes,
           \A k \in Keys : /\ Quiet(k) /\ AttemptStep(k)
                           /\ outbox[k].status = "succeeded" => outbox'[k].status \in {"succeeded", "absent"}
    PROVE  ClaimInv' /\ SucceededStays
  <1>1. \A w \in Workers : InFlight(w)' = InFlight(w)
    BY DEF InFlight
  <1>2. Held' /\ Alone'
    BY <1>1, QuietKeeps DEF ClaimInv
  <1>3. Tried'
    BY AttemptKeeps DEF ClaimInv
  <1>4. Hands'
    BY <1>1 DEF ClaimInv, Hands
  <1>5. SucceededStays
    BY DEF SucceededStays
  <1> QED  BY <1>2, <1>3, <1>4, <1>5 DEF ClaimInv

\* A step that touches no row.
LEMMA NoRowQuiet ==
    ASSUME outbox' = outbox
    PROVE  \A k \in Keys : /\ Quiet(k) /\ AttemptStep(k)
                           /\ outbox[k].status = "succeeded" => outbox'[k].status \in {"succeeded", "absent"}
  BY DEF Quiet, AttemptStep

\* Writes: seeds are excluded by Unforced.
LEMMA ClaimWrite ==
    ASSUME ClaimInv, Unforced, Write
    PROVE  ClaimInv' /\ SucceededStays
  <1>t. TypeInv /\ TypeOK /\ TypeInv'
    BY Zenon, WriteTypes DEF ClaimInv, TypeInv
  <1>1. ASSUME NEW e \in Events, NEW persisted \in RawOutcomes, write_memory(e, persisted)
        PROVE  ClaimInv' /\ SucceededStays
    <2>1. up /\ up' /\ worker' = worker /\ outbox' = outbox /\ budget' = budget
      BY <1>1 DEF write_memory
    <2> QED  BY <1>t, <2>1, NoRowQuiet, ClaimQuiet
  <1>2. ASSUME NEW i \in InProgress, NEW a \in BOOLEAN, enqueue_memory_write_fanout(i, a)
        PROVE  ClaimInv' /\ SucceededStays
    <2> DEFINE ts == {t \in Targets : /\ t = "mongo_raw" => ~intake[i].persisted
                                      /\ t = "letta" => a}
    <2>1. /\ intake[i].event \in Events /\ ts \in SUBSET Targets
          /\ enqueue_fanout_outbox(intake[i].event, ts, FALSE)
          /\ up /\ up' /\ worker' = worker /\ budget' = budget
      BY Zenon, <1>2, <1>t, IntakeFacts DEF enqueue_memory_write_fanout
    <2> HIDE DEF ts
    <2>2. \A k \in Keys : /\ Quiet(k) /\ AttemptStep(k)
                          /\ outbox[k].status = "succeeded" => outbox'[k].status = "succeeded"
      BY Zenon, <2>1, ClaimEnqueue
    <2> QED  BY <1>t, <2>1, <2>2, ClaimQuiet
  <1>3. ASSUME NEW i \in InProgress, memory_bank_write_fails(i)
        PROVE  ClaimInv' /\ SucceededStays
    <2>1. up /\ up' /\ worker' = worker /\ outbox' = outbox /\ budget' = budget
      BY <1>3 DEF memory_bank_write_fails
    <2> QED  BY <1>t, <2>1, NoRowQuiet, ClaimQuiet
  <1>4. seeds = {}
    BY DEF Unforced
  <1> QED  BY <1>1, <1>2, <1>3, <1>4 DEF Write

\* Backfills, as long as none is forced.
LEMMA ClaimBackfill ==
    ASSUME ClaimInv, Unforced, Backfill
    PROVE  ClaimInv' /\ SucceededStays
  <1>t. TypeInv /\ TypeOK /\ TypeInv'
    BY BackfillTypes DEF ClaimInv, TypeInv
  <1>1. ASSUME NEW ts, NEW force, backfill_scan(ts, force)
        PROVE  ClaimInv' /\ SucceededStays
    <2>1. up /\ up' /\ worker' = worker /\ outbox' = outbox
      BY Zenon, <1>1 DEF backfill_scan
    <2>2. budget'.crashes = budget.crashes
      BY <1>1, <1>t, SpendFacts DEF backfill_scan
    <2> QED  BY <1>t, <2>1, <2>2, NoRowQuiet, ClaimQuiet
  <1>2. ASSUME NEW upserted \in BOOLEAN, backfill_enqueue(upserted)
        PROVE  ClaimInv' /\ SucceededStays
    <2> DEFINE ts == IF upserted /\ ~scan.force THEN scan.targets \ {"mongo_raw"} ELSE scan.targets
    <2>1. PICK e \in NextDocs : enqueue_fanout_outbox(e, ts, scan.force)
      BY <1>2 DEF backfill_enqueue
    <2>2. e \in Events /\ ts \in SUBSET Targets /\ scan.force = FALSE
      BY <1>t DEF TypeOK, NextDocs, Unforced
    <2> HIDE DEF ts
    <2>3. \A k \in Keys : /\ Quiet(k) /\ AttemptStep(k)
                          /\ outbox[k].status = "succeeded" => outbox'[k].status = "succeeded"
      BY Zenon, <2>1, <2>2, ClaimEnqueue
    <2>4. up /\ up' /\ worker' = worker /\ budget' = budget
      BY <1>2 DEF backfill_enqueue
    <2> QED  BY <1>t, <2>3, <2>4, ClaimQuiet
  <1>3. ASSUME backfill_skips \/ backfill_throttled
        PROVE  ClaimInv' /\ SucceededStays
    <2>1. up /\ up' /\ worker' = worker /\ outbox' = outbox /\ budget' = budget
      BY <1>3 DEF backfill_skips, backfill_throttled
    <2> QED  BY <1>t, <2>1, NoRowQuiet, ClaimQuiet
  <1> QED  BY <1>1, <1>2, <1>3 DEF Backfill

-----------------------------------------------------------------------------
(* Deletions, crashes and restarts *)

\* Rows that are deleted.
LEMMA ClaimDeleted ==
    ASSUME TypeInv, NEW S, outbox' = Deleted(S)
    PROVE  \A k \in Keys : /\ Quiet(k) /\ AttemptStep(k)
                           /\ outbox[k].status = "succeeded" => outbox'[k].status \in {"succeeded", "absent"}
  <1> SUFFICES ASSUME NEW k \in Keys
               PROVE  /\ Quiet(k) /\ AttemptStep(k)
                      /\ outbox[k].status = "succeeded" => outbox'[k].status \in {"succeeded", "absent"}
    BY Zenon
  <1>1. outbox[k] \in Row
    BY DEF TypeInv, TypeOK
  <1>2. /\ Absent(outbox[k].gen).gen = outbox[k].gen /\ Absent(outbox[k].gen).attempts = 0
        /\ Absent(outbox[k].gen).status = "absent"
    BY Zenon, <1>1, StatusFacts
  <1>3. outbox'[k] \in {outbox[k], Absent(outbox[k].gen)}
    BY DEF Deleted
  <1>4. 0 < MaxAttempts
    BY FanoutAssumption
  <1> QED  BY Zenon, <1>2, <1>3, <1>4 DEF Quiet, AttemptStep

\* The sweep's deletes keep the claim invariant, and no succeeded row turns into another status.
LEMMA ClaimDelete ==
    ASSUME ClaimInv, Delete
    PROVE  ClaimInv' /\ SucceededStays
  <1>t. TypeInv /\ TypeOK /\ TypeInv'
    BY DeleteTypes DEF ClaimInv, TypeInv
  <1>1. CASE fanout_outbox_gc
    <2>1. /\ up /\ up' /\ worker' = worker /\ \E S : outbox' = Deleted(S)
          /\ Spend("deletions")
      BY <1>1 DEF fanout_outbox_gc
    <2>2. budget'.crashes = budget.crashes
      BY <1>t, <2>1, SpendFacts
    <2> QED  BY <1>t, <2>1, <2>2, ClaimDeleted, ClaimQuiet
  <1>2. CASE prune_select
    <2>1. up /\ up' /\ worker' = worker /\ outbox' = outbox /\ Spend("deletions")
      BY <1>2 DEF prune_select
    <2>2. budget'.crashes = budget.crashes
      BY Zenon, <1>t, <2>1, SpendFacts
    <2> QED  BY Zenon, <1>t, <2>1, <2>2, NoRowQuiet, ClaimQuiet
  <1>3. CASE prune_delete
    <2>1. up /\ up' /\ worker' = worker /\ budget' = budget /\ \E S : outbox' = Deleted(S)
      BY Zenon, <1>3 DEF prune_delete
    <2> QED  BY Zenon, <1>t, <2>1, ClaimDeleted, ClaimQuiet
  <1> QED  BY <1>1, <1>2, <1>3 DEF Delete

\* A crash grants every row one more attempt, and a restart uses it.
LEMMA ClaimCrash ==
    ASSUME ClaimInv, crash \/ start_background_tasks
    PROVE  ClaimInv' /\ SucceededStays
  <1>t. TypeInv /\ TypeOK /\ TypeInv' /\ outbox \in [Keys -> Row]
    BY Zenon, DeleteTypes DEF ClaimInv, TypeInv, TypeOK
  <1>n. /\ MaxAttempts \in Nat /\ Limits.crashes \in Nat /\ budget.crashes \in Nat
        /\ \A k \in Keys : outbox[k].attempts \in Nat
    BY Zenon, <1>t, FanoutAssumption DEF TypeOK, Row
  <1>1. CASE crash
    <2>1. worker' = [w \in Workers |-> Idle] /\ outbox' = outbox /\ Spend("crashes")
      BY Zenon, <1>1 DEF crash
    <2>2. \A w \in Workers : InFlight(w)' = {}
      BY <2>1 DEF InFlight, Idle
    <2>3. Hands' /\ Held' /\ Alone'
      BY <2>1, <2>2 DEF Hands, Held, Alone, InFlight, Idle
    <2>4. budget'.crashes = budget.crashes - 1 /\ budget.crashes > 0
      BY <1>t, <2>1, SpendFacts
    <2>5. Allowed' = Allowed + 1 /\ Allowed \in Int /\ budget'.crashes <= Limits.crashes
      BY <1>n, <2>4 DEF Allowed, ClaimInv
    <2>6. Tried'
      BY <1>n, <2>1, <2>5 DEF ClaimInv, Tried
    <2>7. SucceededStays
      BY <2>1 DEF SucceededStays
    <2> QED  BY <1>t, <2>3, <2>5, <2>6, <2>7 DEF ClaimInv
  <1>2. CASE start_background_tasks
    <2>1. PICK S \in SUBSET {k \in Keys : outbox[k].status = "running"} : outbox' = Recovered(S)
      BY Zenon, <1>2 DEF start_background_tasks
    <2>2. ~up /\ up' /\ worker' = worker /\ budget' = budget
      BY Zenon, <1>2 DEF start_background_tasks
    <2>3. \A w \in Workers : InFlight(w)' = {} /\ InFlight(w) = {}
      BY Zenon, <2>2 DEF ClaimInv, Hands, InFlight
    <2>4. Hands' /\ Held' /\ Alone'
      BY <2>2, <2>3 DEF ClaimInv, Hands, Held, Alone, InFlight
    <2>5. ASSUME NEW k \in Keys
          PROVE  \/ outbox'[k] = outbox[k]
                 \/ outbox[k].status = "running" /\ outbox'[k].attempts = outbox[k].attempts
      <3>1. outbox[k] \in Row
        BY <1>t
      <3>2. [outbox[k] EXCEPT !.status = "retrying"].attempts = outbox[k].attempts
        BY Zenon, <3>1, StatusFacts
      <3> QED  BY <2>1, <3>2 DEF Recovered
    <2>6. Tried'
      <3>1. Allowed' = Allowed
        BY Zenon, <2>2 DEF Allowed
      <3> QED  BY <2>2, <2>5, <3>1 DEF ClaimInv, Tried
    <2>7. SucceededStays
      BY Zenon, <2>5 DEF SucceededStays
    <2> QED  BY Zenon, <1>t, <2>2, <2>4, <2>6, <2>7 DEF ClaimInv
  <1> QED  BY <1>1, <1>2

-----------------------------------------------------------------------------
(* Workers *)

\* A step of one worker in which no job enters its hands.
LEMMA ClaimHand ==
    ASSUME ClaimInv, TypeInv', up, up', budget' = budget, NEW w \in Workers,
           worker' = [worker EXCEPT ![w] = worker'[w]],
           worker'[w].todo \cup worker'[w].left \subseteq InFlight(w),
           worker'[w].todo \cap worker'[w].left = {},
           worker'[w].pc = "idle" => worker'[w].todo = {} /\ worker'[w].left = {},
           worker'[w].pc = "claimed" => worker'[w].left = {},
           \A k \in Keys : /\ Quiet(k) /\ AttemptStep(k)
                           /\ outbox[k].status = "succeeded" => outbox'[k].status \in {"succeeded", "absent"}
    PROVE  ClaimInv' /\ SucceededStays
  <1>1. worker \in [Workers -> Hand] /\ \A v \in Workers \ {w} : worker'[v] = worker[v]
    BY Zenon, HandType DEF ClaimInv, TypeInv
  <1>2. \A v \in Workers : InFlight(v)' \subseteq InFlight(v)
    BY Zenon, <1>1 DEF InFlight
  <1>3. Held' /\ Alone'
    BY Zenon, <1>2, QuietKeeps DEF ClaimInv
  <1>4. Tried'
    BY Zenon, AttemptKeeps DEF ClaimInv
  <1>5. Hands'
    BY Zenon, <1>1 DEF ClaimInv, Hands, InFlight
  <1>6. SucceededStays
    BY Zenon DEF SucceededStays
  <1> QED  BY Zenon, <1>3, <1>4, <1>5, <1>6 DEF ClaimInv

\* claim_fanout_batch: the rows were waiting, so no worker had them.
LEMMA ClaimClaim ==
    ASSUME ClaimInv, NEW w \in Workers, claim_fanout_batch(w)
    PROVE  ClaimInv' /\ SucceededStays
  <1>t. TypeInv /\ TypeOK /\ TypeInv' /\ outbox \in [Keys -> Row] /\ worker \in [Workers -> Hand]
    <2>1. WorkerStep(w)
      BY DEF WorkerStep
    <2> QED  BY Zenon, <2>1, WorkerTypes, HandType DEF ClaimInv, TypeInv, TypeOK
  <1>0. PICK S \in SUBSET Keys : Claims(w, S)
    BY Zenon, <1>t, ClaimFacts
  <1>1. /\ \A k \in S : outbox[k].status \in Waiting
        /\ outbox' = [k \in Keys |-> IF k \in S THEN ClaimedRow(outbox[k]) ELSE outbox[k]]
        /\ worker' = [worker EXCEPT ![w] = worker'[w]]
        /\ worker'[w].pc = "claimed" /\ worker'[w].left = {}
        /\ worker'[w].todo = {JobOf(k, ClaimedRow(outbox[k])) : k \in S}
    BY <1>0 DEF Claims
  <1>2. up /\ up' /\ budget' = budget /\ worker[w].pc = "idle"
    BY Zenon DEF claim_fanout_batch
  <1>3. ASSUME NEW k \in S
        PROVE  /\ k \in Keys /\ outbox'[k].status = "running" /\ outbox'[k].payload = outbox[k].payload
               /\ outbox'[k].gen = outbox[k].gen /\ outbox'[k].attempts = outbox[k].attempts + 1
    <2>1. outbox[k] \in Row
      BY <1>t
    <2>2. /\ ClaimedRow(outbox[k]).status = "running" /\ ClaimedRow(outbox[k]).payload = outbox[k].payload
          /\ ClaimedRow(outbox[k]).gen = outbox[k].gen
          /\ ClaimedRow(outbox[k]).attempts = outbox[k].attempts + 1
      BY Zenon, <2>1, StatusFacts
    <2> QED  BY <1>1, <2>2
  <1>4. \A k \in Keys \ S : outbox'[k] = outbox[k]
    BY Zenon, <1>1
  <1>5. /\ InFlight(w) = {}
        /\ InFlight(w)' = worker'[w].todo
        /\ \A v \in Workers \ {w} : worker'[v] = worker[v] /\ InFlight(v)' = InFlight(v)
    BY <1>t, <1>1, <1>2 DEF InFlight, ClaimInv, Hands
  <1>6. ASSUME NEW j \in worker'[w].todo
        PROVE  /\ j.key \in S /\ j = JobOf(j.key, outbox'[j.key])
               /\ outbox'[j.key].status = "running" /\ outbox'[j.key].gen = j.gen
               /\ outbox'[j.key].payload = j.payload /\ outbox'[j.key].attempts = j.attempts
               /\ outbox[j.key].gen = j.gen /\ j.gen \in Nat
    <2>1. PICK k \in S : j = JobOf(k, ClaimedRow(outbox[k]))
      BY Zenon, <1>1
    <2>2. outbox'[k] = ClaimedRow(outbox[k]) /\ outbox[k].gen \in Nat
      BY Zenon, <1>t, <1>1 DEF Row
    <2>3. j = JobOf(k, outbox'[k]) /\ j.key = k
      BY Zenon, <2>1, <2>2 DEF JobOf
    <2> QED  BY <1>3, <2>2, <2>3 DEF JobOf
  <1>7. Hands'
    BY Zenon, <1>1, <1>2, <1>5 DEF ClaimInv, Hands, InFlight
  <1>8. ASSUME NEW v \in Workers \ {w}, NEW j \in InFlight(v)'
        PROVE  /\ j.gen <= outbox'[j.key].gen
               /\ outbox'[j.key].gen = j.gen /\ outbox'[j.key].status # "absent" =>
                    /\ j.key \notin S
                    /\ outbox'[j.key].status \in {"running", "failed"}
                    /\ outbox'[j.key].payload = j.payload
                    /\ outbox'[j.key].attempts = j.attempts
    <2>1. j \in InFlight(v) /\ j.key \in Keys
      BY Zenon, <1>5, <1>8, <1>t, FlightFacts
    <2>2. /\ j.gen <= outbox[j.key].gen
          /\ outbox[j.key].gen = j.gen /\ outbox[j.key].status # "absent" =>
               /\ outbox[j.key].status \in {"running", "failed"}
               /\ outbox[j.key].payload = j.payload
               /\ outbox[j.key].attempts = j.attempts
      BY Zenon, <2>1 DEF ClaimInv, Held, RowOf
    <2>3. CASE j.key \in S
      <3>1. outbox[j.key].status \in Waiting /\ outbox'[j.key].gen = outbox[j.key].gen
        BY Zenon, <1>1, <1>3, <2>3
      <3> QED  BY Zenon, <2>2, <3>1 DEF Waiting
    <2>4. CASE j.key \notin S
      BY Zenon, <1>4, <2>1, <2>2, <2>4
    <2> QED  BY Zenon, <2>3, <2>4
  <1>9. Held'
    <2> SUFFICES ASSUME NEW v \in Workers, NEW j \in InFlight(v)'
                 PROVE  /\ j.gen <= outbox'[j.key].gen
                        /\ RowOf(j)' => /\ outbox'[j.key].status \in {"running", "failed"}
                                        /\ outbox'[j.key].payload = j.payload
                                        /\ outbox'[j.key].attempts = j.attempts
      BY Zenon DEF Held
    <2>1. CASE v = w
      BY <1>5, <1>6, <2>1
    <2>2. CASE v # w
      BY Zenon, <1>8, <2>2 DEF RowOf
    <2> QED  BY Zenon, <2>1, <2>2
  <1>10. Alone'
    <2>1. ASSUME NEW v \in Workers \ {w}, NEW i \in InFlight(v)', NEW j \in InFlight(w)',
                 i.key = j.key, i.gen = j.gen
          PROVE  FALSE
      <3>1. j.key \in S /\ outbox'[j.key].gen = j.gen /\ outbox'[j.key].status = "running"
        BY Zenon, <1>5, <1>6
      <3> QED  BY Zenon, <1>8, <2>1, <3>1
    <2>2. ASSUME NEW i \in InFlight(w)', NEW j \in InFlight(w)', i.key = j.key PROVE i = j
      <3>1. i = JobOf(i.key, outbox'[i.key]) /\ j = JobOf(j.key, outbox'[j.key])
        BY Zenon, <1>5, <1>6
      <3> QED  BY Zenon, <2>2, <3>1
    <2>3. \A v, u \in Workers \ {w} : \A i \in InFlight(v)', j \in InFlight(u)' :
            i.key = j.key /\ i.gen = j.gen => v = u /\ i = j
      BY <1>5 DEF ClaimInv, Alone
    <2> QED  BY <2>1, <2>2, <2>3 DEF Alone
  <1>11. Tried'
    <2>1. Allowed' = Allowed /\ Allowed \in Int
      BY <1>2, <1>t, FanoutAssumption DEF Allowed, TypeOK
    <2>2. ASSUME NEW k \in Keys
          PROVE  /\ outbox'[k].attempts <= Allowed
                 /\ outbox'[k].status \in Waiting => outbox'[k].attempts < Allowed
      <3>1. CASE k \in S
        <4>1. outbox[k].attempts < Allowed /\ outbox[k].attempts \in Nat
          BY Zenon, <1>1, <1>t, <3>1 DEF ClaimInv, Tried, Row
        <4> QED  BY <1>3, <2>1, <3>1, <4>1 DEF Waiting
      <3>2. CASE k \notin S
        BY Zenon, <1>4, <3>2 DEF ClaimInv, Tried
      <3> QED  BY Zenon, <3>1, <3>2
    <2> QED  BY Zenon, <1>2, <2>1, <2>2 DEF Tried
  <1>12. SucceededStays
    BY <1>1, <1>4 DEF SucceededStays, Waiting
  <1> QED  BY Zenon, <1>t, <1>2, <1>7, <1>9, <1>10, <1>11, <1>12 DEF ClaimInv

\* fail_letta_backlog fails outstanding rows and leaves the others alone.
LEMMA ClaimBacklog ==
    ASSUME TypeOK, outbox' = fail_letta_backlog
    PROVE  \A k \in Keys : /\ Quiet(k) /\ AttemptStep(k)
                           /\ outbox[k].status = "succeeded" => outbox'[k].status \in {"succeeded", "absent"}
  <1> SUFFICES ASSUME NEW k \in Keys
               PROVE  /\ Quiet(k) /\ AttemptStep(k)
                      /\ outbox[k].status = "succeeded" => outbox'[k].status \in {"succeeded", "absent"}
    BY Zenon
  <1>1. \/ outbox'[k] = outbox[k]
        \/ /\ outbox[k].status \in Outstanding
           /\ outbox'[k] = [outbox[k] EXCEPT !.status = "failed"]
    BY BacklogFacts
  <1>2. outbox[k] \in Row
    BY Zenon DEF TypeOK
  <1>3. /\ [outbox[k] EXCEPT !.status = "failed"].gen = outbox[k].gen
        /\ [outbox[k] EXCEPT !.status = "failed"].payload = outbox[k].payload
        /\ [outbox[k] EXCEPT !.status = "failed"].attempts = outbox[k].attempts
        /\ [outbox[k] EXCEPT !.status = "failed"].status = "failed"
    BY <1>2, StatusFacts
  <1>4. outbox[k].attempts <= outbox[k].attempts
    BY <1>2 DEF Row
  <1> QED  BY Zenon, <1>1, <1>3, <1>4 DEF Quiet, AttemptStep, Outstanding, Waiting

\* push_batch and letta_chunk_dropped let go of jobs, and at most fail rows.
LEMMA ClaimPush ==
    ASSUME ClaimInv, NEW w \in Workers, push_batch(w) \/ letta_chunk_dropped(w)
    PROVE  ClaimInv' /\ SucceededStays
  <1>t. TypeInv /\ TypeOK /\ TypeInv' /\ outbox \in [Keys -> Row]
    <2>1. WorkerStep(w)
      BY DEF WorkerStep
    <2> QED  BY Zenon, <2>1, WorkerTypes DEF ClaimInv, TypeInv, TypeOK
  <1>h. worker[w].left = {} /\ InFlight(w) = worker[w].todo
    BY Zenon DEF ClaimInv, Hands, InFlight, push_batch, letta_chunk_dropped
  <1>1. CASE push_batch(w)
    <2>0. PICK B \in SUBSET worker[w].todo, F \in SUBSET worker[w].todo, R \in SUBSET worker[w].todo :
            Pushes(w, B, F, R)
      BY Zenon, <1>t, <1>1, PushFacts
    <2>1. /\ worker' = [worker EXCEPT ![w] = worker'[w]]
          /\ worker'[w].pc \in {"marking", "failing"}
          /\ worker'[w].todo = worker[w].todo \ B /\ worker'[w].left = B
      BY <2>0 DEF Pushes
    <2>2. up /\ up' /\ outbox' = outbox /\ budget' = budget
      BY Zenon, <1>1 DEF push_batch
    <2>3. /\ worker'[w].todo \cup worker'[w].left \subseteq InFlight(w)
          /\ worker'[w].todo \cap worker'[w].left = {}
          /\ worker'[w].pc \notin {"idle", "claimed"}
      BY Zenon, <1>h, <2>1
    <2> QED  BY Zenon, <1>t, <2>1, <2>2, <2>3, NoRowQuiet, ClaimHand
  <1>2. CASE letta_chunk_dropped(w)
    <2>0. PICK B \in SUBSET worker[w].todo : Drops(w, B)
      BY Zenon, <1>t, <1>2, DropFacts
    <2>1. /\ worker' = [worker EXCEPT ![w] = worker'[w]]
          /\ worker'[w].pc = "idle" => worker'[w].todo = {} /\ worker'[w].left = {}
          /\ worker'[w].todo = worker[w].todo \ B /\ worker'[w].left = {}
      BY <1>h, <2>0 DEF Drops
    <2>2. up /\ up' /\ outbox' = fail_letta_backlog /\ budget' = budget
      BY Zenon, <1>2 DEF letta_chunk_dropped
    <2>3. /\ worker'[w].todo \cup worker'[w].left \subseteq InFlight(w)
          /\ worker'[w].todo \cap worker'[w].left = {}
      BY Zenon, <1>h, <2>1
    <2>4. \A k \in Keys : /\ Quiet(k) /\ AttemptStep(k)
                          /\ outbox[k].status = "succeeded" => outbox'[k].status \in {"succeeded", "absent"}
      BY <1>t, <2>2, ClaimBacklog
    <2> QED  BY Zenon, <1>t, <2>1, <2>2, <2>3, <2>4, ClaimHand
  <1> QED  BY <1>1, <1>2

\* Marks: the job leaves the worker's hands together with the change of its row.
LEMMA ClaimMark ==
    ASSUME ClaimInv, NEW w \in Workers, Mark(w)
    PROVE  ClaimInv' /\ SucceededStays
  <1>t. TypeInv /\ TypeOK /\ TypeInv' /\ outbox \in [Keys -> Row]
    <2>1. WorkerStep(w)
      BY DEF WorkerStep
    <2> QED  BY Zenon, <2>1, WorkerTypes DEF ClaimInv, TypeInv, TypeOK
  <1>0. PICK j \in worker[w].left : \/ mark_fanout_job_success(w, j)
                                    \/ \E err \in Errors : handle_fanout_job_error(w, j, err)
    BY Zenon DEF Mark
  <1>1. /\ j \in Job /\ worker[w].pc \in {"marking", "failing"}
        /\ worker'[w] = Advance(worker[w], j) /\ worker' = [worker EXCEPT ![w] = worker'[w]]
        /\ \/ outbox' = fail_letta_backlog
           \/ \E s \in {"succeeded", "failed", "retrying"} :
                /\ outbox' = Marked(j, [outbox[j.key] EXCEPT !.status = s])
                /\ s = "retrying" => j.attempts < MaxAttempts
    BY <1>t, <1>0, MarkFacts
  <1>2. up /\ up' /\ budget' = budget
    BY <1>0 DEF mark_fanout_job_success, handle_fanout_job_error
  <1>3. worker[w] \in Hand /\ worker \in [Workers -> Hand]
    BY Zenon, <1>t, HandType
  <1>4. /\ worker'[w].todo = worker[w].todo /\ worker'[w].left = worker[w].left \ {j}
        /\ worker'[w].pc = "idle" => worker[w].todo = {} /\ worker[w].left = {j}
        /\ worker'[w].pc = "claimed" => worker[w].left = {j}
    BY <1>1, <1>3, AdvanceFacts
  <1>5. /\ worker'[w].todo \cup worker'[w].left \subseteq InFlight(w) \ {j}
        /\ worker'[w].todo \cap worker'[w].left = {}
        /\ worker'[w].pc = "idle" => worker'[w].todo = {} /\ worker'[w].left = {}
        /\ worker'[w].pc = "claimed" => worker'[w].left = {}
    BY <1>4 DEF ClaimInv, Hands, InFlight
  <1>6. CASE outbox' = fail_letta_backlog
    <2>1. \A k \in Keys : /\ Quiet(k) /\ AttemptStep(k)
                          /\ outbox[k].status = "succeeded" => outbox'[k].status \in {"succeeded", "absent"}
      BY Zenon, <1>t, <1>6, ClaimBacklog
    <2> QED  BY Zenon, <1>t, <1>1, <1>2, <1>5, <2>1, ClaimHand
  <1>7. ASSUME NEW s \in {"succeeded", "failed", "retrying"},
               outbox' = Marked(j, [outbox[j.key] EXCEPT !.status = s]),
               s = "retrying" => j.attempts < MaxAttempts
        PROVE  ClaimInv' /\ SucceededStays
    <2>1. \A v \in Workers : \A i \in InFlight(v)' : ~(i.key = j.key /\ i.gen = j.gen)
      <3>1. j \in InFlight(w)
        BY DEF InFlight
      <3>2. \A v \in Workers : InFlight(v)' \subseteq InFlight(v) /\ (v = w => j \notin InFlight(v)')
        BY <1>1, <1>3, <1>5 DEF InFlight
      <3> QED  BY <3>1, <3>2 DEF ClaimInv, Alone
    <2>2. /\ outbox' = [k \in Keys |-> IF k = j.key /\ RowOf(j) THEN [outbox[j.key] EXCEPT !.status = s]
                                       ELSE outbox[k]]
          /\ j.key \in Keys
      BY <1>t, <1>1, <1>7, MarkedFacts
    <2>3. CASE RowOf(j)
      <3>1. /\ outbox[j.key].status \in {"running", "failed"} /\ outbox[j.key].gen = j.gen
            /\ outbox[j.key].attempts = j.attempts
        BY <2>3 DEF ClaimInv, Held, InFlight, RowOf
      <3>2. outbox[j.key] \in Row
        BY <1>t, <2>2
      <3>3. /\ [outbox[j.key] EXCEPT !.status = s].gen = outbox[j.key].gen
            /\ [outbox[j.key] EXCEPT !.status = s].attempts = outbox[j.key].attempts
            /\ [outbox[j.key] EXCEPT !.status = s].status = s
        BY <3>2, StatusFacts
      <3>4. /\ outbox'[j.key].gen = j.gen /\ outbox'[j.key].attempts = j.attempts
            /\ outbox'[j.key].status = s
        BY Zenon, <2>2, <2>3, <3>1, <3>3
      <3>5. Quiet(j.key)
        BY Zenon, <2>1, <3>1, <3>4 DEF Quiet
      <3>6. AttemptStep(j.key)
        <4>1. outbox[j.key].attempts <= outbox[j.key].attempts
          BY <3>2 DEF Row
        <4> QED  BY Zenon, <1>7, <3>1, <3>4, <4>1 DEF AttemptStep, Waiting
      <3>7. \A k \in Keys \ {j.key} : outbox'[k] = outbox[k]
        BY Zenon, <2>2
      <3>8. \A k \in Keys \ {j.key} : Quiet(k) /\ AttemptStep(k)
        BY Zenon, <3>7 DEF Quiet, AttemptStep
      <3>9. \A k \in Keys : /\ Quiet(k) /\ AttemptStep(k)
                            /\ outbox[k].status = "succeeded" => outbox'[k].status \in {"succeeded", "absent"}
        BY Zenon, <3>1, <3>5, <3>6, <3>7, <3>8
      <3> QED  BY Zenon, <1>t, <1>1, <1>2, <1>5, <3>9, ClaimHand
    <2>4. CASE ~RowOf(j)
      <3>1. \A k \in Keys : outbox'[k] = outbox[k]
        BY Zenon, <2>2, <2>4
      <3>2. \A k \in Keys : Quiet(k) /\ AttemptStep(k)
        BY <3>1 DEF Quiet, AttemptStep
      <3> QED  BY <1>t, <1>1, <1>2, <1>5, <3>1, <3>2, ClaimHand
    <2> QED  BY Zenon, <2>3, <2>4
  <1> QED  BY Zenon, <1>1, <1>6, <1>7

-----------------------------------------------------------------------------
\* The claim invariant holds at the start.
LEMMA InitClaim == Init => ClaimInv
  <1> SUFFICES ASSUME Init PROVE ClaimInv
    BY Zenon
  <1>1. TypeInv
    BY Zenon, InitTypes
  <1>2. budget = Limits /\ up /\ \A w \in Workers : worker[w] = Idle
    BY Zenon DEF Init
  <1>3. \A w \in Workers : worker[w].pc = "idle" /\ worker[w].todo = {} /\ worker[w].left = {}
    BY <1>2 DEF Idle
  <1>4. Hands /\ Held /\ Alone
    BY Zenon, <1>2, <1>3 DEF Hands, Held, Alone, InFlight
  <1>5. MaxAttempts \in Nat /\ MaxAttempts # 0 /\ Limits.crashes \in Nat
    BY Zenon, FanoutAssumption
  <1>6. \A k \in Keys : outbox[k].attempts = 0 /\ outbox[k].status = "absent"
    BY Zenon DEF Init, Absent
  <1>7. Tried
    BY <1>2, <1>5, <1>6 DEF Tried, Allowed, Waiting
  <1> QED  BY <1>1, <1>2, <1>4, <1>5, <1>7 DEF ClaimInv

\* Every step without a forced rehydrate keeps the claim invariant, and leaves succeeded rows succeeded.
LEMMA NextClaim ==
    ClaimInv /\ Unforced /\ Unforced' /\ [Next]_vars => ClaimInv' /\ [SucceededStays]_vars
  <1> SUFFICES ASSUME ClaimInv, Unforced, Unforced', [Next]_vars PROVE ClaimInv' /\ [SucceededStays]_vars
    BY Zenon
  <1>1. CASE UNCHANGED vars
    BY <1>1 DEF vars, source, ClaimInv, TypeInv, TypeOK, Carried, Hands, Held, Alone, Tried, Allowed,
                InFlight, RowOf
  <1>2. ASSUME NEW w \in Workers, NEW j \in worker[w].left, NEW o \in Errors \cup {"ok"}, mark_raises(w, j, o)
        PROVE  FALSE
    <2>1. Spend("dbErrors") /\ TypeOK
      BY <1>2 DEF mark_raises, ClaimInv, TypeInv
    <2>2. budget'["dbErrors"] = budget["dbErrors"] - 1 /\ budget["dbErrors"] \in Nat
      BY Zenon, <2>1, SpendFacts
    <2>3. budget'["dbErrors"] = budget["dbErrors"]
      BY Zenon DEF Unforced
    <2> QED  BY <2>2, <2>3
  <1>3. CASE \E w \in Workers : WorkerStep(w)
    BY Zenon, <1>3, ClaimClaim, ClaimPush, ClaimMark DEF WorkerStep
  <1>4. CASE Write \/ Backfill \/ Delete \/ crash \/ start_background_tasks
    BY Zenon, <1>4, ClaimWrite, ClaimBackfill, ClaimDelete, ClaimCrash
  <1> QED  BY <1>1, <1>2, <1>3, <1>4 DEF Next

\* As long as nothing is requeued by force and no mark fails, claim_fanout_batch hands a row to
\* one worker only, whatever coalescing, kill switch trips, deletions, crashes and restarts do.
THEOREM ExclusiveClaims == Spec /\ []Unforced => []ClaimExclusive
  <1>1. ClaimInv => ClaimExclusive
    BY Zenon DEF ClaimInv, Alone, ClaimExclusive
  <1> QED  BY <1>1, InitClaim, NextClaim, PTL DEF Spec

\* Under the same conditions a row is pushed at most FANOUT_MAX_ATTEMPTS times, and once more
\* for every crash: mark_fanout_retry decides by the claimed copy's count, which is the row's.
THEOREM BoundedAttempts == Spec /\ []Unforced => []AttemptsBounded
  <1>1. ClaimInv => AttemptsBounded
    BY Zenon DEF ClaimInv, Tried, Allowed, AttemptsBounded
  <1> QED  BY <1>1, InitClaim, NextClaim, PTL DEF Spec

\* Under the same conditions a delivered row stays delivered until it is deleted: no late mark,
\* kill switch trip or restart brings it back.
THEOREM DeliveredOnce == Spec /\ []Unforced => SucceededIsFinal
  BY InitClaim, NextClaim, PTL DEF Spec, SucceededIsFinal

=============================================================================

--------------------------- MODULE TaskQueueProofs ---------------------------
(***************************************************************************)
(* Proofs, for every number of tasks, workers and operators and every set  *)
(* of API requests, of the safety properties of TaskQueue.                 *)
(*                                                                         *)
(* All of them follow from one inductive invariant, IInv.  It adds to the  *)
(* properties what the handlers between their SELECT and their UPDATE      *)
(* still know of the row they read, and which workers can still hold the   *)
(* latest claim of a task.                                                 *)
(***************************************************************************)
EXTENDS TaskQueue, TLAPS

-----------------------------------------------------------------------------
(* The inductive invariant *)

\* Tasks in the hands of workers and handlers exist.
Known ==
    /\ \A w \in Workers : Executing(w) => task[worker[w].task].status # "absent"
    /\ \A c \in Callers : call[c].op # "none" =>
          /\ task[call[c].task].status # "absent"
          /\ call[c].row.status # "absent"

\* The row a handler read obeys the attempt bound of the row it will write.
Attempts ==
    /\ AttemptsBounded
    /\ \A c \in Callers : call[c].op # "none" =>
          /\ call[c].row.attempts <= call[c].row.max
          /\ call[c].row.max = task[call[c].task].max

\* A worker reports on the task it executes, by a retry or a terminal status.
Reports ==
    \A w \in Workers : call[w].op # "none" =>
        /\ call[w].task = worker[w].task
        /\ call[w].op = "retry" \/ (call[w].op = "update" /\ call[w].arg.status \in {"succeeded", "failed"})

\* Claims of a task are numbered apart, up to the latest.
Claims ==
    /\ \A t \in Tasks : elapsed[t] <= epoch[t]
    /\ \A w \in Workers : Executing(w) => worker[w].epoch <= epoch[worker[w].task]
    /\ \A v, w \in Workers :
          Executing(v) /\ Executing(w) /\ worker[v].task = worker[w].task
          /\ worker[v].epoch = worker[w].epoch => v = w

Unclaimable(r) == r.status = "running" \/ r.status \in TASK_TERMINAL_STATUSES

Holds(w, t) == Executing(w) /\ worker[w].task = t /\ worker[w].epoch > elapsed[t]

\* Until a foreign write, an unexpired claim is the latest one, and the row cannot be
\* claimed: it is running, or its holder's success is in and a failure report follows.
Leases ==
    \A t \in Tasks : interfered[t] \/
        /\ task[t].status = "running" => task[t].lease = epoch[t]
        /\ task[t].completed <=> task[t].status \in TASK_TERMINAL_STATUSES
        /\ \A w \in Workers : Holds(w, t) => worker[w].epoch = epoch[t] /\ Unclaimable(task[t])

IInv == TypeOK /\ Known /\ ApprovedBeforeRun /\ Attempts /\ Reports /\ Claims /\ Leases

-----------------------------------------------------------------------------
(* Rows *)

\* The row of a task that does not exist is well formed and within its bounds.
LEMMA AbsentFacts ==
    /\ Absent \in Row
    /\ Absent.status = "absent" /\ Absent.attempts = 0 /\ Absent.max = 1
    /\ ~Absent.completed
  BY TaskQueueAssumption DEF Absent, Row, NoLease

\* max_attempts is at least one.
LEMMA CappedFacts == \A m \in AttemptLimits : CappedMaxAttempts(m) \in Nat \ {0}
  BY TaskQueueAssumption DEF CappedMaxAttempts

\* What every handler's UPDATE keeps of the row it writes to: the approval
\* requirement, a given approval and max_attempts; attempts are kept, reset or
\* those of the copy; the row still exists if the copy did.
LEMMA WrittenRowFacts ==
    ASSUME NEW cur \in Row, NEW c \in Call, c.op # "none"
    PROVE  /\ WrittenRow(cur, c) \in Row
           /\ WrittenRow(cur, c).max = cur.max
           /\ WrittenRow(cur, c).needs = cur.needs
           /\ cur.approved => WrittenRow(cur, c).approved
           /\ WrittenRow(cur, c).attempts \in {cur.attempts, c.row.attempts, 0}
           /\ c.row.status # "absent" => WrittenRow(cur, c).status # "absent"
  <1>t. /\ c.row \in Row /\ c.row.lease \in Nat
        /\ c.arg.status \in Statuses
        /\ "absent" \notin Statuses /\ {"queued", "failed"} \subseteq Statuses
    BY DEF Call, Row, Statuses, TASK_TERMINAL_STATUSES, TASK_MUTABLE_STATUSES
  <1>1. CASE c.op = "update"
    <2> DEFINE s == c.arg.status
               d == IF c.arg.later THEN FALSE ELSE s \in {"queued", "approved"} \/ c.row.due
               l == IF s = "running" THEN c.row.lease ELSE NoLease
               f == s \in TASK_TERMINAL_STATUSES \/ c.row.completed
    <2>1. WrittenRow(cur, c) = [cur EXCEPT !.status = s, !.due = d, !.lease = l, !.completed = f]
      BY <1>1 DEF WrittenRow, UpdatedRow
    <2>2. d \in BOOLEAN /\ f \in BOOLEAN
      BY Zenon DEF Call, Row
    <2>3. l \in Nat
      BY <1>t DEF NoLease
    <2> HIDE DEF s, d, l, f
    <2>4. s \in Statuses
      BY <1>t DEF s
    <2>5. WrittenRow(cur, c) \in Row
      BY Zenon, <2>1, <2>2, <2>3, <2>4, <1>t DEF Row
    <2>6. /\ WrittenRow(cur, c).max = cur.max
         /\ WrittenRow(cur, c).attempts = cur.attempts
         /\ WrittenRow(cur, c).status # "absent"
      BY <2>1, <2>2, <2>3, <2>4, <1>t DEF Row
    <2>7. /\ WrittenRow(cur, c).needs = cur.needs
         /\ WrittenRow(cur, c).approved = cur.approved
      BY <2>1, <2>2, <2>3, <2>4 DEF Row
    <2> QED  BY <2>5, <2>6, <2>7
  <1>2. CASE c.op = "approve"
    BY Zenon, <1>2 DEF WrittenRow, ApprovedRow, Call, Row, Statuses, TASK_MUTABLE_STATUSES
  <1>3. CASE c.op = "replay"
    BY <1>3 DEF WrittenRow, ReplayedRow, Call, Row, NoLease, Statuses, TASK_MUTABLE_STATUSES
  <1>4. CASE c.op = "retry"
    <2> DEFINE x == c.row.attempts >= c.row.max
               s == IF x THEN "failed" ELSE "queued"
               d == x /\ c.row.due
    <2>1. WrittenRow(cur, c) = [cur EXCEPT !.status = s, !.due = d, !.lease = NoLease, !.completed = x]
      BY <1>4 DEF WrittenRow, RetriedRow
    <2>2. x \in BOOLEAN /\ d \in BOOLEAN /\ NoLease \in Nat
      BY DEF Call, Row, NoLease
    <2>3. s \in Statuses
      BY <1>t
    <2> HIDE DEF s, d, x
    <2>4. WrittenRow(cur, c) \in Row
      BY <2>1, <2>2, <2>3, <1>t DEF Row
    <2>5. /\ WrittenRow(cur, c).max = cur.max
         /\ WrittenRow(cur, c).attempts = cur.attempts
         /\ WrittenRow(cur, c).status # "absent"
      BY <2>1, <2>2, <2>3, <1>t DEF Row
    <2>6. /\ WrittenRow(cur, c).needs = cur.needs
         /\ WrittenRow(cur, c).approved = cur.approved
      BY <2>1, <2>2, <2>3 DEF Row
    <2> QED  BY <2>4, <2>5, <2>6
  <1> QED  BY <1>1, <1>2, <1>3, <1>4 DEF Call, Ops

\* A worker's report takes the row out of "running", and sets completed_at
\* exactly when it makes it terminal.
LEMMA ReportedRowFacts ==
    ASSUME NEW cur \in Row, NEW c \in Call,
           c.op = "retry" \/ (c.op = "update" /\ c.arg.status \in {"succeeded", "failed"})
    PROVE  /\ WrittenRow(cur, c).status # "running"
           /\ WrittenRow(cur, c).completed <=> WrittenRow(cur, c).status \in TASK_TERMINAL_STATUSES
  BY Zenon DEF WrittenRow, UpdatedRow, RetriedRow, Call, Row, TASK_TERMINAL_STATUSES

-----------------------------------------------------------------------------
(* The initial states *)

\* The tables and the workers start within the invariant.
LEMMA InitIInv == Init => IInv
  <1> SUFFICES ASSUME Init PROVE IInv
    BY Zenon
  <1> USE AbsentFacts
  <1>1. NoCall \in Call /\ NoCall.op = "none"
    BY DEF NoCall, Call, NoArg, Statuses, TASK_MUTABLE_STATUSES
  <1>2. \A w \in Workers : w \in Callers /\ ~Executing(w) /\ worker[w].pc = "idle"
    BY DEF Init, Idle, Executing, Callers
  <1>3. TypeOK
    <2>1. task \in [Tasks -> Row] /\ call \in [Callers -> Call]
      BY <1>1 DEF Init
    <2>2. /\ worker \in [Workers -> [pc : {"idle", "polled", "running", "reporting", "dead"},
                                     task : Tasks \cup {NoTask}, epoch : Nat]]
          /\ epoch \in [Tasks -> Nat] /\ elapsed \in [Tasks -> Nat]
          /\ interfered \in [Tasks -> BOOLEAN] /\ handed \in [Tasks -> Nat]
      BY DEF Init, Idle
    <2>3. budget \in [calls : Nat, errors : Nat, restarts : Nat]
      BY TaskQueueAssumption DEF Init
    <2>4. \A c \in Callers : call[c].op = "none"
      BY <1>1 DEF Init
    <2> QED  BY <1>2, <2>1, <2>2, <2>3, <2>4 DEF TypeOK
  <1>4. \A c \in Callers : call[c].op = "none"
    BY <1>1 DEF Init
  <1>5. Known /\ ApprovedBeforeRun /\ Reports
    BY <1>2, <1>4 DEF Known, ApprovedBeforeRun, Reports
  <1>6. Attempts
    BY <1>4 DEF Init, Attempts, AttemptsBounded
  <1>7. Claims
    BY <1>2 DEF Init, Claims
  <1>8. Leases
    BY <1>2 DEF Init, Leases, Holds, TASK_TERMINAL_STATUSES
  <1> QED  BY <1>3, <1>5, <1>6, <1>7, <1>8 DEF IInv

-----------------------------------------------------------------------------
(* Steps that change no row *)

\* A lease that expires takes its claim out of the live ones, nothing else.
LEMMA DeadlineStep ==
    ASSUME IInv, NEW t \in Tasks, lease_deadline_passes(t)
    PROVE  IInv'
  <1> USE DEF IInv, lease_deadline_passes
  <1>1. TypeOK'
    BY DEF TypeOK, Executing
  <1>2. Known' /\ ApprovedBeforeRun' /\ Attempts' /\ Reports'
    BY DEF Known, ApprovedBeforeRun, Attempts, AttemptsBounded, Reports, Executing
  <1>3. Claims'
    BY DEF Claims, Executing, TypeOK
  <1>4. Leases'
    BY DEF Leases, Holds, Executing, TypeOK
  <1> QED  BY <1>1, <1>2, <1>3, <1>4

\* A poll that finds no claimable task leaves the worker idle.
LEMMA ClaimNothingStep ==
    ASSUME IInv, NEW w \in Workers, claim_nothing(w)
    PROVE  IInv'
  <1> USE DEF IInv, claim_nothing, Idle
  <1>1. TypeOK'
    BY Zenon DEF TypeOK, Executing
  <1>2. Known' /\ ApprovedBeforeRun' /\ Attempts' /\ Reports'
    BY DEF Known, ApprovedBeforeRun, Attempts, AttemptsBounded, Reports, Executing, TypeOK, Callers
  <1>3. Claims'
    BY DEF Claims, Executing, TypeOK
  <1>4. Leases'
    BY DEF Leases, Holds, Executing, TypeOK
  <1> QED  BY <1>1, <1>2, <1>3, <1>4

\* A row as a handler reads it is well formed and exists.
LEMMA ReadingFacts ==
    ASSUME TypeOK, NEW t \in Tasks, NEW op \in Ops,
           NEW arg \in [status : Statuses, later : BOOLEAN, reset : BOOLEAN]
    PROVE  /\ Reading(op, t, arg) \in Call
           /\ Reading(op, t, arg).op = op /\ op # "none"
           /\ Reading(op, t, arg).task = t
           /\ Reading(op, t, arg).row = task[t]
           /\ Reading(op, t, arg).arg = arg
  BY DEF Reading, Call, TypeOK, Ops

\* No call is in progress in NoCall.
LEMMA NoCallFacts == NoCall \in Call /\ NoCall.op = "none"
  BY AbsentFacts DEF NoCall, Call, NoArg, Statuses, TASK_MUTABLE_STATUSES

\* A worker that starts a report reads the row of the task it executes.
LEMMA ReportStep ==
    ASSUME IInv, NEW w \in Workers, NEW op, NEW arg, Report(w, op, arg),
           arg \in [status : Statuses, later : BOOLEAN, reset : BOOLEAN],
           op = "retry" \/ (op = "update" /\ arg.status \in {"succeeded", "failed"})
    PROVE  IInv'
  <1> USE DEF IInv, Report, Callers
  <1>a. worker[w].task \in Tasks /\ op \in Ops /\ Executing(w)
    BY DEF TypeOK, Executing, Ops
  <1>b. /\ Reading(op, worker[w].task, arg) \in Call
        /\ Reading(op, worker[w].task, arg).op = op /\ op # "none"
        /\ Reading(op, worker[w].task, arg).task = worker[w].task
        /\ Reading(op, worker[w].task, arg).row = task[worker[w].task]
        /\ Reading(op, worker[w].task, arg).arg = arg
    BY <1>a, ReadingFacts
  <1>1. TypeOK'
    BY <1>a, <1>b DEF TypeOK, Executing
  <1>2. Known'
    BY <1>a, <1>b DEF Known, Executing, TypeOK, Callers
  <1>3. ApprovedBeforeRun'
    BY Zenon, <1>a, <1>b DEF ApprovedBeforeRun, Executing, TypeOK
  <1>4. Attempts'
    BY Zenon, <1>a, <1>b DEF Attempts, AttemptsBounded, TypeOK
  <1>5. Reports'
    BY <1>a, <1>b DEF Reports, TypeOK, Callers
  <1>6. Claims'
    BY <1>a, <1>b DEF Claims, Executing, TypeOK
  <1>7. Leases'
    BY <1>a, <1>b DEF Leases, Holds, Executing, TypeOK
  <1> QED  BY <1>1, <1>2, <1>3, <1>4, <1>5, <1>6, <1>7

\* An external runner that vanishes only takes its claim with it.
LEMMA GivesUpStep ==
    ASSUME IInv, NEW w \in Workers, external_gives_up(w)
    PROVE  IInv'
  <1> USE DEF IInv, external_gives_up, Idle, Callers
  <1>1. TypeOK'
    BY Zenon, NoCallFacts DEF TypeOK, Executing
  <1>2. Known'
    BY NoCallFacts DEF Known, Executing, TypeOK, Callers
  <1>3. ApprovedBeforeRun'
    BY Zenon, NoCallFacts DEF ApprovedBeforeRun, Executing, TypeOK
  <1>4. Attempts'
    BY Zenon, NoCallFacts DEF Attempts, AttemptsBounded, TypeOK
  <1>5. Reports'
    BY NoCallFacts DEF Reports, TypeOK, Callers
  <1>6. Claims'
    BY NoCallFacts DEF Claims, Executing, TypeOK
  <1>7. Leases'
    BY NoCallFacts DEF Leases, Holds, Executing, TypeOK
  <1> QED  BY Zenon, <1>1, <1>2, <1>3, <1>4, <1>5, <1>6, <1>7

\* A success report that raises becomes a retry of the same task.
LEMMA UpdateRaisesStep ==
    ASSUME IInv, NEW w \in Workers, update_raises(w)
    PROVE  IInv'
  <1> USE DEF IInv, update_raises, Callers
  <1>a. worker[w].task \in Tasks /\ Executing(w)
    BY DEF TypeOK, Executing
  <1>b. NoArg \in [status : Statuses, later : BOOLEAN, reset : BOOLEAN] /\ "retry" \in Ops
    BY DEF NoArg, Ops, Statuses, TASK_MUTABLE_STATUSES
  <1>c. /\ Reading("retry", worker[w].task, NoArg) \in Call
        /\ Reading("retry", worker[w].task, NoArg).op = "retry"
        /\ Reading("retry", worker[w].task, NoArg).task = worker[w].task
        /\ Reading("retry", worker[w].task, NoArg).row = task[worker[w].task]
    BY <1>a, <1>b, ReadingFacts
  <1>1. TypeOK'
    BY <1>a, <1>c DEF TypeOK, Executing
  <1>2. Known'
    BY <1>a, <1>c DEF Known, Executing, TypeOK, Callers
  <1>3. ApprovedBeforeRun'
    BY Zenon, <1>a, <1>c DEF ApprovedBeforeRun, Executing, TypeOK
  <1>4. Attempts'
    BY <1>a, <1>c DEF Attempts, AttemptsBounded, TypeOK
  <1>5. Reports'
    BY <1>a, <1>c DEF Reports, TypeOK, Callers
  <1>6. Claims'
    BY <1>a, <1>c DEF Claims, Executing, TypeOK
  <1>7. Leases'
    BY <1>a, <1>c DEF Leases, Holds, Executing, TypeOK
  <1> QED  BY <1>1, <1>2, <1>3, <1>4, <1>5, <1>6, <1>7

\* A success report that raises before its transaction becomes a failure report.
LEMMA ReportUnansweredStep ==
    ASSUME IInv, NEW w \in Workers, report_unanswered(w)
    PROVE  IInv'
  <1> USE DEF IInv, Callers
  <1>a. worker[w].task \in Tasks /\ Executing(w)
    BY DEF TypeOK, Executing, report_unanswered
  <1> DEFINE arg == [NoArg EXCEPT !.status = "failed"]
  <1>b. /\ arg \in [status : Statuses, later : BOOLEAN, reset : BOOLEAN]
        /\ arg.status = "failed" /\ "update" \in Ops
    BY Zenon DEF NoArg, Ops, Statuses, TASK_TERMINAL_STATUSES
  <1> HIDE DEF arg
  <1> DEFINE nc == Reading("update", worker[w].task, arg)
  <1>c. /\ nc \in Call /\ nc.op = "update" /\ nc.task = worker[w].task
        /\ nc.row = task[worker[w].task] /\ nc.arg = arg
    BY <1>a, <1>b, ReadingFacts
  <1>d. /\ call' = [call EXCEPT ![w] = nc] /\ call[w].op = "update"
        /\ UNCHANGED <<task, worker, epoch, elapsed, interfered, handed, budget>>
    BY DEF report_unanswered, arg
  <1> HIDE DEF nc
  <1>1. TypeOK'
    BY <1>a, <1>c, <1>d DEF TypeOK, Executing
  <1>2. Known'
    BY Zenon, <1>a, <1>c, <1>d DEF Known, Executing, TypeOK, Callers
  <1>3. ApprovedBeforeRun'
    BY Zenon, <1>a, <1>c, <1>d DEF ApprovedBeforeRun, Executing, TypeOK
  <1>4. Attempts'
    BY Zenon, <1>a, <1>c, <1>d DEF Attempts, AttemptsBounded, TypeOK
  <1>5. Reports'
    BY <1>a, <1>b, <1>c, <1>d DEF Reports, TypeOK, Callers
  <1>6. Claims'
    BY Zenon, <1>a, <1>c, <1>d DEF Claims, Executing, TypeOK
  <1>7. Leases'
    BY <1>a, <1>c, <1>d DEF Leases, Holds, Executing, TypeOK
  <1> QED  BY <1>1, <1>2, <1>3, <1>4, <1>5, <1>6, <1>7

\* A retry that raises ends its worker; the row keeps its lease.
LEMMA RetryRaisesStep ==
    ASSUME IInv, NEW w \in Workers, retry_raises(w)
    PROVE  IInv'
  <1> USE DEF IInv, retry_raises, Idle, Callers
  <1>1. TypeOK'
    BY NoCallFacts DEF TypeOK, Executing
  <1>2. Known'
    BY Zenon, NoCallFacts DEF Known, Executing, TypeOK, Callers
  <1>3. ApprovedBeforeRun'
    BY NoCallFacts DEF ApprovedBeforeRun, Executing, TypeOK
  <1>4. Attempts'
    BY Zenon, NoCallFacts DEF Attempts, AttemptsBounded, TypeOK
  <1>5. Reports'
    BY NoCallFacts DEF Reports, TypeOK, Callers
  <1>6. Claims'
    BY NoCallFacts DEF Claims, Executing, TypeOK
  <1>7. Leases'
    BY NoCallFacts DEF Leases, Holds, Executing, TypeOK
  <1> QED  BY Zenon, <1>1, <1>2, <1>3, <1>4, <1>5, <1>6, <1>7

\* The SELECT of an API handler copies a row within its bounds.
LEMMA OperatorRequestStep ==
    ASSUME IInv, NEW o \in Operators, NEW t \in Tasks, NEW r \in OperatorRequests,
           operator_request(o, t, r)
    PROVE  IInv'
  <1> USE DEF IInv, operator_request, Callers
  <1> DEFINE arg == [status |-> r.status, later |-> r.later, reset |-> r.reset]
  <1>a. o \notin Workers /\ arg \in [status : Statuses, later : BOOLEAN, reset : BOOLEAN] /\ r.op \in Ops
    BY TaskQueueAssumption DEF Requests
  <1> HIDE DEF arg
  <1>b. /\ Reading(r.op, t, arg) \in Call
        /\ Reading(r.op, t, arg).op = r.op /\ r.op # "none"
        /\ Reading(r.op, t, arg).task = t
        /\ Reading(r.op, t, arg).row = task[t]
    BY <1>a, ReadingFacts
  <1>c. call' = [call EXCEPT ![o] = Reading(r.op, t, arg)]
    BY Zenon DEF arg
  <1>1. TypeOK'
    BY <1>a, <1>b, <1>c DEF TypeOK, Executing
  <1>2. Known'
    BY <1>a, <1>b, <1>c DEF Known, Executing, TypeOK, Callers
  <1>3. ApprovedBeforeRun'
    BY Zenon, <1>a, <1>b, <1>c DEF ApprovedBeforeRun, Executing, TypeOK
  <1>4. Attempts'
    BY <1>a, <1>b, <1>c DEF Attempts, AttemptsBounded, TypeOK
  <1>5. Reports'
    BY <1>a, <1>b, <1>c DEF Reports, TypeOK, Callers
  <1>6. Claims'
    BY <1>a, <1>b, <1>c DEF Claims, Executing, TypeOK
  <1>7. Leases'
    BY <1>a, <1>b, <1>c DEF Leases, Holds, Executing, TypeOK
  <1> QED  BY <1>1, <1>2, <1>3, <1>4, <1>5, <1>6, <1>7

\* A restart forgets handlers and in-process workers, never rows.
LEMMA RestartStep ==
    ASSUME IInv, orchestrator_restart
    PROVE  IInv'
  <1> USE DEF IInv, orchestrator_restart, Idle, Callers
  <1>1. TypeOK'
    BY NoCallFacts DEF TypeOK, Executing
  <1>2. Known'
    BY Zenon, NoCallFacts DEF Known, Executing, TypeOK, Callers
  <1>3. ApprovedBeforeRun'
    BY NoCallFacts DEF ApprovedBeforeRun, Executing, TypeOK
  <1>4. Attempts'
    BY NoCallFacts DEF Attempts, AttemptsBounded, TypeOK
  <1>5. Reports'
    BY NoCallFacts DEF Reports, TypeOK, Callers
  <1>6. Claims'
    BY NoCallFacts DEF Claims, Executing, TypeOK
  <1>7. Leases'
    BY NoCallFacts DEF Leases, Holds, Executing, TypeOK
  <1> QED  BY <1>1, <1>2, <1>3, <1>4, <1>5, <1>6, <1>7

-----------------------------------------------------------------------------
(* Steps that change rows *)

\* r and q differ at most in status, due and lease.
SameButTiming(r, q) ==
    /\ q.attempts = r.attempts /\ q.max = r.max
    /\ q.needs = r.needs /\ q.approved = r.approved /\ q.completed = r.completed

\* run_after passing changes nothing a claim or a lease depends on.
LEMMA DueFacts ==
    ASSUME NEW r \in Row
    PROVE  LET q == [r EXCEPT !.due = TRUE]
           IN  q \in Row /\ q.status = r.status /\ q.lease = r.lease /\ SameButTiming(r, q)
  BY Zenon DEF Row, SameButTiming

\* A recovered row is queued again, with its attempts and its approval.
LEMMA RecoveredFacts ==
    ASSUME NEW r \in Row
    PROVE  /\ RecoveredRow(r) \in Row
           /\ RecoveredRow(r).status = "queued"
           /\ SameButTiming(r, RecoveredRow(r))
  BY Zenon DEF Row, SameButTiming, RecoveredRow, NoLease, Statuses, TASK_MUTABLE_STATUSES

\* Reaching run_after preserves the invariant.
LEMMA RunAfterStep ==
    ASSUME IInv, NEW t \in Tasks, run_after_reached(t)
    PROVE  IInv'
  <1> USE DEF IInv, run_after_reached
  <1>a. task' = [task EXCEPT ![t] = [task[t] EXCEPT !.due = TRUE]] /\ task \in [Tasks -> Row] /\ task[t] \in Row
    BY DEF TypeOK
  <1> PICK q \in Row : /\ task' = [task EXCEPT ![t] = q] /\ SameButTiming(task[t], q)
                       /\ q.status = task[t].status /\ q.lease = task[t].lease
    BY Zenon, <1>a, DueFacts
  <1>r. \A u \in Tasks : task'[u] = IF u = t THEN q ELSE task[u]
    BY Zenon, <1>a
  <1>b. \A u \in Tasks : SameButTiming(task[u], task'[u])
    BY Zenon, <1>r DEF SameButTiming
  <1>c. task' \in [Tasks -> Row] /\ \A u \in Tasks : task'[u].status = task[u].status /\ task'[u].lease = task[u].lease
    <2>1. task' \in [Tasks -> Row]
      BY <1>a
    <2> QED  BY Zenon, <1>r, <2>1
  <1>1. TypeOK'
    BY <1>b, <1>c DEF SameButTiming, TypeOK, Executing
  <1>2. Known'
    BY <1>b, <1>c DEF SameButTiming, Known, Executing, TypeOK, Callers
  <1>3. ApprovedBeforeRun'
    BY <1>b, <1>c DEF SameButTiming, ApprovedBeforeRun, Executing, TypeOK, Approvable
  <1>4. Attempts'
    BY <1>b, <1>c DEF SameButTiming, Attempts, AttemptsBounded, TypeOK
  <1>5. Reports'
    BY <1>b, <1>c DEF SameButTiming, Reports, TypeOK, Callers
  <1>6. Claims'
    BY Zenon, <1>b, <1>c DEF SameButTiming, Claims, Executing, TypeOK
  <1>7. Leases'
    BY <1>b, <1>c DEF SameButTiming, Leases, Holds, Executing, TypeOK, Unclaimable
  <1> QED  BY <1>1, <1>2, <1>3, <1>4, <1>5, <1>6, <1>7

\* A created row is queued and unleased, and nobody holds it yet.
LEMMA CreateStep ==
    ASSUME IInv, NEW t \in Tasks, NEW a \in Agents, NEW p \in Priorities, NEW m \in AttemptLimits,
           NEW needs \in BOOLEAN, NEW approved \in BOOLEAN, NEW due \in BOOLEAN,
           create_task_record(t, a, p, m, needs, approved, due)
    PROVE  IInv'
  <1> USE DEF IInv, create_task_record
  <1>a. CappedMaxAttempts(m) \in Nat \ {0}
    BY CappedFacts
  <1>b. /\ task' \in [Tasks -> Row]
        /\ task'[t].attempts <= task'[t].max
        /\ task'[t].status = "queued" /\ ~task'[t].completed
        /\ \A u \in Tasks \ {t} : task'[u] = task[u]
    BY <1>a DEF TypeOK, Row, NoLease, Statuses, TASK_MUTABLE_STATUSES
  <1>c. /\ \A w \in Workers : Executing(w) => worker[w].task # t
        /\ \A c \in Callers : call[c].op # "none" => call[c].task # t
    BY DEF Known
  <1>1. TypeOK'
    BY Zenon, <1>b, <1>c DEF TypeOK, Executing
  <1>2. Known'
    BY Zenon, <1>b, <1>c DEF Known, Executing, TypeOK, Callers
  <1>3. ApprovedBeforeRun'
    BY Zenon, <1>b, <1>c DEF ApprovedBeforeRun, Executing, TypeOK, Approvable
  <1>4. Attempts'
    BY Zenon, <1>b, <1>c DEF Attempts, AttemptsBounded, TypeOK
  <1>5. Reports'
    BY Zenon, <1>b, <1>c DEF Reports, TypeOK, Callers
  <1>6. Claims'
    BY Zenon, <1>b, <1>c DEF Claims, Executing, TypeOK
  <1>7. Leases'
    BY <1>b, <1>c DEF Leases, Holds, Executing, TypeOK, TASK_TERMINAL_STATUSES
  <1> QED  BY <1>1, <1>2, <1>3, <1>4, <1>5, <1>6, <1>7

\* recover_expired_task_leases only touches rows whose lease has expired.
LEMMA RecoverFacts ==
    ASSUME TypeOK, NEW limit, recover_expired_task_leases(limit)
    PROVE  /\ task' \in [Tasks -> Row]
           /\ \A u \in Tasks : SameButTiming(task[u], task'[u])
           /\ \A u \in Tasks : task'[u] = task[u] \/ (LeaseExpired(u) /\ task'[u].status = "queued")
  <1> PICK S \in SUBSET {t \in Tasks : LeaseExpired(t)} :
             task' = [t \in Tasks |-> IF t \in S THEN RecoveredRow(task[t]) ELSE task[t]]
    BY DEF recover_expired_task_leases
  <1>1. \A u \in Tasks : task[u] \in Row
    BY DEF TypeOK
  <1>2. \A u \in Tasks : SameButTiming(task[u], task[u])
    BY DEF SameButTiming
  <1> QED  BY <1>1, <1>2, RecoveredFacts

\* Recovery requeues only rows whose latest claim has expired, so no live
\* holder loses its row; both the scheduler and a claim begin with it.
LEMMA RecoverStep ==
    ASSUME IInv, NEW limit, recover_expired_task_leases(limit),
           UNCHANGED <<call, epoch, elapsed, interfered, handed, budget>>,
           \/ worker' = worker
           \/ \E w \in Workers : worker[w].pc = "idle" /\ worker' = [worker EXCEPT ![w].pc = "polled"]
    PROVE  IInv'
  <1> USE DEF IInv, SameButTiming
  <1>a. /\ task' \in [Tasks -> Row]
        /\ \A u \in Tasks : SameButTiming(task[u], task'[u])
        /\ \A u \in Tasks : task'[u] = task[u] \/ (LeaseExpired(u) /\ task'[u].status = "queued")
    BY RecoverFacts
  <1>b. /\ worker' \in [Workers -> [pc : {"idle", "polled", "running", "reporting", "dead"},
                                    task : Tasks \cup {NoTask}, epoch : Nat]]
        /\ \A w \in Workers : /\ worker'[w].pc = "reporting" <=> worker[w].pc = "reporting"
                              /\ worker'[w].task = worker[w].task /\ worker'[w].epoch = worker[w].epoch
        /\ \A w \in Workers : worker'[w].pc \in {"running", "reporting"} <=> worker[w].pc \in {"running", "reporting"}
    <2> DEFINE Hands == [pc : {"idle", "polled", "running", "reporting", "dead"}, task : Tasks \cup {NoTask}, epoch : Nat]
    <2>1. worker \in [Workers -> Hands]
      BY Zenon DEF TypeOK
    <2>2. CASE worker' = worker
      BY Zenon, <2>1, <2>2
    <2>3. ASSUME NEW w \in Workers, worker[w].pc = "idle", worker' = [worker EXCEPT ![w].pc = "polled"]
          PROVE  <1>b!1 /\ <1>b!2 /\ <1>b!3
      <3>1. PICK x \in Hands : /\ worker' = [worker EXCEPT ![w] = x] /\ x.pc = "polled"
                               /\ x.task = worker[w].task /\ x.epoch = worker[w].epoch
        <4>1. /\ [worker[w] EXCEPT !.pc = "polled"] \in Hands
              /\ worker' = [worker EXCEPT ![w] = [worker[w] EXCEPT !.pc = "polled"]]
          BY Zenon, <2>1, <2>3
        <4>2. LET x == [worker[w] EXCEPT !.pc = "polled"]
              IN  x.pc = "polled" /\ x.task = worker[w].task /\ x.epoch = worker[w].epoch
          BY Zenon, <2>1
        <4> QED  BY Zenon, <4>1, <4>2
      <3>2. \A v \in Workers : worker'[v] = IF v = w THEN x ELSE worker[v]
        BY Zenon, <2>1, <3>1
      <3>3. worker' \in [Workers -> Hands]
        BY <2>1, <3>1
      <3> QED  BY Zenon, <2>3, <3>1, <3>2, <3>3
    <2> QED  BY Zenon, <2>2, <2>3
  <1>1. TypeOK'
    BY <1>a, <1>b DEF TypeOK, Executing
  <1>c. \A u \in Tasks : task[u].status # "absent" => task'[u].status # "absent"
    BY <1>a
  <1>2. Known'
    BY <1>b, <1>c DEF Known, Executing, TypeOK, Callers
  <1>3. ApprovedBeforeRun'
    BY <1>a, <1>b DEF ApprovedBeforeRun, Executing, TypeOK, Approvable
  <1>4. Attempts'
    BY <1>a, <1>b DEF Attempts, AttemptsBounded, TypeOK
  <1>5. Reports'
    BY <1>a, <1>b DEF Reports, TypeOK, Callers
  <1>6. Claims'
    BY <1>a, <1>b DEF Claims, Executing, TypeOK
  <1>7. Leases'
    <2> SUFFICES ASSUME NEW u \in Tasks, ~interfered[u]
                 PROVE  /\ task'[u].status = "running" => task'[u].lease = epoch[u]
                        /\ task'[u].completed <=> task'[u].status \in TASK_TERMINAL_STATUSES
                        /\ \A w \in Workers : Holds(w, u)' => worker'[w].epoch = epoch[u] /\ Unclaimable(task'[u])
      BY DEF Leases
    <2>1. \A w \in Workers : Holds(w, u)' => Holds(w, u)
      BY <1>b DEF Holds, Executing
    <2>2. CASE task'[u] = task[u]
      BY <1>b, <2>1, <2>2 DEF Leases
    <2>3. CASE LeaseExpired(u) /\ task'[u].status = "queued"
      <3>1. epoch[u] <= elapsed[u] /\ task[u].status = "running"
        BY <2>3 DEF LeaseExpired, Leases
      <3>2. \A w \in Workers : ~Holds(w, u)
        BY <3>1 DEF Holds, Claims, TypeOK
      <3>3. ~task[u].completed
        BY <3>1 DEF Leases, TASK_TERMINAL_STATUSES
      <3> QED  BY <1>a, <2>1, <2>3, <3>2, <3>3 DEF TASK_TERMINAL_STATUSES
    <2> QED  BY <1>a, <2>2, <2>3
  <1> QED  BY <1>1, <1>2, <1>3, <1>4, <1>5, <1>6, <1>7

\* A claimed row is running under the new deadline, one attempt further.
LEMMA ClaimedFacts ==
    ASSUME NEW r \in Row, NEW n \in Nat
    PROVE  /\ ClaimedRow(r, n) \in Row
           /\ ClaimedRow(r, n).status = "running"
           /\ ClaimedRow(r, n).lease = n
           /\ ClaimedRow(r, n).attempts = r.attempts + 1
           /\ ClaimedRow(r, n).max = r.max
           /\ ClaimedRow(r, n).needs = r.needs
           /\ ClaimedRow(r, n).approved = r.approved
           /\ ClaimedRow(r, n).completed = r.completed
  <1> DEFINE a == r.attempts + 1
  <1>1. a \in Nat /\ "running" \in Statuses
    BY DEF Row, Statuses, TASK_MUTABLE_STATUSES
  <1>2. ClaimedRow(r, n) = [r EXCEPT !.status = "running", !.lease = n, !.attempts = a]
    BY DEF Row, ClaimedRow
  <1> HIDE DEF a
  <1>3. ClaimedRow(r, n) \in Row
    BY Zenon, <1>1, <1>2 DEF Row
  <1>4. /\ ClaimedRow(r, n).status = "running" /\ ClaimedRow(r, n).lease = n
        /\ ClaimedRow(r, n).attempts = a /\ ClaimedRow(r, n).max = r.max
    BY <1>2 DEF Row
  <1>5. /\ ClaimedRow(r, n).needs = r.needs /\ ClaimedRow(r, n).approved = r.approved
        /\ ClaimedRow(r, n).completed = r.completed
    BY <1>2 DEF Row
  <1> QED  BY <1>3, <1>4, <1>5 DEF a

\* A claim finds the row queued, so no live holder exists, and becomes the
\* latest one.
LEMMA ClaimStep ==
    ASSUME IInv, NEW w \in Workers, NEW t \in Tasks, claim_next_task(w, t)
    PROVE  IInv'
  <1> USE DEF IInv, claim_next_task
  <1>a. /\ task[t] \in Row /\ epoch[t] + 1 \in Nat
        /\ task' = [task EXCEPT ![t] = ClaimedRow(task[t], epoch[t] + 1)]
    BY DEF TypeOK
  <1>b. /\ task' \in [Tasks -> Row]
        /\ task'[t].status = "running" /\ task'[t].lease = epoch[t] + 1
        /\ task'[t].attempts = task[t].attempts + 1 /\ task'[t].max = task[t].max
        /\ task'[t].needs = task[t].needs /\ task'[t].approved = task[t].approved
        /\ task'[t].completed = task[t].completed
        /\ \A u \in Tasks : u # t => task'[u] = task[u]
    <2> DEFINE q == ClaimedRow(task[t], epoch[t] + 1)
    <2>1. /\ q \in Row /\ q.status = "running" /\ q.lease = epoch[t] + 1
          /\ q.attempts = task[t].attempts + 1 /\ q.max = task[t].max
          /\ q.needs = task[t].needs /\ q.approved = task[t].approved
          /\ q.completed = task[t].completed
      BY Zenon, <1>a, ClaimedFacts
    <2>2. task \in [Tasks -> Row] /\ task' = [task EXCEPT ![t] = q]
      BY Zenon, <1>a DEF TypeOK
    <2> HIDE DEF q
    <2> QED  BY <2>1, <2>2
  <1>c. /\ task[t].status \in {"queued", "approved"} /\ Approvable(task[t]) /\ task[t].attempts < task[t].max
    BY Zenon DEF Claimable
  <1>1. TypeOK'
    BY <1>b, <1>c DEF TypeOK, Executing
  <1>2. Known'
    BY <1>b, <1>c DEF Known, Executing, TypeOK, Callers
  <1>3. ApprovedBeforeRun'
    BY Zenon, <1>b, <1>c DEF ApprovedBeforeRun, Executing, TypeOK, Approvable
  <1>4. Attempts'
    <2>1. \A u \in Tasks : task'[u].max = task[u].max
      BY Zenon, <1>b
    <2>2. AttemptsBounded'
      BY <1>a, <1>b, <1>c DEF Attempts, AttemptsBounded, Row
    <2> QED  BY <2>1, <2>2 DEF Attempts, TypeOK
  <1>5. Reports'
    BY Zenon, <1>b, <1>c DEF Reports, TypeOK, Callers
  <1>6. Claims'
    BY <1>b, <1>c DEF Claims, Executing, TypeOK
  <1>7. Leases'
    <2> SUFFICES ASSUME NEW u \in Tasks, ~interfered[u]
                 PROVE  /\ task'[u].status = "running" => task'[u].lease = epoch'[u]
                        /\ task'[u].completed <=> task'[u].status \in TASK_TERMINAL_STATUSES
                        /\ \A v \in Workers : Holds(v, u)' => worker'[v].epoch = epoch'[u] /\ Unclaimable(task'[u])
      BY Zenon DEF Leases
    <2>1. CASE u = t
      <3>1. \A v \in Workers : v # w => ~Holds(v, t)'
        BY <1>c, <2>1 DEF Leases, Holds, Executing, TypeOK, Unclaimable, TASK_TERMINAL_STATUSES
      <3>2. ~task[t].completed
        BY Zenon, <1>c, <2>1 DEF Leases, TASK_TERMINAL_STATUSES
      <3> QED  BY <1>b, <2>1, <3>1, <3>2 DEF TypeOK, Unclaimable, TASK_TERMINAL_STATUSES
    <2>2. CASE u # t
      <3>1. \A v \in Workers : Holds(v, u)' => Holds(v, u) /\ worker'[v] = worker[v]
        BY <2>2 DEF Holds, Executing, TypeOK
      <3> QED  BY <1>b, <2>2, <3>1 DEF Leases, TypeOK
    <2> QED  BY Zenon, <2>1, <2>2
  <1> QED  BY Zenon, <1>1, <1>2, <1>3, <1>4, <1>5, <1>6, <1>7

\* An approval that finds the status it read keeps lease and completed_at, and
\* takes the row neither into nor out of "running" or a terminal status.
LEMMA ApprovedRowFacts ==
    ASSUME NEW cur \in Row, NEW row \in Row, row.status = cur.status
    PROVE  /\ ApprovedRow(cur, row).lease = cur.lease
           /\ ApprovedRow(cur, row).completed = cur.completed
           /\ ApprovedRow(cur, row).status = "running" <=> cur.status = "running"
           /\ ApprovedRow(cur, row).status \in TASK_TERMINAL_STATUSES <=> cur.status \in TASK_TERMINAL_STATUSES
  BY DEF ApprovedRow, Row, TASK_TERMINAL_STATUSES

\* A handler's write: of the latest claim it ends that claim; of anyone else
\* it is foreign, unless it is an approval that finds the status it read.
LEMMA CommitStep ==
    ASSUME IInv, NEW c \in Callers, Commit(c)
    PROVE  IInv'
  <1> USE DEF IInv, Callers
  <1> DEFINE cl == call[c]
             t  == call[c].task
             q  == WrittenRow(task[t], cl)
  <1>a. /\ cl \in Call /\ cl.op # "none" /\ t \in Tasks /\ task[t] \in Row
        /\ cl.row.attempts <= cl.row.max /\ cl.row.max = task[t].max
        /\ cl.row.status # "absent" /\ cl.row \in Row
    BY Zenon DEF Commit, TypeOK, Attempts, Known, Call
  <1>b. /\ q \in Row /\ q.max = task[t].max /\ q.needs = task[t].needs
        /\ task[t].approved => q.approved
        /\ q.attempts \in {task[t].attempts, cl.row.attempts, 0}
        /\ q.status # "absent"
    BY Zenon, <1>a, WrittenRowFacts
  <1>c. /\ task' = [task EXCEPT ![t] = q]
        /\ call' = [call EXCEPT ![c] = NoCall]
        /\ worker' = IF c \in Workers THEN [worker EXCEPT ![c] = Idle] ELSE worker
        /\ interfered' = [interfered EXCEPT ![t] = @ \/ Foreign(c, cl)]
        /\ handed' = [handed EXCEPT ![t] = IF cl.op = "replay" /\ cl.arg.reset THEN 0 ELSE @]
        /\ UNCHANGED <<epoch, elapsed, budget>>
    BY Zenon DEF Commit
  <1> HIDE DEF q
  <1>d. /\ \A u \in Tasks : u # t => task'[u] = task[u]
        /\ task'[t] = q
        /\ \A b \in Callers : b # c => call'[b] = call[b]
        /\ call'[c].op = "none"
        /\ \A w \in Workers : w # c => worker'[w] = worker[w]
        /\ \A w \in Workers : w = c => worker'[w] = Idle
    BY Zenon, <1>a, <1>c, NoCallFacts DEF TypeOK
  <1>e. \A w \in Workers : Executing(w)' => Executing(w) /\ w # c /\ worker'[w] = worker[w]
    BY <1>d DEF Executing, Idle
  <1>1. TypeOK'
    <2>1. task' \in [Tasks -> Row]
      BY Zenon, <1>b, <1>c DEF TypeOK
    <2>2. call' \in [Callers -> Call]
      BY Zenon, <1>c, NoCallFacts DEF TypeOK
    <2>3. worker' \in [Workers -> [pc : {"idle", "polled", "running", "reporting", "dead"},
                                   task : Tasks \cup {NoTask}, epoch : Nat]]
      BY <1>c DEF TypeOK, Idle
    <2>4. interfered' \in [Tasks -> BOOLEAN]
      <3>1. (interfered[t] \/ Foreign(c, cl)) \in BOOLEAN
        BY Zenon
      <3> QED  BY <1>a, <1>c, <3>1, Zenon DEF TypeOK
    <2>5. /\ handed' \in [Tasks -> Nat]
          /\ epoch' \in [Tasks -> Nat] /\ elapsed' \in [Tasks -> Nat]
          /\ budget' \in [calls : Nat, errors : Nat, restarts : Nat]
      BY Zenon, <1>c DEF TypeOK
    <2>6. \A b \in Callers : call'[b].op # "none" => call'[b].task \in Tasks
      BY Zenon, <1>d DEF TypeOK
    <2>7. \A w \in Workers : Executing(w)' => worker'[w].task \in Tasks
      BY <1>e DEF TypeOK
    <2>8. \A w \in Workers : worker'[w].pc = "reporting" <=> call'[w].op # "none"
      BY <1>d DEF TypeOK, Idle
    <2> QED  BY Zenon, <2>1, <2>2, <2>3, <2>4, <2>5, <2>6, <2>7, <2>8 DEF TypeOK
  <1>2. Known'
    <2>1. \A u \in Tasks : task[u].status # "absent" => task'[u].status # "absent"
      BY Zenon, <1>b, <1>d
    <2>2. \A w \in Workers : Executing(w)' => task'[worker'[w].task].status # "absent"
      BY Zenon, <1>e, <2>1 DEF Known, TypeOK
    <2>3. \A b \in Callers : call'[b].op # "none" =>
             task'[call'[b].task].status # "absent" /\ call'[b].row.status # "absent"
      BY Zenon, <1>d, <2>1 DEF Known, TypeOK
    <2> QED  BY Zenon, <2>2, <2>3 DEF Known
  <1>3. ApprovedBeforeRun'
    <2>1. \A u \in Tasks : Approvable(task[u]) => Approvable(task'[u])
      BY Zenon, <1>b, <1>d DEF Approvable
    <2>2. \A w \in Workers : Executing(w)' =>
             Executing(w) /\ worker'[w].task = worker[w].task /\ worker[w].task \in Tasks
      BY Zenon, <1>e DEF TypeOK
    <2> QED  BY Zenon, <2>1, <2>2 DEF ApprovedBeforeRun
  <1>4. Attempts'
    <2>1. q.attempts <= q.max
      BY <1>a, <1>b DEF Attempts, AttemptsBounded, Row
    <2>2. AttemptsBounded'
      BY Zenon, <1>d, <2>1 DEF Attempts, AttemptsBounded
    <2>3. \A u \in Tasks : task'[u].max = task[u].max
      BY Zenon, <1>b, <1>d
    <2> QED  BY <1>d, <2>2, <2>3 DEF Attempts, TypeOK
  <1>5. Reports'
    BY Zenon, <1>d DEF Reports
  <1>6. Claims'
    BY Zenon, <1>c, <1>e DEF Claims
  <1>7. Leases'
    <2> SUFFICES ASSUME NEW u \in Tasks, ~interfered'[u]
                 PROVE  /\ task'[u].status = "running" => task'[u].lease = epoch[u]
                        /\ task'[u].completed <=> task'[u].status \in TASK_TERMINAL_STATUSES
                        /\ \A w \in Workers : Holds(w, u)' => worker'[w].epoch = epoch[u] /\ Unclaimable(task'[u])
      BY <1>c DEF Leases
    <2>1. \A w \in Workers : Holds(w, u)' => Holds(w, u) /\ w # c /\ worker'[w] = worker[w]
      BY Zenon, <1>c, <1>e DEF Holds
    <2>2. CASE u # t
      <3>1. ~interfered[u]
        BY Zenon, <1>c, <2>2 DEF TypeOK
      <3> QED  BY <1>d, <2>1, <2>2, <3>1 DEF Leases
    <2>3. CASE u = t
      <3>1. ~interfered[t] /\ ~Foreign(c, cl)
        BY <1>a, <1>c, <2>3, Zenon DEF TypeOK
      <3>2. CASE c \in Workers
        <4>1. Executing(c) /\ worker[c].task = t /\ worker[c].epoch = epoch[t]
          BY Zenon, <1>a, <3>1, <3>2 DEF TypeOK, Executing, Reports, Foreign
        <4>2. \A w \in Workers : ~Holds(w, u)'
          <5>1. \A w \in Workers : Holds(w, t) => worker[w].epoch = epoch[t]
            BY Zenon, <1>a, <3>1 DEF Leases
          <5>2. \A w \in Workers : Holds(w, t) => w = c
            BY <3>2, <4>1, <5>1 DEF Claims, Holds
          <5> QED  BY Zenon, <2>1, <2>3, <5>2
        <4>3. q.status # "running" /\ (q.completed <=> q.status \in TASK_TERMINAL_STATUSES)
          <5>1. cl.op = "retry" \/ (cl.op = "update" /\ cl.arg.status \in {"succeeded", "failed"})
            BY Zenon, <1>a, <3>2 DEF Reports
          <5>2. \A r \in Row : /\ WrittenRow(r, cl).status # "running"
                               /\ WrittenRow(r, cl).completed <=> WrittenRow(r, cl).status \in TASK_TERMINAL_STATUSES
            BY <1>a, <5>1, ReportedRowFacts
          <5> QED  BY <1>a, <5>2, Zenon DEF q
        <4> QED  BY Zenon, <1>d, <2>3, <4>2, <4>3
      <3>3. CASE c \notin Workers
        <4>1. cl.op = "approve" /\ cl.row.status = task[t].status
          BY <3>1, <3>3 DEF Foreign
        <4>2. q = ApprovedRow(task[t], cl.row)
          BY <4>1 DEF q, WrittenRow
        <4>3. /\ q.lease = task[t].lease /\ q.completed = task[t].completed
              /\ q.status = "running" <=> task[t].status = "running"
              /\ q.status \in TASK_TERMINAL_STATUSES <=> task[t].status \in TASK_TERMINAL_STATUSES
          BY Zenon, <1>a, <4>1, <4>2, ApprovedRowFacts
        <4> QED  BY <1>d, <2>1, <2>3, <3>1, <4>3 DEF Leases, Unclaimable
      <3> QED  BY <3>2, <3>3
    <2> QED  BY Zenon, <2>2, <2>3
  <1> QED  BY Zenon, <1>1, <1>2, <1>3, <1>4, <1>5, <1>6, <1>7

\* A success whose answer is lost: the row is terminal, and its claim, if it was
\* the latest, stays the only live one while the failure report is under way.
LEMMA CommitUnansweredStep ==
    ASSUME IInv, NEW c \in Workers, commit_unanswered(c)
    PROVE  IInv'
  <1> USE DEF IInv, Callers
  <1> DEFINE cl == call[c]
             t  == call[c].task
             q  == WrittenRow(task[t], cl)
             n  == [NoArg EXCEPT !.status = "failed"]
             nc == [cl EXCEPT !.row = q, !.arg = n]
  <1>a. /\ cl \in Call /\ cl.op = "update" /\ cl.arg.status = "succeeded"
        /\ t \in Tasks /\ task[t] \in Row /\ cl.row.status # "absent"
        /\ Executing(c) /\ worker[c].task = t
    BY Zenon DEF commit_unanswered, TypeOK, Known, Reports, Executing
  <1>b. /\ q \in Row /\ q.max = task[t].max /\ q.needs = task[t].needs
        /\ task[t].approved => q.approved
        /\ q.status # "absent"
    BY Zenon, <1>a, WrittenRowFacts
  <1>x. q.attempts = task[t].attempts
    BY Zenon, <1>a DEF WrittenRow, UpdatedRow, Row
  <1>y. q.status # "running" /\ (q.completed <=> q.status \in TASK_TERMINAL_STATUSES)
    BY <1>a, ReportedRowFacts
  <1>z. q.status = "succeeded"
    BY Zenon, <1>a DEF WrittenRow, UpdatedRow, Row
  <1>n. n \in [status : Statuses, later : BOOLEAN, reset : BOOLEAN] /\ n.status = "failed"
    BY Zenon DEF NoArg, Statuses, TASK_TERMINAL_STATUSES
  <1>c. /\ task' = [task EXCEPT ![t] = q]
        /\ call' = [call EXCEPT ![c] = nc]
        /\ interfered' = [interfered EXCEPT ![t] = @ \/ Foreign(c, cl)]
        /\ UNCHANGED <<worker, epoch, elapsed, handed, budget>>
    BY Zenon DEF commit_unanswered, TypeOK
  <1> HIDE DEF q, n
  <1>m. /\ nc \in Call /\ nc.op = "update" /\ nc.task = t /\ nc.row = q /\ nc.arg = n
    BY Zenon, <1>a, <1>b, <1>n DEF Call
  <1> HIDE DEF nc
  <1>d. /\ \A u \in Tasks : u # t => task'[u] = task[u]
        /\ task'[t] = q
        /\ \A b \in Callers : b # c => call'[b] = call[b]
        /\ call'[c] = nc
    BY Zenon, <1>a, <1>c DEF TypeOK
  <1>e. \A w \in Workers : Executing(w)' <=> Executing(w)
    BY Zenon, <1>c DEF Executing
  <1>1. TypeOK'
    <2>1. task' \in [Tasks -> Row] /\ call' \in [Callers -> Call]
      BY Zenon, <1>b, <1>c, <1>m DEF TypeOK
    <2>2. interfered' \in [Tasks -> BOOLEAN]
      <3>1. (interfered[t] \/ Foreign(c, cl)) \in BOOLEAN
        BY Zenon
      <3> QED  BY <1>a, <1>c, <3>1, Zenon DEF TypeOK
    <2>3. \A b \in Callers : call'[b].op # "none" => call'[b].task \in Tasks
      BY <1>a, <1>d, <1>m DEF TypeOK
    <2>4. \A w \in Workers : worker'[w].pc = "reporting" <=> call'[w].op # "none"
      BY <1>a, <1>c, <1>d, <1>m DEF TypeOK
    <2> QED  BY Zenon, <1>c, <1>e, <2>1, <2>2, <2>3, <2>4 DEF TypeOK
  <1>2. Known'
    <2>1. \A u \in Tasks : task[u].status # "absent" => task'[u].status # "absent"
      BY Zenon, <1>b, <1>d
    <2>2. \A w \in Workers : Executing(w)' => task'[worker'[w].task].status # "absent"
      BY Zenon, <1>c, <1>e, <2>1 DEF Known, TypeOK
    <2>3. \A b \in Callers : call'[b].op # "none" =>
             task'[call'[b].task].status # "absent" /\ call'[b].row.status # "absent"
      BY <1>b, <1>d, <1>m, <2>1 DEF Known, TypeOK
    <2> QED  BY Zenon, <2>2, <2>3 DEF Known
  <1>3. ApprovedBeforeRun'
    <2>1. \A u \in Tasks : Approvable(task[u]) => Approvable(task'[u])
      BY Zenon, <1>b, <1>d DEF Approvable
    <2>2. \A w \in Workers : Executing(w) => worker[w].task \in Tasks
      BY Zenon DEF TypeOK
    <2> QED  BY Zenon, <1>c, <1>e, <2>1, <2>2 DEF ApprovedBeforeRun
  <1>4. Attempts'
    <2>1. \A u \in Tasks : task'[u].max = task[u].max /\ task'[u].attempts = task[u].attempts
      BY Zenon, <1>b, <1>d, <1>x
    <2>2. AttemptsBounded'
      BY Zenon, <2>1 DEF Attempts, AttemptsBounded
    <2>3. q.attempts <= q.max
      BY Zenon, <1>a, <1>b, <1>x DEF Attempts, AttemptsBounded
    <2>4. /\ call'[c].row.attempts <= call'[c].row.max
          /\ call'[c].row.max = task'[call'[c].task].max
      BY Zenon, <1>b, <1>d, <1>m, <2>3
    <2>5. \A b \in Callers : b # c /\ call'[b].op # "none" =>
             /\ call'[b].row.attempts <= call'[b].row.max
             /\ call'[b].row.max = task'[call'[b].task].max
      BY <1>d, <2>1 DEF Attempts, TypeOK
    <2> QED  BY Zenon, <2>2, <2>4, <2>5 DEF Attempts
  <1>5. Reports'
    BY <1>a, <1>c, <1>d, <1>m, <1>n DEF Reports
  <1>6. Claims'
    BY Zenon, <1>c, <1>e DEF Claims
  <1>7. Leases'
    <2> SUFFICES ASSUME NEW u \in Tasks, ~interfered'[u]
                 PROVE  /\ task'[u].status = "running" => task'[u].lease = epoch[u]
                        /\ task'[u].completed <=> task'[u].status \in TASK_TERMINAL_STATUSES
                        /\ \A w \in Workers : Holds(w, u)' => worker[w].epoch = epoch[u] /\ Unclaimable(task'[u])
      BY Zenon, <1>c DEF Leases
    <2>1. \A w \in Workers : Holds(w, u)' => Holds(w, u)
      BY <1>c, <1>e DEF Holds
    <2>2. ~interfered[u]
      BY <1>a, <1>c, Zenon DEF TypeOK
    <2>3. CASE u # t
      BY Zenon, <1>d, <2>1, <2>2, <2>3 DEF Leases
    <2>4. CASE u = t
      <3>1. Unclaimable(q)
        BY Zenon, <1>z DEF Unclaimable, TASK_TERMINAL_STATUSES
      <3>2. \A w \in Workers : Holds(w, t) => worker[w].epoch = epoch[t]
        BY Zenon, <1>a, <2>2, <2>4 DEF Leases
      <3>3. task'[u] = q
        BY Zenon, <1>d, <2>4
      <3>4. \A w \in Workers : Holds(w, u)' => worker[w].epoch = epoch[u]
        BY <2>1, <2>4, <3>2
      <3>5. /\ task'[u].status # "running" /\ Unclaimable(task'[u])
            /\ task'[u].completed <=> task'[u].status \in TASK_TERMINAL_STATUSES
        BY <1>y, <3>1, <3>3, Zenon
      <3> QED  BY <3>4, <3>5
    <2> QED  BY <2>3, <2>4
  <1> QED  BY <1>1, <1>2, <1>3, <1>4, <1>5, <1>6, <1>7

-----------------------------------------------------------------------------
(* The theorems *)

\* Nothing changes, nothing breaks.
LEMMA StutterStep ==
    ASSUME IInv, UNCHANGED vars
    PROVE  IInv'
  BY Zenon DEF vars, IInv, TypeOK, Known, ApprovedBeforeRun, Attempts, AttemptsBounded, Reports,
         Claims, Leases, Holds, Executing

\* IInv is inductive: one step per action.
LEMMA NextIInv == IInv /\ [Next]_vars => IInv'
  <1> SUFFICES ASSUME IInv, [Next]_vars PROVE IInv'
    BY Zenon
  <1>1. CASE \E t \in Tasks : Submit(t) \/ lease_deadline_passes(t) \/ run_after_reached(t)
    BY <1>1, CreateStep, DeadlineStep, RunAfterStep DEF Submit
  <1>2. CASE task_scheduler_worker
    BY <1>2, RecoverStep DEF task_scheduler_worker
  <1>3. ASSUME NEW w \in Workers, WorkerStep(w)
        PROVE  IInv'
    <2>1. CASE claim_recover(w)
      BY Zenon, <2>1, RecoverStep DEF claim_recover
    <2>2. CASE \E t \in Tasks : claim_next_task(w, t)
      BY Zenon, <2>2, ClaimStep
    <2>3. CASE claim_nothing(w)
      BY <2>3, ClaimNothingStep
    <2>4. CASE Commit(w)
      BY <2>4, CommitStep DEF Callers
    <2> QED  BY Zenon, <1>3, <2>1, <2>2, <2>3, <2>4 DEF WorkerStep
  <1>a. \A st \in Statuses : [NoArg EXCEPT !.status = st] \in [status : Statuses, later : BOOLEAN, reset : BOOLEAN]
    BY Zenon DEF NoArg
  <1>b. /\ NoArg \in [status : Statuses, later : BOOLEAN, reset : BOOLEAN]
        /\ \A st : [NoArg EXCEPT !.status = st].status = st
        /\ {"succeeded", "failed"} \subseteq Statuses
    BY DEF NoArg, Statuses, TASK_TERMINAL_STATUSES, TASK_MUTABLE_STATUSES
  <1>4. ASSUME NEW w \in Internal, InternalStep(w) \/ update_raises(w) \/ retry_raises(w)
        PROVE  IInv'
    <2> w \in Workers
      BY DEF Workers
    <2>1. CASE agent_task_succeeds(w)
      BY <1>a, <1>b, <2>1, ReportStep DEF agent_task_succeeds
    <2>2. CASE agent_task_raises(w)
      BY <1>b, <2>2, ReportStep DEF agent_task_raises
    <2> QED  BY Zenon, <1>4, <2>1, <2>2, UpdateRaisesStep, RetryRaisesStep DEF InternalStep
  <1>5. ASSUME NEW w \in External, ExternalStep(w)
        PROVE  IInv'
    <2> w \in Workers
      BY DEF Workers
    <2>1. CASE handle_task(w)
      <3> PICK st \in {"succeeded", "failed"} : Report(w, "update", [NoArg EXCEPT !.status = st])
        BY <2>1 DEF handle_task
      <3> QED  BY <1>a, <1>b, ReportStep
    <2> QED  BY Zenon, <1>5, <2>1, GivesUpStep, ReportUnansweredStep, CommitUnansweredStep DEF ExternalStep
  <1>6. ASSUME NEW o \in Operators,
               Commit(o) \/ \E t \in Tasks, r \in OperatorRequests : operator_request(o, t, r)
        PROVE  IInv'
    BY Zenon, <1>6, CommitStep, OperatorRequestStep DEF Callers
  <1>7. CASE orchestrator_restart
    BY <1>7, RestartStep
  <1>8. CASE UNCHANGED vars
    BY <1>8, StutterStep
  <1> QED  BY Zenon, <1>1, <1>2, <1>3, <1>4, <1>5, <1>6, <1>7, <1>8 DEF Next

\* IInv holds in every reachable state.
THEOREM Invariance == Spec => []IInv
  BY InitIInv, NextIInv, PTL DEF Spec

\* The table, the workers and the handlers in progress keep their types, and a
\* worker waits for a handler exactly while one of its own is in progress.
THEOREM TypeCorrect == Spec => []TypeOK
  <1>1. IInv => TypeOK
    BY DEF IInv
  <1> QED  BY <1>1, Invariance, PTL

\* A task that needs approval is in the hands of a worker only if approved, for
\* every interleaving of claims with status, approve and replay requests.
THEOREM ApprovalGate == Spec => []ApprovedBeforeRun
  <1>1. IInv => ApprovedBeforeRun
    BY Zenon DEF IInv
  <1> QED  BY <1>1, Invariance, PTL

\* attempts never exceeds max_attempts, although a replay writes back a count it
\* read before its transaction.
THEOREM AttemptBound == Spec => []AttemptsBounded
  <1>1. IInv => AttemptsBounded
    BY Zenon DEF IInv, Attempts
  <1> QED  BY <1>1, Invariance, PTL

\* Claims and lease recovery never let two workers hold unexpired leases of one
\* task; only a foreign write to its row can.
THEOREM LeaseExclusion == Spec => []LeaseExclusive
  <1>1. IInv => LeaseExclusive
    <2> SUFFICES ASSUME IInv, NEW v \in Workers, NEW w \in Workers,
                        v # w, Executing(v), Executing(w), worker[v].task = worker[w].task,
                        worker[v].epoch > elapsed[worker[v].task],
                        worker[w].epoch > elapsed[worker[w].task],
                        ~interfered[worker[v].task]
                 PROVE  FALSE
      BY Zenon DEF LeaseExclusive
    <2>1. worker[v].task \in Tasks
      BY Zenon DEF IInv, TypeOK
    <2>2. worker[v].epoch = epoch[worker[v].task] /\ worker[w].epoch = epoch[worker[v].task]
      BY Zenon, <2>1 DEF IInv, Leases, Holds
    <2> QED  BY Zenon, <2>2 DEF IInv, Claims
  <1> QED  BY <1>1, Invariance, PTL

\* Until a foreign write, a running task carries the deadline of its latest
\* claim, and completed_at is set exactly on terminal tasks.
THEOREM RunningLease == Spec => []RunningIsLeased
  <1>1. IInv => RunningIsLeased
    BY Zenon DEF IInv, Leases, RunningIsLeased
  <1> QED  BY <1>1, Invariance, PTL

-----------------------------------------------------------------------------
(* Terminal tasks *)

\* Every step but a handler's write leaves terminal tasks terminal.
LEMMA KeepsTerminal ==
    ASSUME IInv, [Next]_vars, NEW t \in Tasks,
           task[t].status \in TASK_TERMINAL_STATUSES,
           task'[t].status \notin TASK_TERMINAL_STATUSES
    PROVE  \E c \in Callers : Commit(c) /\ call[c].task = t
  <1> USE DEF IInv
  <1>0. task'[t] # task[t] /\ task[t].status \notin {"absent", "queued", "approved", "running"}
    BY Zenon DEF TASK_TERMINAL_STATUSES
  <1>1. ASSUME NEW u \in Tasks, Submit(u) \/ lease_deadline_passes(u) \/ run_after_reached(u)
        PROVE  FALSE
    <2>1. CASE Submit(u)
      BY <1>0, <2>1 DEF Submit, create_task_record, TypeOK
    <2>2. CASE run_after_reached(u)
      <3>1. task'[t].status = task[t].status
        BY Zenon, <2>2, DueFacts DEF run_after_reached, TypeOK
      <3> QED  BY <3>1
    <2> QED  BY <1>0, <1>1, <2>1, <2>2 DEF lease_deadline_passes
  <1>2. ASSUME NEW limit, recover_expired_task_leases(limit)
        PROVE  FALSE
    BY Zenon, <1>0, <1>2, RecoverFacts DEF LeaseExpired
  <1>3. ASSUME NEW w \in Workers, NEW u \in Tasks, claim_next_task(w, u)
        PROVE  FALSE
    BY Zenon, <1>0, <1>3 DEF claim_next_task, Claimable, TypeOK
  <1>4. ASSUME NEW c \in Callers, Commit(c)
        PROVE  call[c].task = t
    BY Zenon, <1>0, <1>4 DEF Commit, TypeOK
  <1>5. ASSUME NEW w \in Workers, commit_unanswered(w)
        PROVE  FALSE
    <2>1. /\ call[w] \in Call /\ call[w].op = "update" /\ call[w].arg.status = "succeeded"
          /\ task[t] \in Row
      BY <1>5 DEF commit_unanswered, TypeOK, Callers
    <2>2. WrittenRow(task[t], call[w]).status = "succeeded"
      BY Zenon, <2>1 DEF WrittenRow, UpdatedRow, Row
    <2>3. call[w].task = t => task'[t] = WrittenRow(task[t], call[w])
      BY Zenon, <1>5 DEF commit_unanswered, TypeOK
    <2> QED  BY Zenon, <1>0, <1>5, <2>2, <2>3 DEF commit_unanswered, TypeOK, TASK_TERMINAL_STATUSES
  <1> QED
    BY Zenon, <1>0, <1>1, <1>2, <1>3, <1>4, <1>5
       DEF Next, ExternalStep, report_unanswered, Workers, vars, task_scheduler_worker, WorkerStep, claim_recover, claim_nothing, InternalStep,
           agent_task_succeeds, agent_task_raises, handle_task, Report, update_raises, retry_raises,
           external_gives_up, operator_request, orchestrator_restart, Callers

\* The worker that holds the latest claim of a task which is terminal, without a foreign write, has
\* sent its success: what it still reports is another terminal status.  No in-process worker, whose
\* next report could be a retry, is in that position.
FinalReports ==
    \A t \in Tasks, w \in Workers :
        /\ ~interfered[t] /\ task[t].status \in TASK_TERMINAL_STATUSES
        /\ Executing(w) /\ worker[w].task = t /\ worker[w].epoch = epoch[t]
        => w \in External /\ call[w].op = "update"

\* A write of the row that is not foreign comes from the only holder of its latest claim, or is an
\* approval of the status the row has.
LEMMA OwnWrites ==
    ASSUME IInv, NEW c \in Callers, call[c].op # "none", ~Foreign(c, call[c])
    PROVE  \/ /\ c \in Workers /\ Executing(c) /\ worker[c].task = call[c].task
              /\ worker[c].epoch = epoch[call[c].task]
              /\ \A v \in Workers : Executing(v) /\ worker[v].task = call[c].task
                                    /\ worker[v].epoch = epoch[call[c].task] => v = c
           \/ c \notin Workers /\ call[c].op = "approve" /\ call[c].row.status = task[call[c].task].status
  <1>1. CASE c \in Workers
    <2>1. Executing(c) /\ worker[c].task = call[c].task /\ worker[c].epoch = epoch[call[c].task]
      BY Zenon, <1>1 DEF IInv, TypeOK, Reports, Executing, Foreign
    <2>2. \A v \in Workers : Executing(v) /\ worker[v].task = call[c].task
                             /\ worker[v].epoch = epoch[call[c].task] => v = c
      <3> SUFFICES ASSUME NEW v \in Workers, Executing(v), worker[v].task = call[c].task,
                          worker[v].epoch = epoch[call[c].task]
                   PROVE  v = c
        BY Zenon
      <3>1. worker[v].task = worker[c].task /\ worker[v].epoch = worker[c].epoch
        BY Zenon, <2>1
      <3> QED  BY Zenon, <1>1, <2>1, <3>1 DEF IInv, Claims
    <2> QED  BY Zenon, <1>1, <2>1, <2>2
  <1>2. CASE c \notin Workers
    BY Zenon, <1>2 DEF Foreign
  <1> QED  BY Zenon, <1>1, <1>2

\* Steps after which a worker and its task are as before, but for a report that it started.
LEMMA NextFinalReports ==
    ASSUME IInv, FinalReports, [Next]_vars
    PROVE  FinalReports'
  <1> SUFFICES ASSUME NEW t \in Tasks, NEW w \in Workers,
                      ~interfered'[t], task'[t].status \in TASK_TERMINAL_STATUSES,
                      Executing(w)', worker'[w].task = t, worker'[w].epoch = epoch'[t]
               PROVE  w \in External /\ call'[w].op = "update"
    BY Zenon DEF FinalReports
  <1> USE DEF IInv
  <1>c. w \in Callers /\ NoCall.op = "none"
    BY Zenon, NoCallFacts DEF Callers
  \* In a state with the same row, a worker that only executes has not reported.
  <1>r. ASSUME task[t].status \in TASK_TERMINAL_STATUSES, ~interfered[t],
               Executing(w), worker[w].task = t, worker[w].epoch = epoch[t]
        PROVE  w \in External /\ call[w].op = "update" /\ worker[w].pc = "reporting"
    BY Zenon, <1>c, <1>r DEF FinalReports, TypeOK
  <1>1. ASSUME NEW u \in Tasks, Submit(u) \/ lease_deadline_passes(u) \/ run_after_reached(u)
        PROVE  w \in External /\ call'[w].op = "update"
    <2>1. UNCHANGED <<worker, call, epoch, interfered>>
      BY Zenon, <1>1 DEF Submit, create_task_record, lease_deadline_passes, run_after_reached
    <2>2. task[t].status \in TASK_TERMINAL_STATUSES
      <3>1. CASE Submit(u)
        BY <3>1 DEF Submit, create_task_record, TypeOK, TASK_TERMINAL_STATUSES
      <3>2. CASE run_after_reached(u)
        BY Zenon, <3>2, DueFacts DEF run_after_reached, TypeOK
      <3>3. CASE lease_deadline_passes(u)
        BY Zenon, <3>3 DEF lease_deadline_passes
      <3> QED  BY Zenon, <1>1, <3>1, <3>2, <3>3
    <2> QED  BY Zenon, <1>r, <2>1, <2>2 DEF Executing
  <1>2. ASSUME NEW limit, recover_expired_task_leases(limit), UNCHANGED <<call, epoch, interfered>>,
               \/ worker' = worker
               \/ \E v \in Workers : worker[v].pc = "idle" /\ worker' = [worker EXCEPT ![v].pc = "polled"]
        PROVE  w \in External /\ call'[w].op = "update"
    <2>1. task[t].status \in TASK_TERMINAL_STATUSES
      BY Zenon, <1>2, RecoverFacts DEF TASK_TERMINAL_STATUSES
    <2>2. worker'[w] = worker[w]
      BY <1>2 DEF TypeOK, Executing
    <2> QED  BY Zenon, <1>2, <1>r, <2>1, <2>2 DEF Executing
  <1>3. ASSUME NEW v \in Workers, NEW u \in Tasks, claim_next_task(v, u)
        PROVE  w \in External /\ call'[w].op = "update"
    <2>1. task[u] \in Row /\ epoch[u] + 1 \in Nat
      BY DEF TypeOK
    <2>2. task'[u].status = "running"
      <3>1. task' = [task EXCEPT ![u] = ClaimedRow(task[u], epoch[u] + 1)]
        BY Zenon, <1>3 DEF claim_next_task, TypeOK
      <3>2. ClaimedRow(task[u], epoch[u] + 1).status = "running"
        BY <2>1, ClaimedFacts
      <3> QED  BY Zenon, <3>1, <3>2 DEF TypeOK
    <2>3. t # u
      BY Zenon, <2>2 DEF TASK_TERMINAL_STATUSES
    <2>4. /\ task'[t] = task[t] /\ epoch'[t] = epoch[t] /\ UNCHANGED <<call, interfered>>
          /\ worker'[v].task = u /\ (w # v => worker'[w] = worker[w])
      BY <1>3, <2>3 DEF claim_next_task, TypeOK
    <2> QED  BY Zenon, <1>r, <2>3, <2>4 DEF Executing
  <1>4. ASSUME NEW v \in Workers, claim_nothing(v) \/ external_gives_up(v) \/ retry_raises(v)
        PROVE  w \in External /\ call'[w].op = "update"
    <2>1. /\ UNCHANGED <<task, epoch, interfered>> /\ worker'[v].pc \in {"idle", "dead"}
          /\ w # v => worker'[w] = worker[w] /\ call'[w] = call[w]
      BY <1>4, <1>c DEF claim_nothing, external_gives_up, retry_raises, Idle, TypeOK
    <2> QED  BY Zenon, <1>r, <2>1 DEF Executing
  <1>5. ASSUME NEW v \in Workers, NEW op, NEW arg, Report(v, op, arg)
        PROVE  w \in External /\ call'[w].op = "update"
    <2>1. /\ UNCHANGED <<task, epoch, interfered>> /\ worker[v].pc = "running"
          /\ worker'[v].task = worker[v].task /\ worker'[v].epoch = worker[v].epoch
          /\ w # v => worker'[w] = worker[w] /\ call'[w] = call[w]
      BY <1>5, <1>c DEF Report, TypeOK
    <2>2. w # v
      BY Zenon, <1>r, <2>1 DEF Executing
    <2> QED  BY Zenon, <1>r, <2>1, <2>2 DEF Executing
  <1>6. ASSUME NEW v \in Internal, update_raises(v)
        PROVE  w \in External /\ call'[w].op = "update"
    <2>1. UNCHANGED <<task, worker, epoch, interfered>> /\ (w # v => call'[w] = call[w])
      BY Zenon, <1>6, <1>c DEF update_raises, TypeOK
    <2>2. w \in External
      BY Zenon, <1>r, <2>1 DEF Executing
    <2>3. w # v
      BY Zenon, <2>2, TaskQueueAssumption
    <2> QED  BY Zenon, <1>r, <2>1, <2>3 DEF Executing
  <1>7. ASSUME NEW v \in External, report_unanswered(v)
        PROVE  w \in External /\ call'[w].op = "update"
    <2>1. UNCHANGED <<task, worker, epoch, interfered>> /\ (w # v => call'[w] = call[w])
      BY Zenon, <1>7, <1>c DEF report_unanswered, TypeOK
    <2>2. w = v => call'[w].op = "update"
      BY Zenon, <1>7, <1>c DEF report_unanswered, TypeOK, Reading
    <2> QED  BY Zenon, <1>r, <2>1, <2>2 DEF Executing
  <1>8. ASSUME NEW v \in External, commit_unanswered(v)
        PROVE  w \in External /\ call'[w].op = "update"
    <2> DEFINE u == call[v].task
    <2>1. v \in Workers /\ v \in Callers /\ call[v].op = "update" /\ u \in Tasks
      BY Zenon, <1>8 DEF commit_unanswered, Workers, Callers, TypeOK
    <2>2. /\ UNCHANGED <<worker, epoch>> /\ call'[v].op = "update" /\ (w # v => call'[w] = call[w])
          /\ interfered'[u] <=> interfered[u] \/ Foreign(v, call[v])
          /\ t # u => task'[t] = task[t] /\ interfered'[t] = interfered[t]
      <3>1. UNCHANGED <<worker, epoch>> /\ call'[v].op = "update" /\ (w # v => call'[w] = call[w])
        BY <1>8, <1>c, <2>1 DEF commit_unanswered, TypeOK
      <3>2. /\ interfered'[u] <=> interfered[u] \/ Foreign(v, call[v])
            /\ t # u => task'[t] = task[t] /\ interfered'[t] = interfered[t]
        BY Zenon, <1>8, <2>1 DEF commit_unanswered, TypeOK
      <3> QED  BY Zenon, <3>1, <3>2
    <2>3. CASE t = u
      <3>1. ~Foreign(v, call[v])
        BY Zenon, <2>2, <2>3
      <3>2. w = v
        BY Zenon, <2>1, <2>2, <2>3, <3>1, OwnWrites DEF Executing
      <3> QED  BY Zenon, <2>2, <3>2
    <2>4. CASE t # u
      BY Zenon, <1>r, <2>2, <2>4 DEF Executing
    <2> QED  BY Zenon, <2>3, <2>4
  <1>9. ASSUME NEW c \in Callers, Commit(c)
        PROVE  w \in External /\ call'[w].op = "update"
    <2> DEFINE u == call[c].task
    <2>1. call[c] \in Call /\ call[c].op # "none" /\ u \in Tasks
      BY Zenon, <1>9 DEF Commit, TypeOK
    <2>2. /\ epoch' = epoch /\ (w # c => call'[w] = call[w] /\ worker'[w] = worker[w])
          /\ interfered'[u] <=> interfered[u] \/ Foreign(c, call[c])
          /\ t # u => task'[t] = task[t] /\ interfered'[t] = interfered[t]
          /\ c \in Workers => worker'[c].pc = "idle"
          /\ task'[u] = WrittenRow(task[u], call[c])
      <3>1. epoch' = epoch /\ (w # c => call'[w] = call[w] /\ worker'[w] = worker[w])
        BY Zenon, <1>9, <1>c, <2>1 DEF Commit, TypeOK
      <3>2. /\ interfered'[u] <=> interfered[u] \/ Foreign(c, call[c])
            /\ t # u => task'[t] = task[t] /\ interfered'[t] = interfered[t]
            /\ task'[u] = WrittenRow(task[u], call[c])
        BY Zenon, <1>9, <2>1 DEF Commit, TypeOK
      <3>3. c \in Workers => worker'[c].pc = "idle"
        BY <1>9 DEF Commit, TypeOK, Idle
      <3> QED  BY Zenon, <3>1, <3>2, <3>3
    <2>3. w # c /\ Executing(w) /\ worker[w] = worker'[w]
      BY Zenon, <2>2 DEF Executing
    <2>4. CASE t = u
      <3>1. ~Foreign(c, call[c]) /\ ~interfered[t]
        BY Zenon, <2>2, <2>4
      <3>2. c \notin Workers /\ call[c].op = "approve" /\ call[c].row.status = task[u].status
        BY Zenon, <2>1, <2>2, <2>3, <2>4, <3>1, OwnWrites
      <3>3. task[u] \in Row /\ call[c].row \in Row
        BY Zenon, <2>1 DEF TypeOK, Call
      <3>4. task[t].status \in TASK_TERMINAL_STATUSES
        <4>1. task'[u] = ApprovedRow(task[u], call[c].row)
          BY Zenon, <2>2, <3>2 DEF WrittenRow
        <4> QED  BY <2>4, <3>2, <3>3, <4>1, ApprovedRowFacts
      <3> QED  BY Zenon, <1>r, <2>2, <2>3, <3>1, <3>4
    <2>5. CASE t # u
      BY Zenon, <1>r, <2>2, <2>3, <2>5
    <2> QED  BY Zenon, <2>4, <2>5
  <1>10. ASSUME NEW o \in Operators, NEW u \in Tasks, NEW r \in OperatorRequests, operator_request(o, u, r)
         PROVE  w \in External /\ call'[w].op = "update"
    <2>1. w # o
      BY Zenon, TaskQueueAssumption
    <2>2. UNCHANGED <<task, worker, epoch, interfered>> /\ call'[w] = call[w]
      BY Zenon, <1>10, <1>c, <2>1 DEF operator_request, TypeOK
    <2> QED  BY Zenon, <1>r, <2>2 DEF Executing
  <1>11. ASSUME orchestrator_restart
         PROVE  w \in External /\ call'[w].op = "update"
    <2>1. UNCHANGED <<task, epoch, interfered>> /\ worker[w].pc = "running" /\ worker'[w] = worker[w]
      BY Zenon, <1>11 DEF orchestrator_restart, Idle, Executing
    <2> QED  BY Zenon, <1>r, <2>1 DEF Executing
  <1>12. ASSUME UNCHANGED vars
         PROVE  w \in External /\ call'[w].op = "update"
    BY Zenon, <1>r, <1>12 DEF vars, Executing
  <1>13. ASSUME NEW v \in Workers, WorkerStep(v)
         PROVE  w \in External /\ call'[w].op = "update"
    BY Zenon, <1>13, <1>2, <1>3, <1>4, <1>9 DEF WorkerStep, claim_recover, Callers
  <1>14. ASSUME NEW v \in Internal, InternalStep(v) \/ update_raises(v) \/ retry_raises(v)
         PROVE  w \in External /\ call'[w].op = "update"
    BY Zenon, <1>14, <1>4, <1>5, <1>6 DEF InternalStep, agent_task_succeeds, agent_task_raises, Workers
  <1>15. ASSUME NEW v \in External, ExternalStep(v)
         PROVE  w \in External /\ call'[w].op = "update"
    BY Zenon, <1>15, <1>4, <1>5, <1>7, <1>8 DEF ExternalStep, handle_task, Workers
  <1>16. ASSUME task_scheduler_worker
         PROVE  w \in External /\ call'[w].op = "update"
    BY Zenon, <1>16, <1>2 DEF task_scheduler_worker
  <1>17. ASSUME NEW o \in Operators,
                Commit(o) \/ \E u \in Tasks, r \in OperatorRequests : operator_request(o, u, r)
         PROVE  w \in External /\ call'[w].op = "update"
    BY Zenon, <1>17, <1>9, <1>10 DEF Callers
  <1> QED  BY Zenon, <1>1, <1>11, <1>12, <1>13, <1>14, <1>15, <1>16, <1>17 DEF Next

\* Only a foreign write takes a task out of a terminal status: an operator's, or that of a worker
\* whose claim was superseded, never the reports of the worker that holds the latest claim.
THEOREM TerminalFinality == Spec => TerminalIsFinal
  <1> DEFINE A == \A t \in Tasks :
                    task[t].status \in TASK_TERMINAL_STATUSES /\ ~interfered'[t]
                    => task'[t].status \in TASK_TERMINAL_STATUSES
  <1>1. Init => FinalReports
    BY DEF Init, FinalReports, Executing, Idle
  <1>2. IInv /\ FinalReports /\ [Next]_vars => FinalReports'
    BY Zenon, NextFinalReports
  <1>3. IInv /\ FinalReports /\ [Next]_vars => [A]_vars
    <2> SUFFICES ASSUME IInv, FinalReports, [Next]_vars, NEW t \in Tasks,
                        task[t].status \in TASK_TERMINAL_STATUSES, ~interfered'[t],
                        task'[t].status \notin TASK_TERMINAL_STATUSES
                 PROVE  FALSE
      BY Zenon
    <2> PICK c \in Callers : Commit(c) /\ call[c].task = t
      BY KeepsTerminal
    <2>1. /\ call[c].op # "none" /\ task'[t] = WrittenRow(task[t], call[c])
          /\ interfered'[t] <=> interfered[t] \/ Foreign(c, call[c])
          /\ task[t] \in Row /\ call[c] \in Call /\ call[c].row \in Row
      BY Zenon DEF Commit, IInv, TypeOK, Call
    <2>2. ~interfered[t] /\ ~Foreign(c, call[c])
      BY Zenon, <2>1
    <2>3. CASE c \in Workers
      <3>1. Executing(c) /\ worker[c].task = t /\ worker[c].epoch = epoch[t]
        BY Zenon, <2>1, <2>2, <2>3, OwnWrites
      <3>2. call[c].op = "update"
        BY Zenon, <2>2, <2>3, <3>1 DEF FinalReports
      <3>3. call[c].arg.status \in {"succeeded", "failed"}
        BY Zenon, <2>1, <2>3, <3>2 DEF IInv, Reports
      <3>4. WrittenRow(task[t], call[c]).status = call[c].arg.status
        BY Zenon, <2>1, <3>2 DEF WrittenRow, UpdatedRow, Row
      <3> QED  BY Zenon, <2>1, <3>3, <3>4 DEF TASK_TERMINAL_STATUSES
    <2>4. CASE c \notin Workers
      <3>1. call[c].op = "approve" /\ call[c].row.status = task[t].status
        BY Zenon, <2>1, <2>2, <2>4, OwnWrites
      <3>2. task'[t] = ApprovedRow(task[t], call[c].row)
        BY Zenon, <2>1, <3>1 DEF WrittenRow
      <3> QED  BY <2>1, <3>1, <3>2, ApprovedRowFacts
    <2> QED  BY Zenon, <2>3, <2>4
  <1> QED  BY <1>1, <1>2, <1>3, Invariance, PTL DEF Spec, TerminalIsFinal

-----------------------------------------------------------------------------
(* Attempt accounting *)

\* Replays in progress reset the attempts.
Resetting == \A c \in Callers : call[c].op = "replay" => call[c].arg.reset

\* What a handler's UPDATE makes of attempts.
LEMMA WrittenAttempts ==
    ASSUME NEW cur \in Row, NEW c \in Call, c.op # "none"
    PROVE  /\ c.op # "replay" => WrittenRow(cur, c).attempts = cur.attempts
           /\ c.op = "replay" /\ c.arg.reset => WrittenRow(cur, c).attempts = 0
  <1>1. c.op = "update" => WrittenRow(cur, c).attempts = cur.attempts
    BY Zenon DEF WrittenRow, UpdatedRow, Row
  <1>2. c.op = "approve" => WrittenRow(cur, c).attempts = cur.attempts
    BY Zenon DEF WrittenRow, ApprovedRow, Row
  <1>3. c.op = "retry" => WrittenRow(cur, c).attempts = cur.attempts
    BY Zenon DEF WrittenRow, RetriedRow, Row
  <1>4. c.op = "replay" /\ c.arg.reset => WrittenRow(cur, c).attempts = 0
    BY Zenon DEF WrittenRow, ReplayedRow, Row
  <1> QED  BY <1>1, <1>2, <1>3, <1>4 DEF Call, Ops

\* With a task that does not exist never handed out, this is inductive.
HInv ==
    /\ Resetting
    /\ HandedOutWithinLimit
    /\ \A t \in Tasks : task[t].status = "absent" => handed[t] = 0

\* Every step keeps replays in progress resetting, if every requested one is.
LEMMA NextResetting ==
    ASSUME IInv, Resetting, [Next]_vars,
           \A r \in OperatorRequests : r.op = "replay" => r.reset
    PROVE  Resetting'
  <1> USE DEF IInv, Resetting, TypeOK
  <1>1. ASSUME NEW w \in Workers, NEW op \in {"update", "retry"}, NEW t, NEW arg,
               call' = [call EXCEPT ![w] = Reading(op, t, arg)]
        PROVE  Resetting'
    <2>1. Reading(op, t, arg).op # "replay" /\ w \in Callers
      BY Zenon DEF Reading, Callers
    <2> QED  BY Zenon, <1>1, <2>1
  <1>2. ASSUME NEW c \in Callers, call' = [call EXCEPT ![c] = NoCall]
        PROVE  Resetting'
    BY Zenon, <1>2 DEF NoCall
  <1>3. ASSUME NEW o \in Operators, NEW t \in Tasks, NEW r \in OperatorRequests, operator_request(o, t, r)
        PROVE  Resetting'
    <2> DEFINE q == Reading(r.op, t, [status |-> r.status, later |-> r.later, reset |-> r.reset])
    <2>1. q.op = r.op /\ q.arg.reset = r.reset
      BY DEF Reading
    <2>2. call' = [call EXCEPT ![o] = q] /\ o \in Callers
      BY <1>3 DEF operator_request, Callers
    <2> HIDE DEF q
    <2> QED  BY Zenon, <2>1, <2>2
  <1>4. CASE orchestrator_restart
    BY Zenon, <1>4 DEF orchestrator_restart, NoCall
  <1>5. CASE UNCHANGED call
    BY <1>5
  <1> HIDE DEF Resetting, TypeOK
  <1>6. ASSUME NEW w \in Internal, InternalStep(w) \/ update_raises(w) \/ retry_raises(w)
        PROVE  Resetting'
    BY <1>1, <1>2, <1>6 DEF InternalStep, agent_task_succeeds, agent_task_raises, Report,
                            update_raises, retry_raises, Workers, Callers
  <1>a. ASSUME NEW w \in Workers, commit_unanswered(w)
        PROVE  Resetting'
    BY <1>a DEF commit_unanswered, Resetting, TypeOK, Callers
  <1>7. ASSUME NEW w \in External, ExternalStep(w)
        PROVE  Resetting'
    BY <1>1, <1>2, <1>7, <1>a DEF ExternalStep, handle_task, Report, report_unanswered, external_gives_up,
                                  Workers, Callers
  <1>8. ASSUME NEW c \in Callers, Commit(c)
        PROVE  Resetting'
    BY Zenon, <1>2, <1>8 DEF Commit
  <1>9. ASSUME NEW w \in Workers, WorkerStep(w)
        PROVE  Resetting'
    BY <1>5, <1>8, <1>9 DEF WorkerStep, claim_recover, claim_next_task, claim_nothing, Callers
  <1> QED
    BY Zenon, <1>3, <1>4, <1>5, <1>6, <1>7, <1>8, <1>9
       DEF Next, vars, Submit, create_task_record, lease_deadline_passes, run_after_reached,
           task_scheduler_worker, Callers

\* Steps that keep each count, and create no row, keep the accounting.
LEMMA NextHanded ==
    ASSUME IInv, HInv, [Next]_vars
    PROVE  \A t \in Tasks : /\ handed'[t] <= task'[t].attempts
                            /\ task'[t].status = "absent" => handed'[t] = 0
  <1> USE DEF IInv, HInv, HandedOutWithinLimit
  <1> DEFINE Goal == \A t \in Tasks : /\ handed'[t] <= task'[t].attempts
                                      /\ task'[t].status = "absent" => handed'[t] = 0
  <1>1. ASSUME UNCHANGED <<task, handed>>
        PROVE  Goal
    BY Zenon, <1>1
  <1>2. ASSUME NEW limit, recover_expired_task_leases(limit), UNCHANGED handed
        PROVE  Goal
    BY Zenon, <1>2, RecoverFacts DEF SameButTiming
  <1>3. ASSUME NEW u \in Tasks, Submit(u)
        PROVE  Goal
    BY <1>3 DEF Submit, create_task_record, TypeOK
  <1>4. ASSUME NEW u \in Tasks, run_after_reached(u)
        PROVE  Goal
    <2>1. /\ \A t \in Tasks : task'[t].status = task[t].status /\ task'[t].attempts = task[t].attempts
          /\ handed' = handed
      BY <1>4, DueFacts DEF run_after_reached, TypeOK, SameButTiming
    <2> QED  BY <2>1
  <1>5. ASSUME NEW w \in Workers, NEW u \in Tasks, claim_next_task(w, u)
        PROVE  Goal
    <2>1. task[u] \in Row /\ epoch[u] + 1 \in Nat /\ handed[u] \in Nat /\ task[u].attempts \in Nat
      BY DEF TypeOK, Row
    <2>2. /\ ClaimedRow(task[u], epoch[u] + 1).attempts = task[u].attempts + 1
          /\ ClaimedRow(task[u], epoch[u] + 1).status = "running"
      BY <2>1, ClaimedFacts
    <2>3. /\ task' = [task EXCEPT ![u] = ClaimedRow(task[u], epoch[u] + 1)]
          /\ handed' = [handed EXCEPT ![u] = handed[u] + 1]
      BY Zenon, <1>5 DEF claim_next_task, TypeOK
    <2> QED  BY <2>1, <2>2, <2>3 DEF TypeOK
  <1>6. ASSUME NEW c \in Callers, Commit(c)
        PROVE  Goal
    <2> DEFINE t == call[c].task
               q == WrittenRow(task[t], call[c])
               h == IF call[c].op = "replay" /\ call[c].arg.reset THEN 0 ELSE handed[t]
    <2>1. t \in Tasks /\ task[t] \in Row /\ call[c] \in Call /\ call[c].op # "none"
          /\ call[c].row.status # "absent"
      BY Zenon, <1>6 DEF Commit, TypeOK, Known
    <2>2. /\ task' = [task EXCEPT ![t] = q]
          /\ handed' = [handed EXCEPT ![t] = h]
      BY Zenon, <1>6, <2>1 DEF Commit, TypeOK
    <2>3. q.status # "absent"
      BY Zenon, <2>1, WrittenRowFacts
    <2>4. h <= q.attempts
      <3>1. CASE call[c].op = "replay"
        <4>1. q.attempts = 0 /\ h = 0
          BY Zenon, <2>1, <3>1, WrittenAttempts DEF Resetting
        <4> QED  BY <4>1
      <3>2. CASE call[c].op # "replay"
        <4>1. q.attempts = task[t].attempts /\ h = handed[t]
          BY <2>1, <3>2, WrittenAttempts
        <4> QED  BY Zenon, <2>1, <4>1
      <3> QED  BY Zenon, <3>1, <3>2
    <2> HIDE DEF q, h
    <2> QED  BY Zenon, <2>1, <2>2, <2>3, <2>4 DEF TypeOK
  <1>7. ASSUME NEW c \in Workers, commit_unanswered(c)
        PROVE  Goal
    <2> DEFINE t == call[c].task
               q == WrittenRow(task[t], call[c])
    <2>1. /\ t \in Tasks /\ task[t] \in Row /\ call[c] \in Call /\ call[c].op = "update"
          /\ call[c].row.status # "absent"
      BY <1>7 DEF commit_unanswered, TypeOK, Known, Callers
    <2>2. task' = [task EXCEPT ![t] = q] /\ handed' = handed
      BY <1>7 DEF commit_unanswered
    <2>3. q.status # "absent" /\ q.attempts = task[t].attempts
      BY Zenon, <2>1, WrittenRowFacts, WrittenAttempts
    <2> HIDE DEF q
    <2> QED  BY Zenon, <2>1, <2>2, <2>3 DEF TypeOK
  <1> HIDE DEF Goal
  <1> QED
    <2>1. Goal
      BY Zenon, <1>1, <1>2, <1>3, <1>4, <1>5, <1>6, <1>7
         DEF Next, vars, ExternalStep, report_unanswered, Workers, lease_deadline_passes, task_scheduler_worker, WorkerStep, claim_recover,
             claim_nothing, InternalStep, agent_task_succeeds, agent_task_raises, handle_task, Report,
             update_raises, retry_raises, external_gives_up, operator_request, orchestrator_restart, Callers
    <2> QED  BY Zenon, <2>1 DEF Goal

\* When every replay resets the attempts, as AgentTaskReplay.reset_attempts does
\* by default, a task is handed out at most `attempts' times since the last
\* replay, however stale the rows that the handlers write from.
THEOREM HandedOut ==
    ASSUME \A r \in OperatorRequests : r.op = "replay" => r.reset
    PROVE  Spec => []HandedOutWithinLimit
  <1>1. Init => HInv
    BY AbsentFacts DEF Init, HInv, Resetting, HandedOutWithinLimit, NoCall
  <1>2. IInv /\ HInv /\ [Next]_vars => HInv'
    <2> SUFFICES ASSUME IInv, HInv, [Next]_vars PROVE HInv'
      BY Zenon
    <2>1. Resetting'
      BY Zenon, NextResetting DEF HInv
    <2>2. \A t \in Tasks : /\ handed'[t] <= task'[t].attempts
                           /\ task'[t].status = "absent" => handed'[t] = 0
      BY Zenon, NextHanded
    <2> QED  BY <2>1, <2>2 DEF HInv, HandedOutWithinLimit
  <1>3. HInv => HandedOutWithinLimit
    BY DEF HInv
  <1> QED  BY <1>1, <1>2, <1>3, Invariance, PTL DEF Spec

=============================================================================

------------------------------ MODULE TaskQueue ------------------------------
(***************************************************************************)
(* The agent task queue of the orchestrator: rows of the SQLite table      *)
(* `tasks`, the internal and external workers that claim them under a      *)
(* lease, the scheduler that recovers expired leases, and the operators    *)
(* that update, approve and replay tasks through the HTTP API.             *)
(*                                                                         *)
(* update_task_status, approve_task_record, replay_task_record and         *)
(* requeue_task_for_retry SELECT the row before BEGIN IMMEDIATE, so each   *)
(* of them is two steps here: a read (Begin) and a write (Commit) computed *)
(* from the row that was read.                                             *)
(*                                                                         *)
(* Time is abstracted.  `due' says whether run_after has been reached.     *)
(* The deadline of the n-th claim of a task is the number n; `elapsed[t]'  *)
(* is the last claim whose deadline has passed.                            *)
(***************************************************************************)
EXTENDS Integers, FiniteSets

CONSTANTS Tasks,              \* task ids
          NoTask,             \* no task: what an idle worker holds
          Internal,           \* names of the in-process workers
          External,           \* names of the workers that claim over HTTP
          Operators,          \* concurrent API callers
          Agents,             \* values of the agent column given at creation
          Priorities,         \* values of the priority column
          AttemptLimits,      \* max_attempts requested at creation, 0 = omitted
          DefaultMaxAttempts, \* TASK_DEFAULT_MAX_ATTEMPTS
          ClaimRecoverLimit,  \* rows claim_next_task recovers before claiming
          OperatorRequests,   \* the API requests operators make
          MaxOperatorCalls,   \* bound: API calls in a behaviour
          MaxDbErrors,        \* bound: database calls that raise
          MaxRestarts         \* bound: orchestrator restarts

VARIABLES task,       \* the rows of table tasks
          worker,     \* what each worker is doing
          call,       \* row handlers between their SELECT and their UPDATE
          epoch,      \* claims made of each task so far: the last deadline given
          elapsed,    \* deadlines up to this one have passed
          interfered, \* ghost: someone other than the current claimant wrote the row
          handed,     \* ghost: claims since the attempts were last reset
          budget      \* what is left of the three bounds

vars == <<task, worker, call, epoch, elapsed, interfered, handed, budget>>

Workers == Internal \cup External
Callers == Workers \cup Operators

TASK_TERMINAL_STATUSES == {"succeeded", "failed", "canceled"}
TASK_MUTABLE_STATUSES == {"queued", "approved", "running", "blocked"}
Statuses == TASK_TERMINAL_STATUSES \cup TASK_MUTABLE_STATUSES

Ops == {"update", "approve", "replay", "retry"}
NoArg == [status |-> "queued", later |-> FALSE, reset |-> FALSE]

\* A request of the API: the endpoint, and its status, run_after and
\* reset_attempts arguments (ignored by the endpoints that lack them).
Requests == [op : Ops, status : Statuses, later : BOOLEAN, reset : BOOLEAN]

ASSUME TaskQueueAssumption ==
    /\ NoTask \notin Tasks
    /\ Internal \cap External = {}
    /\ Workers \cap Operators = {}
    /\ AttemptLimits \subseteq Nat
    /\ DefaultMaxAttempts \in Nat \ {0}
    /\ ClaimRecoverLimit \in Nat
    /\ OperatorRequests \subseteq Requests
    /\ Agents # {}
    /\ Priorities \subseteq Int /\ Priorities # {}
    /\ {MaxOperatorCalls, MaxDbErrors, MaxRestarts} \subseteq Nat

-----------------------------------------------------------------------------
(* Rows *)

NoLease == 0

Row == [status : Statuses \cup {"absent"}, attempts : Nat, max : Nat \ {0},
        needs : BOOLEAN, approved : BOOLEAN, agent : Agents, priority : Priorities,
        due : BOOLEAN, lease : Nat, completed : BOOLEAN]

Absent == [status |-> "absent", attempts |-> 0, max |-> 1, needs |-> FALSE,
           approved |-> FALSE, agent |-> CHOOSE a \in Agents : TRUE,
           priority |-> CHOOSE p \in Priorities : TRUE,
           due |-> FALSE, lease |-> NoLease, completed |-> FALSE]

\* max(1, min(int(max_attempts or TASK_DEFAULT_MAX_ATTEMPTS), 50))
CappedMaxAttempts(m) ==
    LET asked == IF m = 0 THEN DefaultMaxAttempts ELSE m
    IN  IF asked > 50 THEN 50 ELSE asked

Approvable(r) == ~r.needs \/ r.approved

AgentMatches(a, w) ==
    \/ a \in {"any", w}
    \/ a = "internal" /\ w \in Internal
    \/ a = "external" /\ w \notin Internal

\* Mutants: the approval is not checked; an exhausted task can be claimed.
Claimable_unapproved(r, w) ==
    /\ r.status \in {"queued", "approved"} /\ r.attempts < r.max
    /\ r.due /\ AgentMatches(r.agent, w)

Claimable_exhausted(r, w) ==
    /\ r.status \in {"queued", "approved"} /\ Approvable(r) /\ r.attempts <= r.max
    /\ r.due /\ AgentMatches(r.agent, w)

\* The WHERE clause of claim_next_task.
Claimable(r, w) ==
    /\ r.status \in {"queued", "approved"}
    /\ Approvable(r)
    /\ r.attempts < r.max
    /\ r.due
    /\ AgentMatches(r.agent, w)

\* Mutants: every lease counts as expired; a lease expires one claim late.
LeaseExpired_always(t) == task[t].status = "running" /\ task[t].lease # NoLease

LeaseExpired_late(t) ==
    task[t].status = "running" /\ task[t].lease # NoLease /\ task[t].lease < elapsed[t]

LeaseExpired(t) ==
    /\ task[t].status = "running"
    /\ task[t].lease # NoLease
    /\ task[t].lease <= elapsed[t]

-----------------------------------------------------------------------------
(* What each UPDATE makes of a row: `cur' is the row it writes to, `row' the *)
(* copy the handler read before its transaction.                             *)

ClaimedRow(cur, deadline) ==
    [cur EXCEPT !.status = "running", !.lease = deadline, !.attempts = @ + 1]

\* Mutant: a recovered task gets its attempt back.
RecoveredRow_refunded(cur) ==
    [cur EXCEPT !.status = "queued", !.due = TRUE, !.lease = NoLease, !.attempts = @ - 1]

RecoveredRow(cur) ==
    [cur EXCEPT !.status = "queued", !.due = TRUE, !.lease = NoLease]

UpdatedRow(cur, row, arg) ==
    LET s        == arg.status
        terminal == s \in TASK_TERMINAL_STATUSES
    IN  [cur EXCEPT
           !.status    = s,
           !.due       = IF arg.later THEN FALSE
                         ELSE s \in {"queued", "approved"} \/ row.due,
           !.lease     = IF s = "running" THEN row.lease ELSE NoLease,
           !.completed = terminal \/ row.completed]

ApprovedRow(cur, row) ==
    [cur EXCEPT
       !.approved = TRUE,
       !.status   = IF row.status \in {"blocked", "queued"} THEN "approved" ELSE row.status]

ReplayedRow(cur, row, arg) ==
    [cur EXCEPT !.status = "queued", !.due = TRUE, !.lease = NoLease, !.completed = FALSE,
                !.attempts = IF arg.reset THEN 0 ELSE row.attempts]

\* Mutant: a task that failed for good has no completion time.
RetriedRow_uncompleted(cur, row) ==
    [cur EXCEPT !.status = IF row.attempts >= row.max THEN "failed" ELSE "queued",
                !.due = FALSE, !.lease = NoLease, !.completed = FALSE]

RetriedRow(cur, row) ==
    LET exhausted == row.attempts >= row.max
    IN  [cur EXCEPT
           !.status    = IF exhausted THEN "failed" ELSE "queued",
           !.due       = exhausted /\ row.due,
           !.lease     = NoLease,
           !.completed = exhausted]

WrittenRow(cur, c) ==
    CASE c.op = "update"  -> UpdatedRow(cur, c.row, c.arg)
      [] c.op = "approve" -> ApprovedRow(cur, c.row)
      [] c.op = "replay"  -> ReplayedRow(cur, c.row, c.arg)
      [] c.op = "retry"   -> RetriedRow(cur, c.row)

-----------------------------------------------------------------------------
(* Calls and workers *)

NoCall == [op |-> "none", task |-> NoTask, row |-> Absent, arg |-> NoArg]
Idle == [pc |-> "idle", task |-> NoTask, epoch |-> 0]

\* The handler's SELECT.
Reading(op, t, arg) == [op |-> op, task |-> t, row |-> task[t], arg |-> arg]

Executing(w) == worker[w].pc \in {"running", "reporting"}

\* A write is foreign when its caller does not hold the latest claim of the
\* task: a report of an earlier claim, or an operator.  An approval only counts
\* when the status it read is no longer the status it overwrites.
Foreign(c, cl) ==
    IF c \in Workers THEN worker[c].epoch # epoch[cl.task]
    ELSE cl.op = "approve" => cl.row.status # task[cl.task].status

Init ==
    /\ task = [t \in Tasks |-> Absent]
    /\ worker = [w \in Workers |-> Idle]
    /\ call = [c \in Callers |-> NoCall]
    /\ epoch = [t \in Tasks |-> 0]
    /\ elapsed = [t \in Tasks |-> 0]
    /\ interfered = [t \in Tasks |-> FALSE]
    /\ handed = [t \in Tasks |-> 0]
    /\ budget = [calls |-> MaxOperatorCalls, errors |-> MaxDbErrors, restarts |-> MaxRestarts]

-----------------------------------------------------------------------------
(* Submission and recovery *)

create_task_record(t, a, p, m, needs, approved, due) ==
    /\ task[t].status = "absent"
    /\ task' = [task EXCEPT ![t] =
                  [status |-> "queued", attempts |-> 0, max |-> CappedMaxAttempts(m),
                   needs |-> needs, approved |-> approved, agent |-> a, priority |-> p,
                   due |-> due, lease |-> NoLease, completed |-> FALSE]]
    /\ UNCHANGED <<worker, call, epoch, elapsed, interfered, handed, budget>>

\* One transaction over at most `limit' expired rows.
recover_expired_task_leases(limit) ==
    LET expired == {t \in Tasks : LeaseExpired(t)}
    IN  \E S \in SUBSET expired :
          /\ \/ S = expired /\ Cardinality(S) <= limit
             \/ Cardinality(S) = limit
          /\ task' = [t \in Tasks |-> IF t \in S THEN RecoveredRow(task[t]) ELSE task[t]]

\* One tick of _task_scheduler_worker; POST /agents/tasks/recover-leases is the same step.
task_scheduler_worker ==
    /\ \E t \in Tasks : LeaseExpired(t)
    /\ recover_expired_task_leases(Cardinality(Tasks))
    /\ UNCHANGED <<worker, call, epoch, elapsed, interfered, handed, budget>>

-----------------------------------------------------------------------------
(* Workers *)

\* The first transaction of claim_next_task: recover before claiming.
claim_recover(w) ==
    /\ worker[w].pc = "idle"
    /\ recover_expired_task_leases(ClaimRecoverLimit)
    /\ worker' = [worker EXCEPT ![w].pc = "polled"]
    /\ UNCHANGED <<call, epoch, elapsed, interfered, handed, budget>>

\* The second transaction: take a claimable row of the highest priority.
claim_next_task(w, t) ==
    /\ worker[w].pc = "polled"
    /\ Claimable(task[t], w)
    /\ \A u \in Tasks : Claimable(task[u], w) => task[u].priority <= task[t].priority
    /\ task' = [task EXCEPT ![t] = ClaimedRow(@, epoch[t] + 1)]
    /\ epoch' = [epoch EXCEPT ![t] = @ + 1]
    /\ handed' = [handed EXCEPT ![t] = @ + 1]
    /\ worker' = [worker EXCEPT ![w] = [pc |-> "running", task |-> t, epoch |-> epoch[t] + 1]]
    /\ UNCHANGED <<call, elapsed, interfered, budget>>

claim_nothing(w) ==
    /\ worker[w].pc = "polled"
    /\ \A t \in Tasks : ~Claimable(task[t], w)
    /\ worker' = [worker EXCEPT ![w] = Idle]
    /\ UNCHANGED <<task, call, epoch, elapsed, interfered, handed, budget>>

\* The worker starts the handler `op' on the task it executes.
Report(w, op, arg) ==
    /\ worker[w].pc = "running"
    /\ worker' = [worker EXCEPT ![w].pc = "reporting"]
    /\ call' = [call EXCEPT ![w] = Reading(op, worker[w].task, arg)]
    /\ UNCHANGED <<task, epoch, elapsed, interfered, handed, budget>>

\* _agent_task_worker: success is an update, any exception a retry.
agent_task_succeeds(w) == Report(w, "update", [NoArg EXCEPT !.status = "succeeded"])
agent_task_raises(w) == Report(w, "retry", NoArg)

\* task_agent_worker.py: both outcomes are status updates.
handle_task(w) ==
    \E s \in {"succeeded", "failed"} : Report(w, "update", [NoArg EXCEPT !.status = s])

\* The POST of a success raises (a timeout, an error answer), before or after the
\* handler's transaction: the except branch of _handle_task reports a failure.
report_unanswered(w) ==
    /\ call[w].op = "update" /\ call[w].arg.status = "succeeded"
    /\ call' = [call EXCEPT ![w] = Reading("update", worker[w].task, [NoArg EXCEPT !.status = "failed"])]
    /\ UNCHANGED <<task, worker, epoch, elapsed, interfered, handed, budget>>

\* Mutant: the except branch asks for a retry, as that of the in-process worker does.
commit_retried(w) ==
    LET cl  == call[w]
        t   == cl.task
        row == WrittenRow(task[t], cl)
    IN  /\ cl.op = "update" /\ cl.arg.status = "succeeded"
        /\ task' = [task EXCEPT ![t] = row]
        /\ call' = [call EXCEPT ![w].op = "retry", ![w].row = row, ![w].arg = NoArg]
        /\ interfered' = [interfered EXCEPT ![t] = @ \/ Foreign(w, cl)]
        /\ UNCHANGED <<worker, epoch, elapsed, handed, budget>>

commit_unanswered(w) ==
    LET cl  == call[w]
        t   == cl.task
        row == WrittenRow(task[t], cl)
    IN  /\ cl.op = "update" /\ cl.arg.status = "succeeded"
        /\ task' = [task EXCEPT ![t] = row]
        /\ call' = [call EXCEPT ![w].row = row, ![w].arg = [NoArg EXCEPT !.status = "failed"]]
        /\ interfered' = [interfered EXCEPT ![t] = @ \/ Foreign(w, cl)]
        /\ UNCHANGED <<worker, epoch, elapsed, handed, budget>>

\* The runner dies, or its report never reaches the orchestrator.
external_gives_up(w) ==
    /\ Executing(w)
    /\ worker' = [worker EXCEPT ![w] = Idle]
    /\ call' = [call EXCEPT ![w] = NoCall]
    /\ UNCHANGED <<task, epoch, elapsed, interfered, handed, budget>>

\* The transaction of a handler: write the row from the copy it read.
Commit(c) ==
    LET cl == call[c]
        t  == cl.task
    IN  /\ cl.op # "none"
        /\ task' = [task EXCEPT ![t] = WrittenRow(@, cl)]
        /\ call' = [call EXCEPT ![c] = NoCall]
        /\ worker' = IF c \in Workers THEN [worker EXCEPT ![c] = Idle] ELSE worker
        /\ interfered' = [interfered EXCEPT ![t] = @ \/ Foreign(c, cl)]
        /\ handed' = [handed EXCEPT ![t] = IF cl.op = "replay" /\ cl.arg.reset THEN 0 ELSE @]
        /\ UNCHANGED <<epoch, elapsed, budget>>

\* The database raises in an internal worker's handler: a failed success report
\* becomes a retry, and a failed retry ends the worker's loop.
update_raises(w) ==
    /\ call[w].op = "update"
    /\ budget.errors > 0
    /\ budget' = [budget EXCEPT !.errors = @ - 1]
    /\ call' = [call EXCEPT ![w] = Reading("retry", worker[w].task, NoArg)]
    /\ UNCHANGED <<task, worker, epoch, elapsed, interfered, handed>>

retry_raises(w) ==
    /\ call[w].op = "retry"
    /\ budget.errors > 0
    /\ budget' = [budget EXCEPT !.errors = @ - 1]
    /\ call' = [call EXCEPT ![w] = NoCall]
    /\ worker' = [worker EXCEPT ![w] = [Idle EXCEPT !.pc = "dead"]]
    /\ UNCHANGED <<task, epoch, elapsed, interfered, handed>>

-----------------------------------------------------------------------------
(* Operators, restarts and time *)

\* POST /agents/tasks/{id}/status, /approve and /replay: the SELECT.
operator_request(o, t, r) ==
    /\ call[o].op = "none"
    /\ task[t].status # "absent"
    /\ budget.calls > 0
    /\ budget' = [budget EXCEPT !.calls = @ - 1]
    /\ call' = [call EXCEPT ![o] =
                  Reading(r.op, t, [status |-> r.status, later |-> r.later, reset |-> r.reset])]
    /\ UNCHANGED <<task, worker, epoch, elapsed, interfered, handed>>

\* The process stops and starts: its workers begin anew, its handlers are gone,
\* and so are the reports external workers were waiting on.  The table stays.
orchestrator_restart ==
    /\ budget.restarts > 0
    /\ budget' = [budget EXCEPT !.restarts = @ - 1]
    /\ worker' = [w \in Workers |->
                    IF w \in External /\ worker[w].pc = "running" THEN worker[w] ELSE Idle]
    /\ call' = [c \in Callers |-> NoCall]
    /\ UNCHANGED <<task, epoch, elapsed, interfered, handed>>

lease_deadline_passes(t) ==
    /\ elapsed[t] < epoch[t]
    /\ elapsed' = [elapsed EXCEPT ![t] = @ + 1]
    /\ UNCHANGED <<task, worker, call, epoch, interfered, handed, budget>>

run_after_reached(t) ==
    /\ task[t].status # "absent"
    /\ ~task[t].due
    /\ task' = [task EXCEPT ![t].due = TRUE]
    /\ UNCHANGED <<worker, call, epoch, elapsed, interfered, handed, budget>>

Submit(t) ==
    \E a \in Agents, p \in Priorities, m \in AttemptLimits, needs, approved, due \in BOOLEAN :
        create_task_record(t, a, p, m, needs, approved, due)

WorkerStep(w) ==
    \/ claim_recover(w)
    \/ \E t \in Tasks : claim_next_task(w, t)
    \/ claim_nothing(w)
    \/ Commit(w)

InternalStep(w) ==
    \/ agent_task_succeeds(w)
    \/ agent_task_raises(w)

ExternalStep(w) ==
    \/ handle_task(w)
    \/ report_unanswered(w)
    \/ commit_unanswered(w)
    \/ external_gives_up(w)

Next ==
    \/ \E t \in Tasks : Submit(t) \/ lease_deadline_passes(t) \/ run_after_reached(t)
    \/ task_scheduler_worker
    \/ \E w \in Workers : WorkerStep(w)
    \/ \E w \in Internal : InternalStep(w) \/ update_raises(w) \/ retry_raises(w)
    \/ \E w \in External : ExternalStep(w)
    \/ \E o \in Operators : \/ Commit(o)
                            \/ \E t \in Tasks, r \in OperatorRequests : operator_request(o, t, r)
    \/ orchestrator_restart

Spec == Init /\ [][Next]_vars

\* The event loop keeps running the scheduler and the in-process workers, every
\* action they execute has a client timeout, and time passes.  Nothing is
\* assumed of external runners once they have claimed a task.
Fairness ==
    /\ WF_vars(task_scheduler_worker)
    /\ \A w \in Internal : WF_vars(WorkerStep(w)) /\ WF_vars(InternalStep(w))
    /\ \A t \in Tasks : WF_vars(lease_deadline_passes(t)) /\ WF_vars(run_after_reached(t))

FairSpec == Spec /\ Fairness

-----------------------------------------------------------------------------
(* Properties *)

Call == [op : Ops \cup {"none"}, task : Tasks \cup {NoTask}, row : Row,
         arg : [status : Statuses, later : BOOLEAN, reset : BOOLEAN]]

\* Types of the table, the workers and the handlers in progress; a handler in
\* progress names a task, and so does a worker that executes one.
TypeOK ==
    /\ task \in [Tasks -> Row]
    /\ worker \in [Workers -> [pc : {"idle", "polled", "running", "reporting", "dead"},
                               task : Tasks \cup {NoTask}, epoch : Nat]]
    /\ call \in [Callers -> Call]
    /\ epoch \in [Tasks -> Nat]
    /\ elapsed \in [Tasks -> Nat]
    /\ interfered \in [Tasks -> BOOLEAN]
    /\ handed \in [Tasks -> Nat]
    /\ budget \in [calls : Nat, errors : Nat, restarts : Nat]
    /\ \A c \in Callers : call[c].op # "none" => call[c].task \in Tasks
    /\ \A w \in Workers : Executing(w) => worker[w].task \in Tasks
    /\ \A w \in Workers : worker[w].pc = "reporting" <=> call[w].op # "none"

\* Approval gate: a task that needs approval is never in the hands of a worker
\* unless it has been approved, whatever statuses operators write and however
\* their handlers interleave with the claim (claim_next_task's WHERE clause;
\* the "blocked" branch of task_agent_worker.py is therefore never taken).
ApprovedBeforeRun ==
    \A w \in Workers : Executing(w) => Approvable(task[worker[w].task])

\* Attempt bound: no interleaving of claims, retries, recoveries and replays
\* takes attempts beyond max_attempts.
AttemptsBounded ==
    \A t \in Tasks : task[t].attempts <= task[t].max

\* Attempt accounting: a task is handed to workers no more often than its
\* attempts column says since the last resetting replay, so at most
\* max_attempts times.
HandedOutWithinLimit ==
    \A t \in Tasks : handed[t] <= task[t].attempts

\* Lease exclusion: two workers execute the same task under unexpired leases
\* only after a foreign write to its row (an operator's, or the late report of
\* a worker whose claim had been superseded); leases, recovery and claims alone
\* never hand a task out twice.
LeaseExclusive ==
    \A v, w \in Workers :
        /\ v # w
        /\ Executing(v) /\ Executing(w)
        /\ worker[v].task = worker[w].task
        /\ worker[v].epoch > elapsed[worker[v].task]
        /\ worker[w].epoch > elapsed[worker[w].task]
        => interfered[worker[v].task]

\* Until a foreign write, a running task carries the deadline of its latest
\* claim, the one that gets it recovered, and completed_at is set exactly on
\* terminal tasks.
RunningIsLeased ==
    \A t \in Tasks :
        interfered[t] \/ /\ task[t].status = "running" => task[t].lease = epoch[t]
                         /\ task[t].completed <=> task[t].status \in TASK_TERMINAL_STATUSES

\* A terminal task comes back only through a foreign write (an operator's, or the late report of a
\* worker whose claim had been superseded).  Claims, recoveries, restarts and every report of the
\* worker that holds the latest claim leave it terminal, the repeated report after a lost answer
\* included (claim_next_task, requeue_task_for_retry, task_agent_worker.py's _handle_task).
TerminalIsFinal ==
    [][\A t \in Tasks :
         task[t].status \in TASK_TERMINAL_STATUSES /\ ~interfered'[t]
         => task'[t].status \in TASK_TERMINAL_STATUSES]_vars

\* A task that may run and has attempts left does not sit in the queue or with
\* a vanished worker for ever: it becomes terminal or uses up its attempts (a
\* terminal task is not runnable).
TaskSettles ==
    \A t \in Tasks :
        []<>(task[t].status \in {"queued", "running"} /\ Approvable(task[t])
                => task[t].attempts = task[t].max)

\* max_attempts is documented as "Max worker attempts before deadletter": a
\* task whose attempts are used up ends in a terminal status (the deadletter
\* list is the set of failed tasks).
ExhaustedIsDeadlettered ==
    \A t \in Tasks :
        task[t].status # "absent" /\ task[t].attempts = task[t].max
        ~> task[t].status \in TASK_TERMINAL_STATUSES

=============================================================================

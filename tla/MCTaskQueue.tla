----------------------------- MODULE MCTaskQueue -----------------------------
(* Instances of TaskQueue for TLC. *)
EXTENDS TaskQueue, TLC

CONSTANTS t1, t2, i1, i2, x1, x2, o1, o2

\* The two tasks are alike.
MCSymmetry == Permutations({t1, t2})

Request(op, s, later, reset) == [op |-> op, status |-> s, later |-> later, reset |-> reset]

MCNoRequests == {}

\* Every kind of request an operator can make: "canceled" stands for the terminal
\* statuses, which the queue treats alike, and replays reset the attempts or keep them.
MCRequests ==
    {Request("update", s, FALSE, FALSE) : s \in Statuses \ {"succeeded", "failed"}}
    \cup {Request("update", "queued", TRUE, FALSE),
          Request("approve", "queued", FALSE, FALSE),
          Request("replay", "queued", FALSE, TRUE),
          Request("replay", "queued", FALSE, FALSE)}

\* needs_approval is read only where approved is not set: a task that needs none is treated as one
\* that was submitted with its approval, and only tasks that need it are submitted.
GatedNext ==
    \/ \E t \in Tasks : Submit(t) /\ task'[t].needs
    \/ \E t \in Tasks : lease_deadline_passes(t) \/ run_after_reached(t)
    \/ task_scheduler_worker
    \/ \E w \in Workers : WorkerStep(w)
    \/ \E w \in Internal : InternalStep(w) \/ update_raises(w) \/ retry_raises(w)
    \/ \E w \in External : ExternalStep(w)
    \/ \E o \in Operators : \/ Commit(o)
                            \/ \E t \in Tasks, r \in OperatorRequests : operator_request(o, t, r)
    \/ orchestrator_restart

OperatorsSpec == Init /\ [][GatedNext]_vars

ProgressSpec == OperatorsSpec /\ Fairness
=============================================================================

------------------------------ MODULE MCSinks ------------------------------
(* What happens to rows on their way into the sinks and inside them, in      *)
(* seven scopes: the outbox with low-value writes to Letta, two workers, a    *)
(* crash and a deletion; with MindsDB and Qdrant and two workers; with        *)
(* MindsDB, two workers, a crash and a deletion; with fair workers for        *)
(* MindsDB and Letta; the Letta backlog with admission and pruning, the       *)
(* MindsDB tables, and the retention runs.  A behaviour stays in its scope;   *)
(* what the other components check holds of their initial states.             *)
EXTENDS FanoutOutbox, LettaBacklog, MindsdbSync, Retention

CONSTANTS e1, e2, f1, w1, w2

VARIABLE scope

sinkVars == <<scope, vars, backlogVars, mindsVars, retentionVars>>

OneFile == [e \in {e1, e2} |-> f1]
NoneServed == [w \in {w1, w2} |-> {}]
CrashAndDeletion == [backfills |-> 0, dbErrors |-> 0, crashes |-> 1, deletions |-> 1]

\* The scopes of the outbox differ in what their workers serve.  Nobody serves the rows of MindsDB
\* and Qdrant in the first one, where later writes always join the waiting row; no write is
\* admitted to Letta in the next two, the second of which crashes and deletes.
L == INSTANCE FanoutOutbox WITH
        LowValue <- {e1, e2}, Serves <- [w \in {w1, w2} |-> {"letta"}], StaleTargets <- {"letta"},
        CoalesceStale <- Targets

S == INSTANCE FanoutOutbox WITH
        Serves <- [w \in {w1, w2} |-> IF w = w1 THEN {"mindsdb", "qdrant"} ELSE {"mindsdb"}]

R == INSTANCE FanoutOutbox WITH Serves <- [w \in {w1, w2} |-> {"mindsdb"}]

\* MindsDB and Letta get a worker each, and nothing fails but the sinks.
F == INSTANCE FanoutOutbox WITH
        Serves <- [w \in {w1, w2} |-> IF w = w1 THEN {"mindsdb"} ELSE {"letta"}],
        BulkSize <- 1, FailOpen <- FALSE, CoalesceStale <- Targets \ {"mindsdb"}

NotAdmitted == \A e \in Events : outbox[<<e, "letta">>].status = "absent"

\* The writes are interchangeable: e1 is the first.
InOrder == written \in {<<>>, <<e1>>, <<e1, e2>>}

\* So are the pushes, each of which starts once.
PushesInOrder ==
    \A i \in {<<"p1", "p2">>, <<"p2", "p3">>} :
        call[i[2]].at # "ensure" => call[i[1]].at # "ensure"

\* Rows of the Letta backlog are used in order, too.
RowsInOrder == \A q, r \in Rows : q < r /\ row[r] # "unused" => row[q] # "unused"

OutboxNext ==
    /\ \/ scope = "letta" /\ L!Next
       \/ scope = "sinks" /\ S!Next /\ NotAdmitted' /\ budget' = budget
       \/ scope = "restart" /\ R!Next /\ NotAdmitted'
       \/ scope = "settle" /\ F!Next /\ budget' = budget
    /\ InOrder'

SinksInit ==
    /\ scope \in {"letta", "sinks", "restart", "settle", "backlog", "minds", "retention"}
    /\ Init /\ BacklogInit /\ MindsInit /\ RetentionInit
    /\ scope # "retention" => down = "none"

SinksNext ==
    \/ OutboxNext /\ UNCHANGED <<scope, backlogVars, mindsVars, retentionVars>>
    \/ scope = "backlog" /\ BacklogNext /\ RowsInOrder' /\ UNCHANGED <<scope, vars, mindsVars, retentionVars>>
    \/ scope = "minds" /\ MindsNext /\ PushesInOrder' /\ UNCHANGED <<scope, vars, backlogVars, retentionVars>>
    \/ scope = "retention" /\ RetentionNext /\ UNCHANGED <<scope, vars, backlogVars, mindsVars>>

\* The fairness of the components, up to three conditions each; scope never changes, so that
\* one condition can stand for one of every scope.
Fair1 ==
    \/ /\ scope = "settle" /\ (F!WorkerStep(w1) \/ F!WorkerStep(w2))
       /\ UNCHANGED <<scope, backlogVars, mindsVars, retentionVars>>
    \/ scope = "backlog" /\ Refreshing /\ UNCHANGED <<scope, vars, mindsVars, retentionVars>>
    \/ scope = "minds" /\ MindsStep /\ UNCHANGED <<scope, vars, backlogVars, retentionVars>>
    \/ /\ scope = "retention" /\ (run_sink_retention_once \/ Visiting)
       /\ UNCHANGED <<scope, vars, backlogVars, mindsVars>>

Fair2 ==
    \/ scope = "backlog" /\ Pruning /\ UNCHANGED <<scope, vars, mindsVars, retentionVars>>
    \/ scope = "retention" /\ RowAges /\ UNCHANGED <<scope, vars, backlogVars, mindsVars>>

Fair3 == scope = "backlog" /\ BacklogTick /\ UNCHANGED <<scope, vars, mindsVars, retentionVars>>

SinksSpec ==
    SinksInit /\ [][SinksNext]_sinkVars /\ WF_sinkVars(Fair1) /\ WF_sinkVars(Fair2) /\ WF_sinkVars(Fair3)

\* MindsdbSync!MindsSettles, in its scope: every push ends, so that no error leaves
\* mindsdb_table_lock taken.
PushesSettle == <>[](scope = "minds" => MindsQuiet)

\* FanoutOutbox!JobsSettle, in the scope whose workers are fair and of the sinks they serve: the
\* writes cease, so that every row is in the end delivered, given up or removed for good.
RowsSettle ==
    <>[](scope = "settle" => \A e \in Events, t \in {"mindsdb", "letta"} :
                                outbox[<<e, t>>].status \notin Outstanding)

=============================================================================

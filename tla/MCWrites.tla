------------------------------ MODULE MCWrites ------------------------------
(* What a write sets off, in three scopes: the request with the memory-bank   *)
(* queue behind it, and the topic tree and rollups that bank writes feed,     *)
(* with two writers and, for the liveness of the rollups, with one.           *)
(* A behaviour stays in its scope.                                            *)
EXTENDS MemoryWrite

CONSTANTS f1, h1, c1, c2, w1

VARIABLES scope, tree, history, log, disk, index, hold, job, written, backfills, reboots

topicVars == <<tree, history, log, disk, index, hold, job, written, backfills, reboots>>
writeVars == <<scope, vars, topicVars>>

TopicRow(path, file, text) == [topic |-> path, file |-> file, text |-> text]

\* One row is written, nested two topics deep; the store repeats it under another topic and
\* holds a row of another project.
TopicWriters == {"w1", "w2"}
WrittenRows == {TopicRow(<<"p", "a", "b">>, "f", "x")}
HeldRows == <<TopicRow(<<"p", "a", "b">>, "f", "x"), TopicRow(<<"q", "c">>, "g", "y"),
              TopicRow(<<"p", "a">>, "f", "x")>>

T == INSTANCE Topics WITH
        Writers <- TopicWriters, Rows <- WrittenRows, StoreRows <- HeldRows,
        HistoryLimit <- 1, HoldSecs <- 1, MaxTopicWrites <- 2, MaxUpsets <- 1

\* Contents are interchangeable, and so are idle writers: c1 and "w1" come first.  A second writer
\* is in the scope "topics" only, the fairness of the rebuilds in the scope "rollups" only.
ContentsInOrder == (\E r \in Requests : req[r].content = c2) => req[1].content = c1

WritersInOrder ==
    job'["w2"].at # "idle" =>
        scope = "topics" /\ (job["w1"].at # "idle" \/ job["w2"].at # "idle")

WritesInit == scope \in {"memory", "topics", "rollups"} /\ Init /\ T!TopicInit

WritesNext ==
    \/ scope = "memory" /\ Next /\ ContentsInOrder' /\ UNCHANGED <<scope, topicVars>>
    \/ scope # "memory" /\ T!TopicNext /\ WritersInOrder /\ UNCHANGED <<scope, vars>>

\* The fairness of the components.  What a bounded number of requests, writes and backfills sets off
\* is bounded as well, so that one condition serves all of it; the rebuilds go on for ever and have
\* a condition of their own.
Bounded ==
    \/ scope = "memory" /\ (Handle(1) \/ Handle(2) \/ Work(w1)) /\ UNCHANGED <<scope, topicVars>>
    \/ scope = "rollups" /\ (T!Carrying \/ T!TopicTick) /\ UNCHANGED <<scope, vars>>

Periodic == scope = "rollups" /\ T!Rebuilding /\ UNCHANGED <<scope, vars>>

WritesSpec ==
    WritesInit /\ [][WritesNext]_writeVars /\ WF_writeVars(Bounded) /\ WF_writeVars(Periodic)

\* Topics!CountsNeverInflated: no topic is counted more often than it was written.
CountsNeverInflated == scope # "memory" => T!CountsNeverInflated

\* Topics!RollupsNest: the rollups form a forest in which parents cover their children.
RollupsNest == scope # "memory" => T!RollupsNest

\* Topics!RollupsCatchUp, in the scope whose rebuilds are fair: when writes cease, the rollups come
\* to cover the tree for good.
RollupsCatchUp == <>[](scope = "rollups" => T!CaughtUp)
=============================================================================

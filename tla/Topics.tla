------------------------------- MODULE Topics -------------------------------
(* The topic tree and the topic rollups of the orchestrator                  *)
(* (services/orchestrator/app.py).                                           *)
(*                                                                           *)
(* Every memory-bank write appends a row to the write history, counts the    *)
(* row on each prefix of its topic path and rewrites the topic index file.   *)
(* A worker rebuilds the rollup index from the tree and the history; an      *)
(* operator may backfill it from a store, after which the worker holds off.  *)
(*                                                                           *)
(* A topic path is a sequence whose head is the project.  The locks of the   *)
(* code never span an await, so a locked section is one action.  Files are   *)
(* rewritten in threads, and two threads may rewrite the same file at once.   *)
EXTENDS Naturals, Sequences, SequencesExt, FiniteSets, FiniteSetsExt, Functions

CONSTANTS Writers,           \* the memory bank workers
          Rows,              \* what a write may carry: [topic, file, text]
          StoreRows,         \* the sequence of rows a store holds for a backfill
          HistoryLimit,      \* rows of history that are kept and scanned
          HoldSecs,          \* TOPIC_ROLLUP_BACKFILL_HOLD_SECS
          MaxTopicWrites,    \* bound on writes
          MaxUpsets          \* bound on backfills and restarts together

VARIABLES tree,      \* topic_tree: path -> count
          history,   \* memory_write_history
          log,       \* the part of the history file that a restart reads
          disk,      \* the topic index file and the rollup index file
          index,     \* topic_rollup_index: path -> entry
          hold,      \* time left of the backfill hold
          job,       \* per task: where it stands and what it carries
          written,   \* per row: how often the bank took it
          backfills, reboots

topicVars == <<tree, history, log, disk, index, hold, job, written, backfills, reboots>>

Rollers == {"worker", "startup", "backfill"}
Tasks == Writers \union Rollers
Absent == [state |-> "absent"]
Torn == [state |-> "torn"]        \* a truncated file, which does not parse
File(data) == [state |-> "whole", data |-> data]
NoIndex == <<>>
Idle == [at |-> "idle"]

PathPrefixes(path) == {SubSeq(path, 1, n) : n \in 1..Len(path)}
Count(t, q) == IF q \in DOMAIN t THEN t[q] ELSE 0

\* A counted row raises the project's node and every node down to its topic.
Counted(t, path) ==
    [q \in DOMAIN t \union PathPrefixes(path) |->
        Count(t, q) + (IF q \in PathPrefixes(path) THEN 1 ELSE 0)]

LastRows(rows) == SubSeq(rows, IF Len(rows) > HistoryLimit THEN Len(rows) - HistoryLimit + 1 ELSE 1, Len(rows))

\* A row repeats an earlier one when project, file and summary agree; its topic is not looked at.
Repeats(r, s) == Head(r.topic) = Head(s.topic) /\ r.file = s.file /\ r.text = s.text
DistinctRows(rows) == {rows[i] : i \in {i \in DOMAIN rows : \A j \in 1..(i - 1) : ~Repeats(rows[j], rows[i])}}

TopicsOf(t, rows) == {q \in DOMAIN t \union UNION {PathPrefixes(r.topic) : r \in rows} : Len(q) > 1}

\* An entry: the tree's count raised by the distinct rows under the topic, and its children.
Entry(q, topics, rows, t) ==
    LET below == {r \in rows : q \in PathPrefixes(r.topic)}
    IN  [event |-> Max({Cardinality(below), Count(t, q)}),
         recent |-> Cardinality(below), files |-> {r.file : r \in below},
         children |-> {c \in topics : Len(c) = Len(q) + 1 /\ q \in PathPrefixes(c)}]

\* Rows counted on their own topic only.
BuildOwnRows(rows, t) ==
    LET distinct == DistinctRows(rows)
        topics == TopicsOf(t, distinct)
    IN  [q \in topics |-> Entry(q, topics, {r \in distinct : r.topic = q}, t)]

\* Nothing seeded from the tree.
BuildFromRows(rows, t) ==
    LET distinct == DistinctRows(rows)
        topics == TopicsOf(<<>>, distinct)
    IN  [q \in topics |-> Entry(q, topics, distinct, <<>>)]

\* The rollups are seeded from the tree; a topic of the rows alone is added to them.
Build(rows, t) ==
    LET distinct == DistinctRows(rows)
        topics == TopicsOf(t, distinct)
    IN  [q \in topics |-> Entry(q, topics, distinct, t)]

\* The history counted on top of the file.
LoadedTwice(file, rows) ==
    FoldLeft(LAMBDA t, r : Counted(t, r.topic), IF file \in {Absent, Torn} THEN <<>> ELSE file.data, rows)

\* At startup the tree comes from its file; only a missing file is made up from the history,
\* and one that does not parse leaves the tree empty.
LoadedTree(file, rows) ==
    IF file = Absent THEN FoldLeft(LAMBDA t, r : Counted(t, r.topic), <<>>, rows)
    ELSE IF file = Torn THEN <<>> ELSE file.data

LoadedIndex(file) == IF file \in {Absent, Torn} THEN NoIndex ELSE file.data

TopicInit ==
    /\ tree = <<>> /\ history = <<>> /\ log = <<>>
    /\ disk = [tree |-> Absent, index |-> Absent]
    /\ index = NoIndex /\ hold = 0
    /\ job = [a \in Tasks |-> IF a = "startup" THEN [at |-> "ready"] ELSE Idle]
    /\ written = [r \in Rows |-> 0] /\ backfills = 0 /\ reboots = 0

\* A thread rewrites a file; mixed says that another one finished writing it meanwhile.
Ended(a) == IF a = "backfill" THEN [at |-> "persisted"] ELSE Idle
Rewrite(file, data) == [at |-> "write", file |-> file, data |-> data, mixed |-> FALSE]

----------------------------------------------------------------------------
\* The bank took a write; its row enters the history.
memory_bank_write(w) ==
    /\ w \in Writers /\ job[w].at = "idle" /\ FoldFunction(+, 0, written) < MaxTopicWrites
    /\ \E r \in Rows :
          /\ written' = [written EXCEPT ![r] = @ + 1]
          /\ history' = LastRows(Append(history, r))
          /\ job' = [job EXCEPT ![w] = [at |-> "log", row |-> r]]
    /\ UNCHANGED <<tree, log, disk, index, hold, backfills, reboots>>

\* The row is appended to the history file, or that fails with a warning.
persist_memory_write(w) ==
    /\ w \in Writers /\ job[w].at = "log"
    /\ log' \in {log, LastRows(Append(log, job[w].row))}
    /\ job' = [job EXCEPT ![w].at = "count"]
    /\ UNCHANGED <<tree, history, disk, index, hold, written, backfills, reboots>>

\* The tree is counted up and the copy to be written is taken, with no await between.
update_topic_tree(w) ==
    /\ w \in Writers /\ job[w].at = "count"
    /\ tree' = Counted(tree, job[w].row.topic)
    /\ job' = [job EXCEPT ![w] = Rewrite("tree", tree')]
    /\ UNCHANGED <<history, log, disk, index, hold, written, backfills, reboots>>

\* Who else has a thread rewriting the file.
Sharing(a) == {b \in Tasks \ {a} : job[b].at = "write" /\ job[b].file = job[a].file}

\* The thread finishes.  Opening for writing emptied the file, so two threads that share it may
\* leave a mixture of both, and the next to finish may leave one too.
file_written(a) ==
    /\ job[a].at = "write"
    /\ \E left \in {File(job[a].data)} \union (IF Sharing(a) # {} \/ job[a].mixed THEN {Torn} ELSE {}) :
          disk' = [disk EXCEPT ![job[a].file] = left]
    /\ job' = [b \in Tasks |->
                 IF b = a THEN Ended(a)
                 ELSE IF b \in Sharing(a) THEN [job[b] EXCEPT !.mixed = TRUE] ELSE job[b]]
    /\ UNCHANGED <<tree, history, log, index, hold, written, backfills, reboots>>

\* The file cannot be opened; the warning is all that remains.
file_fails(a) ==
    /\ job[a].at = "write"
    /\ job' = [job EXCEPT ![a] = Ended(a)]
    /\ UNCHANGED <<tree, history, log, disk, index, hold, written, backfills, reboots>>

----------------------------------------------------------------------------
HoldRemaining == hold

\* The index is replaced and its copy is queued for the rollup file.
SetSnapshot(a, rows, t) ==
    /\ index' = Build(rows, t)
    /\ job' = [job EXCEPT ![a] = Rewrite("index", index')]

rebuild_topic_rollups_once(a) ==
    /\ SetSnapshot(a, history, tree)
    /\ UNCHANGED <<tree, history, log, disk, hold, written, backfills, reboots>>

\* The rebuild started with the process.
startup_rebuild == job["startup"].at = "ready" /\ rebuild_topic_rollups_once("startup")

\* The periodic rebuild, skipped while the hold lasts.
topic_rollup_worker ==
    /\ job["worker"].at = "idle" /\ HoldRemaining = 0
    /\ rebuild_topic_rollups_once("worker")

\* An operator asks for a backfill: the tree is copied before the store is scanned.
backfill_begins ==
    /\ job["backfill"].at = "idle" /\ backfills + reboots < MaxUpsets
    /\ backfills' = backfills + 1
    /\ job' = [job EXCEPT !["backfill"] = [at |-> "scan", tree |-> tree]]
    /\ UNCHANGED <<tree, history, log, disk, index, hold, written, reboots>>

\* What a scan returns: the rows of the store, of one project if asked so, or the history.
Scanned ==
    {history, StoreRows} \union
        {SelectSeq(StoreRows, LAMBDA r : Head(r.topic) = p) : p \in {Head(r.topic) : r \in Rows}}

\* The scan returned: the index is replaced by the rollups of its rows.
backfill_scanned ==
    /\ job["backfill"].at = "scan"
    /\ \E rows \in Scanned : SetSnapshot("backfill", rows, job["backfill"].tree)
    /\ UNCHANGED <<tree, history, log, disk, hold, written, backfills, reboots>>

\* The store cannot be reached: the request fails.
backfill_fails ==
    /\ job["backfill"].at = "scan"
    /\ job' = [job EXCEPT !["backfill"] = Idle]
    /\ UNCHANGED <<tree, history, log, disk, index, hold, written, backfills, reboots>>

\* Only when the file is dealt with does the hold begin.
set_topic_rollup_backfill_hold == hold' = HoldSecs

backfill_returns ==
    /\ job["backfill"].at = "persisted"
    /\ set_topic_rollup_backfill_hold
    /\ job' = [job EXCEPT !["backfill"] = Idle]
    /\ UNCHANGED <<tree, history, log, disk, index, written, backfills, reboots>>

\* Time passes.
TopicTick ==
    /\ hold \in 1..HoldSecs /\ hold' = hold - 1
    /\ UNCHANGED <<tree, history, log, disk, index, job, written, backfills, reboots>>

\* A stop may catch a file being rewritten, and truncated.
Stopped(f) ==
    {disk[f]} \union (IF \E a \in Tasks : job[a].at = "write" /\ job[a].file = f THEN {Torn} ELSE {})

\* The process stops anywhere, and loads its files when it comes back.
TopicRestart ==
    /\ backfills + reboots < MaxUpsets /\ reboots' = reboots + 1
    /\ \E t \in Stopped("tree"), i \in Stopped("index") : disk' = [tree |-> t, index |-> i]
    /\ history' = log
    /\ tree' = LoadedTree(disk'.tree, history')
    /\ index' = LoadedIndex(disk'.index)
    /\ hold' = 0
    /\ job' = [a \in Tasks |-> IF a = "startup" THEN [at |-> "ready"] ELSE Idle]
    /\ UNCHANGED <<log, written, backfills>>

----------------------------------------------------------------------------
TaskStep(a) ==
    \/ persist_memory_write(a) \/ update_topic_tree(a)
    \/ file_written(a) \/ file_fails(a)

Rolling == startup_rebuild \/ backfill_scanned \/ backfill_fails \/ backfill_returns

TopicNext ==
    \/ \E w \in Writers : memory_bank_write(w)
    \/ \E a \in Tasks : TaskStep(a)
    \/ Rolling \/ topic_rollup_worker
    \/ backfill_begins \/ TopicTick \/ TopicRestart

TopicSpec == TopicInit /\ [][TopicNext]_topicVars

Carrying == Rolling \/ \E a \in Tasks \ {"worker"} : TaskStep(a)
Rebuilding == topic_rollup_worker \/ TaskStep("worker")

\* Tasks and threads make progress, the worker wakes again and again, time passes.
TopicFairness == WF_topicVars(Carrying) /\ WF_topicVars(Rebuilding) /\ WF_topicVars(TopicTick)

TopicFairSpec == TopicSpec /\ TopicFairness

----------------------------------------------------------------------------
\* Neither the tree nor its file ever counts a topic more often than the bank took writes under
\* it, whichever of file and history a restart loads and whichever thread writes last
\* (_load_topic_tree, _update_topic_tree, _persist_topic_tree).
CountsNeverInflated ==
    \A t \in {tree} \union {f.data : f \in {disk.tree} \ {Torn, Absent}} : \A q \in DOMAIN t :
        t[q] <= FoldFunctionOnSet(+, 0, written, {r \in Rows : q \in PathPrefixes(r.topic)})

\* The rollups served form a forest: a topic's children are topics of the index, and no topic
\* has fewer events, recent events or files than one of its children, though an entry mixes
\* the tree's count with the rows of a scan that may repeat, omit or predate them
\* (_build_topic_rollup_snapshot_from_entries).
RollupsNest ==
    \A q \in DOMAIN index :
        LET e == index[q]
        IN  /\ e.recent <= e.event
            /\ \A c \in e.children :
                  /\ c \in DOMAIN index
                  /\ index[c].event <= e.event
                  /\ index[c].recent <= e.recent
                  /\ index[c].files \subseteq e.files

\* The rollups count every topic at least as often as the tree does.
CaughtUp ==
    \A q \in DOMAIN tree : Len(q) > 1 => q \in DOMAIN index /\ index[q].event >= tree[q]

\* When writes, backfills and restarts cease, the rollups come to count every topic at least as
\* often as the tree does, and stay so: a backfill's hold only delays the worker's rebuild
\* (_topic_rollup_worker).
RollupsCatchUp == <>[]CaughtUp

=============================================================================

----------------------------- MODULE Retention -----------------------------
(* The retention runs of services/orchestrator/app.py over the sinks: every  *)
(* run visits Qdrant, the Mongo raw store and Letta in turn, looks through a *)
(* bounded window of each and deletes a bounded number of low-value rows     *)
(* that are past their cutoff; a sink that fails does not keep the others    *)
(* from being visited.                                                       *)
(*                                                                           *)
(* A sink is a function from positions, in the order in which the sink       *)
(* lists its rows, to rows.  Qdrant lists points by their random ids, Mongo  *)
(* lists documents past the cutoff oldest first, Letta lists passages oldest *)
(* first.  A row knows its value and its age: within the cutoff, past it, or *)
(* not known, as that of a passage whose date Letta does not give.  One sink *)
(* may be down: its calls fail whenever they like.                           *)
EXTENDS Naturals, FiniteSets, FiniteSetsExt

CONSTANTS Positions,       \* 1..n, for some n
          ScanLimit,       \* SINK_RETENTION_SCAN_LIMIT
          MaxDeletes,      \* SINK_RETENTION_MAX_DELETES_PER_RUN
          DeleteBatch,     \* SINK_RETENTION_DELETE_BATCH
          MaxInserts       \* bound on the rows written and refreshed

VARIABLES sink,        \* per sink: position -> row
          down,        \* the sink that is down, or "none"
          visiting,    \* the sink the run is at, or "none"
          chosen,      \* positions about to be deleted: by the run in Qdrant, by the thread in Mongo
          redated,     \* those in Mongo whose raw write was repeated since the find
          after,       \* Letta: the position its listing has reached
          looked, gone,\* Letta: rows looked at and deleted in this visit
          inserts

retentionVars == <<sink, down, visiting, chosen, redated, after, looked, gone, inserts>>

Sinks == {"qdrant", "mongo", "letta"}
NextSink == [none |-> "qdrant", qdrant |-> "mongo", mongo |-> "letta", letta |-> "none"]
NoRow == [here |-> FALSE, low |-> FALSE, age |-> "new"]
Here(s) == {p \in Positions : sink[s][p].here}
Old(s, p) == sink[s][p].age = "old"
Due(s, p) == sink[s][p].low /\ Old(s, p)
FirstOf(S, n) == {p \in S : Cardinality({q \in S : q < p}) < n}

RetentionInit ==
    /\ sink = [s \in Sinks |-> [p \in Positions |-> NoRow]]
    /\ down \in Sinks \cup {"none"}
    /\ visiting = "none" /\ chosen = [qdrant |-> {}, mongo |-> {}] /\ redated = {}
    /\ after = 0 /\ looked = 0 /\ gone = 0 /\ inserts = 0

Leave == visiting' = NextSink[visiting] /\ after' = 0 /\ looked' = 0 /\ gone' = 0
Purged(s, S) == [sink EXCEPT ![s] = [p \in Positions |-> IF p \in S THEN NoRow ELSE @[p]]]

\* A run begins with Qdrant.
run_sink_retention_once ==
    visiting = "none" /\ chosen.mongo = {} /\ Leave /\ UNCHANGED <<sink, down, chosen, redated, inserts>>

\* The window a visit looks through: in Qdrant any rows, in Mongo rows past the cutoff.
Window(s) == FirstOf(IF s = "mongo" THEN {p \in Here(s) : Old(s, p)} ELSE Here(s), ScanLimit)

ChosenLow(s) == FirstOf({p \in Window(s) : sink[s][p].low}, MaxDeletes)

\* What it deletes: of the window, the first low-value rows past the cutoff.
Chosen(s) == FirstOf({p \in Window(s) : Due(s, p)}, MaxDeletes)

\* The scroll of Qdrant and the find of Mongo.
scan_sink ==
    /\ visiting \in {"qdrant", "mongo"} /\ chosen[visiting] = {}
    /\ IF Chosen(visiting) = {} THEN Leave /\ UNCHANGED chosen
       ELSE /\ chosen' = [chosen EXCEPT ![visiting] = Chosen(visiting)]
            /\ UNCHANGED <<visiting, after, looked, gone>>
    /\ UNCHANGED <<sink, down, redated, inserts>>

\* Qdrant deletes in batches.
qdrant_delete_batch ==
    LET batch == FirstOf(chosen.qdrant, DeleteBatch)
    IN  /\ chosen.qdrant # {}
        /\ sink' = Purged("qdrant", batch) /\ chosen' = [chosen EXCEPT !.qdrant = @ \ batch]
        /\ IF chosen.qdrant = batch THEN Leave ELSE UNCHANGED <<visiting, after, looked, gone>>
        /\ UNCHANGED <<down, redated, inserts>>

\* Mongo deletes everything at once, in a thread that a timeout of the visit does not stop.  It
\* ends before the next run, the interval between runs being a minute or more.
mongo_delete_many ==
    /\ chosen.mongo # {}
    /\ sink' = Purged("mongo", chosen.mongo) /\ chosen' = [chosen EXCEPT !.mongo = {}] /\ redated' = {}
    /\ IF visiting = "mongo" THEN Leave ELSE UNCHANGED <<visiting, after, looked, gone>>
    /\ UNCHANGED <<down, inserts>>

\* Letta: the next passage of the listing; the visit ends at one that is within the cutoff, at
\* the end, or at a limit, and a low-value passage is deleted on the way.  A passage of unknown
\* age does not end the visit, and goes if it is of low value.
letta_passage ==
    LET left == {p \in Here("letta") : p > after}
        p == Min(left)
    IN  /\ visiting = "letta"
        /\ IF \/ left = {} \/ looked >= ScanLimit \/ gone >= MaxDeletes
              \/ sink["letta"][p].age = "new"
           THEN Leave /\ UNCHANGED sink
           ELSE /\ after' = p /\ looked' = looked + 1 /\ UNCHANGED visiting
                /\ IF sink["letta"][p].low THEN gone' = gone + 1 /\ sink' = Purged("letta", {p})
                   ELSE UNCHANGED <<gone, sink>>
        /\ UNCHANGED <<down, chosen, redated, inserts>>

FailureEndsRun ==
    /\ visiting # "none" /\ visiting = down
    /\ visiting' = "none" /\ after' = 0 /\ looked' = 0 /\ gone' = 0
    /\ chosen' = [qdrant |-> {}, mongo |-> {}] /\ redated' = {}
    /\ UNCHANGED <<sink, down, inserts>>

\* A sink fails or runs out of time: what is deleted stays so, and the next sink is visited.
\* Mongo's thread may be left behind.
sink_fails ==
    /\ visiting # "none" /\ visiting = down /\ Leave
    /\ \/ chosen' = [chosen EXCEPT !.qdrant = {}, !.mongo = {}] /\ redated' = {}
       \/ chosen' = [chosen EXCEPT !.qdrant = {}] /\ UNCHANGED redated
    /\ UNCHANGED <<sink, down, inserts>>

----------------------------------------------------------------------------
AtEnd(s, p) == ~sink[s][p].here /\ (s # "qdrant" => \A q \in Here(s) : q < p)

\* A row is written.  Qdrant's random ids put it anywhere; elsewhere it comes after the others.
\* Letta may keep a passage without a date.
RowWritten ==
    /\ inserts < MaxInserts /\ inserts' = inserts + 1
    /\ \E s \in Sinks, p \in Positions, v \in BOOLEAN, a \in {"new", "none"} :
          /\ AtEnd(s, p) /\ (a = "none" => s = "letta") /\ (s = "mongo" => p \notin chosen.mongo)
          /\ sink' = [sink EXCEPT ![s][p] = [here |-> TRUE, low |-> v, age |-> a]]
    /\ UNCHANGED <<down, visiting, chosen, redated, after, looked, gone>>

\* The raw write of an event is repeated: its document gets a new date, and moves to the end.
raw_repeated ==
    /\ inserts < MaxInserts /\ inserts' = inserts + 1
    /\ \E p \in Here("mongo"), q \in Positions :
          /\ AtEnd("mongo", q)
          /\ sink' = [sink EXCEPT !["mongo"][p] = NoRow, !["mongo"][q] = [sink["mongo"][p] EXCEPT !.age = "new"]]
          /\ chosen' = [chosen EXCEPT !.mongo = IF p \in @ THEN (@ \ {p}) \cup {q} ELSE @]
          /\ redated' = IF p \in chosen.mongo THEN (redated \ {p}) \cup {q} ELSE redated
    /\ UNCHANGED <<down, visiting, after, looked, gone>>

\* A row passes the cutoff, the oldest first.
RowAges ==
    /\ \E s \in Sinks : \E p \in Here(s) :
          /\ sink[s][p].age = "new"
          /\ s # "qdrant" => \A q \in Here(s) : q < p => sink[s][q].age # "new"
          /\ sink' = [sink EXCEPT ![s][p].age = "old"]
    /\ UNCHANGED <<down, visiting, chosen, redated, after, looked, gone, inserts>>

Visiting == scan_sink \/ qdrant_delete_batch \/ mongo_delete_many \/ letta_passage \/ sink_fails

RetentionNext == run_sink_retention_once \/ Visiting \/ RowWritten \/ raw_repeated \/ RowAges

\* The worker runs again and again, and time passes.
RetentionFairness ==
    /\ WF_retentionVars(run_sink_retention_once \/ Visiting) /\ WF_retentionVars(RowAges)

RetentionFairSpec == RetentionInit /\ [][RetentionNext]_retentionVars /\ RetentionFairness

----------------------------------------------------------------------------
Removed(s) == {p \in Here(s) : ~sink'[s][p].here}

\* Every row a retention run removes is of low value and past its cutoff, although it goes some
\* time after it was listed.  Two exceptions: a raw document that was past it when it was found
\* and whose write is repeated before the delete_many goes in spite of its new date, and a passage
\* of unknown age goes as if it were past it (_run_mongo_low_value_retention_once,
\* _run_letta_low_value_retention_once).
RemovesOnlyDue ==
    ~raw_repeated =>
        \A s \in Sinks : \A p \in Removed(s) :
            /\ sink[s][p].low
            /\ \/ Old(s, p)
               \/ s = "mongo" /\ p \in redated
               \/ s = "letta" /\ sink[s][p].age = "none"
OnlyDueDeleted == [][RemovesOnlyDue]_retentionVars

\* Retention reaches every low-value row of a sink in the end, even if another sink is down for
\* good, provided that the rows that stay are fewer than the window: each run lists the sink from
\* its start again, so that as many retained rows ahead would hide the rest
\* (run_sink_retention_once).
DueRowsGo ==
    \A s \in Sinks :
        <>[](s # down /\ Cardinality({p \in Here(s) : ~sink[s][p].low}) < ScanLimit
                => \A p \in Here(s) : ~Due(s, p))

=============================================================================

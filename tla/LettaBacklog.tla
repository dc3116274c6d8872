---------------------------- MODULE LettaBacklog ----------------------------
(* How services/orchestrator/app.py keeps the Letta backlog of the fanout    *)
(* outbox small: the cached summary of the outbox, the admission of writes   *)
(* by the count it holds, and the automatic pruning of low-value rows.       *)
(*                                                                           *)
(* A row holds a write of low or of high value; a later write to the same    *)
(* file replaces what a waiting row holds.  Which write goes to which file   *)
(* is left open: a write may join any waiting row.  The summary is           *)
(* abstracted to the number of outstanding Letta rows, and to whether it is  *)
(* empty, as that of an outbox without any rows is.  Records that are        *)
(* excluded from Letta altogether never get a row; they are left out.        *)
EXTENDS Naturals, FiniteSets, FiniteSetsExt

CONSTANTS Rows,            \* ids of the Letta rows, never used twice
          SummaryTtl,      \* FANOUT_SUMMARY_CACHE_TTL_SECS
          SoftLimit,       \* LETTA_ADMISSION_BACKLOG_SOFT_LIMIT
          PruneTrigger,    \* LETTA_AUTO_PRUNE_BACKLOG_TRIGGER
          PruneLimit,      \* LETTA_AUTO_PRUNE_LIMIT
          MaxBacklogWrites, MaxBacklogFaults, MaxClaims      \* bounds

VARIABLES row,             \* per id: "unused", the value it holds, "done" or "pruned"
          claimed,         \* the rows that a worker has claimed
          cached,          \* fanout_summary_cache: [n, age, empty]
          refresh,         \* fanout_summary_refresh_task: "none", "query" or the count it read
          prune,           \* the auto-prune run: where it is, and the count it goes by
          picked,          \* the rows it selected and has yet to delete
          leftover,        \* those of runs that timed out, whose thread goes on
          raced,           \* selected rows that a high-value write has joined since
          bwrites, claims, bfaults

backlogVars == <<row, claimed, cached, refresh, prune, picked, leftover, raced, bwrites, claims, bfaults>>

Stale == SummaryTtl + 1          \* ages and times beyond the lifetime are not told apart
Older(t) == IF t < Stale THEN t + 1 ELSE t
Values == {"low", "high"}
NoRefresh == [at |-> "none", n |-> 0]
NoPrune == [at |-> "idle", n |-> 0]
Unsettled == {r \in Rows : row[r] \in Values}
Backlog == Cardinality(Unsettled)
Selected == picked \union leftover

BacklogInit ==
    /\ row = [r \in Rows |-> "unused"] /\ claimed = {}
    /\ cached = [n |-> 0, age |-> Stale, empty |-> TRUE]
    /\ refresh = NoRefresh /\ prune = NoPrune
    /\ picked = {} /\ leftover = {} /\ raced = {} /\ bwrites = 0 /\ claims = 0 /\ bfaults = 0

\* _set_fanout_summary_cache: with no Letta row outstanding, there may or may not be other rows.
SetCache(n) == \E e \in BOOLEAN : (e => n = 0) /\ cached' = [n |-> n, age |-> 0, empty |-> e]

\* _fanout_cache_fresh; an empty summary is never fresh.
Fresh == ~cached.empty /\ cached.age <= SummaryTtl

\* _schedule_fanout_summary_refresh: one task at a time.
Scheduled == IF refresh.at = "none" THEN [at |-> "query", n |-> 0] ELSE refresh

\* Whether a write is kept from Letta: by the cached count, however old it is.
Refused(value) == cached.n >= SoftLimit /\ value = "low"

\* The write gets a row, or joins one that waits.
Enqueued(r, value) ==
    /\ row[r] \in {"unused"} \union Values /\ r \notin claimed
    /\ row' = [row EXCEPT ![r] = value]
    /\ raced' = IF value = "high" THEN raced \union ({r} \intersect Selected) ELSE raced

\* A write asks for admission; a count that is not fresh is used and a refresh scheduled.
letta_admission(value) ==
    /\ bwrites < MaxBacklogWrites /\ bwrites' = bwrites + 1
    /\ refresh' = IF Fresh THEN refresh ELSE Scheduled
    /\ IF Refused(value) THEN UNCHANGED <<row, raced>> ELSE \E r \in Rows : Enqueued(r, value)
    /\ UNCHANGED <<claimed, cached, prune, picked, leftover, claims, bfaults>>

\* A worker claims a row; it is delivered or given up, or waits to be tried again.
RowClaimed(r) ==
    /\ r \in Unsettled \ claimed /\ claims < MaxClaims /\ claims' = claims + 1
    /\ claimed' = claimed \union {r}
    /\ UNCHANGED <<row, cached, refresh, prune, picked, leftover, raced, bwrites, bfaults>>

RowWorked(r) ==
    /\ r \in claimed /\ claimed' = claimed \ {r}
    /\ row' \in {row, [row EXCEPT ![r] = "done"]}
    /\ UNCHANGED <<cached, refresh, prune, picked, leftover, raced, bwrites, claims, bfaults>>

\* The background refresh: the outbox is counted, then the cache is set; or the query fails.
refresh_counts ==
    /\ refresh.at = "query" /\ refresh' = [at |-> "set", n |-> Backlog]
    /\ UNCHANGED <<row, claimed, cached, prune, picked, leftover, raced, bwrites, claims, bfaults>>

refresh_sets ==
    /\ refresh.at = "set" /\ SetCache(refresh.n) /\ refresh' = NoRefresh
    /\ UNCHANGED <<row, claimed, prune, picked, leftover, raced, bwrites, claims, bfaults>>

refresh_fails ==
    /\ refresh.at = "query" /\ bfaults < MaxBacklogFaults /\ bfaults' = bfaults + 1
    /\ refresh' = NoRefresh
    /\ UNCHANGED <<row, claimed, cached, prune, picked, leftover, raced, bwrites, claims>>

----------------------------------------------------------------------------
NeverRefreshed == refresh' = refresh

\* get_fanout_summary: what is cached, fresh or not, with a refresh scheduled in the latter case.
ServedStale == refresh' = IF Fresh THEN refresh ELSE Scheduled

Decided(n) == IF n < PruneTrigger THEN NoPrune ELSE [at |-> "select", n |-> n]

\* The run starts with the cached summary; below the trigger it ends there.
auto_prune_cached ==
    /\ prune.at = "idle" /\ ~cached.empty
    /\ ServedStale
    /\ prune' = Decided(cached.n)
    /\ UNCHANGED <<row, claimed, cached, picked, leftover, raced, bwrites, claims, bfaults>>

\* With an empty cache it counts the outbox itself; if that fails it ends, as below the trigger.
auto_prune_counts ==
    /\ prune.at = "idle" /\ cached.empty
    /\ prune' = [at |-> "counted", n |-> Backlog]
    /\ UNCHANGED <<row, claimed, cached, refresh, picked, leftover, raced, bwrites, claims, bfaults>>

auto_prune_decides ==
    /\ prune.at = "counted" /\ SetCache(prune.n)
    /\ prune' = Decided(prune.n)
    /\ UNCHANGED <<row, claimed, refresh, picked, leftover, raced, bwrites, claims, bfaults>>

SelectableAnyValue == Unsettled \ claimed

\* What prune_letta_low_value_outbox may select: waiting rows of low value.
Selectable == {r \in Unsettled \ claimed : row[r] = "low"}

\* It selects up to its limit of them, without a transaction ... (Mongo's batches of 500, each
\* deleted before the next is selected, are one batch here.)
auto_prune_selects ==
    /\ prune.at = "select" /\ prune' = [prune EXCEPT !.at = "delete"]
    /\ \E n \in {Cardinality(Selectable)} :
          picked' \in kSubset(IF n < PruneLimit THEN n ELSE PruneLimit, Selectable)
    /\ UNCHANGED <<row, claimed, cached, refresh, leftover, raced, bwrites, claims, bfaults>>

\* ... and then deletes them by id, whatever has become of them.
DeletedById(S) ==
    /\ row' = [r \in Rows |-> IF r \in S THEN "pruned" ELSE row[r]]
    /\ claimed' = claimed \ S

auto_prune_deletes ==
    /\ prune.at = "delete" /\ DeletedById(picked)
    /\ picked' = {} /\ raced' = raced \intersect leftover
    /\ prune' = [prune EXCEPT !.at = "recount"] /\ refresh' = Scheduled
    /\ UNCHANGED <<cached, leftover, bwrites, claims, bfaults>>

\* The pruning fails or runs out of time: the run ends with the error and the cache stays as it
\* was.  What it selected is left alone, or deleted later by the thread that goes on.
auto_prune_fails ==
    /\ prune.at \in {"select", "delete"} /\ bfaults < MaxBacklogFaults /\ bfaults' = bfaults + 1
    /\ prune' = NoPrune /\ picked' = {}
    /\ leftover' \in {leftover, leftover \union picked} /\ raced' = raced \intersect leftover'
    /\ UNCHANGED <<row, claimed, cached, refresh, bwrites, claims>>

leftover_deletes ==
    /\ \E S \in SUBSET leftover \ {{}} :
          DeletedById(S) /\ leftover' = leftover \ S /\ raced' = raced \intersect (picked \union (leftover \ S))
    /\ UNCHANGED <<cached, refresh, prune, picked, bwrites, claims, bfaults>>

\* The outbox is counted again for the cache; an error of that is suppressed.
auto_prune_recounts ==
    /\ prune.at = "recount" /\ prune' = NoPrune
    /\ \/ SetCache(Backlog) /\ UNCHANGED bfaults
       \/ bfaults < MaxBacklogFaults /\ bfaults' = bfaults + 1 /\ UNCHANGED cached
    /\ UNCHANGED <<row, claimed, refresh, picked, leftover, raced, bwrites, claims>>

BacklogTick ==
    /\ cached' = [cached EXCEPT !.age = Older(@)]
    /\ UNCHANGED <<row, claimed, refresh, prune, picked, leftover, raced, bwrites, claims, bfaults>>

Refreshing == refresh_counts \/ refresh_sets \/ refresh_fails
Pruning ==
    \/ auto_prune_cached \/ auto_prune_counts \/ auto_prune_decides
    \/ auto_prune_selects \/ auto_prune_deletes \/ auto_prune_fails \/ auto_prune_recounts

BacklogNext ==
    \/ \E value \in Values : letta_admission(value)
    \/ \E r \in Rows : RowClaimed(r) \/ RowWorked(r)
    \/ Refreshing \/ Pruning \/ leftover_deletes \/ BacklogTick

\* The refresh task and the prune worker keep running, and time passes; Letta need not deliver.
BacklogFairSpec ==
    /\ BacklogInit /\ [][BacklogNext]_backlogVars
    /\ WF_backlogVars(Refreshing) /\ WF_backlogVars(Pruning) /\ WF_backlogVars(BacklogTick)

----------------------------------------------------------------------------
\* Pruning costs a high-value write only in one way: it joined a row after a run had selected
\* that row, and before the row was deleted by its id.  No run that selects later, and no thread
\* that a timeout left behind, deletes any other (_prune_letta_low_value_outbox_sqlite).
PrunesOnlyLow == \A r \in Rows : row[r] = "high" /\ row'[r] = "pruned" => r \in raced
HighValueKept == [][PrunesOnlyLow]_backlogVars

\* Although each run goes by a summary that may be out of date, when writes cease the backlog
\* comes under the trigger or has only high-value rows and rows claimed by workers left, even if
\* Letta takes nothing (run_letta_auto_prune_once, get_fanout_summary).
BacklogPruned == <>[](Backlog < PruneTrigger \/ Selectable = {})

=============================================================================

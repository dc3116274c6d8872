---------------------------- MODULE MindsdbSync ----------------------------
(* Rows synced to MindsDB by services/orchestrator/app.py: making sure of    *)
(* the table, moving to a fallback table when the current one is corrupted,  *)
(* and inserting.  Searches read the table that the inserts go to.           *)
(*                                                                           *)
(* Table 0 is the primary one, table n + 1 the fallback tried after n.       *)
(* MindsDB is external: an insert may be applied although its answer is an   *)
(* error, and a table that is corrupted stays so.  A push carries one row,   *)
(* named after its caller.  The queue to which push_batch_to_mindsdb can     *)
(* hand a failed row is left out: no caller allows it.                       *)
EXTENDS Naturals, FiniteSets

CONSTANTS Pushers,         \* callers of push_batch_to_mindsdb: the fanout workers
          LastTable,       \* the last of the fallback tables
          MaxMindsFaults   \* bound on errors and corruptions

ASSUME LastTableAssumption == LastTable \in Nat

VARIABLES ready, target,   \* mindsdb_table_ready, mindsdb_target_table
          tableLock,       \* mindsdb_table_lock
          corrupt, rows,   \* at MindsDB: the corrupted tables, and the <<row, table>> stored
          call,            \* per pusher: where its insert is, its table, and what a move leads to
          ended,           \* per pusher: how the push ended
          mfaults

mindsVars == <<ready, target, tableLock, corrupt, rows, call, ended, mfaults>>

Call(where, table, back) == [at |-> where, table |-> table, back |-> back]

MindsInit ==
    /\ ready = FALSE /\ target = 0 /\ tableLock = "free"
    /\ corrupt = {} /\ rows = {}
    /\ call = [p \in Pushers |-> Call("ensure", 0, "insert")]
    /\ ended = [p \in Pushers |-> "no"] /\ mfaults = 0

At(p, where) == call[p].at = where
Fault == mfaults < MaxMindsFaults /\ mfaults' = mfaults + 1
Moved(p, where, table) == call' = [call EXCEPT ![p].at = where, ![p].table = table]
Ended(p, how) == call' = [call EXCEPT ![p].at = "done"] /\ ended' = [ended EXCEPT ![p] = how]

\* ensure_mindsdb_table: a table known to be there is used; otherwise the lock is taken, and
\* whoever finds the table ready after waiting uses it.
ensure_ready(p) ==
    /\ At(p, "ensure") /\ ready
    /\ Moved(p, "insert", target)
    /\ UNCHANGED <<ready, target, tableLock, corrupt, rows, ended, mfaults>>

ensure_locks(p) ==
    /\ At(p, "ensure") /\ ~ready /\ tableLock = "free"
    /\ tableLock' = p /\ Moved(p, "check", 0)
    /\ UNCHANGED <<ready, target, corrupt, rows, ended, mfaults>>

\* The primary table is created and read.  A corrupted one makes the caller move to a fallback
\* table; any other error is only logged, and the insert is tried all the same.
Checked(p) ==
    /\ At(p, "check")
    /\ \/ /\ 0 \notin corrupt /\ target' = 0 /\ ready' = TRUE
          /\ Moved(p, "insert", 0) /\ UNCHANGED mfaults
       \/ /\ 0 \in corrupt /\ UNCHANGED <<target, ready, mfaults>>
          /\ call' = [call EXCEPT ![p] = Call("switch", 0, "insert")]
       \/ Fault /\ UNCHANGED <<target, ready>> /\ Moved(p, "insert", target)
    /\ UNCHANGED <<corrupt, rows, ended>>

CheckedKeepsLock(p) == Checked(p) /\ tableLock' = IF mfaults' = mfaults THEN "free" ELSE tableLock

ensure_checks(p) == Checked(p) /\ tableLock' = "free"

SeededByTarget(p) == target

\* The table that the search for a fallback starts from: the one this caller found corrupted.
Seed(p) == call[p].table

\* _switch_mindsdb_to_fallback, under the lock: the first sound table after the one that failed.
switch_locks(p) ==
    /\ At(p, "switch") /\ tableLock = "free"
    /\ tableLock' = p /\ Moved(p, "probe", Seed(p) + 1)
    /\ UNCHANGED <<ready, target, corrupt, rows, ended, mfaults>>

Sound(n) == {t \in n..LastTable : t \notin corrupt}

switch_probes(p) ==
    /\ At(p, "probe") /\ tableLock' = "free"
    /\ \/ \E t \in Sound(call[p].table) :
             /\ \A u \in Sound(call[p].table) : t <= u
             /\ target' = t /\ ready' = TRUE
             /\ Moved(p, call[p].back, t)
             /\ UNCHANGED <<mfaults, ended>>
       \/ \* another error, or no sound table left: the move fails
          /\ \/ Fault
             \/ Sound(call[p].table) = {} /\ UNCHANGED mfaults
          /\ UNCHANGED <<target, ready>>
          /\ IF call[p].back = "reinsert" THEN Ended(p, "raised")
             ELSE Moved(p, "insert", target) /\ UNCHANGED ended
    /\ UNCHANGED <<corrupt, rows>>

\* The row is stored, in the table the caller read before it asked.
insert_ok(p) ==
    /\ call[p].at \in {"insert", "reinsert"} /\ call[p].table \notin corrupt
    /\ rows' = rows \union {<<p, call[p].table>>}
    /\ Ended(p, "ok")
    /\ UNCHANGED <<ready, target, tableLock, corrupt, mfaults>>

\* An error that does not look like corruption; the row may have been stored.
insert_error(p) ==
    /\ call[p].at \in {"insert", "reinsert"} /\ Fault
    /\ rows' \in {rows, rows \union ({p} \X ({call[p].table} \ corrupt))}
    /\ Ended(p, "raised")
    /\ UNCHANGED <<ready, target, tableLock, corrupt>>

\* A corrupted table: the first insert makes the caller move on, the second one raises.
insert_corrupt(p) ==
    /\ call[p].table \in corrupt
    /\ \/ /\ At(p, "insert") /\ UNCHANGED ended
          /\ call' = [call EXCEPT ![p] = Call("switch", @.table, "reinsert")]
       \/ At(p, "reinsert") /\ Ended(p, "raised")
    /\ UNCHANGED <<ready, target, tableLock, corrupt, rows, mfaults>>

TableCorrupted ==
    /\ Fault /\ \E t \in 0..LastTable : corrupt' = corrupt \union {t}
    /\ UNCHANGED <<ready, target, tableLock, rows, call, ended>>

MindsCall(p) ==
    \/ ensure_ready(p) \/ ensure_locks(p) \/ ensure_checks(p) \/ switch_locks(p) \/ switch_probes(p)
    \/ insert_ok(p) \/ insert_error(p) \/ insert_corrupt(p)

MindsStep == \E p \in Pushers : MindsCall(p)
MindsNext == MindsStep \/ TableCorrupted

MindsSpec == MindsInit /\ [][MindsNext]_mindsVars
MindsFairSpec == MindsSpec /\ WF_mindsVars(MindsStep)

----------------------------------------------------------------------------
\* A row whose push succeeded is in the table that searches read, or in one that was corrupted
\* afterwards: callers that find their table corrupted at different times, some of them long
\* after others have moved on, never make the shared target pass over a sound table
\* (_switch_mindsdb_to_fallback, ensure_mindsdb_table).
RowsVisible ==
    \A p \in Pushers :
        ended[p] = "ok" => \E t \in 0..LastTable : <<p, t>> \in rows /\ (t = target \/ t \in corrupt)

MindsQuiet == \A p \in Pushers : At(p, "done")

\* Every push ends: no error leaves the table lock taken.
MindsSettles == <>[]MindsQuiet

=============================================================================

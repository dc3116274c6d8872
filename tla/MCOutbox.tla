------------------------------ MODULE MCOutbox ------------------------------
(* The fanout outbox of the raw events: two writes of a file, two workers for *)
(* mongo_raw, a raw store that may refuse an event, a backfill and a mark     *)
(* that fails.  The other sinks are in MCSinks.                               *)
EXTENDS FanoutOutbox, TLC

CONSTANTS e1, e2, f1, w1, w2

OneFile == [e \in {e1, e2} |-> f1]
RawServed == [w \in {w1, w2} |-> {"mongo_raw"}]
BackfillAndError == [backfills |-> 1, dbErrors |-> 1, crashes |-> 0, deletions |-> 0]

\* The writes are interchangeable: e1 is the first.
InOrder == written \in {<<>>, <<e1>>, <<e1, e2>>}

\* Both workers serve the same target.
MCSymmetry == Permutations({w1, w2})

OutboxSpec == Init /\ [][Next /\ InOrder']_vars
=============================================================================

--------------------------- MODULE MCFanoutOutbox ---------------------------
(* Instances of FanoutOutbox for the runs that end in a counterexample. *)
EXTENDS FanoutOutbox

CONSTANTS e1, e2, f1, w1, w2

\* All events write the same file.
MCOneFile == [e \in Events |-> f1]

MCServesAll == [w \in Workers |-> Targets]

Bounds(backfills, dbErrors, crashes, deletions) ==
    [backfills |-> backfills, dbErrors |-> dbErrors, crashes |-> crashes, deletions |-> deletions]

MCNoFaults == Bounds(0, 0, 0, 0)
MCCrash == Bounds(0, 0, 1, 0)

=============================================================================

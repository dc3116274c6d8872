------------------------------- MODULE MCReads -------------------------------
(* The read side in three scopes: the session protocol under every call of    *)
(* the memory bank, the reads of its files with their cache, and the search   *)
(* pipeline over the retrieval sources.  A behaviour stays in its scope; what *)
(* the others check holds of their initial states.                            *)
EXTENDS McpSession, ReadCache, Retrieval

VARIABLE scope

readVars == <<scope, vars, rvars, searchVars>>

\* Searches that escalate and expand to a second variant, with and without a list of sources.
TwoVariants == [q \in {"q1", "q2"} |-> IF q = "q1" THEN <<"q1", "q2">> ELSE <<"q2">>]
MatchAll == [q \in {"q1", "q2"} |-> {"d"}]
NoLag == [s \in {"qdrant", "letta"} |-> 0]
LettaHolds == [s \in {"qdrant", "letta"} |-> IF s = "qdrant" THEN {} ELSE {"d"}]

\* Calls that are yet to begin are interchangeable, and so are idle readers: "a" and "r1" come first.
CallsInOrder == pc["b"] # "new" => pc["a"] # "new"
ReadersInOrder ==
    reads["r1"].pc = "idle" /\ reads["r2"].pc = "idle" => reads'["r2"].pc = "idle"

\* Two files with one cache key.
SameKey == [f \in Files |-> "f"]

\* With one key there is one refresh at a time, whatever its number.
FirstRefresh == \A t \in runners : t.id = 0

\* Two contents among the two files; bootstrap_missing is asked of files that have a placeholder.
TwoWrites == Len(until["f"]) + Len(until["F"]) <= 2
FlagMatters == \A r \in Readers : reads[r].bootstrap => reads[r].file \in Indexes

ReadInit ==
    /\ scope \in {"session", "files", "pipeline"}
    /\ Init /\ CacheInit /\ SearchInit

ReadNext ==
    \/ scope = "session" /\ Next /\ CallsInOrder' /\ UNCHANGED <<scope, rvars, searchVars>>
    \/ /\ scope = "files" /\ CacheNext /\ ReadersInOrder /\ FirstRefresh' /\ TwoWrites' /\ FlagMatters'
       /\ UNCHANGED <<scope, vars, searchVars>>
    \/ scope = "pipeline" /\ SearchNext /\ UNCHANGED <<scope, vars, rvars>>

\* The event loop runs a coroutine that can go on, timers fire and time passes.  All the counters
\* are bounded, so that this is enough for each coroutine to get its turn.
Ready ==
    \/ /\ scope = "session" /\ \E c \in Calls : Advance(c) \/ TakeLock(c)
       /\ UNCHANGED <<scope, rvars, searchVars>>
    \/ scope = "files" /\ CacheDue /\ UNCHANGED <<scope, vars, searchVars>>
    \/ scope = "pipeline" /\ Due /\ UNCHANGED <<scope, vars, rvars>>

ReadSpec == ReadInit /\ [][ReadNext]_readVars /\ WF_readVars(Ready)
=============================================================================

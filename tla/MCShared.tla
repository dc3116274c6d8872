------------------------------ MODULE MCShared ------------------------------
(* State that coroutines share, under its safety properties, in four scopes:  *)
(* the two storage backends of the outbox with their document operations, the *)
(* caches of retrieval results, those of the Letta source, and the Letta      *)
(* agent.  A behaviour stays in its scope; what the others check holds of     *)
(* their initial states.                                                      *)
EXTENDS OutboxBackend, Retrieval, LettaSearch, LettaAgent, TLC

CONSTANTS e1, e2, a1, a2
VARIABLE scope

\* Deep searches of services that get their document later, one of them with a cache of its own,
\* six ticks and a restart.
OneVariant == [q \in {"q1"} |-> <<q>>]
MatchAll == [q \in {"q1"} |-> {"d"}]
NothingHeld == [s \in {"qdrant", "letta"} |-> {}]
LettaLags == [s \in {"qdrant", "letta"} |-> IF s = "letta" THEN 1 ELSE 0]

\* A third fault, which a call that tried both backends meets in the first one again, or a third
\* enqueue call, not both.
OneThird == faults + enqueues < 6

\* In six ticks only a document that is there from the start gets old enough to be missed.
IndexedEarly == now > 0 => \E s \in Sources, d \in Docs : since[s][d] = 0

SharedInit ==
    /\ scope \in {"backend", "cache", "search", "agent"}
    /\ Init /\ SearchInit /\ LettaInit /\ AgentInit

SharedNext ==
    \/ /\ scope = "backend" /\ Next /\ OneThird'
       /\ UNCHANGED <<scope, searchVars, lettaVars, agentVars>>
    \/ /\ scope = "cache" /\ SearchNext /\ IndexedEarly'
       /\ UNCHANGED <<scope, ovars, lettaVars, agentVars>>
    \/ /\ scope = "search" /\ LettaNext
       /\ UNCHANGED <<scope, ovars, searchVars, agentVars>>
    \/ /\ scope = "agent" /\ AgentNext
       /\ UNCHANGED <<scope, ovars, searchVars, lettaVars>>

SharedSpec == SharedInit /\ [][SharedNext]_<<scope, ovars, searchVars, lettaVars, agentVars>>

MCSymmetry == Permutations({e1, e2}) \cup Permutations({a1, a2})
=============================================================================

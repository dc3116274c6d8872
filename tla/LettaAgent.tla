----------------------------- MODULE LettaAgent -----------------------------
(* The Letta agent of a session (services/orchestrator/app.py): resolving    *)
(* its id through a cache that is verified now and then, creating it when    *)
(* the server has none, repairing its endpoint configuration, and pushing    *)
(* archival entries to it.                                                   *)
(*                                                                           *)
(* The Letta server is external.  It keeps the agents that have the          *)
(* session's name; it answers with a conflict, or makes another one, when    *)
(* asked to create a name it has.  An agent whose endpoint configuration     *)
(* has drifted answers a push with a server error.                           *)
EXTENDS Naturals, FiniteSets

CONSTANTS Callers,      \* pushes to Letta, by fanout workers and requests
          MaxAgents, MaxDrifts, MaxAgentFaults, MaxForeign      \* bounds

VARIABLES agents,       \* ids of the agents the server has
          drifted,      \* those whose configuration needs the patch
          born,         \* ids given out so far
          idCache,      \* LETTA_AGENT_CACHE, 0 when empty
          verified,     \* LETTA_AGENT_VERIFIED_AT is within the interval
          agentLock,    \* letta_agent_lock: its holder, "free" otherwise
          at, aid,      \* per caller: where it is, the id it resolved
          again,        \* per caller: it posts for the second time
          stored,       \* per caller: archival entries the server keeps of its push
          seen,         \* per caller: drifts that had happened when its first post failed
          pending,      \* requests to create an agent whose caller gave up before the server came to them
          drifts, agentFaults, foreign, madeLate

agentVars == <<agents, drifted, born, idCache, verified, agentLock, at, aid, again, stored, seen,
               drifts, agentFaults, foreign, pending, madeLate>>

AgentInit ==
    /\ agents = {} /\ drifted = {} /\ born = 0 /\ idCache = 0 /\ verified = FALSE
    /\ agentLock = "free"
    /\ at = [c \in Callers |-> "resolve"] /\ aid = [c \in Callers |-> 0]
    /\ again = [c \in Callers |-> FALSE] /\ stored = [c \in Callers |-> 0]
    /\ seen = [c \in Callers |-> 0] /\ drifts = 0 /\ agentFaults = 0 /\ foreign = 0
    /\ pending = 0 /\ madeLate = 0

MovesTo(c, where) == at' = [at EXCEPT ![c] = where]
Release == agentLock' = "free"

\* An id verified within the interval is used as it is.
resolve_cached(c) ==
    /\ at[c] = "resolve" /\ idCache # 0 /\ verified
    /\ aid' = [aid EXCEPT ![c] = idCache] /\ MovesTo(c, "post")
    /\ UNCHANGED <<agents, drifted, born, idCache, verified, agentLock, again, stored, seen, drifts, agentFaults, foreign, pending, madeLate>>

\* Otherwise the caller waits for the lock.
resolve_waits(c) ==
    /\ at[c] = "resolve" /\ ~(idCache # 0 /\ verified) /\ MovesTo(c, "wait")
    /\ UNCHANGED <<agents, drifted, born, idCache, verified, agentLock, aid, again, stored, seen, drifts, agentFaults, foreign, pending, madeLate>>

ResolveUnlocked(c) ==
    /\ at[c] = "wait"
    /\ MovesTo(c, IF idCache # 0 THEN "verify" ELSE "lookup")
    /\ UNCHANGED <<agents, drifted, born, idCache, verified, agentLock, aid, again, stored, seen, drifts, agentFaults, foreign, pending, madeLate>>

\* With the lock it looks at the cache again, but not at when the id was verified.
resolve_locked(c) ==
    /\ at[c] = "wait" /\ agentLock = "free"
    /\ agentLock' = c
    /\ MovesTo(c, IF idCache # 0 THEN "verify" ELSE "lookup")
    /\ UNCHANGED <<agents, drifted, born, idCache, verified, aid, again, stored, seen, drifts, agentFaults, foreign, pending, madeLate>>

\* The agent is fetched, its configuration patched if it drifted, and its id kept.
Adopted(c, id) ==
    /\ drifted' = drifted \ {id}
    /\ idCache' = id /\ verified' = TRUE
    /\ aid' = [aid EXCEPT ![c] = id] /\ MovesTo(c, "post") /\ Release

verify_cached(c) ==
    /\ at[c] = "verify" /\ idCache \in agents
    /\ Adopted(c, idCache)
    /\ UNCHANGED <<agents, born, again, stored, seen, drifts, agentFaults, foreign, pending, madeLate>>

\* The server does not know the id any more: the call fails and the id stays cached.
verify_gone(c) ==
    /\ at[c] = "verify" /\ idCache \notin agents
    /\ MovesTo(c, "failed") /\ Release
    /\ UNCHANGED <<agents, drifted, born, idCache, verified, aid, again, stored, seen, drifts, agentFaults, foreign, pending, madeLate>>

\* The lookup by name; after a conflict an empty one ends the call.
lookup_by_name(c) ==
    /\ at[c] \in {"lookup", "relookup"}
    /\ \/ \E id \in agents : aid' = [aid EXCEPT ![c] = id] /\ MovesTo(c, "details") /\ UNCHANGED agentLock
       \/ /\ agents = {} /\ at[c] = "lookup" /\ MovesTo(c, "create") /\ UNCHANGED <<aid, agentLock>>
       \/ /\ agents = {} /\ at[c] = "relookup" /\ MovesTo(c, "failed") /\ Release /\ UNCHANGED aid
    /\ UNCHANGED <<agents, drifted, born, idCache, verified, again, stored, seen, drifts, agentFaults, foreign, pending, madeLate>>

lookup_details(c) ==
    /\ at[c] = "details"
    /\ \/ aid[c] \in agents /\ Adopted(c, aid[c])
       \/ aid[c] \notin agents /\ MovesTo(c, "failed") /\ Release
          /\ UNCHANGED <<drifted, idCache, verified, aid>>
    /\ UNCHANGED <<agents, born, again, stored, seen, drifts, agentFaults, foreign, pending, madeLate>>

\* The server makes the agent and its id is kept, or its answer is lost and the call fails.
create_agent(c) ==
    /\ at[c] = "create" /\ born < MaxAgents /\ born' = born + 1
    /\ agents' = agents \union {born'}
    /\ \/ Adopted(c, born') /\ UNCHANGED agentFaults
       \/ /\ agentFaults < MaxAgentFaults /\ agentFaults' = agentFaults + 1
          /\ MovesTo(c, "failed") /\ Release /\ UNCHANGED <<drifted, idCache, verified, aid>>
    /\ UNCHANGED <<again, stored, seen, drifts, foreign, pending, madeLate>>

\* Somebody else made it meanwhile: the lookup is repeated once.
create_conflict(c) ==
    /\ at[c] = "create" /\ agents # {} /\ MovesTo(c, "relookup")
    /\ UNCHANGED <<agents, drifted, born, idCache, verified, agentLock, aid, again, stored, seen, drifts, agentFaults, foreign, pending, madeLate>>

\* The caller gives up before the server comes to the request, which stays with the server.
create_times_out(c) ==
    /\ at[c] = "create" /\ agentFaults < MaxAgentFaults /\ agentFaults' = agentFaults + 1
    /\ pending' = pending + 1 /\ MovesTo(c, "failed") /\ Release
    /\ UNCHANGED <<agents, drifted, born, idCache, verified, aid, again, stored, seen, drifts, foreign, madeLate>>

\* Any request of the resolution may fail; the lock is released with the error.
resolve_fails(c) ==
    /\ at[c] \in {"verify", "lookup", "relookup", "details", "create"}
    /\ agentFaults < MaxAgentFaults /\ agentFaults' = agentFaults + 1
    /\ MovesTo(c, "failed") /\ Release
    /\ UNCHANGED <<agents, drifted, born, idCache, verified, aid, again, stored, seen, drifts, foreign, pending, madeLate>>

\* The entry is stored and the push succeeds.
post_archival(c) ==
    /\ at[c] = "post" /\ aid[c] \in agents \ drifted
    /\ stored' = [stored EXCEPT ![c] = @ + 1] /\ MovesTo(c, "ok")
    /\ UNCHANGED <<agents, drifted, born, idCache, verified, agentLock, aid, again, seen, drifts, agentFaults, foreign, pending, madeLate>>

ErrorKeepsVerified(c) ==
    IF again[c]
    THEN MovesTo(c, "failed") /\ UNCHANGED <<again, verified, seen>>
    ELSE /\ MovesTo(c, "resolve")
         /\ again' = [again EXCEPT ![c] = TRUE] /\ UNCHANGED verified
         /\ seen' = [seen EXCEPT ![c] = drifts]

\* After a server error the agent is verified again and the entry posted once more.
ServerError(c) ==
    IF again[c]
    THEN MovesTo(c, "failed") /\ UNCHANGED <<again, verified, seen>>
    ELSE /\ MovesTo(c, "resolve")
         /\ again' = [again EXCEPT ![c] = TRUE] /\ verified' = FALSE
         /\ seen' = [seen EXCEPT ![c] = drifts]

\* A server error: of an agent that drifted, or after the entry may have been stored.
post_server_error(c) ==
    /\ at[c] = "post" /\ aid[c] \in agents
    /\ \/ aid[c] \in drifted /\ UNCHANGED <<stored, agentFaults>>
       \/ /\ agentFaults < MaxAgentFaults /\ agentFaults' = agentFaults + 1
          /\ stored' \in {stored, [stored EXCEPT ![c] = @ + 1]}
    /\ ServerError(c)
    /\ UNCHANGED <<agents, drifted, born, idCache, agentLock, aid, drifts, foreign, pending, madeLate>>

\* The agent is unknown to the server, or the answer does not come in time.
post_refused(c) ==
    /\ at[c] = "post"
    /\ \/ aid[c] \notin agents /\ UNCHANGED <<stored, agentFaults>>
       \/ /\ aid[c] \in agents /\ agentFaults < MaxAgentFaults /\ agentFaults' = agentFaults + 1
          /\ stored' \in {stored, [stored EXCEPT ![c] = @ + 1]}
    /\ MovesTo(c, "failed")
    /\ UNCHANGED <<agents, drifted, born, idCache, verified, agentLock, aid, again, seen, drifts, foreign, pending, madeLate>>

\* The next push of the caller.
push_to_letta(c) ==
    /\ at[c] \in {"ok", "failed"} /\ MovesTo(c, "resolve")
    /\ aid' = [aid EXCEPT ![c] = 0] /\ again' = [again EXCEPT ![c] = FALSE]
    /\ stored' = [stored EXCEPT ![c] = 0] /\ seen' = [seen EXCEPT ![c] = 0]
    /\ UNCHANGED <<agents, drifted, born, idCache, verified, agentLock, drifts, agentFaults, foreign, pending, madeLate>>

\* The verification interval passes.
interval_passes ==
    /\ verified /\ verified' = FALSE
    /\ UNCHANGED <<agents, drifted, born, idCache, agentLock, at, aid, again, stored, seen, drifts, agentFaults, foreign, pending, madeLate>>

\* At the server: a configuration drifts, an agent is deleted, another process makes one.
AgentDrifts ==
    /\ drifts < MaxDrifts /\ drifts' = drifts + 1
    /\ \E id \in agents : drifted' = drifted \union {id}
    /\ UNCHANGED <<agents, born, idCache, verified, agentLock, at, aid, again, stored, seen, agentFaults, foreign, pending, madeLate>>

AgentDeleted ==
    /\ agentFaults < MaxAgentFaults /\ agentFaults' = agentFaults + 1
    /\ \E id \in agents : agents' = agents \ {id} /\ drifted' = drifted \ {id}
    /\ UNCHANGED <<born, idCache, verified, agentLock, at, aid, again, stored, seen, drifts, foreign, pending, madeLate>>

ForeignCreates ==
    /\ foreign < MaxForeign /\ foreign' = foreign + 1
    /\ born < MaxAgents /\ born' = born + 1 /\ agents' = agents \union {born'}
    /\ UNCHANGED <<drifted, idCache, verified, agentLock, at, aid, again, stored, seen, drifts, agentFaults, pending, madeLate>>

\* The server carries out a request nobody waits for, or answers it with a conflict.
CreatedLate ==
    /\ pending > 0 /\ pending' = pending - 1
    /\ \/ /\ born < MaxAgents /\ born' = born + 1 /\ agents' = agents \union {born'} /\ madeLate' = madeLate + 1
       \/ agents # {} /\ UNCHANGED <<agents, born, madeLate>>
    /\ UNCHANGED <<drifted, idCache, verified, agentLock, at, aid, again, stored, seen, drifts, agentFaults, foreign>>

AgentCall(c) ==
    \/ resolve_cached(c) \/ resolve_waits(c) \/ resolve_locked(c) \/ verify_cached(c) \/ verify_gone(c)
    \/ lookup_by_name(c) \/ lookup_details(c) \/ create_agent(c) \/ create_conflict(c)
    \/ create_times_out(c) \/ resolve_fails(c) \/ post_archival(c) \/ post_server_error(c) \/ post_refused(c)
    \/ push_to_letta(c)

AgentNext ==
    \/ \E c \in Callers : AgentCall(c)
    \/ interval_passes \/ AgentDrifts \/ AgentDeleted \/ ForeignCreates \/ CreatedLate

AgentSpec == AgentInit /\ [][AgentNext]_agentVars

----------------------------------------------------------------------------
\* Concurrent calls, lost answers and retries never make a second agent for the session: the
\* server has one besides those that other processes made and those it made of requests whose
\* caller had already given up, which the next caller's lookup cannot see
\* (_resolve_letta_agent_id).
OneAgent == Cardinality(agents) <= 1 + foreign + madeLate

\* A push that succeeds is stored, and one call stores its entry at most twice: a server error
\* that came after the entry was stored is followed by one more post.  This second post goes to
\* an agent that was repaired after the first one failed: if it has drifted, it did so since
\* (push_to_letta, "Force agent revalidation in case endpoint config drifted").
SecondPostRepaired ==
    \A c \in Callers :
        /\ stored[c] <= 2 /\ (at[c] = "ok" => stored[c] >= 1)
        /\ again[c] /\ at[c] = "post" /\ aid[c] \in drifted => drifts > seen[c]

=============================================================================

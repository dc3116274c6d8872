----------------------------- MODULE McpSession -----------------------------
(***************************************************************************)
(* The JSON-RPC client of the memory bank: one session id shared by every  *)
(* call, refreshed under a lock, lost whenever the bank restarts, and      *)
(* requests that are posted again when their answer does not arrive        *)
(* (_post_mcp_request, _ensure_mcp_session, _call_mcp in                   *)
(* services/orchestrator/app.py).                                          *)
(*                                                                         *)
(* Each member of Calls is one run of _call_mcp.  A posted request stays   *)
(* on the wire until the bank handles it, which may be never (it is lost)  *)
(* or after the caller has given up on it (it is executed late).           *)
(***************************************************************************)
EXTENDS Naturals, FiniteSets

CONSTANTS
    Calls,         \* calls made during the run
    Retries,       \* MEMMCP_HTTP_RETRIES
    MaxRestarts    \* bound: restarts of the bank

ASSUME RetriesAssumption == Retries \in Nat \ {0}
ASSUME RestartsAssumption == MaxRestarts \in Nat
ASSUME CallsAssumption == IsFiniteSet(Calls)

NoSession == 0
NoCall == "none"
ASSUME NoCallAssumption == NoCall \notin Calls

VARIABLES
    sessions,   \* ids the bank accepts
    issued,     \* ids it has handed out so far
    restarts,   \* restarts of the bank so far
    session,    \* MCP_SESSION_ID
    lock,       \* holder of mcp_session_lock
    pc,         \* where each call is
    attempt,    \* 1 or 2: the loop of _call_mcp
    tries,      \* posts made in this attempt: the loop of _post_mcp_request
    sid,        \* the session id this attempt posts with
    began,      \* value of restarts when the call began
    wire,       \* requests the bank may still handle
    ran         \* the posts of each call the bank has executed

vars == <<sessions, issued, restarts, session, lock, pc, attempt, tries, sid,
          began, wire, ran>>

Ended == {"ok", "failed", "session_invalid"}

Init ==
    /\ sessions = {} /\ issued = 0 /\ restarts = 0
    /\ session = NoSession /\ lock = NoCall
    /\ pc = [c \in Calls |-> "new"]
    /\ attempt = [c \in Calls |-> 1]
    /\ tries = [c \in Calls |-> 0]
    /\ sid = [c \in Calls |-> NoSession]
    /\ began = [c \in Calls |-> 0]
    /\ wire = {} /\ ran = [c \in Calls |-> {}]
-----------------------------------------------------------------------------
(* The call returns or raises; its locals are gone. *)
End(c, outcome) ==
    /\ pc' = [pc EXCEPT ![c] = outcome]
    /\ attempt' = [attempt EXCEPT ![c] = 1]
    /\ tries' = [tries EXCEPT ![c] = 0]
    /\ sid' = [sid EXCEPT ![c] = NoSession]

(* _ensure_mcp_session *)

(* Mutant: a forced refresh is satisfied with the cached id. *)
CachedUsable_always(c) == session # NoSession

(* The cached id is used by a first attempt; a second one forces a refresh.
   Both tests, before the lock and under it, are this one.                  *)
CachedUsable(c) == session # NoSession /\ attempt[c] = 1

Begin(c) ==
    /\ pc[c] = "new"
    /\ began' = [began EXCEPT ![c] = restarts]
    /\ pc' = [pc EXCEPT ![c] = "ensure"]
    /\ UNCHANGED <<sessions, issued, restarts, session, lock, attempt, tries, sid,
                   wire, ran>>

UseCached(c) ==
    /\ pc[c] = "ensure" /\ CachedUsable(c)
    /\ sid' = [sid EXCEPT ![c] = session]
    /\ tries' = [tries EXCEPT ![c] = 0]
    /\ pc' = [pc EXCEPT ![c] = "post"]
    /\ UNCHANGED <<sessions, issued, restarts, session, lock, attempt, began, wire, ran>>

(* The lock is taken with nothing usable in the cache; a forced refresh drops
   the cached id.  The initialize request is posted.                         *)
TakeLock(c) ==
    /\ pc[c] = "ensure" /\ ~CachedUsable(c) /\ lock = NoCall
    /\ lock' = c
    /\ session' = IF attempt[c] = 2 THEN NoSession ELSE session
    /\ pc' = [pc EXCEPT ![c] = "initialize"]
    /\ UNCHANGED <<sessions, issued, restarts, attempt, tries, sid, began, wire, ran>>

(* The bank opens a session.  The caller keeps the lock while it sends
   notifications/initialized, whose outcome it ignores.                      *)
Initialized(c) ==
    /\ pc[c] = "initialize"
    /\ issued' = issued + 1
    /\ sessions' = sessions \cup {issued + 1}
    /\ session' = issued + 1
    /\ sid' = [sid EXCEPT ![c] = issued + 1]
    /\ pc' = [pc EXCEPT ![c] = "notify"]
    /\ UNCHANGED <<restarts, lock, attempt, tries, began, wire, ran>>

(* Mutant: the lock is not released when initialize raises. *)
InitializeFailed_locked(c) ==
    /\ pc[c] = "initialize"
    /\ End(c, "failed")
    /\ UNCHANGED <<sessions, issued, restarts, session, lock, began, wire, ran>>

(* initialize fails after its own retries or is refused: the call raises. *)
InitializeFailed(c) ==
    /\ pc[c] = "initialize"
    /\ lock' = NoCall
    /\ End(c, "failed")
    /\ UNCHANGED <<sessions, issued, restarts, session, began, wire, ran>>

Notified(c) ==
    /\ pc[c] = "notify"
    /\ lock' = NoCall
    /\ tries' = [tries EXCEPT ![c] = 0]
    /\ pc' = [pc EXCEPT ![c] = "post"]
    /\ UNCHANGED <<sessions, issued, restarts, session, attempt, sid, began, wire, ran>>
-----------------------------------------------------------------------------
(* _post_mcp_request and the bank *)

(* Posts of both attempts are told apart by their number. *)
PostNo(c) == (attempt[c] - 1) * Retries + tries[c]

Post(c) ==
    /\ pc[c] = "post"
    /\ tries' = [tries EXCEPT ![c] = @ + 1]
    /\ wire' = wire \cup {[call |-> c, n |-> PostNo(c) + 1, sid |-> sid[c]]}
    /\ pc' = [pc EXCEPT ![c] = "posted"]
    /\ UNCHANGED <<sessions, issued, restarts, session, lock, attempt, sid, began, ran>>

(* A read timeout or a transport error: posted again, or given up. *)
PostTimeout(c) ==
    /\ pc[c] = "posted"
    /\ IF tries[c] < Retries
       THEN pc' = [pc EXCEPT ![c] = "post"] /\ UNCHANGED <<attempt, tries, sid>>
       ELSE End(c, "failed")
    /\ UNCHANGED <<sessions, issued, restarts, session, lock, began, wire, ran>>

(* The bank executes a request that carries a session it knows and refuses any
   other; only the caller's latest post is still being listened to.           *)
Handle(m) ==
    LET waiting == pc[m.call] = "posted" /\ PostNo(m.call) = m.n
        known   == m.sid \in sessions
    IN  /\ m \in wire
        /\ wire' = wire \ {m}
        /\ ran' = IF known THEN [ran EXCEPT ![m.call] = @ \cup {m.n}] ELSE ran
        /\ pc' = IF ~waiting THEN pc
                 ELSE [pc EXCEPT ![m.call] = IF known THEN "accepted" ELSE "refused"]
        /\ UNCHANGED <<sessions, issued, restarts, session, lock, attempt, tries, sid,
                       began>>

(* The bank restarts and forgets its sessions. *)
BankRestart ==
    /\ restarts < MaxRestarts
    /\ restarts' = restarts + 1
    /\ sessions' = {}
    /\ UNCHANGED <<issued, session, lock, pc, attempt, tries, sid, began, wire, ran>>
-----------------------------------------------------------------------------
(* The rest of _call_mcp *)

(* The answer may carry the session id, which then replaces the shared one; a
   result, or an error that is not about the session, ends the call.          *)
Receive(c) ==
    /\ pc[c] = "accepted"
    /\ session' \in {session, sid[c]}
    /\ \E outcome \in {"ok", "failed"} : End(c, outcome)
    /\ UNCHANGED <<sessions, issued, restarts, lock, began, wire, ran>>

(* Mutant: the second refusal is returned like a result. *)
SessionRefused_returned(c) ==
    /\ pc[c] = "refused"
    /\ session' = NoSession
    /\ IF attempt[c] = 1
       THEN /\ attempt' = [attempt EXCEPT ![c] = 2]
            /\ pc' = [pc EXCEPT ![c] = "ensure"]
            /\ UNCHANGED <<tries, sid>>
       ELSE End(c, "ok")
    /\ UNCHANGED <<sessions, issued, restarts, lock, began, wire, ran>>

(* _invalidate_mcp_session, then the second attempt or the final error. *)
SessionRefused(c) ==
    /\ pc[c] = "refused"
    /\ session' = NoSession
    /\ IF attempt[c] = 1
       THEN /\ attempt' = [attempt EXCEPT ![c] = 2]
            /\ pc' = [pc EXCEPT ![c] = "ensure"]
            /\ UNCHANGED <<tries, sid>>
       ELSE End(c, "session_invalid")
    /\ UNCHANGED <<sessions, issued, restarts, lock, began, wire, ran>>

(* The caller's own deadline (asyncio.wait_for around call_memory_tool) cancels
   the call wherever it waits; leaving the block releases the lock.            *)
Cancelled(c) ==
    /\ pc[c] \in {"ensure", "initialize", "notify", "posted"}
    /\ lock' = IF lock = c THEN NoCall ELSE lock
    /\ End(c, "failed")
    /\ UNCHANGED <<sessions, issued, restarts, session, began, wire, ran>>

(* A step a call takes on its own. *)
Advance(c) ==
    \/ Begin(c) \/ UseCached(c) \/ Initialized(c) \/ InitializeFailed(c) \/ Notified(c)
    \/ Post(c) \/ PostTimeout(c) \/ Receive(c) \/ SessionRefused(c)

Next ==
    \/ \E c \in Calls : Advance(c) \/ TakeLock(c) \/ Cancelled(c)
    \/ \E m \in wire : Handle(m)
    \/ BankRestart

Spec == Init /\ [][Next]_vars
-----------------------------------------------------------------------------
(* Every call is in one place of the code, inside the loops' bounds. *)
TypeOK ==
    /\ sessions \subseteq 1..issued /\ issued \in Nat
    /\ restarts \in 0..MaxRestarts
    /\ session \in 0..issued
    /\ lock \in Calls \cup {NoCall}
    /\ pc \in [Calls -> {"new", "ensure", "initialize", "notify", "post", "posted", "accepted",
                         "refused"} \cup Ended]
    /\ attempt \in [Calls -> {1, 2}]
    /\ tries \in [Calls -> 0..Retries]
    /\ sid \in [Calls -> 0..issued]
    /\ began \in [Calls -> 0..MaxRestarts]
    /\ wire \subseteq [call : Calls, n : Nat, sid : Nat]
    /\ ran \in [Calls -> SUBSET Nat]

(* A call ends with "session invalid and refresh failed" only if the bank
   restarted while it was in progress: one refresh is enough after any earlier
   restart, whatever other calls do to the shared id meanwhile, late answers
   that put an old id back and invalidations of a fresh one included.          *)
SessionFailureNeedsRestart ==
    \A c \in Calls : pc[c] = "session_invalid" => restarts > began[c]

(* A call that answers was executed, and no call is executed more often than
   its two attempts could post, less the post that was refused in between.    *)
ExecutedAtLeastOnce ==
    \A c \in Calls : /\ pc[c] = "ok" => ran[c] # {}
                     /\ Cardinality(ran[c]) <= 2 * Retries - 1

(* Every call ends: the lock is released on every path, and both loops are
   bounded.                                                                  *)
CallsEnd == \A c \in Calls : []<>(pc[c] \in Ended \cup {"new"})
=============================================================================

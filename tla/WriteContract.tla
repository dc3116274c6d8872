--------------------------- MODULE WriteContract ---------------------------
(* What POST /memory/write promises about raw copies, whatever queues, windows, *)
(* buffers and workers lie behind it: a request is answered at most once, and   *)
(* one that is told "ok" or "unchanged" has a copy that is never given up.      *)
CONSTANTS Clients, Answers

VARIABLES answer,   \* per request: its answer, or "none"
          safe      \* the requests with a raw copy

Granting == {"ok", "unchanged"}

Init == answer = [c \in Clients |-> "none"] /\ safe = {}

\* A copy is made, before or after the answer.
Secure(c) == safe' = safe \union {c} /\ UNCHANGED answer

\* The request is answered; a good answer needs a copy that is there already or is made just now.
Answer(c, a) ==
    /\ answer[c] = "none"
    /\ answer' = [answer EXCEPT ![c] = a]
    /\ safe' \in {safe, safe \union {c}}
    /\ a \in Granting => c \in safe'

\* The process dies: the requests under way are all cut off.
Die(cut) ==
    /\ \A c \in cut : answer[c] = "none"
    /\ answer' = [c \in Clients |-> IF c \in cut THEN "cut" ELSE answer[c]]
    /\ UNCHANGED safe

Next ==
    \/ \E cut \in SUBSET Clients : Die(cut)
    \/ \E c \in Clients : Secure(c) \/ \E a \in Answers \ {"cut"} : Answer(c, a)

Spec == Init /\ [][Next]_<<answer, safe>>
=============================================================================

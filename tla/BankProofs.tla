----------------------------- MODULE BankProofs -----------------------------
(***************************************************************************)
(* The memory bank as its client sees it.  The session protocol, for any    *)
(* number of calls, retries and restarts of the bank: one refresh of the    *)
(* session is enough unless the bank restarts during the call, and a call   *)
(* is executed at most as often as its posts allow.  The cache of its files *)
(* for any number of readers, files and refreshes: what a read serves left  *)
(* the bank no longer ago than the bounds of the cache allow.               *)
(***************************************************************************)
EXTENDS McpSession, ReadCache, FiniteSetTheorems, TLAPS

-----------------------------------------------------------------------------
(* The session protocol *)


\* The number of the last post of a call.
Posts(c) == IF attempt[c] = 1 THEN tries[c] ELSE Retries + tries[c]

\* The most a post number of a call in progress can be: its tries are reset only when the
\* session of the attempt is there.
Limit(c) ==
    IF pc[c] \in {"ensure", "initialize", "notify"}
    THEN (IF attempt[c] = 1 THEN 0 ELSE Retries) ELSE Posts(c)

\* The number n has been posted by c and is on the wire or was executed.
Sent(c, n) == n \in ran[c] \/ \E m \in wire : m.call = c /\ m.n = n

\* A call posts again only while it has tries left, and starts with all of them.
TriesLeft ==
    \A c \in Calls : /\ pc[c] = "post" => tries[c] < Retries
                     /\ pc[c] = "new" => attempt[c] = 1 /\ tries[c] = 0

\* What a second attempt knows of its session: the bank gave it out during the call.
SecondKnown ==
    \A c \in Calls :
        /\ began[c] <= restarts
        /\ attempt[c] = 2 /\ pc[c] \in {"notify", "post", "posted", "accepted"}
             => sid[c] \in sessions \/ restarts > began[c]
        /\ attempt[c] = 2 /\ pc[c] = "refused" => restarts > began[c]
        /\ pc[c] = "session_invalid" => restarts > began[c]

\* Posts of a call are numbered apart, and each is executed at most once.
Numbered ==
    /\ \A c \in Calls, n \in Nat : Sent(c, n) =>
         /\ n \in 1..(2 * Retries)
         /\ pc[c] \notin Ended => n <= Limit(c)
    /\ \A m \in wire : m.n \notin ran[m.call]
    /\ \A m1, m2 \in wire : m1.call = m2.call /\ m1.n = m2.n => m1 = m2

\* The post a call listens for carries the session of its attempt.
Listening ==
    \A m \in wire : pc[m.call] = "posted" /\ m.n = Posts(m.call) => m.sid = sid[m.call]

\* A call that went on to a second attempt has one post that is never executed.
Spared ==
    \A c \in Calls :
        /\ pc[c] = "refused" => Posts(c) > 0 /\ ~Sent(c, Posts(c))
        /\ pc[c] \in {"accepted", "ok"} => ran[c] # {}
        /\ attempt[c] = 2 => \E k \in 1..Retries : ~Sent(c, k)
        /\ pc[c] \in Ended => \/ \A n \in Nat : Sent(c, n) => n <= Retries
                              \/ \E k \in 1..Retries : ~Sent(c, k)

IInv == TypeOK /\ TriesLeft /\ SecondKnown /\ Numbered /\ Listening /\ Spared

-----------------------------------------------------------------------------
\* The two ways of writing the number of the last post agree.
LEMMA PostNumber ==
    ASSUME TypeOK, NEW c \in Calls
    PROVE  PostNo(c) = Posts(c) /\ Posts(c) \in 0..(2 * Retries)
  <1>1. attempt[c] \in {1, 2} /\ tries[c] \in 0..Retries /\ Retries \in Nat
    BY RetriesAssumption DEF TypeOK
  <1>2. CASE attempt[c] = 1  BY <1>1, <1>2 DEF PostNo, Posts
  <1>3. CASE attempt[c] = 2  BY <1>1, <1>3 DEF PostNo, Posts
  <1> QED  BY <1>1, <1>2, <1>3

\* The invariant holds before any call.
LEMMA InitIInv == Init => IInv
  <1> SUFFICES ASSUME Init PROVE IInv
    BY Zenon
  <1> USE RetriesAssumption, RestartsAssumption DEF Init
  <1>1. TypeOK
    BY DEF TypeOK, NoSession, NoCall
  <1>2. TriesLeft /\ SecondKnown /\ Listening
    BY DEF TriesLeft, SecondKnown, Listening
  <1>3. \A c \in Calls, n \in Nat : ~Sent(c, n)
    BY DEF Sent
  <1>4. Numbered
    BY <1>3 DEF Numbered
  <1>5. Spared
    BY <1>3 DEF Spared, Ended
  <1> QED  BY <1>1, <1>2, <1>4, <1>5 DEF IInv

\* Only c moves; the requests on the wire and those executed stay.
Moves(c) ==
    /\ \A q \in Calls \ {c} : /\ pc'[q] = pc[q] /\ attempt'[q] = attempt[q] /\ tries'[q] = tries[q]
                              /\ sid'[q] = sid[q] /\ began'[q] = began[q]
    /\ UNCHANGED <<wire, ran, restarts>>
    /\ sessions \subseteq sessions'

\* A call that moves on keeps the invariant if its new place asks no more than it has.
LEMMA MoveCall ==
    ASSUME IInv, TypeOK', NEW c \in Calls, Moves(c),
           pc'[c] = "post" => tries'[c] < Retries,
           began'[c] <= restarts,
           attempt'[c] = 2 /\ pc'[c] \in {"notify", "post", "posted", "accepted"}
               => sid'[c] \in sessions' \/ restarts > began'[c],
           pc'[c] = "session_invalid" => restarts > began'[c],
           pc'[c] \notin {"new", "posted", "refused", "accepted"},
           pc'[c] = "ok" => ran[c] # {},
           pc'[c] \notin Ended => pc[c] \notin Ended /\ Limit(c) <= Limit(c)',
           attempt'[c] = 2 => attempt[c] = 2 \/ \E k \in 1..Retries : ~Sent(c, k)
    PROVE  IInv'
  <1>1. \A q \in Calls, n \in Nat : Sent(q, n)' <=> Sent(q, n)
    BY DEF Moves, Sent
  <1>2. \A q \in Calls \ {c} : Limit(q)' = Limit(q) /\ Posts(q)' = Posts(q)
    BY DEF Moves, Limit, Posts
  <1>3. TriesLeft'
    BY DEF Moves, IInv, TriesLeft
  <1>4. SecondKnown'
    <2>1. ASSUME NEW q \in Calls
          PROVE  /\ began'[q] <= restarts'
                 /\ attempt'[q] = 2 /\ pc'[q] \in {"notify", "post", "posted", "accepted"}
                      => sid'[q] \in sessions' \/ restarts' > began'[q]
                 /\ attempt'[q] = 2 /\ pc'[q] = "refused" => restarts' > began'[q]
                 /\ pc'[q] = "session_invalid" => restarts' > began'[q]
      <3>1. CASE q = c  BY <3>1 DEF Moves
      <3>2. CASE q # c  BY <3>2 DEF Moves, IInv, SecondKnown
      <3> QED  BY <3>1, <3>2
    <2> QED  BY <2>1 DEF SecondKnown
  <1>5. Numbered'
    <2>1. Limit(c) \in Nat /\ Limit(c)' \in Nat
      BY RetriesAssumption DEF IInv, TypeOK, Limit, Posts
    <2>2. ASSUME NEW q \in Calls, NEW n \in Nat, Sent(q, n)'
          PROVE  n \in 1..(2 * Retries) /\ (pc'[q] \notin Ended => n <= Limit(q)')
      <3>1. Sent(q, n) /\ n \in 1..(2 * Retries) /\ (pc[q] \notin Ended => n <= Limit(q))
        BY <1>1, <2>2 DEF IInv, Numbered
      <3>2. CASE q = c  BY <2>1, <3>1, <3>2
      <3>3. CASE q # c  BY <1>2, <3>1, <3>3 DEF Moves
      <3> QED  BY <3>1, <3>2, <3>3
    <2>3. wire' = wire /\ ran' = ran
      BY DEF Moves
    <2> QED  BY <2>2, <2>3 DEF IInv, Numbered
  <1>6. Listening'
    <2>1. wire' = wire /\ \A m \in wire : m.call \in Calls
      BY Zenon DEF Moves, IInv, TypeOK
    <2> QED  BY <1>2, <2>1 DEF Moves, IInv, Listening
  <1>7. Spared'
    <2>1. ASSUME NEW q \in Calls
          PROVE  /\ pc'[q] = "refused" => Posts(q)' > 0 /\ ~Sent(q, Posts(q))'
                 /\ pc'[q] \in {"accepted", "ok"} => ran'[q] # {}
                 /\ attempt'[q] = 2 => \E k \in 1..Retries : ~Sent(q, k)'
                 /\ pc'[q] \in Ended => \/ \A n \in Nat : Sent(q, n)' => n <= Retries
                                        \/ \E k \in 1..Retries : ~Sent(q, k)'
      <3>0. 1..Retries \subseteq Nat
        BY RetriesAssumption
      <3>1. CASE q = c
        <4>1. attempt[c] = 2 => \E k \in 1..Retries : ~Sent(c, k)
          BY DEF IInv, Spared
        <4>2. attempt'[c] = 2 => \E k \in 1..Retries : ~Sent(c, k)'
          BY <1>1, <3>0, <4>1
        <4>3. attempt[c] = 1 /\ pc[c] \notin Ended => \A n \in Nat : Sent(c, n) => n <= Retries
          <5>1. attempt[c] = 1 => Limit(c) \in Nat /\ Limit(c) <= Retries
            BY RetriesAssumption DEF IInv, TypeOK, Limit, Posts
          <5>2. pc[c] \notin Ended => \A n \in Nat : Sent(c, n) => n <= Limit(c)
            BY Zenon DEF IInv, Numbered
          <5> QED  BY <5>1, <5>2, RetriesAssumption
        <4>4. \/ \A n \in Nat : Sent(c, n) => n <= Retries
              \/ \E k \in 1..Retries : ~Sent(c, k)
          BY Zenon, <4>1, <4>3 DEF IInv, Spared, TypeOK
        <4>5. \/ \A n \in Nat : Sent(c, n)' => n <= Retries
              \/ \E k \in 1..Retries : ~Sent(c, k)'
          BY Zenon, <1>1, <3>0, <4>4
        <4> QED  BY Zenon, <3>1, <4>2, <4>5 DEF Moves
      <3>2. CASE q # c
        <4>1. /\ pc'[q] = pc[q] /\ attempt'[q] = attempt[q] /\ ran' = ran
              /\ Posts(q)' = Posts(q)
          BY Zenon, <1>2, <3>2 DEF Moves
        <4>2. Posts(q) \in Nat
          BY PostNumber, RetriesAssumption DEF IInv
        <4>3. \A n \in Nat : Sent(q, n)' <=> Sent(q, n)
          BY <1>1
        <4>4. Sent(q, Posts(q))' <=> Sent(q, Posts(q))
          BY <4>1, <4>2, <4>3 DEF Sent, Moves
        <4> QED  BY <3>0, <4>1, <4>3, <4>4 DEF IInv, Spared
      <3> QED  BY <3>1, <3>2
    <2> QED  BY <2>1 DEF Spared
  <1> QED  BY <1>3, <1>4, <1>5, <1>6, <1>7 DEF IInv

\* What the invariant says of one call, as numbers and places.
LEMMA CallFacts ==
    ASSUME IInv, NEW c \in Calls
    PROVE  /\ attempt[c] \in {1, 2} /\ tries[c] \in 0..Retries /\ Retries \in Nat \ {0}
           /\ sid[c] \in 0..issued /\ began[c] \in Nat /\ began[c] <= restarts /\ restarts \in Nat
           /\ pc \in [Calls -> {"new", "ensure", "initialize", "notify", "post", "posted",
                                "accepted", "refused"} \cup Ended]
           /\ attempt \in [Calls -> {1, 2}] /\ tries \in [Calls -> 0..Retries]
           /\ sid \in [Calls -> 0..issued] /\ began \in [Calls -> 0..MaxRestarts]
  BY RetriesAssumption, RestartsAssumption DEF IInv, TypeOK, SecondKnown

\* The call ends, wherever it is.
LEMMA EndStep ==
    ASSUME IInv, NEW c \in Calls, NEW outcome \in Ended, End(c, outcome),
           UNCHANGED <<sessions, issued, restarts, began, wire, ran>>,
           session' \in 0..issued, lock' \in Calls \cup {NoCall},
           outcome = "session_invalid" => restarts > began[c],
           outcome = "ok" => ran[c] # {}
    PROVE  IInv'
  <1> USE CallFacts
  <1>1. TypeOK'
    BY DEF IInv, TypeOK, End, NoSession
  <1>2. Moves(c)
    BY DEF Moves, End
  <1>3. pc'[c] = outcome /\ attempt'[c] = 1 /\ tries'[c] = 0 /\ began'[c] = began[c]
    BY DEF End
  <1> QED  BY Zenon, <1>1, <1>2, <1>3, MoveCall DEF Ended

\* The steps before the call has its session.
LEMMA EnsureStep ==
    ASSUME IInv, NEW c \in Calls,
           \/ Begin(c) \/ UseCached(c) \/ TakeLock(c) \/ Initialized(c) \/ Notified(c)
    PROVE  IInv'
  <1> USE CallFacts
  <1>1. CASE Begin(c)
    <2>1. TypeOK'
      BY <1>1 DEF IInv, TypeOK, Begin
    <2>2. Moves(c)
      BY <1>1 DEF Moves, Begin
    <2>3. /\ pc[c] = "new" /\ pc'[c] = "ensure" /\ attempt' = attempt /\ began'[c] = restarts
          /\ attempt[c] = 1 /\ tries[c] = 0
      BY Zenon, <1>1 DEF IInv, TriesLeft, Begin
    <2>4. Limit(c) = 0 /\ Limit(c)' = 0
      BY Zenon, <2>3 DEF Limit, Posts
    <2> QED  BY <2>1, <2>2, <2>3, <2>4, MoveCall DEF Ended
  <1>2. CASE UseCached(c)
    <2>1. TypeOK'
      BY <1>2 DEF IInv, TypeOK, UseCached
    <2>2. Moves(c)
      BY <1>2 DEF Moves, UseCached
    <2>3. /\ pc[c] = "ensure" /\ pc'[c] = "post" /\ attempt[c] = 1 /\ attempt' = attempt
          /\ tries'[c] = 0 /\ began' = began
      BY Zenon, <1>2 DEF UseCached, CachedUsable
    <2>4. Limit(c) = 0 /\ Limit(c)' = 0
      BY Zenon, <2>3 DEF Limit, Posts
    <2> QED  BY <2>1, <2>2, <2>3, <2>4, MoveCall DEF Ended
  <1>3. CASE TakeLock(c)
    <2>1. TypeOK'
      BY <1>3 DEF IInv, TypeOK, TakeLock, NoSession
    <2>2. Moves(c)
      BY <1>3 DEF Moves, TakeLock
    <2>3. pc[c] = "ensure" /\ pc'[c] = "initialize" /\ attempt' = attempt /\ began' = began
      BY <1>3 DEF TakeLock
    <2>4. Limit(c) \in Nat /\ Limit(c)' = Limit(c)
      BY Zenon, <2>3 DEF Limit
    <2> QED  BY <2>1, <2>2, <2>3, <2>4, MoveCall DEF Ended
  <1>4. CASE Initialized(c)
    <2>1. TypeOK'
      BY <1>4 DEF IInv, TypeOK, Initialized
    <2>2. Moves(c)
      BY <1>4 DEF Moves, Initialized
    <2>3. /\ pc[c] = "initialize" /\ pc'[c] = "notify" /\ attempt' = attempt /\ began' = began
          /\ sid'[c] \in sessions'
      BY Zenon, <1>4 DEF Initialized
    <2>4. Limit(c) \in Nat /\ Limit(c)' = Limit(c)
      BY Zenon, <2>3 DEF Limit
    <2> QED  BY <2>1, <2>2, <2>3, <2>4, MoveCall DEF Ended
  <1>5. CASE Notified(c)
    <2>1. TypeOK'
      BY <1>5 DEF IInv, TypeOK, Notified
    <2>2. Moves(c)
      BY <1>5 DEF Moves, Notified
    <2>3. /\ pc[c] = "notify" /\ pc'[c] = "post" /\ attempt' = attempt /\ began' = began
          /\ sid' = sid /\ sessions' = sessions /\ tries'[c] = 0
      BY Zenon, <1>5 DEF Notified
    <2>4. Limit(c) \in Nat /\ Limit(c)' = Limit(c)
      BY <2>3 DEF Limit, Posts
    <2>5. attempt[c] = 2 => sid[c] \in sessions \/ restarts > began[c]
      BY <2>3 DEF IInv, SecondKnown
    <2> QED  BY <2>1, <2>2, <2>3, <2>4, <2>5, MoveCall DEF Ended
  <1> QED  BY Zenon, <1>1, <1>2, <1>3, <1>4, <1>5

\* The steps after an answer, a refusal, a timeout or a cancellation.
LEMMA OutcomeStep ==
    ASSUME IInv, NEW c \in Calls,
           InitializeFailed(c) \/ PostTimeout(c) \/ Receive(c) \/ SessionRefused(c) \/ Cancelled(c)
    PROVE  IInv'
  <1> USE CallFacts
  <1>0. /\ NoCall \in Calls \cup {NoCall} /\ lock \in Calls \cup {NoCall}
        /\ session \in 0..issued /\ NoSession \in 0..issued
    BY DEF IInv, TypeOK, NoSession
  <1>1. CASE InitializeFailed(c)
    BY <1>0, <1>1, EndStep DEF InitializeFailed, Ended
  <1>2. CASE PostTimeout(c)
    <2>1. CASE tries[c] < Retries
      <3>1. TypeOK'
        BY <1>2, <2>1 DEF IInv, TypeOK, PostTimeout
      <3>2. Moves(c)
        BY Zenon, <1>2, <2>1 DEF Moves, PostTimeout
      <3>3. /\ pc[c] = "posted" /\ pc'[c] = "post" /\ attempt' = attempt /\ began' = began
            /\ sid' = sid /\ sessions' = sessions /\ tries' = tries
        BY <1>2, <2>1 DEF PostTimeout
      <3>4. Limit(c) \in Nat /\ Limit(c)' = Limit(c)
        BY <3>3 DEF Limit, Posts
      <3>5. attempt[c] = 2 => sid[c] \in sessions \/ restarts > began[c]
        BY Zenon, <3>3 DEF IInv, SecondKnown
      <3> QED  BY <2>1, <3>1, <3>2, <3>3, <3>4, <3>5, MoveCall DEF Ended
    <2>2. CASE ~(tries[c] < Retries)
      BY Zenon, <1>0, <1>2, <2>2, EndStep DEF PostTimeout, Ended
    <2> QED  BY Zenon, <2>1, <2>2
  <1>3. CASE Receive(c)
    <2>1. pc[c] = "accepted" /\ ran[c] # {} /\ session' \in 0..issued
      BY Zenon, <1>0, <1>3 DEF Receive, IInv, Spared
    <2>2. PICK outcome \in {"ok", "failed"} : End(c, outcome)
      BY <1>3 DEF Receive
    <2> QED  BY Zenon, <1>0, <1>3, <2>1, <2>2, EndStep DEF Receive, Ended
  <1>4. CASE SessionRefused(c)
    <2>1. CASE attempt[c] = 1
      <3>1. TypeOK'
        BY <1>0, <1>4, <2>1 DEF IInv, TypeOK, SessionRefused
      <3>2. Moves(c)
        BY Zenon, <1>4, <2>1 DEF Moves, SessionRefused
      <3>3. /\ pc[c] = "refused" /\ pc'[c] = "ensure" /\ attempt'[c] = 2 /\ began' = began
        BY Zenon, <1>4, <2>1 DEF SessionRefused
      <3>4. Limit(c) = tries[c] /\ Limit(c)' = Retries
        BY <2>1, <3>3 DEF Limit, Posts
      <3>5. tries[c] \in 1..Retries /\ ~Sent(c, tries[c])
        BY <2>1, <3>3 DEF IInv, Spared, Posts
      <3> QED  BY <3>1, <3>2, <3>3, <3>4, <3>5, MoveCall DEF Ended
    <2>2. CASE attempt[c] = 2
      <3>1. restarts > began[c]
        BY Zenon, <1>4, <2>2 DEF SessionRefused, IInv, SecondKnown
      <3> QED  BY <1>0, <1>4, <2>2, <3>1, EndStep DEF SessionRefused, Ended
    <2> QED  BY Zenon, <2>1, <2>2
  <1>5. CASE Cancelled(c)
    BY Zenon, <1>0, <1>5, EndStep DEF Cancelled, Ended
  <1> QED  BY Zenon, <1>1, <1>2, <1>3, <1>4, <1>5

\* A request goes out under a number of its own.
LEMMA PostStep ==
    ASSUME IInv, NEW c \in Calls, Post(c)
    PROVE  IInv'
  <1> USE CallFacts
  <1> DEFINE n0 == Posts(c) + 1
             new == [call |-> c, n |-> n0, sid |-> sid[c]]
  <1>1. /\ pc[c] = "post" /\ tries[c] < Retries
        /\ pc' = [pc EXCEPT ![c] = "posted"] /\ tries' = [tries EXCEPT ![c] = @ + 1]
        /\ wire' = wire \cup {new}
        /\ UNCHANGED <<sessions, issued, restarts, session, lock, attempt, sid, began, ran>>
    BY Zenon, PostNumber DEF Post, IInv, TriesLeft
  <1>2. /\ Posts(c) \in Nat /\ n0 \in 1..(2 * Retries) /\ Posts(c)' = n0 /\ Posts(c) < n0
        /\ Limit(c) = Posts(c) /\ Limit(c)' = n0 /\ (attempt[c] = 2 => n0 > Retries)
    BY <1>1 DEF Posts, Limit
  <1>3. \A q \in Calls \ {c} : pc'[q] = pc[q] /\ Limit(q)' = Limit(q) /\ Posts(q)' = Posts(q)
    BY Zenon, <1>1 DEF Limit, Posts
  <1>4. \A n \in Nat : Sent(c, n) => n <= Posts(c)
    BY <1>1, <1>2 DEF IInv, Numbered, Ended
  <1>n. new.call = c /\ new.n = n0 /\ new.sid = sid[c]
    BY Zenon
  <1> HIDE DEF n0
  <1>5. /\ \A q \in Calls \ {c}, n \in Nat : Sent(q, n)' <=> Sent(q, n)
        /\ \A n \in Nat : Sent(c, n)' <=> Sent(c, n) \/ n = n0
    <2> HIDE DEF new
    <2>1. wire' = wire \cup {new} /\ ran' = ran
      BY Zenon, <1>1 DEF new
    <2> QED  BY Zenon, <1>n, <2>1 DEF Sent
  <1>6. TypeOK'
    BY <1>1, <1>2 DEF IInv, TypeOK
  <1>7. TriesLeft' /\ SecondKnown'
    BY <1>1 DEF IInv, TriesLeft, SecondKnown
  <1>8. ~Sent(c, n0)
    <2>1. n0 \in Nat /\ ~(n0 <= Posts(c))
      BY <1>2
    <2> QED  BY Zenon, <1>4, <2>1
  <1>w. \A m \in wire : m.call \in Calls /\ m.n \in Nat /\ Sent(m.call, m.n)
    BY Zenon DEF IInv, TypeOK, Sent
  <1>9. Numbered'
    <2>1. ASSUME NEW q \in Calls, NEW n \in Nat, Sent(q, n)'
          PROVE  n \in 1..(2 * Retries) /\ (pc'[q] \notin Ended => n <= Limit(q)')
      <3>1. CASE q = c
        <4>1. Sent(c, n) \/ n = n0
          BY Zenon, <1>5, <2>1, <3>1
        <4>2. CASE n = n0  BY <1>2, <3>1, <4>2
        <4>3. CASE Sent(c, n)
          <5>1. n <= Posts(c) /\ n \in 1..(2 * Retries)
            BY Zenon, <1>4, <4>3 DEF IInv, Numbered
          <5> QED  BY <1>2, <3>1, <5>1
        <4> QED  BY Zenon, <4>1, <4>2, <4>3
      <3>2. CASE q # c  BY Zenon, <1>3, <1>5, <2>1, <3>2 DEF IInv, Numbered
      <3> QED  BY Zenon, <3>1, <3>2
    <2>2. \A m \in wire' : m.n \notin ran'[m.call]
      <3>1. n0 \notin ran[c]
        BY Zenon, <1>8 DEF Sent
      <3> QED  BY <1>1, <3>1 DEF IInv, Numbered
    <2>3. \A m \in wire : ~(m.call = c /\ m.n = n0)
      BY Zenon, <1>8 DEF Sent
    <2>4. \A m1, m2 \in wire' : m1.call = m2.call /\ m1.n = m2.n => m1 = m2
      BY <1>1, <2>3 DEF IInv, Numbered
    <2> QED  BY Zenon, <2>1, <2>2, <2>4 DEF Numbered
  <1>10. Listening'
    <2>1. \A m \in wire : m.call = c => m.n # n0
      BY Zenon, <1>8 DEF Sent
    <2> QED  BY <1>1, <1>2, <1>3, <1>w, <2>1 DEF IInv, Listening
  <1>11. Spared'
    <2>1. ASSUME NEW q \in Calls
          PROVE  /\ pc'[q] = "refused" => Posts(q)' > 0 /\ ~Sent(q, Posts(q))'
                 /\ pc'[q] \in {"accepted", "ok"} => ran'[q] # {}
                 /\ attempt'[q] = 2 => \E k \in 1..Retries : ~Sent(q, k)'
                 /\ pc'[q] \in Ended => \/ \A n \in Nat : Sent(q, n)' => n <= Retries
                                        \/ \E k \in 1..Retries : ~Sent(q, k)'
      <3>1. CASE q = c
        <4>1. ASSUME attempt[c] = 2 PROVE \E k \in 1..Retries : ~Sent(c, k)'
          <5>1. PICK k \in 1..Retries : ~Sent(c, k)
            BY Zenon, <4>1 DEF IInv, Spared
          <5>2. k \in Nat /\ k # n0
            BY <1>2, <4>1
          <5> QED  BY Zenon, <1>5, <5>1, <5>2
        <4> QED  BY Zenon, <1>1, <3>1, <4>1 DEF Ended
      <3>2. CASE q # c
        <4>1. pc'[q] = pc[q] /\ attempt'[q] = attempt[q] /\ ran' = ran /\ Posts(q)' = Posts(q)
          BY Zenon, <1>1, <1>3, <3>2
        <4>2. Posts(q) \in Nat /\ 1..Retries \subseteq Nat
          BY PostNumber DEF IInv
        <4>3. \A n \in Nat : Sent(q, n)' <=> Sent(q, n)
          BY Zenon, <1>5, <3>2
        <4>4. Sent(q, Posts(q))' <=> Sent(q, Posts(q))
          BY <1>1, <3>2, <4>1 DEF Sent
        <4> QED  BY Zenon, <4>1, <4>2, <4>3, <4>4 DEF IInv, Spared
      <3> QED  BY Zenon, <3>1, <3>2
    <2> QED  BY Zenon, <2>1 DEF Spared
  <1> QED  BY Zenon, <1>6, <1>7, <1>9, <1>10, <1>11 DEF IInv

\* The bank handles a request, in time or late.
LEMMA HandleStep ==
    ASSUME IInv, NEW m \in wire, Handle(m)
    PROVE  IInv'
  <1> DEFINE c == m.call
             waiting == pc[c] = "posted" /\ Posts(c) = m.n
             known == m.sid \in sessions
  <1>1. c \in Calls /\ m.n \in Nat \ {0} /\ m.n \notin ran[c]
    <2>1. m.call \in Calls /\ m.n \in Nat
      BY Zenon DEF IInv, TypeOK
    <2> QED  BY <2>1 DEF IInv, Numbered, Sent
  <1> USE CallFacts
  <1>2. /\ wire' = wire \ {m}
        /\ ran' = (IF known THEN [ran EXCEPT ![c] = @ \cup {m.n}] ELSE ran)
        /\ pc' = (IF ~waiting THEN pc ELSE [pc EXCEPT ![c] = IF known THEN "accepted" ELSE "refused"])
        /\ UNCHANGED <<sessions, issued, restarts, session, lock, attempt, tries, sid, began>>
    BY Zenon, <1>1, PostNumber DEF Handle, IInv
  <1>3. ran \in [Calls -> SUBSET Nat]
    BY Zenon DEF IInv, TypeOK
  <1>4. TypeOK'
    BY Zenon, <1>1, <1>2 DEF IInv, TypeOK
  <1>5. \A q \in Calls : \/ pc'[q] = pc[q]
                         \/ /\ q = c /\ waiting
                            /\ pc'[q] = IF known THEN "accepted" ELSE "refused"
    BY Zenon, <1>1, <1>2
  <1>6. \A q \in Calls : Posts(q)' = Posts(q) /\ (pc[q] \notin Ended => Limit(q)' = Limit(q))
    BY Zenon, <1>2, <1>5 DEF Posts, Limit
  <1>7. \A q \in Calls : ran[q] \subseteq ran'[q] /\ (known => ran'[c] = ran[c] \cup {m.n})
    BY Zenon, <1>1, <1>2, <1>3
  <1>8. \A q \in Calls : \A n : Sent(q, n)' => Sent(q, n)
    BY Zenon, <1>1, <1>2, <1>3 DEF Sent
  <1>9. TriesLeft'
    BY Zenon, <1>2, <1>5 DEF IInv, TriesLeft
  <1>10. SecondKnown'
    <2>1. waiting => m.sid = sid[c]
      BY Zenon DEF IInv, Listening
    <2>2. waiting /\ ~known /\ attempt[c] = 2 => restarts > began[c]
      BY Zenon, <1>1, <2>1 DEF IInv, SecondKnown
    <2>3. ASSUME NEW q \in Calls
          PROVE  /\ began'[q] <= restarts'
                 /\ attempt'[q] = 2 /\ pc'[q] \in {"notify", "post", "posted", "accepted"}
                      => sid'[q] \in sessions' \/ restarts' > began'[q]
                 /\ attempt'[q] = 2 /\ pc'[q] = "refused" => restarts' > began'[q]
                 /\ pc'[q] = "session_invalid" => restarts' > began'[q]
      BY Zenon, <1>2, <1>5, <2>2 DEF IInv, SecondKnown
    <2> QED  BY Zenon, <2>3 DEF SecondKnown
  <1>11. Numbered'
    <2>1. ASSUME NEW q \in Calls, NEW n \in Nat, Sent(q, n)'
          PROVE  n \in 1..(2 * Retries) /\ (pc'[q] \notin Ended => n <= Limit(q)')
      <3>1. Sent(q, n)
        BY Zenon, <1>8, <2>1
      <3>2. pc'[q] \notin Ended => pc[q] \notin Ended
        BY Zenon, <1>5 DEF Ended
      <3> QED  BY Zenon, <1>6, <3>1, <3>2 DEF IInv, Numbered
    <2>2. ASSUME NEW x \in wire' PROVE x.n \notin ran'[x.call]
      <3>1. x \in wire /\ x # m /\ x.n \notin ran[x.call] /\ x.call \in Calls
        BY Zenon, <1>2, <2>2 DEF IInv, Numbered, TypeOK
      <3>2. ~(x.call = c /\ x.n = m.n)
        BY Zenon, <3>1 DEF IInv, Numbered
      <3> QED  BY Zenon, <1>1, <1>2, <1>3, <3>1, <3>2
    <2>3. \A m1, m2 \in wire' : m1.call = m2.call /\ m1.n = m2.n => m1 = m2
      BY Zenon, <1>2 DEF IInv, Numbered
    <2> QED  BY Zenon, <2>1, <2>2, <2>3 DEF Numbered
  <1>12. Listening'
    <2>1. \A x \in wire : x.call \in Calls
      BY Zenon DEF IInv, TypeOK
    <2> QED  BY Zenon, <1>2, <1>5, <1>6, <2>1 DEF IInv, Listening
  <1>13. Spared'
    <2>1. ASSUME NEW q \in Calls
          PROVE  /\ pc'[q] = "refused" => Posts(q)' > 0 /\ ~Sent(q, Posts(q))'
                 /\ pc'[q] \in {"accepted", "ok"} => ran'[q] # {}
                 /\ attempt'[q] = 2 => \E k \in 1..Retries : ~Sent(q, k)'
                 /\ pc'[q] \in Ended => \/ \A n \in Nat : Sent(q, n)' => n <= Retries
                                        \/ \E k \in 1..Retries : ~Sent(q, k)'
      <3>1. attempt'[q] = 2 => \E k \in 1..Retries : ~Sent(q, k)'
        BY Zenon, <1>2, <1>8 DEF IInv, Spared
      <3>2. pc'[q] \in Ended => pc[q] \in Ended
        BY Zenon, <1>5 DEF Ended
      <3>3. pc'[q] \in Ended => \/ \A n \in Nat : Sent(q, n)' => n <= Retries
                                \/ \E k \in 1..Retries : ~Sent(q, k)'
        BY Zenon, <1>8, <3>2 DEF IInv, Spared
      <3>4. CASE pc'[q] = pc[q]
        <4>1. pc'[q] = "refused" => Posts(q)' > 0 /\ ~Sent(q, Posts(q))
          BY Zenon, <1>6, <3>4 DEF IInv, Spared
        <4>2. Sent(q, Posts(q))' => Sent(q, Posts(q))
          BY <1>1, <1>2, <1>3, <1>6 DEF Sent
        <4>3. pc'[q] \in {"accepted", "ok"} => ran'[q] # {}
          BY <1>7, <3>4 DEF IInv, Spared
        <4> QED  BY Zenon, <3>1, <3>3, <4>1, <4>2, <4>3
      <3>5. CASE q = c /\ waiting /\ pc'[q] = IF known THEN "accepted" ELSE "refused"
        <4>1. known => ran'[q] # {}
          BY Zenon, <1>7, <3>5
        <4>2. ~known => Posts(q)' > 0 /\ ~Sent(q, Posts(q))'
          <5>1. Posts(q)' = m.n
            BY Zenon, <1>6, <3>5
          <5>2. \A x \in wire' : ~(x.call = c /\ x.n = m.n)
            BY <1>2 DEF IInv, Numbered
          <5> QED  BY <1>1, <1>2, <3>5, <5>1, <5>2 DEF Sent
        <4> QED  BY Zenon, <3>1, <3>3, <3>5, <4>1, <4>2
      <3> QED  BY Zenon, <1>5, <3>4, <3>5
    <2> QED  BY Zenon, <2>1 DEF Spared
  <1> QED  BY Zenon, <1>4, <1>9, <1>10, <1>11, <1>12, <1>13 DEF IInv

\* The bank restarts: every call in progress has seen it.
LEMMA RestartStep ==
    ASSUME IInv, BankRestart
    PROVE  IInv'
  <1>1. /\ restarts' = restarts + 1 /\ restarts \in Nat /\ restarts < MaxRestarts
        /\ UNCHANGED <<issued, session, lock, pc, attempt, tries, sid, began, wire, ran>>
        /\ sessions' = {}
    BY RestartsAssumption DEF BankRestart, IInv, TypeOK
  <1>2. TypeOK'
    BY <1>1, RestartsAssumption DEF IInv, TypeOK
  <1>3. TriesLeft' /\ Listening'
    BY Zenon, <1>1 DEF IInv, TriesLeft, Listening, Posts
  <1>4. \A c \in Calls : began[c] \in Nat /\ began[c] <= restarts
    BY Zenon, CallFacts
  <1>5. SecondKnown'
    BY <1>1, <1>4 DEF SecondKnown
  <1>6. Numbered' /\ Spared'
    BY <1>1 DEF IInv, Numbered, Spared, Sent, Limit, Posts
  <1> QED  BY Zenon, <1>2, <1>3, <1>5, <1>6 DEF IInv

\* Nothing happens.
LEMMA IdleStep == IInv /\ UNCHANGED vars => IInv'
  BY DEF IInv, TypeOK, TriesLeft, SecondKnown, Numbered, Listening, Spared, Sent, Limit, Posts, vars

\* Every step of the client and of the bank keeps the invariant.
LEMMA NextIInv == IInv /\ [Next]_vars => IInv'
  BY EnsureStep, OutcomeStep, PostStep, HandleStep, RestartStep, IdleStep DEF Next, Advance

-----------------------------------------------------------------------------
(* The theorems *)

\* The invariant holds throughout, whatever calls, answers and restarts interleave.
THEOREM Invariance == Spec => []IInv
  <1> QED  BY InitIInv, NextIInv, PTL DEF Spec

\* Every call stays in the bounds of _call_mcp and _post_mcp_request.
THEOREM SessionTypes == Spec => []TypeOK
  <1>1. IInv => TypeOK
    BY Zenon DEF IInv
  <1> QED  BY <1>1, Invariance, PTL

\* _call_mcp raises "session invalid and refresh failed" only if the bank restarted while
\* the call was in progress.
THEOREM RefreshSuffices == Spec => []SessionFailureNeedsRestart
  <1>1. IInv => SessionFailureNeedsRestart
    BY Zenon DEF IInv, SecondKnown, SessionFailureNeedsRestart
  <1> QED  BY <1>1, Invariance, PTL

\* A set of post numbers below a bound has at most that many members.
LEMMA NumbersBounded ==
    ASSUME NEW n \in Nat, NEW S, S \subseteq 1..n
    PROVE  IsFiniteSet(S) /\ Cardinality(S) \in Nat /\ Cardinality(S) <= n
  <1>1. IsFiniteSet(1..n) /\ Cardinality(1..n) = n
    <2>1. 1 \in Int /\ n \in Int
      OBVIOUS
    <2> QED  BY <2>1, FS_Interval
  <1> QED  BY Zenon, <1>1, FS_Subset, FS_CardinalityType

\* One missing number makes one member less.
LEMMA OneSpared ==
    ASSUME NEW n \in Nat, NEW S, S \subseteq 1..n, NEW k \in 1..n, k \notin S
    PROVE  Cardinality(S) <= n - 1
  <1>1. IsFiniteSet(1..n) /\ Cardinality(1..n) = n
    <2>1. 1 \in Int /\ n \in Int
      OBVIOUS
    <2> QED  BY <2>1, FS_Interval
  <1>2. IsFiniteSet((1..n) \ {k}) /\ Cardinality((1..n) \ {k}) = n - 1
    BY Zenon, <1>1, FS_RemoveElement
  <1> DEFINE R == (1..n) \ {k}
  <1>3. S \in SUBSET R
    BY Zenon
  <1>4. IsFiniteSet(R) /\ Cardinality(R) = n - 1
    BY <1>2
  <1> HIDE DEF R
  <1>5. Cardinality(S) <= Cardinality(R)
    BY Zenon, <1>3, <1>4, FS_Subset
  <1> QED  BY <1>4, <1>5

\* An answered call was executed, and a call runs at most 2 * MEMMCP_HTTP_RETRIES - 1 times.
THEOREM ExecutionsBounded == Spec => []ExecutedAtLeastOnce
  <1>1. IInv => ExecutedAtLeastOnce
    <2> SUFFICES ASSUME IInv, NEW c \in Calls
                 PROVE  (pc[c] = "ok" => ran[c] # {}) /\ Cardinality(ran[c]) <= 2 * Retries - 1
      BY DEF ExecutedAtLeastOnce
    <2> USE CallFacts
    <2>1. pc[c] = "ok" => ran[c] # {}
      BY Zenon DEF IInv, Spared
    <2>2. ran[c] \subseteq 1..(2 * Retries) /\ \A n \in ran[c] : n \in Nat /\ Sent(c, n)
      <3>1. ran[c] \subseteq Nat /\ \A n \in ran[c] : Sent(c, n)
        BY DEF IInv, TypeOK, Sent
      <3>2. \A n \in ran[c] : n \in 1..(2 * Retries)
        BY <3>1 DEF IInv, Numbered
      <3> QED  BY Zenon, <3>1, <3>2
    <2>3. CASE \E k \in 1..Retries : ~Sent(c, k)
      <3>1. PICK k \in 1..(2 * Retries) : k \notin ran[c]
        BY <2>3 DEF Sent
      <3> QED  BY <2>1, <2>2, <3>1, OneSpared
    <2>4. CASE ~\E k \in 1..Retries : ~Sent(c, k)
      <3>1. \A n \in Nat : Sent(c, n) => n <= Retries
        <4>1. CASE pc[c] \in Ended
          BY Zenon, <2>4, <4>1 DEF IInv, Spared
        <4>2. CASE pc[c] \notin Ended
          <5>1. attempt[c] = 1
            BY Zenon, <2>4 DEF IInv, Spared
          <5>2. Limit(c) \in Nat /\ Limit(c) <= Retries
            BY <5>1 DEF Limit, Posts
          <5> QED  BY <4>2, <5>2 DEF IInv, Numbered
        <4> QED  BY Zenon, <4>1, <4>2
      <3>2. ran[c] \subseteq 1..Retries
        BY <2>2, <3>1
      <3> QED  BY <2>1, <3>2, NumbersBounded
    <2> QED  BY Zenon, <2>3, <2>4
  <1> QED  BY <1>1, Invariance, PTL

-----------------------------------------------------------------------------
(* The cache of the bank's files *)


\* The longest a read or a refresh may take.
Slack == IF ReadTimeout > RefreshTimeout THEN ReadTimeout ELSE RefreshTimeout

Contents == 0..Unread
Entry == [file : Files, content : Contents, at : Nat]
Task == [id : 0..MaxInflight, file : Files, at : Nat, got : Contents]
ReadState == [pc : {"idle", "remote", "bootstrap", "served"}, file : Files \cup {""},
              bootstrap : BOOLEAN, at : Nat, got : Contents, from : Files \cup {""}]

ReadTypes ==
    /\ clock \in 0..MaxReadTime
    /\ bank \in [Files -> Contents]
    /\ until \in [Files -> Seq(Nat)]
    /\ cache \in Seq(Entry)
    /\ runners \subseteq Task
    /\ reads \in [Readers -> ReadState]
    /\ \A r \in Readers : reads[r].pc # "idle" => reads[r].file \in Files

\* A content that the bank had at time t - slack or later; the placeholder is always one.
Held(f, content, t, slack) ==
    content = Stub \/ (content \in DOMAIN until[f] /\ t <= until[f][content] + slack)

\* What the bank has now has not been replaced.
BankHolds == \A f \in Files : /\ Len(until[f]) <= MaxWrites
                              /\ bank[f] = Missing \/ Held(f, bank[f], NotYet, 0)

\* What the bank has answered it had when it was asked or later, and no answer is overdue; what
\* was served it had within the bound, as the content of a file with the same key.
ReadHolds(x) ==
    /\ x.pc = "remote" =>
          /\ x.at <= clock /\ clock <= x.at + ReadTimeout
          /\ x.got \in {Unread, Missing} \/ Held(x.file, x.got, x.at, 0)
    /\ x.pc = "served" => /\ x.from \in Files /\ KeyOf[x.from] = KeyOf[x.file]
                          /\ Held(x.from, x.got, clock, StaleMax + Slack)

TaskHolds(t) ==
    /\ t.at <= clock /\ clock <= t.at + RefreshTimeout
    /\ t.got \in {Unread, Missing} \/ Held(t.file, t.got, t.at, 0)

\* An entry's content left the bank at most one read before the entry was made.
EntryHolds(e) == e.at <= clock /\ Held(e.file, e.content, e.at, Slack)

CInv ==
    /\ ReadTypes /\ BankHolds
    /\ \A r \in Readers : ReadHolds(reads[r])
    /\ \A t \in runners : TaskHolds(t)
    /\ \A i \in DOMAIN cache : EntryHolds(cache[i])

\* Slack is the longer of the two timeouts.
LEMMA SlackFacts == Slack \in Nat /\ ReadTimeout <= Slack /\ RefreshTimeout <= Slack
  BY ReadCacheAssumption DEF Slack

\* Two sequences in a row.
LEMMA ConcatFacts ==
    ASSUME NEW S, NEW s \in Seq(S), NEW t \in Seq(S)
    PROVE  /\ s \o t \in Seq(S) /\ DOMAIN (s \o t) = 1..(Len(s) + Len(t))
           /\ \A i \in 1..(Len(s) + Len(t)) : (s \o t)[i] = IF i <= Len(s) THEN s[i] ELSE t[i - Len(s)]
  OBVIOUS

Dropped(s, i) == SubSeq(s, 1, i - 1) \o SubSeq(s, i + 1, Len(s))

\* A sequence without one of its elements has no others than before.
LEMMA DroppedFacts ==
    ASSUME NEW S, NEW s \in Seq(S), NEW i \in DOMAIN s
    PROVE  /\ Dropped(s, i) \in Seq(S)
           /\ \A j \in DOMAIN Dropped(s, i) : \E k \in DOMAIN s : Dropped(s, i)[j] = s[k]
  <1> DEFINE a == SubSeq(s, 1, i - 1)
             b == SubSeq(s, i + 1, Len(s))
  <1>1. Len(s) \in Nat /\ i \in 1..Len(s) /\ DOMAIN s = 1..Len(s)
    OBVIOUS
  <1>2. a \in Seq(S) /\ Len(a) = i - 1 /\ \A j \in 1..(i - 1) : a[j] = s[j]
    BY <1>1
  <1>3. b \in Seq(S) /\ Len(b) = Len(s) - i /\ \A j \in 1..(Len(s) - i) : b[j] = s[i + j]
    BY <1>1
  <1>4. Dropped(s, i) = a \o b
    BY DEF Dropped
  <1> HIDE DEF a, b
  <1>5. /\ a \o b \in Seq(S) /\ DOMAIN (a \o b) = 1..(Len(a) + Len(b))
        /\ \A j \in 1..(Len(a) + Len(b)) : (a \o b)[j] = IF j <= Len(a) THEN a[j] ELSE b[j - Len(a)]
    BY Zenon, <1>2, <1>3, ConcatFacts
  <1>6. ASSUME NEW j \in DOMAIN (a \o b) PROVE \E k \in DOMAIN s : (a \o b)[j] = s[k]
    <2>1. CASE j <= Len(a)
      BY <1>1, <1>2, <1>5, <2>1
    <2>2. CASE j > Len(a)
      <3>1. j - Len(a) \in 1..(Len(s) - i) /\ (a \o b)[j] = b[j - Len(a)]
        BY <1>1, <1>2, <1>3, <1>5, <2>2
      <3>2. b[j - Len(a)] = s[i + (j - Len(a))] /\ i + (j - Len(a)) \in DOMAIN s
        BY <1>1, <1>2, <1>3, <3>1
      <3> QED  BY Zenon, <3>1, <3>2
    <2> QED  BY <1>1, <1>2, <1>3, <1>5, <2>1, <2>2
  <1> QED  BY <1>4, <1>5, <1>6

\* The cache without a file has no other entries than before.
LEMMA OthersFacts ==
    ASSUME cache \in Seq(Entry), NEW f
    PROVE  /\ Others(f) \in Seq(Entry)
           /\ \A i \in DOMAIN Others(f) : \E j \in DOMAIN cache : Others(f)[i] = cache[j]
  <1>1. CASE ~\E i \in DOMAIN cache : KeyOf[cache[i].file] = KeyOf[f]
    BY <1>1 DEF Others
  <1>2. CASE \E i \in DOMAIN cache : KeyOf[cache[i].file] = KeyOf[f]
    <2> DEFINE k == CHOOSE i \in DOMAIN cache : KeyOf[cache[i].file] = KeyOf[f]
    <2>1. k \in DOMAIN cache
      BY Zenon, <1>2
    <2>2. Others(f) = Dropped(cache, k)
      BY Zenon, <1>2 DEF Others, Dropped
    <2> HIDE DEF k
    <2> QED  BY <2>1, <2>2, DroppedFacts
  <1> QED  BY Zenon, <1>1, <1>2

\* Appending adds the entry and keeps the others.
LEMMA AppendedFacts ==
    ASSUME NEW S, NEW s \in Seq(S), NEW e \in S
    PROVE  /\ Append(s, e) \in Seq(S) /\ Append(s, e) # <<>>
           /\ \A i \in DOMAIN Append(s, e) : Append(s, e)[i] = e \/ (i \in DOMAIN s /\ Append(s, e)[i] = s[i])
  <1>1. Append(s, e) \in Seq(S) /\ Len(Append(s, e)) = Len(s) + 1 /\ Len(s) \in Nat
    OBVIOUS
  <1>2. /\ Append(s, e)[Len(s) + 1] = e
        /\ \A i \in 1..Len(s) : Append(s, e)[i] = s[i]
    OBVIOUS
  <1>3. DOMAIN Append(s, e) = 1..(Len(s) + 1) /\ DOMAIN s = 1..Len(s)
    BY <1>1
  <1>4. \A n \in Nat : \A i \in 1..(n + 1) : i = n + 1 \/ i \in 1..n
    OBVIOUS
  <1>5. ASSUME NEW i \in DOMAIN Append(s, e) PROVE Append(s, e)[i] = e \/ (i \in DOMAIN s /\ Append(s, e)[i] = s[i])
    BY Zenon, <1>1, <1>2, <1>3, <1>4
  <1>6. Append(s, e) # <<>>
    BY <1>1
  <1> QED  BY Zenon, <1>1, <1>5, <1>6

\* _memory_read_cache_set adds the entry and evicts, but invents none.
LEMMA CacheSetFacts ==
    ASSUME cache \in Seq(Entry), clock \in Nat, NEW f \in Files, NEW c \in Contents
    PROVE  /\ CacheSet(f, c) \in Seq(Entry)
           /\ \A i \in DOMAIN CacheSet(f, c) :
                 \/ CacheSet(f, c)[i] = [file |-> f, content |-> c, at |-> clock]
                 \/ \E j \in DOMAIN cache : CacheSet(f, c)[i] = cache[j]
  <1> DEFINE new == [file |-> f, content |-> c, at |-> clock]
             put == Append(Others(f), new)
  <1>1. new \in Entry
    BY Zenon DEF Entry
  <1>2. Others(f) \in Seq(Entry) /\ \A i \in DOMAIN Others(f) : \E j \in DOMAIN cache : Others(f)[i] = cache[j]
    BY OthersFacts
  <1>3. CacheSet(f, c) = IF Len(put) > MaxCachedFiles THEN Tail(put) ELSE put
    BY Zenon DEF CacheSet
  <1> HIDE DEF new
  <1>4. put \in Seq(Entry) /\ put # <<>>
    BY Zenon, <1>1, <1>2, AppendedFacts
  <1>5. \A i \in DOMAIN put : put[i] = new \/ \E j \in DOMAIN cache : put[i] = cache[j]
    <2>1. \A i \in DOMAIN put : put[i] = new \/ (i \in DOMAIN Others(f) /\ put[i] = Others(f)[i])
      BY <1>1, <1>2, AppendedFacts
    <2> QED  BY Zenon, <1>2, <2>1
  <1>6. Tail(put) \in Seq(Entry) /\ \A i \in DOMAIN Tail(put) : i + 1 \in DOMAIN put /\ Tail(put)[i] = put[i + 1]
    BY <1>4
  <1> HIDE DEF put
  <1>7. CacheSet(f, c) \in Seq(Entry)
    BY <1>3, <1>4, <1>6
  <1>8. \A i \in DOMAIN CacheSet(f, c) : CacheSet(f, c)[i] = new \/ \E j \in DOMAIN cache : CacheSet(f, c)[i] = cache[j]
    BY <1>3, <1>5, <1>6
  <1> QED  BY Zenon, <1>7, <1>8 DEF new

\* Contents leave the bank no earlier than now.
Replacing ==
    /\ until' \in [Files -> Seq(Nat)]
    /\ \A f \in Files : /\ Len(until'[f]) >= Len(until[f])
                        /\ \A c \in DOMAIN until[f] : until'[f][c] = until[f][c] \/ until'[f][c] = clock

\* A content that was in the bank long enough stays so while the bank's history only grows.
LEMMA HeldStays ==
    ASSUME ReadTypes, Replacing, NEW f \in Files, NEW c, NEW t \in Nat, NEW slack \in Nat, t <= clock + slack,
           Held(f, c, t, slack)
    PROVE  Held(f, c, t, slack)'
  <1>1. CASE c = Stub
    BY Zenon, <1>1 DEF Held
  <1>2. CASE c \in DOMAIN until[f] /\ t <= until[f][c] + slack
    <2>1. until[f] \in Seq(Nat) /\ until'[f] \in Seq(Nat)
      BY Zenon DEF ReadTypes, Replacing
    <2>2. c \in DOMAIN until'[f]
      BY <1>2, <2>1 DEF Replacing
    <2>3. until'[f][c] = until[f][c] \/ until'[f][c] = clock
      BY Zenon, <1>2 DEF Replacing
    <2> QED  BY Zenon, <1>2, <2>2, <2>3 DEF Held
  <1> QED  BY Zenon, <1>1, <1>2 DEF Held

\* What a step at one time does not touch goes on holding.
LEMMA ReadStays ==
    ASSUME ReadTypes, Replacing, clock' = clock, NEW x \in ReadState, x.pc # "idle" => x.file \in Files, ReadHolds(x)
    PROVE  ReadHolds(x)'
  <1>0. StaleMax + Slack \in Nat
    BY SlackFacts, ReadCacheAssumption
  <1>1. clock \in Nat /\ x.at \in Nat
    <2>1. clock \in Nat
      BY DEF ReadTypes
    <2>2. x.at \in Nat
      BY Zenon DEF ReadState
    <2> QED  BY Zenon, <2>1, <2>2
  <1>2. ASSUME x.pc = "remote", Held(x.file, x.got, x.at, 0) PROVE Held(x.file, x.got, x.at, 0)'
    <2>1. x.file \in Files /\ x.at <= clock + 0 /\ 0 \in Nat
      BY <1>1, <1>2 DEF ReadHolds
    <2> QED  BY Zenon, <1>1, <1>2, <2>1, HeldStays
  <1>3. ASSUME x.pc = "served" PROVE Held(x.from, x.got, clock, StaleMax + Slack)'
    <2>1. clock <= clock + (StaleMax + Slack)
      BY <1>0, <1>1
    <2>2. x.from \in Files /\ Held(x.from, x.got, clock, StaleMax + Slack)
      BY Zenon, <1>3 DEF ReadHolds
    <2>3. \A t \in Nat : t = clock => Held(x.from, x.got, t, StaleMax + Slack)'
      BY Zenon, <1>0, <1>1, <2>1, <2>2, HeldStays
    <2> QED  BY Zenon, <1>1, <2>3 DEF Held
  <1> QED  BY Zenon, <1>2, <1>3 DEF ReadHolds

\* A background refresh holds as long as the history of its file only grows.
LEMMA TaskStays ==
    ASSUME ReadTypes, Replacing, clock' = clock, NEW t \in Task, TaskHolds(t)
    PROVE  TaskHolds(t)'
  <1>1. clock \in Nat /\ t.at \in Nat /\ t.file \in Files /\ t.at <= clock + 0 /\ 0 \in Nat
    BY DEF ReadTypes, Task, TaskHolds
  <1>2. Held(t.file, t.got, t.at, 0) => Held(t.file, t.got, t.at, 0)'
    BY Zenon, <1>1, HeldStays
  <1> QED  BY Zenon, <1>2 DEF TaskHolds

\* So does a cache entry.
LEMMA EntryStays ==
    ASSUME ReadTypes, Replacing, clock' = clock, NEW e \in Entry, EntryHolds(e)
    PROVE  EntryHolds(e)'
  <1>1. clock \in Nat /\ e.at \in Nat /\ e.file \in Files /\ e.at <= clock
    BY DEF ReadTypes, Entry, EntryHolds
  <1>2. e.at <= clock + Slack /\ Slack \in Nat
    BY <1>1, SlackFacts
  <1>3. Held(e.file, e.content, e.at, Slack)'
    BY Zenon, <1>1, <1>2, HeldStays DEF EntryHolds
  <1> QED  BY Zenon, <1>1, <1>3 DEF EntryHolds

\* A step that leaves the clock alone keeps the invariant when what it changes holds.
LEMMA StepHolds ==
    ASSUME CInv, Replacing, clock' = clock, ReadTypes', BankHolds',
           \A r \in Readers : reads'[r] = reads[r] \/ ReadHolds(reads[r])',
           \A t \in runners' : t \in runners \/ TaskHolds(t)',
           \A i \in DOMAIN cache' : EntryHolds(cache[i])' \/ \E j \in DOMAIN cache : cache'[i] = cache[j]
    PROVE  CInv'
  <1>1. ASSUME NEW r \in Readers PROVE ReadHolds(reads[r])'
    <2>1. CASE ReadHolds(reads[r])'
      BY <2>1
    <2>2. CASE reads'[r] = reads[r]
      <3>1. ReadHolds(reads[r]) /\ reads[r] \in ReadState /\ (reads[r].pc # "idle" => reads[r].file \in Files)
        BY Zenon DEF CInv, ReadTypes
      <3>2. \A x \in ReadState : x = reads[r] => ReadHolds(x)'
        BY Zenon, <3>1, ReadStays DEF CInv
      <3> QED  BY Zenon, <2>2, <3>1, <3>2 DEF ReadHolds, Held
    <2> QED  BY Zenon, <2>1, <2>2
  <1>2. ASSUME NEW t \in runners' PROVE TaskHolds(t)'
    <2>1. CASE t \in runners
      <3>1. t \in Task /\ TaskHolds(t)
        BY Zenon, <2>1 DEF CInv, ReadTypes
      <3>2. \A x \in Task : x = t => TaskHolds(x)'
        BY Zenon, <3>1, TaskStays DEF CInv
      <3> QED  BY Zenon, <3>1, <3>2
    <2> QED  BY Zenon, <2>1
  <1>3. ASSUME NEW i \in DOMAIN cache' PROVE EntryHolds(cache[i])'
    <2>1. ASSUME NEW j \in DOMAIN cache, cache'[i] = cache[j] PROVE EntryHolds(cache[i])'
      <3>1. cache[j] \in Entry /\ EntryHolds(cache[j])
        <4>1. cache \in Seq(Entry) /\ EntryHolds(cache[j])
          BY Zenon DEF CInv, ReadTypes
        <4> QED  BY <4>1
      <3>2. \A e \in Entry : e = cache[j] => EntryHolds(e)'
        BY Zenon, <3>1, EntryStays DEF CInv
      <3> QED  BY <2>1, <3>1, <3>2 DEF EntryHolds, Held
    <2> QED  BY Zenon, <2>1
  <1> QED  BY Zenon, <1>1, <1>2, <1>3 DEF CInv

\* Nothing is replaced in the bank.
LEMMA BankKept ==
    ASSUME CInv, UNCHANGED <<clock, bank, until>>
    PROVE  Replacing /\ BankHolds'
  BY DEF CInv, ReadTypes, BankHolds, Replacing, Held

\* Contents are numbers, and the special ones are no stored contents.
LEMMA ContentFacts ==
    /\ Missing \in Contents /\ Stub \in Contents /\ Unread \in Contents
    /\ Missing # Stub /\ Missing # Unread /\ Stub # Unread
    /\ \A n \in Nat : n <= MaxWrites => n \in Contents /\ n # Stub /\ n # Unread
    /\ NotYet \in Nat /\ \A n \in 0..MaxReadTime : n <= NotYet
  BY ReadCacheAssumption DEF Missing, Stub, Unread, Contents, NotYet

\* The reader's record is replaced.
LEMMA ReadPut ==
    ASSUME ReadTypes, NEW r \in Readers, NEW x \in ReadState, x.pc # "idle" => x.file \in Files,
           reads' = [reads EXCEPT ![r] = x]
    PROVE  /\ reads' \in [Readers -> ReadState]
           /\ \A q \in Readers : reads'[q].pc # "idle" => reads'[q].file \in Files
           /\ reads'[r] = x /\ \A q \in Readers : q # r => reads'[q] = reads[q]
  BY Zenon DEF ReadTypes

\* A reader that is idle claims nothing.
LEMMA IdleHolds == Idle \in ReadState /\ Idle.pc = "idle"
  BY Zenon, ContentFacts DEF Idle, ReadState

\* A read that starts, or that the bank answers.
LEMMA AskHolds ==
    ASSUME CInv, NEW r \in Readers,
           \/ \E f \in Files, bootstrap \in BOOLEAN : StartRead(r, f, bootstrap)
           \/ BankReads(r)
    PROVE  CInv'
  <1>t. ReadTypes /\ ReadHolds(reads[r]) /\ reads[r] \in ReadState /\ clock \in 0..MaxReadTime
    BY DEF CInv, ReadTypes
  <1>b. Replacing /\ BankHolds' /\ UNCHANGED <<clock, bank, until, cache, runners>>
    BY BankKept DEF StartRead, BankReads
  <1>1. ASSUME NEW f \in Files, NEW bootstrap \in BOOLEAN, StartRead(r, f, bootstrap) PROVE CInv'
    <2> DEFINE x == [pc |-> "remote", file |-> f, bootstrap |-> bootstrap, at |-> clock, got |-> Unread,
                    from |-> ""]
    <2>1. reads' = [reads EXCEPT ![r] = x]
      BY <1>1 DEF StartRead
    <2>2. x \in ReadState /\ x.file \in Files
      <3>1. clock \in Nat /\ Unread \in Contents
        BY <1>t, ContentFacts
      <3> QED  BY Zenon, <3>1 DEF ReadState
    <2>3. x.pc = "remote" /\ x.at = clock /\ x.got = Unread
      BY Zenon
    <2> HIDE DEF x
    <2>4. /\ ReadTypes'
          /\ reads'[r] = x /\ \A q \in Readers : q # r => reads'[q] = reads[q]
      BY Zenon, <1>t, <1>b, <2>1, <2>2, ReadPut DEF ReadTypes
    <2>5. ReadHolds(reads[r])'
      BY <1>t, <1>b, <2>3, <2>4, ReadCacheAssumption DEF ReadHolds, Unread
    <2> QED  BY Zenon, <1>b, <2>4, <2>5, StepHolds
  <1>2. CASE BankReads(r)
    <2> DEFINE x == [reads[r] EXCEPT !.got = bank[reads[r].file]]
    <2>0. reads[r].pc = "remote" /\ reads[r].file \in Files /\ bank[reads[r].file] \in Contents
      BY <1>2, <1>t DEF BankReads, ReadTypes
    <2>1. reads' = [reads EXCEPT ![r] = x]
      BY <1>2 DEF BankReads
    <2>2. /\ x \in ReadState /\ x.file = reads[r].file /\ x.at = reads[r].at /\ x.pc = "remote"
          /\ x.got = bank[reads[r].file]
      BY <1>t, <2>0 DEF ReadState
    <2>3. reads[r].at \in Nat /\ reads[r].at <= clock /\ clock <= reads[r].at + ReadTimeout
      BY Zenon, <1>t, <2>0 DEF ReadState, ReadHolds
    <2>4. bank[reads[r].file] = Missing \/ Held(reads[r].file, bank[reads[r].file], NotYet, 0)
      <3>1. BankHolds
        BY Zenon DEF CInv
      <3> QED  BY Zenon, <2>0, <3>1 DEF BankHolds
    <2>5. bank[reads[r].file] = Missing \/ Held(reads[r].file, bank[reads[r].file], reads[r].at, 0)
      <3>1. reads[r].at <= NotYet /\ NotYet \in Nat
        BY <1>t, <2>3, ContentFacts
      <3>2. until[reads[r].file] \in Seq(Nat)
        BY Zenon, <1>t, <2>0 DEF ReadTypes
      <3>3. \A c \in DOMAIN until[reads[r].file] : until[reads[r].file][c] \in Nat
        BY <3>2
      <3>4. \A u \in Nat : NotYet <= u + 0 => reads[r].at <= u + 0
        BY <2>3, <3>1
      <3> QED  BY Zenon, <2>4, <3>3, <3>4 DEF Held
    <2> HIDE DEF x
    <2>6. /\ ReadTypes'
          /\ reads'[r] = x /\ \A q \in Readers : q # r => reads'[q] = reads[q]
      BY Zenon, <1>t, <1>b, <2>0, <2>1, <2>2, ReadPut DEF ReadTypes
    <2>7. ReadHolds(reads[r])'
      BY Zenon, <1>b, <2>2, <2>3, <2>5, <2>6 DEF ReadHolds, Held
    <2> QED  BY Zenon, <1>b, <2>6, <2>7, StepHolds
  <1> QED  BY Zenon, <1>1, <1>2

\* A content that a read or a refresh brought is cached.
LEMMA PutHolds ==
    ASSUME CInv, NEW f \in Files, NEW c \in Contents, Held(f, c, clock, Slack), cache' = CacheSet(f, c),
           Replacing, clock' = clock
    PROVE  /\ cache' \in Seq(Entry)
           /\ \A i \in DOMAIN cache' : EntryHolds(cache[i])' \/ \E j \in DOMAIN cache : cache'[i] = cache[j]
  <1>1. cache \in Seq(Entry) /\ clock \in Nat /\ ReadTypes
    BY DEF CInv, ReadTypes
  <1>2. /\ cache' \in Seq(Entry)
        /\ \A i \in DOMAIN cache' : \/ cache'[i] = [file |-> f, content |-> c, at |-> clock]
                                   \/ \E j \in DOMAIN cache : cache'[i] = cache[j]
    BY Zenon, <1>1, CacheSetFacts
  <1>3. ASSUME NEW i \in DOMAIN cache', cache'[i] = [file |-> f, content |-> c, at |-> clock]
        PROVE  EntryHolds(cache[i])'
    <2>1. Slack \in Nat /\ clock <= clock + Slack
      BY <1>1, SlackFacts
    <2>2. \A t \in Nat : t = clock => Held(f, c, t, Slack)'
      BY Zenon, <1>1, <2>1, HeldStays
    <2>3. cache'[i].file = f /\ cache'[i].content = c /\ cache'[i].at = clock
      BY <1>3
    <2> QED  BY <1>1, <2>2, <2>3 DEF EntryHolds, Held
  <1> QED  BY Zenon, <1>2, <1>3

\* An answer that is in time may be cached.
LEMMA InTime ==
    ASSUME ReadTypes, NEW f \in Files, NEW c, NEW t \in Nat, NEW limit \in Nat, limit <= Slack,
           clock <= t + limit, Held(f, c, t, 0)
    PROVE  Held(f, c, clock, Slack)
  <1>1. clock \in Nat /\ Slack \in Nat /\ until[f] \in Seq(Nat)
    BY SlackFacts DEF ReadTypes
  <1> QED  BY <1>1 DEF Held

\* Content arrives, and the placeholder is made.
LEMMA ReadOkHolds ==
    ASSUME CInv, NEW r \in Readers, ReadOk(r)
    PROVE  CInv'
  <1>t. ReadTypes /\ ReadHolds(reads[r]) /\ reads[r] \in ReadState
    BY Zenon DEF CInv, ReadTypes
  <1>b. Replacing /\ BankHolds' /\ UNCHANGED <<clock, bank, until, runners>>
    BY Zenon, BankKept DEF ReadOk
  <1>1. /\ reads[r].pc = "remote" /\ reads[r].got \notin {Unread, Missing}
        /\ cache' = CacheSet(reads[r].file, reads[r].got) /\ reads' = [reads EXCEPT ![r] = Idle]
    BY Zenon DEF ReadOk, Answer
  <1>2. reads[r].file \in Files
    BY <1>t, <1>1 DEF ReadTypes
  <1>3. reads[r].at \in Nat /\ reads[r].got \in Contents
    BY Zenon, <1>t DEF ReadState
  <1>4. clock <= reads[r].at + ReadTimeout /\ Held(reads[r].file, reads[r].got, reads[r].at, 0)
    BY Zenon, <1>t, <1>1 DEF ReadHolds
  <1>5. Held(reads[r].file, reads[r].got, clock, Slack)
    BY <1>t, <1>2, <1>3, <1>4, InTime, SlackFacts, ReadCacheAssumption
  <1>6. /\ cache' \in Seq(Entry)
        /\ \A i \in DOMAIN cache' : EntryHolds(cache[i])' \/ \E j \in DOMAIN cache : cache'[i] = cache[j]
    BY Zenon, <1>b, <1>1, <1>2, <1>3, <1>5, PutHolds
  <1>7. /\ ReadTypes'
        /\ reads'[r] = Idle /\ \A q \in Readers : q # r => reads'[q] = reads[q]
    BY Zenon, <1>t, <1>b, <1>1, <1>6, ReadPut, IdleHolds DEF ReadTypes
  <1>8. ReadHolds(reads[r])'
    BY Zenon, <1>7, IdleHolds DEF ReadHolds
  <1> QED  BY Zenon, <1>b, <1>6, <1>7, <1>8, StepHolds

\* Replacing the content of a file ends the time of that content now and leaves the others.
LEMMA ReplacedFacts ==
    ASSUME CInv, NEW f \in Files
    PROVE  /\ Replaced(f) \in Seq(Nat) /\ Len(Replaced(f)) = Len(until[f])
           /\ \A c \in DOMAIN until[f] : Replaced(f)[c] = until[f][c] \/ Replaced(f)[c] = clock
  <1>1. until[f] \in Seq(Nat) /\ clock \in Nat
    BY DEF CInv, ReadTypes
  <1>2. bank[f] \in {Missing, Stub} \/ bank[f] \in DOMAIN until[f]
    BY Zenon DEF CInv, BankHolds, Held
  <1>3. CASE bank[f] \in {Missing, Stub}
    BY Zenon, <1>1, <1>3 DEF Replaced
  <1>4. CASE bank[f] \notin {Missing, Stub}
    <2>1. Replaced(f) = [until[f] EXCEPT ![bank[f]] = clock]
      BY Zenon, <1>4 DEF Replaced
    <2> QED  BY <1>1, <1>2, <1>4, <2>1
  <1> QED  BY Zenon, <1>3, <1>4

\* The history of one file goes on.
LEMMA ReplaceOne ==
    ASSUME CInv, NEW f \in Files, NEW s \in Seq(Nat), Len(s) >= Len(until[f]), until' = [until EXCEPT ![f] = s],
           \A c \in DOMAIN until[f] : s[c] = until[f][c] \/ s[c] = clock
    PROVE  Replacing
  <1>1. until \in [Files -> Seq(Nat)]
    BY Zenon DEF CInv, ReadTypes
  <1>2. until' \in [Files -> Seq(Nat)] /\ until'[f] = s
    BY Zenon, <1>1
  <1>3. ASSUME NEW g \in Files, g # f PROVE until'[g] = until[g] /\ Len(until[g]) \in Nat
    BY <1>1, <1>3
  <1>4. ASSUME NEW g \in Files
        PROVE  /\ Len(until'[g]) >= Len(until[g])
               /\ \A c \in DOMAIN until[g] : until'[g][c] = until[g][c] \/ until'[g][c] = clock
    BY <1>2, <1>3
  <1> QED  BY Zenon, <1>2, <1>4 DEF Replacing

\* The bootstrap of a missing file stores and caches the placeholder, which is never too old.
LEMMA BootstrapHolds ==
    ASSUME CInv, NEW r \in Readers, Bootstrap(r)
    PROVE  CInv'
  <1> DEFINE f == reads[r].file
  <1>t. ReadTypes /\ reads[r] \in ReadState /\ clock' = clock /\ runners' = runners
    BY Zenon DEF CInv, ReadTypes, Bootstrap
  <1>1. reads[r].pc = "bootstrap" /\ cache' = CacheSet(f, Stub) /\ reads' = [reads EXCEPT ![r] = Idle]
    BY Zenon DEF Bootstrap, Answer
  <1>2. f \in Files
    BY Zenon, <1>t, <1>1 DEF ReadTypes
  <1>b. Replacing /\ BankHolds' /\ bank' \in [Files -> Contents]
    <2>1. CASE UNCHANGED <<bank, until>>
      BY Zenon, <1>t, <2>1, BankKept DEF ReadTypes
    <2>2. CASE bank' = [bank EXCEPT ![f] = Stub] /\ until' = [until EXCEPT ![f] = Replaced(f)]
      <3>1. /\ Replaced(f) \in Seq(Nat) /\ Len(Replaced(f)) = Len(until[f])
            /\ \A c \in DOMAIN until[f] : Replaced(f)[c] = until[f][c] \/ Replaced(f)[c] = clock
        BY Zenon, <1>2, ReplacedFacts
      <3>2. bank \in [Files -> Contents] /\ until \in [Files -> Seq(Nat)]
        BY Zenon, <1>t DEF ReadTypes
      <3>3. until'[f] = Replaced(f) /\ \A g \in Files : g # f => until'[g] = until[g] /\ bank'[g] = bank[g]
        BY Zenon, <1>2, <2>2, <3>2
      <3>4. bank' \in [Files -> Contents] /\ until' \in [Files -> Seq(Nat)] /\ bank'[f] = Stub
        BY Zenon, <1>2, <2>2, <3>1, <3>2, ContentFacts
      <3>5. Replacing
        <4>1. Len(Replaced(f)) >= Len(until[f])
          BY <1>2, <3>1, <3>2
        <4> QED  BY Zenon, <1>2, <2>2, <3>1, <4>1, ReplaceOne
      <3> HIDE DEF f
      <3>6. BankHolds'
        BY Zenon, <3>1, <3>3, <3>4 DEF CInv, BankHolds, Held
      <3> QED  BY Zenon, <3>4, <3>5, <3>6
    <2> QED  BY Zenon, <2>1, <2>2 DEF Bootstrap
  <1>3. Stub \in Contents /\ Held(f, Stub, clock, Slack)
    BY Zenon, ContentFacts DEF Held
  <1>4. /\ cache' \in Seq(Entry)
        /\ \A i \in DOMAIN cache' : EntryHolds(cache[i])' \/ \E j \in DOMAIN cache : cache'[i] = cache[j]
    BY <1>b, <1>t, <1>1, <1>2, <1>3, PutHolds
  <1>5. /\ ReadTypes'
        /\ reads'[r] = Idle /\ \A q \in Readers : q # r => reads'[q] = reads[q]
    BY Zenon, <1>t, <1>b, <1>1, <1>4, ReadPut, IdleHolds DEF ReadTypes, Replacing
  <1>6. ReadHolds(reads[r])'
    BY <1>5, IdleHolds DEF ReadHolds
  <1> QED  BY Zenon, <1>b, <1>t, <1>4, <1>5, <1>6, StepHolds

\* Dropping an entry leaves the others as they were.
LEMMA OthersHold ==
    ASSUME CInv, NEW f, cache' = Others(f)
    PROVE  cache' \in Seq(Entry) /\ \A i \in DOMAIN cache' : \E j \in DOMAIN cache : cache'[i] = cache[j]
  BY Zenon, OthersFacts DEF CInv, ReadTypes

\* A copy from the cache is served: it is young enough, and a refresh may start.
LEMMA ServeHolds ==
    ASSUME CInv, NEW r \in Readers, reads[r].pc = "remote", ServeCached(r), UNCHANGED <<clock, bank, until, made>>
    PROVE  CInv'
  <1> DEFINE f == reads[r].file
  <1>t. ReadTypes /\ reads[r] \in ReadState /\ Replacing /\ BankHolds' /\ clock \in Nat
    BY BankKept DEF CInv, ReadTypes
  <1>0. f \in Files /\ f \in Files \cup {""}
    BY Zenon, <1>t DEF ReadTypes
  <1>1. PICK e \in Usable(f) :
            /\ cache' = Append(Others(f), e) /\ ScheduleRefresh(f)
            /\ reads' = [reads EXCEPT ![r].pc = "served", ![r].got = e.content, ![r].from = e.file]
    BY Zenon DEF ServeCached
  <1>2. PICK k \in DOMAIN cache : e = cache[k]
    BY Zenon, <1>1 DEF Usable, Cached, Range
  <1>3. e \in Entry /\ KeyOf[e.file] = KeyOf[f] /\ clock - e.at <= StaleMax
    <2>1. cache \in Seq(Entry)
      BY Zenon, <1>t DEF ReadTypes
    <2>2. e \in Entry
      BY <1>2, <2>1
    <2> QED  BY Zenon, <1>1, <2>2 DEF Usable, Cached
  <1>4. e.at \in Nat /\ e.content \in Contents /\ e.file \in Files
    BY <1>3 DEF Entry
  <1>5. EntryHolds(e)
    BY <1>2 DEF CInv
  <1>6. Held(e.file, e.content, clock, StaleMax + Slack)
    <2> DEFINE g == e.file
    <2>1. Slack \in Nat /\ StaleMax \in Nat
      BY SlackFacts, ReadCacheAssumption
    <2>2. until[g] \in Seq(Nat)
      BY Zenon, <1>t, <1>4 DEF ReadTypes
    <2>3. e.at <= clock /\ Held(g, e.content, e.at, Slack)
      BY Zenon, <1>5 DEF EntryHolds
    <2>4. ASSUME NEW c \in DOMAIN until[g], e.at <= until[g][c] + Slack PROVE clock <= until[g][c] + (StaleMax + Slack)
      <3>1. until[g][c] \in Nat
        BY <2>2
      <3>2. clock \in Nat
        BY <1>t DEF ReadTypes
      <3>3. \A u, a, n, s, m \in Nat : a <= u + s /\ n - a <= m => n <= u + (m + s)
        OBVIOUS
      <3> QED  BY Zenon, <1>3, <1>4, <2>1, <2>4, <3>1, <3>2, <3>3
    <2> QED  BY Zenon, <2>3, <2>4 DEF Held
  <1>7. /\ cache' \in Seq(Entry)
        /\ \A i \in DOMAIN cache' : \E j \in DOMAIN cache : cache'[i] = cache[j]
    <2>1. Others(f) \in Seq(Entry) /\ \A i \in DOMAIN Others(f) : \E j \in DOMAIN cache : Others(f)[i] = cache[j]
      BY Zenon, <1>t, OthersFacts DEF ReadTypes
    <2> HIDE DEF f
    <2> QED  BY <1>1, <1>2, <1>3, <2>1
  <1>8. /\ runners' \subseteq Task
        /\ \A t \in runners' : t \in runners \/ TaskHolds(t)'
    <2>1. CASE UNCHANGED runners
      BY Zenon, <1>t, <2>1 DEF ReadTypes
    <2>2. ASSUME NEW id \in 0..MaxInflight,
                 runners' = runners \cup {[id |-> id, file |-> f, at |-> clock, got |-> Unread]}
          PROVE  /\ runners' \subseteq Task
                 /\ \A t \in runners' : t \in runners \/ TaskHolds(t)'
      <3>1. Unread \in Contents /\ RefreshTimeout \in Nat
        BY ContentFacts, ReadCacheAssumption
      <3>2. [id |-> id, file |-> f, at |-> clock, got |-> Unread] \in Task
        BY Zenon, <1>t, <1>0, <3>1 DEF Task
      <3>3. ASSUME NEW t \in runners', t = [id |-> id, file |-> f, at |-> clock, got |-> Unread] PROVE TaskHolds(t)'
        <4>1. t.at = clock /\ t.got = Unread
          BY Zenon, <3>3
        <4>2. clock' = clock /\ clock \in Nat
          BY <1>t DEF ReadTypes
        <4>3. clock <= clock /\ clock <= clock + RefreshTimeout
          BY <3>1, <4>2
        <4> QED  BY Zenon, <4>1, <4>2, <4>3 DEF TaskHolds
      <3> QED  BY Zenon, <1>t, <2>2, <3>2, <3>3 DEF ReadTypes
    <2> QED  BY Zenon, <1>1, <2>1, <2>2 DEF ScheduleRefresh
  <1>9. /\ reads' \in [Readers -> ReadState]
        /\ \A q \in Readers : reads'[q].pc # "idle" => reads'[q].file \in Files
        /\ reads'[r].pc = "served" /\ reads'[r].file = f /\ reads'[r].got = e.content
        /\ reads'[r].from = e.file
        /\ \A q \in Readers : q # r => reads'[q] = reads[q]
    <2> DEFINE x == [reads[r] EXCEPT !.pc = "served", !.got = e.content, !.from = e.file]
    <2>1. x \in ReadState /\ x.pc = "served" /\ x.file = f /\ x.got = e.content /\ x.from = e.file
      BY Zenon, <1>t, <1>4 DEF ReadState
    <2>2. reads' = [reads EXCEPT ![r] = x]
      BY <1>1
    <2> HIDE DEF x
    <2> QED  BY Zenon, <1>t, <1>0, <2>1, <2>2, ReadPut
  <1>10. ReadTypes'
    BY Zenon, <1>t, <1>7, <1>8, <1>9 DEF ReadTypes
  <1>11. ReadHolds(reads[r])'
    <2>1. until' = until /\ clock' = clock
      BY Zenon
    <2> QED  BY Zenon, <1>3, <1>4, <1>6, <1>9, <2>1 DEF ReadHolds, Held
  <1> QED  BY Zenon, <1>t, <1>7, <1>8, <1>9, <1>10, <1>11, StepHolds

\* No copy is young enough: the read ends, or goes on to make the placeholder.
LEMMA GiveUpHolds ==
    ASSUME CInv, NEW r \in Readers, reads[r].pc = "remote", cache' = Others(reads[r].file),
           Answer(r) \/ reads' = [reads EXCEPT ![r].pc = "bootstrap"],
           UNCHANGED <<clock, bank, until, made, inflight, runners>>
    PROVE  CInv'
  <1>t. ReadTypes /\ reads[r] \in ReadState /\ Replacing /\ BankHolds'
    BY BankKept DEF CInv, ReadTypes
  <1>1. cache' \in Seq(Entry) /\ \A i \in DOMAIN cache' : \E j \in DOMAIN cache : cache'[i] = cache[j]
    BY OthersHold
  <1>2. ASSUME NEW x \in ReadState, x.pc \in {"idle", "bootstrap"}, x.pc # "idle" => x.file \in Files,
               reads' = [reads EXCEPT ![r] = x]
        PROVE  CInv'
    <2>1. /\ ReadTypes'
          /\ reads'[r] = x /\ \A q \in Readers : q # r => reads'[q] = reads[q]
      BY <1>t, <1>1, <1>2, ReadPut DEF ReadTypes
    <2>2. ReadHolds(reads[r])'
      BY <1>2, <2>1 DEF ReadHolds
    <2> QED  BY <1>t, <1>1, <2>1, <2>2, StepHolds
  <1>3. CASE Answer(r)
    BY Zenon, <1>2, <1>3, IdleHolds DEF Answer
  <1>4. CASE reads' = [reads EXCEPT ![r].pc = "bootstrap"]
    <2> DEFINE x == [reads[r] EXCEPT !.pc = "bootstrap"]
    <2>1. x \in ReadState /\ x.pc = "bootstrap" /\ x.file \in Files
      BY <1>t DEF ReadState, ReadTypes
    <2>2. reads' = [reads EXCEPT ![r] = x]
      BY Zenon, <1>4
    <2> HIDE DEF x
    <2> QED  BY Zenon, <1>2, <2>1, <2>2
  <1> QED  BY <1>3, <1>4

\* The refresh task reads, caches what it got, or fails.
LEMMA RefreshHolds ==
    ASSUME CInv, NEW t \in runners, Refresher(t)
    PROVE  CInv'
  <1>t. ReadTypes /\ t \in Task /\ TaskHolds(t) /\ clock \in 0..MaxReadTime
    BY DEF CInv, ReadTypes
  <1>b. Replacing /\ BankHolds' /\ UNCHANGED <<clock, bank, until, reads>>
    BY BankKept DEF Refresher, RefreshReads, RefreshDone, RefreshFailed
  <1>1. t.file \in Files /\ t.at \in Nat /\ t.got \in Contents
    BY Zenon, <1>t DEF Task
  <1>2. t.at <= clock /\ clock <= t.at + RefreshTimeout
    BY Zenon, <1>t DEF TaskHolds
  <1>3. CASE RefreshReads(t)
    <2> DEFINE x == [t EXCEPT !.got = bank[t.file]]
    <2>1. runners' = (runners \ {t}) \cup {x} /\ cache' = cache
      BY Zenon, <1>3 DEF RefreshReads
    <2>2. bank[t.file] \in Contents
      BY <1>t, <1>1 DEF ReadTypes
    <2>3. x \in Task /\ x.file = t.file /\ x.at = t.at /\ x.got = bank[t.file]
      BY Zenon, <1>t, <2>2 DEF Task
    <2>4. bank[t.file] = Missing \/ Held(t.file, bank[t.file], t.at, 0)
      <3>1. t.at <= NotYet /\ NotYet \in Nat
        BY <1>t, <1>1, <1>2, ContentFacts
      <3>2. until[t.file] \in Seq(Nat)
        BY Zenon, <1>t, <1>1 DEF ReadTypes
      <3>3. bank[t.file] = Missing \/ Held(t.file, bank[t.file], NotYet, 0)
        BY <1>1 DEF CInv, BankHolds
      <3> QED  BY <1>1, <3>1, <3>2, <3>3 DEF Held
    <2> HIDE DEF x
    <2>5. ReadTypes'
      BY Zenon, <1>t, <1>b, <2>1, <2>3 DEF ReadTypes
    <2>6. ASSUME NEW y \in runners', y = x PROVE TaskHolds(y)'
      BY Zenon, <1>b, <1>2, <2>3, <2>4, <2>6 DEF TaskHolds, Held
    <2>7. \A y \in runners' : y \in runners \/ TaskHolds(y)'
      BY Zenon, <2>1, <2>6
    <2> QED  BY <1>b, <2>1, <2>5, <2>7, StepHolds
  <1>4. CASE RefreshDone(t)
    <2>1. /\ t.got \notin {Unread, Missing} /\ runners' = runners \ {t}
          /\ cache' = CacheSet(t.file, t.got)
      BY Zenon, <1>4 DEF RefreshDone
    <2>2. Held(t.file, t.got, t.at, 0)
      BY Zenon, <1>t, <2>1 DEF TaskHolds
    <2>3. Held(t.file, t.got, clock, Slack)
      BY Zenon, <1>t, <1>1, <1>2, <2>2, InTime, SlackFacts, ReadCacheAssumption
    <2>4. /\ cache' \in Seq(Entry)
          /\ \A i \in DOMAIN cache' : EntryHolds(cache[i])' \/ \E j \in DOMAIN cache : cache'[i] = cache[j]
      BY Zenon, <1>b, <1>1, <2>1, <2>3, PutHolds
    <2>5. ReadTypes'
      BY Zenon, <1>t, <1>b, <2>1, <2>4 DEF ReadTypes
    <2> QED  BY Zenon, <1>b, <2>1, <2>4, <2>5, StepHolds
  <1>5. CASE RefreshFailed(t)
    <2>1. runners' = runners \ {t} /\ cache' = cache
      BY Zenon, <1>5 DEF RefreshFailed
    <2>2. ReadTypes'
      BY Zenon, <1>t, <1>b, <2>1 DEF ReadTypes
    <2> QED  BY Zenon, <1>b, <2>1, <2>2, StepHolds
  <1> QED  BY Zenon, <1>3, <1>4, <1>5 DEF Refresher

\* A client's write replaces what the bank has.
LEMMA WriteHolds ==
    ASSUME CInv, NEW f \in Files, Write(f)
    PROVE  CInv'
  <1> DEFINE n == Len(until[f])
  <1>t. ReadTypes /\ UNCHANGED <<clock, cache, reads, runners>>
    BY Zenon DEF CInv, Write
  <1>1. bank \in [Files -> Contents] /\ until \in [Files -> Seq(Nat)] /\ n \in Nat
    BY <1>t DEF ReadTypes
  <1>2. n < MaxWrites /\ bank' = [bank EXCEPT ![f] = n + 1] /\ until' = [until EXCEPT ![f] = Append(Replaced(f), NotYet)]
    BY Zenon DEF Write
  <1>3. /\ Replaced(f) \in Seq(Nat) /\ Len(Replaced(f)) = n
        /\ \A c \in DOMAIN until[f] : Replaced(f)[c] = until[f][c] \/ Replaced(f)[c] = clock
    BY Zenon, ReplacedFacts
  <1>4. /\ Append(Replaced(f), NotYet) \in Seq(Nat) /\ Len(Append(Replaced(f), NotYet)) = n + 1
        /\ Append(Replaced(f), NotYet)[n + 1] = NotYet
        /\ \A c \in 1..n : Append(Replaced(f), NotYet)[c] = Replaced(f)[c]
    BY <1>1, <1>3, ContentFacts
  <1>5. Replacing
    <2>1. Len(Append(Replaced(f), NotYet)) >= Len(until[f]) /\ DOMAIN until[f] = 1..n
      BY <1>1, <1>4
    <2> QED  BY <1>2, <1>3, <1>4, <2>1, ReplaceOne
  <1>6. n + 1 \in Contents /\ n + 1 <= MaxWrites
    BY <1>1, <1>2, ContentFacts, ReadCacheAssumption
  <1>7. ReadTypes'
    BY Zenon, <1>t, <1>1, <1>2, <1>5, <1>6 DEF ReadTypes, Replacing
  <1>8. BankHolds'
    <2>1. ASSUME NEW g \in Files, g # f PROVE bank'[g] = bank[g] /\ until'[g] = until[g]
      BY Zenon, <1>1, <1>2, <2>1
    <2>2. bank'[f] = n + 1 /\ until'[f] = Append(Replaced(f), NotYet)
      BY Zenon, <1>1, <1>2
    <2>3. Len(until'[f]) <= MaxWrites /\ bank'[f] \in DOMAIN until'[f] /\ NotYet <= until'[f][bank'[f]] + 0
      BY <1>1, <1>4, <1>6, <2>2, ContentFacts
    <2>4. ASSUME NEW g \in Files
          PROVE  Len(until'[g]) <= MaxWrites /\ (bank'[g] = Missing \/ Held(g, bank[g], NotYet, 0)')
      <3>1. CASE g = f
        BY Zenon, <2>3, <3>1 DEF Held
      <3>2. CASE g # f
        BY Zenon, <2>1, <3>2 DEF CInv, BankHolds, Held
      <3> QED  BY Zenon, <3>1, <3>2
    <2> QED  BY Zenon, <2>4 DEF BankHolds
  <1> QED  BY Zenon, <1>t, <1>5, <1>7, <1>8, StepHolds

\* Time passes while no answer is due.
LEMMA TickHolds ==
    ASSUME CInv, CacheTick
    PROVE  CInv'
  <1>t. ReadTypes /\ clock \in 0..MaxReadTime /\ clock < MaxReadTime /\ clock' = clock + 1
    BY Zenon DEF CInv, ReadTypes, CacheTick
  <1>u. UNCHANGED <<bank, until, cache, reads, runners>>
    BY Zenon DEF CacheTick
  <1>1. ReadTypes'
    <2>1. clock' \in 0..MaxReadTime
      BY <1>t, ReadCacheAssumption
    <2> QED  BY <1>t, <1>u, <2>1 DEF ReadTypes
  <1>2. BankHolds'
    BY Zenon, <1>u DEF CInv, BankHolds, Held
  <1>3. ASSUME NEW r \in Readers PROVE ReadHolds(reads[r])'
    <2>1. reads[r] \in ReadState /\ ReadHolds(reads[r])
      BY <1>t DEF CInv, ReadTypes
    <2>2. reads[r].at \in Nat
      BY Zenon, <2>1 DEF ReadState
    <2>3. reads[r].pc # "served" /\ (reads[r].pc = "remote" => clock < reads[r].at + ReadTimeout)
      BY Zenon DEF CacheTick
    <2>4. reads[r].pc = "remote" => reads[r].at <= clock' /\ clock' <= reads[r].at + ReadTimeout
      BY <1>t, <2>1, <2>2, <2>3, ReadCacheAssumption DEF ReadHolds
    <2> QED  BY Zenon, <1>u, <2>1, <2>3, <2>4 DEF ReadHolds, Held
  <1>4. ASSUME NEW t \in runners' PROVE TaskHolds(t)'
    <2>1. t \in runners /\ t \in Task /\ TaskHolds(t)
      BY Zenon, <1>t, <1>u DEF CInv, ReadTypes
    <2>2. t.at \in Nat /\ clock < t.at + RefreshTimeout
      BY Zenon, <2>1 DEF Task, CacheTick
    <2>3. t.at <= clock' /\ clock' <= t.at + RefreshTimeout
      BY <1>t, <2>1, <2>2, ReadCacheAssumption DEF TaskHolds
    <2> QED  BY Zenon, <1>u, <2>1, <2>3 DEF TaskHolds, Held
  <1>5. ASSUME NEW i \in DOMAIN cache' PROVE EntryHolds(cache[i])'
    <2>1. cache[i] \in Entry /\ EntryHolds(cache[i])
      BY <1>t, <1>u DEF CInv, ReadTypes
    <2>2. cache[i].at \in Nat
      BY Zenon, <2>1 DEF Entry
    <2>3. cache[i].at <= clock'
      BY <1>t, <2>1, <2>2 DEF EntryHolds
    <2> QED  BY Zenon, <1>u, <2>1, <2>3 DEF EntryHolds, Held
  <1> QED  BY Zenon, <1>1, <1>2, <1>3, <1>4, <1>5 DEF CInv

\* At first the bank has its contents, the cache is empty and no one reads.
LEMMA InitHolds == CacheInit => CInv
  <1> SUFFICES ASSUME CacheInit PROVE CInv
    BY Zenon
  <1>1. clock = 0 /\ cache = <<>> /\ runners = {} /\ reads = [r \in Readers |-> Idle]
    BY Zenon DEF CacheInit
  <1>2. bank = [f \in Files |-> Missing] /\ until = [f \in Files |-> <<>>]
    BY DEF CacheInit
  <1>3. \A r \in Readers : reads[r] = Idle
    BY Zenon, <1>1
  <1>4. ReadTypes
    <2>1. reads \in [Readers -> ReadState] /\ \A r \in Readers : reads[r].pc = "idle"
      BY Zenon, <1>1, <1>3, IdleHolds
    <2>2. bank \in [Files -> Contents] /\ until \in [Files -> Seq(Nat)] /\ cache \in Seq(Entry)
      BY <1>1, <1>2, ContentFacts
    <2>3. clock \in 0..MaxReadTime
      BY <1>1, ReadCacheAssumption
    <2> QED  BY <1>1, <2>1, <2>2, <2>3 DEF ReadTypes
  <1>5. BankHolds
    BY <1>2, ReadCacheAssumption DEF BankHolds
  <1>6. \A r \in Readers : ReadHolds(reads[r])
    BY Zenon, <1>3, IdleHolds DEF ReadHolds
  <1> QED  BY <1>1, <1>4, <1>5, <1>6 DEF CInv

\* Every step keeps the invariant.
LEMMA NextHolds == CInv /\ [CacheNext]_rvars => CInv'
  <1> SUFFICES ASSUME CInv, [CacheNext]_rvars PROVE CInv'
    BY Zenon
  <1>1. ASSUME NEW r \in Readers, Reader(r) PROVE CInv'
    <2>1. CASE ReadFailed(r)
      BY <2>1, ServeHolds, GiveUpHolds DEF ReadFailed
    <2>2. CASE ReadMissing(r)
      BY Zenon, <2>2, ServeHolds, GiveUpHolds DEF ReadMissing
    <2>3. CASE ServedEnd(r) \/ ReadRefused(r)
      <3>1. reads' = [reads EXCEPT ![r] = Idle] /\ UNCHANGED <<clock, bank, until, cache, runners>>
        BY Zenon, <2>3 DEF ServedEnd, ReadRefused, Answer
      <3>2. ReadTypes /\ Replacing /\ BankHolds'
        BY Zenon, <3>1, BankKept DEF CInv
      <3>3. ReadTypes' /\ reads'[r] = Idle /\ \A q \in Readers : q # r => reads'[q] = reads[q]
        BY Zenon, <3>1, <3>2, ReadPut, IdleHolds DEF ReadTypes
      <3>4. ReadHolds(reads[r])'
        BY Zenon, <3>3, IdleHolds DEF ReadHolds
      <3> QED  BY Zenon, <3>1, <3>2, <3>3, <3>4, StepHolds
    <2> QED  BY <1>1, <2>1, <2>2, <2>3, AskHolds, ReadOkHolds, BootstrapHolds DEF Reader
  <1>2. CASE UNCHANGED rvars
    <2>1. UNCHANGED <<clock, bank, until, cache, reads, runners>>
      BY Zenon, <1>2 DEF rvars
    <2>2. Replacing /\ BankHolds' /\ ReadTypes'
      BY <2>1, BankKept DEF CInv, ReadTypes
    <2> QED  BY Zenon, <2>1, <2>2, StepHolds
  <1> QED  BY <1>1, <1>2, RefreshHolds, WriteHolds, TickHolds DEF CacheNext

\* Every copy served from the cache is that of a file with the key of the file asked for, and was in
\* the bank as its content no longer ago than the stale bound and one read or refresh together.
THEOREM ServedAgeBounded == CacheSpec => []ServedAge
  <1>1. CInv => ServedAge
    <2> SUFFICES ASSUME CInv, NEW r \in Readers, reads[r].pc = "served"
                 PROVE  /\ KeyOf[reads[r].from] = KeyOf[reads[r].file]
                        /\ reads[r].got # Stub =>
                              clock <= until[reads[r].from][reads[r].got] + StaleMax + Slack
      BY Zenon DEF ServedAge, Slack
    <2>1. /\ reads[r].from \in Files /\ KeyOf[reads[r].from] = KeyOf[reads[r].file]
          /\ Held(reads[r].from, reads[r].got, clock, StaleMax + Slack)
      BY Zenon DEF CInv, ReadHolds
    <2>2. ASSUME reads[r].got # Stub PROVE clock <= until[reads[r].from][reads[r].got] + StaleMax + Slack
      <3>1. until[reads[r].from] \in Seq(Nat)
        BY Zenon, <2>1 DEF CInv, ReadTypes
      <3>2. reads[r].got \in DOMAIN until[reads[r].from]
        BY Zenon, <2>1, <2>2 DEF Held
      <3>3. until[reads[r].from][reads[r].got] \in Nat /\ clock \in Nat
        BY <3>1, <3>2 DEF CInv, ReadTypes
      <3> QED  BY <2>1, <2>2, <3>3, SlackFacts, ReadCacheAssumption DEF Held
    <2> QED  BY <2>1, <2>2
  <1> QED  BY <1>1, InitHolds, NextHolds, PTL DEF CacheSpec
=============================================================================

------------------------- MODULE FanoutOutboxProofs -------------------------
(***************************************************************************)
(* The fanout outbox for any number of events, files, sinks and workers:   *)
(* what each step does to the rows, type correctness, and that a raw event *)
(* is in Mongo or on its way there.                                        *)
(***************************************************************************)
EXTENDS FanoutOutbox, TLAPS

\* A row that exists carries an event.
Carried == \A k \in Keys : outbox[k].status # "absent" => outbox[k].payload \in Events

TypeInv == TypeOK /\ Carried

-----------------------------------------------------------------------------
(* Raw events *)

\* No row of mongo_raw carries another event than its own, and one that a worker is about to
\* mark as delivered is in Mongo.
RawRows ==
    /\ \A k \in Keys : k[2] = "mongo_raw" /\ outbox[k].status # "absent" => outbox[k].payload = k[1]
    /\ \A k \in Keys : k[2] = "mongo_raw" /\ outbox[k].status = "succeeded" => k[1] \in raw
    /\ \A w \in Workers : \A j \in worker[w].todo \cup worker[w].batch :
          j.key[2] = "mongo_raw" => j.payload = j.key[1]
    /\ \A w \in Workers : worker[w].left \subseteq worker[w].batch
    /\ \A w \in Workers : worker[w].pc = "marking" =>
          \A j \in worker[w].left \ worker[w].failed : j.key[2] = "mongo_raw" => j.key[1] \in raw

RawInv ==
    /\ TypeInv
    /\ budget.crashes = 0 /\ budget.deletions = 0 /\ doomed = {}
    /\ RawRows /\ RawDurable

-----------------------------------------------------------------------------
(* Operators *)

\* What sequences are made of, and what the operators on them return.
LEMMA LenFacts ==
    ASSUME NEW S, NEW s \in Seq(S)
    PROVE  Len(s) \in Nat /\ DOMAIN s = 1..Len(s) /\ s \in [1..Len(s) -> S] /\ Range(s) \subseteq S
  <1>1. Len(s) \in Nat /\ DOMAIN s = 1..Len(s) /\ s \in [1..Len(s) -> S]
    OBVIOUS
  <1> QED  BY <1>1 DEF Range

\* A sequence with one more element.
LEMMA AppendedFacts ==
    ASSUME NEW S, NEW s \in Seq(S), NEW e \in S
    PROVE  /\ Append(s, e) \in Seq(S) /\ Len(Append(s, e)) = Len(s) + 1
           /\ \A i \in 1..Len(s) : Append(s, e)[i] = s[i]
           /\ Append(s, e)[Len(s) + 1] = e
  OBVIOUS

\* A part of a sequence.
LEMMA SubSeqFacts ==
    ASSUME NEW S, NEW s \in Seq(S), NEW m \in Nat \ {0}, NEW n \in Nat, n <= Len(s)
    PROVE  /\ SubSeq(s, m, n) \in Seq(S)
           /\ Len(SubSeq(s, m, n)) = IF m <= n THEN n - m + 1 ELSE 0
           /\ \A i \in 1..(n - m + 1) : SubSeq(s, m, n)[i] = s[m + i - 1]
  OBVIOUS

\* Two sequences in a row.
LEMMA ConcatFacts ==
    ASSUME NEW S, NEW s \in Seq(S), NEW t \in Seq(S)
    PROVE  /\ s \o t \in Seq(S) /\ Len(s \o t) = Len(s) + Len(t)
           /\ \A i \in 1..(Len(s) + Len(t)) : (s \o t)[i] = IF i <= Len(s) THEN s[i] ELSE t[i - Len(s)]
  OBVIOUS

\* What is left of a queue from which one item was taken.
LEMMA WithoutFacts ==
    ASSUME NEW S, NEW s \in Seq(S), NEW i \in DOMAIN s
    PROVE  /\ Without(s, i) \in Seq(S)
           /\ Len(Without(s, i)) = Len(s) - 1
           /\ \A j \in 1..(Len(s) - 1) : Without(s, i)[j] = IF j < i THEN s[j] ELSE s[j + 1]
  <1> DEFINE a == SubSeq(s, 1, i - 1)
             b == SubSeq(s, i + 1, Len(s))
  <1>1. Len(s) \in Nat /\ i \in 1..Len(s) /\ \A j \in 1..Len(s) : s[j] \in S
    BY LenFacts
  <1>2. /\ a \in Seq(S) /\ Len(a) = i - 1
        /\ \A j \in 1..(i - 1) : a[j] = s[j]
    <2>1. i - 1 \in Nat /\ i - 1 <= Len(s) /\ 1 \in Nat \ {0}
      BY <1>1
    <2>2. /\ a \in Seq(S)
          /\ Len(a) = IF 1 <= i - 1 THEN (i - 1) - 1 + 1 ELSE 0
          /\ \A j \in 1..((i - 1) - 1 + 1) : a[j] = s[1 + j - 1]
      BY <2>1, SubSeqFacts
    <2> QED  BY <1>1, <2>2
  <1>3. /\ b \in Seq(S) /\ Len(b) = Len(s) - i
        /\ \A j \in 1..(Len(s) - i) : b[j] = s[i + j]
    <2>1. i + 1 \in Nat \ {0} /\ Len(s) \in Nat /\ Len(s) <= Len(s)
      BY <1>1
    <2>2. /\ b \in Seq(S)
          /\ Len(b) = IF i + 1 <= Len(s) THEN Len(s) - (i + 1) + 1 ELSE 0
          /\ \A j \in 1..(Len(s) - (i + 1) + 1) : b[j] = s[(i + 1) + j - 1]
      BY <2>1, SubSeqFacts
    <2> QED  BY <1>1, <2>2
  <1> HIDE DEF a, b
  <1>4. /\ a \o b \in Seq(S)
        /\ Len(a \o b) = Len(a) + Len(b)
        /\ \A j \in 1..(Len(a) + Len(b)) : (a \o b)[j] = IF j <= Len(a) THEN a[j] ELSE b[j - Len(a)]
    BY Zenon, <1>2, <1>3, ConcatFacts
  <1>5. \A j \in 1..(Len(s) - 1) : (a \o b)[j] = IF j < i THEN s[j] ELSE s[j + 1]
    <2> SUFFICES ASSUME NEW j \in 1..(Len(s) - 1) PROVE (a \o b)[j] = IF j < i THEN s[j] ELSE s[j + 1]
      BY Zenon
    <2>1. CASE j < i
      <3>1. j \in 1..(Len(a) + Len(b)) /\ j <= Len(a) /\ j \in 1..(i - 1)
        BY <1>1, <1>2, <1>3, <2>1
      <3> QED  BY Zenon, <1>2, <1>4, <2>1, <3>1
    <2>2. CASE ~(j < i)
      <3>1. j - Len(a) \in 1..(Len(s) - i) /\ i + (j - Len(a)) = j + 1
        BY <1>1, <1>2, <2>2
      <3>2. j \in 1..(Len(a) + Len(b)) /\ ~(j <= Len(a))
        BY <1>1, <1>2, <1>3, <2>2
      <3> QED  BY <1>3, <1>4, <2>2, <3>1, <3>2
    <2> QED  BY Zenon, <2>1, <2>2
  <1>6. Without(s, i) = a \o b
    BY DEF Without, a, b
  <1>7. Len(a) + Len(b) = Len(s) - 1
    BY <1>1, <1>2, <1>3
  <1> QED  BY <1>4, <1>5, <1>6, <1>7

\* A key is an event and a target.
LEMMA KeyFacts ==
    /\ \A k \in Keys : k[1] \in Events /\ k[2] \in Targets /\ k = <<k[1], k[2]>>
    /\ \A e \in Events, t \in Targets : <<e, t>> \in Keys
  BY DEF Keys

\* What each update does to a row.
LEMMA RowFacts ==
    ASSUME NEW row \in Row, NEW e \in Events
    PROVE  /\ CoalescedRow(row, e) \in Row
           /\ CoalescedRow(row, e).status = row.status /\ CoalescedRow(row, e).payload = e
           /\ CoalescedRow(row, e).attempts = row.attempts /\ CoalescedRow(row, e).gen = row.gen
           /\ InsertedRow(row, e) \in Row
           /\ InsertedRow(row, e).status = "pending" /\ InsertedRow(row, e).payload = e
           /\ InsertedRow(row, e).attempts = 0 /\ InsertedRow(row, e).gen = row.gen + 1
           /\ RequeuedRow(row, e) \in Row
           /\ RequeuedRow(row, e).status = "pending" /\ RequeuedRow(row, e).payload = e
           /\ RequeuedRow(row, e).attempts = 0 /\ RequeuedRow(row, e).gen = row.gen
  <1> USE DEF Row, Outstanding
  <1>1. /\ CoalescedRow(row, e) \in Row
        /\ CoalescedRow(row, e).status = row.status /\ CoalescedRow(row, e).payload = e
        /\ CoalescedRow(row, e).attempts = row.attempts /\ CoalescedRow(row, e).gen = row.gen
    BY DEF CoalescedRow
  <1>2. /\ InsertedRow(row, e) \in Row
        /\ InsertedRow(row, e).status = "pending" /\ InsertedRow(row, e).payload = e
        /\ InsertedRow(row, e).attempts = 0 /\ InsertedRow(row, e).gen = row.gen + 1
    BY DEF InsertedRow
  <1>3. /\ RequeuedRow(row, e) \in Row
        /\ RequeuedRow(row, e).status = "pending" /\ RequeuedRow(row, e).payload = e
        /\ RequeuedRow(row, e).attempts = 0 /\ RequeuedRow(row, e).gen = row.gen
    BY Zenon DEF RequeuedRow
  <1> QED  BY <1>1, <1>2, <1>3

\* The rows the worker writes (claimed, marked, deleted) are rows, and keep payload, attempts and generation.
LEMMA StatusFacts ==
    ASSUME NEW row \in Row
    PROVE  /\ ClaimedRow(row) \in Row
           /\ ClaimedRow(row).status = "running" /\ ClaimedRow(row).payload = row.payload
           /\ ClaimedRow(row).attempts = row.attempts + 1 /\ ClaimedRow(row).gen = row.gen
           /\ \A s \in {"succeeded", "failed", "retrying"} :
                 LET new == [row EXCEPT !.status = s] IN
                 /\ new \in Row /\ new.status = s
                 /\ new.payload = row.payload /\ new.attempts = row.attempts /\ new.gen = row.gen
           /\ Absent(row.gen) \in Row
           /\ Absent(row.gen).status = "absent" /\ Absent(row.gen).payload = NoEvent
           /\ Absent(row.gen).attempts = 0 /\ Absent(row.gen).gen = row.gen
           /\ row.gen \in Nat /\ row.attempts \in Nat
  <1> USE DEF Row, Outstanding
  <1>1. /\ ClaimedRow(row) \in Row
        /\ ClaimedRow(row).status = "running" /\ ClaimedRow(row).payload = row.payload
        /\ ClaimedRow(row).attempts = row.attempts + 1 /\ ClaimedRow(row).gen = row.gen
    <2>1. row.attempts + 1 \in Nat
      OBVIOUS
    <2>2. ClaimedRow(row) \in Row
      BY Zenon, <2>1 DEF ClaimedRow
    <2>3. ClaimedRow(row).status = "running" /\ ClaimedRow(row).payload = row.payload
      BY DEF ClaimedRow
    <2>4. ClaimedRow(row).attempts = row.attempts + 1 /\ ClaimedRow(row).gen = row.gen
      BY DEF ClaimedRow
    <2> QED  BY <2>2, <2>3, <2>4
  <1>2. ASSUME NEW s \in {"succeeded", "failed", "retrying"}
        PROVE  LET new == [row EXCEPT !.status = s] IN
               /\ new \in Row /\ new.status = s
               /\ new.payload = row.payload /\ new.attempts = row.attempts /\ new.gen = row.gen
    <2> DEFINE new == [row EXCEPT !.status = s]
    <2>1. s \in Outstanding \cup {"absent", "succeeded", "failed"}
      BY Zenon
    <2>2. new \in Row
      BY <2>1
    <2>3. new.status = s /\ new.payload = row.payload /\ new.attempts = row.attempts /\ new.gen = row.gen
      BY Zenon
    <2> QED  BY <2>2, <2>3
  <1>3. /\ Absent(row.gen) \in Row
        /\ Absent(row.gen).status = "absent" /\ Absent(row.gen).payload = NoEvent
        /\ Absent(row.gen).attempts = 0 /\ Absent(row.gen).gen = row.gen
    BY DEF Absent
  <1>4. row.gen \in Nat /\ row.attempts \in Nat
    BY Zenon
  <1> HIDE DEF Row, Outstanding
  <1> QED  BY <1>1, <1>2, <1>3, <1>4

\* What a transaction of enqueue_fanout_outbox may do to row k: it stays, takes e from the
\* coalescer while it waits, is inserted, or is requeued by force.
RowStep(k, e, ts, force) ==
    \/ outbox'[k] = outbox[k]
    \/ /\ ~force /\ k[2] \in ts \cap CoalesceTargets
       /\ outbox[k].status \in Waiting /\ FileOf[k[1]] = FileOf[e]
       /\ outbox'[k] = CoalescedRow(outbox[k], e)
    \/ /\ k[1] = e /\ k[2] \in ts /\ outbox[k].status = "absent"
       /\ outbox'[k] = InsertedRow(outbox[k], e)
    \/ /\ force /\ k[1] = e /\ k[2] \in ts /\ outbox[k].status # "absent"
       /\ outbox'[k] = RequeuedRow(outbox[k], e)

\* ... and to what sink t is owed: a sink that is owed e has a waiting row that carries it.
OwedStep(t, e, ts, force) ==
    \/ /\ owed'[t] = owed[t]
       /\ t = "mongo_raw" \/ force \/ \A d \in Events : outbox'[<<d, t>>] = outbox[<<d, t>>]
    \/ /\ owed'[t] = [owed[t] EXCEPT ![FileOf[e]] = Newer(@, e)]
       /\ t \in ts
       /\ \E d \in Events : /\ outbox'[<<d, t>>].payload = e
                            /\ outbox'[<<d, t>>].status \in Waiting

\* One transaction of enqueue_fanout_outbox, row by row and sink by sink.
LEMMA EnqueueFacts ==
    ASSUME TypeOK, NEW e \in Events, NEW ts \in SUBSET Targets, NEW force \in BOOLEAN,
           enqueue_fanout_outbox(e, ts, force)
    PROVE  /\ outbox' \in [Keys -> Row]
           /\ owed' \in [Targets -> [Files -> Events \cup {NoEvent}]]
           /\ \A k \in Keys : RowStep(k, e, ts, force)
           /\ \A t \in Targets : OwedStep(t, e, ts, force)
           /\ force => \A t \in ts : outbox'[<<e, t>>].status = "pending"
  <1>1. PICK into \in [ts -> Events], coalesced \in SUBSET ts :
          LET Found(t)  == Coalescable(FileOf[e], t)
              Exists(t) == outbox[<<e, t>>].status # "absent"
              Taken(t)  == LET row == outbox[<<into[t], t>>] IN
                             IF t \in coalesced THEN CoalescedRow(row, e)
                             ELSE IF ~Exists(t) THEN InsertedRow(row, e)
                             ELSE IF force THEN RequeuedRow(row, e) ELSE row
          IN  /\ \A t \in ts : IF t \in coalesced
                               THEN ~force /\ into[t] \in Found(t)
                               ELSE into[t] = e /\ (t \in CoalesceStale => force \/ Found(t) = {})
              /\ outbox' = [k \in Keys |-> IF k[2] \in ts /\ k[1] = into[k[2]] THEN Taken(k[2])
                                           ELSE outbox[k]]
              /\ owed' = [t \in Targets |->
                            IF t \in ts /\ (force \/ t \in coalesced \/ ~Exists(t))
                                 /\ (t = "mongo_raw" => e \notin raw)
                            THEN [owed[t] EXCEPT ![FileOf[e]] = Newer(@, e)] ELSE owed[t]]
    BY Zenon DEF enqueue_fanout_outbox
  <1> DEFINE Exists(t) == outbox[<<e, t>>].status # "absent"
             Taken(t)  == LET row == outbox[<<into[t], t>>] IN
                            IF t \in coalesced THEN CoalescedRow(row, e)
                            ELSE IF ~Exists(t) THEN InsertedRow(row, e)
                            ELSE IF force THEN RequeuedRow(row, e) ELSE row
  <1>t. outbox \in [Keys -> Row] /\ owed \in [Targets -> [Files -> Events \cup {NoEvent}]]
    BY Zenon DEF TypeOK
  <1>f. FileOf[e] \in Files
    BY Zenon, FanoutAssumption
  <1>2. \A t \in ts :
          \/ /\ t \in coalesced /\ ~force /\ t \in CoalesceTargets
             /\ into[t] \in Events /\ FileOf[into[t]] = FileOf[e]
             /\ outbox[<<into[t], t>>].status \in Waiting
             /\ Taken(t) = CoalescedRow(outbox[<<into[t], t>>], e)
          \/ /\ t \notin coalesced /\ into[t] = e /\ ~Exists(t)
             /\ Taken(t) = InsertedRow(outbox[<<e, t>>], e)
          \/ /\ t \notin coalesced /\ into[t] = e /\ Exists(t) /\ force
             /\ Taken(t) = RequeuedRow(outbox[<<e, t>>], e)
          \/ /\ t \notin coalesced /\ into[t] = e /\ Exists(t) /\ ~force
             /\ Taken(t) = outbox[<<e, t>>]
    BY <1>1 DEF Coalescable
  <1>3. /\ outbox' = [k \in Keys |-> IF k[2] \in ts /\ k[1] = into[k[2]] THEN Taken(k[2]) ELSE outbox[k]]
        /\ owed' = [t \in Targets |->
                      IF t \in ts /\ (force \/ t \in coalesced \/ ~Exists(t)) /\ (t = "mongo_raw" => e \notin raw)
                      THEN [owed[t] EXCEPT ![FileOf[e]] = Newer(@, e)] ELSE owed[t]]
    BY Zenon, <1>1
  <1> HIDE DEF Exists, Taken
  <1>4. \A k \in Keys : RowStep(k, e, ts, force)
    <2> SUFFICES ASSUME NEW k \in Keys, k[2] \in ts, k[1] = into[k[2]], outbox'[k] = Taken(k[2])
                 PROVE  RowStep(k, e, ts, force)
      BY Zenon, <1>3 DEF RowStep
    <2>1. k = <<into[k[2]], k[2]>>
      BY KeyFacts
    <2> QED  BY Zenon, <1>2, <2>1 DEF Exists, RowStep
  <1>5. outbox' \in [Keys -> Row]
    <2>1. ASSUME NEW k \in Keys PROVE outbox'[k] \in Row
      <3>1. outbox[k] \in Row
        BY <1>t
      <3>2. /\ CoalescedRow(outbox[k], e) \in Row /\ InsertedRow(outbox[k], e) \in Row
            /\ RequeuedRow(outbox[k], e) \in Row
        BY Zenon, <3>1, RowFacts
      <3> QED  BY Zenon, <1>4, <3>1, <3>2 DEF RowStep
    <2> QED  BY <1>3, <2>1
  <1>6. owed' \in [Targets -> [Files -> Events \cup {NoEvent}]]
    <2>1. \A o \in Events \cup {NoEvent} : Newer(o, e) \in Events \cup {NoEvent}
      BY DEF Newer
    <2> QED  BY Zenon, <1>3, <1>t, <1>f, <2>1
  <1>7. ASSUME NEW t \in ts, t \in coalesced \/ ~Exists(t) \/ force
        PROVE  \E d \in Events : /\ outbox'[<<d, t>>].payload = e
                                 /\ outbox'[<<d, t>>].status \in Waiting
                                 /\ force => d = e /\ outbox'[<<e, t>>].status = "pending"
    <2>1. into[t] \in Events /\ <<into[t], t>> \in Keys /\ <<e, t>> \in Keys
      BY KeyFacts
    <2>2. outbox'[<<into[t], t>>] = Taken(t)
      BY <1>3, <2>1
    <2>3. outbox[<<into[t], t>>] \in Row
      BY Zenon, <1>t, <2>1
    <2>4. /\ Taken(t).payload = e /\ Taken(t).status \in Waiting
          /\ force => into[t] = e /\ Taken(t).status = "pending"
      <3> DEFINE row == outbox[<<into[t], t>>]
      <3>1. /\ CoalescedRow(row, e).payload = e /\ CoalescedRow(row, e).status = row.status
            /\ InsertedRow(row, e).payload = e /\ InsertedRow(row, e).status = "pending"
            /\ RequeuedRow(row, e).payload = e /\ RequeuedRow(row, e).status = "pending"
        BY Zenon, <2>3, RowFacts
      <3>2. "pending" \in Waiting
        BY DEF Waiting
      <3> QED  BY Zenon, <1>2, <1>7, <3>1, <3>2
    <2> QED  BY <2>1, <2>2, <2>4
  <1>8. ASSUME NEW t \in Targets
        PROVE  OwedStep(t, e, ts, force)
    <2> USE DEF OwedStep
    <2>1. CASE t \in ts /\ (force \/ t \in coalesced \/ ~Exists(t)) /\ (t = "mongo_raw" => e \notin raw)
      BY Zenon, <1>3, <1>7, <2>1
    <2>2. CASE t \in ts /\ (force \/ t \in coalesced \/ ~Exists(t)) /\ ~(t = "mongo_raw" => e \notin raw)
      BY Zenon, <1>3, <2>2
    <2>3. CASE ~(t \in ts /\ (force \/ t \in coalesced \/ ~Exists(t)))
      <3>1. owed'[t] = owed[t]
        BY Zenon, <1>3, <2>3
      <3>2. ASSUME NEW d \in Events PROVE outbox'[<<d, t>>] = outbox[<<d, t>>]
        <4>1. <<d, t>> \in Keys /\ <<d, t>>[1] = d /\ <<d, t>>[2] = t
          BY Zenon, KeyFacts
        <4> QED  BY Zenon, <1>2, <1>3, <2>3, <4>1
      <3> QED  BY Zenon, <3>1, <3>2
    <2> QED  BY Zenon, <2>1, <2>2, <2>3
  <1>9. force => \A t \in ts : outbox'[<<e, t>>].status = "pending"
    BY Zenon, <1>7
  <1> QED  BY Zenon, <1>4, <1>5, <1>6, <1>8, <1>9

\* A worker's state.
Hand == [pc : {"idle", "claimed", "marking", "failing"},
         todo : SUBSET Job, batch : SUBSET Job, left : SUBSET Job,
         failed : SUBSET Job, error : Errors \cup {"none"}]

\* What a worker holds is a hand.
LEMMA HandType == TypeOK => worker \in [Workers -> Hand]
  BY Zenon DEF TypeOK, Hand

\* A job that is done leaves the chunk; an empty chunk leaves the rest of the batch.
LEMMA AdvanceFacts ==
    ASSUME NEW r \in Hand, NEW j \in r.left
    PROVE  /\ Advance(r, j) \in Hand
           /\ Advance(r, j).todo = r.todo
           /\ Advance(r, j).left = r.left \ {j}
           /\ Advance(r, j).pc = "idle" => (r.todo = {} /\ r.left = {j}) \/ r.pc = "idle"
           /\ Advance(r, j).pc = "claimed" => r.left = {j} \/ r.pc = "claimed"
           /\ Advance(r, j).batch \in {r.batch, {}}
           /\ Advance(r, j).batch = {} => r.left = {j} \/ r.batch = {}
           /\ Advance(r, j).pc = "marking" => /\ r.pc = "marking"
                                              /\ Advance(r, j).failed = r.failed
  <1>1. CASE r.left # {j}
    <2>1. Advance(r, j) = [r EXCEPT !.left = @ \ {j}]
      BY <1>1 DEF Advance
    <2>2. [r EXCEPT !.left = @ \ {j}] \in Hand
      BY DEF Hand
    <2> QED  BY <1>1, <2>1, <2>2 DEF Hand
  <1>2. CASE r.left = {j} /\ r.todo # {}
    <2>1. Advance(r, j) = [Idle EXCEPT !.pc = "claimed", !.todo = r.todo]
      BY <1>2 DEF Advance
    <2>2. [Idle EXCEPT !.pc = "claimed", !.todo = r.todo] \in Hand
      BY Zenon DEF Hand, Idle
    <2> QED  BY <1>2, <2>1, <2>2 DEF Hand, Idle
  <1>3. CASE r.left = {j} /\ r.todo = {}
    <2>1. Advance(r, j) = Idle
      BY <1>3 DEF Advance
    <2> QED  BY <1>3, <2>1 DEF Hand, Idle
  <1> QED  BY <1>1, <1>2, <1>3

\* The row j was claimed from is there, and nobody has deleted it.
RowOf(j) == outbox[j.key].gen = j.gen /\ outbox[j.key].status # "absent"

\* Marking touches the row the job was claimed from, if it still is there.
LEMMA MarkedFacts ==
    ASSUME TypeOK, NEW j \in Job, NEW row
    PROVE  /\ Marked(j, row) = [k \in Keys |-> IF k = j.key /\ RowOf(j) THEN row ELSE outbox[k]]
           /\ j.key \in Keys
  <1>1. outbox \in [Keys -> Row] /\ j.key \in Keys
    BY Zenon DEF TypeOK, Job
  <1> QED  BY Zenon, <1>1 DEF Marked, RowOf

\* The kill switch fails the outstanding Letta rows.
LEMMA BacklogFacts ==
    ASSUME TypeOK
    PROVE  /\ fail_letta_backlog \in [Keys -> Row]
           /\ \A k \in Keys :
                 \/ fail_letta_backlog[k] = outbox[k]
                 \/ /\ k[2] = "letta" /\ outbox[k].status \in Outstanding
                    /\ fail_letta_backlog[k] = [outbox[k] EXCEPT !.status = "failed"]
  <1>1. \A k \in Keys : outbox[k] \in Row
    BY DEF TypeOK
  <1>2. \A k \in Keys : [outbox[k] EXCEPT !.status = "failed"] \in Row
    BY Zenon, <1>1, StatusFacts
  <1> QED  BY <1>1, <1>2 DEF fail_letta_backlog, FailedRow

\* The kill switch stays well typed.
LEMMA SwitchFacts ==
    ASSUME TypeOK, NEW j \in Job, NEW outcome
    PROVE  /\ SwitchedLetta(j, outcome) \in [enabled : BOOLEAN, streak : Nat]
           /\ [SwitchedLetta(j, outcome) EXCEPT !.streak = 0] \in [enabled : BOOLEAN, streak : Nat]
  <1> DEFINE S == [enabled : BOOLEAN, streak : Nat]
             counted == [letta EXCEPT !.streak = @ + 1]
  <1>1. letta \in S
    BY Zenon DEF TypeOK
  <1>2. counted \in S /\ [letta EXCEPT !.streak = 0] \in S
    BY <1>1
  <1>3. \A l \in S : Disabled(l) \in S
    BY DEF Disabled
  <1> HIDE DEF counted, S
  <1>4. SwitchedLetta(j, outcome) \in {letta, Disabled(letta), Disabled(counted), counted,
                                       [letta EXCEPT !.streak = 0]}
    BY DEF SwitchedLetta, counted
  <1>5. SwitchedLetta(j, outcome) \in S
    BY <1>1, <1>2, <1>3, <1>4
  <1> QED  BY <1>5 DEF S

\* What a limit leaves.
LEMMA SpendFacts ==
    ASSUME TypeOK, NEW f \in {"backfills", "dbErrors", "crashes", "deletions"}, Spend(f)
    PROVE  /\ budget' \in [backfills : Nat, dbErrors : Nat, crashes : Nat, deletions : Nat]
           /\ budget[f] \in Nat \ {0} /\ budget'[f] = budget[f] - 1
           /\ \A g \in {"backfills", "dbErrors", "crashes", "deletions"} \ {f} : budget'[g] = budget[g]
  <1>1. /\ budget \in [backfills : Nat, dbErrors : Nat, crashes : Nat, deletions : Nat]
        /\ budget[f] > 0 /\ budget' = [budget EXCEPT ![f] = @ - 1]
    BY Zenon DEF TypeOK, Spend
  <1>2. budget[f] \in Nat \ {0} /\ budget[f] - 1 \in Nat
    BY <1>1
  <1>3. CASE f = "backfills"
    BY <1>1, <1>2, <1>3
  <1>4. CASE f = "dbErrors"
    BY Zenon, <1>1, <1>2, <1>4
  <1>5. CASE f = "crashes"
    BY <1>1, <1>2, <1>5
  <1>6. CASE f = "deletions"
    BY <1>1, <1>2, <1>6
  <1> QED  BY Zenon, <1>3, <1>4, <1>5, <1>6

-----------------------------------------------------------------------------
(* Types *)

\* The initial states are well typed.
LEMMA InitTypes == Init => TypeInv
  <1> SUFFICES ASSUME Init PROVE TypeInv
    BY Zenon
  <1>1. Absent(0) \in Row /\ Absent(0).status = "absent"
    BY DEF Absent, Row, Outstanding
  <1>2. outbox \in [Keys -> Row] /\ Carried
    BY Zenon, <1>1 DEF Init, Carried
  <1>3. Idle \in Hand
    BY DEF Idle, Hand
  <1>4. worker \in [Workers -> Hand]
    BY Zenon, <1>3 DEF Init
  <1>5. scan \in [docs : SUBSET Events, targets : SUBSET Targets, force : BOOLEAN, begun : BOOLEAN]
    BY Zenon DEF Init, NoScan
  <1>6. /\ letta \in [enabled : BOOLEAN, streak : Nat]
        /\ doomed \subseteq [key : Keys, gen : Nat]
        /\ up \in BOOLEAN
        /\ written \in Seq(Events)
        /\ raw \subseteq Events
        /\ intake \in Seq([event : Events, persisted : BOOLEAN])
        /\ seeds \subseteq Events
        /\ owed \in [Targets -> [Files -> Events \cup {NoEvent}]]
        /\ budget \in [backfills : Nat, dbErrors : Nat, crashes : Nat, deletions : Nat]
    BY FanoutAssumption DEF Init
  <1> QED  BY <1>2, <1>4, <1>5, <1>6 DEF TypeInv, TypeOK, Hand

\* A transaction of enqueue_fanout_outbox leaves rows that carry events.
LEMMA EnqueueTypes ==
    ASSUME TypeInv, NEW e \in Events, NEW ts \in SUBSET Targets, NEW force \in BOOLEAN,
           enqueue_fanout_outbox(e, ts, force)
    PROVE  /\ outbox' \in [Keys -> Row]
           /\ owed' \in [Targets -> [Files -> Events \cup {NoEvent}]]
           /\ Carried'
  <1>1. outbox \in [Keys -> Row]
    BY DEF TypeInv, TypeOK
  <1>3. TypeOK
    BY Zenon DEF TypeInv
  <1>2. ASSUME NEW k \in Keys, outbox'[k].status # "absent" PROVE outbox'[k].payload \in Events
    <2>1. outbox[k] \in Row
      BY Zenon, <1>1
    <2>2. /\ CoalescedRow(outbox[k], e).payload = e /\ InsertedRow(outbox[k], e).payload = e
          /\ RequeuedRow(outbox[k], e).payload = e
      BY Zenon, <2>1, RowFacts
    <2>3. RowStep(k, e, ts, force)
      BY Zenon, <1>3, EnqueueFacts
    <2>4. outbox'[k] \in {outbox[k], CoalescedRow(outbox[k], e), InsertedRow(outbox[k], e),
                          RequeuedRow(outbox[k], e)}
      BY Zenon, <2>3 DEF RowStep
    <2> QED  BY <1>2, <2>2, <2>4 DEF TypeInv, Carried
  <1>4. /\ outbox' \in [Keys -> Row]
        /\ owed' \in [Targets -> [Files -> Events \cup {NoEvent}]]
    BY Zenon, <1>3, EnqueueFacts
  <1> QED  BY Zenon, <1>2, <1>4 DEF Carried

\* The item a memory-bank worker finishes.
LEMMA IntakeFacts ==
    ASSUME TypeOK, NEW i \in InProgress
    PROVE  /\ i \in DOMAIN intake
           /\ intake[i] \in [event : Events, persisted : BOOLEAN]
           /\ Without(intake, i) \in Seq([event : Events, persisted : BOOLEAN])
  <1> DEFINE Intake == [event : Events, persisted : BOOLEAN]
  <1>1. i \in DOMAIN intake /\ intake \in Seq(Intake)
    BY DEF InProgress, TypeOK
  <1> HIDE DEF Intake
  <1>2. intake[i] \in Intake
    BY <1>1
  <1>3. Without(intake, i) \in Seq(Intake)
    BY <1>1, WithoutFacts
  <1> QED  BY Zenon, <1>1, <1>2, <1>3 DEF Intake

\* Accepting, queueing and seeding writes.
LEMMA WriteTypes ==
    ASSUME TypeInv, Write
    PROVE  TypeInv'
  <1> USE DEF TypeInv
  <1>1. ASSUME NEW e \in Events, NEW persisted \in RawOutcomes, write_memory(e, persisted)
        PROVE  TypeInv'
    <2>1. persisted \in BOOLEAN
      BY FanoutAssumption
    <2>2. [event |-> e, persisted |-> persisted] \in [event : Events, persisted : BOOLEAN]
      BY Zenon, <2>1
    <2>3. intake' \in Seq([event : Events, persisted : BOOLEAN]) /\ written' \in Seq(Events)
      BY Zenon, <1>1, <2>2, AppendedFacts DEF write_memory, TypeOK
    <2>4. raw' \subseteq Events /\ seeds' \subseteq Events
      BY <1>1 DEF write_memory, TypeOK
    <2> QED  BY Zenon, <1>1, <2>3, <2>4 DEF write_memory, TypeOK, Carried
  <1>2. ASSUME NEW e \in seeds, seed_mongo_retry(e)
        PROVE  TypeInv'
    <2>1. e \in Events /\ Targets \cap {"mongo_raw"} \in SUBSET Targets /\ TRUE \in BOOLEAN
      BY DEF TypeOK
    <2>2. enqueue_fanout_outbox(e, Targets \cap {"mongo_raw"}, TRUE)
      BY Zenon, <1>2 DEF seed_mongo_retry
    <2>3. /\ outbox' \in [Keys -> Row] /\ Carried'
          /\ owed' \in [Targets -> [Files -> Events \cup {NoEvent}]]
      BY Zenon, <2>1, <2>2, EnqueueTypes
    <2> QED  BY Zenon, <1>2, <2>3 DEF seed_mongo_retry, TypeOK
  <1>3. ASSUME NEW i \in InProgress, NEW a \in BOOLEAN, enqueue_memory_write_fanout(i, a)
        PROVE  TypeInv'
    <2> DEFINE ts == {t \in Targets : /\ t = "mongo_raw" => ~intake[i].persisted
                                      /\ t = "letta" => a}
    <2>1. intake[i].event \in Events /\ ts \in SUBSET Targets /\ FALSE \in BOOLEAN
      BY IntakeFacts
    <2>2. enqueue_fanout_outbox(intake[i].event, ts, FALSE)
      BY Zenon, <1>3 DEF enqueue_memory_write_fanout
    <2> HIDE DEF ts
    <2>3. /\ outbox' \in [Keys -> Row] /\ Carried'
          /\ owed' \in [Targets -> [Files -> Events \cup {NoEvent}]]
      BY Zenon, <2>1, <2>2, EnqueueTypes
    <2>4. intake' \in Seq([event : Events, persisted : BOOLEAN])
      BY Zenon, <1>3, IntakeFacts DEF enqueue_memory_write_fanout
    <2> QED  BY <1>3, <2>3, <2>4 DEF enqueue_memory_write_fanout, TypeOK
  <1>4. ASSUME NEW i \in InProgress, memory_bank_write_fails(i)
        PROVE  TypeInv'
    <2>1. intake' \in Seq([event : Events, persisted : BOOLEAN])
      BY Zenon, <1>4, IntakeFacts DEF memory_bank_write_fails
    <2> QED  BY Zenon, <1>4, <2>1 DEF memory_bank_write_fails, TypeOK, Carried
  <1> QED  BY Zenon, <1>1, <1>2, <1>3, <1>4 DEF Write

\* Backfills.
LEMMA BackfillTypes ==
    ASSUME TypeInv, Backfill
    PROVE  TypeInv'
  <1> USE DEF TypeInv
  <1> DEFINE Scan == [docs : SUBSET Events, targets : SUBSET Targets, force : BOOLEAN, begun : BOOLEAN]
  <1>0. scan \in Scan /\ NoScan \in Scan
    BY DEF TypeOK, NoScan
  <1>n. \A e \in NextDocs : e \in Events
    BY Zenon, <1>0 DEF NextDocs
  <1>1. ASSUME NEW ts \in (SUBSET Targets) \ {{}}, NEW force \in BOOLEAN, backfill_scan(ts, force)
        PROVE  TypeInv'
    <2>1. scan' \in Scan
      BY Zenon, <1>1 DEF backfill_scan, TypeOK
    <2>2. budget' \in [backfills : Nat, dbErrors : Nat, crashes : Nat, deletions : Nat]
      BY Zenon, <1>1, SpendFacts DEF backfill_scan
    <2> QED  BY Zenon, <1>1, <2>1, <2>2 DEF backfill_scan, TypeOK, Carried
  <1>2. ASSUME NEW upserted \in BOOLEAN, backfill_enqueue(upserted)
        PROVE  TypeInv'
    <2> DEFINE ts == IF upserted /\ ~scan.force THEN scan.targets \ {"mongo_raw"} ELSE scan.targets
    <2>1. PICK e \in NextDocs :
            /\ enqueue_fanout_outbox(e, ts, scan.force)
            /\ scan' = IF scan.docs = {e} THEN NoScan ELSE [scan EXCEPT !.docs = @ \ {e}, !.begun = TRUE]
      BY Zenon, <1>2 DEF backfill_enqueue
    <2>2. e \in Events /\ ts \in SUBSET Targets /\ scan.force \in BOOLEAN
      BY <1>0, <1>n
    <2> HIDE DEF ts
    <2>3. /\ outbox' \in [Keys -> Row] /\ Carried'
          /\ owed' \in [Targets -> [Files -> Events \cup {NoEvent}]]
      BY Zenon, <2>1, <2>2, EnqueueTypes
    <2>4. scan' \in Scan
      BY Zenon, <1>0, <2>1
    <2> QED  BY <1>2, <2>3, <2>4 DEF backfill_enqueue, TypeOK
  <1>3. ASSUME backfill_skips
        PROVE  TypeInv'
    <2>1. scan' \in Scan
      BY <1>0, <1>3 DEF backfill_skips
    <2> QED  BY <1>3, <2>1 DEF backfill_skips, TypeOK, Carried
  <1>4. ASSUME backfill_throttled
        PROVE  TypeInv'
    BY Zenon, <1>0, <1>4 DEF backfill_throttled, TypeOK, Carried
  <1> QED  BY Zenon, <1>1, <1>2, <1>3, <1>4 DEF Backfill

-----------------------------------------------------------------------------
(* What a worker's step does *)

\* claim_fanout_batch: the waiting rows S are running now, and the worker has copies of them.
Claims(w, S) ==
    /\ \A k \in S : outbox[k].status \in Waiting
    /\ outbox' = [k \in Keys |-> IF k \in S THEN ClaimedRow(outbox[k]) ELSE outbox[k]]
    /\ worker'[w] \in Hand /\ worker' = [worker EXCEPT ![w] = worker'[w]]
    /\ worker'[w].pc = "claimed"
    /\ worker'[w].todo = {JobOf(k, ClaimedRow(outbox[k])) : k \in S}
    /\ worker'[w].left = {} /\ worker'[w].batch = {}
    /\ \A k \in S : ClaimedRow(outbox[k]) \in Row

\* claim_fanout_batch, seen as the set of keys it claims.
LEMMA ClaimFacts ==
    ASSUME TypeInv, NEW w \in Workers, claim_fanout_batch(w)
    PROVE  \E S \in SUBSET Keys : Claims(w, S)
  <1>1. PICK S \in SUBSET Claimable(w, Waiting) :
          /\ outbox' = [k \in Keys |-> IF k \in S THEN ClaimedRow(outbox[k]) ELSE outbox[k]]
          /\ worker' = [worker EXCEPT ![w] =
                          [Idle EXCEPT !.pc = "claimed",
                                       !.todo = {JobOf(k, ClaimedRow(outbox[k])) : k \in S}]]
    BY Zenon DEF claim_fanout_batch
  <1> DEFINE jobs == {JobOf(k, ClaimedRow(outbox[k])) : k \in S}
             hand == [Idle EXCEPT !.pc = "claimed", !.todo = jobs]
  <1>2. S \in SUBSET Keys /\ \A k \in S : outbox[k].status \in Waiting
    BY Zenon DEF Claimable
  <1>3. ASSUME NEW k \in S PROVE JobOf(k, ClaimedRow(outbox[k])) \in Job /\ ClaimedRow(outbox[k]) \in Row
    <2>1. outbox[k] \in Row /\ k \in Keys
      BY Zenon, <1>2 DEF TypeInv, TypeOK
    <2>2. outbox[k].payload \in Events
      BY <1>2, <2>1 DEF TypeInv, Carried, Waiting
    <2>3. /\ ClaimedRow(outbox[k]) \in Row
          /\ ClaimedRow(outbox[k]).payload = outbox[k].payload
          /\ ClaimedRow(outbox[k]).gen \in Nat /\ ClaimedRow(outbox[k]).attempts \in Nat
      BY Zenon, <2>1, StatusFacts
    <2> QED  BY Zenon, <2>1, <2>2, <2>3 DEF JobOf, Job
  <1>4. jobs \subseteq Job
    BY Zenon, <1>3
  <1> HIDE DEF jobs
  <1>5. /\ hand \in Hand /\ hand.pc = "claimed" /\ hand.todo = jobs
        /\ hand.left = {} /\ hand.batch = {}
    BY Zenon, <1>4 DEF Idle, Hand
  <1>6. worker \in [Workers -> Hand] /\ worker' = [worker EXCEPT ![w] = hand]
    BY <1>1, HandType DEF TypeInv, jobs
  <1> HIDE DEF hand
  <1>7. worker'[w] = hand
    BY <1>6
  <1> QED  BY Zenon, <1>1, <1>2, <1>3, <1>5, <1>6, <1>7 DEF jobs, Claims

\* The jobs of a chunk.
LEMMA ChunkFacts ==
    ASSUME TypeInv, NEW w \in Workers, NEW B \in Chunks(w)
    PROVE  B \subseteq worker[w].todo /\ B \subseteq Job /\ B # {}
  <1>1. worker[w] \in Hand
    BY Zenon, HandType DEF TypeInv
  <1> QED  BY <1>1 DEF Chunks, Hand

\* push_batch: chunk B leaves the batch, the jobs of F having failed; what it delivered, R, is
\* no longer owed, and the raw events among it are in Mongo.
Pushes(w, B, F, R) ==
    /\ F \subseteq B /\ B \ F \subseteq R /\ R \subseteq Job
    /\ worker'[w] \in Hand /\ worker' = [worker EXCEPT ![w] = worker'[w]]
    /\ worker'[w].pc \in {"marking", "failing"}
    /\ worker'[w].todo = worker[w].todo \ B
    /\ worker'[w].batch = B /\ worker'[w].left = B /\ worker'[w].failed = F
    /\ owed' = [t \in Targets |-> [f \in Files |->
                  IF \E j \in R : j.key[2] = t /\ j.payload = owed[t][f] THEN NoEvent ELSE owed[t][f]]]
    /\ raw' = raw \cup {e \in Events : \E j \in R : j.key[2] = "mongo_raw" /\ j.payload = e}

\* push_batch, seen as the chunk it takes and the jobs that failed and were received.
LEMMA PushFacts ==
    ASSUME TypeInv, NEW w \in Workers, push_batch(w)
    PROVE  \E B \in SUBSET worker[w].todo, F \in SUBSET worker[w].todo, R \in SUBSET worker[w].todo :
             Pushes(w, B, F, R)
  <1>1. PICK B \in Chunks(w), F \in SUBSET worker[w].todo, R \in SUBSET worker[w].todo, err \in Errors :
          LET lettaChunk == \E j \in B : IsLetta(j)
              Received(t, e) == \E j \in R : j.key[2] = t /\ j.payload = e IN
          /\ F \subseteq B
          /\ B \ F \subseteq R
          /\ R \subseteq B
          /\ lettaChunk => letta.enabled
          /\ lettaChunk \/ F \in {{}, B}
          /\ err # "other" => F # {} /\ \E j \in B : j.key[2] = "mindsdb"
          /\ owed' = [t \in Targets |-> [f \in Files |->
                        IF Received(t, owed[t][f]) THEN NoEvent ELSE owed[t][f]]]
          /\ raw' = raw \cup {e \in Events : Received("mongo_raw", e)}
          /\ worker' = [worker EXCEPT ![w] =
                          [pc |-> IF lettaChunk \/ F = {} THEN "marking" ELSE "failing",
                           todo |-> @.todo \ B, batch |-> B, left |-> B, failed |-> F,
                           error |-> err]]
    BY Zenon DEF push_batch
  <1> DEFINE pc == IF (\E j \in B : IsLetta(j)) \/ F = {} THEN "marking" ELSE "failing"
             hand == [pc |-> pc, todo |-> worker[w].todo \ B, batch |-> B, left |-> B, failed |-> F,
                      error |-> err]
  <1>2. worker \in [Workers -> Hand] /\ worker[w] \in Hand
    BY Zenon, HandType DEF TypeInv
  <1>3. B \in SUBSET worker[w].todo /\ B \subseteq Job /\ R \subseteq Job /\ F \subseteq Job
    BY Zenon, <1>2, ChunkFacts DEF Hand
  <1>4. worker' = [worker EXCEPT ![w] = hand]
    BY <1>1, <1>2
  <1>5. pc \in {"marking", "failing"}
    BY Zenon
  <1> HIDE DEF pc
  <1>6. hand \in Hand
    BY Zenon, <1>2, <1>3, <1>5 DEF Hand
  <1>7. worker'[w] = hand
    BY Zenon, <1>2, <1>4
  <1>8. /\ hand.pc \in {"marking", "failing"} /\ hand.todo = worker[w].todo \ B
        /\ hand.batch = B /\ hand.left = B /\ hand.failed = F
    BY Zenon, <1>5
  <1> HIDE DEF hand
  <1>9. B \in SUBSET worker[w].todo /\ F \in SUBSET worker[w].todo /\ R \in SUBSET worker[w].todo
    BY Zenon, <1>3
  <1>10. /\ worker'[w] \in Hand /\ worker' = [worker EXCEPT ![w] = worker'[w]]
         /\ worker'[w].pc \in {"marking", "failing"}
         /\ worker'[w].todo = worker[w].todo \ B
         /\ worker'[w].batch = B /\ worker'[w].left = B /\ worker'[w].failed = F
    BY Zenon, <1>4, <1>6, <1>7, <1>8
  <1>11. Pushes(w, B, F, R)
    BY Zenon, <1>1, <1>3, <1>10 DEF Pushes
  <1> QED  BY Zenon, <1>9, <1>11

\* letta_chunk_dropped: chunk B of Letta jobs is let go.
Drops(w, B) ==
    /\ worker'[w] \in Hand /\ worker' = [worker EXCEPT ![w] = worker'[w]]
    /\ worker'[w].todo = worker[w].todo \ B
    /\ worker'[w].left \in {worker[w].left, {}}
    /\ worker'[w].batch \in {worker[w].batch, {}}
    /\ worker'[w].left # {} => worker'[w].batch = worker[w].batch
    /\ worker'[w].pc \in {"idle", "claimed"}
    /\ worker'[w].pc = "idle" => worker'[w].todo = {} /\ worker'[w].left = {}

\* letta_chunk_dropped, seen as the chunk it drops.
LEMMA DropFacts ==
    ASSUME TypeInv, NEW w \in Workers, letta_chunk_dropped(w)
    PROVE  \E B \in SUBSET worker[w].todo : Drops(w, B)
  <1>1. PICK B \in Chunks(w) :
          worker' = [worker EXCEPT ![w] = IF @.todo = B THEN Idle
                                         ELSE [@ EXCEPT !.todo = worker[w].todo \ B]]
    BY Zenon DEF letta_chunk_dropped
  <1> DEFINE hand == IF worker[w].todo = B THEN Idle ELSE [worker[w] EXCEPT !.todo = @ \ B]
  <1>2. /\ worker \in [Workers -> Hand] /\ worker[w] \in Hand /\ worker[w].pc = "claimed"
        /\ B \in SUBSET worker[w].todo
    BY HandType, ChunkFacts DEF TypeInv, letta_chunk_dropped
  <1>3. worker' = [worker EXCEPT ![w] = hand] /\ worker'[w] = hand
    <2>1. worker' = [worker EXCEPT ![w] = hand]
      BY <1>1
    <2> HIDE DEF hand
    <2> QED  BY Zenon, <1>2, <2>1
  <1>4. CASE worker[w].todo = B
    <2>1. hand = Idle /\ Idle \in Hand
      BY Zenon, <1>4 DEF Idle, Hand
    <2> HIDE DEF hand
    <2> QED  BY <1>2, <1>3, <1>4, <2>1 DEF Idle, Drops
  <1>5. CASE worker[w].todo # B
    <2>1. hand = [worker[w] EXCEPT !.todo = @ \ B]
      BY <1>5
    <2> HIDE DEF hand
    <2>2. /\ hand \in Hand /\ hand.todo = worker[w].todo \ B /\ hand.left = worker[w].left
          /\ hand.batch = worker[w].batch /\ hand.pc = "claimed"
      BY Zenon, <1>2, <2>1 DEF Hand
    <2> QED  BY <1>2, <1>3, <1>5, <2>2 DEF Drops
  <1> QED  BY <1>4, <1>5

\* A job is marked: the worker is done with it, and its row, if it is still there, has a new
\* status, or the Letta backlog is failed.
LEMMA MarkFacts ==
    ASSUME TypeInv, NEW w \in Workers, NEW j \in worker[w].left,
           \/ mark_fanout_job_success(w, j)
           \/ \E err \in Errors : handle_fanout_job_error(w, j, err)
    PROVE  /\ j \in Job /\ worker[w].pc \in {"marking", "failing"}
           /\ worker'[w] = Advance(worker[w], j) /\ worker' = [worker EXCEPT ![w] = worker'[w]]
           /\ letta' \in [enabled : BOOLEAN, streak : Nat]
           /\ \/ /\ outbox' = fail_letta_backlog /\ owed' = owed
                 /\ j.key[2] = "letta"
              \/ \E s \in {"succeeded", "failed", "retrying"} :
                   /\ outbox' = Marked(j, [outbox[j.key] EXCEPT !.status = s])
                   /\ s = "retrying" => j.attempts < MaxAttempts
                   /\ \/ owed' = owed /\ s # "succeeded"
                      \/ owed' = owed /\ s = "succeeded" /\ worker[w].pc = "marking"
                           /\ j \notin worker[w].failed
                      \/ /\ s = "succeeded" /\ j.key[2] = "mindsdb"
                         /\ owed' = [owed EXCEPT !["mindsdb"][FileOf[j.payload]] =
                                       IF @ = j.payload THEN NoEvent ELSE @]
  <1>1. worker \in [Workers -> Hand] /\ worker[w] \in Hand /\ j \in Job
    BY Zenon, HandType DEF TypeInv, Hand
  <1>2. CASE mark_fanout_job_success(w, j)
    <2>1. outbox' = Marked(j, [outbox[j.key] EXCEPT !.status = "succeeded"])
      BY <1>2 DEF mark_fanout_job_success, SucceededRow
    <2>2. letta' \in [enabled : BOOLEAN, streak : Nat]
      BY Zenon, <1>1, <1>2, SwitchFacts DEF mark_fanout_job_success, TypeInv
    <2>3. worker'[w] = Advance(worker[w], j) /\ worker' = [worker EXCEPT ![w] = worker'[w]]
      BY <1>1, <1>2 DEF mark_fanout_job_success
    <2>4. /\ worker[w].pc = "marking" /\ owed' = owed /\ j \notin worker[w].failed
      BY <1>2 DEF mark_fanout_job_success
    <2> QED  BY <1>1, <2>1, <2>2, <2>3, <2>4
  <1>3. ASSUME NEW err \in Errors, handle_fanout_job_error(w, j, err)
        PROVE  /\ letta' \in [enabled : BOOLEAN, streak : Nat]
               /\ worker[w].pc \in {"marking", "failing"}
               /\ worker'[w] = Advance(worker[w], j) /\ worker' = [worker EXCEPT ![w] = worker'[w]]
    <2>1. letta' \in {SwitchedLetta(j, err), [SwitchedLetta(j, err) EXCEPT !.streak = 0]}
      BY <1>3 DEF handle_fanout_job_error
    <2>2. letta' \in [enabled : BOOLEAN, streak : Nat]
      <3>1. /\ SwitchedLetta(j, err) \in [enabled : BOOLEAN, streak : Nat]
            /\ [SwitchedLetta(j, err) EXCEPT !.streak = 0] \in [enabled : BOOLEAN, streak : Nat]
        BY Zenon, <1>1, SwitchFacts DEF TypeInv
      <3> QED  BY <2>1, <3>1
    <2>3. worker'[w] = Advance(worker[w], j) /\ worker' = [worker EXCEPT ![w] = worker'[w]]
      BY Zenon, <1>1, <1>3 DEF handle_fanout_job_error
    <2> QED  BY Zenon, <1>3, <2>2, <2>3 DEF handle_fanout_job_error, HandlesError
  <1>4. ASSUME NEW err \in Errors, handle_fanout_job_error(w, j, err)
        PROVE  \/ outbox' = fail_letta_backlog /\ owed' = owed /\ j.key[2] = "letta"
               \/ \E s \in {"succeeded", "failed", "retrying"} :
                    /\ outbox' = Marked(j, [outbox[j.key] EXCEPT !.status = s])
                    /\ s = "retrying" => j.attempts < MaxAttempts
                    /\ \/ owed' = owed /\ s # "succeeded"
                       \/ /\ s = "succeeded" /\ j.key[2] = "mindsdb"
                          /\ owed' = [owed EXCEPT !["mindsdb"][FileOf[j.payload]] =
                                        IF @ = j.payload THEN NoEvent ELSE @]
    <2> DEFINE failsOpen == j.key[2] = "mindsdb" /\ err = "permanent"
               row == outbox[j.key]
    <2>1. /\ outbox' = CASE TripsLetta(j, err) -> fail_letta_backlog
                         [] failsOpen -> Marked(j, IF FailOpen THEN SucceededRow(row) ELSE FailedRow(row))
                         [] OTHER     -> Marked(j, RetriedRow(row, j))
          /\ owed' = IF failsOpen /\ FailOpen
                     THEN [owed EXCEPT !["mindsdb"][FileOf[j.payload]] = IF @ = j.payload THEN NoEvent ELSE @]
                     ELSE owed
      BY <1>4 DEF handle_fanout_job_error
    <2>2. CASE TripsLetta(j, err)
      <3>1. j.key[2] = "letta"
        BY <2>2 DEF TripsLetta, IsLetta
      <3> QED  BY Zenon, <2>1, <2>2, <3>1
    <2>3. CASE ~TripsLetta(j, err) /\ failsOpen /\ FailOpen
      BY <2>1, <2>3 DEF SucceededRow
    <2>4. CASE ~TripsLetta(j, err) /\ failsOpen /\ ~FailOpen
      BY Zenon, <2>1, <2>4 DEF FailedRow
    <2>5. CASE ~TripsLetta(j, err) /\ ~failsOpen
      BY Zenon, <2>1, <2>5 DEF RetriedRow, FailedRow
    <2> QED  BY Zenon, <2>2, <2>3, <2>4, <2>5
  <1> QED  BY Zenon, <1>1, <1>2, <1>3, <1>4

\* mark_raises: a worker that marks goes on to fail the chunk, one that fails it lets go.
LEMMA RaiseFacts ==
    ASSUME TypeInv, NEW w \in Workers, NEW j \in worker[w].left, NEW o \in Errors \cup {"ok"},
           mark_raises(w, j, o)
    PROVE  /\ letta' \in [enabled : BOOLEAN, streak : Nat]
           /\ worker'[w] \in Hand /\ worker' = [worker EXCEPT ![w] = worker'[w]]
           /\ worker'[w].pc # "marking"
           /\ worker'[w].left \in {worker[w].batch, {}}
           /\ worker'[w].todo \in {worker[w].todo, {}}
           /\ worker'[w].batch \in {worker[w].batch, {}}
           /\ worker'[w].left # {} => worker'[w].batch = worker[w].batch
           /\ Spend("dbErrors")
  <1>1. worker \in [Workers -> Hand] /\ worker[w] \in Hand /\ j \in Job
    BY HandType DEF TypeInv, Hand
  <1>2. letta' \in [enabled : BOOLEAN, streak : Nat]
    BY Zenon, <1>1, SwitchFacts DEF mark_raises, TypeInv
  <1> DEFINE failing == [worker[w] EXCEPT !.pc = "failing", !.left = worker[w].batch, !.failed = {},
                                          !.error = "other"]
  <1>3. /\ failing \in Hand /\ failing.pc = "failing" /\ failing.left = worker[w].batch
        /\ failing.todo = worker[w].todo /\ failing.batch = worker[w].batch
    BY Zenon, <1>1 DEF Hand, Errors
  <1>4. worker' = [worker EXCEPT ![w] = IF worker[w].pc = "marking" THEN failing ELSE Idle]
    BY DEF mark_raises
  <1> HIDE DEF failing
  <1>5. Idle \in Hand /\ Idle.pc = "idle" /\ Idle.left = {} /\ Idle.todo = {} /\ Idle.batch = {}
    BY Zenon DEF Idle, Hand
  <1>6. worker'[w] \in {failing, Idle} /\ worker' = [worker EXCEPT ![w] = worker'[w]]
    BY <1>1, <1>4
  <1>7. Spend("dbErrors")
    BY DEF mark_raises
  <1> QED  BY Zenon, <1>2, <1>3, <1>5, <1>6, <1>7

-----------------------------------------------------------------------------
(* Type correctness *)

\* Steps of a worker.
LEMMA WorkerTypes ==
    ASSUME TypeInv, NEW w \in Workers, WorkerStep(w)
    PROVE  TypeInv'
  <1>t. TypeOK /\ worker \in [Workers -> Hand] /\ outbox \in [Keys -> Row]
    BY HandType DEF TypeInv, TypeOK
  <1>1. CASE claim_fanout_batch(w)
    <2>0. PICK S \in SUBSET Keys : Claims(w, S)
      BY Zenon, <1>1, ClaimFacts
    <2>1. /\ \A k \in S : outbox[k].status \in Waiting
          /\ outbox' = [k \in Keys |-> IF k \in S THEN ClaimedRow(outbox[k]) ELSE outbox[k]]
          /\ worker'[w] \in Hand /\ worker' = [worker EXCEPT ![w] = worker'[w]]
          /\ \A k \in S : ClaimedRow(outbox[k]) \in Row
      BY Zenon, <2>0 DEF Claims
    <2>2. worker' \in [Workers -> Hand] /\ outbox' \in [Keys -> Row]
      BY Zenon, <1>t, <2>1
    <2>3. ASSUME NEW k \in Keys, outbox'[k].status # "absent" PROVE outbox'[k].payload \in Events
      <3>1. outbox[k] \in Row
        BY <1>t
      <3>2. ClaimedRow(outbox[k]).payload = outbox[k].payload
        BY Zenon, <3>1, StatusFacts
      <3> QED  BY <2>1, <2>3, <3>2 DEF Waiting, TypeInv, Carried
    <2> QED  BY Zenon, <1>1, <1>t, <2>2, <2>3 DEF claim_fanout_batch, source, TypeInv, TypeOK, Carried, Hand
  <1>2. CASE push_batch(w)
    <2>0. PICK B \in SUBSET worker[w].todo, F \in SUBSET worker[w].todo, R \in SUBSET worker[w].todo :
            Pushes(w, B, F, R)
      BY Zenon, <1>2, PushFacts
    <2>1. /\ worker'[w] \in Hand /\ worker' = [worker EXCEPT ![w] = worker'[w]]
          /\ owed' = [t \in Targets |-> [f \in Files |->
                         IF \E j \in R : j.key[2] = t /\ j.payload = owed[t][f] THEN NoEvent
                         ELSE owed[t][f]]]
          /\ raw' = raw \cup {e \in Events : \E j \in R : j.key[2] = "mongo_raw" /\ j.payload = e}
      BY Zenon, <2>0 DEF Pushes
    <2>2. worker' \in [Workers -> Hand] /\ raw' \subseteq Events
      BY Zenon, <1>t, <2>1 DEF TypeOK
    <2>3. owed' \in [Targets -> [Files -> Events \cup {NoEvent}]]
      BY Zenon, <1>t, <2>1 DEF TypeOK
    <2> QED  BY Zenon, <1>2, <1>t, <2>2, <2>3 DEF push_batch, TypeInv, TypeOK, Carried, Hand
  <1>3. CASE letta_chunk_dropped(w)
    <2>1. worker'[w] \in Hand /\ worker' = [worker EXCEPT ![w] = worker'[w]]
      BY <1>3, DropFacts DEF Drops
    <2>2. worker' \in [Workers -> Hand]
      BY Zenon, <1>t, <2>1
    <2>3. outbox' = fail_letta_backlog
      BY <1>3 DEF letta_chunk_dropped
    <2>4. outbox' \in [Keys -> Row]
      BY <1>t, <2>3, BacklogFacts
    <2>5. ASSUME NEW k \in Keys, outbox'[k].status # "absent" PROVE outbox'[k].payload \in Events
      <3>1. outbox[k] \in Row
        BY Zenon, <1>t
      <3>2. [outbox[k] EXCEPT !.status = "failed"].payload = outbox[k].payload
        BY <3>1, StatusFacts
      <3> QED  BY Zenon, <1>t, <2>3, <2>5, <3>2, BacklogFacts DEF Outstanding, TypeInv, Carried
    <2> QED  BY Zenon, <1>3, <1>t, <2>2, <2>4, <2>5 DEF letta_chunk_dropped, source, TypeInv, TypeOK, Carried, Hand
  <1>4. CASE Mark(w)
    <2>1. PICK j \in worker[w].left : \/ mark_fanout_job_success(w, j)
                                      \/ \E err \in Errors : handle_fanout_job_error(w, j, err)
      BY Zenon, <1>4 DEF Mark
    <2>2. /\ worker'[w] = Advance(worker[w], j) /\ worker' = [worker EXCEPT ![w] = worker'[w]]
          /\ letta' \in [enabled : BOOLEAN, streak : Nat] /\ j \in Job
      BY Zenon, <2>1, MarkFacts
    <2>3. worker' \in [Workers -> Hand]
      BY <1>t, <2>2, AdvanceFacts
    <2>4. outbox' \in [Keys -> Row] /\ Carried'
      <3>1. CASE outbox' = fail_letta_backlog
        <4>1. outbox' \in [Keys -> Row]
          BY <1>t, <3>1, BacklogFacts
        <4>2. ASSUME NEW k \in Keys, outbox'[k].status # "absent" PROVE outbox'[k].payload \in Events
          <5>1. outbox[k] \in Row
            BY Zenon, <1>t
          <5>2. [outbox[k] EXCEPT !.status = "failed"].payload = outbox[k].payload
            BY <5>1, StatusFacts
          <5> QED  BY Zenon, <1>t, <3>1, <4>2, <5>2, BacklogFacts DEF Outstanding, TypeInv, Carried
        <4> QED  BY <4>1, <4>2 DEF Carried
      <3>2. ASSUME NEW s \in {"succeeded", "failed", "retrying"},
                   outbox' = Marked(j, [outbox[j.key] EXCEPT !.status = s])
            PROVE  outbox' \in [Keys -> Row] /\ Carried'
        <4> DEFINE row == [outbox[j.key] EXCEPT !.status = s]
        <4>1. /\ outbox' = [k \in Keys |-> IF k = j.key /\ RowOf(j) THEN row ELSE outbox[k]]
              /\ j.key \in Keys
          BY <1>t, <2>2, <3>2, MarkedFacts
        <4>2. outbox[j.key] \in Row
          BY <1>t, <4>1
        <4>3. row \in Row /\ row.payload = outbox[j.key].payload
          BY Zenon, <4>2, StatusFacts
        <4> HIDE DEF row
        <4>4. outbox' \in [Keys -> Row]
          BY Zenon, <1>t, <4>1, <4>3
        <4>5. ASSUME NEW k \in Keys, outbox'[k].status # "absent" PROVE outbox'[k].payload \in Events
          BY Zenon, <4>1, <4>3, <4>5 DEF RowOf, TypeInv, Carried
        <4> QED  BY Zenon, <4>4, <4>5 DEF Carried
      <3> QED  BY <2>1, <3>1, <3>2, MarkFacts
    <2>5. owed' \in [Targets -> [Files -> Events \cup {NoEvent}]]
      <3>1. \/ owed' = owed
            \/ owed' = [owed EXCEPT !["mindsdb"][FileOf[j.payload]] = IF @ = j.payload THEN NoEvent ELSE @]
        BY Zenon, <2>1, MarkFacts
      <3>2. ASSUME owed' = [owed EXCEPT !["mindsdb"][FileOf[j.payload]] =
                                 IF @ = j.payload THEN NoEvent ELSE @]
            PROVE  owed' \in [Targets -> [Files -> Events \cup {NoEvent}]]
        <4> DEFINE S == Events \cup {NoEvent}
                   f == FileOf[j.payload]
                   new == IF owed["mindsdb"][f] = j.payload THEN NoEvent ELSE owed["mindsdb"][f]
        <4>1. owed \in [Targets -> [Files -> S]]
          BY <1>t DEF TypeOK
        <4>2. owed' = [owed EXCEPT !["mindsdb"] = [owed["mindsdb"] EXCEPT ![f] = new]]
          BY <3>2
        <4>3. f \in Files
          BY Zenon, <2>2, FanoutAssumption DEF Job
        <4>4. "mindsdb" \in Targets => [owed["mindsdb"] EXCEPT ![f] = new] \in [Files -> S]
          BY Zenon, <4>1, <4>3
        <4> HIDE DEF new, S
        <4>5. owed' \in [Targets -> [Files -> S]]
          BY Zenon, <4>1, <4>2, <4>4
        <4> QED  BY Zenon, <4>5 DEF S
      <3> QED  BY Zenon, <1>t, <3>1, <3>2 DEF TypeOK
    <2>6. UNCHANGED <<doomed, up, source, budget>>
      BY Zenon, <2>1 DEF mark_fanout_job_success, handle_fanout_job_error
    <2> QED  BY Zenon, <1>t, <2>2, <2>3, <2>4, <2>5, <2>6 DEF source, TypeInv, TypeOK, Hand
  <1> QED  BY Zenon, <1>1, <1>2, <1>3, <1>4 DEF WorkerStep

\* Deletions, crashes and restarts.
LEMMA DeleteTypes ==
    ASSUME TypeInv, Delete \/ crash \/ start_background_tasks
    PROVE  TypeInv'
  <1>t. TypeOK /\ outbox \in [Keys -> Row] /\ owed \in [Targets -> [Files -> Events \cup {NoEvent}]]
    BY Zenon DEF TypeInv, TypeOK
  <1>d. ASSUME NEW S, outbox' = Deleted(S) PROVE outbox' \in [Keys -> Row] /\ Carried'
    <2>1. \A k \in Keys : Absent(outbox[k].gen) \in Row /\ Absent(outbox[k].gen).status = "absent"
      BY Zenon, <1>t, StatusFacts
    <2> QED  BY <1>t, <1>d, <2>1 DEF Deleted, TypeInv, Carried
  <1>f. ASSUME NEW S, owed' = Forgiven(S) PROVE owed' \in [Targets -> [Files -> Events \cup {NoEvent}]]
    BY Zenon, <1>t, <1>f DEF Forgiven
  <1>1. CASE fanout_outbox_gc
    <2>1. outbox' \in [Keys -> Row] /\ Carried' /\ owed' \in [Targets -> [Files -> Events \cup {NoEvent}]]
      BY Zenon, <1>1, <1>d, <1>f DEF fanout_outbox_gc
    <2>2. budget' \in [backfills : Nat, dbErrors : Nat, crashes : Nat, deletions : Nat]
      BY <1>1, <1>t, SpendFacts DEF fanout_outbox_gc
    <2> QED  BY Zenon, <1>1, <1>t, <2>1, <2>2 DEF fanout_outbox_gc, source, TypeInv, TypeOK
  <1>2. CASE prune_select
    <2>1. PICK S \in SUBSET Keys : doomed' = {[key |-> k, gen |-> outbox[k].gen] : k \in S}
      BY Zenon, <1>2 DEF prune_select
    <2>2. \A k \in Keys : outbox[k].gen \in Nat
      BY Zenon, <1>t DEF Row
    <2>3. doomed' \subseteq [key : Keys, gen : Nat]
      BY <2>1, <2>2
    <2>4. budget' \in [backfills : Nat, dbErrors : Nat, crashes : Nat, deletions : Nat]
      BY Zenon, <1>2, <1>t, SpendFacts DEF prune_select
    <2> QED  BY Zenon, <1>2, <1>t, <2>3, <2>4 DEF prune_select, source, TypeInv, TypeOK, Carried
  <1>3. CASE prune_delete
    <2>1. outbox' \in [Keys -> Row] /\ Carried' /\ owed' \in [Targets -> [Files -> Events \cup {NoEvent}]]
      BY <1>3, <1>d, <1>f DEF prune_delete
    <2>2. doomed' \subseteq [key : Keys, gen : Nat]
      BY <1>3 DEF prune_delete
    <2> QED  BY Zenon, <1>3, <1>t, <2>1, <2>2 DEF prune_delete, source, TypeInv, TypeOK
  <1>4. CASE crash
    <2>1. Idle \in Hand /\ NoScan \in [docs : SUBSET Events, targets : SUBSET Targets,
                                       force : BOOLEAN, begun : BOOLEAN]
      BY Zenon DEF Idle, Hand, NoScan
    <2>2. worker' \in [Workers -> Hand]
      BY Zenon, <1>4, <2>1 DEF crash
    <2>3. budget' \in [backfills : Nat, dbErrors : Nat, crashes : Nat, deletions : Nat]
      BY Zenon, <1>4, <1>t, SpendFacts DEF crash
    <2>4. letta' \in [enabled : BOOLEAN, streak : Nat] /\ up' \in BOOLEAN /\ Carried'
      BY Zenon, <1>4 DEF crash, TypeInv, Carried
    <2>5. /\ intake' \in Seq([event : Events, persisted : BOOLEAN]) /\ seeds' \subseteq Events
          /\ doomed' \subseteq [key : Keys, gen : Nat]
      BY <1>4 DEF crash
    <2>6. UNCHANGED <<outbox, written, raw, owed>> /\ scan' = NoScan
      BY Zenon, <1>4 DEF crash
    <2> QED  BY Zenon, <1>t, <2>1, <2>2, <2>3, <2>4, <2>5, <2>6 DEF TypeInv, TypeOK, Hand
  <1>5. CASE start_background_tasks
    <2>1. PICK S \in SUBSET {k \in Keys : outbox[k].status = "running"} : outbox' = Recovered(S)
      BY <1>5 DEF start_background_tasks
    <2>2. \A k \in Keys : /\ [outbox[k] EXCEPT !.status = "retrying"] \in Row
                          /\ [outbox[k] EXCEPT !.status = "retrying"].payload = outbox[k].payload
      BY Zenon, <1>t, StatusFacts
    <2>3. outbox' \in [Keys -> Row]
      BY <1>t, <2>1, <2>2 DEF Recovered
    <2>4. Carried'
      BY <2>1, <2>2 DEF Recovered, TypeInv, Carried
    <2> QED  BY Zenon, <1>5, <1>t, <2>3, <2>4 DEF start_background_tasks, source, TypeInv, TypeOK
  <1> QED  BY Zenon, <1>1, <1>2, <1>3, <1>4, <1>5 DEF Delete

\* Every step keeps the types.
LEMMA NextTypes == TypeInv /\ [Next]_vars => TypeInv'
  <1> SUFFICES ASSUME TypeInv, [Next]_vars PROVE TypeInv'
    BY Zenon
  <1>1. CASE Write
    BY <1>1, WriteTypes
  <1>2. CASE Backfill
    BY <1>2, BackfillTypes
  <1>3. CASE Delete \/ crash \/ start_background_tasks
    BY <1>3, DeleteTypes
  <1>4. ASSUME NEW w \in Workers, WorkerStep(w) PROVE TypeInv'
    BY Zenon, <1>4, WorkerTypes
  <1>5. ASSUME NEW w \in Workers, NEW j \in worker[w].left, NEW o \in Errors \cup {"ok"}, mark_raises(w, j, o)
        PROVE  TypeInv'
    <2>1. /\ letta' \in [enabled : BOOLEAN, streak : Nat]
          /\ worker'[w] \in Hand /\ worker' = [worker EXCEPT ![w] = worker'[w]] /\ Spend("dbErrors")
      BY Zenon, <1>5, RaiseFacts
    <2>2. worker' \in [Workers -> Hand]
      BY Zenon, <2>1, HandType DEF TypeInv
    <2>3. budget' \in [backfills : Nat, dbErrors : Nat, crashes : Nat, deletions : Nat]
      BY Zenon, <2>1, SpendFacts DEF TypeInv
    <2> QED  BY Zenon, <1>5, <2>1, <2>2, <2>3 DEF mark_raises, source, TypeInv, TypeOK, Carried, Hand
  <1>6. CASE UNCHANGED vars
    BY <1>6 DEF vars, source, TypeInv, TypeOK, Carried
  <1> QED  BY <1>1, <1>2, <1>3, <1>4, <1>5, <1>6 DEF Next

\* Rows, workers and queues keep their types, and a row that exists carries an event, with
\* any number of workers, backfills, failing marks, crashes and deletions.
THEOREM TypeCorrect == Spec => [](TypeOK /\ Carried)
  <1>1. Spec => []TypeInv
    BY InitTypes, NextTypes, PTL DEF Spec
  <1>2. TypeInv => TypeOK /\ Carried
    BY Zenon DEF TypeInv
  <1> QED  BY <1>1, <1>2, PTL

-----------------------------------------------------------------------------
(* Raw events *)

\* Nothing is lost by a step after which every raw row that was outstanding or failed still is,
\* or is delivered.
LEMMA RawKeeps ==
    ASSUME RawDurable, TypeOK, written' = written, raw \subseteq raw', seeds \subseteq seeds',
           \A k \in Keys : k[2] = "mongo_raw" /\ outbox[k].status \in Outstanding \cup {"failed"} =>
               \/ outbox'[k].status \in Outstanding \cup {"failed"}
               \/ k[1] \in raw'
    PROVE  RawDurable'
  <1> SUFFICES ASSUME "mongo_raw" \in Targets, NEW e \in Range(written)
               PROVE  \/ e \in raw' \cup seeds'
                      \/ outbox'[<<e, "mongo_raw">>].status \in Outstanding \cup {"failed"}
    BY Zenon DEF RawDurable
  <1>1. e \in Events
    BY Zenon, LenFacts DEF TypeOK
  <1>2. <<e, "mongo_raw">> \in Keys /\ <<e, "mongo_raw">>[1] = e /\ <<e, "mongo_raw">>[2] = "mongo_raw"
    BY Zenon, <1>1, KeyFacts
  <1> QED  BY <1>2 DEF RawDurable

\* Rows and jobs of mongo_raw keep their event when none is coalesced.
LEMMA RawEnqueue ==
    ASSUME "mongo_raw" \notin CoalesceTargets, RawInv,
           NEW e \in Events, NEW ts \in SUBSET Targets, NEW force \in BOOLEAN,
           enqueue_fanout_outbox(e, ts, force), UNCHANGED <<worker, raw>>
    PROVE  /\ RawRows'
           /\ \A k \in Keys : k[2] = "mongo_raw" /\ outbox[k].status \in Outstanding \cup {"failed"} =>
                 outbox'[k].status \in Outstanding \cup {"failed"}
           /\ force => \A t \in ts : outbox'[<<e, t>>].status = "pending"
  <1>t. TypeOK
    BY Zenon DEF RawInv, TypeInv
  <1>1. ASSUME NEW k \in Keys, k[2] = "mongo_raw"
        PROVE  \/ outbox'[k] = outbox[k]
               \/ /\ k[1] = e /\ outbox'[k].payload = e /\ outbox'[k].status = "pending"
    <2>1. outbox[k] \in Row
      BY <1>t DEF TypeOK
    <2>2. /\ InsertedRow(outbox[k], e).payload = e /\ InsertedRow(outbox[k], e).status = "pending"
          /\ RequeuedRow(outbox[k], e).payload = e /\ RequeuedRow(outbox[k], e).status = "pending"
      BY Zenon, <2>1, RowFacts
    <2>3. \/ outbox'[k] = outbox[k]
          \/ k[2] \in ts \cap CoalesceTargets
          \/ k[1] = e /\ outbox'[k] = InsertedRow(outbox[k], e)
          \/ k[1] = e /\ outbox'[k] = RequeuedRow(outbox[k], e)
      BY <1>t, EnqueueFacts DEF RowStep
    <2> QED  BY Zenon, <1>1, <2>2, <2>3
  <1>2. RawRows'
    BY <1>1 DEF RawInv, RawRows
  <1>3. \A k \in Keys : k[2] = "mongo_raw" /\ outbox[k].status \in Outstanding \cup {"failed"} =>
           outbox'[k].status \in Outstanding \cup {"failed"}
    BY Zenon, <1>1 DEF Outstanding
  <1>4. force => \A t \in ts : outbox'[<<e, t>>].status = "pending"
    BY Zenon, <1>t, EnqueueFacts
  <1> QED  BY Zenon, <1>2, <1>3, <1>4

\* Writes and seeds.
LEMMA RawWrite ==
    ASSUME "mongo_raw" \notin CoalesceTargets, RawInv, Write
    PROVE  RawInv'
  <1>t. TypeInv' /\ TypeInv /\ TypeOK
    BY WriteTypes DEF RawInv, TypeInv
  <1>u. UNCHANGED <<worker, doomed, budget>>
    <2>1. ASSUME NEW e, NEW persisted, write_memory(e, persisted) PROVE UNCHANGED <<worker, doomed, budget>>
      BY <2>1 DEF write_memory
    <2>2. ASSUME NEW e, seed_mongo_retry(e) PROVE UNCHANGED <<worker, doomed, budget>>
      BY Zenon, <2>2 DEF seed_mongo_retry
    <2>3. ASSUME NEW i, NEW a, enqueue_memory_write_fanout(i, a) PROVE UNCHANGED <<worker, doomed, budget>>
      BY <2>3 DEF enqueue_memory_write_fanout
    <2>4. ASSUME NEW i, memory_bank_write_fails(i) PROVE UNCHANGED <<worker, doomed, budget>>
      BY Zenon, <2>4 DEF memory_bank_write_fails
    <2> QED  BY Zenon, <2>1, <2>2, <2>3, <2>4 DEF Write
  <1>1. ASSUME NEW e \in Events, NEW persisted \in RawOutcomes, write_memory(e, persisted)
        PROVE  RawRows' /\ RawDurable'
    <2>1. /\ UNCHANGED outbox /\ written' = Append(written, e)
          /\ raw' = IF persisted THEN raw \cup {e} ELSE raw
          /\ seeds' = IF persisted THEN seeds ELSE seeds \cup {e}
      BY Zenon, <1>1 DEF write_memory
    <2>2. RawRows'
      BY Zenon, <1>u, <2>1 DEF RawInv, RawRows
    <2>3. Range(written') \subseteq Range(written) \cup {e}
      <3>1. written \in Seq(Events) /\ Append(written, e) \in Seq(Events)
        BY Zenon, <1>t, AppendedFacts DEF TypeOK
      <3>2. /\ Len(Append(written, e)) = Len(written) + 1 /\ Len(written) \in Nat
            /\ \A i \in 1..Len(written) : Append(written, e)[i] = written[i]
            /\ Append(written, e)[Len(written) + 1] = e
        BY <3>1, AppendedFacts, LenFacts
      <3>3. DOMAIN written = 1..Len(written) /\ DOMAIN Append(written, e) = 1..(Len(written) + 1)
        BY Zenon, <3>1, <3>2, LenFacts
      <3> QED  BY <2>1, <3>2, <3>3 DEF Range
    <2>4. e \in raw' \cup seeds' /\ raw \subseteq raw' /\ seeds \subseteq seeds'
      BY Zenon, <2>1
    <2> QED  BY Zenon, <2>1, <2>2, <2>3, <2>4 DEF RawInv, RawDurable
  <1>2. ASSUME NEW e \in seeds, seed_mongo_retry(e)
        PROVE  RawRows' /\ RawDurable'
    <2>1. /\ e \in Events /\ Targets \cap {"mongo_raw"} \in SUBSET Targets /\ TRUE \in BOOLEAN
          /\ enqueue_fanout_outbox(e, Targets \cap {"mongo_raw"}, TRUE)
          /\ UNCHANGED <<worker, raw, written>> /\ seeds' = seeds \ {e}
      BY Zenon, <1>2, <1>t DEF seed_mongo_retry, TypeOK
    <2>2. /\ RawRows'
          /\ \A k \in Keys : k[2] = "mongo_raw" /\ outbox[k].status \in Outstanding \cup {"failed"} =>
                outbox'[k].status \in Outstanding \cup {"failed"}
          /\ \A t \in Targets \cap {"mongo_raw"} : outbox'[<<e, t>>].status = "pending"
      BY Zenon, <2>1, RawEnqueue
    <2>3. ASSUME "mongo_raw" \in Targets, NEW d \in Range(written)
          PROVE  \/ d \in raw' \cup seeds'
                 \/ outbox'[<<d, "mongo_raw">>].status \in Outstanding \cup {"failed"}
      <3>1. CASE d = e
        BY <2>2, <2>3, <3>1 DEF Outstanding
      <3>2. CASE d # e
        <4>1. d \in Events
          BY <1>t, LenFacts DEF TypeOK
        <4>2. <<d, "mongo_raw">> \in Keys /\ <<d, "mongo_raw">>[2] = "mongo_raw"
          BY Zenon, <2>3, <4>1, KeyFacts
        <4> QED  BY Zenon, <2>1, <2>2, <2>3, <3>2, <4>2 DEF RawInv, RawDurable
      <3> QED  BY <3>1, <3>2
    <2> QED  BY Zenon, <2>1, <2>2, <2>3 DEF RawDurable
  <1>3. ASSUME NEW i \in InProgress, NEW a \in BOOLEAN, enqueue_memory_write_fanout(i, a)
        PROVE  RawRows' /\ RawDurable'
    <2> DEFINE ts == {t \in Targets : /\ t = "mongo_raw" => ~intake[i].persisted
                                      /\ t = "letta" => a}
    <2>1. /\ intake[i].event \in Events /\ ts \in SUBSET Targets /\ FALSE \in BOOLEAN
          /\ enqueue_fanout_outbox(intake[i].event, ts, FALSE)
          /\ UNCHANGED <<worker, raw, written, seeds>>
      BY Zenon, <1>3, <1>t, IntakeFacts DEF enqueue_memory_write_fanout
    <2> HIDE DEF ts
    <2>2. /\ RawRows'
          /\ \A k \in Keys : k[2] = "mongo_raw" /\ outbox[k].status \in Outstanding \cup {"failed"} =>
                outbox'[k].status \in Outstanding \cup {"failed"}
      BY Zenon, <2>1, RawEnqueue
    <2>3. RawDurable
      BY DEF RawInv
    <2> QED  BY Zenon, <1>t, <2>1, <2>2, <2>3, RawKeeps
  <1>4. ASSUME NEW i \in InProgress, memory_bank_write_fails(i)
        PROVE  RawRows' /\ RawDurable'
    BY Zenon, <1>4 DEF memory_bank_write_fails, RawInv, RawRows, RawDurable
  <1> QED  BY Zenon, <1>t, <1>u, <1>1, <1>2, <1>3, <1>4 DEF Write, RawInv

\* Backfills.
LEMMA RawBackfill ==
    ASSUME "mongo_raw" \notin CoalesceTargets, RawInv, Backfill
    PROVE  RawInv'
  <1>t. TypeInv' /\ TypeInv /\ TypeOK
    BY BackfillTypes DEF RawInv, TypeInv
  <1>u. /\ UNCHANGED <<worker, doomed, raw, written, seeds>>
        /\ budget'.crashes = budget.crashes /\ budget'.deletions = budget.deletions
    <2>1. ASSUME NEW ts, NEW force, backfill_scan(ts, force)
          PROVE  budget'.crashes = budget.crashes /\ budget'.deletions = budget.deletions
      BY Zenon, <1>t, <2>1, SpendFacts DEF backfill_scan
    <2> QED  BY Zenon, <2>1 DEF Backfill, backfill_scan, backfill_enqueue, backfill_skips, backfill_throttled
  <1>1. ASSUME NEW upserted \in BOOLEAN, backfill_enqueue(upserted)
        PROVE  RawRows' /\ RawDurable'
    <2> DEFINE ts == IF upserted /\ ~scan.force THEN scan.targets \ {"mongo_raw"} ELSE scan.targets
    <2>1. PICK e \in NextDocs : enqueue_fanout_outbox(e, ts, scan.force)
      BY Zenon, <1>1 DEF backfill_enqueue
    <2>2. e \in Events /\ ts \in SUBSET Targets /\ scan.force \in BOOLEAN
      BY Zenon, <1>t DEF TypeOK, NextDocs
    <2> HIDE DEF ts
    <2>3. /\ RawRows'
          /\ \A k \in Keys : k[2] = "mongo_raw" /\ outbox[k].status \in Outstanding \cup {"failed"} =>
                outbox'[k].status \in Outstanding \cup {"failed"}
      BY Zenon, <1>u, <2>1, <2>2, RawEnqueue
    <2>4. RawDurable
      BY Zenon DEF RawInv
    <2> QED  BY <1>t, <1>u, <2>3, <2>4, RawKeeps
  <1>2. CASE UNCHANGED outbox
    <2>1. RawRows' /\ RawDurable'
      BY <1>u, <1>2 DEF RawInv, RawRows, RawDurable
    <2> QED  BY Zenon, <1>t, <1>u, <2>1 DEF RawInv
  <1> QED  BY <1>t, <1>u, <1>1, <1>2 DEF Backfill, backfill_scan, backfill_skips, backfill_throttled, RawInv

\* Claims, pushes and marks.
LEMMA RawWorker ==
    ASSUME RawInv, NEW w \in Workers, WorkerStep(w)
    PROVE  RawInv'
  <1>t. TypeInv' /\ TypeInv /\ TypeOK /\ outbox \in [Keys -> Row] /\ worker \in [Workers -> Hand]
    BY Zenon, WorkerTypes, HandType DEF RawInv, TypeInv, TypeOK
  <1>u. UNCHANGED <<doomed, budget, written, seeds>> /\ RawDurable
    <2>1. ASSUME claim_fanout_batch(w) PROVE UNCHANGED <<doomed, budget, written, seeds>>
      BY <2>1 DEF claim_fanout_batch, source
    <2>2. ASSUME push_batch(w) PROVE UNCHANGED <<doomed, budget, written, seeds>>
      BY Zenon, <2>2 DEF push_batch
    <2>3. ASSUME letta_chunk_dropped(w) PROVE UNCHANGED <<doomed, budget, written, seeds>>
      BY Zenon, <2>3 DEF letta_chunk_dropped, source
    <2>4. ASSUME Mark(w) PROVE UNCHANGED <<doomed, budget, written, seeds>>
      BY Zenon, <2>4 DEF Mark, mark_fanout_job_success, handle_fanout_job_error, source
    <2> QED  BY <2>1, <2>2, <2>3, <2>4 DEF WorkerStep, RawInv
  <1>1. CASE claim_fanout_batch(w)
    <2>0. PICK S \in SUBSET Keys : Claims(w, S)
      BY Zenon, <1>1, <1>t, ClaimFacts
    <2>1. /\ \A k \in S : outbox[k].status \in Waiting
          /\ outbox' = [k \in Keys |-> IF k \in S THEN ClaimedRow(outbox[k]) ELSE outbox[k]]
          /\ worker' = [worker EXCEPT ![w] = worker'[w]]
          /\ worker'[w].pc = "claimed"
          /\ worker'[w].todo = {JobOf(k, ClaimedRow(outbox[k])) : k \in S}
          /\ worker'[w].left = {} /\ worker'[w].batch = {}
      BY <2>0 DEF Claims
    <2>2. ASSUME NEW k \in S
          PROVE  /\ k \in Keys /\ outbox'[k].status = "running" /\ outbox'[k].payload = outbox[k].payload
                 /\ JobOf(k, ClaimedRow(outbox[k])).key = k
                 /\ JobOf(k, ClaimedRow(outbox[k])).payload = outbox[k].payload
                 /\ outbox[k].status # "absent"
      <3>1. outbox[k] \in Row
        BY <1>t
      <3>2. ClaimedRow(outbox[k]).status = "running" /\ ClaimedRow(outbox[k]).payload = outbox[k].payload
        BY Zenon, <3>1, StatusFacts
      <3> QED  BY Zenon, <2>1, <3>2 DEF JobOf, Waiting
    <2>3. raw' = raw
      BY <1>1 DEF claim_fanout_batch, source
    <2>4. \A k \in Keys \ S : outbox'[k] = outbox[k]
      BY Zenon, <2>1
    <2>5. \A v \in Workers \ {w} : worker'[v] = worker[v]
      BY <1>t, <2>1
    <2>6. RawRows'
      <3>1. \A k \in Keys : /\ k[2] = "mongo_raw" /\ outbox'[k].status # "absent" => outbox'[k].payload = k[1]
                            /\ k[2] = "mongo_raw" /\ outbox'[k].status = "succeeded" => k[1] \in raw'
        BY <2>2, <2>3, <2>4 DEF RawInv, RawRows
      <3>2. ASSUME NEW v \in Workers, NEW j \in worker'[v].todo \cup worker'[v].batch,
                   j.key[2] = "mongo_raw"
            PROVE  j.payload = j.key[1]
        <4>1. CASE v = w
          <5>1. PICK k \in S : j = JobOf(k, ClaimedRow(outbox[k]))
            BY Zenon, <2>1, <3>2, <4>1
          <5>2. j.key = k /\ j.payload = outbox[k].payload /\ k \in Keys /\ outbox[k].status # "absent"
            BY Zenon, <2>2, <5>1
          <5> QED  BY Zenon, <3>2, <5>2 DEF RawInv, RawRows
        <4>2. CASE v # w
          BY <2>5, <3>2, <4>2 DEF RawInv, RawRows
        <4> QED  BY Zenon, <4>1, <4>2
      <3>3. \A v \in Workers : worker'[v].left \subseteq worker'[v].batch
        BY Zenon, <2>1, <2>5 DEF RawInv, RawRows
      <3>4. \A v \in Workers : worker'[v].pc = "marking" =>
              \A j \in worker'[v].left \ worker'[v].failed : j.key[2] = "mongo_raw" => j.key[1] \in raw'
        BY Zenon, <2>1, <2>3, <2>5 DEF RawInv, RawRows
      <3> QED  BY Zenon, <3>1, <3>2, <3>3, <3>4 DEF RawRows
    <2>7. \A k \in Keys : k[2] = "mongo_raw" /\ outbox[k].status \in Outstanding \cup {"failed"} =>
             outbox'[k].status \in Outstanding \cup {"failed"}
      BY Zenon, <2>2, <2>4 DEF Outstanding
    <2>8. RawDurable'
      BY Zenon, <1>t, <1>u, <2>3, <2>7, RawKeeps
    <2> QED  BY Zenon, <1>t, <1>u, <2>6, <2>8 DEF RawInv
  <1>2. CASE push_batch(w)
    <2>0. PICK B \in SUBSET worker[w].todo, F \in SUBSET worker[w].todo, R \in SUBSET worker[w].todo :
            Pushes(w, B, F, R)
      BY Zenon, <1>2, <1>t, PushFacts
    <2>1. /\ F \subseteq B /\ B \ F \subseteq R
          /\ worker' = [worker EXCEPT ![w] = worker'[w]]
          /\ worker'[w].todo = worker[w].todo \ B
          /\ worker'[w].batch = B /\ worker'[w].left = B /\ worker'[w].failed = F
          /\ R \subseteq Job
          /\ raw' = raw \cup {e \in Events : \E j \in R : j.key[2] = "mongo_raw" /\ j.payload = e}
      BY <2>0 DEF Pushes
    <2>2. outbox' = outbox /\ \A v \in Workers \ {w} : worker'[v] = worker[v]
      BY Zenon, <1>2, <1>t, <2>1 DEF push_batch
    <2>3. ASSUME NEW j \in B \ F, j.key[2] = "mongo_raw" PROVE j.key[1] \in raw'
      <3>1. j \in R /\ j.payload = j.key[1] /\ j.payload \in Events
        BY Zenon, <2>1, <2>3 DEF Job, RawInv, RawRows
      <3> QED  BY Zenon, <2>1, <2>3, <3>1
    <2>4. raw \subseteq raw'
      BY Zenon, <2>1
    <2>5. RawRows'
      <3>1. \A k \in Keys : /\ k[2] = "mongo_raw" /\ outbox'[k].status # "absent" => outbox'[k].payload = k[1]
                            /\ k[2] = "mongo_raw" /\ outbox'[k].status = "succeeded" => k[1] \in raw'
        BY Zenon, <2>2, <2>4 DEF RawInv, RawRows
      <3>2. \A v \in Workers : \A j \in worker'[v].todo \cup worker'[v].batch :
              j.key[2] = "mongo_raw" => j.payload = j.key[1]
        BY Zenon, <2>1, <2>2 DEF RawInv, RawRows
      <3>3. \A v \in Workers : worker'[v].left \subseteq worker'[v].batch
        BY Zenon, <2>1, <2>2 DEF RawInv, RawRows
      <3>4. \A v \in Workers : worker'[v].pc = "marking" =>
              \A j \in worker'[v].left \ worker'[v].failed : j.key[2] = "mongo_raw" => j.key[1] \in raw'
        BY <2>1, <2>2, <2>3, <2>4 DEF RawInv, RawRows
      <3> QED  BY Zenon, <3>1, <3>2, <3>3, <3>4 DEF RawRows
    <2>6. RawDurable'
      BY <1>t, <1>u, <2>2, <2>4, RawKeeps
    <2> QED  BY Zenon, <1>t, <1>u, <2>5, <2>6 DEF RawInv
  <1>b. ASSUME outbox' = fail_letta_backlog
        PROVE  \A k \in Keys : k[2] = "mongo_raw" => outbox'[k] = outbox[k]
    BY Zenon, <1>b, <1>t, BacklogFacts
  <1>3. CASE letta_chunk_dropped(w)
    <2>0. PICK B \in SUBSET worker[w].todo : Drops(w, B)
      BY Zenon, <1>3, <1>t, DropFacts
    <2>1. /\ worker' = [worker EXCEPT ![w] = worker'[w]]
          /\ worker'[w].todo = worker[w].todo \ B
          /\ worker'[w].left \in {worker[w].left, {}}
          /\ worker'[w].batch \in {worker[w].batch, {}}
          /\ worker'[w].left # {} => worker'[w].batch = worker[w].batch
          /\ worker'[w].pc \in {"idle", "claimed"}
      BY <2>0 DEF Drops
    <2>2. \A v \in Workers \ {w} : worker'[v] = worker[v]
      BY Zenon, <1>t, <2>1
    <2>3. raw' = raw /\ \A k \in Keys : k[2] = "mongo_raw" => outbox'[k] = outbox[k]
      BY <1>3, <1>b DEF letta_chunk_dropped, source
    <2>4. RawRows'
      <3>1. \A v \in Workers : worker'[v].left \subseteq worker'[v].batch
        BY Zenon, <2>1, <2>2 DEF RawInv, RawRows
      <3>2. \A v \in Workers : \A j \in worker'[v].todo \cup worker'[v].batch :
              j.key[2] = "mongo_raw" => j.payload = j.key[1]
        BY <2>1, <2>2 DEF RawInv, RawRows
      <3>3. \A v \in Workers : worker'[v].pc = "marking" =>
              \A j \in worker'[v].left \ worker'[v].failed : j.key[2] = "mongo_raw" => j.key[1] \in raw'
        BY <2>1, <2>2, <2>3 DEF RawInv, RawRows
      <3> QED  BY Zenon, <2>3, <3>1, <3>2, <3>3 DEF RawInv, RawRows
    <2>5. RawDurable'
      BY Zenon, <1>t, <1>u, <2>3, RawKeeps
    <2> QED  BY Zenon, <1>t, <1>u, <2>4, <2>5 DEF RawInv
  <1>4. CASE Mark(w)
    <2>1. PICK j \in worker[w].left : \/ mark_fanout_job_success(w, j)
                                      \/ \E err \in Errors : handle_fanout_job_error(w, j, err)
      BY <1>4 DEF Mark
    <2>2. /\ worker'[w] = Advance(worker[w], j) /\ worker' = [worker EXCEPT ![w] = worker'[w]] /\ j \in Job
      BY <2>1, <1>t, MarkFacts
    <2>3. raw' = raw /\ \A v \in Workers \ {w} : worker'[v] = worker[v]
      BY Zenon, <1>t, <2>1, <2>2 DEF mark_fanout_job_success, handle_fanout_job_error, source
    <2>4. worker[w] \in Hand
      BY Zenon, <1>t
    <2>5. /\ worker'[w].todo = worker[w].todo
          /\ worker'[w].left = worker[w].left \ {j}
          /\ worker'[w].batch \in {worker[w].batch, {}}
          /\ worker'[w].batch = {} => worker[w].left = {j} \/ worker[w].batch = {}
          /\ worker'[w].pc = "marking" => worker[w].pc = "marking" /\ worker'[w].failed = worker[w].failed
      BY <2>2, <2>4, AdvanceFacts
    <2>6. ASSUME NEW k \in Keys, k[2] = "mongo_raw"
          PROVE  \/ outbox'[k] = outbox[k]
                 \/ /\ outbox[k].status # "absent" /\ outbox'[k].payload = outbox[k].payload
                    /\ \/ outbox'[k].status \in {"failed", "retrying"}
                       \/ outbox'[k].status = "succeeded" /\ k[1] \in raw
      <3>1. CASE outbox' = fail_letta_backlog
        BY <1>b, <2>6, <3>1
      <3>2. ASSUME NEW s \in {"succeeded", "failed", "retrying"},
                   outbox' = Marked(j, [outbox[j.key] EXCEPT !.status = s]),
                   \/ s # "succeeded"
                   \/ worker[w].pc = "marking" /\ j \notin worker[w].failed
                   \/ j.key[2] = "mindsdb"
            PROVE  \/ outbox'[k] = outbox[k]
                   \/ /\ outbox[k].status # "absent" /\ outbox'[k].payload = outbox[k].payload
                      /\ \/ outbox'[k].status \in {"failed", "retrying"}
                         \/ outbox'[k].status = "succeeded" /\ k[1] \in raw
        <4> DEFINE row == [outbox[j.key] EXCEPT !.status = s]
        <4>1. outbox' = [q \in Keys |-> IF q = j.key /\ RowOf(j) THEN row ELSE outbox[q]] /\ j.key \in Keys
          BY <1>t, <2>2, <3>2, MarkedFacts
        <4>2. outbox[j.key] \in Row
          BY <1>t, <4>1
        <4>3. row.status = s /\ row.payload = outbox[j.key].payload
          BY <4>2, StatusFacts
        <4> HIDE DEF row
        <4>4. CASE k = j.key /\ RowOf(j)
          <5>1. s = "succeeded" => j.key[1] \in raw
            BY Zenon, <2>6, <3>2, <4>4 DEF RawInv, RawRows
          <5>2. outbox'[k] = row /\ outbox[k].status # "absent"
            BY Zenon, <4>1, <4>4 DEF RowOf
          <5> QED  BY <4>3, <4>4, <5>1, <5>2
        <4>5. CASE ~(k = j.key /\ RowOf(j))
          BY Zenon, <4>1, <4>5
        <4> QED  BY Zenon, <4>4, <4>5
      <3> QED  BY <1>t, <2>1, <3>1, <3>2, MarkFacts
    <2>7. RawRows'
      <3>1. \A k \in Keys : /\ k[2] = "mongo_raw" /\ outbox'[k].status # "absent" => outbox'[k].payload = k[1]
                            /\ k[2] = "mongo_raw" /\ outbox'[k].status = "succeeded" => k[1] \in raw'
        BY Zenon, <2>3, <2>6 DEF RawInv, RawRows
      <3>2. \A v \in Workers : \A i \in worker'[v].todo \cup worker'[v].batch :
              i.key[2] = "mongo_raw" => i.payload = i.key[1]
        <4>1. \A v \in Workers : \A i \in worker[v].todo \cup worker[v].batch :
                i.key[2] = "mongo_raw" => i.payload = i.key[1]
          BY Zenon DEF RawInv, RawRows
        <4>2. \A v \in Workers : worker'[v].todo = worker[v].todo /\ worker'[v].batch \subseteq worker[v].batch
          BY Zenon, <2>3, <2>5
        <4> QED  BY Zenon, <4>1, <4>2
      <3>3. \A v \in Workers : worker'[v].left \subseteq worker'[v].batch
        BY Zenon, <2>3, <2>5 DEF RawInv, RawRows
      <3>4. \A v \in Workers : worker'[v].pc = "marking" =>
              \A i \in worker'[v].left \ worker'[v].failed : i.key[2] = "mongo_raw" => i.key[1] \in raw'
        BY Zenon, <2>3, <2>5 DEF RawInv, RawRows
      <3> QED  BY Zenon, <3>1, <3>2, <3>3, <3>4 DEF RawRows
    <2>8. \A k \in Keys : k[2] = "mongo_raw" /\ outbox[k].status \in Outstanding \cup {"failed"} =>
             outbox'[k].status \in Outstanding \cup {"failed"} \/ k[1] \in raw'
      BY Zenon, <2>3, <2>6 DEF Outstanding
    <2>9. RawDurable'
      BY Zenon, <1>t, <1>u, <2>3, <2>8, RawKeeps
    <2> QED  BY <1>t, <1>u, <2>7, <2>9 DEF RawInv
  <1> QED  BY <1>1, <1>2, <1>3, <1>4 DEF WorkerStep

\* A mark that fails, and a restart.
LEMMA RawOther ==
    ASSUME RawInv,
           \/ Delete \/ crash \/ start_background_tasks
           \/ \E w \in Workers : \E j \in worker[w].left, o \in Errors \cup {"ok"} : mark_raises(w, j, o)
    PROVE  RawInv'
  <1>t. TypeInv /\ TypeOK /\ outbox \in [Keys -> Row] /\ worker \in [Workers -> Hand] /\ RawDurable
    BY HandType DEF RawInv, TypeInv, TypeOK
  <1>1. ~Delete /\ ~crash
    <2>1. ~prune_select /\ ~fanout_outbox_gc
      BY <1>t, SpendFacts DEF prune_select, fanout_outbox_gc, RawInv
    <2>2. ~crash
      BY Zenon, <1>t, SpendFacts DEF crash, RawInv
    <2> QED  BY Zenon, <2>1, <2>2 DEF Delete, prune_delete, RawInv
  <1>2. CASE start_background_tasks
    <2>1. PICK S \in SUBSET {k \in Keys : outbox[k].status = "running"} : outbox' = Recovered(S)
      BY Zenon, <1>2 DEF start_background_tasks
    <2>2. UNCHANGED <<worker, doomed, budget, written, raw, seeds>>
      BY Zenon, <1>2 DEF start_background_tasks, source
    <2>3. ASSUME NEW k \in Keys
          PROVE  \/ outbox'[k] = outbox[k]
                 \/ /\ outbox[k].status = "running" /\ outbox'[k].status = "retrying"
                    /\ outbox'[k].payload = outbox[k].payload
      <3>1. outbox[k] \in Row
        BY Zenon, <1>t
      <3>2. /\ [outbox[k] EXCEPT !.status = "retrying"].status = "retrying"
            /\ [outbox[k] EXCEPT !.status = "retrying"].payload = outbox[k].payload
        BY <3>1, StatusFacts
      <3> QED  BY <2>1, <3>2 DEF Recovered
    <2>4. RawRows'
      BY Zenon, <2>2, <2>3 DEF RawInv, RawRows
    <2>5. RawDurable'
      <3>1. \A k \in Keys : k[2] = "mongo_raw" /\ outbox[k].status \in Outstanding \cup {"failed"} =>
               outbox'[k].status \in Outstanding \cup {"failed"}
        BY Zenon, <2>3 DEF Outstanding
      <3> QED  BY Zenon, <1>t, <2>2, <3>1, RawKeeps
    <2> QED  BY Zenon, <1>2, <1>t, <2>2, <2>4, <2>5, DeleteTypes DEF RawInv
  <1>3. ASSUME NEW w \in Workers, NEW j \in worker[w].left, NEW o \in Errors \cup {"ok"}, mark_raises(w, j, o)
        PROVE  RawInv'
    <2>1. /\ worker' = [worker EXCEPT ![w] = worker'[w]]
          /\ worker'[w].pc # "marking"
          /\ worker'[w].left \in {worker[w].batch, {}}
          /\ worker'[w].todo \in {worker[w].todo, {}}
          /\ worker'[w].batch \in {worker[w].batch, {}}
          /\ worker'[w].left # {} => worker'[w].batch = worker[w].batch
          /\ Spend("dbErrors")
      BY Zenon, <1>3, <1>t, RaiseFacts
    <2>2. UNCHANGED <<outbox, doomed, written, raw, seeds>> /\ \A v \in Workers \ {w} : worker'[v] = worker[v]
      BY Zenon, <1>3, <1>t, <2>1 DEF mark_raises, source
    <2>3. budget'.crashes = 0 /\ budget'.deletions = 0
      BY <1>t, <2>1, SpendFacts DEF RawInv
    <2>4. RawRows'
      BY <2>1, <2>2 DEF RawInv, RawRows
    <2>5. RawDurable'
      BY Zenon, <1>t, <2>2, RawKeeps
    <2>6. TypeInv'
      <3>1. Next
        BY <1>3 DEF Next
      <3> QED  BY Zenon, <1>t, <3>1, NextTypes
    <2> QED  BY <2>2, <2>3, <2>4, <2>5, <2>6 DEF RawInv
  <1> QED  BY Zenon, <1>1, <1>2, <1>3

\* Raw durability without crashes and deletions, whatever Mongo, the memory bank, the marks and
\* any number of workers and (forced) backfills do: an accepted write is in the raw store, about
\* to be seeded, or in a row that is outstanding or recorded as failed.
THEOREM RawDurability ==
    ASSUME Limits.crashes = 0, Limits.deletions = 0, "mongo_raw" \notin CoalesceTargets
    PROVE  Spec => []RawDurable
  <1>1. Init => RawInv
    <2> SUFFICES ASSUME Init PROVE RawInv
      BY Zenon
    <2>1. TypeInv
      BY Zenon, InitTypes
    <2>2. \A k \in Keys : outbox[k].status = "absent"
      BY DEF Init, Absent
    <2>3. RawRows
      BY Zenon, <2>2 DEF Init, Idle, RawRows
    <2>4. RawDurable
      BY DEF Init, RawDurable, Range
    <2> QED  BY <2>1, <2>3, <2>4 DEF Init, RawInv
  <1>2. RawInv /\ [Next]_vars => RawInv'
    <2> SUFFICES ASSUME RawInv, [Next]_vars PROVE RawInv'
      BY Zenon
    <2>1. CASE UNCHANGED vars
      <3>1. TypeInv'
        BY <2>1, NextTypes DEF RawInv
      <3>2. RawRows' /\ RawDurable'
        BY Zenon, <2>1 DEF vars, source, RawInv, RawRows, RawDurable
      <3> QED  BY Zenon, <2>1, <3>1, <3>2 DEF vars, source, RawInv
    <2> QED  BY Zenon, <2>1, RawWrite, RawBackfill, RawWorker, RawOther DEF Next
  <1>3. RawInv => RawDurable
    BY DEF RawInv
  <1> QED  BY <1>1, <1>2, <1>3, PTL DEF Spec

=============================================================================

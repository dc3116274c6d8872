----------------------------- MODULE SinkProofs -----------------------------
(***************************************************************************)
(* What the sinks keep, for any number of callers, rows, tables and faults: *)
(* pruning the Letta backlog costs a high-value write only in a race,       *)
(* retention deletes only what is due, rows pushed to MindsDB stay visible  *)
(* to searches, and the concurrent pushes to Letta share one agent.         *)
(***************************************************************************)
EXTENDS LettaBacklog, Retention, MindsdbSync, LettaAgent, FiniteSetTheorems, TLAPS

-----------------------------------------------------------------------------
(* The Letta backlog *)

RowStates == Values \union {"unused", "done", "pruned"}
BacklogTypes == row \in [Rows -> RowStates]

\* A row that some run is about to delete was of low value when it was selected: if it holds a
\* high-value write now, that write joined it since.
SelectedWereLow == \A r \in Selected \intersect Rows : row[r] = "high" => r \in raced

BacklogInv == BacklogTypes /\ SelectedWereLow

\* A step that leaves the rows, the selections and the races alone keeps the invariant.
LEMMA BacklogFrame ==
    ASSUME BacklogInv, UNCHANGED <<row, picked, leftover, raced>>
    PROVE  BacklogInv' /\ PrunesOnlyLow
  BY DEF BacklogInv, BacklogTypes, SelectedWereLow, Selected, PrunesOnlyLow

\* A deletion by id of rows that were selected prunes nothing of high value but what raced it.
LEMMA DeletionPrunesLow ==
    ASSUME BacklogInv, NEW S, S \subseteq Selected, DeletedById(S),
           picked' \subseteq picked, leftover' \subseteq leftover,
           raced' = raced \intersect Selected'
    PROVE  BacklogInv' /\ PrunesOnlyLow
  <1>1. /\ row' \in [Rows -> RowStates]
        /\ \A r \in Rows : row'[r] = IF r \in S THEN "pruned" ELSE row[r]
    BY DEF DeletedById, BacklogInv, BacklogTypes, RowStates
  <1>2. Selected' \subseteq Selected
    BY DEF Selected
  <1>3. SelectedWereLow'
    BY <1>1, <1>2 DEF BacklogInv, SelectedWereLow
  <1>4. PrunesOnlyLow
    BY <1>1 DEF BacklogInv, SelectedWereLow, PrunesOnlyLow, BacklogTypes, RowStates
  <1> QED  BY <1>1, <1>3, <1>4 DEF BacklogInv, BacklogTypes

LEMMA BacklogStep ==
    BacklogInv /\ [BacklogNext]_backlogVars => BacklogInv' /\ [PrunesOnlyLow]_backlogVars
  <1> SUFFICES ASSUME BacklogInv, [BacklogNext]_backlogVars
               PROVE  BacklogInv' /\ PrunesOnlyLow
    OBVIOUS
  <1>1. ASSUME NEW value \in Values, letta_admission(value) PROVE BacklogInv' /\ PrunesOnlyLow
    <2>1. CASE UNCHANGED <<row, raced>>
      BY <1>1, <2>1, BacklogFrame DEF letta_admission
    <2>2. ASSUME NEW r \in Rows, Enqueued(r, value) PROVE BacklogInv' /\ PrunesOnlyLow
      <3>1. UNCHANGED <<picked, leftover>> /\ Selected' = Selected
        BY <1>1 DEF letta_admission, Selected
      <3>2. /\ row' \in [Rows -> RowStates]
            /\ \A q \in Rows : row'[q] = IF q = r THEN value ELSE row[q]
        BY <2>2 DEF Enqueued, BacklogInv, BacklogTypes, RowStates
      <3>3. /\ raced \subseteq raced'
            /\ value = "high" /\ r \in Selected => r \in raced'
        BY <2>2 DEF Enqueued, BacklogInv, BacklogTypes
      <3>4. SelectedWereLow'
        BY <3>1, <3>2, <3>3 DEF BacklogInv, SelectedWereLow
      <3>5. PrunesOnlyLow
        BY <3>2 DEF PrunesOnlyLow, Values, BacklogInv, BacklogTypes, RowStates
      <3> QED  BY <3>1, <3>2, <3>3, <3>4, <3>5 DEF BacklogInv, BacklogTypes
    <2> QED  BY <1>1, <2>1, <2>2 DEF letta_admission
  <1>2. ASSUME NEW r \in Rows, RowClaimed(r) \/ RowWorked(r) PROVE BacklogInv' /\ PrunesOnlyLow
    <2>1. UNCHANGED <<picked, leftover, raced>> /\ Selected' = Selected
      BY <1>2 DEF RowClaimed, RowWorked, Selected
    <2>2. row' = row \/ row' = [row EXCEPT ![r] = "done"]
      BY <1>2 DEF RowClaimed, RowWorked
    <2>3. /\ row' \in [Rows -> RowStates]
          /\ \A q \in Rows : row'[q] = row[q] \/ row'[q] = "done"
      BY <2>2 DEF BacklogInv, BacklogTypes, RowStates
    <2> QED  BY <2>1, <2>3 DEF BacklogInv, BacklogTypes, SelectedWereLow, PrunesOnlyLow
  <1>3. CASE Refreshing
    BY <1>3, BacklogFrame DEF Refreshing, refresh_counts, refresh_sets, refresh_fails
  <1>4. CASE auto_prune_cached \/ auto_prune_counts \/ auto_prune_decides \/ auto_prune_recounts
    BY <1>4, BacklogFrame DEF auto_prune_cached, auto_prune_counts, auto_prune_decides, auto_prune_recounts
  <1>5. CASE auto_prune_selects
    <2>1. picked' \subseteq Selectable /\ UNCHANGED <<row, leftover, raced>>
      BY <1>5 DEF auto_prune_selects, kSubset
    <2>2. \A r \in picked' : row[r] = "low"
      BY <2>1 DEF Selectable
    <2> QED  BY <2>1, <2>2 DEF BacklogInv, BacklogTypes, SelectedWereLow, Selected, PrunesOnlyLow
  <1>6. CASE auto_prune_deletes
    <2>1. picked \subseteq Selected /\ Selected' = leftover
      BY <1>6 DEF auto_prune_deletes, Selected
    <2> QED  BY <1>6, <2>1, DeletionPrunesLow DEF auto_prune_deletes
  <1>7. CASE auto_prune_fails
    <2>1. /\ UNCHANGED row /\ Selected' \subseteq Selected /\ raced' = raced \intersect Selected'
      BY <1>7 DEF auto_prune_fails, Selected
    <2> QED  BY <2>1 DEF BacklogInv, BacklogTypes, SelectedWereLow, PrunesOnlyLow
  <1>8. CASE leftover_deletes
    <2>1. PICK S \in SUBSET leftover : /\ DeletedById(S) /\ leftover' = leftover \ S
                                       /\ raced' = raced \intersect (picked \union (leftover \ S))
      BY <1>8 DEF leftover_deletes
    <2>2. S \subseteq Selected /\ picked' = picked /\ Selected' = picked \union (leftover \ S)
      BY <1>8, <2>1 DEF leftover_deletes, Selected
    <2> QED  BY <2>1, <2>2, DeletionPrunesLow
  <1>9. CASE BacklogTick \/ UNCHANGED backlogVars
    BY <1>9, BacklogFrame DEF BacklogTick, backlogVars
  <1> QED  BY <1>1, <1>2, <1>3, <1>4, <1>5, <1>6, <1>7, <1>8, <1>9 DEF BacklogNext, Pruning

\* Pruning, by runs that select outside a transaction and by threads that outlive their run, costs
\* a high-value write only when it joined a row that had already been selected.
THEOREM HighValueLostOnlyInRace ==
    BacklogFairSpec => HighValueKept
  <1>1. BacklogInit => BacklogInv
    BY DEF BacklogInit, BacklogInv, BacklogTypes, SelectedWereLow, Selected, RowStates
  <1>2. BacklogInv /\ [BacklogNext]_backlogVars => BacklogInv' /\ [PrunesOnlyLow]_backlogVars
    BY BacklogStep
  <1> QED  BY <1>1, <1>2, PTL DEF BacklogFairSpec, HighValueKept

-----------------------------------------------------------------------------
(* Retention *)

SinkRows == [here : BOOLEAN, low : BOOLEAN, age : {"new", "old", "none"}]

RetentionTypes ==
    /\ sink \in [Sinks -> [Positions -> SinkRows]]
    /\ chosen \in [qdrant : SUBSET Positions, mongo : SUBSET Positions]

\* The rows about to be deleted are there, of low value and past the cutoff; those of Mongo may
\* instead have got a new date since they were found.
ChosenStay ==
    /\ \A p \in chosen.qdrant : sink["qdrant"][p].here /\ Due("qdrant", p)
    /\ \A p \in chosen.mongo : /\ sink["mongo"][p].here /\ sink["mongo"][p].low
                               /\ Old("mongo", p) \/ p \in redated

RetentionInv == RetentionTypes /\ ChosenStay

\* What a deletion leaves of the sinks.
LEMMA WithoutRows ==
    ASSUME RetentionTypes, NEW s \in Sinks, NEW S
    PROVE  /\ Purged(s, S) \in [Sinks -> [Positions -> SinkRows]]
           /\ \A t \in Sinks, p \in Positions :
                 Purged(s, S)[t][p] = IF t = s /\ p \in S THEN NoRow ELSE sink[t][p]
  BY DEF RetentionTypes, Purged, NoRow, SinkRows

\* What retention may delete in a sink: the rows that RemovesOnlyDue allows.
MayGo(s, p) ==
    /\ sink[s][p].low
    /\ Old(s, p) \/ (s = "mongo" /\ p \in redated) \/ (s = "letta" /\ sink[s][p].age = "none")

\* A step that deletes S from s, all of which may go, removes only what is due.
LEMMA DeletesDue ==
    ASSUME RetentionInv, NEW s \in Sinks, NEW S, sink' = Purged(s, S),
           \A p \in S \intersect Positions : MayGo(s, p)
    PROVE  RemovesOnlyDue
  <1>1. \A t \in Sinks, p \in Positions : sink'[t][p] = IF t = s /\ p \in S THEN NoRow ELSE sink[t][p]
    BY WithoutRows DEF RetentionInv
  <1>2. ASSUME NEW t \in Sinks, NEW p \in Removed(t) PROVE MayGo(t, p)
    <2>1. p \in Positions /\ sink[t][p].here /\ ~sink'[t][p].here
      BY DEF Removed, Here
    <2>2. t = s /\ p \in S
      BY <1>1, <2>1
    <2> QED  BY <2>1, <2>2
  <1> QED  BY <1>2 DEF RemovesOnlyDue, MayGo

\* A step that takes no row away removes only what is due.
LEMMA RemovesNothing ==
    ASSUME \A s \in Sinks, p \in Positions : sink[s][p].here => sink'[s][p].here
    PROVE  RemovesOnlyDue
  BY DEF RemovesOnlyDue, Removed, Here

\* What a retention pass chooses in a sink is present there and due.
LEMMA ChosenDue ==
    ASSUME NEW s \in Sinks
    PROVE  Chosen(s) \subseteq {p \in Positions : sink[s][p].here /\ Due(s, p)}
  <1>1. \A S, n : FirstOf(S, n) \subseteq S
    BY DEF FirstOf
  <1>2. Window(s) \subseteq Here(s)
    <2>1. FirstOf(IF s = "mongo" THEN {p \in Here(s) : Old(s, p)} ELSE Here(s), ScanLimit)
            \subseteq IF s = "mongo" THEN {p \in Here(s) : Old(s, p)} ELSE Here(s)
      BY <1>1
    <2> QED  BY <2>1 DEF Window
  <1>3. Chosen(s) \subseteq {p \in Window(s) : Due(s, p)}
    BY <1>1 DEF Chosen
  <1> QED  BY <1>2, <1>3 DEF Here

\* Every step of the retention passes keeps what was chosen due, and removes only what is due.
LEMMA RetentionStep ==
    RetentionInv /\ [RetentionNext]_retentionVars => RetentionInv' /\ [RemovesOnlyDue]_retentionVars
  <1> SUFFICES ASSUME RetentionInv, [RetentionNext]_retentionVars
               PROVE  RetentionInv' /\ [RemovesOnlyDue]_retentionVars
    BY Zenon
  <1>t. /\ RetentionTypes /\ ChosenStay
        /\ chosen.qdrant \subseteq Positions /\ chosen.mongo \subseteq Positions
        /\ \A s \in Sinks, p \in Positions : sink[s][p] \in SinkRows
    BY DEF RetentionInv, RetentionTypes
  <1>s. {"qdrant", "mongo", "letta"} = Sinks
    BY DEF Sinks
  <1>1. CASE run_sink_retention_once \/ UNCHANGED retentionVars
    <2>1. UNCHANGED <<sink, chosen, redated>>
      BY Zenon, <1>1 DEF run_sink_retention_once, retentionVars
    <2>2. RetentionInv'
      BY <1>t, <2>1 DEF RetentionInv, RetentionTypes, ChosenStay, Due, Old
    <2>3. RemovesOnlyDue
      BY <2>1, RemovesNothing
    <2> QED  BY <2>2, <2>3
  <1>2. CASE scan_sink
    <2>1. UNCHANGED <<sink, redated>> /\ visiting \in {"qdrant", "mongo"}
          /\ (chosen' = chosen \/ chosen' = [chosen EXCEPT ![visiting] = Chosen(visiting)])
      BY <1>2 DEF scan_sink
    <2>2. Chosen(visiting) \subseteq {p \in Positions : sink[visiting][p].here /\ Due(visiting, p)}
      BY <1>s, <2>1, ChosenDue
    <2>3. RetentionTypes'
      BY <1>t, <2>1, <2>2 DEF RetentionTypes
    <2>4. ChosenStay'
      <3>1. CASE chosen' = chosen
        BY Zenon, <1>t, <2>1, <3>1 DEF ChosenStay, Due, Old
      <3>2. CASE visiting = "qdrant" /\ chosen' = [chosen EXCEPT ![visiting] = Chosen(visiting)]
        <4>1. chosen'.qdrant = Chosen("qdrant") /\ chosen'.mongo = chosen.mongo
          BY Zenon, <1>t, <3>2 DEF RetentionTypes
        <4> QED  BY <1>t, <2>1, <2>2, <3>2, <4>1 DEF ChosenStay, Due, Old
      <3>3. CASE visiting = "mongo" /\ chosen' = [chosen EXCEPT ![visiting] = Chosen(visiting)]
        <4>1. chosen'.mongo = Chosen("mongo") /\ chosen'.qdrant = chosen.qdrant
          BY <1>t, <3>3 DEF RetentionTypes
        <4> QED  BY <1>t, <2>1, <2>2, <3>3, <4>1 DEF ChosenStay, Due, Old
      <3> QED  BY Zenon, <2>1, <3>1, <3>2, <3>3
    <2>5. RemovesOnlyDue
      BY <2>1, RemovesNothing
    <2> QED  BY <2>3, <2>4, <2>5 DEF RetentionInv
  <1>3. CASE qdrant_delete_batch
    <2> DEFINE B == FirstOf(chosen.qdrant, DeleteBatch)
    <2>1. B \subseteq chosen.qdrant
      BY DEF FirstOf
    <2>2. /\ sink' = Purged("qdrant", B) /\ chosen' = [chosen EXCEPT !.qdrant = chosen.qdrant \ B]
          /\ redated' = redated
      BY <1>3 DEF qdrant_delete_batch
    <2> HIDE DEF B
    <2>3. /\ sink' \in [Sinks -> [Positions -> SinkRows]]
          /\ \A t \in Sinks, p \in Positions :
                sink'[t][p] = IF t = "qdrant" /\ p \in B THEN NoRow ELSE sink[t][p]
      BY <1>s, <1>t, <2>2, WithoutRows
    <2>4. chosen'.qdrant = chosen.qdrant \ B /\ chosen'.mongo = chosen.mongo
      BY <1>t, <2>2 DEF RetentionTypes
    <2>5. RetentionTypes'
      BY Zenon, <1>t, <2>2, <2>3 DEF RetentionTypes
    <2>6. ChosenStay'
      BY <1>s, <1>t, <2>2, <2>3, <2>4 DEF ChosenStay, Due, Old
    <2>7. \A p \in B : MayGo("qdrant", p)
      BY <1>t, <2>1 DEF ChosenStay, MayGo, Due
    <2>8. RemovesOnlyDue
      BY <1>s, <2>2, <2>7, DeletesDue
    <2> QED  BY <2>5, <2>6, <2>8 DEF RetentionInv
  <1>4. CASE mongo_delete_many
    <2>2. sink' = Purged("mongo", chosen.mongo) /\ chosen' = [chosen EXCEPT !.mongo = {}]
      BY <1>4 DEF mongo_delete_many
    <2>3. /\ sink' \in [Sinks -> [Positions -> SinkRows]]
          /\ \A t \in Sinks, p \in Positions :
                sink'[t][p] = IF t = "mongo" /\ p \in chosen.mongo THEN NoRow ELSE sink[t][p]
      BY <1>s, <1>t, <2>2, WithoutRows
    <2>4. chosen'.mongo = {} /\ chosen'.qdrant = chosen.qdrant
      BY <1>t, <2>2 DEF RetentionTypes
    <2>5. RetentionTypes'
      BY <1>t, <2>2, <2>3 DEF RetentionTypes
    <2>6. ChosenStay'
      BY <1>s, <1>t, <2>3, <2>4 DEF ChosenStay, Due, Old
    <2>7. \A p \in chosen.mongo : MayGo("mongo", p)
      BY Zenon, <1>t DEF ChosenStay, MayGo
    <2>8. RemovesOnlyDue
      BY <1>s, <2>2, <2>7, DeletesDue
    <2> QED  BY <2>5, <2>6, <2>8 DEF RetentionInv
  <1>5. CASE letta_passage
    <2> DEFINE next == Min({p \in Here("letta") : p > after})
    <2>1. /\ chosen' = chosen /\ redated' = redated
          /\ \/ sink' = sink
             \/ /\ sink["letta"][next].low /\ sink["letta"][next].age # "new"
                /\ sink' = Purged("letta", {next})
      BY Zenon, <1>5 DEF letta_passage
    <2> HIDE DEF next
    <2>2. CASE sink' = sink
      <3>1. RetentionInv'
        BY <1>t, <2>1, <2>2 DEF RetentionInv, RetentionTypes, ChosenStay, Due, Old
      <3>2. RemovesOnlyDue
        BY Zenon, <2>2, RemovesNothing
      <3> QED  BY <3>1, <3>2
    <2>3. CASE /\ sink["letta"][next].low /\ sink["letta"][next].age # "new"
               /\ sink' = Purged("letta", {next})
      <3>1. /\ sink' \in [Sinks -> [Positions -> SinkRows]]
            /\ \A t \in Sinks, p \in Positions :
                  sink'[t][p] = IF t = "letta" /\ p \in {next} THEN NoRow ELSE sink[t][p]
        BY <1>s, <1>t, <2>3, WithoutRows
      <3>2. RetentionTypes'
        BY Zenon, <1>t, <2>1, <3>1 DEF RetentionTypes
      <3>3. ChosenStay'
        <4>1. \A p \in Positions : sink'["qdrant"][p] = sink["qdrant"][p] /\ sink'["mongo"][p] = sink["mongo"][p]
          BY <1>s, <3>1
        <4>2. chosen' = chosen /\ redated' = redated
          BY <2>1
        <4> QED  BY <1>t, <4>1, <4>2 DEF ChosenStay, Due, Old
      <3>4. \A p \in {next} \intersect Positions : MayGo("letta", p)
        BY <1>s, <1>t, <2>3 DEF MayGo, Old, SinkRows
      <3>5. RemovesOnlyDue
        BY <1>s, <2>3, <3>4, DeletesDue
      <3> QED  BY <3>2, <3>3, <3>5 DEF RetentionInv
    <2> QED  BY <2>1, <2>2, <2>3
  <1>6. CASE sink_fails
    <2>1. sink' = sink /\ chosen'.qdrant = {}
          /\ (chosen'.mongo = {} \/ (chosen'.mongo = chosen.mongo /\ redated' = redated))
          /\ chosen' \in [qdrant : SUBSET Positions, mongo : SUBSET Positions]
      BY Zenon, <1>6, <1>t DEF sink_fails, RetentionTypes
    <2>2. RetentionInv'
      BY Zenon, <1>t, <2>1 DEF RetentionInv, RetentionTypes, ChosenStay, Old
    <2>3. RemovesOnlyDue
      BY Zenon, <2>1, RemovesNothing
    <2> QED  BY <2>2, <2>3
  <1>7. CASE RowWritten
    <2>1. PICK s \in Sinks, p \in Positions, v \in BOOLEAN, a \in {"new", "none"} :
             /\ AtEnd(s, p) /\ sink' = [sink EXCEPT ![s][p] = [here |-> TRUE, low |-> v, age |-> a]]
      BY Zenon, <1>7 DEF RowWritten
    <2>2. chosen' = chosen /\ redated' = redated /\ ~sink[s][p].here
      BY <1>7, <2>1 DEF RowWritten, AtEnd
    <2>3. /\ sink' \in [Sinks -> [Positions -> SinkRows]]
          /\ \A t \in Sinks, q \in Positions :
                sink'[t][q] = IF t = s /\ q = p THEN [here |-> TRUE, low |-> v, age |-> a] ELSE sink[t][q]
      <3>1. [here |-> TRUE, low |-> v, age |-> a] \in SinkRows
        BY DEF SinkRows
      <3> QED  BY <1>t, <2>1, <3>1 DEF RetentionTypes
    <2>4. RetentionTypes'
      BY Zenon, <1>t, <2>2, <2>3 DEF RetentionTypes
    <2>5. ChosenStay'
      <3>1. \A q \in chosen.qdrant : sink'["qdrant"][q] = sink["qdrant"][q]
        BY Zenon, <1>s, <1>t, <2>2, <2>3 DEF ChosenStay
      <3>2. \A q \in chosen.mongo : sink'["mongo"][q] = sink["mongo"][q]
        BY <1>s, <1>t, <2>2, <2>3 DEF ChosenStay
      <3> QED  BY <1>t, <2>2, <3>1, <3>2 DEF ChosenStay, Due, Old
    <2>6. RemovesOnlyDue
      <3>1. \A t \in Sinks, q \in Positions : sink[t][q].here => sink'[t][q].here
        BY <2>3
      <3> QED  BY Zenon, <3>1, RemovesNothing
    <2> QED  BY <2>4, <2>5, <2>6 DEF RetentionInv
  <1>8. CASE raw_repeated
    <2>1. PICK p \in Here("mongo"), q \in Positions :
             /\ AtEnd("mongo", q)
             /\ sink' = [sink EXCEPT !["mongo"][p] = NoRow,
                                     !["mongo"][q] = [sink["mongo"][p] EXCEPT !.age = "new"]]
             /\ chosen' = [chosen EXCEPT !.mongo = IF p \in chosen.mongo THEN (chosen.mongo \ {p}) \cup {q}
                                                   ELSE chosen.mongo]
             /\ redated' = IF p \in chosen.mongo THEN (redated \ {p}) \cup {q} ELSE redated
      BY Zenon, <1>8 DEF raw_repeated
    <2>2. p \in Positions /\ sink["mongo"][p].here /\ ~sink["mongo"][q].here /\ p # q
      BY <2>1 DEF Here, AtEnd
    <2> DEFINE moved == [sink["mongo"][p] EXCEPT !.age = "new"]
    <2>3. /\ moved \in SinkRows
          /\ moved.here = sink["mongo"][p].here /\ moved.low = sink["mongo"][p].low
      BY Zenon, <1>s, <1>t, <2>2 DEF SinkRows
    <2>4. sink' = [sink EXCEPT !["mongo"][p] = NoRow, !["mongo"][q] = moved]
      BY <2>1
    <2> HIDE DEF moved
    <2>5. /\ sink' \in [Sinks -> [Positions -> SinkRows]]
          /\ \A t \in Sinks, r \in Positions :
                sink'[t][r] = IF t = "mongo" /\ r = q THEN moved
                              ELSE IF t = "mongo" /\ r = p THEN NoRow ELSE sink[t][r]
      <3>1. NoRow \in SinkRows
        BY DEF NoRow, SinkRows
      <3> QED  BY <1>s, <1>t, <2>2, <2>3, <2>4, <3>1 DEF RetentionTypes
    <2>6. /\ chosen' \in [qdrant : SUBSET Positions, mongo : SUBSET Positions]
          /\ chosen'.qdrant = chosen.qdrant
          /\ chosen'.mongo = IF p \in chosen.mongo THEN (chosen.mongo \ {p}) \cup {q} ELSE chosen.mongo
      BY Zenon, <1>t, <2>1 DEF RetentionTypes
    <2>7. RetentionTypes'
      BY Zenon, <2>5, <2>6 DEF RetentionTypes
    <2>8. ChosenStay'
      <3>1. \A r \in chosen'.qdrant : sink'["qdrant"][r] = sink["qdrant"][r]
        BY Zenon, <1>s, <1>t, <2>5, <2>6
      <3>2. ASSUME NEW r \in chosen'.mongo
            PROVE  sink'["mongo"][r].here /\ sink'["mongo"][r].low /\ (Old("mongo", r)' \/ r \in redated')
        <4>1. CASE r = q
          <5>1. p \in chosen.mongo
            BY Zenon, <1>t, <2>2, <2>6, <4>1 DEF ChosenStay
          <5>2. r \in redated'
            BY <2>1, <4>1, <5>1
          <5> QED  BY Zenon, <1>s, <1>t, <2>2, <2>3, <2>5, <4>1, <5>1, <5>2 DEF ChosenStay
        <4>2. CASE r # q
          <5>1. r \in chosen.mongo /\ r # p
            BY <1>t, <2>2, <2>6, <4>2 DEF ChosenStay
          <5>2. sink'["mongo"][r] = sink["mongo"][r]
            BY Zenon, <1>s, <1>t, <2>5, <4>2, <5>1
          <5>3. r \in redated => r \in redated'
            BY <2>1, <5>1
          <5> QED  BY Zenon, <1>t, <5>1, <5>2, <5>3 DEF ChosenStay, Old
        <4> QED  BY Zenon, <4>1, <4>2
      <3> QED  BY Zenon, <1>t, <2>6, <3>1, <3>2 DEF ChosenStay, Due, Old
    <2>9. RemovesOnlyDue
      BY Zenon, <1>8 DEF RemovesOnlyDue
    <2> QED  BY <2>7, <2>8, <2>9 DEF RetentionInv
  <1>9. CASE RowAges
    <2>1. PICK s \in Sinks : \E p \in Here(s) : sink' = [sink EXCEPT ![s][p].age = "old"]
      BY Zenon, <1>9 DEF RowAges
    <2>2. PICK p \in Here(s) : sink' = [sink EXCEPT ![s][p].age = "old"]
      BY Zenon, <2>1
    <2>3. p \in Positions /\ chosen' = chosen /\ redated' = redated
      BY <1>9 DEF RowAges, Here
    <2>4. sink' \in [Sinks -> [Positions -> SinkRows]]
      BY <1>t, <2>2, <2>3 DEF RetentionTypes, SinkRows
    <2>5. \A t \in Sinks, q \in Positions : /\ sink'[t][q].here = sink[t][q].here
                                            /\ sink'[t][q].low = sink[t][q].low
                                            /\ Old(t, q) => Old(t, q)'
      BY <1>t, <2>2, <2>3 DEF RetentionTypes, SinkRows, Old
    <2>6. RetentionTypes'
      BY <1>t, <2>3, <2>4 DEF RetentionTypes
    <2>7. ChosenStay'
      BY Zenon, <1>s, <1>t, <2>3, <2>5 DEF ChosenStay, Due, Old
    <2>8. RemovesOnlyDue
      BY <2>5, RemovesNothing
    <2> QED  BY <2>6, <2>7, <2>8 DEF RetentionInv
  <1> QED  BY <1>1, <1>2, <1>3, <1>4, <1>5, <1>6, <1>7, <1>8, <1>9 DEF RetentionNext, Visiting

\* Whatever is written, dated anew or past its cutoff between the listing of a sink and the
\* deletion, every row retention removes is of low value and past its cutoff, but for a raw document
\* whose write was repeated in between and for passages of unknown age.
THEOREM RetentionDeletesDue ==
    RetentionFairSpec => OnlyDueDeleted
  <1>1. RetentionInit => RetentionInv
    BY DEF RetentionInit, RetentionInv, RetentionTypes, ChosenStay, NoRow, SinkRows
  <1>2. RetentionInv /\ [RetentionNext]_retentionVars => RetentionInv' /\ [RemovesOnlyDue]_retentionVars
    BY RetentionStep
  <1> QED  BY <1>1, <1>2, PTL DEF RetentionFairSpec, OnlyDueDeleted

-----------------------------------------------------------------------------
(* Rows on their way to MindsDB *)

Calls == [at : {"ensure", "check", "switch", "probe", "insert", "reinsert", "done"},
          table : Nat, back : {"insert", "reinsert"}]

MindsTypes ==
    /\ target \in 0..LastTable /\ corrupt \subseteq 0..LastTable
    /\ call \in [Pushers -> Calls] /\ ended \in [Pushers -> {"no", "ok", "raised"}]

\* No sound table was passed over on the way to the target.
PassedAreCorrupt == \A t \in 0..LastTable : t < target => t \in corrupt

\* An insert goes to a table that was the target when it was read.  A caller that moves does so
\* because its table is corrupted, and tries those after it.
OnTheWay(p) ==
    /\ call[p].at \in {"insert", "reinsert"} => call[p].table <= target
    /\ call[p].at = "switch" => call[p].table \in corrupt /\ call[p].table <= target
    /\ call[p].at = "probe" => \A t \in 0..LastTable : t < call[p].table => t \in corrupt

MindsInv == MindsTypes /\ PassedAreCorrupt /\ (\A p \in Pushers : OnTheWay(p)) /\ RowsVisible

\* The target only moves forward, to a sound table none of whose predecessors is sound.
LEMMA TargetMoves ==
    ASSUME MindsInv, MindsTypes', NEW p \in Pushers, NEW n \in Nat, target' = n,
           n \in 0..LastTable, n \notin corrupt, corrupt' = corrupt, rows' = rows, ended' = ended,
           \A t \in 0..LastTable : t < n => t \in corrupt,
           \A q \in Pushers : q # p => call'[q] = call[q],
           call'[p].at \in {"insert", "reinsert"}, call'[p].table = n
    PROVE  MindsInv'
  <1>1. target <= n /\ (target # n => target \in corrupt)
    BY DEF MindsInv, MindsTypes, PassedAreCorrupt
  <1>2. PassedAreCorrupt'
    BY DEF PassedAreCorrupt
  <1>3. ASSUME NEW q \in Pushers PROVE OnTheWay(q)'
    <2>1. CASE q = p
      BY <2>1 DEF OnTheWay, MindsInv, MindsTypes
    <2>2. CASE q # p
      <3>1. call'[q] = call[q] /\ OnTheWay(q) /\ call[q].table \in Nat
        BY <2>2 DEF MindsInv, MindsTypes, Calls
      <3> QED  BY <1>1, <3>1 DEF OnTheWay, MindsInv, MindsTypes
    <2> QED  BY <2>1, <2>2
  <1>4. RowsVisible'
    BY <1>1 DEF RowsVisible, MindsInv
  <1> QED  BY <1>2, <1>3, <1>4 DEF MindsInv

\* A step that leaves the target and the rows of successful pushes alone.
LEMMA TargetStays ==
    ASSUME MindsInv, MindsTypes', target' = target, corrupt \subseteq corrupt', rows \subseteq rows',
           \A q \in Pushers : OnTheWay(q)',
           \A q \in Pushers : ended'[q] = "ok" =>
              ended[q] = "ok" \/ \E t \in 0..LastTable : <<q, t>> \in rows' /\ t = target
    PROVE  MindsInv'
  <1>1. PassedAreCorrupt'
    BY DEF MindsInv, PassedAreCorrupt
  <1>2. RowsVisible'
    BY DEF MindsInv, RowsVisible
  <1> QED  BY <1>1, <1>2 DEF MindsInv

\* The callers other than the one that steps are on their way as before.
LEMMA OthersOnTheWay ==
    ASSUME MindsInv, NEW p \in Pushers, target' = target, corrupt \subseteq corrupt', OnTheWay(p)',
           \A q \in Pushers : q # p => call'[q] = call[q]
    PROVE  \A q \in Pushers : OnTheWay(q)'
  BY DEF MindsInv, OnTheWay

\* What a move of one caller makes of the calls.
LEMMA MovedCall ==
    ASSUME MindsTypes, NEW p \in Pushers, NEW table \in Nat,
           NEW where \in {"check", "probe", "insert", "reinsert"}, Moved(p, where, table)
    PROVE  /\ call' \in [Pushers -> Calls] /\ call'[p].at = where /\ call'[p].table = table
           /\ \A q \in Pushers : q # p => call'[q] = call[q]
  BY DEF MindsTypes, Moved, Calls

LEMMA SwitchCall ==
    ASSUME MindsTypes, NEW p \in Pushers, NEW table \in Nat, NEW back \in {"insert", "reinsert"},
           call' = [call EXCEPT ![p] = Call("switch", table, back)]
    PROVE  /\ call' \in [Pushers -> Calls] /\ call'[p].at = "switch" /\ call'[p].table = table
           /\ \A q \in Pushers : q # p => call'[q] = call[q]
  BY DEF MindsTypes, Call, Calls

LEMMA EndedCall ==
    ASSUME MindsTypes, NEW p \in Pushers, NEW how \in {"ok", "raised"}, Ended(p, how)
    PROVE  /\ call' \in [Pushers -> Calls] /\ call'[p].at = "done"
           /\ ended' \in [Pushers -> {"no", "ok", "raised"}] /\ ended'[p] = how
           /\ \A q \in Pushers : q # p => call'[q] = call[q] /\ ended'[q] = ended[q]
  BY DEF MindsTypes, Ended, Calls

\* A caller that ends with an error, or moves without touching the target, keeps the invariant.
LEMMA RaisedKeeps ==
    ASSUME MindsInv, NEW p \in Pushers, Ended(p, "raised"), target' = target, corrupt' = corrupt,
           rows \subseteq rows'
    PROVE  MindsInv'
  <1>1. MindsTypes
    BY DEF MindsInv
  <1>2. /\ call' \in [Pushers -> Calls] /\ call'[p].at = "done"
        /\ ended' \in [Pushers -> {"no", "ok", "raised"}] /\ ended'[p] = "raised"
        /\ \A q \in Pushers : q # p => call'[q] = call[q] /\ ended'[q] = ended[q]
    BY <1>1, EndedCall
  <1>3. MindsTypes'
    BY <1>1, <1>2 DEF MindsTypes
  <1>4. OnTheWay(p)'
    BY <1>2 DEF OnTheWay
  <1>5. \A q \in Pushers : OnTheWay(q)'
    BY <1>2, <1>4, OthersOnTheWay
  <1> QED  BY <1>2, <1>3, <1>5, TargetStays

LEMMA MovesKeep ==
    ASSUME MindsInv, NEW p \in Pushers, call' \in [Pushers -> Calls], OnTheWay(p)',
           \A q \in Pushers : q # p => call'[q] = call[q],
           target' = target, corrupt' = corrupt, rows' = rows, ended' = ended
    PROVE  MindsInv'
  <1>1. MindsTypes'
    BY DEF MindsInv, MindsTypes
  <1>2. \A q \in Pushers : OnTheWay(q)'
    BY OthersOnTheWay
  <1> QED  BY <1>1, <1>2, TargetStays

LEMMA MindsCallKeeps ==
    ASSUME MindsInv, NEW p \in Pushers, MindsCall(p)
    PROVE  MindsInv'
  <1>t. /\ MindsTypes /\ PassedAreCorrupt /\ OnTheWay(p) /\ call[p] \in Calls
        /\ target \in Nat /\ target <= LastTable
    BY LastTableAssumption DEF MindsInv, MindsTypes
  <1>1. CASE ensure_ready(p)
    <2>1. Moved(p, "insert", target) /\ UNCHANGED <<target, corrupt, rows, ended>>
      BY <1>1 DEF ensure_ready
    <2>2. /\ call' \in [Pushers -> Calls] /\ call'[p].at = "insert" /\ call'[p].table = target
          /\ \A q \in Pushers : q # p => call'[q] = call[q]
      BY <1>t, <2>1, MovedCall
    <2>3. OnTheWay(p)'
      BY <1>t, <2>1, <2>2 DEF OnTheWay
    <2> QED  BY <2>1, <2>2, <2>3, MovesKeep
  <1>2. CASE ensure_locks(p)
    <2>1. Moved(p, "check", 0) /\ UNCHANGED <<target, corrupt, rows, ended>>
      BY <1>2 DEF ensure_locks
    <2>2. /\ call' \in [Pushers -> Calls] /\ call'[p].at = "check"
          /\ \A q \in Pushers : q # p => call'[q] = call[q]
      BY <1>t, <2>1, MovedCall
    <2>3. OnTheWay(p)'
      BY <2>2 DEF OnTheWay
    <2> QED  BY <2>1, <2>2, <2>3, MovesKeep
  <1>3. CASE ensure_checks(p)
    <2>0. UNCHANGED <<corrupt, rows, ended>>
      BY <1>3 DEF ensure_checks, Checked
    <2>1. CASE 0 \notin corrupt /\ target' = 0 /\ Moved(p, "insert", 0)
      <3>1. /\ call' \in [Pushers -> Calls] /\ call'[p].at = "insert" /\ call'[p].table = 0
            /\ \A q \in Pushers : q # p => call'[q] = call[q]
        BY <1>t, <2>1, MovedCall
      <3>2. target = 0
        BY <1>t, <2>1, LastTableAssumption DEF PassedAreCorrupt
      <3>3. OnTheWay(p)'
        BY <2>1, <3>1 DEF OnTheWay
      <3> QED  BY <2>0, <2>1, <3>1, <3>2, <3>3, MovesKeep
    <2>2. CASE /\ 0 \in corrupt /\ UNCHANGED target
               /\ call' = [call EXCEPT ![p] = Call("switch", 0, "insert")]
      <3>1. /\ call' \in [Pushers -> Calls] /\ call'[p].at = "switch" /\ call'[p].table = 0
            /\ \A q \in Pushers : q # p => call'[q] = call[q]
        BY <1>t, <2>2, SwitchCall
      <3>2. OnTheWay(p)'
        BY <1>t, <2>0, <2>2, <3>1 DEF OnTheWay
      <3> QED  BY <2>0, <2>2, <3>1, <3>2, MovesKeep
    <2>3. CASE UNCHANGED target /\ Moved(p, "insert", target)
      <3>1. /\ call' \in [Pushers -> Calls] /\ call'[p].at = "insert" /\ call'[p].table = target
            /\ \A q \in Pushers : q # p => call'[q] = call[q]
        BY <1>t, <2>3, MovedCall
      <3>2. OnTheWay(p)'
        BY <1>t, <2>3, <3>1 DEF OnTheWay
      <3> QED  BY <2>0, <2>3, <3>1, <3>2, MovesKeep
    <2> QED  BY <1>3, <2>1, <2>2, <2>3 DEF ensure_checks, Checked
  <1>4. CASE switch_locks(p)
    <2>1. /\ At(p, "switch") /\ Moved(p, "probe", call[p].table + 1)
          /\ UNCHANGED <<target, corrupt, rows, ended>>
      BY <1>4 DEF switch_locks, Seed
    <2>2. call[p].table \in Nat /\ call[p].table \in corrupt /\ call[p].table <= target
      BY <1>t, <2>1 DEF OnTheWay, At, Calls
    <2>3. /\ call' \in [Pushers -> Calls] /\ call'[p].at = "probe" /\ call'[p].table = call[p].table + 1
          /\ \A q \in Pushers : q # p => call'[q] = call[q]
      BY <1>t, <2>1, <2>2, MovedCall
    <2>4. \A t \in 0..LastTable : t < call[p].table + 1 => t \in corrupt
      BY <1>t, <2>2 DEF PassedAreCorrupt
    <2>5. OnTheWay(p)'
      BY <2>1, <2>3, <2>4 DEF OnTheWay
    <2> QED  BY <2>1, <2>3, <2>5, MovesKeep
  <1>5. CASE switch_probes(p)
    <2>0. At(p, "probe") /\ UNCHANGED <<corrupt, rows>> /\ call[p].table \in Nat
      BY <1>t, <1>5 DEF switch_probes, Calls
    <2>1. ASSUME NEW t \in Sound(call[p].table), \A u \in Sound(call[p].table) : t <= u,
                 target' = t, Moved(p, call[p].back, t), UNCHANGED ended
          PROVE  MindsInv'
      <3>1. t \in Nat /\ t \in 0..LastTable /\ t \notin corrupt /\ call[p].table <= t
        BY <2>0, <2>1, LastTableAssumption DEF Sound
      <3>2. call[p].back \in {"insert", "reinsert"}
        BY <1>t DEF Calls
      <3>3. /\ call' \in [Pushers -> Calls] /\ call'[p].at = call[p].back /\ call'[p].table = t
            /\ \A q \in Pushers : q # p => call'[q] = call[q]
        BY <1>t, <2>1, <3>1, <3>2, MovedCall
      <3>4. ASSUME NEW u \in 0..LastTable, u < t PROVE u \in corrupt
        <4>1. CASE u < call[p].table
          BY <1>t, <2>0, <4>1 DEF OnTheWay, At
        <4>2. CASE call[p].table <= u
          BY <2>0, <2>1, <3>1, <3>4, <4>2, LastTableAssumption DEF Sound
        <4> QED  BY <2>0, <4>1, <4>2, LastTableAssumption
      <3>5. MindsTypes'
        BY <1>t, <2>0, <2>1, <3>1, <3>3 DEF MindsTypes
      <3>6. call'[p].at \in {"insert", "reinsert"}
        BY <3>2, <3>3
      <3> QED  BY <2>0, <2>1, <3>1, <3>3, <3>4, <3>5, <3>6, TargetMoves
    <2>2. CASE UNCHANGED target /\ Ended(p, "raised")
      BY <2>0, <2>2, RaisedKeeps
    <2>3. CASE UNCHANGED <<target, ended>> /\ Moved(p, "insert", target)
      <3>1. /\ call' \in [Pushers -> Calls] /\ call'[p].at = "insert" /\ call'[p].table = target
            /\ \A q \in Pushers : q # p => call'[q] = call[q]
        BY <1>t, <2>3, MovedCall
      <3>2. OnTheWay(p)'
        BY <1>t, <2>3, <3>1 DEF OnTheWay
      <3> QED  BY <2>0, <2>3, <3>1, <3>2, MovesKeep
    <2> QED  BY <1>5, <2>1, <2>2, <2>3 DEF switch_probes
  <1>6. CASE insert_ok(p)
    <2>1. /\ Ended(p, "ok") /\ UNCHANGED <<target, corrupt>>
          /\ rows' = rows \union {<<p, call[p].table>>}
      BY <1>6 DEF insert_ok
    <2>2. call[p].table = target /\ target \in 0..LastTable
      <3>1. call[p].table \in Nat /\ call[p].table <= target /\ call[p].table \notin corrupt
        BY <1>t, <1>6 DEF insert_ok, OnTheWay, Calls
      <3>2. call[p].table \in 0..LastTable
        BY <1>t, <3>1, LastTableAssumption
      <3> QED  BY <1>t, <3>1, <3>2 DEF PassedAreCorrupt, MindsTypes
    <2>3. /\ call' \in [Pushers -> Calls] /\ call'[p].at = "done"
          /\ ended' \in [Pushers -> {"no", "ok", "raised"}]
          /\ \A q \in Pushers : q # p => call'[q] = call[q] /\ ended'[q] = ended[q]
      BY <1>t, <2>1, EndedCall
    <2>4. MindsTypes'
      BY <1>t, <2>1, <2>3 DEF MindsTypes
    <2>5. OnTheWay(p)'
      BY <2>3 DEF OnTheWay
    <2>6. \A q \in Pushers : OnTheWay(q)'
      BY <2>1, <2>3, <2>5, OthersOnTheWay
    <2>7. \A q \in Pushers : ended'[q] = "ok" =>
             ended[q] = "ok" \/ \E t \in 0..LastTable : <<q, t>> \in rows' /\ t = target
      BY <2>1, <2>2, <2>3
    <2> QED  BY <2>1, <2>4, <2>6, <2>7, TargetStays
  <1>7. CASE insert_error(p)
    <2>1. Ended(p, "raised") /\ UNCHANGED <<target, corrupt>> /\ rows \subseteq rows'
      BY <1>7 DEF insert_error
    <2> QED  BY <2>1, RaisedKeeps
  <1>8. CASE insert_corrupt(p)
    <2>0. UNCHANGED <<target, corrupt, rows>> /\ call[p].table \in corrupt
      BY <1>8 DEF insert_corrupt
    <2>1. CASE /\ At(p, "insert") /\ UNCHANGED ended
               /\ call' = [call EXCEPT ![p] = Call("switch", call[p].table, "reinsert")]
      <3>1. call[p].table \in Nat /\ call[p].table <= target
        BY <1>t, <2>1 DEF OnTheWay, At, Calls
      <3>2. /\ call' \in [Pushers -> Calls] /\ call'[p].at = "switch" /\ call'[p].table = call[p].table
            /\ \A q \in Pushers : q # p => call'[q] = call[q]
        BY <1>t, <2>1, <3>1, SwitchCall
      <3>3. OnTheWay(p)'
        BY <2>0, <3>1, <3>2 DEF OnTheWay
      <3> QED  BY <2>0, <2>1, <3>2, <3>3, MovesKeep
    <2>2. CASE Ended(p, "raised")
      BY <2>0, <2>2, RaisedKeeps
    <2> QED  BY <1>8, <2>1, <2>2 DEF insert_corrupt
  <1> QED  BY <1>1, <1>2, <1>3, <1>4, <1>5, <1>6, <1>7, <1>8 DEF MindsCall

\* However the moves of concurrent callers interleave with corruptions and lost answers, the row of
\* a push that succeeded is in the table searches read, or in one corrupted since.
THEOREM RowsStayVisible ==
    MindsSpec => []RowsVisible
  <1>1. MindsInit => MindsInv
    BY LastTableAssumption
    DEF MindsInit, MindsInv, MindsTypes, PassedAreCorrupt, OnTheWay, RowsVisible, Calls, Call
  <1>2. MindsInv /\ [MindsNext]_mindsVars => MindsInv'
    <2> SUFFICES ASSUME MindsInv, [MindsNext]_mindsVars PROVE MindsInv'
      OBVIOUS
    <2>1. CASE MindsStep
      BY <2>1, MindsCallKeeps DEF MindsStep
    <2>2. CASE TableCorrupted
      <3>1. /\ UNCHANGED <<target, rows, call, ended>> /\ corrupt \subseteq corrupt'
            /\ corrupt' \subseteq 0..LastTable
        BY <2>2 DEF TableCorrupted, MindsInv, MindsTypes
      <3>2. MindsTypes'
        BY <3>1 DEF MindsInv, MindsTypes
      <3>3. \A q \in Pushers : OnTheWay(q)'
        BY <3>1 DEF MindsInv, OnTheWay
      <3> QED  BY <3>1, <3>2, <3>3, TargetStays
    <2>3. CASE UNCHANGED mindsVars
      BY <2>3 DEF mindsVars, MindsInv, MindsTypes, PassedAreCorrupt, OnTheWay, RowsVisible
    <2> QED  BY <2>1, <2>2, <2>3 DEF MindsNext
  <1>3. MindsInv => RowsVisible
    BY DEF MindsInv
  <1> QED  BY <1>1, <1>2, <1>3, PTL DEF MindsSpec

-----------------------------------------------------------------------------
(* One agent per session *)

Resolving == {"verify", "lookup", "relookup", "details", "create"}

AgentTypes ==
    /\ IsFiniteSet(agents) /\ foreign \in Nat /\ madeLate \in Nat
    /\ at \in [Callers -> Resolving \cup {"resolve", "wait", "post", "ok", "failed"}]

\* Only the holder of letta_agent_lock talks to the server about the agent, and one that is about
\* to create it has found none: whatever there is was made since, by others or of requests whose
\* callers had given up.
ResolvesLocked == \A c \in Callers : at[c] \in Resolving => agentLock = c
CreatesFirst == \A c \in Callers : at[c] = "create" => Cardinality(agents) <= foreign + madeLate

AgentInv == AgentTypes /\ ResolvesLocked /\ CreatesFirst /\ OneAgent

\* The steps of a caller that leave the server's agents alone.
CallerStep(c) ==
    \/ resolve_cached(c) \/ resolve_waits(c) \/ resolve_locked(c) \/ verify_cached(c) \/ verify_gone(c)
    \/ lookup_by_name(c) \/ lookup_details(c) \/ create_conflict(c)
    \/ create_times_out(c) \/ resolve_fails(c) \/ post_archival(c) \/ post_server_error(c) \/ post_refused(c)
    \/ push_to_letta(c)

\* The set of Letta agents is finite, and one create or delete moves its size by at most one.
LEMMA AgentFacts ==
    ASSUME AgentTypes
    PROVE  /\ Cardinality(agents) \in Nat
           /\ \A id : IsFiniteSet(agents \cup {id}) /\ Cardinality(agents \cup {id}) <= Cardinality(agents) + 1
                      /\ Cardinality(agents \cup {id}) \in Nat
           /\ \A id : IsFiniteSet(agents \ {id}) /\ Cardinality(agents \ {id}) <= Cardinality(agents)
                      /\ Cardinality(agents \ {id}) \in Nat
           /\ agents = {} => Cardinality(agents) = 0
  <1>1. IsFiniteSet(agents)
    BY Zenon DEF AgentTypes
  <1>2. Cardinality(agents) \in Nat
    BY Zenon, <1>1, FS_CardinalityType
  <1>3. \A id : IsFiniteSet(agents \cup {id}) /\ Cardinality(agents \cup {id}) <= Cardinality(agents) + 1
                /\ Cardinality(agents \cup {id}) \in Nat
    BY <1>1, <1>2, FS_AddElement
  <1>4. \A id : IsFiniteSet(agents \ {id}) /\ Cardinality(agents \ {id}) <= Cardinality(agents)
                /\ Cardinality(agents \ {id}) \in Nat
    BY Zenon, <1>1, <1>2, FS_Subset, FS_CardinalityType
  <1>5. agents = {} => Cardinality(agents) = 0
    BY FS_EmptySet
  <1> QED  BY Zenon, <1>2, <1>3, <1>4, <1>5

\* Who resolves has the lock, after every step of a caller.
LEMMA LockStep ==
    ASSUME "free" \notin Callers, AgentTypes, ResolvesLocked, NEW c \in Callers, AgentCall(c)
    PROVE  /\ at' \in [Callers -> Resolving \cup {"resolve", "wait", "post", "ok", "failed"}]
           /\ ResolvesLocked'
           /\ \A d \in Callers \ {c} : at'[d] = at[d]
           /\ at'[c] = "create" => at[c] = "lookup" /\ agents = {}
  <1> USE DEF AgentTypes, ResolvesLocked, Resolving, MovesTo, Release
  <1>1. CASE resolve_cached(c)
    BY Zenon, <1>1 DEF resolve_cached
  <1>2. CASE resolve_locked(c)
    BY Zenon, <1>2 DEF resolve_locked
  <1>3. CASE verify_cached(c)
    BY Zenon, <1>3 DEF verify_cached, Adopted
  <1>4. CASE verify_gone(c)
    BY Zenon, <1>4 DEF verify_gone
  <1>5. CASE lookup_by_name(c)
    BY Zenon, <1>5 DEF lookup_by_name
  <1>6. CASE lookup_details(c)
    BY Zenon, <1>6 DEF lookup_details, Adopted
  <1>7. CASE create_agent(c)
    BY Zenon, <1>7 DEF create_agent, Adopted
  <1>8. CASE create_conflict(c)
    BY Zenon, <1>8 DEF create_conflict
  <1>9. CASE resolve_fails(c)
    BY Zenon, <1>9 DEF resolve_fails
  <1>10. CASE post_archival(c)
    BY Zenon, <1>10 DEF post_archival
  <1>11. CASE post_server_error(c)
    BY Zenon, <1>11 DEF post_server_error, ServerError
  <1>12. CASE post_refused(c)
    BY Zenon, <1>12 DEF post_refused
  <1>13. CASE push_to_letta(c)
    BY Zenon, <1>13 DEF push_to_letta
  <1>14. CASE resolve_waits(c)
    BY Zenon, <1>14 DEF resolve_waits
  <1>15. CASE create_times_out(c)
    BY Zenon, <1>15 DEF create_times_out
  <1> QED  BY Zenon, <1>1, <1>2, <1>3, <1>4, <1>5, <1>6, <1>7, <1>8, <1>9, <1>10, <1>11, <1>12, <1>13, <1>14, <1>15
    DEF AgentCall

\* Every step of a caller, and of the server, keeps the one-agent invariant.
LEMMA AgentStep ==
    ASSUME "free" \notin Callers
    PROVE  AgentInv /\ [AgentNext]_agentVars => AgentInv'
  <1> SUFFICES ASSUME AgentInv, [AgentNext]_agentVars PROVE AgentInv'
    BY Zenon
  <1>t. AgentTypes /\ ResolvesLocked /\ foreign \in Nat /\ madeLate \in Nat
    BY Zenon DEF AgentInv, AgentTypes
  <1>f. /\ Cardinality(agents) \in Nat
        /\ \A id : IsFiniteSet(agents \cup {id}) /\ Cardinality(agents \cup {id}) <= Cardinality(agents) + 1
                   /\ Cardinality(agents \cup {id}) \in Nat
        /\ \A id : IsFiniteSet(agents \ {id}) /\ Cardinality(agents \ {id}) <= Cardinality(agents)
                   /\ Cardinality(agents \ {id}) \in Nat
        /\ agents = {} => Cardinality(agents) = 0
    BY Zenon, <1>t, AgentFacts
  <1>1. ASSUME NEW c \in Callers, create_agent(c)
        PROVE  AgentInv'
    <2>1. /\ at' \in [Callers -> Resolving \cup {"resolve", "wait", "post", "ok", "failed"}] /\ ResolvesLocked'
          /\ \A d \in Callers \ {c} : at'[d] = at[d]
          /\ at'[c] = "create" => at[c] = "lookup"
      BY <1>1, <1>t, LockStep DEF AgentCall
    <2>2. at[c] = "create" /\ agents' = agents \cup {born'} /\ UNCHANGED <<foreign, madeLate>>
      BY Zenon, <1>1 DEF create_agent
    <2>3. OneAgent' /\ IsFiniteSet(agents')
      <3>1. /\ IsFiniteSet(agents') /\ Cardinality(agents') <= Cardinality(agents) + 1
            /\ Cardinality(agents') \in Nat
        BY Zenon, <1>f, <2>2
      <3>2. Cardinality(agents) <= foreign + madeLate
        BY Zenon, <2>2 DEF AgentInv, CreatesFirst
      <3> QED  BY <1>f, <1>t, <2>2, <3>1, <3>2 DEF OneAgent
    <2>4. CreatesFirst'
      <3>1. \A d \in Callers \ {c} : at[d] # "create"
        BY Zenon, <2>2 DEF AgentInv, ResolvesLocked, Resolving
      <3> QED  BY Zenon, <2>1, <2>2, <3>1 DEF CreatesFirst
    <2> QED  BY Zenon, <1>t, <2>1, <2>2, <2>3, <2>4 DEF AgentInv, AgentTypes
  <1>2. ASSUME NEW c \in Callers, CallerStep(c)
        PROVE  AgentInv'
    <2>1. /\ at' \in [Callers -> Resolving \cup {"resolve", "wait", "post", "ok", "failed"}] /\ ResolvesLocked'
          /\ \A d \in Callers \ {c} : at'[d] = at[d]
          /\ at'[c] = "create" => agents = {}
      BY Zenon, <1>2, <1>t, LockStep DEF AgentCall, CallerStep
    <2>2. agents' = agents /\ UNCHANGED <<foreign, madeLate>>
      <3>1. CASE resolve_cached(c)
        BY Zenon, <3>1 DEF resolve_cached
      <3>2. CASE resolve_locked(c)
        BY Zenon, <3>2 DEF resolve_locked
      <3>3. CASE verify_cached(c)
        BY Zenon, <3>3 DEF verify_cached
      <3>4. CASE verify_gone(c)
        BY Zenon, <3>4 DEF verify_gone
      <3>5. CASE lookup_by_name(c)
        BY Zenon, <3>5 DEF lookup_by_name
      <3>6. CASE lookup_details(c)
        BY Zenon, <3>6 DEF lookup_details
      <3>7. CASE create_conflict(c)
        BY Zenon, <3>7 DEF create_conflict
      <3>8. CASE resolve_fails(c)
        BY Zenon, <3>8 DEF resolve_fails
      <3>9. CASE post_archival(c)
        BY Zenon, <3>9 DEF post_archival
      <3>10. CASE post_server_error(c)
        BY Zenon, <3>10 DEF post_server_error
      <3>11. CASE post_refused(c)
        BY Zenon, <3>11 DEF post_refused
      <3>12. CASE push_to_letta(c)
        BY Zenon, <3>12 DEF push_to_letta
      <3>13. CASE resolve_waits(c)
        BY Zenon, <3>13 DEF resolve_waits
      <3>14. CASE create_times_out(c)
        BY Zenon, <3>14 DEF create_times_out
      <3> QED  BY Zenon, <1>2, <3>1, <3>2, <3>3, <3>4, <3>5, <3>6, <3>7, <3>8, <3>9, <3>10, <3>11, <3>12, <3>13, <3>14
        DEF CallerStep
    <2>3. CreatesFirst'
      BY <1>f, <1>t, <2>1, <2>2 DEF AgentInv, CreatesFirst
    <2> QED  BY <1>t, <2>1, <2>2, <2>3 DEF AgentInv, AgentTypes, OneAgent
  <1>3. CASE interval_passes \/ AgentDrifts \/ UNCHANGED agentVars
    <2>1. UNCHANGED <<agents, foreign, madeLate, at, agentLock>>
      BY Zenon, <1>3 DEF interval_passes, AgentDrifts, agentVars
    <2> QED  BY Zenon, <2>1 DEF AgentInv, AgentTypes, ResolvesLocked, CreatesFirst, OneAgent
  <1>4. CASE AgentDeleted
    <2>1. UNCHANGED <<foreign, madeLate, at, agentLock>> /\ \E id : agents' = agents \ {id}
      BY Zenon, <1>4 DEF AgentDeleted
    <2>2. IsFiniteSet(agents') /\ Cardinality(agents') <= Cardinality(agents) /\ Cardinality(agents') \in Nat
      BY Zenon, <1>f, <2>1
    <2>3. AgentTypes' /\ ResolvesLocked'
      BY Zenon, <1>t, <2>1, <2>2 DEF AgentTypes, ResolvesLocked
    <2>4. CreatesFirst' /\ OneAgent'
      <3>1. CreatesFirst /\ OneAgent
        BY Zenon DEF AgentInv
      <3> QED  BY <1>f, <1>t, <2>1, <2>2, <3>1 DEF CreatesFirst, OneAgent
    <2> QED  BY Zenon, <2>3, <2>4 DEF AgentInv
  <1>5. CASE ForeignCreates
    <2>1. UNCHANGED <<at, agentLock, madeLate>> /\ foreign' = foreign + 1 /\ agents' = agents \cup {born'}
      BY Zenon, <1>5 DEF ForeignCreates
    <2>2. /\ IsFiniteSet(agents') /\ Cardinality(agents') <= Cardinality(agents) + 1
          /\ Cardinality(agents') \in Nat
      BY Zenon, <1>f, <2>1
    <2> QED  BY <1>f, <1>t, <2>1, <2>2 DEF AgentInv, AgentTypes, ResolvesLocked, CreatesFirst, OneAgent
  <1>7. CASE CreatedLate
    <2>1. CASE UNCHANGED <<agents, madeLate>>
      <3>1. UNCHANGED <<agents, madeLate, foreign, at, agentLock>>
        BY Zenon, <1>7, <2>1 DEF CreatedLate
      <3> QED  BY Zenon, <3>1 DEF AgentInv, AgentTypes, ResolvesLocked, CreatesFirst, OneAgent
    <2>2. CASE agents' = agents \cup {born'} /\ madeLate' = madeLate + 1
      <3>1. /\ IsFiniteSet(agents') /\ Cardinality(agents') <= Cardinality(agents) + 1
            /\ Cardinality(agents') \in Nat
        BY Zenon, <1>f, <2>2
      <3>2. UNCHANGED <<at, agentLock, foreign>>
        BY Zenon, <1>7 DEF CreatedLate
      <3> QED  BY <1>f, <1>t, <2>2, <3>1, <3>2 DEF AgentInv, AgentTypes, ResolvesLocked, CreatesFirst, OneAgent
    <2> QED  BY Zenon, <1>7, <2>1, <2>2 DEF CreatedLate
  <1>6. ASSUME NEW c \in Callers, AgentCall(c) PROVE create_agent(c) \/ CallerStep(c)
    BY <1>6 DEF AgentCall, CallerStep
  <1> QED  BY Zenon, <1>1, <1>2, <1>3, <1>4, <1>5, <1>6, <1>7 DEF AgentNext

\* However many pushes resolve the agent at once, lose answers and retry, the session has one
\* agent besides those that other processes made and those the server made of requests whose caller
\* had given up: letta_agent_lock spans the lookup and the create.
THEOREM SessionHasOneAgent ==
    ASSUME "free" \notin Callers
    PROVE  AgentSpec => []OneAgent
  <1>1. AgentInit => AgentInv
    <2> SUFFICES ASSUME AgentInit PROVE AgentInv
      BY Zenon
    <2>1. agents = {} /\ foreign = 0 /\ madeLate = 0 /\ at = [c \in Callers |-> "resolve"]
      BY Zenon DEF AgentInit
    <2>2. IsFiniteSet(agents) /\ Cardinality(agents) = 0
      BY <2>1, FS_EmptySet
    <2> QED  BY <2>1, <2>2 DEF AgentInv, AgentTypes, ResolvesLocked, CreatesFirst, OneAgent, Resolving
  <1>2. AgentInv => OneAgent
    BY Zenon DEF AgentInv
  <1>3. AgentInv /\ [AgentNext]_agentVars => AgentInv'
    BY AgentStep
  <1> QED  BY <1>1, <1>2, <1>3, PTL DEF AgentSpec

-----------------------------------------------------------------------------
(* The second post of a push *)

PushTypes ==
    /\ at \in [Callers -> Resolving \cup {"resolve", "wait", "post", "ok", "failed"}]
    /\ DOMAIN aid = Callers /\ again \in [Callers -> BOOLEAN] /\ verified \in BOOLEAN
    /\ stored \in [Callers -> Nat] /\ seen \in [Callers -> Nat] /\ drifts \in Nat

\* A push under way has stored nothing before its first error, and at most one entry after it.
StoresOnce(c) ==
    /\ stored[c] <= 2 /\ (at[c] = "ok" => stored[c] >= 1)
    /\ at[c] \notin {"ok", "failed"} => stored[c] <= (IF again[c] THEN 1 ELSE 0)

\* Once the first post of a push has failed, the cached id counts as verified only after a repair:
\* an agent that is drifted then, drifted later.
RepairedSince(c) ==
    /\ seen[c] <= drifts
    /\ again[c] /\ at[c] = "post" /\ aid[c] \in drifted => drifts > seen[c]
    /\ again[c] /\ verified /\ idCache \in drifted => drifts > seen[c]

PushInv == PushTypes /\ \A c \in Callers : StoresOnce(c) /\ RepairedSince(c)

\* What a step of one caller does to the others: it may repair the agent, and a cached id that
\* counts as verified afterwards and is drifted was so before.
LEMMA PushFrame ==
    ASSUME PushTypes, NEW c \in Callers, AgentCall(c)
    PROVE  /\ PushTypes'
           /\ drifts' = drifts /\ drifted' \subseteq drifted
           /\ verified' /\ idCache' \in drifted' => verified /\ idCache \in drifted
           /\ \A d \in Callers \ {c} : /\ at'[d] = at[d] /\ aid'[d] = aid[d] /\ again'[d] = again[d]
                                       /\ stored'[d] = stored[d] /\ seen'[d] = seen[d]
  <1> USE DEF PushTypes, Resolving, MovesTo
  <1>1. CASE resolve_cached(c)
    BY Zenon, <1>1 DEF resolve_cached
  <1>2. CASE resolve_locked(c)
    BY Zenon, <1>2 DEF resolve_locked
  <1>3. CASE verify_cached(c)
    BY Zenon, <1>3 DEF verify_cached, Adopted
  <1>4. CASE verify_gone(c)
    BY Zenon, <1>4 DEF verify_gone
  <1>5. CASE lookup_by_name(c)
    BY Zenon, <1>5 DEF lookup_by_name
  <1>6. CASE lookup_details(c)
    <2>1. CASE aid[c] \in agents /\ Adopted(c, aid[c])
      BY Zenon, <1>6, <2>1 DEF lookup_details, Adopted
    <2>2. CASE MovesTo(c, "failed") /\ UNCHANGED <<drifted, idCache, verified, aid>>
      BY Zenon, <1>6, <2>2 DEF lookup_details
    <2> QED  BY Zenon, <1>6, <2>1, <2>2 DEF lookup_details
  <1>7. CASE create_agent(c)
    <2>1. CASE Adopted(c, born')
      BY Zenon, <1>7, <2>1 DEF create_agent, Adopted
    <2>2. CASE MovesTo(c, "failed") /\ UNCHANGED <<drifted, idCache, verified, aid>>
      BY Zenon, <1>7, <2>2 DEF create_agent
    <2> QED  BY Zenon, <1>7, <2>1, <2>2 DEF create_agent
  <1>8. CASE create_conflict(c)
    BY Zenon, <1>8 DEF create_conflict
  <1>9. CASE resolve_fails(c)
    BY Zenon, <1>9 DEF resolve_fails
  <1>10. CASE post_archival(c)
    BY <1>10 DEF post_archival
  <1>11. CASE post_server_error(c)
    <2>1. /\ stored' \in {stored, [stored EXCEPT ![c] = @ + 1]} /\ UNCHANGED <<drifted, idCache, aid, drifts>>
          /\ ServerError(c)
      BY Zenon, <1>11 DEF post_server_error
    <2>2. /\ stored' \in [Callers -> Nat]
          /\ \A d \in Callers \ {c} : stored'[d] = stored[d]
      BY <2>1
    <2>3. CASE again[c]
      BY Zenon, <2>1, <2>2, <2>3 DEF ServerError
    <2>4. CASE ~again[c]
      BY <2>1, <2>2, <2>4 DEF ServerError
    <2> QED  BY Zenon, <2>3, <2>4
  <1>12. CASE post_refused(c)
    BY <1>12 DEF post_refused
  <1>13. CASE push_to_letta(c)
    BY Zenon, <1>13 DEF push_to_letta
  <1>14. CASE resolve_waits(c)
    BY Zenon, <1>14 DEF resolve_waits
  <1>15. CASE create_times_out(c)
    BY Zenon, <1>15 DEF create_times_out
  <1> QED  BY Zenon, <1>1, <1>2, <1>3, <1>4, <1>5, <1>6, <1>7, <1>8, <1>9, <1>10, <1>11, <1>12, <1>13, <1>14, <1>15
    DEF AgentCall

\* A caller's own step stores a message at most once per post, and posts again only after a repair.
LEMMA OwnPush ==
    ASSUME PushTypes, NEW c \in Callers, AgentCall(c), StoresOnce(c), RepairedSince(c)
    PROVE  StoresOnce(c)' /\ RepairedSince(c)'
  <1> USE DEF PushTypes, Resolving, MovesTo, StoresOnce, RepairedSince
  <1>1. CASE resolve_cached(c)
    BY Zenon, <1>1 DEF resolve_cached
  <1>2. CASE resolve_locked(c)
    BY Zenon, <1>2 DEF resolve_locked
  <1>3. CASE verify_cached(c)
    BY Zenon, <1>3 DEF verify_cached, Adopted
  <1>4. CASE verify_gone(c)
    BY <1>4 DEF verify_gone
  <1>5. CASE lookup_by_name(c)
    BY Zenon, <1>5 DEF lookup_by_name
  <1>6. CASE lookup_details(c)
    BY <1>6 DEF lookup_details, Adopted
  <1>7. CASE create_agent(c)
    BY <1>7 DEF create_agent, Adopted
  <1>8. CASE create_conflict(c)
    BY Zenon, <1>8 DEF create_conflict
  <1>9. CASE resolve_fails(c)
    BY Zenon, <1>9 DEF resolve_fails
  <1>10. CASE post_archival(c)
    BY <1>10 DEF post_archival
  <1>11. CASE post_server_error(c)
    BY <1>11 DEF post_server_error, ServerError
  <1>12. CASE post_refused(c)
    BY <1>12 DEF post_refused
  <1>13. CASE push_to_letta(c)
    BY <1>13 DEF push_to_letta
  <1>14. CASE resolve_waits(c)
    BY Zenon, <1>14 DEF resolve_waits
  <1>15. CASE create_times_out(c)
    BY Zenon, <1>15 DEF create_times_out
  <1> QED  BY Zenon, <1>1, <1>2, <1>3, <1>4, <1>5, <1>6, <1>7, <1>8, <1>9, <1>10, <1>11, <1>12, <1>13, <1>14, <1>15
    DEF AgentCall

\* Every step keeps that for all callers.
LEMMA PushStep ==
    PushInv /\ [AgentNext]_agentVars => PushInv'
  <1> SUFFICES ASSUME PushInv, [AgentNext]_agentVars PROVE PushInv'
    BY Zenon
  <1>t. PushTypes /\ \A c \in Callers : StoresOnce(c) /\ RepairedSince(c)
    BY Zenon DEF PushInv
  <1>1. ASSUME NEW c \in Callers, AgentCall(c) PROVE PushInv'
    <2>1. /\ PushTypes'
          /\ drifts' = drifts /\ drifted' \subseteq drifted
          /\ verified' /\ idCache' \in drifted' => verified /\ idCache \in drifted
          /\ \A d \in Callers \ {c} : /\ at'[d] = at[d] /\ aid'[d] = aid[d] /\ again'[d] = again[d]
                                      /\ stored'[d] = stored[d] /\ seen'[d] = seen[d]
      BY Zenon, <1>1, <1>t, PushFrame
    <2>2. StoresOnce(c)' /\ RepairedSince(c)'
      BY <1>1, <1>t, OwnPush
    <2>3. ASSUME NEW d \in Callers \ {c} PROVE StoresOnce(d)' /\ RepairedSince(d)'
      BY Zenon, <1>t, <2>1 DEF StoresOnce, RepairedSince
    <2> QED  BY Zenon, <2>1, <2>2, <2>3 DEF PushInv
  <1>2. CASE interval_passes \/ ForeignCreates \/ CreatedLate \/ UNCHANGED agentVars
    <2>1. /\ UNCHANGED <<drifted, idCache, at, aid, again, stored, seen, drifts>>
          /\ verified' = FALSE \/ verified' = verified
      <3>1. CASE interval_passes
        BY Zenon, <3>1 DEF interval_passes
      <3>2. CASE ForeignCreates
        BY Zenon, <3>2 DEF ForeignCreates
      <3>3. CASE UNCHANGED agentVars
        BY Zenon, <3>3 DEF agentVars
      <3>4. CASE CreatedLate
        BY Zenon, <3>4 DEF CreatedLate
      <3> QED  BY Zenon, <1>2, <3>1, <3>2, <3>3, <3>4
    <2>2. PushTypes'
      BY Zenon, <1>t, <2>1 DEF PushTypes
    <2>3. ASSUME NEW c \in Callers PROVE StoresOnce(c)' /\ RepairedSince(c)'
      BY <1>t, <2>1 DEF StoresOnce, RepairedSince
    <2> QED  BY Zenon, <2>2, <2>3 DEF PushInv
  <1>3. CASE AgentDrifts
    <2>1. drifts' = drifts + 1 /\ UNCHANGED <<idCache, verified, at, aid, again, stored, seen>>
      BY Zenon, <1>3 DEF AgentDrifts
    <2>2. PushTypes'
      BY <1>t, <2>1 DEF PushTypes
    <2>3. ASSUME NEW c \in Callers PROVE StoresOnce(c)' /\ RepairedSince(c)'
      <3>1. seen[c] \in Nat /\ drifts \in Nat /\ seen[c] <= drifts
        BY <1>t DEF PushTypes, RepairedSince
      <3>2. seen'[c] <= drifts' /\ drifts' > seen'[c]
        BY <2>1, <3>1
      <3> QED  BY Zenon, <1>t, <2>1, <3>2 DEF StoresOnce, RepairedSince
    <2> QED  BY Zenon, <2>2, <2>3 DEF PushInv
  <1>4. CASE AgentDeleted
    <2>1. /\ UNCHANGED <<idCache, verified, at, aid, again, stored, seen, drifts>>
          /\ drifted' \subseteq drifted
      BY <1>4 DEF AgentDeleted
    <2>2. PushTypes'
      BY Zenon, <1>t, <2>1 DEF PushTypes
    <2>3. ASSUME NEW c \in Callers PROVE StoresOnce(c)' /\ RepairedSince(c)'
      BY Zenon, <1>t, <2>1 DEF StoresOnce, RepairedSince
    <2> QED  BY Zenon, <2>2, <2>3 DEF PushInv
  <1> QED  BY Zenon, <1>1, <1>2, <1>3, <1>4 DEF AgentNext

\* A push that succeeds is stored, no push stores more than two entries, and its second post goes
\* to an agent that was repaired after the first one failed, whatever other callers do in between.
THEOREM RetryIsRepaired ==
    AgentSpec => []SecondPostRepaired
  <1>1. AgentInit => PushInv
    <2> SUFFICES ASSUME AgentInit PROVE PushInv
      BY Zenon
    <2>1. PushTypes
      BY Zenon DEF AgentInit, PushTypes, Resolving
    <2>2. ASSUME NEW c \in Callers PROVE StoresOnce(c) /\ RepairedSince(c)
      BY DEF AgentInit, StoresOnce, RepairedSince
    <2> QED  BY <2>1, <2>2 DEF PushInv
  <1>2. PushInv => SecondPostRepaired
    BY DEF PushInv, StoresOnce, RepairedSince, SecondPostRepaired
  <1>3. PushInv /\ [AgentNext]_agentVars => PushInv'
    BY PushStep
  <1> QED  BY <1>1, <1>2, <1>3, PTL DEF AgentSpec
=============================================================================

------------------------- MODULE MemoryGraph_proofs -------------------------
(***************************************************************************)
(* Proofs, for every set of ids, kinds and sessions and every bound, of    *)
(* the invariants and action properties of MemoryGraph.                    *)
(***************************************************************************)
EXTENDS MemoryGraph, TLAPS

-----------------------------------------------------------------------------
(***************************************************************************)
(* Lemmas about the operators the actions are built from                   *)
(***************************************************************************)

\* A new row is a row, whatever status the caller starts it with.
LEMMA NewRowType ==
  ASSUME NEW kind \in AllKinds, NEW status \in AllStatuses,
         NEW session \in Sessions \cup {NoSession},
         NEW cites \in {"none", "current", "changed"}
  PROVE  NewRow(kind, status, session, cites) \in Row
BY DEF NewRow, Row

\* Rewriting one column keeps a row a row, and the other columns as they were.
LEMMA RowUpdateType ==
  ASSUME NEW row \in Row
  PROVE  /\ \A st \in AllStatuses : [row EXCEPT !.status = st] \in Row
         /\ [row EXCEPT !.keywords = TRUE] \in Row
         /\ [row EXCEPT !.aged = TRUE] \in Row
         /\ \A c \in {"none", "current", "changed"} : [row EXCEPT !.cites = c] \in Row
BY DEF Row

\* What an update of one column leaves of kind and status.
LEMMA RowUpdateKeeps ==
  ASSUME NEW row \in Row, NEW v
  PROVE  /\ [row EXCEPT !.status = v].kind = row.kind
         /\ [row EXCEPT !.status = v].status = v
         /\ [row EXCEPT !.keywords = v].kind = row.kind
         /\ [row EXCEPT !.keywords = v].status = row.status
         /\ [row EXCEPT !.aged = v].kind = row.kind
         /\ [row EXCEPT !.aged = v].status = row.status
         /\ [row EXCEPT !.cites = v].kind = row.kind
         /\ [row EXCEPT !.cites = v].status = row.status
BY DEF Row

\* The status a kind starts with is a status.
LEMMA StatusAtBirthType ==
  ASSUME NEW kind \in AllKinds
  PROVE  StatusAtBirth(kind) \in AllStatuses
BY DEF StatusAtBirth, AllStatuses

\* The table a consolidation inserts its learnings into is a table.
LEMMA WithLearningsType ==
  ASSUME TypeOK, NEW session \in Sessions, NEW learnings \in Learnings
  PROVE  WithLearnings(session, learnings) \in [Ids -> Row \cup {NoRow}]
<1>1. PICK new \in SUBSET Ids : learnings \in [new -> Kinds]
  BY DEF Learnings
<1>2. \A i \in DOMAIN learnings :
        NewRow(learnings[i], "active", session, "none") \in Row
  BY <1>1, NewRowType, KindsAssumption DEF AllStatuses
<1>3. QED
  BY <1>2 DEF WithLearnings, TypeOK

\* Deleting rows from a well-formed table leaves well-formed tables.
LEMMA DeleteRowsType ==
  ASSUME TypeOK, NEW table \in [Ids -> Row \cup {NoRow}], NEW gone \in SUBSET Ids,
         DeleteRows(table, gone)
  PROVE  TypeOK'
BY DEF DeleteRows, ReviewsWithout, EdgesWithout, TypeOK

-----------------------------------------------------------------------------
(***************************************************************************)
(* Type correctness                                                        *)
(***************************************************************************)

\* Every step of Next keeps the tables well formed.
LEMMA TypeStep == TypeOK /\ [Next]_vars => TypeOK'
<1> SUFFICES ASSUME TypeOK, [Next]_vars
             PROVE  TypeOK'
  OBVIOUS
<1>1. ASSUME NEW id \in Ids, NEW kind \in Kinds,
             NEW session \in Sessions \cup {NoSession},
             NEW target \in Ids \cup {NoId}, NEW cites \in CitesAtBirth,
             RecordMemory(id, kind, session, target, cites)
      PROVE  TypeOK'
  <2>1. NewRow(kind, StatusAtBirth(kind), session, cites) \in Row
    BY NewRowType, StatusAtBirthType, KindsAssumption, CitesAssumption
  <2>2. \A i \in Ids : mem[i] # NoRow => [mem[i] EXCEPT !.status = "superseded"] \in Row
    BY RowUpdateType DEF TypeOK, AllStatuses
  <2>3. target \in Ids => mem[target] # NoRow
    BY <1>1, NullsAssumption DEF RecordMemory, IdIsFree, EdgesAtBirth
  <2>4. mem' \in [Ids -> Row \cup {NoRow}]
    BY <1>1, <2>1, <2>2, <2>3 DEF RecordMemory, IdIsFree, EdgesAtBirth, TypeOK
  <2>5. relations' \subseteq Ids \X Ids \X AllTypes
    BY <1>1 DEF RecordMemory, IdIsFree, EdgesAtBirth, TypeOK, AllTypes
  <2>6. QED
    BY <1>1, <2>4, <2>5 DEF RecordMemory, IdIsFree, EdgesAtBirth, TypeOK
<1>2. ASSUME NEW source \in Ids, NEW target \in Ids, NEW type \in LinkTypes,
             LinkEntities(source, target, type)
      PROVE  TypeOK'
  BY <1>2, LinkTypesAssumption DEF LinkEntities, TypeOK
<1>3. ASSUME NEW id \in Ids, ResolveMemory(id)
      PROVE  TypeOK'
  BY <1>3, RowUpdateType DEF ResolveMemory, TypeOK, AllStatuses
<1>4. ASSUME NEW session \in Sessions, NEW learnings \in Learnings, NEW purge \in BOOLEAN,
             ConsolidateSession(session, learnings, purge)
      PROVE  TypeOK'
  <2> DEFINE table   == WithLearnings(session, learnings)
             scratch == ScratchOf(table, session)
  <2>1. table \in [Ids -> Row \cup {NoRow}]
    BY WithLearningsType
  <2>2. /\ scratch \in SUBSET Ids
        /\ \A i \in scratch : table[i] # NoRow
    BY DEF ScratchOf
  <2>3. CASE DeleteRows(table, scratch)
    BY <2>1, <2>2, <2>3, DeleteRowsType
  <2>4. CASE /\ mem' = [i \in Ids |-> IF i \in scratch
                                      THEN [table[i] EXCEPT !.status = "resolved"]
                                      ELSE table[i]]
             /\ UNCHANGED <<relations, reviewed, swept>>
    <3>1. \A i \in scratch : [table[i] EXCEPT !.status = "resolved"] \in Row
      BY <2>1, <2>2, RowUpdateType DEF AllStatuses
    <3>2. mem' \in [Ids -> Row \cup {NoRow}]
      BY <2>1, <2>4, <3>1
    <3>3. QED
      BY <2>4, <3>2 DEF TypeOK
  <2>5. QED
    BY <1>4, <2>3, <2>4 DEF ConsolidateSession
<1>5. ASSUME PurgeExpiredEphemeral
      PROVE  TypeOK'
  BY <1>5, DeleteRowsType DEF PurgeExpiredEphemeral, Expired, Stored, TypeOK
<1>6. ASSUME NEW id \in Ids, Age(id)
      PROVE  TypeOK'
  BY <1>6, RowUpdateType DEF Age, TypeOK
<1>7. ASSUME NEW id \in Ids, SetKeywords(id)
      PROVE  TypeOK'
  BY <1>7, RowUpdateType DEF SetKeywords, TypeOK
<1>8. ASSUME NEW pair \in Pairs, MarkPairReviewed(pair)
      PROVE  TypeOK'
  BY <1>8 DEF MarkPairReviewed, TypeOK
<1>9. ASSUME NEW id \in Ids, ConfirmMemory(id)
      PROVE  TypeOK'
  BY <1>9, RowUpdateType DEF ConfirmMemory, TypeOK
<1>10. ASSUME NEW id \in Ids, EditCitedFile(id)
       PROVE  TypeOK'
  BY <1>10, RowUpdateType DEF EditCitedFile, TypeOK
<1>11. CASE UNCHANGED vars
  BY <1>11 DEF vars, TypeOK
<1>12. QED
  BY <1>1, <1>2, <1>3, <1>4, <1>5, <1>6, <1>7, <1>8, <1>9, <1>10, <1>11
     DEF Next, AgentNext, UpkeepNext

\* The tables of the database are always well formed.
THEOREM TypeCorrect == Spec => []TypeOK
<1>1. Init => TypeOK
  BY DEF Init, TypeOK
<1>2. QED
  BY <1>1, TypeStep, PTL DEF Spec

-----------------------------------------------------------------------------
(***************************************************************************)
(* What one step may do to a row                                           *)
(***************************************************************************)

\* A step keeps the kind of a row and moves its status only to `superseded` or
\* `resolved`; it deletes only scratch; and a row starts with a status that
\* separates scratch from the rest, never superseded, and with a kind people record.
RowStep(i) ==
  /\ mem[i] # NoRow /\ mem'[i] # NoRow =>
       /\ mem'[i].kind = mem[i].kind
       /\ mem'[i].status \in {mem[i].status, "superseded", "resolved"}
  /\ mem[i] # NoRow /\ mem'[i] = NoRow => IsScratch(mem[i])
  /\ mem[i] = NoRow /\ mem'[i] # NoRow =>
       /\ mem'[i].kind = "ephemeral" => mem'[i].status # "active"
       /\ mem'[i].status = "ephemeral" => mem'[i].kind = "ephemeral"
       /\ mem'[i].status # "superseded"
       /\ mem'[i].kind \in Kinds

\* Every step of Next is a RowStep for every id.
LEMMA StepsAreRowSteps ==
  ASSUME TypeOK, [Next]_vars, NEW i \in Ids
  PROVE  RowStep(i)
<1> USE DEF RowStep
<1>1. ASSUME NEW id \in Ids, NEW kind \in Kinds,
             NEW session \in Sessions \cup {NoSession},
             NEW target \in Ids \cup {NoId}, NEW cites \in CitesAtBirth,
             RecordMemory(id, kind, session, target, cites)
      PROVE  RowStep(i)
  <2>1. CASE i = id
    BY <1>1, <2>1 DEF RecordMemory, IdIsFree, EdgesAtBirth, NewRow, StatusAtBirth
  <2>2. CASE i # id /\ i = target
    <3>1. mem[i] # NoRow /\ mem'[i] = [mem[i] EXCEPT !.status = "superseded"]
      BY <1>1, <2>2, NullsAssumption DEF RecordMemory, IdIsFree, EdgesAtBirth
    <3>2. mem'[i] \in Row
      BY <3>1, RowUpdateType DEF TypeOK, AllStatuses
    <3>3. mem[i] \in Row
      BY <3>1 DEF TypeOK
    <3>4. mem'[i].kind = mem[i].kind /\ mem'[i].status = "superseded"
      BY <3>1, <3>3 DEF Row
    <3>5. QED
      BY <3>1, <3>2, <3>4, NoRowAssumption
  <2>3. CASE i # id /\ i # target
    BY <1>1, <2>3 DEF RecordMemory, IdIsFree, EdgesAtBirth
  <2>4. QED
    BY <2>1, <2>2, <2>3
<1>2. ASSUME NEW source \in Ids, NEW target \in Ids, NEW type \in LinkTypes,
             LinkEntities(source, target, type)
      PROVE  RowStep(i)
  BY <1>2 DEF LinkEntities
<1>3. ASSUME NEW id \in Ids, ResolveMemory(id)
      PROVE  RowStep(i)
  <2>1. CASE i = id
    <3>1. mem[i] \in Row
      BY <1>3, <2>1 DEF ResolveMemory, TypeOK
    <3>2. mem'[i] = [mem[i] EXCEPT !.status = "resolved"]
      BY <1>3, <2>1 DEF ResolveMemory, TypeOK
    <3>3. mem'[i] # NoRow
      BY <3>1, <3>2, NoRowAssumption DEF Row, AllStatuses
    <3>4. QED
      BY <3>1, <3>2, <3>3, RowUpdateKeeps, NoRowAssumption
  <2>2. CASE i # id
    BY <1>3, <2>2 DEF ResolveMemory, TypeOK
  <2>3. QED
    BY <2>1, <2>2
<1>4. ASSUME NEW session \in Sessions, NEW learnings \in Learnings, NEW purge \in BOOLEAN,
             ConsolidateSession(session, learnings, purge)
      PROVE  RowStep(i)
  <2> DEFINE table   == WithLearnings(session, learnings)
             scratch == ScratchOf(table, session)
  <2>1. /\ table[i] \in Row \cup {NoRow}
        /\ i \in DOMAIN learnings =>
             /\ mem[i] = NoRow
             /\ NewRow(learnings[i], "active", session, "none").kind \in Kinds
             /\ table[i] = NewRow(learnings[i], "active", session, "none")
             /\ table[i] \in Row
        /\ i \notin DOMAIN learnings => table[i] = mem[i]
    <3>1. PICK new \in SUBSET Ids : learnings \in [new -> Kinds]
      BY DEF Learnings
    <3>2. i \in DOMAIN learnings => NewRow(learnings[i], "active", session, "none") \in Row
      BY <3>1, NewRowType, KindsAssumption DEF AllStatuses
    <3>3. i \in DOMAIN learnings =>
            NewRow(learnings[i], "active", session, "none").kind \in Kinds
      BY <3>1 DEF NewRow
    <3>4. QED
      BY <1>4, <3>2, <3>3, WithLearningsType DEF ConsolidateSession, WithLearnings
  <2>2. CASE i \in scratch
    <3>1. table[i] # NoRow /\ IsScratch(table[i]) /\ table[i] \in Row
      BY <2>1, <2>2 DEF ScratchOf
    <3>2. \/ mem'[i] = NoRow
          \/ mem'[i] = [table[i] EXCEPT !.status = "resolved"]
      BY <1>4, <2>2 DEF ConsolidateSession, DeleteRows, ReviewsWithout
    <3>3. [table[i] EXCEPT !.status = "resolved"] \in Row
      BY <3>1, RowUpdateType DEF AllStatuses
    <3>4. /\ [table[i] EXCEPT !.status = "resolved"].kind = table[i].kind
          /\ [table[i] EXCEPT !.status = "resolved"].status = "resolved"
      BY <3>1 DEF Row
    <3>5. QED
      BY <2>1, <3>1, <3>2, <3>3, <3>4, NoRowAssumption
  <2>3. CASE i \notin scratch
    <3>1. mem'[i] = table[i]
      BY <1>4, <2>3 DEF ConsolidateSession, DeleteRows, ReviewsWithout
    <3>2. i \in DOMAIN learnings => /\ table[i].session = session
                                    /\ table[i].status = "active"
                                    /\ table[i].kind \in Kinds
      BY <2>1 DEF NewRow
    <3>3. i \in DOMAIN learnings => table[i].kind # "ephemeral"
      BY <2>1, <2>3, <3>2, NoRowAssumption DEF ScratchOf, IsScratch
    <3>4. QED
      BY <2>1, <3>1, <3>2, <3>3
  <2>4. QED
    BY <2>2, <2>3
<1>5. ASSUME PurgeExpiredEphemeral
      PROVE  RowStep(i)
  BY <1>5 DEF PurgeExpiredEphemeral, DeleteRows, ReviewsWithout, Expired
<1>6. ASSUME NEW id \in Ids, Age(id)
      PROVE  RowStep(i)
  <2>1. CASE i = id
    <3>1. mem[i] \in Row
      BY <1>6, <2>1 DEF Age, TypeOK
    <3>2. mem'[i] = [mem[i] EXCEPT !.aged = TRUE]
      BY <1>6, <2>1 DEF Age, TypeOK
    <3>3. mem'[i] # NoRow
      BY <3>1, <3>2, NoRowAssumption DEF Row, AllStatuses
    <3>4. QED
      BY <3>1, <3>2, <3>3, RowUpdateKeeps, NoRowAssumption
  <2>2. CASE i # id
    BY <1>6, <2>2 DEF Age, TypeOK
  <2>3. QED
    BY <2>1, <2>2
<1>7. ASSUME NEW id \in Ids, SetKeywords(id)
      PROVE  RowStep(i)
  <2>1. CASE i = id
    <3>1. mem[i] \in Row
      BY <1>7, <2>1 DEF SetKeywords, TypeOK
    <3>2. mem'[i] = [mem[i] EXCEPT !.keywords = TRUE]
      BY <1>7, <2>1 DEF SetKeywords, TypeOK
    <3>3. mem'[i] # NoRow
      BY <3>1, <3>2, NoRowAssumption DEF Row, AllStatuses
    <3>4. QED
      BY <3>1, <3>2, <3>3, RowUpdateKeeps, NoRowAssumption
  <2>2. CASE i # id
    BY <1>7, <2>2 DEF SetKeywords, TypeOK
  <2>3. QED
    BY <2>1, <2>2
<1>8. ASSUME NEW pair \in Pairs, MarkPairReviewed(pair)
      PROVE  RowStep(i)
  BY <1>8 DEF MarkPairReviewed
<1>9. ASSUME NEW id \in Ids, ConfirmMemory(id)
      PROVE  RowStep(i)
  <2>1. CASE i = id
    <3>1. mem[i] \in Row
      BY <1>9, <2>1 DEF ConfirmMemory, TypeOK
    <3>2. mem'[i] = [mem[i] EXCEPT !.cites = "current"]
      BY <1>9, <2>1 DEF ConfirmMemory, TypeOK
    <3>3. mem'[i] # NoRow
      BY <3>1, <3>2, NoRowAssumption DEF Row, AllStatuses
    <3>4. QED
      BY <3>1, <3>2, <3>3, RowUpdateKeeps, NoRowAssumption
  <2>2. CASE i # id
    BY <1>9, <2>2 DEF ConfirmMemory, TypeOK
  <2>3. QED
    BY <2>1, <2>2
<1>10. ASSUME NEW id \in Ids, EditCitedFile(id)
       PROVE  RowStep(i)
  <2>1. CASE i = id
    <3>1. mem[i] \in Row
      BY <1>10, <2>1 DEF EditCitedFile, TypeOK
    <3>2. mem'[i] = [mem[i] EXCEPT !.cites = IF mem[i].cites = "current" THEN "changed" ELSE "current"]
      BY <1>10, <2>1 DEF EditCitedFile, TypeOK
    <3>3. mem'[i] # NoRow
      BY <3>1, <3>2, NoRowAssumption DEF Row, AllStatuses
    <3>4. QED
      BY <3>1, <3>2, <3>3, RowUpdateKeeps, NoRowAssumption
  <2>2. CASE i # id
    BY <1>10, <2>2 DEF EditCitedFile, TypeOK
  <2>3. QED
    BY <2>1, <2>2
<1>11. CASE UNCHANGED vars
  BY <1>11 DEF vars
<1>12. QED
  BY <1>1, <1>2, <1>3, <1>4, <1>5, <1>6, <1>7, <1>8, <1>9, <1>10, <1>11
     DEF Next, AgentNext, UpkeepNext

\* Every stored row has a kind somebody records, ...
KindsKnown == \A i \in Stored : mem[i].kind \in Kinds

\* ... and steps keep it so.
LEMMA KindStep ==
  ASSUME TypeOK, KindsKnown, [Next]_vars
  PROVE  KindsKnown'
<1> SUFFICES ASSUME NEW i \in Ids, mem'[i] # NoRow
             PROVE  mem'[i].kind \in Kinds
  BY DEF KindsKnown, Stored
<1>1. RowStep(i)
  BY StepsAreRowSteps
<1>2. QED
  BY <1>1 DEF RowStep, KindsKnown, Stored

-----------------------------------------------------------------------------
(***************************************************************************)
(* What one step may do to edges and reviews                               *)
(***************************************************************************)

\* A step drops edges and reviews only with a row they name; what remains names
\* stored rows; a row that turns superseded has its superseder's edge; and a row
\* that loses a superseder is remembered as swept.
EdgeStep ==
  /\ \A e \in relations \ relations' : e[1] \in Lost \/ e[2] \in Lost
  /\ \A p \in reviewed \ reviewed' : p \cap Lost # {}
  /\ NoDanglingReferences'
  /\ \A t \in Ids : /\ mem[t] # NoRow /\ mem[t].status # "superseded"
                    /\ mem'[t] # NoRow /\ mem'[t].status = "superseded"
                    => \E s \in Ids : mem'[s] # NoRow /\ Supersedes(s, t)'
  /\ \A t \in Ids : /\ mem'[t] # NoRow
                    /\ t \in swept \/ \E s \in Lost : Supersedes(s, t)
                    => t \in swept'

\* A step that loses no row and no edge is an EdgeStep if what it adds names rows.
LEMMA GrowthIsEdgeStep ==
  ASSUME NoDanglingReferences,
         \A i \in Stored : mem'[i] # NoRow,
         relations \subseteq relations', reviewed \subseteq reviewed', swept' = swept,
         \A e \in relations' \ relations : e[1] \in Stored' /\ e[2] \in Stored',
         \A p \in reviewed' \ reviewed : p \subseteq Stored',
         \A t \in Stored : /\ mem[t].status # "superseded"
                           /\ mem'[t].status = "superseded"
                           => \E s \in Ids : mem'[s] # NoRow /\ Supersedes(s, t)'
  PROVE  EdgeStep
<1>1. Lost = {} /\ Stored \subseteq Stored'
  BY DEF Lost, Stored
<1>2. NoDanglingReferences'
  BY <1>1 DEF NoDanglingReferences
<1>3. QED
  BY <1>1, <1>2 DEF EdgeStep, Stored

\* DELETE with its cascades is an EdgeStep, also right after inserting new rows.
LEMMA DeleteRowsIsEdgeStep ==
  ASSUME TypeOK, NoDanglingReferences,
         NEW table, NEW gone \in SUBSET Ids,
         \A i \in Stored : table[i] = mem[i],
         DeleteRows(table, gone)
  PROVE  EdgeStep
<1>1. /\ Lost = gone \cap Stored
      /\ \A i \in Stored \ gone : mem'[i] = mem[i]
  BY DEF DeleteRows, ReviewsWithout, Lost, Stored
<1>2. \A e \in relations \ relations' : e[1] \in Lost \/ e[2] \in Lost
  BY <1>1 DEF DeleteRows, ReviewsWithout, EdgesWithout, NoDanglingReferences
<1>3. \A p \in reviewed \ reviewed' : p \cap Lost # {}
  BY <1>1 DEF DeleteRows, ReviewsWithout, NoDanglingReferences
<1>4. NoDanglingReferences'
  <2>1. \A e \in relations' : e[1] \in Stored \ gone /\ e[2] \in Stored \ gone
    BY DEF DeleteRows, ReviewsWithout, EdgesWithout, NoDanglingReferences
  <2>2. \A p \in reviewed' : p \subseteq Stored \ gone
    BY DEF DeleteRows, ReviewsWithout, NoDanglingReferences
  <2>3. Stored \ gone \subseteq Stored'
    BY <1>1 DEF Stored
  <2>4. QED
    BY <2>1, <2>2, <2>3 DEF NoDanglingReferences
<1>5. \A t \in Ids : mem'[t] # NoRow => t \notin gone
  BY DEF DeleteRows, ReviewsWithout
<1>6. \A t \in Ids : /\ mem'[t] # NoRow
                     /\ t \in swept \/ \E s \in Lost : Supersedes(s, t)
                     => t \in swept'
  BY <1>1, <1>5 DEF DeleteRows, ReviewsWithout
<1>7. QED
  BY <1>1, <1>2, <1>3, <1>4, <1>5, <1>6 DEF EdgeStep, Stored

\* Every step of Next is an EdgeStep.
LEMMA StepsAreEdgeSteps ==
  ASSUME TypeOK, NoDanglingReferences, [Next]_vars
  PROVE  EdgeStep
<1>1. ASSUME NEW id \in Ids, NEW kind \in Kinds,
             NEW session \in Sessions \cup {NoSession},
             NEW target \in Ids \cup {NoId}, NEW cites \in CitesAtBirth,
             RecordMemory(id, kind, session, target, cites)
      PROVE  EdgeStep
  <2>1. NewRow(kind, StatusAtBirth(kind), session, cites) # NoRow
    BY NewRowType, StatusAtBirthType, KindsAssumption, CitesAssumption, NoRowAssumption
  <2>2. \A i \in Stored : mem[i] \in Row /\ [mem[i] EXCEPT !.status = "superseded"] # NoRow
    BY NoRowAssumption DEF TypeOK, Stored, Row, AllStatuses
  <2>3. \A i \in Stored : mem'[i] # NoRow
    BY <1>1, <2>2 DEF RecordMemory, IdIsFree, EdgesAtBirth, Stored
  <2>4. mem'[id] # NoRow /\ id \notin Stored
    BY <1>1, <2>1 DEF RecordMemory, IdIsFree, EdgesAtBirth, Stored
  <2>5. \A e \in relations' \ relations : e = <<id, target, "supersedes">> /\ target # NoId
    BY <1>1 DEF RecordMemory, IdIsFree, EdgesAtBirth
  <2>6. target # NoId => target \in Stored
    BY <1>1, NullsAssumption DEF RecordMemory, IdIsFree, EdgesAtBirth, Stored
  <2>7. \A e \in relations' \ relations : e[1] \in Stored' /\ e[2] \in Stored'
    BY <2>3, <2>4, <2>5, <2>6 DEF Stored
  <2>8. ASSUME NEW t \in Stored, mem[t].status # "superseded", mem'[t].status = "superseded"
        PROVE  \E s \in Ids : mem'[s] # NoRow /\ Supersedes(s, t)'
    <3>1. t = target
      <4>1. t # target => mem'[t] = mem[t]
        BY <1>1, <2>4 DEF RecordMemory, IdIsFree, EdgesAtBirth, Stored
      <4>2. QED
        BY <2>8, <4>1
    <3>2. <<id, t, "supersedes">> \in relations'
      BY <1>1, <3>1, NullsAssumption DEF RecordMemory, IdIsFree, EdgesAtBirth, Stored
    <3>3. QED
      BY <2>4, <3>2 DEF Supersedes
  <2>9. /\ relations \subseteq relations'
        /\ reviewed' = reviewed
        /\ swept' = swept
    BY <1>1 DEF RecordMemory, IdIsFree, EdgesAtBirth
  <2>10. QED
    BY <2>3, <2>7, <2>8, <2>9, GrowthIsEdgeStep
<1>2. ASSUME NEW source \in Ids, NEW target \in Ids, NEW type \in LinkTypes,
             LinkEntities(source, target, type)
      PROVE  EdgeStep
  BY <1>2, GrowthIsEdgeStep DEF LinkEntities, Stored
<1>3. ASSUME NEW id \in Ids, ResolveMemory(id)
      PROVE  EdgeStep
  <2>1. \A i \in Stored : mem'[i] # NoRow /\ (mem'[i] = mem[i] \/ mem'[i].status = "resolved")
    <3> SUFFICES ASSUME NEW i \in Stored
                 PROVE  mem'[i] # NoRow /\ (mem'[i] = mem[i] \/ mem'[i].status = "resolved")
      OBVIOUS
    <3>1. CASE i # id
      BY <1>3, <3>1 DEF ResolveMemory, Stored, TypeOK
    <3>2. CASE i = id
      <4>1. mem[i] \in Row /\ mem'[i] = [mem[i] EXCEPT !.status = "resolved"]
        BY <1>3, <3>2 DEF ResolveMemory, Stored, TypeOK
      <4>2. QED
        BY <4>1, NoRowAssumption DEF Row, AllStatuses
    <3>3. QED
      BY <3>1, <3>2
  <2>2. QED
    BY <1>3, <2>1, GrowthIsEdgeStep DEF ResolveMemory
<1>4. ASSUME NEW session \in Sessions, NEW learnings \in Learnings, NEW purge \in BOOLEAN,
             ConsolidateSession(session, learnings, purge)
      PROVE  EdgeStep
  <2> DEFINE table   == WithLearnings(session, learnings)
             scratch == ScratchOf(table, session)
  <2>1. /\ table \in [Ids -> Row \cup {NoRow}]
        /\ \A i \in Stored : table[i] = mem[i]
    BY <1>4, WithLearningsType DEF ConsolidateSession, WithLearnings, Stored
  <2>2. CASE DeleteRows(table, scratch)
    <3>1. scratch \in SUBSET Ids
      BY DEF ScratchOf
    <3>2. QED
      BY <2>1, <2>2, <3>1, DeleteRowsIsEdgeStep
  <2>3. CASE /\ mem' = [i \in Ids |-> IF i \in scratch
                                      THEN [table[i] EXCEPT !.status = "resolved"]
                                      ELSE table[i]]
             /\ UNCHANGED <<relations, reviewed, swept>>
    <3>1. \A i \in Stored : mem'[i] # NoRow /\ (mem'[i] = mem[i] \/ mem'[i].status = "resolved")
      <4> SUFFICES ASSUME NEW i \in Stored
                   PROVE  mem'[i] # NoRow /\ (mem'[i] = mem[i] \/ mem'[i].status = "resolved")
        OBVIOUS
      <4>1. CASE i \notin scratch
        BY <2>1, <2>3, <4>1 DEF Stored
      <4>2. CASE i \in scratch
        <5>1. mem[i] \in Row /\ mem'[i] = [mem[i] EXCEPT !.status = "resolved"]
          BY <2>1, <2>3, <4>2 DEF Stored, TypeOK
        <5>2. QED
          BY <5>1, NoRowAssumption DEF Row, AllStatuses
      <4>3. QED
        BY <4>1, <4>2
    <3>2. QED
      BY <2>3, <3>1, GrowthIsEdgeStep
  <2>4. QED
    BY <1>4, <2>2, <2>3 DEF ConsolidateSession
<1>5. ASSUME PurgeExpiredEphemeral
      PROVE  EdgeStep
  BY <1>5, DeleteRowsIsEdgeStep DEF PurgeExpiredEphemeral, Expired, Stored
<1>6. ASSUME \A i \in Stored : mem'[i] # NoRow /\ mem'[i].status = mem[i].status,
             UNCHANGED <<relations, reviewed, swept>>
      PROVE  EdgeStep
  BY <1>6, GrowthIsEdgeStep
<1>7. ASSUME NEW id \in Ids, Age(id)
      PROVE  EdgeStep
  <2>1. \A i \in Stored : mem'[i] # NoRow /\ mem'[i].status = mem[i].status
    BY <1>7, NoRowAssumption DEF Age, Stored, TypeOK, Row
  <2>2. QED
    BY <1>6, <1>7, <2>1 DEF Age
<1>8. ASSUME NEW id \in Ids, SetKeywords(id)
      PROVE  EdgeStep
  <2>1. \A i \in Stored : mem'[i] # NoRow /\ mem'[i].status = mem[i].status
    BY <1>8, NoRowAssumption DEF SetKeywords, Stored, TypeOK, Row
  <2>2. QED
    BY <1>6, <1>8, <2>1 DEF SetKeywords
<1>9. ASSUME NEW pair \in Pairs, MarkPairReviewed(pair)
      PROVE  EdgeStep
  BY <1>9, GrowthIsEdgeStep DEF MarkPairReviewed, Stored
<1>10. ASSUME NEW id \in Ids, ConfirmMemory(id)
       PROVE  EdgeStep
  <2>1. \A i \in Stored : mem'[i] # NoRow /\ mem'[i].status = mem[i].status
    BY <1>10, NoRowAssumption DEF ConfirmMemory, Stored, TypeOK, Row
  <2>2. QED
    BY <1>6, <1>10, <2>1 DEF ConfirmMemory
<1>11. ASSUME NEW id \in Ids, EditCitedFile(id)
       PROVE  EdgeStep
  <2>1. \A i \in Stored : mem'[i] # NoRow /\ mem'[i].status = mem[i].status
    BY <1>11, NoRowAssumption DEF EditCitedFile, Stored, TypeOK, Row
  <2>2. QED
    BY <1>6, <1>11, <2>1 DEF EditCitedFile
<1>12. CASE UNCHANGED vars
  BY <1>6, <1>12 DEF vars, Stored
<1>13. QED
  BY <1>1, <1>2, <1>3, <1>4, <1>5, <1>7, <1>8, <1>9, <1>10, <1>11, <1>12
     DEF Next, AgentNext, UpkeepNext

-----------------------------------------------------------------------------
(***************************************************************************)
(* The inductive invariant and the theorems                                *)
(***************************************************************************)

\* The conjunction of the checked invariants is inductive.
IInv == TypeOK /\ NoDanglingReferences /\ ScratchNeverActive /\ SupersededIsExplained

\* No step makes scratch active, or anything else scratch.
LEMMA ScratchStep ==
  ASSUME TypeOK, ScratchNeverActive, [Next]_vars
  PROVE  ScratchNeverActive'
<1> SUFFICES ASSUME NEW i \in Ids, mem'[i] # NoRow
             PROVE  /\ mem'[i].kind = "ephemeral" => mem'[i].status # "active"
                    /\ mem'[i].status = "ephemeral" => mem'[i].kind = "ephemeral"
  BY DEF ScratchNeverActive, Stored
<1>1. RowStep(i)
  BY StepsAreRowSteps
<1>2. CASE mem[i] = NoRow
  BY <1>1, <1>2 DEF RowStep
<1>3. CASE mem[i] # NoRow
  <2>1. /\ mem[i].kind = "ephemeral" => mem[i].status # "active"
        /\ mem[i].status = "ephemeral" => mem[i].kind = "ephemeral"
    BY <1>3 DEF ScratchNeverActive, Stored
  <2>2. QED
    BY <1>1, <1>3, <2>1 DEF RowStep
<1>4. QED
  BY <1>2, <1>3

\* A step that takes the last superseder of a row is a sweep, which is remembered.
LEMMA SupersededStep ==
  ASSUME TypeOK, NoDanglingReferences, SupersededIsExplained, [Next]_vars
  PROVE  SupersededIsExplained'
<1> SUFFICES ASSUME NEW t \in Ids, mem'[t] # NoRow, mem'[t].status = "superseded"
             PROVE  t \in swept' \/ \E s \in Ids : mem'[s] # NoRow /\ Supersedes(s, t)'
  BY DEF SupersededIsExplained, Stored
<1>1. RowStep(t) /\ EdgeStep
  BY StepsAreRowSteps, StepsAreEdgeSteps
<1>2. mem[t] # NoRow
  BY <1>1 DEF RowStep
<1>3. CASE mem[t].status # "superseded"
  BY <1>1, <1>2, <1>3 DEF EdgeStep
<1>4. CASE mem[t].status = "superseded"
  <2>1. t \in swept \/ \E s \in Stored : Supersedes(s, t)
    BY <1>2, <1>4 DEF SupersededIsExplained, Stored
  <2>2. CASE t \in swept
    BY <1>1, <2>2 DEF EdgeStep
  <2>3. ASSUME NEW s \in Stored, Supersedes(s, t)
        PROVE  t \in swept' \/ \E x \in Ids : mem'[x] # NoRow /\ Supersedes(x, t)'
    <3>1. CASE s \in Lost
      BY <1>1, <2>3, <3>1 DEF EdgeStep
    <3>2. CASE s \notin Lost
      <4>1. mem'[s] # NoRow
        BY <3>2 DEF Lost
      <4>2. t \notin Lost
        BY DEF Lost
      <4>3. <<s, t, "supersedes">> \in relations'
        BY <1>1, <2>3, <3>2, <4>2 DEF EdgeStep, Supersedes
      <4>4. QED
        BY <4>1, <4>3 DEF Supersedes, Stored
    <3>3. QED
      BY <3>1, <3>2
  <2>4. QED
    BY <2>1, <2>2, <2>3
<1>5. QED
  BY <1>3, <1>4

\* Every step keeps the conjunction.
LEMMA InductiveStep ==
  ASSUME IInv, [Next]_vars
  PROVE  IInv'
<1>1. TypeOK /\ NoDanglingReferences /\ ScratchNeverActive /\ SupersededIsExplained
  BY DEF IInv
<1>2. TypeOK'
  BY <1>1, TypeStep
<1>3. NoDanglingReferences'
  BY <1>1, StepsAreEdgeSteps DEF EdgeStep
<1>4. ScratchNeverActive'
  BY <1>1, ScratchStep
<1>5. SupersededIsExplained'
  BY <1>1, SupersededStep
<1>6. QED
  BY <1>2, <1>3, <1>4, <1>5 DEF IInv

\* The conjunction of the checked invariants holds in every reachable state.
THEOREM Invariance == Spec => []IInv
<1>1. Init => IInv
  BY DEF Init, IInv, TypeOK, NoDanglingReferences, ScratchNeverActive,
         SupersededIsExplained, Stored
<1>2. QED
  BY <1>1, InductiveStep, PTL DEF Spec

\* No edge and no review ever names a row that is gone.
THEOREM ReferencesIntact == Spec => []NoDanglingReferences
<1>1. IInv => NoDanglingReferences
  BY DEF IInv
<1>2. QED
  BY <1>1, Invariance, PTL

\* Scratch never surfaces as active, whatever consolidations and sweeps run.
THEOREM ScratchHidden == Spec => []ScratchNeverActive
<1>1. IInv => ScratchNeverActive
  BY DEF IInv
<1>2. QED
  BY <1>1, Invariance, PTL

\* Every superseded memory still has its superseder's edge, or lost it to a sweep.
THEOREM SupersessionTraceable == Spec => []SupersededIsExplained
<1>1. IInv => SupersededIsExplained
  BY DEF IInv
<1>2. QED
  BY <1>1, Invariance, PTL

\* No operation brings a superseded or resolved row back.
THEOREM NoZombiesEver == Spec => NoZombies
<1>1. TypeOK /\ [Next]_vars
        => [\A i \in Ids :
              /\ mem[i] # NoRow
              /\ mem[i].status \in {"superseded", "resolved"}
              /\ mem'[i] # NoRow
              => mem'[i].status \notin {"active", "ephemeral"}]_vars
  BY StepsAreRowSteps DEF RowStep
<1>2. QED
  BY <1>1, TypeCorrect, PTL DEF Spec, NoZombies

\* Sweeps and consolidations lose scratch and what hangs on it, nothing else.
THEOREM DurableSafe == Spec => DurableKnowledgeSurvives
<1>1. IInv /\ [Next]_vars
        => [/\ \A i \in Lost : mem[i].kind = "ephemeral"
            /\ \A e \in relations \ relations' : e[1] \in Lost \/ e[2] \in Lost
            /\ \A p \in reviewed \ reviewed' : p \cap Lost # {}]_vars
  <2> SUFFICES ASSUME IInv, [Next]_vars
               PROVE  /\ \A i \in Lost : mem[i].kind = "ephemeral"
                      /\ \A e \in relations \ relations' : e[1] \in Lost \/ e[2] \in Lost
                      /\ \A p \in reviewed \ reviewed' : p \cap Lost # {}
    OBVIOUS
  <2>1. EdgeStep
    BY StepsAreEdgeSteps DEF IInv
  <2>2. \A i \in Ids : RowStep(i)
    BY StepsAreRowSteps DEF IInv
  <2>3. \A i \in Lost : mem[i].kind = "ephemeral"
    BY <2>2 DEF Lost, Stored, RowStep, IsScratch, IInv, ScratchNeverActive
  <2>4. QED
    BY <2>1, <2>3 DEF EdgeStep
<1>2. QED
  BY <1>1, Invariance, PTL DEF Spec, DurableKnowledgeSurvives

\* A ready task leaves the queue only by being settled or newly blocked.
THEOREM ReadyStable == Spec => ReadyUntilSettledOrBlocked
<1>1. IInv /\ [Next]_vars
        => [\A t \in Ready :
              \/ t \in Ready'
              \/ mem'[t].status # "active"
              \/ \E b \in Ids : <<b, t, "blocks">> \in relations' \ relations]_vars
  <2> SUFFICES ASSUME IInv, [Next]_vars, NEW t \in Ready,
                      mem'[t].status = "active", t \notin Ready'
               PROVE  \E b \in Ids : <<b, t, "blocks">> \in relations' \ relations
    OBVIOUS
  <2>1. /\ EdgeStep
        /\ \A i \in Ids : RowStep(i)
    BY StepsAreEdgeSteps, StepsAreRowSteps DEF IInv
  <2>2. /\ t \in Ids /\ mem[t] # NoRow
        /\ mem[t].status = "active"
        /\ mem[t].kind \in {"task", "blocker"}
        /\ \A b \in Ids : mem[b] # NoRow /\ Blocks(b, t) => mem[b].status # "active"
    BY DEF Ready, Stored
  <2>3. mem'[t] # NoRow /\ mem'[t].kind \in {"task", "blocker"}
    BY <2>1, <2>2 DEF RowStep, IsScratch
  <2>4. PICK b \in Ids : mem'[b] # NoRow /\ Blocks(b, t)' /\ mem'[b].status = "active"
    BY <2>2, <2>3 DEF Ready, Stored
  <2>5. <<b, t, "blocks">> \notin relations
    <3>1. SUFFICES ASSUME Blocks(b, t)
                   PROVE  FALSE
      BY DEF Blocks
    <3>2. mem[b] # NoRow
      BY <3>1 DEF IInv, NoDanglingReferences, Blocks, Stored
    <3>3. mem[b].status = "active"
      BY <2>1, <2>4, <3>2 DEF RowStep
    <3>4. QED
      BY <2>2, <3>1, <3>2, <3>3
  <2>6. QED
    BY <2>4, <2>5 DEF Blocks
<1>2. QED
  BY <1>1, Invariance, PTL DEF Spec, ReadyUntilSettledOrBlocked

=============================================================================

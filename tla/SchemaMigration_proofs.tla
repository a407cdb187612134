------------------------ MODULE SchemaMigration_proofs ------------------------
(***************************************************************************)
(* The safety properties of SchemaMigration, for any number of processes   *)
(* that open the database at once, any older builds beside them, any data, *)
(* and failures anywhere.                                                  *)
(***************************************************************************)
EXTENDS SchemaMigration, TLAPS

\* Where a process is says something about the database, although others migrate it
\* meanwhile: the version it is about to reach is at most one ahead.
Stages ==
  \A p \in Procs :
    /\ pc[p] \in {"version", "step", "open", "refused"} => exists
    /\ pc[p] = "step" => /\ next[p] \in 1..Newest
                         /\ next[p] <= version + 1
                         /\ version <= Newest

\* Without a schema there is nothing to lose.
NothingYet == ~exists => version = 0 /\ rows = {} /\ vectors = {} /\ old = {}

IInv == /\ TypeOK
        /\ SchemaMatchesVersion
        /\ OpenMeansCurrent
        /\ indexed = rows
        /\ NothingYet
        /\ Stages

-----------------------------------------------------------------------------

\* The pieces of each version, written out.
LEMMA PiecesAre ==
  /\ Pieces = {"vec", "learning", "meta", "provenance", "vec_triggers", "origin", "keywords", "owners", "pairs"}
  /\ PiecesOf(0) = {"vec"}
  /\ PiecesOf(1) = {"vec", "learning", "meta"}
  /\ PiecesOf(2) = {"vec", "learning", "meta", "provenance", "vec_triggers"}
  /\ PiecesOf(3) = {"vec", "learning", "meta", "provenance", "vec_triggers", "origin"}
  /\ PiecesOf(4) = {"vec", "learning", "meta", "provenance", "vec_triggers", "origin", "keywords"}
  /\ PiecesOf(5) = Pieces \ {"pairs"}
  /\ PiecesOf(6) = Pieces
BY DEF Pieces, PiecesOf, Since

\* From v2 on the triggers on vectors are there.
LEMMA VectorTriggers == \A v \in Nat : v >= 2 => "vec_triggers" \in PiecesOf(v)
BY DEF Pieces, PiecesOf, Since

LEMMA PiecesArePieces == \A v \in Nat : PiecesOf(v) \subseteq Pieces
BY DEF PiecesOf

-----------------------------------------------------------------------------

LEMMA InitIInv == Init => IInv
<1> SUFFICES ASSUME Init PROVE IInv
  OBVIOUS
<1>1. version \in 0..(Newest + 1) /\ (~exists => version = 0)
  BY VersionsAssumption DEF Init, Newest
<1>2. rows \subseteq Ids /\ origin \subseteq rows /\ relations \subseteq Edges \cap (rows \X rows)
  BY DEF Init
<1>3. vectors \subseteq Ids /\ (~exists => rows = {} /\ vectors = {})
  BY <1>2 DEF Init
<1>4. has \subseteq Pieces /\ (exists => PiecesOf(version) \subseteq has)
  BY <1>1, PiecesArePieces DEF Init
<1>5. fts \in Widths /\ triggers = fts /\ fts = WidthOf(version)
  BY DEF Init, WidthOf, Widths
<1>6. TypeOK
  BY <1>1, <1>2, <1>3, <1>4, <1>5, BoundAssumption DEF Init, TypeOK, Newest
<1> QED
  BY <1>1, <1>3, <1>4, <1>5, <1>6
  DEF Init, IInv, SchemaMatchesVersion, OpenMeansCurrent, NothingYet, Stages

-----------------------------------------------------------------------------
(***************************************************************************)
(* Steps of a process on its way in                                        *)
(***************************************************************************)

\* Steps that only move the process.
LEMMA MovesKeepIInv ==
  ASSUME IInv, NEW p \in Procs, Look(p) \/ ReadVersion(p) \/ Fail(p) \/ Close(p) \/ Skip(p)
  PROVE  IInv'
<1>1. UNCHANGED <<exists, schema, data, old>>
  BY DEF Look, ReadVersion, Fail, Close, Skip, schema, data
<1>2. \A q \in Procs : q # p => pc'[q] = pc[q] /\ next'[q] = next[q]
  BY DEF IInv, TypeOK, Look, ReadVersion, Fail, Close, Skip, Advance
<1>3. pc' \in [Procs -> {"closed", "create", "version", "step", "open", "refused"}]
  BY DEF IInv, TypeOK, Look, ReadVersion, Fail, Close, Skip, Advance
<1>8. next' \in [Procs -> 1..(Newest + 2)]
  <2>1. CASE Skip(p)
    <3>1. next[p] \in 1..Newest
      BY <2>1 DEF IInv, Stages, Skip
    <3>2. next[p] # Newest => next[p] + 1 \in 1..(Newest + 2)
      BY <3>1 DEF Newest
    <3> QED
      BY <2>1, <3>2 DEF IInv, TypeOK, Skip, Advance
  <2>2. CASE ReadVersion(p)
    <3>1. version + 1 \in 1..(Newest + 2)
      BY DEF IInv, TypeOK, Newest
    <3> QED
      BY <2>2, <3>1 DEF IInv, TypeOK, ReadVersion
  <2> QED
    BY <2>1, <2>2 DEF IInv, TypeOK, Look, Fail, Close
<1>9. failures' \in 0..MaxFailures
  BY BoundAssumption DEF IInv, TypeOK, Look, ReadVersion, Fail, Close, Skip
<1>4. /\ pc'[p] \in {"version", "step", "open", "refused"} => exists
      /\ pc'[p] = "open" => version = Newest
      /\ pc'[p] = "step" => next'[p] \in 1..Newest /\ next'[p] <= version + 1 /\ version <= Newest
  BY DEF IInv, TypeOK, Stages, OpenMeansCurrent, Look, ReadVersion, Fail, Close, Skip, Advance, Needed, Newest
<1>5. TypeOK'
  BY <1>1, <1>3, <1>8, <1>9 DEF IInv, TypeOK, schema, data
<1>6. SchemaMatchesVersion' /\ NothingYet' /\ (indexed = rows)'
  BY <1>1 DEF IInv, SchemaMatchesVersion, NothingYet, schema, data
<1>7. OpenMeansCurrent' /\ Stages'
  BY <1>1, <1>2, <1>4 DEF IInv, OpenMeansCurrent, Stages, schema, data
<1> QED
  BY <1>5, <1>6, <1>7 DEF IInv

\* Of those that find no schema only the first one makes it.
LEMMA CreateKeepsIInv ==
  ASSUME IInv, NEW p \in Procs, Create(p)
  PROVE  IInv'
<1>1. UNCHANGED <<data, next, old, failures>>
  BY DEF Create
<1>2. exists' /\ version' \in 0..(Newest + 1)
  BY DEF IInv, TypeOK, Create, Newest, schema
<1>3. pc' = [pc EXCEPT ![p] = IF exists THEN "version" ELSE "open"]
  BY DEF Create
<1>4. has' \subseteq Pieces /\ PiecesOf(version') \subseteq has'
  BY PiecesAre DEF IInv, TypeOK, SchemaMatchesVersion, Create, Newest, schema
<1>5. fts' \in Widths /\ triggers' = fts' /\ fts' = WidthOf(version')
  BY DEF IInv, TypeOK, SchemaMatchesVersion, Create, Newest, schema, WidthOf, Widths
<1>6. TypeOK'
  BY <1>1, <1>2, <1>3, <1>4, <1>5 DEF IInv, TypeOK, data
<1>9. \A q \in Procs : q # p => pc'[q] = pc[q]
  BY <1>3 DEF IInv, TypeOK
<1>10. pc'[p] = IF exists THEN "version" ELSE "open"
  BY <1>3 DEF IInv, TypeOK
<1>11. CASE exists
  <2>1. UNCHANGED <<exists, schema>>
    BY <1>11 DEF Create
  <2> QED
    BY <1>1, <1>2, <1>4, <1>5, <1>6, <1>9, <1>10, <1>11, <2>1
    DEF IInv, SchemaMatchesVersion, OpenMeansCurrent, NothingYet, Stages, data, schema
<1>12. CASE ~exists
  <2>1. version' = Newest
    BY <1>12 DEF Create
  <2>2. \A q \in Procs : q # p => pc'[q] \in {"closed", "create"}
    BY <1>9, <1>12 DEF IInv, TypeOK, Stages
  <2> QED
    BY <1>1, <1>2, <1>4, <1>5, <1>6, <1>10, <1>12, <2>1, <2>2
    DEF IInv, SchemaMatchesVersion, OpenMeansCurrent, NothingYet, Stages, data
<1> QED
  BY <1>11, <1>12

-----------------------------------------------------------------------------
(***************************************************************************)
(* The migrations                                                          *)
(***************************************************************************)

\* A migration that is needed is the next one.
LEMMA MigratesInOrder ==
  ASSUME IInv, NEW p \in Procs, NEW k \in 1..Newest, Migrate(p, k)
  PROVE  /\ version = k - 1 /\ version' = k
         /\ exists /\ exists'
         /\ PiecesOf(version) \subseteq has
         /\ fts = WidthOf(version) /\ triggers = fts
BY DEF IInv, TypeOK, Stages, SchemaMatchesVersion, Migrate, Needed, Newest

\* What the schema is like after a migration; the others find a newer version.
LEMMA MigrationKeepsIInv ==
  ASSUME IInv, NEW p \in Procs, NEW k \in 1..Newest, Migrate(p, k),
         has' \subseteq Pieces, PiecesOf(k) \subseteq has',
         fts' = WidthOf(k), triggers' = fts',
         rows' = rows, origin' = origin, relations' = relations, indexed' = rows,
         owners \subseteq owners', owners' \subseteq rows,
         vectors' \subseteq vectors
  PROVE  IInv'
<1>1. version = k - 1 /\ version' = k /\ exists /\ exists'
  BY MigratesInOrder
<1>2. UNCHANGED <<old, failures>>
  BY DEF Migrate
<1>3. \A q \in Procs : q # p => pc'[q] = pc[q] /\ next'[q] = next[q]
  BY DEF IInv, TypeOK, Migrate, Advance
<1>4. pc' \in [Procs -> {"closed", "create", "version", "step", "open", "refused"}]
  BY DEF IInv, TypeOK, Migrate, Advance
<1>5. next' \in [Procs -> 1..(Newest + 2)]
  <2>1. next[p] = k /\ k + 1 \in 1..(Newest + 2)
    BY DEF Migrate, Newest
  <2> QED
    BY <2>1 DEF IInv, TypeOK, Migrate, Advance
<1>6. TypeOK'
  BY <1>1, <1>2, <1>4, <1>5 DEF IInv, TypeOK, WidthOf, Widths, Newest
<1>7. /\ pc'[p] = "open" => k = Newest
      /\ pc'[p] = "step" => next'[p] \in 1..Newest /\ next'[p] <= k + 1
  BY DEF IInv, TypeOK, Migrate, Advance, Newest
<1>8. OpenMeansCurrent'
  BY <1>1, <1>3, <1>7 DEF IInv, OpenMeansCurrent, Newest
<1>9. Stages'
  BY <1>1, <1>3, <1>7 DEF IInv, Stages, TypeOK, Newest
<1> QED
  BY <1>1, <1>6, <1>8, <1>9 DEF IInv, SchemaMatchesVersion, NothingYet

LEMMA MigrationsKeepIInv ==
  ASSUME IInv, NEW p \in Procs,
         ToV1(p) \/ ToV2(p) \/ ToV3(p) \/ ToV4(p) \/ ToV5(p) \/ ToV6(p)
  PROVE  IInv'
<1> USE DEF data, schema
<1>1. /\ has \subseteq Pieces /\ origin \subseteq rows /\ owners \subseteq rows
      /\ indexed = rows
  BY DEF IInv, TypeOK
<1>2. 1 \in 1..Newest /\ 2 \in 1..Newest /\ 3 \in 1..Newest /\ 4 \in 1..Newest
      /\ 5 \in 1..Newest /\ 6 \in 1..Newest
  BY DEF Newest
<1>3. CASE ToV1(p)
  <2>1. Migrate(p, 1)
    BY <1>3 DEF ToV1
  <2>2. PiecesOf(0) \subseteq has /\ fts = WidthOf(0) /\ triggers = fts
    BY <1>2, <2>1, MigratesInOrder
  <2>3. has' \subseteq Pieces /\ PiecesOf(1) \subseteq has'
    BY <1>1, <1>3, <2>2, PiecesAre DEF ToV1, Columns
  <2>4. fts' = WidthOf(1) /\ triggers' = fts'
    BY <1>3, <2>2 DEF ToV1, V1Triggers, WidthOf
  <2> QED
    BY <1>1, <1>2, <1>3, <2>1, <2>3, <2>4, MigrationKeepsIInv DEF ToV1, Swapped
<1>4. CASE ToV2(p)
  <2>1. Migrate(p, 2)
    BY <1>4 DEF ToV2
  <2>2. PiecesOf(1) \subseteq has /\ fts = WidthOf(1) /\ triggers = fts
    BY <1>2, <2>1, MigratesInOrder
  <2>3. has' \subseteq Pieces /\ PiecesOf(2) \subseteq has'
    BY <1>1, <1>4, <2>2, PiecesAre DEF ToV2
  <2>4. fts' = WidthOf(2) /\ triggers' = fts'
    BY <1>4, <2>2 DEF ToV2, WidthOf
  <2> QED
    BY <1>1, <1>2, <1>4, <2>1, <2>3, <2>4, MigrationKeepsIInv DEF ToV2
<1>5. CASE ToV3(p)
  <2>1. Migrate(p, 3)
    BY <1>5 DEF ToV3
  <2>2. PiecesOf(2) \subseteq has /\ fts = WidthOf(2) /\ triggers = fts
    BY <1>2, <2>1, MigratesInOrder
  <2>3. has' \subseteq Pieces /\ PiecesOf(3) \subseteq has'
    BY <1>1, <1>5, <2>2, PiecesAre DEF ToV3
  <2>4. fts' = WidthOf(3) /\ triggers' = fts'
    BY <1>5, <2>2 DEF ToV3, WidthOf
  <2> QED
    BY <1>1, <1>2, <1>5, <2>1, <2>3, <2>4, MigrationKeepsIInv DEF ToV3, LiveVectors
<1>6. CASE ToV4(p)
  <2>1. Migrate(p, 4)
    BY <1>6 DEF ToV4
  <2>2. PiecesOf(3) \subseteq has /\ version = 3
    BY <1>2, <2>1, MigratesInOrder
  <2>3. has' \subseteq Pieces /\ PiecesOf(4) \subseteq has'
    BY <1>1, <1>6, <2>2, PiecesAre DEF ToV4
  <2> QED
    BY <1>1, <1>2, <1>6, <2>1, <2>3, MigrationKeepsIInv DEF ToV4, Rebuilt
<1>7. CASE ToV5(p)
  <2>1. Migrate(p, 5)
    BY <1>7 DEF ToV5
  <2>2. PiecesOf(4) \subseteq has /\ version = 4 /\ fts = WidthOf(4) /\ triggers = fts
    BY <1>2, <2>1, MigratesInOrder
  <2>3. has' \subseteq Pieces /\ PiecesOf(5) \subseteq has'
    BY <1>1, <1>7, <2>2, PiecesAre DEF ToV5
  <2>4. fts' = WidthOf(5) /\ triggers' = fts'
    BY <1>7, <2>2 DEF ToV5, WidthOf
  <2> QED
    BY <1>1, <1>2, <1>7, <2>1, <2>3, <2>4, MigrationKeepsIInv DEF ToV5
<1>8. CASE ToV6(p)
  <2>1. Migrate(p, 6)
    BY <1>8 DEF ToV6
  <2>2. PiecesOf(5) \subseteq has /\ version = 5 /\ fts = WidthOf(5) /\ triggers = fts
    BY <1>2, <2>1, MigratesInOrder
  <2>3. has' \subseteq Pieces /\ PiecesOf(6) \subseteq has'
    BY <1>1, <1>8, <2>2, PiecesAre DEF ToV6
  <2>4. fts' = WidthOf(6) /\ triggers' = fts'
    BY <1>8, <2>2 DEF ToV6, WidthOf
  <2> QED
    BY <1>1, <1>2, <1>8, <2>1, <2>3, <2>4, MigrationKeepsIInv DEF ToV6
<1> QED
  BY <1>3, <1>4, <1>5, <1>6, <1>7, <1>8

-----------------------------------------------------------------------------
(***************************************************************************)
(* Writes and older builds                                                 *)
(***************************************************************************)

\* A write by whoever has the database open keeps index and edges in step with the rows,
\* at every version.
LEMMA WritesKeepIInv ==
  ASSUME IInv, exists, NEW from \in SUBSET Ids, NEW owned \in SUBSET Ids, WriteAny(from, owned)
  PROVE  IInv'
<1>1. UNCHANGED <<exists, version, has, fts, triggers, pc, next, old, failures>>
  BY DEF WriteAny, schema
<1>2. /\ rows' \subseteq Ids /\ origin' \subseteq rows' /\ owners' \subseteq rows'
      /\ indexed' = rows' /\ vectors' \subseteq Ids
      /\ relations' \subseteq Edges \cap (rows' \X rows')
  <2>1. /\ rows \subseteq Ids /\ origin \subseteq rows /\ owners \subseteq rows
        /\ indexed = rows /\ vectors \subseteq Ids
        /\ relations \subseteq Edges \cap (rows \X rows)
    BY DEF IInv, TypeOK
  <2>2. CASE \E id \in Ids \ rows : Insert(id, {}, {}) \/ Insert(id, {id} \cap from, {id} \cap owned)
    BY <2>1, <2>2 DEF Insert
  <2>3. CASE \E id \in Ids : Delete(id)
    <3>1. PICK id \in Ids : Delete(id)
      BY <2>3
    <3>2. /\ rows' = rows \ {id} /\ indexed' = indexed \ {id}
          /\ origin' = origin \ {id} /\ owners' = owners \ {id}
          /\ relations' = KeptEdges(id)
          /\ vectors' \subseteq vectors
      BY <3>1 DEF Delete
    <3>3. \A e \in relations : e \in rows \X rows
      BY <2>1
    <3>4. \A e \in KeptEdges(id) : e \in Edges /\ e \in rows' \X rows'
      BY <2>1, <3>2, <3>3 DEF KeptEdges
    <3> QED
      BY <2>1, <3>2, <3>4
  <2>4. CASE \E id \in Ids : Embed(id)
    BY <2>1, <2>4 DEF Embed
  <2>5. CASE \E e \in Edges : Link(e)
    <3>1. PICK e \in Edges : Link(e)
      BY <2>5
    <3>2. e \in Ids \X Ids
      BY EdgesAssumption
    <3>3. e \in rows \X rows
      BY <3>1, <3>2 DEF Link
    <3> QED
      BY <2>1, <3>1, <3>3 DEF Link
  <2> QED
    BY <2>2, <2>3, <2>4, <2>5 DEF WriteAny
<1>3. TypeOK'
  BY <1>1, <1>2 DEF IInv, TypeOK
<1> QED
  BY <1>1, <1>2, <1>3
  DEF IInv, SchemaMatchesVersion, OpenMeansCurrent, NothingYet, Stages

LEMMA OldBuildsKeepIInv ==
  ASSUME IInv, NEW b \in OldBuilds, OldConnect(b) \/ OldCreate(b) \/ OldLeave(b)
  PROVE  IInv'
<1>1. UNCHANGED <<data, pc, next, failures>> /\ old' \subseteq OldBuilds
  BY DEF IInv, TypeOK, OldConnect, OldCreate, OldLeave
<1>2. CASE OldConnect(b) \/ OldLeave(b)
  <2>1. UNCHANGED <<exists, schema>> /\ (~exists => old' = {})
    BY <1>2 DEF IInv, NothingYet, OldConnect, OldLeave
  <2>2. TypeOK'
    BY <1>1, <2>1 DEF IInv, TypeOK, data, schema
  <2> QED
    BY <1>1, <2>1, <2>2
    DEF IInv, SchemaMatchesVersion, OpenMeansCurrent, NothingYet, Stages, data, schema
<1>3. CASE OldCreate(b)
  <2>1. b \in 0..(Newest - 1)
    BY OldAssumption
  <2>2. /\ ~exists /\ exists' /\ version' = b /\ has' = PiecesOf(b)
        /\ fts' = WidthOf(b) /\ triggers' = WidthOf(b)
    BY <1>3 DEF OldCreate
  <2>3. PiecesOf(b) \subseteq Pieces
    BY <2>1, PiecesArePieces DEF Newest
  <2>4. \A p \in Procs : pc[p] \in {"closed", "create"}
    BY <2>2 DEF IInv, TypeOK, Stages
  <2>5. TypeOK'
    BY <1>1, <2>1, <2>2, <2>3 DEF IInv, TypeOK, data, WidthOf, Widths, Newest
  <2> QED
    BY <1>1, <2>2, <2>4, <2>5
    DEF IInv, SchemaMatchesVersion, OpenMeansCurrent, NothingYet, Stages, data
<1> QED
  BY <1>2, <1>3

-----------------------------------------------------------------------------
(***************************************************************************)
(* The theorems                                                            *)
(***************************************************************************)

\* IInv is inductive.
LEMMA NextKeepsIInv == IInv /\ [Next]_vars => IInv'
<1> SUFFICES ASSUME IInv, [Next]_vars PROVE IInv'
  OBVIOUS
<1>1. CASE UNCHANGED vars
  BY <1>1 DEF vars, schema, data, IInv, TypeOK, SchemaMatchesVersion, OpenMeansCurrent,
              NothingYet, Stages
<1>2. ASSUME NEW p \in Procs, Open(p) \/ Fail(p) \/ Close(p) \/ Write(p)
      PROVE  IInv'
  <2>1. CASE Write(p)
    <3>1. exists
      BY <2>1 DEF IInv, Stages, Write
    <3> QED
      BY <2>1, <3>1, WritesKeepIInv DEF Write
  <2> QED
    BY <1>2, <2>1, MovesKeepIInv, CreateKeepsIInv, MigrationsKeepIInv DEF Open
<1>3. ASSUME NEW b \in OldBuilds, OldConnect(b) \/ OldCreate(b) \/ OldLeave(b) \/ OldWrite(b)
      PROVE  IInv'
  <2>1. CASE OldWrite(b)
    <3>1. exists
      BY <2>1 DEF IInv, NothingYet, OldWrite
    <3>2. (IF b < 3 THEN {} ELSE Ids) \in SUBSET Ids /\ (IF b < 5 THEN {} ELSE Ids) \in SUBSET Ids
      OBVIOUS
    <3>3. WriteAny(IF b < 3 THEN {} ELSE Ids, IF b < 5 THEN {} ELSE Ids)
      BY <2>1 DEF OldWrite
    <3> QED
      BY <3>1, <3>2, <3>3, WritesKeepIInv
  <2> QED
    BY <1>3, <2>1, OldBuildsKeepIInv
<1> QED
  BY <1>1, <1>2, <1>3 DEF Next

LEMMA Invariance == Spec => []IInv
BY InitIInv, NextKeepsIInv, PTL DEF Spec

\* Every variable keeps its type, for any number of processes and builds.
THEOREM TypeCorrect == Spec => []TypeOK
<1>1. IInv => TypeOK
  BY DEF IInv
<1> QED
  BY <1>1, Invariance, PTL

\* At every commit the schema has what its version promises, and the triggers fit the
\* index, however many processes migrate it at once and wherever they fail.
THEOREM SchemaFits == Spec => []SchemaMatchesVersion
<1>1. IInv => SchemaMatchesVersion
  BY DEF IInv
<1> QED
  BY <1>1, Invariance, PTL

\* Nobody works on another version than its own.
THEOREM OpenIsCurrent == Spec => []OpenMeansCurrent
<1>1. IInv => OpenMeansCurrent
  BY DEF IInv
<1> QED
  BY <1>1, Invariance, PTL

\* Full-text search finds exactly the rows there are.
THEOREM IndexExact == Spec => []IndexIsExact
<1>1. IInv => IndexIsExact
  BY DEF IInv, IndexIsExact
<1> QED
  BY <1>1, Invariance, PTL

\* Whoever deletes a memory from v2 on, its vector goes along, and the upgrade to v3
\* leaves none behind.
THEOREM VectorsFollowRows == Spec => VectorsGoWithTheirRows
<1>1. IInv /\ [Next]_vars =>
        (/\ version < 3 /\ version' >= 3 => vectors' \subseteq rows'
         /\ version >= 2 => vectors' \cap rows \subseteq rows')
  <2> SUFFICES ASSUME IInv, [Next]_vars
               PROVE  /\ version < 3 /\ version' >= 3 => vectors' \subseteq rows'
                      /\ version >= 2 => vectors' \cap rows \subseteq rows'
    OBVIOUS
  <2>1. version \in Nat /\ (version >= 2 /\ exists => "vec_triggers" \in has)
    BY VectorTriggers DEF IInv, TypeOK, SchemaMatchesVersion, Newest
  <2>2. CASE (\E p \in Procs : Write(p)) \/ (\E b \in OldBuilds : OldWrite(b))
    <3>1. exists /\ version' = version
      BY <2>2 DEF IInv, Stages, NothingYet, Write, OldWrite, WriteAny, schema
    <3>2. PICK from, owned : WriteAny(from, owned)
      BY <2>2 DEF Write, OldWrite
    <3>3. ASSUME NEW id \in Ids, Delete(id), version >= 2
          PROVE  vectors' \cap rows \subseteq rows'
      BY <2>1, <3>1, <3>3 DEF Delete
    <3>4. rows \subseteq rows' \/ \E id \in Ids : Delete(id)
      BY <3>2 DEF WriteAny, Insert, Embed, Link
    <3> QED
      BY <2>1, <3>1, <3>3, <3>4
  <2>3. CASE \E p \in Procs : ToV3(p)
    <3>1. vectors' \subseteq rows' /\ rows' = rows
      BY <2>3 DEF ToV3, LiveVectors
    <3> QED
      BY <3>1
  <2>4. ASSUME NEW p \in Procs, ToV1(p) \/ ToV2(p) \/ ToV4(p) \/ ToV5(p) \/ ToV6(p)
        PROVE  rows' = rows /\ (version' < 3 \/ version >= 3)
    <3>1. PICK k \in 1..Newest : Migrate(p, k) /\ k # 3
      BY <2>4 DEF ToV1, ToV2, ToV4, ToV5, ToV6, Newest
    <3>2. version = k - 1 /\ version' = k
      BY <3>1, MigratesInOrder
    <3> QED
      BY <2>4, <3>1, <3>2 DEF ToV1, ToV2, ToV4, ToV5, ToV6, data, Newest
  <2>5. ASSUME NEW p \in Procs, Look(p) \/ ReadVersion(p) \/ Skip(p) \/ Fail(p) \/ Close(p)
        PROVE  rows' = rows /\ version' = version
    BY <2>5 DEF Look, ReadVersion, Skip, Fail, Close, schema, data
  <2>6. ASSUME (\E p \in Procs : Create(p))
               \/ \E b \in OldBuilds : OldConnect(b) \/ OldCreate(b) \/ OldLeave(b)
        PROVE  rows' = rows /\ vectors' = vectors /\ (version' = version \/ vectors = {})
    BY <2>6 DEF IInv, NothingYet, Create, OldConnect, OldCreate, OldLeave, schema, data
  <2>7. ASSUME UNCHANGED vars
        PROVE  rows' = rows /\ version' = version
    BY <2>7 DEF vars, schema, data
  <2>8. \/ UNCHANGED vars
        \/ (\E p \in Procs : Write(p)) \/ (\E b \in OldBuilds : OldWrite(b))
        \/ (\E p \in Procs : ToV3(p))
        \/ (\E p \in Procs : ToV1(p) \/ ToV2(p) \/ ToV4(p) \/ ToV5(p) \/ ToV6(p))
        \/ (\E p \in Procs : Look(p) \/ ReadVersion(p) \/ Skip(p) \/ Fail(p) \/ Close(p))
        \/ (\E p \in Procs : Create(p))
        \/ (\E b \in OldBuilds : OldConnect(b) \/ OldCreate(b) \/ OldLeave(b))
    BY DEF Next, Open
  <2>9. version' \in Nat
    BY NextKeepsIInv DEF IInv, TypeOK, Newest
  <2>10. ASSUME rows' = rows, version' = version \/ vectors' = {} \/ version' < 3 \/ version >= 3
        PROVE  /\ version < 3 /\ version' >= 3 => vectors' \subseteq rows'
               /\ version >= 2 => vectors' \cap rows \subseteq rows'
    <3>1. ~(version < 3 /\ version' >= 3) \/ vectors' = {}
      <4>1. version' = version \/ version' < 3 => ~(version < 3 /\ version' >= 3)
        <5>1. CASE version' = version
          BY <2>1, <5>1
        <5>2. CASE version' < 3
          BY <2>9, <5>2
        <5> QED
          BY <5>1, <5>2
      <4> QED
        BY <2>1, <2>10, <4>1
    <3> QED
      BY <2>10, <3>1
  <2> QED
    BY <2>2, <2>3, <2>4, <2>5, <2>6, <2>7, <2>8, <2>10
<1> QED
  BY <1>1, Invariance, PTL DEF Spec, VectorsGoWithTheirRows

\* No process takes the version back, though it may have read it long before.
THEOREM VersionGrows == Spec => NeverBackwards
<1>1. IInv /\ [Next]_vars => version' >= version
  <2> SUFFICES ASSUME IInv, [Next]_vars PROVE version' >= version
    OBVIOUS
  <2>1. version \in Nat
    BY DEF IInv, TypeOK, Newest
  <2>2. CASE version' = version
    BY <2>1, <2>2
  <2>3. ASSUME NEW p \in Procs, Create(p)
        PROVE  version' = version \/ (version = 0 /\ version' = Newest)
    BY <2>3 DEF Create, schema, IInv, NothingYet
  <2>4. ASSUME NEW p \in Procs, NEW k \in 1..Newest, Migrate(p, k)
        PROVE  version = k - 1 /\ version' = k
    BY <2>4, MigratesInOrder
  <2>5. ASSUME NEW b \in OldBuilds, OldCreate(b)
        PROVE  version = 0 /\ version' = b /\ b \in Nat
    BY <2>5, OldAssumption DEF OldCreate, IInv, NothingYet, Newest
  <2>6. ASSUME NEW p \in Procs, ToV1(p) \/ ToV2(p) \/ ToV3(p) \/ ToV4(p) \/ ToV5(p) \/ ToV6(p)
        PROVE  \E k \in 1..Newest : Migrate(p, k)
    BY <2>6 DEF ToV1, ToV2, ToV3, ToV4, ToV5, ToV6, Newest
  <2>7. version' = version
        \/ (\E p \in Procs : Create(p) \/ ToV1(p) \/ ToV2(p) \/ ToV3(p) \/ ToV4(p) \/ ToV5(p) \/ ToV6(p))
        \/ (\E b \in OldBuilds : OldCreate(b))
    BY DEF Next, vars, schema, Open, Look, ReadVersion, Skip, Fail, Close, Write, OldConnect, OldLeave,
           OldWrite, WriteAny
  <2> QED
    BY <2>1, <2>2, <2>3, <2>4, <2>5, <2>6, <2>7 DEF Newest
<1> QED
  BY <1>1, Invariance, PTL DEF Spec, NeverBackwards

\* Opening a database loses no row, edge, claim or vector of a stored row, at whichever
\* version it was and whatever fails.
THEOREM NothingIsDropped == Spec => DataSurvives
<1>1. IInv /\ [Next]_vars =>
        (pc' # pc \/ next' # next =>
           /\ rows' = rows
           /\ relations \subseteq relations'
           /\ origin \subseteq origin' /\ owners \subseteq owners'
           /\ vectors \cap rows \subseteq vectors')
  <2> SUFFICES ASSUME IInv, [Next]_vars, pc' # pc \/ next' # next
               PROVE  /\ rows' = rows
                      /\ relations \subseteq relations'
                      /\ origin \subseteq origin' /\ owners \subseteq owners'
                      /\ vectors \cap rows \subseteq vectors'
    OBVIOUS
  <2>1. PICK p \in Procs : Open(p) \/ Fail(p) \/ Close(p)
    BY DEF Next, vars, Write, OldConnect, OldCreate, OldLeave, OldWrite, WriteAny
  <2> QED
    BY <2>1 DEF Open, Look, Create, ReadVersion, Skip, Fail, Close, ToV1, ToV2, ToV3, ToV4, ToV5, ToV6,
                Swapped, LiveVectors, data
<1> QED
  BY <1>1, Invariance, PTL DEF Spec, DataSurvives

=============================================================================

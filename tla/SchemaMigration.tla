--------------------------- MODULE SchemaMigration ----------------------------
(***************************************************************************)
(* Opening a database (src/src/db.rs): creating the schema, and migrating  *)
(* one that an older build left, while other processes open it too and     *)
(* older builds that already had it open keep writing.                     *)
(*                                                                         *)
(* A process looks whether the schema exists, creates it or reads its      *)
(* version, and then takes one migration after the other, each a           *)
(* transaction of its own under the write lock.  The version it read is    *)
(* old by then: every migration reads it again.                            *)
(***************************************************************************)
EXTENDS Naturals

CONSTANTS
  Procs,         \* processes of this build that open the database
  Ids,           \* memories
  Edges,         \* relations there may be among them
  FirstVersions, \* versions of the databases that are there to begin with
  OldBuilds,     \* schema versions of older builds that run beside this one
  MaxFailures    \* bound on crashes and failed transactions

Newest == 6  \* SCHEMA_VERSION

\* Pieces of the schema, and the version each came with.  "learning" is the widened
\* CHECK of `kind`, "provenance" the four columns of V2_COLUMNS.
Since == [vec |-> 0, learning |-> 1, meta |-> 1, provenance |-> 2, vec_triggers |-> 2,
          origin |-> 3, keywords |-> 4, owners |-> 5, pairs |-> 6]
Pieces    == DOMAIN Since
Columns   == {"learning", "provenance", "origin", "keywords"}  \* of `memories` itself
PiecesOf(v) == {x \in Pieces : Since[x] <= v}

\* The full-text index has the keywords or not, and so have the triggers that feed it.
Widths     == {"narrow", "wide"}
WidthOf(v) == IF v < 4 THEN "narrow" ELSE "wide"

ASSUME EdgesAssumption    == Edges \subseteq Ids \X Ids
ASSUME VersionsAssumption == FirstVersions \subseteq 0..(Newest + 1)
ASSUME OldAssumption      == OldBuilds \subseteq 0..(Newest - 1)
ASSUME BoundAssumption    == MaxFailures \in Nat

VARIABLES
  exists,     \* whether there is a table `memories`
  version,    \* PRAGMA user_version
  has,        \* the pieces of the schema that are there
  fts,        \* columns of memories_fts
  triggers,   \* columns the triggers of `memories` write to it
  rows,       \* memories
  origin,     \* those imported from a known worktree (source and origin_repo)
  relations,  \* memory_relations
  vectors,    \* ids in memories_vec
  indexed,    \* rows that full-text search finds
  owners,     \* rows with a claim in memory_owners
  pc, next,   \* where each process is, and its next migration
  old,        \* older builds that have the database open
  failures    \* crashes and failures so far

schema == <<version, has, fts, triggers>>
data   == <<rows, origin, relations, vectors, indexed, owners>>
vars   == <<exists, schema, data, pc, next, old, failures>>

-----------------------------------------------------------------------------
(***************************************************************************)
(* Opening                                                                 *)
(***************************************************************************)

\* init_pragmas_and_schema: the look that spares most processes the write lock.
Look(p) ==
  /\ pc[p] = "closed"
  /\ pc' = [pc EXCEPT ![p] = IF exists THEN "version" ELSE "create"]
  /\ UNCHANGED <<exists, schema, data, next, old, failures>>

\* Under the write lock, the process looks again.
Create(p) ==
  /\ pc[p] = "create"
  /\ IF exists
     THEN /\ pc' = [pc EXCEPT ![p] = "version"]
          /\ UNCHANGED <<exists, schema>>
     ELSE /\ exists' = TRUE
          /\ version' = Newest
          /\ has' = Pieces
          /\ fts' = WidthOf(Newest)
          /\ triggers' = WidthOf(Newest)
          /\ pc' = [pc EXCEPT ![p] = "open"]
  /\ UNCHANGED <<data, next, old, failures>>

\* A database of a newer build is refused.
ReadVersion(p) ==
  /\ pc[p] = "version"
  /\ pc' = [pc EXCEPT ![p] = CASE version > Newest -> "refused"
                               [] version = Newest -> "open"
                               [] OTHER            -> "step"]
  /\ next' = [next EXCEPT ![p] = version + 1]
  /\ UNCHANGED <<exists, schema, data, old, failures>>

\* The process, or the statement it is at, fails: what was not committed is undone.
Fail(p) ==
  /\ pc[p] # "closed"
  /\ failures < MaxFailures
  /\ failures' = failures + 1
  /\ pc' = [pc EXCEPT ![p] = "closed"]
  /\ UNCHANGED <<exists, schema, data, next, old>>

Close(p) ==
  /\ pc[p] \in {"open", "refused"}
  /\ pc' = [pc EXCEPT ![p] = "closed"]
  /\ UNCHANGED <<exists, schema, data, next, old, failures>>

-----------------------------------------------------------------------------
(***************************************************************************)
(* The migrations                                                          *)
(***************************************************************************)

\* The version, read again under the lock.  (Variant: the one read at first is used.)
NeededOnce(p) == TRUE
Needed(p)     == version < next[p]

Advance(p) ==
  IF next[p] = Newest
  THEN pc' = [pc EXCEPT ![p] = "open"] /\ UNCHANGED next
  ELSE next' = [next EXCEPT ![p] = @ + 1] /\ UNCHANGED pc

Migrate(p, k) ==
  /\ pc[p] = "step"
  /\ next[p] = k
  /\ Needed(p)
  /\ version' = k
  /\ Advance(p)
  /\ UNCHANGED <<exists, old, failures>>

Skip(p) ==
  /\ pc[p] = "step"
  /\ ~Needed(p)
  /\ Advance(p)
  /\ UNCHANGED <<exists, schema, data, old, failures>>

\* Adding a column that is there is an error, so has_column is asked first: the table
\* that v1 builds has all of them.  (Variant: nobody asks.)
AltersAlways(c) == c \in Columns
Alters(c)       == c \notin has
CanAdd(c)       == ~(Alters(c) /\ c \in has)

\* v1 builds `memories` anew.  Its triggers must fit the index, which stays as it was
\* until v4.  (Variant: today's triggers.)
V4Triggers == WidthOf(4)
V1Triggers == WidthOf(1)
\* foreign_keys is off, or DROP TABLE would delete the edges too.  (Variant: it is on.)
Cascaded  == {}
Swapped   == relations

ToV1(p) ==
  /\ Migrate(p, 1)
  /\ has' = (has \ {"vec_triggers"}) \cup Columns \cup {"meta"}
  /\ triggers' = V1Triggers
  /\ relations' = Swapped
  /\ indexed' = rows
  /\ UNCHANGED <<fts, rows, origin, vectors, owners>>

ToV2(p) ==
  /\ CanAdd("provenance")
  /\ Migrate(p, 2)
  /\ has' = has \cup {"provenance", "vec", "vec_triggers"}
  /\ UNCHANGED <<fts, triggers, data>>

\* Vectors that lost their rows before the triggers of v2 go.  (Variant: they stay.)
AllVectors   == vectors
LiveVectors  == vectors \cap rows

ToV3(p) ==
  /\ CanAdd("origin")
  /\ Migrate(p, 3)
  /\ has' = has \cup {"origin"}
  /\ vectors' = LiveVectors
  /\ UNCHANGED <<fts, triggers, rows, origin, relations, indexed, owners>>

\* The index is dropped, made anew with keywords, and filled.  (Variant: not filled.)
Unfilled == {}
Rebuilt  == rows

ToV4(p) ==
  /\ CanAdd("keywords")
  /\ Migrate(p, 4)
  /\ has' = has \cup {"keywords"}
  /\ fts' = WidthOf(4)
  /\ triggers' = WidthOf(4)
  /\ indexed' = Rebuilt
  /\ UNCHANGED <<rows, origin, relations, vectors, owners>>

\* The worktree a row came from becomes its first owner.
ToV5(p) ==
  /\ Migrate(p, 5)
  /\ has' = has \cup {"owners"}
  /\ owners' = owners \cup origin
  /\ UNCHANGED <<fts, triggers, rows, origin, relations, vectors, indexed>>

ToV6(p) ==
  /\ Migrate(p, 6)
  /\ has' = has \cup {"pairs"}
  /\ UNCHANGED <<fts, triggers, data>>

-----------------------------------------------------------------------------
(***************************************************************************)
(* Writes, by open processes of this build and by older builds             *)
(***************************************************************************)

\* An INSERT or DELETE fails as a whole unless its triggers fit the index.
Insert(id, from, owned) ==
  /\ triggers = fts
  /\ rows' = rows \cup {id}
  /\ indexed' = indexed \cup {id}
  /\ origin' = origin \cup from
  /\ owners' = owners \cup owned
  /\ UNCHANGED <<relations, vectors>>

\* memory_relations and memory_owners cascade, also after v1: foreign_keys is on again
\* when the migration ends.  (Variant: it is left off.)
AllEdges(id)  == relations
KeptEdges(id) == {e \in relations : id \notin {e[1], e[2]}}

Delete(id) ==
  /\ id \in rows
  /\ triggers = fts
  /\ rows' = rows \ {id}
  /\ indexed' = indexed \ {id}
  /\ origin' = origin \ {id}
  /\ owners' = owners \ {id}
  /\ relations' = KeptEdges(id)
  /\ vectors' = IF "vec_triggers" \in has THEN vectors \ {id} ELSE vectors

\* The text was read and embedded before: by now the memory may be gone, and the row of
\* memories_vec is written all the same.
Embed(id) ==
  /\ vectors' = vectors \cup {id}
  /\ UNCHANGED <<rows, origin, relations, indexed, owners>>

Link(e) ==
  /\ e[1] \in rows /\ e[2] \in rows
  /\ relations' = relations \cup {e}
  /\ UNCHANGED <<rows, origin, vectors, indexed, owners>>

WriteAny(from, owned) ==
  /\ \/ \E id \in Ids \ rows : Insert(id, {}, {}) \/ Insert(id, {id} \cap from, {id} \cap owned)
     \/ \E id \in Ids : Delete(id) \/ Embed(id)
     \/ \E e \in Edges : Link(e)
  /\ UNCHANGED <<exists, schema, pc, next, old, failures>>

Write(p) == pc[p] = "open" /\ WriteAny(Ids, Ids)

\* An older build opens only what its own version can read, creates a database of its
\* version, and may keep its connection while this build migrates underneath.
OldConnect(b) ==
  /\ exists /\ version = b
  /\ old' = old \cup {b}
  /\ UNCHANGED <<exists, schema, data, pc, next, failures>>

OldCreate(b) ==
  /\ ~exists
  /\ exists' = TRUE
  /\ version' = b
  /\ has' = PiecesOf(b)
  /\ fts' = WidthOf(b)
  /\ triggers' = WidthOf(b)
  /\ old' = old \cup {b}
  /\ UNCHANGED <<data, pc, next, failures>>

OldLeave(b) ==
  /\ old' = old \ {b}
  /\ UNCHANGED <<exists, schema, data, pc, next, failures>>

\* Builds before v3 know no origin, those before v5 no owners.
OldWrite(b) == b \in old /\ WriteAny(IF b < 3 THEN {} ELSE Ids, IF b < 5 THEN {} ELSE Ids)

-----------------------------------------------------------------------------

Init ==
  /\ exists \in BOOLEAN
  /\ version \in (IF exists THEN FirstVersions ELSE {0})
  /\ has = IF exists THEN PiecesOf(version) ELSE {}
  /\ fts = WidthOf(version)
  /\ triggers = WidthOf(version)
  /\ rows \in (IF exists THEN SUBSET Ids ELSE {{}})
  /\ origin \in (IF version < 3 THEN {{}} ELSE SUBSET rows)
  /\ relations \in SUBSET (Edges \cap (rows \X rows))
  /\ vectors \in (IF exists THEN SUBSET Ids ELSE {{}})
  /\ indexed = rows
  /\ owners = IF version < 5 THEN {} ELSE origin
  /\ pc = [p \in Procs |-> "closed"]
  /\ next = [p \in Procs |-> 1]
  /\ old = {}
  /\ failures = 0

Open(p) == \/ Look(p) \/ Create(p) \/ ReadVersion(p) \/ Skip(p)
           \/ ToV1(p) \/ ToV2(p) \/ ToV3(p) \/ ToV4(p) \/ ToV5(p) \/ ToV6(p)

Next == \/ \E p \in Procs : Open(p) \/ Fail(p) \/ Close(p) \/ Write(p)
        \/ \E b \in OldBuilds : OldConnect(b) \/ OldCreate(b) \/ OldLeave(b) \/ OldWrite(b)

Spec     == Init /\ [][Next]_vars
FairSpec == Spec /\ \A p \in Procs : WF_vars(Open(p))

-----------------------------------------------------------------------------
(***************************************************************************)
(* Properties                                                              *)
(***************************************************************************)

\* Every variable has its type, and what there is of data is about stored rows.
TypeOK ==
  /\ exists \in BOOLEAN
  /\ version \in 0..(Newest + 1)
  /\ has \subseteq Pieces
  /\ fts \in Widths /\ triggers \in Widths
  /\ rows \subseteq Ids
  /\ origin \subseteq rows
  /\ owners \subseteq rows
  /\ relations \subseteq Edges \cap (rows \X rows)
  /\ vectors \subseteq Ids
  /\ indexed \subseteq Ids
  /\ pc \in [Procs -> {"closed", "create", "version", "step", "open", "refused"}]
  /\ next \in [Procs -> 1..(Newest + 2)]
  /\ old \subseteq OldBuilds
  /\ failures \in 0..MaxFailures

\* At every committed version, half-migrated ones included, the schema has what that
\* version promises, and the triggers fit the index, so that whoever has the database
\* open can write to it (V1_DEPENDENTS_SQL's comment).
SchemaMatchesVersion ==
  exists => /\ PiecesOf(version) \subseteq has
            /\ fts = WidthOf(version)
            /\ triggers = fts

\* A process that has the database open works on the current schema, however it got
\* there, and never on one of a newer build.
OpenMeansCurrent == \A p \in Procs : pc[p] = "open" => exists /\ version = Newest

\* Search finds exactly the rows there are, whoever wrote them at which version.
IndexIsExact == exists => indexed = rows

\* The upgrade to v3 leaves no vector of a deleted memory, where it would take a slot of
\* the nearest neighbours, and from v2 on, whoever deletes a memory and however old its
\* build is, the vector goes along (VEC_TRIGGERS_SQL, V3_SQL): only a vector stored
\* after its memory was deleted is one without a memory.
VectorsGoWithTheirRows ==
  [][/\ version < 3 /\ version' >= 3 => vectors' \subseteq rows'
     /\ version >= 2 => vectors' \cap rows \subseteq rows']_vars

\* The version never goes back, though every process migrates from the version it read
\* before it had the lock.
NeverBackwards == [][version' >= version]_vars

\* Opening loses nothing: rows, edges, claims and the vectors of stored rows all
\* survive creation and every migration.
DataSurvives ==
  [][pc' # pc \/ next' # next =>
       /\ rows' = rows
       /\ relations \subseteq relations'
       /\ origin \subseteq origin' /\ owners \subseteq owners'
       /\ vectors \cap rows \subseteq vectors']_vars

\* Whatever fails or dies in between, the database ends up with the current schema, if
\* it is not a newer build's.
UpgradeCompletes == <>[](exists /\ version >= Newest)
=============================================================================

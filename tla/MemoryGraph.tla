----------------------------- MODULE MemoryGraph -----------------------------
(***************************************************************************)
(* The tables of one memdag database and the operations of `MemoryStore`   *)
(* (src/src/store.rs) on memories that live only in the database: the      *)
(* `memories` rows, the `memory_relations` edges and the `reviewed_pairs`. *)
(*                                                                         *)
(* Several processes (MCP servers, CLI calls, workers) share the database; *)
(* each operation below runs in ONE immediate SQLite transaction (or one   *)
(* autocommit statement), so each is one action.  An operation that the    *)
(* code refuses (`bail!`, a primary key conflict) changes nothing and has  *)
(* no action.  Operations that take several transactions are composed from *)
(* these actions in WorkQueue; rows backed by files are in Importer.       *)
(***************************************************************************)
EXTENDS Naturals, FiniteSets

CONSTANTS
  Ids,          \* memory ids
  Kinds,        \* the kinds recorded in this instance
  Sessions,     \* agent session ids
  LinkTypes,    \* relation types agents pass to link_entities
  CitesAtBirth, \* provenance of a new row: a subset of {"none", "current"}
  MaxLearnings, \* learnings passed to one consolidate_session call
  MaxRelations, \* bound on the number of edges, in the guards
  NoRow, NoId, NoSession

AllKinds    == {"decision", "task", "invariant", "blocker", "learning", "ephemeral"}
AllStatuses == {"active", "superseded", "resolved", "ephemeral"}
AllTypes    == {"supersedes", "depends_on", "blocks", "references"}

ASSUME KindsAssumption     == Kinds \subseteq AllKinds
ASSUME LinkTypesAssumption == LinkTypes \subseteq AllTypes
ASSUME CitesAssumption     == CitesAtBirth \subseteq {"none", "current"}
ASSUME NullsAssumption     == /\ NoId \notin Ids
                              /\ NoSession \notin Sessions
                              /\ IsFiniteSet(Ids)

\* A row of `memories`.  `keywords` says whether the column is not NULL, `aged`
\* whether `created_at` is older than the ephemeral TTL, `cites` whether the row
\* cites paths and, if so, whether their content still is the recorded baseline.
Row == [kind     : AllKinds,
        status   : AllStatuses,
        session  : Sessions \cup {NoSession},
        keywords : BOOLEAN,
        aged     : BOOLEAN,
        cites    : {"none", "current", "changed"}]

ASSUME NoRowAssumption == NoRow \notin Row

VARIABLES
  mem,        \* memories: id -> row, or NoRow
  relations,  \* memory_relations: a set of <<source, target, type>>
  reviewed,   \* reviewed_pairs: the set of {a, b} that carry a verdict
  swept       \* history: rows that lost a superseder to an ephemeral sweep

vars == <<mem, relations, reviewed, swept>>

Stored == {i \in Ids : mem[i] # NoRow}
Pairs  == {p \in SUBSET Ids : Cardinality(p) = 2}

Supersedes(s, t) == <<s, t, "supersedes">> \in relations
Blocks(s, t)     == <<s, t, "blocks">> \in relations

\* Only kind `ephemeral` starts with status `ephemeral` (insert_memory).
StatusAtBirth(kind) == IF kind = "ephemeral" THEN "ephemeral" ELSE "active"

NewRow(kind, status, session, cites) ==
  [kind |-> kind, status |-> status, session |-> session,
   keywords |-> FALSE, aged |-> FALSE, cites |-> cites]

\* The predicate of both sweeps: `status = 'ephemeral' OR kind = 'ephemeral'`.
\* (Variant: by status only, as the column named for it suggests.)
IsScratchByStatus(row) == row.status = "ephemeral"
IsScratch(row) == row.status = "ephemeral" \/ row.kind = "ephemeral"

\* NEEDS_KEYWORDS, DURABLE_KINDS / is_consolidatable, and list_ready.
NeedsKeywords(i) == /\ i \in Stored
                    /\ ~mem[i].keywords
                    /\ mem[i].kind # "ephemeral"
                    /\ mem[i].status # "superseded"

Consolidatable(i) == /\ i \in Stored
                     /\ mem[i].status = "active"
                     /\ mem[i].kind \in {"decision", "invariant", "learning"}

Ready == {i \in Stored : /\ mem[i].status = "active"
                         /\ mem[i].kind \in {"task", "blocker"}
                         /\ ~\E b \in Stored : Blocks(b, i) /\ mem[b].status = "active"}

-----------------------------------------------------------------------------
(***************************************************************************)
(* Operations                                                              *)
(***************************************************************************)

\* Edges and reviews of a deleted row go with it (ON DELETE CASCADE).  The
\* variants: the foreign_keys pragma is off; one key lacks the clause.
EdgesKept(gone)         == relations
EdgesWithoutSource(gone) == {e \in relations : e[1] \notin gone}
EdgesWithout(gone)      == {e \in relations : e[1] \notin gone /\ e[2] \notin gone}

ReviewsWithout(gone) == {p \in reviewed : p \cap gone = {}}

\* DELETE of the rows `gone` from the table `table`, with its cascades.
DeleteRows(table, gone) ==
  /\ mem' = [i \in Ids |-> IF i \in gone THEN NoRow ELSE table[i]]
  /\ relations' = EdgesWithout(gone)
  /\ reviewed' = ReviewsWithout(gone)
  /\ swept' = (swept \cup {t \in Ids : \E s \in gone : Supersedes(s, t)}) \ gone

\* The row insert is a plain INSERT: a primary key in use refuses the operation.
\* (Variant: INSERT OR REPLACE.)
MayReplace(id) == id \in Ids
IdIsFree(id)   == mem[id] = NoRow

\* The edge a row is born with.  (Variant: the target is retired without an edge that
\* says by what.)
NoEdge(id, target)       == {}
EdgesAtBirth(id, target) == {<<id, t, "supersedes">> : t \in {target} \ {NoId}}

\* insert_memory: retire the superseded target, insert the row and the edge.
\* `supersedes_id` must exist, whatever its status; an id in use is refused.
RecordMemory(id, kind, session, target, cites) ==
  /\ IdIsFree(id)
  /\ target # NoId => mem[target] # NoRow /\ Cardinality(relations) < MaxRelations
  /\ mem' = [i \in Ids |->
               IF i = id THEN NewRow(kind, StatusAtBirth(kind), session, cites)
               ELSE IF i = target THEN [mem[i] EXCEPT !.status = "superseded"]
               ELSE mem[i]]
  /\ relations' = relations \cup EdgesAtBirth(id, target)
  /\ UNCHANGED <<reviewed, swept>>

\* link_entities: both ends must exist; any pair, any type, no status change.
LinkEntities(source, target, type) ==
  /\ mem[source] # NoRow
  /\ mem[target] # NoRow
  /\ Cardinality(relations) < MaxRelations
  /\ relations' = relations \cup {<<source, target, type>>}
  /\ UNCHANGED <<mem, reviewed, swept>>

\* resolve_memory on a row without a note file: whatever its kind and status.
ResolveMemory(id) ==
  /\ mem[id] # NoRow
  /\ mem' = [mem EXCEPT ![id].status = "resolved"]
  /\ UNCHANGED <<relations, reviewed, swept>>

\* set_keywords.
SetKeywords(id) ==
  /\ mem[id] # NoRow
  /\ mem[id].kind # "ephemeral"
  /\ mem[id].status # "superseded"
  /\ mem' = [mem EXCEPT ![id].keywords = TRUE]
  /\ UNCHANGED <<relations, reviewed, swept>>

\* mark_pair_reviewed: both members must exist (foreign keys).
MarkPairReviewed(pair) ==
  /\ pair \subseteq Stored
  /\ reviewed' = reviewed \cup {pair}
  /\ UNCHANGED <<mem, relations, swept>>

\* confirm_memory on a row without a source: the cited content of now becomes the
\* baseline.  That the row is active is checked by an earlier statement (see
\* WorkQueue); the update itself does not ask.
ConfirmMemory(id) ==
  /\ mem[id] # NoRow
  /\ mem[id].cites # "none"
  /\ mem' = [mem EXCEPT ![id].cites = "current"]
  /\ UNCHANGED <<relations, reviewed, swept>>

\* The rows consolidate_tx inserts: every learning starts active, in the session.
WithLearnings(session, learnings) ==
  [i \in Ids |-> IF i \in DOMAIN learnings
                 THEN NewRow(learnings[i], "active", session, "none")
                 ELSE mem[i]]

\* (Variant: the whole session.)
RowsOf(table, session) == {i \in Ids : table[i] # NoRow /\ table[i].session = session}

ScratchOf(table, session) ==
  {i \in Ids : /\ table[i] # NoRow
               /\ table[i].session = session
               /\ IsScratch(table[i])}

\* consolidate_tx: insert the learnings (fresh ids), then delete the session's
\* scratch rows or archive them as resolved, all in one transaction.
ConsolidateSession(session, learnings, purge) ==
  LET table   == WithLearnings(session, learnings)
      scratch == ScratchOf(table, session)
  IN  /\ \A i \in DOMAIN learnings : mem[i] = NoRow
      /\ \/ /\ purge
            /\ DeleteRows(table, scratch)
         \/ /\ ~purge
            /\ mem' = [i \in Ids |-> IF i \in scratch
                                     THEN [table[i] EXCEPT !.status = "resolved"]
                                     ELSE table[i]]
            /\ UNCHANGED <<relations, reviewed, swept>>

\* purge_expired_ephemeral: run at the start of every CLI command.
\* (Variant: by status only, which an archived or superseded scratch row has lost.)
ExpiredByStatus == {i \in Stored : mem[i].status = "ephemeral" /\ mem[i].aged}
Expired == {i \in Stored : IsScratch(mem[i]) /\ mem[i].aged}

PurgeExpiredEphemeral ==
  /\ Expired # {}
  /\ DeleteRows(mem, Expired)

\* The clock passes the TTL of a scratch row (nothing reads the age of another).
Age(id) ==
  /\ mem[id] # NoRow
  /\ IsScratch(mem[id])
  /\ ~mem[id].aged
  /\ mem' = [mem EXCEPT ![id].aged = TRUE]
  /\ UNCHANGED <<relations, reviewed, swept>>

\* Someone edits a file the row cites, or puts its recorded content back.
EditCitedFile(id) ==
  /\ mem[id] # NoRow
  /\ mem[id].cites # "none"
  /\ mem' = [mem EXCEPT ![id].cites = IF @ = "current" THEN "changed" ELSE "current"]
  /\ UNCHANGED <<relations, reviewed, swept>>

-----------------------------------------------------------------------------
Init ==
  /\ mem = [i \in Ids |-> NoRow]
  /\ relations = {}
  /\ reviewed = {}
  /\ swept = {}

Learnings == UNION {[new -> Kinds] : new \in {n \in SUBSET Ids : Cardinality(n) <= MaxLearnings}}

\* What agents and the sweeps do to the graph ...
AgentNext ==
  \/ \E id \in Ids, kind \in Kinds, session \in Sessions \cup {NoSession},
        target \in Ids \cup {NoId}, cites \in CitesAtBirth :
       RecordMemory(id, kind, session, target, cites)
  \/ \E source, target \in Ids, type \in LinkTypes : LinkEntities(source, target, type)
  \/ \E id \in Ids : ResolveMemory(id)
  \/ \E session \in Sessions, learnings \in Learnings, purge \in BOOLEAN :
       ConsolidateSession(session, learnings, purge)
  \/ PurgeExpiredEphemeral
  \/ \E id \in Ids : Age(id)

\* ... and what upkeep does: keywords, reviewed pairs, re-baselined memories.
UpkeepNext ==
  \/ \E id \in Ids : SetKeywords(id)
  \/ \E pair \in Pairs : MarkPairReviewed(pair)
  \/ \E id \in Ids : ConfirmMemory(id)
  \/ \E id \in Ids : EditCitedFile(id)

Next == AgentNext \/ UpkeepNext

Spec == Init /\ [][Next]_vars

\* Some memdag command is run again and again; each one starts with the sweep.
FairSpec == Spec /\ WF_vars(PurgeExpiredEphemeral)

-----------------------------------------------------------------------------
(***************************************************************************)
(* Properties                                                              *)
(***************************************************************************)

\* Every row, edge and review has the shape its CHECK constraints and keys demand.
TypeOK ==
  /\ mem \in [Ids -> Row \cup {NoRow}]
  /\ relations \subseteq Ids \X Ids \X AllTypes
  /\ reviewed \subseteq Pairs
  /\ swept \subseteq Ids

\* No edge and no review outlives a row it names: an id that is recorded again
\* after a sweep (explicit ids may be) starts without the old row's edges.
NoDanglingReferences ==
  /\ \A e \in relations : e[1] \in Stored /\ e[2] \in Stored
  /\ \A p \in reviewed : p \subseteq Stored

\* Scratch memories never surface as active ones, although consolidate_tx inserts
\* every learning, of whatever kind, as active: its sweep, in the same
\* transaction, catches them by kind.  So no default search, staleness check or
\* ready queue ever shows one; and only scratch carries the scratch status.
ScratchNeverActive ==
  \A i \in Stored : /\ mem[i].kind = "ephemeral" => mem[i].status # "active"
                    /\ mem[i].status = "ephemeral" => mem[i].kind = "ephemeral"

\* A superseded memory names what replaced it: it has an incoming `supersedes`
\* edge, unless the superseder was scratch and has been swept.  Without this, a
\* hidden memory could not be traced to its replacement.
SupersededIsExplained ==
  \A t \in Stored :
    mem[t].status = "superseded" => t \in swept \/ \E s \in Stored : Supersedes(s, t)

\* The "zombie context" the design is about: whatever agents do, in whatever
\* order, a superseded or resolved row is never active again.
NoZombies ==
  [][\A i \in Ids :
       /\ mem[i] # NoRow
       /\ mem[i].status \in {"superseded", "resolved"}
       /\ mem'[i] # NoRow
       => mem'[i].status \notin {"active", "ephemeral"}]_vars

\* Only scratch is ever deleted, and only edges and reviews of scratch go with
\* it: consolidating and sweeping lose no durable memory, task, link or verdict.
Lost == {i \in Stored : mem'[i] = NoRow}

DurableKnowledgeSurvives ==
  [][/\ \A i \in Lost : mem[i].kind = "ephemeral"
     /\ \A e \in relations \ relations' : e[1] \in Lost \/ e[2] \in Lost
     /\ \A p \in reviewed \ reviewed' : p \cap Lost # {}]_vars

\* A task an agent was offered by list_ready stays claimable until it is settled
\* itself or someone links a new blocker to it: settling, sweeping or re-recording
\* OTHER memories never takes it out of the queue.
ReadyUntilSettledOrBlocked ==
  [][\A t \in Ready :
       \/ t \in Ready'
       \/ mem'[t].status # "active"
       \/ \E b \in Ids : <<b, t, "blocks">> \in relations' \ relations]_vars

\* Scratch that outlived its TTL is eventually deleted, also when its session
\* crashed or archived it, or it was superseded or resolved meanwhile.
ExpiredIsSwept ==
  \A i \in Ids : (mem[i] # NoRow /\ IsScratch(mem[i]) /\ mem[i].aged) ~> (mem[i] = NoRow)

=============================================================================

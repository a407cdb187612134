------------------------------- MODULE Importer -------------------------------
(***************************************************************************)
(* Rows that are backed by files of a repository: the importer             *)
(* (src/src/import.rs) and the write-through operations of `MemoryStore`   *)
(* that create notes and resolution sidecars (src/src/store.rs).           *)
(*                                                                         *)
(* All worktrees of the repository share one database.  A process works in *)
(* one worktree; an import first reads that worktree (Scan), then runs one *)
(* transaction on what it read (Apply), then records the HEAD it read      *)
(* (RecordHead).  Other processes, and people editing files, run between   *)
(* these steps, and a process may die between any two of them.             *)
(*                                                                         *)
(* An id belongs to one source (ids of commits, ADRs and notes differ by   *)
(* their prefix), so a collision is one of an imported id with a row that  *)
(* was recorded directly.  Of the relation types only `supersedes` reacts  *)
(* to an import; texts, tags and fingerprints are left out.                *)
(***************************************************************************)
EXTENDS FiniteSets

CONSTANTS
  Ids,        \* memory ids
  SourceOf,   \* the source that may back an id: "note", "adr" or "git"
  Worktrees,
  Procs,      \* processes ...
  Home,       \* ... and the worktree each one works in
  Commits,    \* commits; those in Ids carry a `Decision:` trailer
  History,    \* the commits reachable from a commit, itself included
  Docs,       \* the documents people may give a file of an id in this instance
  Modes,      \* the imports that are run: a subset of AllModes
  Failures,   \* what one scan may fail to read, together: sets of FailsToRead
  NoRow, NoDoc, NoId, NoCommit, Idle

AllModes == {"auto",   \* auto_refresh: all sources, git incrementally, if HEAD moved
             "full",   \* memdag import
             "git",    \* memdag import --git
             "files"}  \* memdag import --adr --notes

Sources == {"note", "adr", "git"}

\* A directory of documents, the git log, the repository's list of worktrees.
FailsToRead == Sources \cup {"worktrees"}

\* A note names the memory it supersedes, an ADR the one it is superseded by
\* (`names`); `superseded` is an ADR's Status line, `resolved` a note's sidecar.
Doc == [readable : BOOLEAN, names : Ids \cup {NoId},
        superseded : BOOLEAN, resolved : BOOLEAN]

\* A row of `memories`; `durable` are the kinds an imported note may adopt or hide.
Row == [source  : {"none", "note", "adr", "git"},
        durable : BOOLEAN,
        status  : {"active", "superseded", "resolved"}]

FileIds == {i \in Ids : SourceOf[i] # "git"}
NoteIds == {i \in Ids : SourceOf[i] = "note"}

\* What a process is in the middle of: between a scan and its transaction, between that
\* and the recording of HEAD, between a note's file and its row, a sidecar and its row.
ScanJobs == [at : {"apply"}, items : [Ids -> Doc \cup {NoDoc}],
             keep : SUBSET Ids, prune : SUBSET Sources,
             listed : SUBSET Worktrees, head : Commits \cup {NoCommit}]
HeadJobs == [at : {"head"}, head : Commits]
NoteJobs == [at : {"insert"}, id : NoteIds, names : Ids \cup {NoId}]
ResolveJobs == [at : {"resolve"}, id : NoteIds]

\* Only notes have sidecars, only ADRs a Status line, and only a superseded ADR
\* names another.
FitsSource(i, doc) ==
  IF SourceOf[i] = "adr" THEN ~doc.resolved /\ (doc.names # NoId => doc.superseded)
  ELSE ~doc.superseded

ASSUME SourceAssumption  == SourceOf \in [Ids -> {"note", "adr", "git"}]
ASSUME HomeAssumption    == Home \in [Procs -> Worktrees]
ASSUME HistoryAssumption == /\ History \in [Commits -> SUBSET Commits]
                            /\ \A c \in Commits : c \in History[c]
                            /\ \A c \in Commits : \A d \in History[c] : History[d] \subseteq History[c]
                            /\ \A i \in Ids : SourceOf[i] = "git" <=> i \in Commits
ASSUME DocsAssumption    == /\ Docs \in [FileIds -> SUBSET Doc]
                            /\ \A i \in FileIds : \A doc \in Docs[i] : FitsSource(i, doc)
ASSUME ModesAssumption   == Modes \subseteq AllModes
ASSUME FailuresAssumption == Failures \subseteq SUBSET FailsToRead
ASSUME AbsentAssumption  == NoRow \notin Row /\ NoDoc \notin Doc /\ NoId \notin Ids
                            /\ NoCommit \notin Commits
ASSUME IdleAssumption    == Idle \notin ScanJobs \cup HeadJobs

VARIABLES
  files,    \* the documents in each worktree: [Worktrees -> [FileIds -> Doc or NoDoc]]
  head,     \* HEAD of each worktree
  listed,   \* the worktrees git knows about
  rows,     \* memories
  owners,   \* memory_owners: <<id, worktree>>
  edges,    \* memory_relations of type supersedes: <<source, target>>
  pending,  \* pending_relations: <<source, target>>
  heads,    \* memdag_meta last_import_head:<worktree>
  job,      \* what each process is in the middle of
  said      \* history: the document each row was last applied from, or NoDoc

vars  == <<files, head, listed, rows, owners, edges, pending, heads, job, said>>
tree  == <<files, head, listed>>
db    == <<rows, owners, edges, pending, said>>

Stored  == {i \in Ids : rows[i] # NoRow}
Sourced == {i \in Stored : rows[i].source # "none"}
ClaimedBy(w) == {i \in Ids : <<i, w>> \in owners}

PlainDoc == [readable |-> TRUE, names |-> NoId, superseded |-> FALSE, resolved |-> FALSE]

\* The edges a document states.
StatedBy(i, doc) ==
  IF doc.names = NoId THEN {}
  ELSE IF SourceOf[i] = "adr" THEN {<<doc.names, i>>} ELSE {<<i, doc.names>>}

-----------------------------------------------------------------------------
(***************************************************************************)
(* Reading a worktree                                                      *)
(***************************************************************************)

\* The commit `--since` names: refresh_if_stale passes the recorded HEAD if the
\* current one descends from it.
Since(w, mode) ==
  {c \in {heads[w]} \ {NoCommit} : mode = "auto" /\ c \in History[head[w]]}

\* The sources that an import asks for and can read.  A directory that cannot be
\* listed, or a git log that fails, is a warning, and the import goes on without.
Read(mode, lost) ==
  (CASE mode = "git"   -> {"git"}
     [] mode = "files" -> {"note", "adr"}
     [] OTHER          -> Sources) \ lost

\* collect_git: the decisions in `since..HEAD`.
GitItems(w, read, since) ==
  IF "git" \notin read \/ head[w] = NoCommit THEN {}
  ELSE Ids \cap (History[head[w]] \ UNION {History[c] : c \in since})

\* collect_adrs, collect_notes: what they can read, and what they cannot (`keep`).
FileItems(w, read) ==
  {i \in FileIds : SourceOf[i] \in read /\ files[w][i] # NoDoc /\ files[w][i].readable}
Unreadable(w, read) ==
  {i \in FileIds : SourceOf[i] \in read /\ files[w][i] # NoDoc /\ ~files[w][i].readable}

\* The sources that were scanned completely: not git if only from a commit on.
\* (Variant: git whenever it is scanned.)
PrunedAlways(w, read, since) ==
  {s \in read : s = "git" => head[w] # NoCommit}
Pruned(w, read, since) ==
  {s \in read : s = "git" => head[w] # NoCommit /\ since = {}}

\* Checkout::of: the worktrees git lists; when the list cannot be read, none counts
\* as gone.  (Variant: then this worktree counts as the only one.)
ListedOrHere(w, lost) == IF "worktrees" \in lost THEN {w} ELSE listed
NotGone(w, lost) == IF "worktrees" \in lost THEN Worktrees ELSE listed

\* import_repo up to its transaction.  The sources are read one after the other and
\* git's worktree list last; here at one moment, with everything else between it
\* and the transaction.
Scan(p, mode, lost) ==
  LET w == Home[p]
      read  == Read(mode, lost)
      since == Since(w, mode)
      items == GitItems(w, read, since) \cup FileItems(w, read)
  IN  /\ job[p] = Idle
      /\ w \in listed
      /\ mode = "auto" => head[w] # NoCommit /\ heads[w] # head[w]
      /\ job' = [job EXCEPT ![p] =
                   [at     |-> "apply",
                    items  |-> [i \in Ids |-> IF i \notin items THEN NoDoc
                                              ELSE IF SourceOf[i] = "git" THEN PlainDoc
                                              ELSE files[w][i]],
                    keep   |-> Unreadable(w, read),
                    prune  |-> Pruned(w, read, since),
                    listed |-> NotGone(w, lost),
                    head   |-> IF "git" \in read THEN head[w] ELSE NoCommit]]
      /\ UNCHANGED <<tree, db, heads>>

-----------------------------------------------------------------------------
(***************************************************************************)
(* apply: one transaction on what was read                                 *)
(***************************************************************************)

\* An import refreshes the rows of its source and adopts a durable row without one
\* if it is a note; any other row with the id refuses the item.
MayApply(i) ==
  \/ rows[i] = NoRow
  \/ rows[i].source = SourceOf[i]
  \/ rows[i].source = "none" /\ SourceOf[i] = "note" /\ rows[i].durable

ItemsOf(b) == {i \in Ids : b.items[i] # NoDoc}
Applied(b) == {i \in ItemsOf(b) : MayApply(i)}
Refused(b) == ItemsOf(b) \ Applied(b)

\* The upsert of an item: a document may retire a row, never make it active again.
Upsert(i, doc) ==
  [source  |-> SourceOf[i],
   durable |-> TRUE,
   status  |-> IF doc.superseded THEN "superseded"
               ELSE IF doc.resolved /\ (rows[i] = NoRow \/ rows[i].status # "superseded")
                    THEN "resolved"
               ELSE IF rows[i] = NoRow THEN "active" ELSE rows[i].status]

Stated(b) == UNION {StatedBy(i, b.items[i]) : i \in ItemsOf(b)}

\* Edges out of an applied row that no document states any more.
Dropped(b) ==
  LET applied == Applied(b)
      stated  == Stated(b)
  IN  {e \in edges \cup pending : e[1] \in applied /\ e \notin stated}

\* Every pending edge whose ends both exist now, old or new, becomes a relation.
Awaiting(b) ==
  LET refused == Refused(b)
  IN  (pending \ Dropped(b)) \cup {e \in Stated(b) : e[1] # e[2] /\ e[1] \notin refused}
Resolvable(b, table) == {e \in Awaiting(b) : table[e[1]] # NoRow /\ table[e[2]] # NoRow}

Hidden(table, targets) ==
  [i \in Ids |-> IF i \in targets /\ table[i] # NoRow
                    /\ (table[i].source # "none" \/ table[i].durable)
                 THEN [table[i] EXCEPT !.status = "superseded"]
                 ELSE table[i]]

NothingUnclaimed(table, b, w) == {}

\* The claims that are left: this worktree's on what a complete scan did not
\* produce go, and every claim of a worktree that counts as gone.
Unclaimed(table, b, w) ==
  {i \in Ids \ (ItemsOf(b) \cup b.keep) : table[i] # NoRow /\ table[i].source \in b.prune} \X {w}
ClaimsLeft(table, b, w) ==
  {o \in (owners \cup (Applied(b) \X {w})) \ Unclaimed(table, b, w) : o[2] \in b.listed}

\* Rows of the repository that no worktree claims any more.
OrphansSeenEarly(table, claims) ==
  {i \in Ids : table[i] # NoRow /\ table[i].source # "none" /\ ~\E v \in Worktrees : <<i, v>> \in owners}

Orphans(table, claims) ==
  {i \in Ids : table[i] # NoRow /\ table[i].source # "none" /\ ~\E v \in Worktrees : <<i, v>> \in claims}

\* Deleting a row cascades to the relations on both its ends.
EdgesOfSources(related, gone) == {e \in related : e[1] \notin gone}

EdgesLeft(related, gone) == {e \in related : e[1] \notin gone /\ e[2] \notin gone}

\* The rows that may have lost their last superseder, or say they have none.
FreedByEdits(b, related, gone) ==
  {e[2] : e \in Dropped(b)} \cup {i \in Applied(b) : ~b.items[i].superseded}

Freed(b, related, gone) ==
  {e[2] : e \in Dropped(b) \cup {d \in related : d[1] \in gone}}
    \cup {i \in Applied(b) : ~b.items[i].superseded}

Apply(p) ==
  LET b        == job[p]
      applied  == Applied(b)
      upserted == [i \in Ids |-> IF i \in applied THEN Upsert(i, b.items[i]) ELSE rows[i]]
      ready    == Resolvable(b, upserted)
      related  == (edges \ Dropped(b)) \cup ready
      table    == Hidden(upserted, {e[2] : e \in ready})
      claims   == ClaimsLeft(table, b, Home[p])
      orphans  == Orphans(table, claims)
      left     == EdgesLeft(related, orphans)
      current  == {i \in Freed(b, related, orphans) \ orphans :
                     /\ table[i] # NoRow
                     /\ table[i].status = "superseded"
                     /\ ~\E s \in Ids : <<s, i>> \in left}
  IN  /\ job[p] # Idle
      /\ b.at = "apply"
      /\ rows' = [i \in Ids |->
                    IF i \in orphans THEN NoRow
                    ELSE IF i \in current
                    THEN [table[i] EXCEPT !.status =
                            IF i \in applied /\ b.items[i].resolved THEN "resolved" ELSE "active"]
                    ELSE table[i]]
      /\ owners' = claims
      /\ edges' = left
      /\ pending' = {e \in Awaiting(b) \ ready : e[1] \notin orphans}
      /\ said' = [i \in Ids |-> IF i \in orphans THEN NoDoc
                                ELSE IF i \in applied THEN b.items[i] ELSE said[i]]
      /\ job' = [job EXCEPT ![p] = IF b.head = NoCommit THEN Idle
                                   ELSE [at |-> "head", head |-> b.head]]
      /\ UNCHANGED <<tree, heads>>

\* The HEAD that was read is recorded in a statement of its own.
RecordHead(p) ==
  /\ job[p] # Idle
  /\ job[p].at = "head"
  /\ heads' = [heads EXCEPT ![Home[p]] = job[p].head]
  /\ job' = [job EXCEPT ![p] = Idle]
  /\ UNCHANGED <<tree, db>>

-----------------------------------------------------------------------------
(***************************************************************************)
(* Write-through: memories that agents record and resolve                  *)
(***************************************************************************)

NewDoc(target) == [PlainDoc EXCEPT !.names = target]

\* write_note: both checks, then an atomic create that never replaces a file.
WriteNote(p, i, target) ==
  LET w == Home[p]
  IN  /\ job[p] = Idle
      /\ w \in listed
      /\ rows[i] = NoRow
      /\ target # NoId => rows[target] # NoRow
      /\ files[w][i] = NoDoc
      /\ files' = [files EXCEPT ![w][i] = NewDoc(target)]
      /\ job' = [job EXCEPT ![p] = [at |-> "insert", id |-> i, names |-> target]]
      /\ UNCHANGED <<head, listed, db, heads>>

\* insert_memory for a note: the row, its claim and its edge in one transaction ...
InsertRow(i, row, target) ==
  /\ rows' = [j \in Ids |-> IF j = i THEN row
                            ELSE IF j = target THEN [rows[j] EXCEPT !.status = "superseded"]
                            ELSE rows[j]]
  /\ edges' = edges \cup {<<i, t>> : t \in {target} \ {NoId}}

MayInsert(i, target) == rows[i] = NoRow /\ (target # NoId => rows[target] # NoRow)

InsertNote(p) ==
  LET i == job[p].id
      target == job[p].names
  IN  /\ job[p] # Idle
      /\ job[p].at = "insert"
      /\ MayInsert(i, target)
      /\ InsertRow(i, [source |-> "note", durable |-> TRUE, status |-> "active"], target)
      /\ owners' = owners \cup {<<i, Home[p]>>}
      /\ said' = [said EXCEPT ![i] = NewDoc(target)]
      /\ job' = [job EXCEPT ![p] = Idle]
      /\ UNCHANGED <<tree, pending, heads>>

\* ... and when it is refused, the file at the path is removed again.
InsertNoteFails(p) ==
  /\ job[p] # Idle
  /\ job[p].at = "insert"
  /\ ~MayInsert(job[p].id, job[p].names)
  /\ files' = [files EXCEPT ![Home[p]][job[p].id] = NoDoc]
  /\ job' = [job EXCEPT ![p] = Idle]
  /\ UNCHANGED <<head, listed, db, heads>>

\* record_memory without write-through (or of a task): a row without a source.
RecordLocal(i, durable, target) ==
  /\ MayInsert(i, target)
  /\ InsertRow(i, [source |-> "none", durable |-> durable, status |-> "active"], target)
  /\ UNCHANGED <<tree, owners, pending, heads, job, said>>

\* resolve_memory: where this worktree has the note's file, a sidecar is written
\* first, once; everywhere else only the row changes.
HasNote(w, i) == i \in NoteIds /\ files[w][i] # NoDoc /\ rows[i].source = "note"

ResolveRow(i) == rows' = [rows EXCEPT ![i].status = "resolved"]

WriteSidecar(p, i) ==
  LET w == Home[p]
  IN  /\ job[p] = Idle
      /\ w \in listed
      /\ rows[i] # NoRow
      /\ HasNote(w, i)
      /\ ~files[w][i].resolved
      /\ files' = [files EXCEPT ![w][i].resolved = TRUE]
      /\ job' = [job EXCEPT ![p] = [at |-> "resolve", id |-> i]]
      /\ UNCHANGED <<head, listed, db, heads>>

FinishResolve(p) ==
  LET i == job[p].id
      w == Home[p]
  IN  /\ job[p] # Idle
      /\ job[p].at = "resolve"
      /\ \/ /\ rows[i] # NoRow
            /\ ResolveRow(i)
            /\ UNCHANGED files
         \/ /\ rows[i] = NoRow
            /\ files' = [files EXCEPT ![w][i] = IF @ = NoDoc THEN NoDoc
                                                ELSE [@ EXCEPT !.resolved = FALSE]]
            /\ UNCHANGED rows
      /\ job' = [job EXCEPT ![p] = Idle]
      /\ UNCHANGED <<head, listed, owners, edges, pending, heads, said>>

ResolveWithoutFile(p, i) ==
  /\ job[p] = Idle
  /\ rows[i] # NoRow
  /\ ~HasNote(Home[p], i)
  /\ ResolveRow(i)
  /\ UNCHANGED <<tree, owners, edges, pending, heads, job, said>>

\* The process dies between two steps: its transactions hold, the rest is lost.
Crash(p) ==
  /\ job[p] # Idle
  /\ job' = [job EXCEPT ![p] = Idle]
  /\ UNCHANGED <<tree, db, heads>>

-----------------------------------------------------------------------------
(***************************************************************************)
(* What people do to the worktrees                                         *)
(***************************************************************************)

\* Write, rewrite or delete a document (an editor, a pull, a branch switch); a
\* deleted note takes its sidecar along.
EditFile(w, i, doc) ==
  /\ w \in listed
  /\ files[w][i] # doc
  /\ files' = [files EXCEPT ![w][i] = doc]
  /\ UNCHANGED <<head, listed, db, heads, job>>

\* Commit, amend, reset, switch branches.
MoveHead(w, c) ==
  /\ w \in listed
  /\ head[w] # c
  /\ head' = [head EXCEPT ![w] = c]
  /\ UNCHANGED <<files, listed, db, heads, job>>

\* git worktree remove (or an unmounted disk), while no process works there ...
RemoveWorktree(w) ==
  /\ w \in listed
  /\ \A p \in Procs : Home[p] = w => job[p] = Idle
  /\ listed' = listed \ {w}
  /\ UNCHANGED <<files, head, db, heads, job>>

\* ... and git worktree add at the same path, with the same content.
AddWorktree(w) ==
  /\ w \notin listed
  /\ listed' = listed \cup {w}
  /\ UNCHANGED <<files, head, db, heads, job>>

-----------------------------------------------------------------------------
Init ==
  /\ files = [w \in Worktrees |-> [i \in FileIds |-> NoDoc]]
  /\ head = [w \in Worktrees |-> NoCommit]
  /\ listed = Worktrees
  /\ rows = [i \in Ids |-> NoRow]
  /\ owners = {}
  /\ edges = {}
  /\ pending = {}
  /\ heads = [w \in Worktrees |-> NoCommit]
  /\ job = [p \in Procs |-> Idle]
  /\ said = [i \in Ids |-> NoDoc]

ImportNext ==
  \/ \E p \in Procs, mode \in Modes, lost \in Failures : Scan(p, mode, lost)
  \/ \E p \in Procs : Apply(p)
  \/ \E p \in Procs : RecordHead(p)

AgentNext ==
  \/ \E p \in Procs, i \in NoteIds, target \in Ids \cup {NoId} : WriteNote(p, i, target)
  \/ \E p \in Procs : InsertNote(p)
  \/ \E p \in Procs : InsertNoteFails(p)
  \/ \E i \in Ids, durable \in BOOLEAN, target \in Ids \cup {NoId} : RecordLocal(i, durable, target)
  \/ \E p \in Procs, i \in Ids : WriteSidecar(p, i)
  \/ \E p \in Procs : FinishResolve(p)
  \/ \E p \in Procs, i \in Ids : ResolveWithoutFile(p, i)
  \/ \E p \in Procs : Crash(p)

PeopleNext ==
  \/ \E w \in Worktrees, i \in FileIds : \E doc \in Docs[i] \cup {NoDoc} : EditFile(w, i, doc)
  \/ \E w \in Worktrees, c \in Commits : MoveHead(w, c)

WorktreeNext ==
  \/ \E w \in Worktrees : RemoveWorktree(w)
  \/ \E w \in Worktrees : AddWorktree(w)

Next == ImportNext \/ AgentNext \/ PeopleNext \/ WorktreeNext

Spec == Init /\ [][Next]_vars

\* People run `memdag import` in every worktree again and again, and it can read what
\* it asks for.  (So no process stays between two steps forever; one that dies is back
\* at the start.)
Fairness == \A p \in Procs : []<><<Scan(p, "full", {})>>_vars

-----------------------------------------------------------------------------
(***************************************************************************)
(* Properties                                                              *)
(***************************************************************************)

\* Every table, tree and half-done operation has the shape the code gives it.
TypeOK ==
  /\ files \in [Worktrees -> [FileIds -> Doc \cup {NoDoc}]]
  /\ head \in [Worktrees -> Commits \cup {NoCommit}]
  /\ listed \subseteq Worktrees
  /\ rows \in [Ids -> Row \cup {NoRow}]
  /\ owners \subseteq Ids \X Worktrees
  /\ edges \subseteq Ids \X Ids
  /\ pending \subseteq Ids \X Ids
  /\ heads \in [Worktrees -> Commits \cup {NoCommit}]
  /\ job \in [Procs -> {Idle} \cup ScanJobs \cup HeadJobs \cup NoteJobs \cup ResolveJobs]
  /\ said \in [Ids -> Doc \cup {NoDoc}]

\* Reference counting: a row that came from a source is there exactly as long as
\* some worktree claims it, between any two steps of any processes.
SourcedRowsAreOwned == Sourced = UNION {ClaimedBy(w) : w \in Worktrees}

\* What the importer promises to its readers: the index is the union of what the
\* worktrees claim, and nobody changes what another worktree claims unless that
\* worktree was missing from the list this process read.  A scan in progress is what
\* a process has seen of that list.
SeenBy(p) == IF job[p] # Idle /\ job[p].at = "apply" THEN job[p].listed ELSE Worktrees
Index == INSTANCE OwnedIndex WITH claims <- [w \in Worktrees |-> ClaimedBy(w)],
                                  index  <- Sourced,
                                  seen   <- [p \in Procs |-> SeenBy(p)]

\* Every import, refresh, recording or crash is a step, or no step, of that index.
ImplementsOwnedIndex == Index!Spec

\* Every supersedes edge joins stored rows, whatever was pruned on either side.
EdgesJoinStoredRows == \A e \in edges : e[1] \in Stored /\ e[2] \in Stored

\* A row that shows as superseded has an incoming supersedes edge or says so in its
\* own document: pruning, rewriting or losing the last superseder makes it current
\* again in the same transaction, so no row stays hidden without a reason.
SupersededIsExplained ==
  \A i \in Stored : rows[i].status = "superseded" =>
    \/ \E s \in Stored : <<s, i>> \in edges
    \/ said[i] # NoDoc /\ said[i].superseded

\* What a worktree has: its readable documents and the decisions in its history.
Has(w) == FileItems(w, Sources) \cup GitItems(w, Sources, {})

\* What one process read is still what its worktree holds.
IsCurrent(p) ==
  LET b == job[p] IN
  /\ \A i \in FileIds : IF i \in b.keep
                        THEN files[Home[p]][i] # NoDoc /\ ~files[Home[p]][i].readable
                        ELSE files[Home[p]][i] = b.items[i]
  /\ b.head = head[Home[p]]

\* A complete import of a worktree nobody changed meanwhile leaves this worktree's
\* claims equal to what it has, but for collisions and documents it cannot read.
FullImportIsExact ==
  [][\A p \in Procs :
       /\ job[p] # Idle /\ job[p].at = "apply"
       /\ job[p].prune = Sources
       /\ IsCurrent(p)
       /\ job'[p] # Idle /\ job'[p].at = "head"  \* its transaction runs
       => LET mine == ClaimedBy(Home[p])' IN
          /\ {i \in Has(Home[p]) : rows'[i] = NoRow \/ rows'[i].source # "none"} \subseteq mine
          /\ mine \subseteq Has(Home[p]) \cup job[p].keep]_vars

\* refresh_if_stale reads only the commits after the recorded HEAD, so what lies
\* before it must be in the index already (src/src/import.rs:1305): every decision in
\* the history of the recorded HEAD is claimed by that worktree, unless the id is
\* taken by a row recorded directly.
RecordedHeadIsIndexed ==
  \A w \in listed :
    (heads[w] # NoCommit /\ \A p \in Procs : Home[p] = w => job[p] = Idle)
      => \A i \in Ids \cap History[heads[w]] :
           <<i, w>> \in owners \/ (rows[i] # NoRow /\ rows[i].source = "none")

\* When people and agents pause, the index comes to hold, for each worktree git
\* lists, what that worktree has.
Converged ==
  \A w \in listed :
    /\ {i \in Has(w) : MayApply(i)} \subseteq ClaimedBy(w)
    /\ ClaimedBy(w) \subseteq Has(w) \cup Unreadable(w, Sources)

Finish == ImportNext \/ \E p \in Procs : InsertNote(p) \/ InsertNoteFails(p) \/ FinishResolve(p)
IndexConverges == (<>[][Finish]_vars /\ <>[](\A p \in Procs : Home[p] \in listed)) => <>[]Converged

-----------------------------------------------------------------------------
(***************************************************************************)
(* A statement of the code's comment that it does not keep                 *)
(***************************************************************************)

\* src/src/import.rs:1249: a row becomes current again if it was superseded only by
\* an edge that is now gone; not if its own document says it is superseded.
RetiredAdrsStayRetired ==
  \A i \in Sourced : said[i] # NoDoc /\ said[i].superseded => rows[i].status # "active"

=============================================================================

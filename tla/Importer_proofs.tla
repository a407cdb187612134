---------------------------- MODULE Importer_proofs ----------------------------
(***************************************************************************)
(* Proofs about Importer, for any ids, worktrees, processes, commit graph  *)
(* and documents.                                                          *)
(***************************************************************************)
EXTENDS Importer, TLAPS

\* The stages of Apply, named: the rows after the upserts, the edges that are ready,
\* the rows after hiding their targets, the claims, the rows that go, the edges that
\* stay, and the rows that become current again.
UpsertedRows(b) == [i \in Ids |-> IF i \in Applied(b) THEN Upsert(i, b.items[i]) ELSE rows[i]]
ReadyEdges(b)   == Resolvable(b, UpsertedRows(b))
Related(b)      == (edges \ Dropped(b)) \cup ReadyEdges(b)
HiddenRows(b)   == Hidden(UpsertedRows(b), {e[2] : e \in ReadyEdges(b)})
ClaimsAfter(p)  == ClaimsLeft(HiddenRows(job[p]), job[p], Home[p])
Gone(p)         == Orphans(HiddenRows(job[p]), ClaimsAfter(p))
LeftEdges(p)    == EdgesLeft(Related(job[p]), Gone(p))
Current(p) ==
  {i \in Freed(job[p], Related(job[p]), Gone(p)) \ Gone(p) :
     /\ HiddenRows(job[p])[i] # NoRow
     /\ HiddenRows(job[p])[i].status = "superseded"
     /\ ~\E s \in Ids : <<s, i>> \in LeftEdges(p)}

-----------------------------------------------------------------------------
(***************************************************************************)
(* Types                                                                   *)
(***************************************************************************)

LEMMA PlainDocs ==
  /\ PlainDoc \in Doc
  /\ \A t \in Ids \cup {NoId} : NewDoc(t) \in Doc
BY DEF PlainDoc, NewDoc, Doc

\* What a process is in the middle of is told apart by its first field.
LEMMA JobKinds ==
  ASSUME TypeOK, NEW p \in Procs, job[p] # Idle
  PROVE  /\ job[p].at = "apply"   => job[p] \in ScanJobs
         /\ job[p].at = "head"    => job[p] \in HeadJobs
         /\ job[p].at = "insert"  => job[p] \in NoteJobs
         /\ job[p].at = "resolve" => job[p] \in ResolveJobs
BY DEF TypeOK, ScanJobs, HeadJobs, NoteJobs, ResolveJobs

LEMMA ApplyEffect ==
  ASSUME NEW p \in Procs, Apply(p)
  PROVE  /\ job[p] # Idle
         /\ job[p].at = "apply"
         /\ rows' = [i \in Ids |->
                       IF i \in Gone(p) THEN NoRow
                       ELSE IF i \in Current(p)
                       THEN [HiddenRows(job[p])[i] EXCEPT !.status =
                               IF i \in Applied(job[p]) /\ job[p].items[i].resolved
                               THEN "resolved" ELSE "active"]
                       ELSE HiddenRows(job[p])[i]]
         /\ owners' = ClaimsAfter(p)
         /\ edges' = LeftEdges(p)
         /\ pending' = {e \in Awaiting(job[p]) \ ReadyEdges(job[p]) : e[1] \notin Gone(p)}
         /\ said' = [i \in Ids |-> IF i \in Gone(p) THEN NoDoc
                                   ELSE IF i \in Applied(job[p]) THEN job[p].items[i]
                                   ELSE said[i]]
         /\ job' = [job EXCEPT ![p] = IF job[p].head = NoCommit THEN Idle
                                      ELSE [at |-> "head", head |-> job[p].head]]
         /\ UNCHANGED <<tree, heads>>
BY DEF Apply, UpsertedRows, ReadyEdges, Related, HiddenRows, ClaimsAfter, Gone, LeftEdges, Current

\* The stages of Apply keep the shape of the tables.
LEMMA StageTypes ==
  ASSUME TypeOK, NEW b \in ScanJobs
  PROVE  /\ Applied(b) \subseteq Ids
         /\ \A i \in Applied(b) : b.items[i] \in Doc
         /\ UpsertedRows(b) \in [Ids -> Row \cup {NoRow}]
         /\ Stated(b) \subseteq Ids \X Ids
         /\ ReadyEdges(b) \subseteq Ids \X Ids
         /\ HiddenRows(b) \in [Ids -> Row \cup {NoRow}]
<1>1. /\ Applied(b) \subseteq ItemsOf(b)
      /\ ItemsOf(b) \subseteq Ids
      /\ \A i \in ItemsOf(b) : b.items[i] \in Doc
  BY DEF Applied, ItemsOf, ScanJobs
<1>2. \A i \in Applied(b) : Upsert(i, b.items[i]) \in Row
  <2> SUFFICES ASSUME NEW i \in Applied(b) PROVE Upsert(i, b.items[i]) \in Row
    OBVIOUS
  <2>1. SourceOf[i] \in {"note", "adr", "git"}
    BY <1>1, SourceAssumption
  <2>2. rows[i] # NoRow => rows[i].status \in {"active", "superseded", "resolved"}
    BY <1>1 DEF TypeOK, Row
  <2> QED
    BY <2>1, <2>2 DEF Upsert, Row
<1>3. UpsertedRows(b) \in [Ids -> Row \cup {NoRow}]
  BY <1>1, <1>2 DEF UpsertedRows, TypeOK
<1>4. Stated(b) \subseteq Ids \X Ids
  <2> SUFFICES ASSUME NEW i \in ItemsOf(b), NEW e \in StatedBy(i, b.items[i])
               PROVE  e \in Ids \X Ids
    BY DEF Stated
  <2>1. b.items[i].names \in Ids
    BY <1>1 DEF StatedBy, Doc
  <2> QED
    BY <1>1, <2>1 DEF StatedBy
<1>5. ReadyEdges(b) \subseteq Ids \X Ids
  BY <1>4 DEF ReadyEdges, Resolvable, Awaiting, TypeOK
<1>6. HiddenRows(b) \in [Ids -> Row \cup {NoRow}]
  BY <1>3 DEF HiddenRows, Hidden, Row
<1> QED
  BY <1>1, <1>3, <1>4, <1>5, <1>6

\* One transaction of an import keeps the tables typed.
LEMMA ApplyType ==
  ASSUME TypeOK, NEW p \in Procs, Apply(p)
  PROVE  TypeOK'
<1> DEFINE b == job[p]
<1>1. b \in ScanJobs
  BY ApplyEffect, JobKinds
<1>2. /\ Applied(b) \subseteq Ids
      /\ \A i \in Applied(b) : b.items[i] \in Doc
      /\ Stated(b) \subseteq Ids \X Ids
      /\ ReadyEdges(b) \subseteq Ids \X Ids
      /\ HiddenRows(b) \in [Ids -> Row \cup {NoRow}]
  BY <1>1, StageTypes
<1>3. rows' \in [Ids -> Row \cup {NoRow}]
  <2>1. ASSUME NEW i \in Ids, i \in Current(p), NEW st \in {"resolved", "active"}
        PROVE  [HiddenRows(b)[i] EXCEPT !.status = st] \in Row
    <3>1. HiddenRows(b)[i] \in Row
      BY <1>2, <2>1 DEF Current
    <3> QED
      BY <3>1 DEF Row
  <2> DEFINE st(i) == IF i \in Applied(b) /\ b.items[i].resolved THEN "resolved" ELSE "active"
             row(i) == IF i \in Gone(p) THEN NoRow
                       ELSE IF i \in Current(p) THEN [HiddenRows(b)[i] EXCEPT !.status = st(i)]
                       ELSE HiddenRows(b)[i]
  <2>2. rows' = [i \in Ids |-> row(i)]
    BY ApplyEffect
  <2>3. ASSUME NEW i \in Ids PROVE row(i) \in Row \cup {NoRow}
    <3>1. st(i) \in {"resolved", "active"}
      OBVIOUS
    <3> HIDE DEF st
    <3> QED
      BY <1>2, <2>1, <3>1
  <2> HIDE DEF row
  <2> QED
    BY <2>2, <2>3
<1>4. owners' \subseteq Ids \X Worktrees
  BY <1>2, ApplyEffect, HomeAssumption DEF ClaimsAfter, ClaimsLeft, TypeOK
<1>5. edges' \subseteq Ids \X Ids
  BY <1>2, ApplyEffect DEF LeftEdges, EdgesLeft, Related, TypeOK
<1>6. pending' \subseteq Ids \X Ids
  BY <1>2, ApplyEffect DEF Awaiting, TypeOK
<1>7. said' \in [Ids -> Doc \cup {NoDoc}]
  BY <1>2, ApplyEffect DEF TypeOK
<1>8. job' \in [Procs -> {Idle} \cup ScanJobs \cup HeadJobs \cup NoteJobs \cup ResolveJobs]
  <2>1. b.head \in Commits \cup {NoCommit}
    BY <1>1 DEF ScanJobs
  <2>2. b.head # NoCommit => [at |-> "head", head |-> b.head] \in HeadJobs
    BY <2>1 DEF HeadJobs
  <2> QED
    BY <2>2, ApplyEffect DEF TypeOK
<1>9. /\ files' = files /\ head' = head /\ listed' = listed /\ heads' = heads
  BY ApplyEffect DEF tree
<1> QED
  BY <1>3, <1>4, <1>5, <1>6, <1>7, <1>8, <1>9 DEF TypeOK

\* Reading a worktree leaves a well-formed job.
LEMMA ScanJob ==
  ASSUME TypeOK, NEW p \in Procs, NEW mode \in AllModes, NEW lost \in SUBSET FailsToRead,
         Scan(p, mode, lost)
  PROVE  \E scan \in ScanJobs :
           /\ job' = [job EXCEPT ![p] = scan]
           /\ scan.listed = NotGone(Home[p], lost)
           /\ UNCHANGED <<tree, db, heads>>
<1> DEFINE w == Home[p]
           read == Read(mode, lost)
           since == Since(w, mode)
           found == GitItems(w, read, since) \cup FileItems(w, read)
           items == [i \in Ids |-> IF i \notin found THEN NoDoc
                                   ELSE IF SourceOf[i] = "git" THEN PlainDoc
                                   ELSE files[w][i]]
           scan == [at |-> "apply", items |-> items, keep |-> Unreadable(w, read),
                    prune |-> Pruned(w, read, since), listed |-> NotGone(w, lost),
                    head |-> IF "git" \in read THEN head[w] ELSE NoCommit]
<1>1. w \in Worktrees
  BY HomeAssumption
<1>2. items \in [Ids -> Doc \cup {NoDoc}]
  <2>1. \A i \in FileIds : files[w][i] \in Doc \cup {NoDoc}
    BY <1>1 DEF TypeOK
  <2> QED
    BY <2>1, PlainDocs DEF FileIds
<1>3. Unreadable(w, read) \subseteq Ids /\ Pruned(w, read, since) \subseteq Sources
  BY DEF Unreadable, Pruned, FileIds, Read, Sources
<1>4. head[w] \in Commits \cup {NoCommit} /\ NotGone(w, lost) \subseteq Worktrees
  BY <1>1 DEF TypeOK, NotGone
<1> HIDE DEF items, read, since
<1>5. scan \in ScanJobs
  BY <1>2, <1>3, <1>4 DEF ScanJobs
<1>6. scan.listed = NotGone(w, lost)
  OBVIOUS
<1> HIDE DEF scan
<1>7. job' = [job EXCEPT ![p] = scan] /\ UNCHANGED <<tree, db, heads>>
  BY DEF Scan, scan, items, read, since
<1> QED
  BY <1>5, <1>6, <1>7

LEMMA ScanType ==
  ASSUME TypeOK, NEW p \in Procs, NEW mode \in AllModes, NEW lost \in SUBSET FailsToRead,
         Scan(p, mode, lost)
  PROVE  TypeOK'
BY ScanJob DEF TypeOK, tree, db

\* A row inserted by record_memory is typed, and so is its edge.
LEMMA InsertRowType ==
  ASSUME TypeOK, NEW i \in Ids, NEW row \in Row, NEW target \in Ids \cup {NoId},
         MayInsert(i, target), InsertRow(i, row, target)
  PROVE  rows' \in [Ids -> Row \cup {NoRow}] /\ edges' \subseteq Ids \X Ids
<1>1. ASSUME NEW j \in Ids, j = target
      PROVE  [rows[j] EXCEPT !.status = "superseded"] \in Row
  <2>1. rows[j] \in Row
    BY <1>1, AbsentAssumption DEF MayInsert, TypeOK
  <2> QED
    BY <2>1 DEF Row
<1>2. rows' \in [Ids -> Row \cup {NoRow}]
  BY <1>1 DEF InsertRow, TypeOK
<1>3. edges' \subseteq Ids \X Ids
  BY DEF InsertRow, TypeOK
<1> QED
  BY <1>2, <1>3

\* Every step keeps the tables, the trees and the jobs typed.
LEMMA TypeStep ==
  ASSUME TypeOK, [Next]_vars
  PROVE  TypeOK'
<1> USE DEF tree, db
<1>1. ASSUME NEW p \in Procs, NEW mode \in Modes, NEW lost \in Failures, Scan(p, mode, lost)
      PROVE  TypeOK'
  BY <1>1, ScanType, ModesAssumption, FailuresAssumption
<1>2. ASSUME NEW p \in Procs, Apply(p) PROVE TypeOK'
  BY <1>2, ApplyType
<1>3. ASSUME NEW p \in Procs, RecordHead(p) PROVE TypeOK'
  <2>1. job[p].head \in Commits
    BY <1>3, JobKinds DEF RecordHead, HeadJobs
  <2> QED
    BY <1>3, <2>1 DEF RecordHead, TypeOK
<1>4. ASSUME NEW p \in Procs, NEW i \in NoteIds, NEW target \in Ids \cup {NoId},
             WriteNote(p, i, target)
      PROVE  TypeOK'
  <2>1. /\ i \in FileIds /\ Home[p] \in Worktrees /\ NewDoc(target) \in Doc
    BY PlainDocs, HomeAssumption DEF NoteIds, FileIds
  <2>2. [at |-> "insert", id |-> i, names |-> target] \in NoteJobs
    BY DEF NoteJobs
  <2> QED
    BY <1>4, <2>1, <2>2 DEF WriteNote, TypeOK
<1>5. ASSUME NEW p \in Procs, InsertNote(p) PROVE TypeOK'
  <2>1. job[p] \in NoteJobs
    BY <1>5, JobKinds DEF InsertNote
  <2>2. job[p].id \in Ids /\ job[p].names \in Ids \cup {NoId}
    BY <2>1 DEF NoteJobs, NoteIds
  <2>3. [source |-> "note", durable |-> TRUE, status |-> "active"] \in Row
    BY DEF Row
  <2>4. rows' \in [Ids -> Row \cup {NoRow}] /\ edges' \subseteq Ids \X Ids
    BY <1>5, <2>2, <2>3, InsertRowType DEF InsertNote
  <2>5. owners' \subseteq Ids \X Worktrees
    <3>1. owners' = owners \cup {<<job[p].id, Home[p]>>} /\ Home[p] \in Worktrees
      BY <1>5, HomeAssumption DEF InsertNote
    <3> QED
      BY <2>2, <3>1 DEF TypeOK
  <2>6. said' \in [Ids -> Doc \cup {NoDoc}]
    BY <1>5, <2>2, PlainDocs DEF InsertNote, TypeOK
  <2> QED
    BY <1>5, <2>4, <2>5, <2>6 DEF InsertNote, TypeOK
<1>6. ASSUME NEW p \in Procs, InsertNoteFails(p) PROVE TypeOK'
  <2>1. job[p].id \in FileIds /\ Home[p] \in Worktrees
    BY <1>6, JobKinds, HomeAssumption DEF InsertNoteFails, NoteJobs, NoteIds, FileIds
  <2> QED
    BY <1>6, <2>1 DEF InsertNoteFails, TypeOK
<1>7. ASSUME NEW i \in Ids, NEW durable \in BOOLEAN, NEW target \in Ids \cup {NoId},
             RecordLocal(i, durable, target)
      PROVE  TypeOK'
  <2>1. [source |-> "none", durable |-> durable, status |-> "active"] \in Row
    BY DEF Row
  <2>2. rows' \in [Ids -> Row \cup {NoRow}] /\ edges' \subseteq Ids \X Ids
    BY <1>7, <2>1, InsertRowType DEF RecordLocal
  <2> QED
    BY <1>7, <2>2 DEF RecordLocal, TypeOK
<1>8. ASSUME NEW p \in Procs, NEW i \in Ids, WriteSidecar(p, i) PROVE TypeOK'
  <2>1. i \in NoteIds /\ i \in FileIds /\ Home[p] \in Worktrees
    BY <1>8, HomeAssumption DEF WriteSidecar, HasNote, NoteIds, FileIds
  <2>2. files[Home[p]][i] \in Doc
    BY <1>8, <2>1 DEF WriteSidecar, HasNote, TypeOK
  <2>3. [files[Home[p]][i] EXCEPT !.resolved = TRUE] \in Doc
    BY <2>2 DEF Doc
  <2>4. [at |-> "resolve", id |-> i] \in ResolveJobs
    BY <2>1 DEF ResolveJobs
  <2> QED
    BY <1>8, <2>1, <2>3, <2>4 DEF WriteSidecar, TypeOK
<1>9. ASSUME NEW p \in Procs, FinishResolve(p) PROVE TypeOK'
  <2> DEFINE i == job[p].id
             w == Home[p]
             undone == IF files[w][i] = NoDoc THEN NoDoc
                       ELSE [files[w][i] EXCEPT !.resolved = FALSE]
  <2>1. i \in FileIds /\ i \in Ids /\ w \in Worktrees
    BY <1>9, JobKinds, HomeAssumption DEF FinishResolve, ResolveJobs, NoteIds, FileIds
  <2>2. CASE rows[i] # NoRow /\ ResolveRow(i) /\ UNCHANGED files
    <3>1. [rows[i] EXCEPT !.status = "resolved"] \in Row
      <4>1. rows[i] \in Row
        BY <2>1, <2>2 DEF TypeOK
      <4> QED
        BY <4>1 DEF Row
    <3> QED
      BY <1>9, <2>1, <2>2, <3>1 DEF FinishResolve, ResolveRow, TypeOK
  <2>3. CASE files' = [files EXCEPT ![w][i] = undone] /\ UNCHANGED rows
    <3>1. undone \in Doc \cup {NoDoc}
      <4>1. files[w][i] \in Doc \cup {NoDoc}
        BY <2>1 DEF TypeOK
      <4> QED
        BY <4>1 DEF Doc
    <3> HIDE DEF undone
    <3> QED
      BY <1>9, <2>1, <2>3, <3>1 DEF FinishResolve, TypeOK
  <2> QED
    BY <1>9, <2>2, <2>3 DEF FinishResolve
<1>10. ASSUME NEW p \in Procs, NEW i \in Ids, ResolveWithoutFile(p, i) PROVE TypeOK'
  <2>1. rows[i] \in Row
    BY <1>10 DEF ResolveWithoutFile, TypeOK
  <2>2. [rows[i] EXCEPT !.status = "resolved"] \in Row
    BY <2>1 DEF Row
  <2> QED
    BY <1>10, <2>2 DEF ResolveWithoutFile, ResolveRow, TypeOK
<1>11. ASSUME NEW p \in Procs, Crash(p) PROVE TypeOK'
  BY <1>11 DEF Crash, TypeOK
<1>12. ASSUME NEW w \in Worktrees, NEW i \in FileIds, NEW doc \in Docs[i] \cup {NoDoc},
              EditFile(w, i, doc)
       PROVE  TypeOK'
  <2>1. doc \in Doc \cup {NoDoc}
    BY DocsAssumption
  <2> QED
    BY <1>12, <2>1 DEF EditFile, TypeOK
<1>13. ASSUME NEW w \in Worktrees, NEW c \in Commits, MoveHead(w, c) PROVE TypeOK'
  BY <1>13 DEF MoveHead, TypeOK
<1>14. ASSUME NEW w \in Worktrees, RemoveWorktree(w) \/ AddWorktree(w) PROVE TypeOK'
  BY <1>14 DEF RemoveWorktree, AddWorktree, TypeOK
<1>15. CASE UNCHANGED vars
  BY <1>15 DEF vars, TypeOK
<1> QED
  BY <1>1, <1>2, <1>3, <1>4, <1>5, <1>6, <1>7, <1>8, <1>9, <1>10, <1>11, <1>12, <1>13, <1>14, <1>15
  DEF Next, ImportNext, AgentNext, PeopleNext, WorktreeNext

\* The tables, the trees and the half-done operations keep their shape in every run
\* of the importer and of everything that runs beside it.
THEOREM TypeCorrect == Spec => []TypeOK
<1>1. Init => TypeOK
  BY DEF Init, TypeOK
<1>2. TypeOK /\ [Next]_vars => TypeOK'
  BY TypeStep
<1> QED
  BY <1>1, <1>2, PTL DEF Spec

-----------------------------------------------------------------------------
(***************************************************************************)
(* The index is the union of the claims, and its edges join stored rows    *)
(***************************************************************************)

\* What the upserts and the hiding of targets leave of a row: it exists and has a
\* source as before, or it was applied; its status is kept, or superseded.
LEMMA StageRows ==
  ASSUME TypeOK, NEW b \in ScanJobs, NEW i \in Ids
  PROVE  /\ i \in Applied(b) => /\ HiddenRows(b)[i] \in Row
                                /\ HiddenRows(b)[i].source # "none"
         /\ i \notin Applied(b) =>
              /\ HiddenRows(b)[i] = NoRow <=> rows[i] = NoRow
              /\ rows[i] # NoRow => HiddenRows(b)[i].source = rows[i].source
         /\ i \notin {e[2] : e \in ReadyEdges(b)} => HiddenRows(b)[i] = UpsertedRows(b)[i]
<1> DEFINE up == UpsertedRows(b)
           hidden == HiddenRows(b)
<1>1. up \in [Ids -> Row \cup {NoRow}]
  BY StageTypes
<1>2. hidden[i] = up[i] \/ (up[i] # NoRow /\ hidden[i] = [up[i] EXCEPT !.status = "superseded"])
  BY DEF HiddenRows, Hidden
<1>3. i \notin {e[2] : e \in ReadyEdges(b)} => hidden[i] = up[i]
  BY DEF HiddenRows, Hidden
<1>4. up[i] # NoRow => hidden[i] \in Row /\ hidden[i].source = up[i].source
  <2>1. up[i] # NoRow => up[i] \in Row
    BY <1>1
  <2> HIDE DEF up, hidden
  <2> QED
    BY <1>2, <2>1 DEF Row
<1>5. i \in Applied(b) => up[i] # NoRow /\ up[i].source # "none"
  <2>1. SourceOf[i] # "none"
    BY SourceAssumption
  <2>2. Upsert(i, b.items[i]).source = SourceOf[i]
    BY DEF Upsert
  <2>3. i \in Applied(b) => up[i] = Upsert(i, b.items[i]) /\ up[i] # NoRow
    <3>1. ASSUME i \in Applied(b) PROVE Upsert(i, b.items[i]) \in Row
      <4>1. b.items[i] \in Doc
        BY <3>1, StageTypes
      <4>2. rows[i] # NoRow => rows[i].status \in {"active", "superseded", "resolved"}
        BY DEF TypeOK, Row
      <4> QED
        BY <4>2, SourceAssumption DEF Upsert, Row
    <3> QED
      BY <3>1, AbsentAssumption DEF UpsertedRows
  <2> QED
    BY <2>1, <2>2, <2>3
<1>6. i \notin Applied(b) => up[i] = rows[i]
  BY DEF UpsertedRows
<1>7. up[i] = NoRow => hidden[i] = NoRow
  BY <1>2
<1> HIDE DEF up, hidden
<1>8. QED
  BY <1>3, <1>4, <1>5, <1>6, <1>7, AbsentAssumption DEF up, hidden

\* What the whole transaction leaves of a row.
LEMMA ApplyRows ==
  ASSUME TypeOK, NEW p \in Procs, Apply(p), NEW i \in Ids
  PROVE  /\ i \in Gone(p) => rows'[i] = NoRow
         /\ i \notin Gone(p) /\ HiddenRows(job[p])[i] = NoRow => rows'[i] = NoRow
         /\ i \notin Gone(p) /\ HiddenRows(job[p])[i] # NoRow =>
              rows'[i] # NoRow /\ rows'[i].source = HiddenRows(job[p])[i].source
         /\ i \in Current(p) => rows'[i].status # "superseded"
         /\ i \notin Gone(p) \cup Current(p) => rows'[i] = HiddenRows(job[p])[i]
<1> DEFINE hidden == HiddenRows(job[p])
           st == IF i \in Applied(job[p]) /\ job[p].items[i].resolved THEN "resolved" ELSE "active"
<1>1. hidden[i] \in Row \cup {NoRow}
  BY ApplyEffect, JobKinds, StageTypes
<1>2. rows'[i] = IF i \in Gone(p) THEN NoRow
                 ELSE IF i \in Current(p) THEN [hidden[i] EXCEPT !.status = st] ELSE hidden[i]
  BY ApplyEffect
<1>3. i \in Current(p) => i \notin Gone(p) /\ hidden[i] # NoRow
  BY DEF Current
<1>4. st \in {"resolved", "active"}
  OBVIOUS
<1> HIDE DEF hidden, st
<1>5. hidden[i] # NoRow => /\ [hidden[i] EXCEPT !.status = st] \in Row
                           /\ [hidden[i] EXCEPT !.status = st].source = hidden[i].source
                           /\ [hidden[i] EXCEPT !.status = st].status = st
  BY <1>1, <1>4 DEF Row
<1> QED
  BY <1>2, <1>3, <1>4, <1>5, AbsentAssumption DEF hidden

\* One transaction of an import leaves exactly the claimed rows of the repository.
LEMMA ApplyOwned ==
  ASSUME TypeOK, SourcedRowsAreOwned, NEW p \in Procs, Apply(p)
  PROVE  SourcedRowsAreOwned'
<1> DEFINE b == job[p]
           hidden == HiddenRows(b)
<1>1. b \in ScanJobs
  BY ApplyEffect, JobKinds
<1>2. Applied(b) \subseteq Ids
  BY <1>1, StageTypes
<1>3. owners' = ClaimsAfter(p)
  BY ApplyEffect
<1>4. owners' \subseteq Ids \X Worktrees
  BY ApplyType DEF TypeOK
<1>5. ASSUME NEW i \in Ids, NEW w \in Worktrees, <<i, w>> \in owners'
      PROVE  rows'[i] # NoRow /\ rows'[i].source # "none"
  <2>1. i \notin Gone(p)
    BY <1>3, <1>5 DEF Gone, Orphans
  <2>2. i \in Applied(b) \/ <<i, w>> \in owners
    BY <1>3, <1>5 DEF ClaimsAfter, ClaimsLeft
  <2>3. <<i, w>> \in owners => rows[i] # NoRow /\ rows[i].source # "none"
    BY DEF SourcedRowsAreOwned, ClaimedBy, Sourced, Stored
  <2>4. hidden[i] # NoRow /\ hidden[i].source # "none"
    BY <1>1, <2>2, <2>3, StageRows, AbsentAssumption
  <2> QED
    BY <2>1, <2>4, ApplyRows
<1>6. ASSUME NEW i \in Ids, rows'[i] # NoRow, rows'[i].source # "none"
      PROVE  \E w \in Worktrees : <<i, w>> \in owners'
  <2>1. i \notin Gone(p) /\ hidden[i] # NoRow /\ hidden[i].source # "none"
    BY <1>6, ApplyRows
  <2> QED
    BY <1>3, <2>1 DEF Gone, Orphans
<1>7. Sourced' \subseteq (UNION {ClaimedBy(w) : w \in Worktrees})'
  BY <1>6 DEF ClaimedBy, Sourced, Stored
<1>8. (UNION {ClaimedBy(w) : w \in Worktrees})' \subseteq Sourced'
  BY <1>4, <1>5 DEF ClaimedBy, Sourced, Stored
<1> QED
  BY <1>7, <1>8 DEF SourcedRowsAreOwned

\* One transaction of an import leaves no edge of a row it deletes.
LEMMA ApplyEdges ==
  ASSUME TypeOK, EdgesJoinStoredRows, NEW p \in Procs, Apply(p)
  PROVE  EdgesJoinStoredRows'
<1> DEFINE b == job[p]
<1>1. b \in ScanJobs
  BY ApplyEffect, JobKinds
<1>2. edges' \subseteq Ids \X Ids
  BY ApplyType DEF TypeOK
<1>3. ASSUME NEW i \in Ids, i \notin Gone(p), rows[i] # NoRow \/ UpsertedRows(b)[i] # NoRow
      PROVE  i \in Stored'
  <2>1. HiddenRows(b)[i] # NoRow
    BY <1>1, <1>3, StageRows, AbsentAssumption DEF UpsertedRows
  <2> QED
    BY <1>3, <2>1, ApplyRows DEF Stored
<1>4. ASSUME NEW e \in edges' PROVE e[1] \in Stored' /\ e[2] \in Stored'
  <2>1. e \in Related(b) /\ e[1] \notin Gone(p) /\ e[2] \notin Gone(p)
    BY ApplyEffect DEF LeftEdges, EdgesLeft
  <2>2. e[1] \in Ids /\ e[2] \in Ids
    BY <1>2
  <2>3. CASE e \in edges
    BY <1>3, <2>1, <2>2, <2>3 DEF EdgesJoinStoredRows, Stored
  <2>4. CASE e \in ReadyEdges(b)
    BY <1>3, <2>1, <2>2, <2>4 DEF ReadyEdges, Resolvable
  <2> QED
    BY <2>1, <2>3, <2>4 DEF Related
<1> QED
  BY <1>4 DEF EdgesJoinStoredRows

\* One transaction of an import makes every row current that it leaves without a
\* superseder and without a statement of its own.
LEMMA ApplyExplained ==
  ASSUME TypeOK, EdgesJoinStoredRows, SupersededIsExplained, NEW p \in Procs, Apply(p)
  PROVE  SupersededIsExplained'
<1> DEFINE b == job[p]
           hidden == HiddenRows(b)
<1>1. b \in ScanJobs
  BY ApplyEffect, JobKinds
<1>2. EdgesJoinStoredRows' /\ edges' \subseteq Ids \X Ids
  BY ApplyEdges, ApplyType DEF TypeOK
<1> SUFFICES ASSUME NEW i \in Ids, rows'[i] # NoRow, rows'[i].status = "superseded",
                    ~\E s \in Ids : <<s, i>> \in LeftEdges(p)
             PROVE  said'[i] # NoDoc /\ said'[i].superseded
  <2>1. edges' = LeftEdges(p)
    BY ApplyEffect
  <2>2. ASSUME NEW s \in Ids, NEW i \in Ids, <<s, i>> \in LeftEdges(p) PROVE s \in Stored'
    BY <1>2, <2>1, <2>2 DEF EdgesJoinStoredRows
  <2> QED
    BY <2>1, <2>2 DEF SupersededIsExplained, Stored
<1>3. i \notin Gone(p) /\ i \notin Current(p) /\ rows'[i] = hidden[i]
  BY ApplyRows
<1>4. i \notin Freed(b, Related(b), Gone(p))
  BY <1>3 DEF Current
<1>5. ~\E s \in Ids : <<s, i>> \in Related(b)
  <2> SUFFICES ASSUME NEW s \in Ids, <<s, i>> \in Related(b) PROVE FALSE
    OBVIOUS
  <2>1. s \in Gone(p)
    BY <1>3 DEF LeftEdges, EdgesLeft
  <2> QED
    BY <1>4, <2>1 DEF Freed
<1>6. i \notin {e[2] : e \in ReadyEdges(b)}
  <2>1. ReadyEdges(b) \subseteq Ids \X Ids
    BY <1>1, StageTypes
  <2> QED
    BY <1>5, <2>1 DEF Related
<1>7. hidden[i] = UpsertedRows(b)[i]
  BY <1>1, <1>6, StageRows
<1>8. CASE i \in Applied(b)
  <2>1. b.items[i] \in Doc /\ said'[i] = b.items[i]
    BY <1>1, <1>3, <1>8, ApplyEffect, StageTypes
  <2>2. b.items[i].superseded
    BY <1>4, <1>8 DEF Freed
  <2> QED
    BY <2>1, <2>2, AbsentAssumption
<1>9. CASE i \notin Applied(b)
  <2>1. rows[i] = rows'[i] /\ said'[i] = said[i]
    BY <1>3, <1>7, <1>9, ApplyEffect DEF UpsertedRows
  <2>2. ~\E s \in Ids : <<s, i>> \in edges
    BY <1>4, <1>5 DEF Related, Freed
  <2> QED
    BY <2>1, <2>2 DEF SupersededIsExplained, Stored
<1> QED
  BY <1>8, <1>9

\* What inserting a row does: it stores that row, keeps the source of every other row,
\* and touches the status of its target only.
LEMMA InsertedRows ==
  ASSUME TypeOK, NEW i \in Ids, NEW row \in Row, NEW target \in Ids \cup {NoId},
         MayInsert(i, target), InsertRow(i, row, target)
  PROVE  /\ rows[i] = NoRow
         /\ rows'[i] = row
         /\ \A j \in Ids : j # i /\ rows[j] = NoRow => rows'[j] = NoRow
         /\ \A j \in Ids : rows[j] # NoRow => rows'[j] # NoRow /\ rows'[j].source = rows[j].source
         /\ \A j \in Ids : j # i /\ j # target => rows'[j] = rows[j]
         /\ edges \subseteq edges'
         /\ \A e \in edges' : e \in edges \/ (target # NoId /\ e = <<i, target>>)
         /\ target # NoId => <<i, target>> \in edges' /\ rows[target] # NoRow
<1>1. rows[i] = NoRow /\ (target # NoId => rows[target] # NoRow)
  BY DEF MayInsert
<1>2. \A j \in Ids : rows'[j] = IF j = i THEN row
                              ELSE IF j = target THEN [rows[j] EXCEPT !.status = "superseded"]
                              ELSE rows[j]
  BY DEF InsertRow
<1>3. ASSUME NEW j \in Ids, rows[j] # NoRow
      PROVE  /\ [rows[j] EXCEPT !.status = "superseded"] # NoRow
             /\ [rows[j] EXCEPT !.status = "superseded"].source = rows[j].source
  <2>1. rows[j] \in Row
    BY <1>3 DEF TypeOK
  <2>2. [rows[j] EXCEPT !.status = "superseded"] \in Row
    BY <2>1 DEF Row
  <2> QED
    BY <2>1, <2>2, AbsentAssumption DEF Row
<1>4. /\ edges \subseteq edges'
      /\ \A e \in edges' : e \in edges \/ (target # NoId /\ e = <<i, target>>)
      /\ target # NoId => <<i, target>> \in edges'
  BY DEF InsertRow
<1>5. ASSUME NEW j \in Ids, rows[j] # NoRow
      PROVE  rows'[j] # NoRow /\ rows'[j].source = rows[j].source
  BY <1>1, <1>2, <1>3, <1>5
<1>6. ASSUME NEW j \in Ids, j # i, rows[j] = NoRow PROVE rows'[j] = NoRow
  BY <1>1, <1>2, <1>6, AbsentAssumption
<1>7. rows'[i] = row /\ \A j \in Ids : j # i /\ j # target => rows'[j] = rows[j]
  BY <1>2
<1> QED
  BY <1>1, <1>4, <1>5, <1>6, <1>7

\* Inserting a row keeps the edges between stored rows, and explains the target.
LEMMA InsertKeeps ==
  ASSUME TypeOK, EdgesJoinStoredRows, SupersededIsExplained,
         NEW i \in Ids, NEW row \in Row, NEW target \in Ids \cup {NoId},
         row.status = "active",
         MayInsert(i, target), InsertRow(i, row, target),
         \A j \in Ids : j # i => said'[j] = said[j]
  PROVE  EdgesJoinStoredRows' /\ SupersededIsExplained'
<1>1. i \in Stored'
  <2>1. rows'[i] = row
    BY InsertedRows
  <2> QED
    BY <2>1, AbsentAssumption DEF Stored
<1>2. Stored \subseteq Stored'
  BY InsertedRows DEF Stored
<1>3. EdgesJoinStoredRows'
  <2> SUFFICES ASSUME NEW e \in edges' PROVE e[1] \in Stored' /\ e[2] \in Stored'
    BY DEF EdgesJoinStoredRows
  <2>1. CASE e \in edges
    BY <1>2, <2>1 DEF EdgesJoinStoredRows
  <2>2. CASE target # NoId /\ e = <<i, target>>
    <3>1. target \in Stored
      BY <2>2, InsertedRows DEF Stored
    <3> QED
      BY <1>1, <1>2, <2>2, <3>1
  <2>3. e \in edges \/ (target # NoId /\ e = <<i, target>>)
    BY DEF InsertRow
  <2> QED
    BY <2>1, <2>2, <2>3
<1>4. SupersededIsExplained'
  <2> SUFFICES ASSUME NEW j \in Stored', rows'[j].status = "superseded"
               PROVE  \/ \E s \in Stored' : <<s, j>> \in edges'
                      \/ said'[j] # NoDoc /\ said'[j].superseded
    BY DEF SupersededIsExplained
  <2>1. j \in Ids /\ j # i
    BY InsertedRows DEF Stored
  <2>2. CASE j = target
    BY <1>1, <2>1, <2>2, InsertedRows, AbsentAssumption
  <2>3. CASE j # target
    <3>1. rows'[j] = rows[j] /\ j \in Stored /\ said'[j] = said[j]
      BY <2>1, <2>3, InsertedRows DEF Stored
    <3>2. edges \subseteq edges'
      BY InsertedRows
    <3> QED
      BY <1>2, <3>1, <3>2 DEF SupersededIsExplained
  <2> QED
    BY <2>2, <2>3
<1> QED
  BY <1>3, <1>4

\* Resolving a row changes its status, and nothing that the invariants read.
LEMMA ResolvedRow ==
  ASSUME TypeOK, NEW i \in Ids, rows[i] # NoRow, ResolveRow(i)
  PROVE  /\ Stored' = Stored
         /\ Sourced' = Sourced
         /\ \A j \in Ids : j # i => rows'[j] = rows[j]
         /\ rows'[i].status = "resolved"
<1>1. rows[i] \in Row
  BY DEF TypeOK
<1>2. rows' = [rows EXCEPT ![i] = [rows[i] EXCEPT !.status = "resolved"]]
  BY DEF ResolveRow
<1>3. [rows[i] EXCEPT !.status = "resolved"] \in Row
  BY <1>1 DEF Row
<1>4. /\ [rows[i] EXCEPT !.status = "resolved"].source = rows[i].source
      /\ [rows[i] EXCEPT !.status = "resolved"].status = "resolved"
  BY <1>1 DEF Row
<1>5. /\ rows'[i] = [rows[i] EXCEPT !.status = "resolved"]
      /\ \A j \in Ids : j # i => rows'[j] = rows[j]
  BY <1>2 DEF TypeOK
<1>6. rows'[i] # NoRow /\ rows'[i].source = rows[i].source /\ rows'[i].status = "resolved"
  BY <1>3, <1>4, <1>5, AbsentAssumption
<1>7. Stored' = Stored
  BY <1>5, <1>6 DEF Stored
<1>8. Sourced' = Sourced
  BY <1>5, <1>6, <1>7 DEF Sourced, Stored
<1> QED
  BY <1>5, <1>6, <1>7, <1>8

\* The invariant: together with the types, all that the importer keeps between steps.
IndexInvariant ==
  /\ TypeOK
  /\ SourcedRowsAreOwned
  /\ EdgesJoinStoredRows
  /\ SupersededIsExplained

\* A resolved row keeps the invariant if the claims, the edges and what was said stay.
LEMMA ResolveKeeps ==
  ASSUME IndexInvariant, NEW i \in Ids, rows[i] # NoRow, ResolveRow(i),
         UNCHANGED <<owners, edges, said>>
  PROVE  SourcedRowsAreOwned' /\ EdgesJoinStoredRows' /\ SupersededIsExplained'
<1> USE DEF IndexInvariant
<1>1. SourcedRowsAreOwned'
  BY ResolvedRow DEF SourcedRowsAreOwned, ClaimedBy
<1>2. EdgesJoinStoredRows'
  BY ResolvedRow DEF EdgesJoinStoredRows
<1>3. SupersededIsExplained'
  <2> SUFFICES ASSUME NEW j \in Stored, rows'[j].status = "superseded"
               PROVE  \/ \E s \in Stored : <<s, j>> \in edges
                      \/ said[j] # NoDoc /\ said[j].superseded
    BY ResolvedRow DEF SupersededIsExplained
  <2>1. j \in Ids /\ rows'[j] = rows[j]
    BY ResolvedRow DEF Stored
  <2> QED
    BY <2>1 DEF SupersededIsExplained
<1> QED
  BY <1>1, <1>2, <1>3

\* Every step keeps the invariant.
LEMMA InvariantStep ==
  ASSUME IndexInvariant, [Next]_vars
  PROVE  IndexInvariant'
<1> USE DEF tree, db
<1> DEFINE Same == UNCHANGED <<rows, owners, edges, said>>
<1>1. TypeOK /\ TypeOK'
  BY TypeStep DEF IndexInvariant
<1>2. CASE Same
  <2>1. Stored' = Stored /\ Sourced' = Sourced
    BY <1>2 DEF Stored, Sourced
  <2>2. SourcedRowsAreOwned'
    BY <1>2, <2>1 DEF IndexInvariant, SourcedRowsAreOwned, ClaimedBy
  <2>3. EdgesJoinStoredRows'
    BY <1>2, <2>1 DEF IndexInvariant, EdgesJoinStoredRows
  <2>4. SupersededIsExplained'
    BY <1>2, <2>1 DEF IndexInvariant, SupersededIsExplained
  <2> QED
    BY <1>1, <2>2, <2>3, <2>4 DEF IndexInvariant
<1>3. ASSUME NEW p \in Procs, Apply(p) PROVE IndexInvariant'
  BY <1>1, <1>3, ApplyOwned, ApplyEdges, ApplyExplained DEF IndexInvariant
<1>4. ASSUME NEW p \in Procs, InsertNote(p) PROVE IndexInvariant'
  <2> DEFINE i == job[p].id
             target == job[p].names
             row == [source |-> "note", durable |-> TRUE, status |-> "active"]
  <2>1. i \in Ids /\ target \in Ids \cup {NoId}
    BY <1>1, <1>4, JobKinds DEF InsertNote, NoteJobs, NoteIds
  <2>2. row \in Row /\ row.status = "active" /\ row.source # "none"
    BY DEF Row
  <2>3. /\ MayInsert(i, target) /\ InsertRow(i, row, target)
        /\ owners' = owners \cup {<<i, Home[p]>>}
        /\ said' = [said EXCEPT ![i] = NewDoc(target)]
    BY <1>4 DEF InsertNote
  <2>4. \A j \in Ids : j # i => said'[j] = said[j]
    BY <1>1, <2>3 DEF TypeOK
  <2> HIDE DEF i, target, row
  <2>5. EdgesJoinStoredRows' /\ SupersededIsExplained'
    BY <1>1, <2>1, <2>2, <2>3, <2>4, InsertKeeps DEF IndexInvariant
  <2>6. Sourced' = Sourced \cup {i}
    <3>1. rows'[i] = row /\ row # NoRow
      BY <1>1, <2>1, <2>2, <2>3, InsertedRows, AbsentAssumption
    <3>2. ASSUME NEW j \in Ids, j # i PROVE j \in Sourced' <=> j \in Sourced
      <4>1. rows[j] = NoRow => rows'[j] = NoRow
        BY <1>1, <2>1, <2>2, <2>3, <3>2, InsertedRows
      <4>2. rows[j] # NoRow => rows'[j] # NoRow /\ rows'[j].source = rows[j].source
        BY <1>1, <2>1, <2>2, <2>3, <3>2, InsertedRows
      <4> QED
        BY <4>1, <4>2 DEF Sourced, Stored
    <3> QED
      BY <2>1, <2>2, <3>1, <3>2 DEF Sourced, Stored
  <2>7. SourcedRowsAreOwned'
    <3>1. Home[p] \in Worktrees
      BY HomeAssumption
    <3>2. ASSUME NEW j \in Ids
          PROVE  j \in Sourced <=> \E w \in Worktrees : <<j, w>> \in owners
      BY DEF IndexInvariant, SourcedRowsAreOwned, ClaimedBy
    <3>3. ASSUME NEW j \in Ids
          PROVE  j \in Sourced' <=> \E w \in Worktrees : <<j, w>> \in owners'
      BY <2>1, <2>3, <2>6, <3>1, <3>2
    <3>4. Sourced' \subseteq (UNION {ClaimedBy(w) : w \in Worktrees})'
      BY <3>3 DEF ClaimedBy, Sourced, Stored
    <3>5. (UNION {ClaimedBy(w) : w \in Worktrees})' \subseteq Sourced'
      BY <3>3 DEF ClaimedBy
    <3> QED
      BY <3>4, <3>5 DEF SourcedRowsAreOwned
  <2> QED
    BY <1>1, <2>5, <2>7 DEF IndexInvariant
<1>5. ASSUME NEW i \in Ids, NEW durable \in BOOLEAN, NEW target \in Ids \cup {NoId},
             RecordLocal(i, durable, target)
      PROVE  IndexInvariant'
  <2> DEFINE row == [source |-> "none", durable |-> durable, status |-> "active"]
  <2>1. row \in Row /\ row.status = "active" /\ row.source = "none"
    BY DEF Row
  <2>2. /\ MayInsert(i, target) /\ InsertRow(i, row, target)
        /\ owners' = owners
        /\ said' = said
    BY <1>5 DEF RecordLocal
  <2> HIDE DEF row
  <2>3. EdgesJoinStoredRows' /\ SupersededIsExplained'
    BY <1>1, <2>1, <2>2, InsertKeeps DEF IndexInvariant
  <2>4. Sourced' = Sourced
    <3>1. rows'[i] = row /\ rows[i] = NoRow
      BY <1>1, <2>1, <2>2, InsertedRows
    <3>2. ASSUME NEW j \in Ids, j # i PROVE j \in Sourced' <=> j \in Sourced
      <4>1. rows[j] = NoRow => rows'[j] = NoRow
        BY <1>1, <2>1, <2>2, <3>2, InsertedRows
      <4>2. rows[j] # NoRow => rows'[j] # NoRow /\ rows'[j].source = rows[j].source
        BY <1>1, <2>1, <2>2, <3>2, InsertedRows
      <4> QED
        BY <4>1, <4>2 DEF Sourced, Stored
    <3>3. i \notin Sourced' /\ i \notin Sourced
      BY <2>1, <3>1 DEF Sourced, Stored
    <3> QED
      BY <3>2, <3>3 DEF Sourced, Stored
  <2>5. SourcedRowsAreOwned'
    BY <2>2, <2>4 DEF IndexInvariant, SourcedRowsAreOwned, ClaimedBy
  <2> QED
    BY <1>1, <2>3, <2>5 DEF IndexInvariant
<1>6. ASSUME NEW p \in Procs, FinishResolve(p) PROVE IndexInvariant'
  <2>1. job[p].id \in Ids
    BY <1>1, <1>6, JobKinds DEF FinishResolve, ResolveJobs, NoteIds
  <2>2. CASE rows[job[p].id] # NoRow /\ ResolveRow(job[p].id)
    <3>1. UNCHANGED <<owners, edges, said>>
      BY <1>6 DEF FinishResolve
    <3> QED
      BY <1>1, <2>1, <2>2, <3>1, ResolveKeeps DEF IndexInvariant
  <2>3. CASE UNCHANGED rows
    BY <1>2, <1>6, <2>3 DEF FinishResolve
  <2> QED
    BY <1>6, <2>2, <2>3 DEF FinishResolve
<1>7. ASSUME NEW p \in Procs, NEW i \in Ids, ResolveWithoutFile(p, i) PROVE IndexInvariant'
  BY <1>1, <1>7, ResolveKeeps DEF ResolveWithoutFile, IndexInvariant
<1>8. ASSUME NEW p \in Procs,
             \/ \E mode \in Modes, lost \in Failures : Scan(p, mode, lost)
             \/ RecordHead(p)
             \/ \E i \in NoteIds, target \in Ids \cup {NoId} : WriteNote(p, i, target)
             \/ InsertNoteFails(p)
             \/ \E i \in Ids : WriteSidecar(p, i)
             \/ Crash(p)
      PROVE  Same
  BY <1>8 DEF Scan, RecordHead, WriteNote, InsertNoteFails, WriteSidecar, Crash
<1>9. PeopleNext \/ WorktreeNext \/ UNCHANGED vars => Same
  BY DEF PeopleNext, WorktreeNext, EditFile, MoveHead, RemoveWorktree, AddWorktree, vars
<1> HIDE DEF Same
<1> QED
  BY <1>2, <1>3, <1>4, <1>5, <1>6, <1>7, <1>8, <1>9 DEF Next, ImportNext, AgentNext

THEOREM Invariance == Spec => []IndexInvariant
<1>1. Init => IndexInvariant
  BY DEF Init, IndexInvariant, TypeOK, SourcedRowsAreOwned, EdgesJoinStoredRows,
         SupersededIsExplained, ClaimedBy, Sourced, Stored
<1>2. IndexInvariant /\ [Next]_vars => IndexInvariant'
  BY InvariantStep
<1> QED
  BY <1>1, <1>2, PTL DEF Spec

\* A row that came from a source is there exactly as long as some worktree claims it,
\* whatever ran between an import's scan and its transaction.
THEOREM RowsAreCounted == Spec => []SourcedRowsAreOwned
<1>1. IndexInvariant => SourcedRowsAreOwned
  BY DEF IndexInvariant
<1> QED
  BY <1>1, Invariance, PTL

\* No supersedes edge outlives a row on either of its ends.
THEOREM EdgesAreIntact == Spec => []EdgesJoinStoredRows
<1>1. IndexInvariant => EdgesJoinStoredRows
  BY DEF IndexInvariant
<1> QED
  BY <1>1, Invariance, PTL

\* No row stays hidden without a superseder or a statement of its own document.
THEOREM HiddenForAReason == Spec => []SupersededIsExplained
<1>1. IndexInvariant => SupersededIsExplained
  BY DEF IndexInvariant
<1> QED
  BY <1>1, Invariance, PTL

-----------------------------------------------------------------------------
(***************************************************************************)
(* The importer implements OwnedIndex                                      *)
(***************************************************************************)

\* A transaction of an import replaces the claims of its worktree, and drops those of
\* the worktrees that were not listed when it scanned.
LEMMA ApplyClaims ==
  ASSUME TypeOK, NEW p \in Procs, Apply(p), NEW v \in Worktrees, v # Home[p]
  PROVE  ClaimedBy(v)' = IF v \in job[p].listed THEN ClaimedBy(v) ELSE {}
<1>1. owners' = ClaimsAfter(p)
  BY ApplyEffect
<1>2. ASSUME NEW i \in Ids
      PROVE  <<i, v>> \in ClaimsAfter(p) <=> <<i, v>> \in owners /\ v \in job[p].listed
  BY DEF ClaimsAfter, ClaimsLeft, Unclaimed
<1> QED
  BY <1>1, <1>2 DEF ClaimedBy

\* What the processes have seen of the worktree list, as the shared index knows it.
Seen == [p \in Procs |-> SeenBy(p)]

\* A step that moves the job of one process moves what that process has seen, only.
LEMMA SeenStep ==
  ASSUME TypeOK, NEW p \in Procs, NEW j, job' = [job EXCEPT ![p] = j], NEW seen,
         seen = IF j # Idle /\ j.at = "apply" THEN j.listed ELSE Worktrees
  PROVE  Seen' = [Seen EXCEPT ![p] = seen]
<1>1. \A q \in Procs : job'[q] = IF q = p THEN j ELSE job[q]
  BY DEF TypeOK
<1>2. \A q \in Procs : SeenBy(q)' = IF q = p THEN seen ELSE SeenBy(q)
  BY <1>1 DEF SeenBy
<1> QED
  BY <1>2 DEF Seen

\* A step after which p states all that its worktree has, and keeps or drops the claims
\* of the others by the list it has seen, is an update of the index.
LEMMA UpdateStep ==
  ASSUME IndexInvariant', NEW p \in Procs,
         \A v \in Worktrees \ {Home[p]} :
           ClaimedBy(v)' = IF v \in SeenBy(p) THEN ClaimedBy(v) ELSE {},
         Seen' = [Seen EXCEPT ![p] = Worktrees],
         listed' = listed
  PROVE  Index!Next
<1> DEFINE claimed == [w \in Worktrees |-> ClaimedBy(w)]
<1>1. Home[p] \in Worktrees /\ ClaimedBy(Home[p])' \in SUBSET Ids
  BY HomeAssumption DEF ClaimedBy
<1>2. Sourced' = UNION {claimed'[w] : w \in Worktrees}
  BY DEF IndexInvariant, SourcedRowsAreOwned
<1>3. claimed' = [v \in Worktrees |-> IF v = Home[p] THEN ClaimedBy(Home[p])'
                                     ELSE IF v \in Seen[p] THEN claimed[v] ELSE {}]
  BY DEF Seen
<1>4. Index!Update(p, ClaimedBy(Home[p])')
  BY <1>2, <1>3 DEF Index!Update, Index!Union, Seen
<1> QED
  BY <1>1, <1>4 DEF Index!Next

\* A step that leaves the claims alone and only moves what one process has seen.
LEMMA LookStep ==
  ASSUME IndexInvariant, IndexInvariant', owners' = owners, listed' = listed,
         NEW p \in Procs, NEW seen \in {listed, Worktrees},
         Seen' = [Seen EXCEPT ![p] = seen]
  PROVE  Index!Next
<1>1. \A w \in Worktrees : ClaimedBy(w)' = ClaimedBy(w)
  BY DEF ClaimedBy
<1>2. Sourced' = Sourced
  BY <1>1 DEF IndexInvariant, SourcedRowsAreOwned
<1>3. Index!Look(p) \/ Index!Forget(p)
  BY <1>1, <1>2 DEF Index!Look, Index!Forget, Seen
<1> QED
  BY <1>3 DEF Index!Next

\* Every step of the importer is a step of the shared index, or changes nothing of it.
LEMMA IndexStep ==
  ASSUME IndexInvariant, IndexInvariant', [Next]_vars
  PROVE  [Index!Next]_(Index!vars)
<1> USE DEF tree, db
<1>1. TypeOK /\ IndexInvariant /\ IndexInvariant'
  BY DEF IndexInvariant
<1>2. ASSUME NEW p \in Procs, NEW mode \in Modes, NEW lost \in Failures, Scan(p, mode, lost)
      PROVE  Index!Next
  <2>1. PICK scan \in ScanJobs :
          job' = [job EXCEPT ![p] = scan] /\ scan.listed = NotGone(Home[p], lost)
    BY <1>1, <1>2, ScanJob, ModesAssumption, FailuresAssumption
  <2>2. scan # Idle /\ scan.at = "apply"
    BY <2>1, IdleAssumption DEF ScanJobs
  <2>3. NotGone(Home[p], lost) \in {listed, Worktrees} /\ owners' = owners /\ listed' = listed
    BY <1>2 DEF Scan, NotGone
  <2>4. Seen' = [Seen EXCEPT ![p] = NotGone(Home[p], lost)]
    BY <1>1, <2>1, <2>2, SeenStep
  <2> QED
    BY <1>1, <2>3, <2>4, LookStep
<1>3. ASSUME NEW p \in Procs, Apply(p) PROVE Index!Next
  <2>1. /\ job[p] # Idle /\ job[p].at = "apply" /\ listed' = listed
        /\ SeenBy(p) = job[p].listed
    BY <1>3, ApplyEffect DEF SeenBy
  <2>2. PICK j : job' = [job EXCEPT ![p] = j] /\ (j = Idle \/ j.at = "head")
    BY <1>3, ApplyEffect
  <2>3. Seen' = [Seen EXCEPT ![p] = Worktrees]
    BY <1>1, <2>2, SeenStep
  <2> QED
    BY <1>1, <1>3, <2>1, <2>3, ApplyClaims, UpdateStep
<1>4. ASSUME NEW p \in Procs, InsertNote(p) PROVE Index!Next
  <2>1. /\ owners' = owners \cup {<<job[p].id, Home[p]>>} /\ listed' = listed
        /\ SeenBy(p) = Worktrees
    BY <1>4 DEF InsertNote, SeenBy
  <2>2. Seen' = [Seen EXCEPT ![p] = Worktrees]
    BY <1>1, <1>4, SeenStep DEF InsertNote
  <2>3. \A v \in Worktrees \ {Home[p]} : ClaimedBy(v)' = ClaimedBy(v)
    BY <2>1 DEF ClaimedBy
  <2> QED
    BY <1>1, <2>1, <2>2, <2>3, UpdateStep
<1>5. ASSUME NEW p \in Procs, RecordHead(p) \/ InsertNoteFails(p) \/ FinishResolve(p) \/ Crash(p)
      PROVE  Index!Next
  <2>1. job' = [job EXCEPT ![p] = Idle] /\ owners' = owners /\ listed' = listed
    BY <1>5 DEF RecordHead, InsertNoteFails, FinishResolve, Crash
  <2>2. Seen' = [Seen EXCEPT ![p] = Worktrees]
    BY <1>1, <2>1, SeenStep
  <2> QED
    BY <1>1, <2>1, <2>2, LookStep
<1>6. ASSUME NEW p \in Procs,
             \/ \E i \in NoteIds, target \in Ids \cup {NoId} : WriteNote(p, i, target)
             \/ \E i \in Ids : WriteSidecar(p, i)
      PROVE  Index!Next
  <2>1. owners' = owners /\ listed' = listed
    BY <1>6 DEF WriteNote, WriteSidecar
  <2>2. ASSUME NEW i \in NoteIds, NEW target \in Ids \cup {NoId}, WriteNote(p, i, target)
        PROVE  Seen' = [Seen EXCEPT ![p] = Worktrees]
    <3> DEFINE note == [at |-> "insert", id |-> i, names |-> target]
    <3>1. job' = [job EXCEPT ![p] = note] /\ note.at # "apply"
      BY <2>2 DEF WriteNote
    <3> QED
      BY <1>1, <3>1, SeenStep
  <2>3. ASSUME NEW i \in Ids, WriteSidecar(p, i)
        PROVE  Seen' = [Seen EXCEPT ![p] = Worktrees]
    <3> DEFINE sidecar == [at |-> "resolve", id |-> i]
    <3>1. job' = [job EXCEPT ![p] = sidecar] /\ sidecar.at # "apply"
      BY <2>3 DEF WriteSidecar
    <3> QED
      BY <1>1, <3>1, SeenStep
  <2> QED
    BY <1>1, <1>6, <2>1, <2>2, <2>3, LookStep
<1>7. CASE owners' = owners /\ job' = job
  <2>1. \A w \in Worktrees : ClaimedBy(w)' = ClaimedBy(w)
    BY <1>7 DEF ClaimedBy
  <2>2. Sourced' = Sourced
    BY <2>1 DEF IndexInvariant, SourcedRowsAreOwned
  <2>3. \A p \in Procs : SeenBy(p)' = SeenBy(p)
    BY <1>7 DEF SeenBy
  <2>4. \/ listed' = listed
        \/ \E w \in Worktrees : listed' \in {listed \cup {w}, listed \ {w}}
    BY DEF Next, ImportNext, AgentNext, PeopleNext, WorktreeNext, vars, Scan, RecordHead,
           WriteNote, InsertNote, InsertNoteFails, RecordLocal, WriteSidecar, FinishResolve,
           ResolveWithoutFile, Crash, EditFile, MoveHead, RemoveWorktree, AddWorktree, Apply
  <2>5. CASE listed' = listed
    BY <2>1, <2>2, <2>3, <2>5 DEF Index!vars
  <2>6. CASE \E w \in Worktrees : listed' \in {listed \cup {w}, listed \ {w}}
    BY <2>1, <2>2, <2>3, <2>6 DEF Index!Next, Index!AddOrRemove
  <2> QED
    BY <2>4, <2>5, <2>6
<1>8. \/ \E p \in Procs, i \in Ids : ResolveWithoutFile(p, i)
      \/ \E i \in Ids, durable \in BOOLEAN, target \in Ids \cup {NoId} :
           RecordLocal(i, durable, target)
      \/ PeopleNext \/ WorktreeNext \/ UNCHANGED vars
      => owners' = owners /\ job' = job
  BY DEF ResolveWithoutFile, RecordLocal, PeopleNext, WorktreeNext, EditFile, MoveHead,
         RemoveWorktree, AddWorktree, vars
<1> QED
  BY <1>2, <1>3, <1>4, <1>5, <1>6, <1>7, <1>8 DEF Next, ImportNext, AgentNext

\* The importer with its four tables, its files and its long imports implements the
\* index that OwnedIndex promises.
THEOREM IndexRefinement == Spec => ImplementsOwnedIndex
<1>1. Init => Index!Init
  BY DEF Init, Index!Init, ClaimedBy, Sourced, Stored, SeenBy
<1>2. IndexInvariant /\ IndexInvariant' /\ [Next]_vars => [Index!Next]_(Index!vars)
  BY IndexStep
<1> QED
  BY <1>1, <1>2, Invariance, PTL DEF Spec, ImplementsOwnedIndex, Index!Spec

-----------------------------------------------------------------------------
(***************************************************************************)
(* What an import read, and what the recorded HEAD stands for              *)
(***************************************************************************)

Scanning(p)  == job[p] # Idle /\ job[p].at = "apply"
Recording(p) == job[p] # Idle /\ job[p].at = "head"

\* No id changes its source: a row is of the source of its id, or recorded directly.
RowsFit == \A i \in Ids : rows[i] # NoRow => rows[i].source \in {"none", SourceOf[i]}

\* What an import b of worktree w read: readable documents, and of the commits, where
\* it may prune them, exactly the history of the HEAD that it read.
Faithful(b, w) ==
  /\ w \in b.listed
  /\ \A i \in Ids : b.items[i] # NoDoc => b.items[i].readable
  /\ "git" \in b.prune =>
       /\ b.head # NoCommit
       /\ \A i \in Ids \cap Commits : b.items[i] # NoDoc <=> i \in History[b.head]

ScansAreFaithful == \A p \in Procs : Scanning(p) => Faithful(job[p], Home[p])

\* The upsert gives a row the source of its id, and hiding keeps it.
LEMMA AppliedSource ==
  ASSUME TypeOK, NEW b \in ScanJobs, NEW i \in Applied(b)
  PROVE  HiddenRows(b)[i] # NoRow /\ HiddenRows(b)[i].source = SourceOf[i]
<1> DEFINE up == UpsertedRows(b)
           hidden == HiddenRows(b)
<1>1. i \in Ids /\ up \in [Ids -> Row \cup {NoRow}] /\ hidden[i] \in Row
  BY StageTypes, StageRows
<1>2. hidden[i] = up[i] \/ (up[i] # NoRow /\ hidden[i] = [up[i] EXCEPT !.status = "superseded"])
  BY <1>1 DEF HiddenRows, Hidden
<1>3. up[i] = Upsert(i, b.items[i])
  BY <1>1 DEF UpsertedRows
<1>4. up[i].source = SourceOf[i]
  BY <1>3 DEF Upsert
<1>5. up[i] \in Row
  BY <1>1, <1>2, AbsentAssumption
<1> HIDE DEF up, hidden
<1>6. hidden[i].source = SourceOf[i]
  BY <1>2, <1>4, <1>5 DEF Row
<1> QED
  BY <1>1, <1>6, AbsentAssumption DEF hidden

\* Where the rows of an import's transaction get their sources from; what was recorded
\* directly stays, unless the import adopts it.
LEMMA ApplySources ==
  ASSUME TypeOK, NEW p \in Procs, Apply(p), NEW i \in Ids
  PROVE  /\ i \in Applied(job[p]) => rows'[i] = NoRow \/ rows'[i].source = SourceOf[i]
         /\ i \notin Applied(job[p]) =>
              /\ rows'[i] = NoRow \/ (rows[i] # NoRow /\ rows'[i].source = rows[i].source)
              /\ rows[i] # NoRow /\ rows[i].source = "none" =>
                   rows'[i] # NoRow /\ rows'[i].source = "none"
<1> DEFINE hidden == HiddenRows(job[p])
<1>1. job[p] \in ScanJobs
  BY ApplyEffect, JobKinds
<1>2. i \in Applied(job[p]) => hidden[i].source = SourceOf[i]
  BY <1>1, AppliedSource
<1>3. i \notin Applied(job[p]) => /\ hidden[i] = NoRow <=> rows[i] = NoRow
                                  /\ rows[i] # NoRow => hidden[i].source = rows[i].source
  BY <1>1, StageRows
<1>4. i \in Gone(p) => hidden[i] # NoRow /\ hidden[i].source # "none"
  BY DEF Gone, Orphans
<1>5. rows'[i] = NoRow \/ (hidden[i] # NoRow /\ rows'[i].source = hidden[i].source)
  BY ApplyRows
<1>6. i \notin Gone(p) /\ hidden[i] # NoRow => rows'[i] # NoRow /\ rows'[i].source = hidden[i].source
  BY ApplyRows
<1> HIDE DEF hidden
<1> QED
  BY <1>2, <1>3, <1>4, <1>5, <1>6

\* Every other step keeps claims, rows and their sources, and inserts rows that fit.
LEMMA OtherSources ==
  ASSUME TypeOK, [Next]_vars, ~ \E p \in Procs : Apply(p)
  PROVE  /\ owners \subseteq owners'
         /\ \A i \in Ids : rows[i] # NoRow => rows'[i] # NoRow /\ rows'[i].source = rows[i].source
         /\ \A i \in Ids : rows[i] = NoRow /\ rows'[i] # NoRow =>
              rows'[i].source \in {"none", SourceOf[i]}
<1> USE DEF tree, db
<1> DEFINE Kept == /\ \A i \in Ids : rows[i] # NoRow => rows'[i] # NoRow /\ rows'[i].source = rows[i].source
                   /\ \A i \in Ids : rows[i] = NoRow /\ rows'[i] # NoRow =>
                        rows'[i].source \in {"none", SourceOf[i]}
<1>1. UNCHANGED <<rows, owners>> => owners \subseteq owners' /\ Kept
  OBVIOUS
<1>2. ASSUME NEW i \in Ids, NEW row \in Row, NEW target \in Ids \cup {NoId},
             row.source \in {"none", SourceOf[i]},
             MayInsert(i, target), InsertRow(i, row, target)
      PROVE  Kept
  BY <1>2, InsertedRows
<1>3. ASSUME NEW p \in Procs, InsertNote(p)
      PROVE  owners \subseteq owners' /\ Kept
  <2>1. /\ job[p].id \in Ids /\ SourceOf[job[p].id] = "note"
        /\ job[p].names \in Ids \cup {NoId}
    BY <1>3, JobKinds DEF InsertNote, NoteJobs, NoteIds
  <2>2. [source |-> "note", durable |-> TRUE, status |-> "active"] \in Row
    BY DEF Row
  <2>3. Kept
    BY <1>2, <1>3, <2>1, <2>2 DEF InsertNote
  <2>4. owners \subseteq owners'
    BY <1>3 DEF InsertNote
  <2> QED
    BY <2>3, <2>4
<1>4. ASSUME NEW i \in Ids, NEW durable \in BOOLEAN, NEW target \in Ids \cup {NoId},
             RecordLocal(i, durable, target)
      PROVE  owners \subseteq owners' /\ Kept
  <2>1. [source |-> "none", durable |-> durable, status |-> "active"] \in Row
    BY DEF Row
  <2>2. Kept
    BY <1>2, <1>4, <2>1 DEF RecordLocal
  <2> QED
    BY <1>4, <2>2 DEF RecordLocal
<1>5. ASSUME NEW i \in Ids, rows[i] # NoRow, ResolveRow(i)
      PROVE  Kept
  <2>1. [rows[i] EXCEPT !.status = "resolved"].source = rows[i].source
    BY <1>5 DEF TypeOK, Row
  <2>2. rows'[i] = [rows[i] EXCEPT !.status = "resolved"]
    BY <1>5 DEF ResolveRow, TypeOK
  <2>3. Stored' = Stored /\ \A j \in Ids : j # i => rows'[j] = rows[j]
    BY <1>5, ResolvedRow
  <2> QED
    BY <2>1, <2>2, <2>3 DEF Stored
<1>6. ASSUME NEW p \in Procs, FinishResolve(p)
      PROVE  owners \subseteq owners' /\ Kept
  <2>1. job[p].id \in Ids
    BY <1>6, JobKinds DEF FinishResolve, ResolveJobs, NoteIds
  <2>2. CASE rows[job[p].id] # NoRow /\ ResolveRow(job[p].id)
    BY <1>5, <1>6, <2>1, <2>2 DEF FinishResolve
  <2>3. CASE UNCHANGED rows
    BY <1>1, <1>6, <2>3 DEF FinishResolve
  <2> QED
    BY <1>6, <2>2, <2>3 DEF FinishResolve
<1>7. ASSUME NEW p \in Procs, NEW i \in Ids, ResolveWithoutFile(p, i)
      PROVE  owners \subseteq owners' /\ Kept
  <2>1. Kept
    BY <1>5, <1>7 DEF ResolveWithoutFile
  <2> QED
    BY <1>7, <2>1 DEF ResolveWithoutFile
<1>8. ASSUME NEW p \in Procs,
             \/ \E mode \in Modes, lost \in Failures : Scan(p, mode, lost)
             \/ RecordHead(p)
             \/ \E i \in NoteIds, target \in Ids \cup {NoId} : WriteNote(p, i, target)
             \/ InsertNoteFails(p)
             \/ \E i \in Ids : WriteSidecar(p, i)
             \/ Crash(p)
      PROVE  UNCHANGED <<rows, owners>>
  BY <1>8 DEF Scan, RecordHead, WriteNote, InsertNoteFails, WriteSidecar, Crash
<1>9. PeopleNext \/ WorktreeNext \/ UNCHANGED vars => UNCHANGED <<rows, owners>>
  BY DEF PeopleNext, WorktreeNext, EditFile, MoveHead, RemoveWorktree, AddWorktree, vars
<1> HIDE DEF Kept
<1>10. owners \subseteq owners' /\ Kept
  BY <1>1, <1>3, <1>4, <1>6, <1>7, <1>8, <1>9 DEF Next, ImportNext, AgentNext
<1> QED
  BY <1>10 DEF Kept

\* A scan reads what the worktree has, and prunes commits only if it read them all.
LEMMA ScanReads ==
  ASSUME TypeOK, NEW p \in Procs, NEW mode \in AllModes, NEW lost \in SUBSET FailsToRead,
         Scan(p, mode, lost)
  PROVE  /\ Faithful(job'[p], Home[p])
         /\ job'[p].listed = NotGone(Home[p], lost)
         /\ job'[p].head # NoCommit =>
              \A i \in Ids \cap History[job'[p].head] :
                \/ job'[p].items[i] # NoDoc
                \/ /\ heads[Home[p]] # NoCommit
                   /\ "git" \notin job'[p].prune
                   /\ i \in History[heads[Home[p]]]
<1> DEFINE w == Home[p]
           from == Read(mode, lost)
           since == Since(w, mode)
           git == GitItems(w, from, since)
           items == [i \in Ids |-> IF i \notin git \cup FileItems(w, from) THEN NoDoc
                                   ELSE IF SourceOf[i] = "git" THEN PlainDoc
                                   ELSE files[w][i]]
           read == IF "git" \in from THEN head[w] ELSE NoCommit
<1>1. /\ job'[p].items = items
      /\ job'[p].prune = Pruned(w, from, since)
      /\ job'[p].listed = NotGone(w, lost)
      /\ job'[p].head = read
      /\ w \in NotGone(w, lost)
  BY HomeAssumption DEF Scan, TypeOK, NotGone
<1>2. NoDoc \notin Doc /\ PlainDoc \in Doc /\ PlainDoc.readable
  BY AbsentAssumption, PlainDocs DEF PlainDoc
<1>3. ASSUME NEW i \in Ids, SourceOf[i] = "git"
      PROVE  items[i] # NoDoc <=> i \in git
  BY <1>2, <1>3 DEF FileItems, FileIds
<1>4. ASSUME NEW i \in Ids, items[i] # NoDoc
      PROVE  items[i].readable
  <2>1. CASE SourceOf[i] = "git"
    BY <1>2, <1>4, <2>1
  <2>2. CASE SourceOf[i] # "git"
    <3>1. i \notin git
      <4>1. i \notin Commits
        BY <2>2, HistoryAssumption
      <4>2. head[w] \in Commits \cup {NoCommit}
        BY HomeAssumption DEF TypeOK
      <4>3. git # {} => head[w] # NoCommit /\ git \subseteq History[head[w]]
        BY DEF GitItems
      <4>4. git \subseteq Commits
        <5> HIDE DEF git
        <5> QED
          BY <4>2, <4>3, HistoryAssumption
      <4> QED
        BY <4>1, <4>4
    <3> QED
      BY <1>4, <2>2, <3>1 DEF FileItems
  <2> QED
    BY <2>1, <2>2
<1>5. ASSUME "git" \in Pruned(w, from, since)
      PROVE  /\ read # NoCommit
             /\ git = Ids \cap History[read]
  BY <1>5 DEF Pruned, GitItems
<1>6. ASSUME read # NoCommit
      PROVE  /\ git = Ids \cap (History[read] \ UNION {History[c] : c \in since})
             /\ "git" \notin Pruned(w, from, since) => since # {}
  <2>1. "git" \in from /\ read = head[w]
    BY <1>6
  <2> QED
    BY <1>6, <2>1 DEF Pruned, GitItems
<1>7. \A c \in since : c = heads[w] /\ heads[w] # NoCommit
  BY DEF Since
<1>8. \A i \in Ids : SourceOf[i] = "git" <=> i \in Commits
  BY HistoryAssumption
<1>9. read \in Commits \cup {NoCommit}
  BY HomeAssumption DEF TypeOK
<1>10. read # NoCommit => History[read] \subseteq Commits
  BY <1>9, HistoryAssumption
<1> HIDE DEF items, git, read, from, since
<1>11. Faithful(job'[p], w)
  BY <1>1, <1>3, <1>4, <1>5, <1>8 DEF Faithful
<1>12. ASSUME read # NoCommit, NEW i \in Ids \cap History[read]
       PROVE  \/ items[i] # NoDoc
              \/ heads[w] # NoCommit /\ "git" \notin Pruned(w, from, since) /\ i \in History[heads[w]]
  <2>1. SourceOf[i] = "git"
    BY <1>8, <1>10, <1>12
  <2>2. CASE i \in git
    BY <1>3, <2>1, <2>2
  <2>3. CASE i \notin git
    <3>1. PICK c \in since : i \in History[c]
      BY <1>6, <1>12, <2>3
    <3>2. since # {}
      BY <3>1
    <3>3. "git" \notin Pruned(w, from, since)
      BY <3>2 DEF Pruned
    <3> QED
      BY <1>7, <3>1, <3>3
  <2> QED
    BY <2>2, <2>3
<1> QED
  BY <1>1, <1>11, <1>12

\* Only its own steps move what a process is in the middle of.
LEMMA OwnSteps ==
  ASSUME TypeOK, [Next]_vars, NEW p \in Procs, job'[p] # job[p]
  PROVE  \/ \E mode \in Modes, lost \in Failures : Scan(p, mode, lost)
         \/ Apply(p) \/ RecordHead(p) \/ InsertNote(p) \/ InsertNoteFails(p)
         \/ \E i \in NoteIds, target \in Ids \cup {NoId} : WriteNote(p, i, target)
         \/ \E i \in Ids : WriteSidecar(p, i)
         \/ FinishResolve(p) \/ Crash(p)
<1>1. ASSUME NEW q \in Procs, NEW j, job' = [job EXCEPT ![q] = j]
      PROVE  q = p
  BY <1>1 DEF TypeOK
<1>2. ASSUME NEW q \in Procs,
             \/ \E mode \in Modes, lost \in Failures : Scan(q, mode, lost)
             \/ RecordHead(q) \/ InsertNote(q) \/ InsertNoteFails(q)
             \/ \E i \in NoteIds, target \in Ids \cup {NoId} : WriteNote(q, i, target)
             \/ \E i \in Ids : WriteSidecar(q, i)
             \/ FinishResolve(q) \/ Crash(q)
      PROVE  q = p
  BY <1>1, <1>2 DEF Scan, RecordHead, InsertNote, InsertNoteFails, WriteNote, WriteSidecar,
                    FinishResolve, Crash
<1>3. ASSUME NEW q \in Procs, Apply(q)
      PROVE  q = p
  BY <1>1, <1>3, ApplyEffect
<1>4. /\ ~ \E q \in Procs, i \in Ids : ResolveWithoutFile(q, i)
      /\ ~ \E i \in Ids, durable \in BOOLEAN, target \in Ids \cup {NoId} :
             RecordLocal(i, durable, target)
  BY DEF ResolveWithoutFile, RecordLocal
<1>5. ~ PeopleNext /\ ~ WorktreeNext /\ vars' # vars
  BY DEF PeopleNext, WorktreeNext, EditFile, MoveHead, RemoveWorktree, AddWorktree, vars
<1> QED
  BY <1>2, <1>3, <1>4, <1>5 DEF Next, ImportNext, AgentNext

\* A process that is at a scan's transaction has just read, or was there already.
LEMMA NewScans ==
  ASSUME TypeOK, [Next]_vars, NEW p \in Procs, Scanning(p)', job'[p] # job[p]
  PROVE  \E mode \in AllModes, lost \in SUBSET FailsToRead : Scan(p, mode, lost)
<1>1. Scanning(p)' => job'[p] # Idle /\ job'[p].at = "apply"
  BY DEF Scanning
<1>2. ~ Apply(p)
  BY <1>1, ApplyEffect DEF TypeOK
<1>3. ~ RecordHead(p) /\ ~ InsertNote(p) /\ ~ InsertNoteFails(p) /\ ~ FinishResolve(p) /\ ~ Crash(p)
  BY <1>1 DEF RecordHead, InsertNote, InsertNoteFails, FinishResolve, Crash, TypeOK
<1>4. \A i \in NoteIds, target \in Ids \cup {NoId} :
        ~ WriteNote(p, i, target)
  BY <1>1 DEF WriteNote, TypeOK
<1>5. \A i \in Ids : ~ WriteSidecar(p, i)
  BY <1>1 DEF WriteSidecar, TypeOK
<1> QED
  BY <1>2, <1>3, <1>4, <1>5, OwnSteps, ModesAssumption, FailuresAssumption

\* What imports have read, and where the rows come from, is kept by every step.
ScanInvariant == IndexInvariant /\ RowsFit /\ ScansAreFaithful

\* Every step keeps them together: each part relies on the others.
LEMMA ScanInvariantStep ==
  ASSUME ScanInvariant, [Next]_vars
  PROVE  ScanInvariant'
<1>1. TypeOK /\ IndexInvariant /\ IndexInvariant'
  BY InvariantStep DEF ScanInvariant, IndexInvariant
<1>2. RowsFit'
  <2>1. CASE \E p \in Procs : Apply(p)
    BY <1>1, <2>1, ApplySources DEF ScanInvariant, RowsFit
  <2>2. CASE ~ \E p \in Procs : Apply(p)
    BY <1>1, <2>2, OtherSources DEF ScanInvariant, RowsFit
  <2> QED
    BY <2>1, <2>2
<1>3. ScansAreFaithful'
  <2> SUFFICES ASSUME NEW p \in Procs, Scanning(p)'
               PROVE  Faithful(job'[p], Home[p])
    BY DEF ScansAreFaithful, Faithful
  <2>1. CASE job'[p] = job[p]
    BY <2>1 DEF ScanInvariant, ScansAreFaithful, Scanning
  <2>2. CASE job'[p] # job[p]
    BY <1>1, <2>2, NewScans, ScanReads
  <2> QED
    BY <2>1, <2>2
<1> QED
  BY <1>1, <1>2, <1>3 DEF ScanInvariant

\* The index with what half-done imports have read of their worktree: what a scan
\* found fits the rows the import is about to write, whoever commits in between.
THEOREM ScanInvariance == Spec => []ScanInvariant
<1>1. Init => ScanInvariant
  BY DEF Init, ScanInvariant, IndexInvariant, TypeOK, SourcedRowsAreOwned, EdgesJoinStoredRows,
         SupersededIsExplained, ClaimedBy, Sourced, Stored, RowsFit, ScansAreFaithful, Scanning
<1>2. ScanInvariant /\ [Next]_vars => ScanInvariant'
  BY ScanInvariantStep
<1> QED
  BY <1>1, <1>2, PTL DEF Spec

\* A complete import of what its worktree still holds leaves its claims exact.
LEMMA ApplyExact ==
  ASSUME ScanInvariant, NEW p \in Procs, Apply(p),
         job[p].prune = Sources, IsCurrent(p), NEW i \in Ids
  PROVE  /\ i \in Has(Home[p]) /\ (rows'[i] = NoRow \/ rows'[i].source # "none") =>
              <<i, Home[p]>> \in owners'
         /\ <<i, Home[p]>> \in owners' => i \in Has(Home[p]) \cup job[p].keep
<1> DEFINE b == job[p]
           w == Home[p]
<1>1. TypeOK /\ b \in ScanJobs /\ Faithful(b, w) /\ w \in Worktrees
  BY ApplyEffect, JobKinds, HomeAssumption
     DEF ScanInvariant, IndexInvariant, ScansAreFaithful, Scanning
<1>2. SourceOf[i] = "git" <=> i \in Commits
  BY HistoryAssumption
<1>3. b.head # NoCommit /\ b.head = head[w] /\ b.head \in Commits
  BY <1>1 DEF Faithful, IsCurrent, ScanJobs, Sources
<1>4. History[b.head] \subseteq Commits
  BY <1>3, HistoryAssumption
<1>5. i \in Has(w) <=> \/ i \in FileIds /\ files[w][i] # NoDoc /\ files[w][i].readable
                       \/ i \in History[b.head]
  <2>1. i \in GitItems(w, Sources, {}) <=> i \in History[b.head]
    <3>1. UNION {History[c] : c \in {}} = {}
      OBVIOUS
    <3>2. GitItems(w, Sources, {}) = Ids \cap History[b.head]
      BY <1>3, <3>1 DEF GitItems, Sources
    <3> QED
      BY <3>2
  <2>2. i \in FileItems(w, Sources) <=>
          i \in FileIds /\ files[w][i] # NoDoc /\ files[w][i].readable
    BY SourceAssumption DEF FileItems, FileIds, Sources
  <2> QED
    BY <2>1, <2>2 DEF Has
<1>6. i \in b.keep \/ (i \in Has(w) <=> b.items[i] # NoDoc)
  <2>1. CASE i \in Commits
    <3>1. i \notin FileIds
      BY <1>2, <2>1 DEF FileIds
    <3>2. b.items[i] # NoDoc <=> i \in History[b.head]
      BY <1>1, <2>1 DEF Faithful, Sources
    <3> QED
      BY <1>5, <3>1, <3>2
  <2>2. CASE i \notin Commits
    <3>1. i \in FileIds
      BY <1>2, <2>2 DEF FileIds
    <3>2. i \notin b.keep => files[w][i] = b.items[i]
      BY <3>1 DEF IsCurrent
    <3>3. b.items[i] # NoDoc => b.items[i].readable
      BY <1>1 DEF Faithful
    <3> QED
      BY <1>4, <1>5, <2>2, <3>1, <3>2, <3>3
  <2> QED
    BY <2>1, <2>2
<1>7. i \in Has(w) /\ i \in b.keep => i \in Commits
  BY <1>4, <1>5 DEF IsCurrent
<1>8. i \in Has(w) => i \in ItemsOf(b)
  <2>1. i \in Has(w) /\ i \in Commits => b.items[i] # NoDoc
    <3>1. i \in Commits => i \notin FileIds
      BY <1>2 DEF FileIds
    <3> QED
      BY <1>1, <1>5, <3>1 DEF Faithful, Sources
  <2> QED
    BY <1>6, <1>7, <2>1 DEF ItemsOf
<1>9. owners' = ClaimsAfter(p) /\ w \in b.listed
  BY <1>1, ApplyEffect DEF Faithful
<1>10. ASSUME i \in Applied(b)
       PROVE  <<i, w>> \in owners'
  BY <1>9, <1>10 DEF ClaimsAfter, ClaimsLeft, Unclaimed, Applied
<1>11. ASSUME i \in ItemsOf(b), i \notin Applied(b)
       PROVE  rows'[i] # NoRow /\ rows'[i].source = "none"
  <2>1. rows[i] # NoRow /\ rows[i].source # SourceOf[i]
    BY <1>11 DEF Applied, MayApply
  <2>2. rows[i].source = "none"
    BY <2>1 DEF ScanInvariant, RowsFit
  <2> QED
    BY <1>1, <1>11, <2>1, <2>2, ApplySources
<1>12. ASSUME <<i, w>> \in owners', i \notin b.keep
       PROVE  i \in ItemsOf(b)
  <2> SUFFICES ASSUME i \notin ItemsOf(b)
               PROVE  FALSE
    OBVIOUS
  <2>1. i \notin Applied(b)
    BY DEF Applied
  <2>2. <<i, w>> \in owners
    BY <1>9, <1>12, <2>1 DEF ClaimsAfter, ClaimsLeft
  <2>3. rows[i] # NoRow /\ rows[i].source # "none"
    BY <1>1, <2>2 DEF ScanInvariant, IndexInvariant, SourcedRowsAreOwned, ClaimedBy, Sourced, Stored
  <2>4. HiddenRows(b)[i] # NoRow /\ HiddenRows(b)[i].source = rows[i].source
    BY <1>1, <2>1, <2>3, StageRows
  <2>5. rows[i].source \in b.prune
    BY <1>1, <2>3 DEF TypeOK, Row, Sources
  <2>6. <<i, w>> \in Unclaimed(HiddenRows(b), b, w)
    BY <1>12, <2>4, <2>5 DEF Unclaimed
  <2> QED
    BY <1>9, <1>12, <2>6 DEF ClaimsAfter, ClaimsLeft
<1> QED
  BY <1>6, <1>8, <1>10, <1>11, <1>12 DEF ItemsOf

\* A full import of a worktree that nobody changed meanwhile leaves the claims of this
\* worktree equal to what it has, but for taken ids and unreadable documents.
THEOREM FullImportsAreExact == Spec => FullImportIsExact
<1> DEFINE Exact(p) ==
      LET mine == ClaimedBy(Home[p])' IN
      /\ {i \in Has(Home[p]) : rows'[i] = NoRow \/ rows'[i].source # "none"} \subseteq mine
      /\ mine \subseteq Has(Home[p]) \cup job[p].keep
<1>1. ASSUME ScanInvariant, [Next]_vars, NEW p \in Procs,
             job[p] # Idle, job[p].at = "apply", job[p].prune = Sources,
             IsCurrent(p), job'[p] # Idle, job'[p].at = "head"
      PROVE  Exact(p)
  <2>1. TypeOK
    BY <1>1 DEF ScanInvariant, IndexInvariant
  <2>2. Apply(p)
    <3>1. job'[p] # job[p]
      BY <1>1
    <3>2. ~ \E mode \in Modes, lost \in Failures : Scan(p, mode, lost)
      BY <1>1 DEF Scan
    <3>3. ~ RecordHead(p) /\ ~ InsertNote(p) /\ ~ InsertNoteFails(p) /\ ~ FinishResolve(p)
      BY <1>1 DEF RecordHead, InsertNote, InsertNoteFails, FinishResolve
    <3>4. ~ Crash(p)
      BY <1>1, <2>1 DEF Crash, TypeOK
    <3>5. /\ ~ \E i \in NoteIds, target \in Ids \cup {NoId} : WriteNote(p, i, target)
          /\ ~ \E i \in Ids : WriteSidecar(p, i)
      BY <1>1 DEF WriteNote, WriteSidecar
    <3> QED
      BY <1>1, <2>1, <3>1, <3>2, <3>3, <3>4, <3>5, OwnSteps
  <2>3. Has(Home[p]) \subseteq Ids
    BY DEF Has, FileItems, GitItems, FileIds
  <2>4. \A i \in Ids :
          /\ i \in Has(Home[p]) /\ (rows'[i] = NoRow \/ rows'[i].source # "none") =>
               <<i, Home[p]>> \in owners'
          /\ <<i, Home[p]>> \in owners' => i \in Has(Home[p]) \cup job[p].keep
    BY <1>1, <2>2, ApplyExact
  <2> QED
    BY <2>3, <2>4 DEF ClaimedBy
<1>2. ScanInvariant /\ [Next]_vars =>
        [\A p \in Procs :
           /\ job[p] # Idle /\ job[p].at = "apply"
           /\ job[p].prune = Sources
           /\ IsCurrent(p)
           /\ job'[p] # Idle /\ job'[p].at = "head"
           => Exact(p)]_vars
  BY <1>1
<1> QED
  BY <1>2, ScanInvariance, PTL DEF Spec, FullImportIsExact

-----------------------------------------------------------------------------
(***************************************************************************)
(* An import made twice                                                    *)
(***************************************************************************)

\* What the transaction of an import b of worktree w leaves of the claims, edges and rows.
ClaimsOf(b, w)  == ClaimsLeft(HiddenRows(b), b, w)
OrphansOf(b, w) == Orphans(HiddenRows(b), ClaimsOf(b, w))
EdgesOf(b, w)   == EdgesLeft(Related(b), OrphansOf(b, w))
CurrentOf(b, w) ==
  {i \in Freed(b, Related(b), OrphansOf(b, w)) \ OrphansOf(b, w) :
     /\ HiddenRows(b)[i] # NoRow
     /\ HiddenRows(b)[i].status = "superseded"
     /\ ~\E s \in Ids : <<s, i>> \in EdgesOf(b, w)}
RowsOf(b, w) ==
  [i \in Ids |->
     IF i \in OrphansOf(b, w) THEN NoRow
     ELSE IF i \in CurrentOf(b, w)
     THEN [HiddenRows(b)[i] EXCEPT !.status =
             IF i \in Applied(b) /\ b.items[i].resolved THEN "resolved" ELSE "active"]
     ELSE HiddenRows(b)[i]]

\* A document that is applied and says that it was superseded.
SaysRetired(b, i) == i \in Applied(b) /\ b.items[i].superseded

\* Making an import again, of the very same reading, changes nothing: no claim, no edge,
\* and no row, but for a document that says it was superseded and was made active.
SecondImportChangesNothing ==
  [][\A p \in Procs, b \in ScanJobs : job[p] = b /\ Apply(p) =>
       /\ ClaimsOf(b, Home[p])' = owners'
       /\ EdgesOf(b, Home[p])' = edges'
       /\ \A i \in Ids : ~SaysRetired(b, i) => RowsOf(b, Home[p])'[i] = rows'[i]]_vars

\* Those are what Apply leaves.
LEMMA ApplyIsOf ==
  ASSUME NEW p \in Procs, Apply(p), NEW b, b = job[p], NEW w, w = Home[p]
  PROVE  /\ rows' = RowsOf(b, w) /\ owners' = ClaimsOf(b, w) /\ edges' = EdgesOf(b, w)
         /\ pending' = {e \in Awaiting(b) \ ReadyEdges(b) : e[1] \notin OrphansOf(b, w)}
         /\ Gone(p) = OrphansOf(b, w) /\ Current(p) = CurrentOf(b, w)
BY ApplyEffect DEF ClaimsOf, OrphansOf, EdgesOf, CurrentOf, RowsOf,
                   ClaimsAfter, Gone, LeftEdges, Current

\* The same items are applied again; what was refused is still recorded directly.
LEMMA AgainApplied ==
  ASSUME ScanInvariant, ScanInvariant', NEW p \in Procs, Apply(p),
         NEW b \in ScanJobs, b = job[p], NEW w, w = Home[p], NEW i \in Ids
  PROVE  /\ i \in Applied(b)' <=> i \in Applied(b)
         /\ i \in Applied(b) => /\ <<i, w>> \in owners'
                                /\ rows'[i] # NoRow /\ rows'[i].source = SourceOf[i]
<1>1. TypeOK /\ TypeOK' /\ w \in Worktrees /\ w \in b.listed
  BY ApplyEffect, HomeAssumption
     DEF ScanInvariant, IndexInvariant, ScansAreFaithful, Scanning, Faithful
<1>2. SourceOf[i] \in {"note", "adr", "git"}
  BY SourceAssumption
<1>3. ASSUME i \in Applied(b)
      PROVE  /\ <<i, w>> \in owners'
             /\ rows'[i] # NoRow /\ rows'[i].source = SourceOf[i]
  <2>1. <<i, w>> \in owners'
    BY <1>1, <1>3, ApplyIsOf DEF ClaimsOf, ClaimsLeft, Unclaimed, Applied
  <2>2. rows'[i] # NoRow /\ rows'[i].source # "none"
    BY <1>1, <2>1 DEF ScanInvariant, IndexInvariant, SourcedRowsAreOwned, ClaimedBy, Sourced, Stored
  <2>3. QED
    BY <2>1, <2>2 DEF ScanInvariant, RowsFit
<1>4. ASSUME i \notin Applied(b), i \in ItemsOf(b)
      PROVE  /\ rows'[i] # NoRow /\ rows'[i].source = "none"
             /\ ~(SourceOf[i] = "note" /\ rows'[i].durable)
  <2>1. /\ rows[i] # NoRow /\ rows[i].source # SourceOf[i]
        /\ ~(rows[i].source = "none" /\ SourceOf[i] = "note" /\ rows[i].durable)
    BY <1>4 DEF Applied, MayApply
  <2>2. rows[i].source = "none" /\ rows[i] \in Row
    BY <1>1, <2>1 DEF ScanInvariant, RowsFit, TypeOK
  <2>3. rows'[i] # NoRow /\ rows'[i].source = "none"
    BY <1>1, <1>4, <2>1, <2>2, ApplySources
  <2>4. rows'[i].durable = rows[i].durable
    <3>1. UpsertedRows(b)[i] = rows[i]
      BY <1>4 DEF UpsertedRows
    <3>2. PICK h : h = HiddenRows(b)[i]
      OBVIOUS
    <3>3. h = rows[i] \/ h = [rows[i] EXCEPT !.status = "superseded"]
      BY <3>1, <3>2 DEF HiddenRows, Hidden
    <3>4. h \in Row /\ h.durable = rows[i].durable
      BY <2>2, <3>3 DEF Row
    <3>5. rows'[i] = h \/ \E st \in {"active", "resolved"} : rows'[i] = [h EXCEPT !.status = st]
      BY <2>3, <3>2, ApplyIsOf DEF RowsOf
    <3>6. QED
      BY <3>4, <3>5 DEF Row
  <2>5. QED
    BY <2>1, <2>2, <2>3, <2>4
<1>5. i \in Applied(b) => i \in Applied(b)'
  BY <1>3 DEF Applied, MayApply
<1>6. i \in Applied(b)' => i \in Applied(b)
  BY <1>2, <1>4 DEF Applied, MayApply
<1>7. QED
  BY <1>3, <1>5, <1>6

\* The stages of an import keep their lemmas after a step.
LEMMA StagesAfter ==
  (TypeOK => \A b \in ScanJobs, i \in Ids :
     /\ i \in Applied(b) => HiddenRows(b)[i] # NoRow /\ HiddenRows(b)[i].source = SourceOf[i]
     /\ i \notin Applied(b) => /\ HiddenRows(b)[i] = NoRow <=> rows[i] = NoRow
                               /\ rows[i] # NoRow => HiddenRows(b)[i].source = rows[i].source)'
<1>1. TypeOK => \A b \in ScanJobs, i \in Ids :
        /\ i \in Applied(b) => HiddenRows(b)[i] # NoRow /\ HiddenRows(b)[i].source = SourceOf[i]
        /\ i \notin Applied(b) => /\ HiddenRows(b)[i] = NoRow <=> rows[i] = NoRow
                                  /\ rows[i] # NoRow => HiddenRows(b)[i].source = rows[i].source
  BY AppliedSource, StageRows
<1>2. QED
  BY <1>1, PTL

\* The same claims are left again, and no row is without one.
LEMMA AgainClaims ==
  ASSUME ScanInvariant, ScanInvariant', NEW p \in Procs, Apply(p),
         NEW b \in ScanJobs, b = job[p], NEW w, w = Home[p]
  PROVE  ClaimsOf(b, w)' = owners' /\ OrphansOf(b, w)' = {}
<1>1. TypeOK /\ TypeOK' /\ w \in Worktrees
  BY HomeAssumption DEF ScanInvariant, IndexInvariant
<1>2. owners' = ClaimsOf(b, w) /\ owners' \subseteq Ids \X Worktrees
  BY <1>1, ApplyIsOf DEF TypeOK
<1>3. \A o \in owners' : o[2] \in b.listed
  BY <1>2 DEF ClaimsOf, ClaimsLeft
<1>4. Applied(b)' \X {w} \subseteq owners'
  BY AgainApplied DEF Applied, ItemsOf
<1>5. ASSUME NEW i \in Ids, <<i, w>> \in owners', <<i, w>> \in Unclaimed(HiddenRows(b), b, w)'
      PROVE  FALSE
  <2>1. i \notin ItemsOf(b) \cup b.keep /\ HiddenRows(b)'[i] # NoRow
        /\ HiddenRows(b)'[i].source \in b.prune
    BY <1>5 DEF Unclaimed
  <2>2. i \notin Applied(b) /\ i \notin Applied(b)'
    BY <2>1 DEF Applied
  <2>3. rows'[i] # NoRow /\ rows'[i].source \in b.prune
    BY <1>1, <2>1, <2>2, StagesAfter
  <2>4. rows[i] # NoRow /\ rows'[i].source = rows[i].source
    BY <1>1, <2>2, <2>3, ApplySources
  <2>5. HiddenRows(b)[i] # NoRow /\ HiddenRows(b)[i].source \in b.prune
    BY <1>1, <2>2, <2>3, <2>4, StageRows
  <2>6. <<i, w>> \in Unclaimed(HiddenRows(b), b, w)
    BY <2>1, <2>5 DEF Unclaimed
  <2>7. QED
    BY <1>2, <1>5, <2>6 DEF ClaimsOf, ClaimsLeft
<1>6. owners' \cap Unclaimed(HiddenRows(b), b, w)' = {}
  BY <1>2, <1>5 DEF Unclaimed
<1>7. ClaimsOf(b, w)' = owners'
  BY <1>3, <1>4, <1>6 DEF ClaimsOf, ClaimsLeft
<1>8. ASSUME NEW i \in OrphansOf(b, w)'
      PROVE  FALSE
  <2>1. /\ i \in Ids /\ HiddenRows(b)'[i] # NoRow /\ HiddenRows(b)'[i].source # "none"
        /\ \A v \in Worktrees : <<i, v>> \notin owners'
    BY <1>7, <1>8 DEF OrphansOf, Orphans
  <2>2. i \notin Applied(b)'
    BY <1>1, <2>1, AgainApplied
  <2>3. rows'[i] # NoRow /\ rows'[i].source # "none"
    BY <1>1, <2>1, <2>2, StagesAfter
  <2>4. SourcedRowsAreOwned'
    BY DEF ScanInvariant, IndexInvariant
  <2>5. i \in Sourced'
    BY <2>1, <2>3 DEF Sourced, Stored
  <2>6. PICK v \in Worktrees : <<i, v>> \in owners'
    BY <2>4, <2>5 DEF SourcedRowsAreOwned, ClaimedBy
  <2>7. QED
    BY <2>1, <2>6
<1>9. QED
  BY <1>7, <1>8

\* No edge is dropped again, and those that become relations again are relations.
LEMMA AgainReady ==
  ASSUME ScanInvariant, ScanInvariant', NEW p \in Procs, Apply(p),
         NEW b \in ScanJobs, b = job[p], NEW w, w = Home[p]
  PROVE  /\ Dropped(b)' = {}
         /\ \A e \in ReadyEdges(b)' : e \in ReadyEdges(b) /\ e \in edges'
<1>1. TypeOK /\ TypeOK'
  BY DEF ScanInvariant, IndexInvariant
<1>2. /\ edges' = EdgesOf(b, w)
      /\ pending' = {e \in Awaiting(b) \ ReadyEdges(b) : e[1] \notin OrphansOf(b, w)}
      /\ rows' = RowsOf(b, w)
  BY ApplyIsOf
<1>3. Applied(b)' = Applied(b)
  BY AgainApplied DEF Applied, ItemsOf
<1>4. \A e \in Awaiting(b) : e[1] \in Applied(b) => e \in Stated(b)
  BY DEF Awaiting, Dropped
<1>5. \A e \in edges' : e[1] \in Applied(b) => e \in Stated(b)
  BY <1>2, <1>4 DEF EdgesOf, EdgesLeft, Related, ReadyEdges, Resolvable, Dropped
<1>6. Dropped(b)' = {}
  BY <1>2, <1>3, <1>4, <1>5 DEF Dropped, Stated
<1>7. Awaiting(b)' \subseteq Awaiting(b)
  BY <1>2, <1>3 DEF Awaiting, Refused, Stated, ItemsOf
<1>8. \A i \in Ids : UpsertedRows(b)'[i] # NoRow => i \notin OrphansOf(b, w) /\ UpsertedRows(b)[i] # NoRow
  <2> SUFFICES ASSUME NEW i \in Ids, UpsertedRows(b)'[i] # NoRow
               PROVE  i \notin OrphansOf(b, w) /\ UpsertedRows(b)[i] # NoRow
    OBVIOUS
  <2>1. rows'[i] # NoRow
    BY <1>3, AgainApplied DEF UpsertedRows
  <2>2. i \notin OrphansOf(b, w) /\ HiddenRows(b)[i] # NoRow
    BY <1>1, <2>1, ApplyRows, ApplyIsOf
  <2>3. QED
    BY <2>2 DEF HiddenRows, Hidden
<1>9. ASSUME NEW e \in ReadyEdges(b)'
      PROVE  e \in ReadyEdges(b) /\ e \in edges'
  <2>1. /\ e \in Awaiting(b)' /\ UpsertedRows(b)'[e[1]] # NoRow /\ UpsertedRows(b)'[e[2]] # NoRow
    BY <1>9 DEF ReadyEdges, Resolvable
  <2>2. e \in Awaiting(b) /\ e[1] \in Ids /\ e[2] \in Ids
    BY <1>1, <1>7, <2>1, StageTypes DEF Awaiting, TypeOK
  <2>3. e \in ReadyEdges(b)
    BY <1>8, <2>1, <2>2 DEF ReadyEdges, Resolvable
  <2>4. QED
    BY <1>2, <1>8, <2>1, <2>2, <2>3 DEF EdgesOf, EdgesLeft, Related
<1>10. QED
  BY <1>6, <1>9

\* What an import leaves of an applied row is what a second upsert makes of it, unless the
\* document says that it was superseded.
LEMMA AgainUpserted ==
  ASSUME ScanInvariant, ScanInvariant', NEW p \in Procs, Apply(p),
         NEW b \in ScanJobs, b = job[p], NEW i \in Ids, ~SaysRetired(b, i)
  PROVE  UpsertedRows(b)'[i] = rows'[i]
<1>1. TypeOK /\ TypeOK'
  BY DEF ScanInvariant, IndexInvariant
<1>2. i \in Applied(b)' <=> i \in Applied(b)
  BY AgainApplied
<1>3. ASSUME i \in Applied(b)
      PROVE  rows'[i] # NoRow /\ rows'[i] \in Row
  <2>1. rows'[i] # NoRow
    BY <1>3, AgainApplied
  <2>2. QED
    BY <1>1, <2>1 DEF TypeOK
<1>4. CASE i \notin Applied(b)
  BY <1>2, <1>4 DEF UpsertedRows
<1>5. CASE i \in Applied(b)
  <2>1. PICK u, h, doc, r : u = UpsertedRows(b)[i] /\ h = HiddenRows(b)[i] /\ doc = b.items[i]
                            /\ r = rows'[i]
    OBVIOUS
  <2>2. ~doc.superseded
    BY <1>5, <2>1 DEF SaysRetired
  <2>3. r # NoRow /\ r \in Row
    BY <1>3, <1>5, <2>1
  <2>4. u \in Row /\ u.source = SourceOf[i] /\ u.durable = TRUE
        /\ (doc.resolved => u.status \in {"superseded", "resolved"})
    <3>1. u = Upsert(i, doc)
      BY <1>5, <2>1 DEF UpsertedRows
    <3>2. u.source = SourceOf[i] /\ u.durable = TRUE
      BY <3>1 DEF Upsert
    <3>3. doc.resolved => u.status \in {"superseded", "resolved"}
      BY <2>2, <3>1 DEF Upsert
    <3>4. u \in Row
      <4>1. u \in Row \cup {NoRow}
        BY <1>1, <2>1, StageTypes
      <4>2. h # NoRow
        BY <1>1, <1>5, <2>1, AppliedSource
      <4>3. u # NoRow
        BY <2>1, <4>2 DEF HiddenRows, Hidden
      <4>4. QED
        BY <4>1, <4>3
    <3>5. QED
      BY <3>2, <3>3, <3>4
  <2>5. h = u \/ h = [u EXCEPT !.status = "superseded"]
    BY <2>1 DEF HiddenRows, Hidden
  <2>6. \/ r = h
        \/ ~doc.resolved /\ r = [h EXCEPT !.status = "active"]
        \/ r = [h EXCEPT !.status = "resolved"]
    BY <1>5, <2>1, <2>3, ApplyIsOf DEF RowsOf
  <2>7. r.source = SourceOf[i] /\ r.durable = TRUE
        /\ (doc.resolved => r.status \in {"superseded", "resolved"})
    <3>1. h \in Row /\ h.source = SourceOf[i] /\ h.durable = TRUE
          /\ (doc.resolved => h.status \in {"superseded", "resolved"})
      BY <2>4, <2>5 DEF Row
    <3>2. QED
      BY <2>6, <3>1 DEF Row
  <2>8. UpsertedRows(b)'[i] = [source |-> SourceOf[i], durable |-> TRUE,
                               status |-> IF doc.resolved /\ r.status # "superseded"
                                          THEN "resolved" ELSE r.status]
    BY <1>2, <1>5, <2>1, <2>2, <2>3 DEF UpsertedRows, Upsert
  <2>9. (IF doc.resolved /\ r.status # "superseded" THEN "resolved" ELSE r.status) = r.status
    BY <2>7
  <2>10. r = [source |-> SourceOf[i], durable |-> TRUE, status |-> r.status]
    BY <2>3, <2>7 DEF Row
  <2>11. QED
    BY <2>1, <2>8, <2>9, <2>10
<1>6. QED
  BY <1>4, <1>5

\* It is hidden already if it would be hidden again,
LEMMA AgainHidden ==
  ASSUME ScanInvariant, ScanInvariant', NEW p \in Procs, Apply(p),
         NEW b \in ScanJobs, b = job[p], NEW i \in Ids, ~SaysRetired(b, i)
  PROVE  HiddenRows(b)'[i] = rows'[i]
<1>1. TypeOK /\ TypeOK'
  BY DEF ScanInvariant, IndexInvariant
<1>2. UpsertedRows(b)'[i] = rows'[i]
  BY AgainUpserted
<1>3. CASE \/ i \notin {e[2] : e \in ReadyEdges(b)'}
           \/ rows'[i] = NoRow
           \/ ~(rows'[i].source # "none" \/ rows'[i].durable)
  BY <1>2, <1>3 DEF HiddenRows, Hidden
<1>4. CASE /\ i \in {e[2] : e \in ReadyEdges(b)'}
           /\ rows'[i] # NoRow
           /\ rows'[i].source # "none" \/ rows'[i].durable
  <2>1. PICK w : w = Home[p]
    OBVIOUS
  <2>2. PICK e \in ReadyEdges(b) : e[2] = i /\ e \in edges'
    BY <1>4, <2>1, AgainReady
  <2>3. e \in Ids \X Ids /\ e = <<e[1], i>>
    BY <1>1, <2>2 DEF TypeOK
  <2>4. i \notin Gone(p) /\ HiddenRows(b)[i] # NoRow
    BY <1>1, <1>4, ApplyRows
  <2>5. i \notin Current(p)
    <3>1. <<e[1], i>> \in LeftEdges(p) /\ e[1] \in Ids
      BY <2>2, <2>3, ApplyEffect
    <3>2. QED
      BY <3>1 DEF Current
  <2>6. rows'[i] = HiddenRows(b)[i]
    BY <1>1, <2>4, <2>5, ApplyRows
  <2>7. PICK u, h : u = UpsertedRows(b)[i] /\ h = HiddenRows(b)[i]
    OBVIOUS
  <2>8. u \in Row
    <3>1. u \in Row \cup {NoRow}
      BY <1>1, <2>7, StageTypes
    <3>2. QED
      BY <2>4, <2>7, <3>1 DEF HiddenRows, Hidden
  <2>9. h = IF u # NoRow /\ (u.source # "none" \/ u.durable)
            THEN [u EXCEPT !.status = "superseded"] ELSE u
    BY <2>2, <2>7 DEF HiddenRows, Hidden
  <2>10. h \in Row /\ h.status = "superseded"
    BY <1>4, <2>6, <2>7, <2>8, <2>9, AbsentAssumption DEF Row
  <2>11. [h EXCEPT !.status = "superseded"] = h
    BY <2>10 DEF Row
  <2>12. HiddenRows(b)'[i] = [rows'[i] EXCEPT !.status = "superseded"]
    BY <1>2, <1>4 DEF HiddenRows, Hidden
  <2>13. QED
    BY <2>6, <2>7, <2>11, <2>12
<1>5. QED
  BY <1>3, <1>4

\* and nothing is freed again.
LEMMA AgainRows ==
  ASSUME ScanInvariant, ScanInvariant', NEW p \in Procs, Apply(p),
         NEW b \in ScanJobs, b = job[p], NEW w, w = Home[p]
  PROVE  /\ EdgesOf(b, w)' = edges'
         /\ \A i \in Ids : ~SaysRetired(b, i) => RowsOf(b, w)'[i] = rows'[i]
<1>1. TypeOK /\ TypeOK'
  BY DEF ScanInvariant, IndexInvariant
<1>2. OrphansOf(b, w)' = {} /\ Dropped(b)' = {} /\ ReadyEdges(b)' \subseteq edges'
  BY AgainClaims, AgainReady
<1>3. EdgesOf(b, w)' = edges'
  BY <1>2 DEF EdgesOf, EdgesLeft, Related
<1>4. ASSUME NEW i \in Ids, ~SaysRetired(b, i), i \in CurrentOf(b, w)'
      PROVE  FALSE
  <2>1. i \in Applied(b)' /\ ~b.items[i].superseded
    BY <1>2, <1>4 DEF CurrentOf, Freed
  <2>2. i \in Applied(b) /\ rows'[i] # NoRow
    BY <2>1, AgainApplied
  <2>3. rows'[i].status = "superseded" /\ ~\E s \in Ids : <<s, i>> \in edges'
    BY <1>3, <1>4, AgainHidden DEF CurrentOf
  <2>4. i \notin Gone(p) /\ i \notin Current(p) /\ HiddenRows(b)[i] # NoRow
    BY <1>1, <2>2, <2>3, ApplyRows
  <2>5. HiddenRows(b)[i].status = "superseded"
    BY <1>1, <2>3, <2>4, ApplyRows
  <2>6. i \in Freed(b, Related(b), Gone(p))
    BY <2>1, <2>2 DEF Freed
  <2>7. i \in Current(p)
    BY <2>3, <2>4, <2>5, <2>6, ApplyEffect DEF Current
  <2>8. QED
    BY <2>4, <2>7
<1>5. ASSUME NEW i \in Ids, ~SaysRetired(b, i)
      PROVE  RowsOf(b, w)'[i] = rows'[i]
  <2>1. RowsOf(b, w)'[i] = HiddenRows(b)'[i]
    BY <1>2, <1>4, <1>5 DEF RowsOf
  <2>2. QED
    BY <1>5, <2>1, AgainHidden
<1>6. QED
  BY <1>3, <1>5

(***************************************************************************)
(* Importing is idempotent (import_tests.rs, import_all_sources_is_        *)
(* idempotent; docs/adr/0003): whatever was in the index, the transaction  *)
(* of an import, made again on the same reading, changes no claim, no edge *)
(* and no row.  The one exception is that of run import_adr.               *)
(***************************************************************************)
THEOREM ImportsAreIdempotent == Spec => SecondImportChangesNothing
<1>1. ScanInvariant /\ ScanInvariant' /\ [Next]_vars =>
        [\A p \in Procs, b \in ScanJobs : job[p] = b /\ Apply(p) =>
           /\ ClaimsOf(b, Home[p])' = owners'
           /\ EdgesOf(b, Home[p])' = edges'
           /\ \A i \in Ids : ~SaysRetired(b, i) => RowsOf(b, Home[p])'[i] = rows'[i]]_vars
  BY AgainClaims, AgainRows
<1>2. QED
  BY <1>1, ScanInvariance, PTL DEF Spec, SecondImportChangesNothing

-----------------------------------------------------------------------------
(***************************************************************************)
(* Incremental refreshes lose no decision                                  *)
(*                                                                         *)
(* One process per worktree, worktrees that stay listed, and no death      *)
(* between an import's transaction and the record of its HEAD: without any *)
(* of the three TLC finds a decision that no refresh would read again.     *)
(***************************************************************************)

OneProcessPerWorktree == \A p, q \in Procs : Home[p] = Home[q] => p = q

\* A process whose transaction has run does not die before it recorded the HEAD.
HeadsGetRecorded == \A p \in Procs : Recording(p) /\ job'[p] # job[p] => RecordHead(p)

\* The decisions up to commit c are in the index, as far as their ids are free.
Covered(w, c) ==
  \A i \in Ids \cap History[c] : <<i, w>> \in owners \/ (rows[i] # NoRow /\ rows[i].source = "none")

\* An incremental import b of worktree w has what the recorded HEAD does not stand for.
Continues(b, w) ==
  /\ b.listed = Worktrees
  /\ b.head # NoCommit =>
       \A i \in Ids \cap History[b.head] :
         \/ b.items[i] # NoDoc
         \/ heads[w] # NoCommit /\ "git" \notin b.prune /\ i \in History[heads[w]]

HeadsAreCovered ==
  /\ \A p \in Procs : Scanning(p) => Continues(job[p], Home[p])
  /\ \A p \in Procs : Recording(p) => Covered(Home[p], job[p].head)
  /\ \A w \in Worktrees :
       heads[w] # NoCommit /\ (\A p \in Procs : Home[p] = w => ~ Recording(p))
         => Covered(w, heads[w])

\* What is covered stays covered, whatever runs other than the transaction of an import ...
LEMMA CoveredStays ==
  ASSUME TypeOK, [Next]_vars, ~ \E p \in Procs : Apply(p),
         NEW w \in Worktrees, NEW c \in Commits, Covered(w, c)
  PROVE  Covered(w, c)'
BY OtherSources DEF Covered

\* ... and also then, unless it prunes the commits of this very worktree.
LEMMA CoveredByOthers ==
  ASSUME ScanInvariant, NEW p \in Procs, Apply(p),
         NEW w \in Worktrees, NEW c \in Commits, Covered(w, c),
         w \in job[p].listed, w = Home[p] => "git" \notin job[p].prune
  PROVE  Covered(w, c)'
<1>1. TypeOK /\ job[p] \in ScanJobs
  BY ApplyEffect, JobKinds DEF ScanInvariant, IndexInvariant
<1> SUFFICES ASSUME NEW i \in Ids \cap History[c]
             PROVE  <<i, w>> \in owners' \/ (rows'[i] # NoRow /\ rows'[i].source = "none")
  BY DEF Covered
<1>2. SourceOf[i] = "git"
  BY HistoryAssumption
<1>3. CASE rows[i] # NoRow /\ rows[i].source = "none"
  <2>1. i \notin Applied(job[p])
    BY <1>2, <1>3 DEF Applied, MayApply
  <2> QED
    BY <1>1, <1>3, <2>1, ApplySources
<1>4. CASE <<i, w>> \in owners /\ ~ (rows[i] # NoRow /\ rows[i].source = "none")
  <2>1. CASE w # Home[p]
    <3>1. <<i, w>> \notin Unclaimed(HiddenRows(job[p]), job[p], Home[p])
      BY <2>1 DEF Unclaimed
    <3> QED
      BY <1>4, <3>1, ApplyEffect DEF ClaimsAfter, ClaimsLeft
  <2>2. CASE w = Home[p]
    <3>1. rows[i] # NoRow /\ rows[i].source = "git"
      <4>1. i \in Sourced
        BY <1>4 DEF ScanInvariant, IndexInvariant, SourcedRowsAreOwned, ClaimedBy
      <4>2. rows[i] # NoRow => rows[i].source \in {"none", "git"}
        BY <1>2 DEF ScanInvariant, RowsFit
      <4> QED
        BY <4>1, <4>2 DEF Sourced, Stored
    <3>2. HiddenRows(job[p])[i].source = "git"
      <4>1. i \in Applied(job[p]) => HiddenRows(job[p])[i].source = "git"
        BY <1>1, <1>2, AppliedSource
      <4>2. i \notin Applied(job[p]) => HiddenRows(job[p])[i].source = "git"
        BY <1>1, <3>1, StageRows
      <4> QED
        BY <4>1, <4>2
    <3>3. <<i, w>> \notin Unclaimed(HiddenRows(job[p]), job[p], Home[p])
      BY <2>2, <3>2 DEF Unclaimed
    <3> QED
      BY <1>4, <3>3, ApplyEffect DEF ClaimsAfter, ClaimsLeft
  <2> QED
    BY <2>1, <2>2
<1> QED
  BY <1>3, <1>4 DEF Covered

\* The transaction of an import covers the HEAD that it read: what it did not read
\* lies before the recorded HEAD, and is covered already.
LEMMA CoveredByImport ==
  ASSUME ScanInvariant, NEW p \in Procs, Apply(p), job[p].head # NoCommit,
         Continues(job[p], Home[p]), Home[p] \in Worktrees, Worktrees = job[p].listed,
         heads[Home[p]] # NoCommit => Covered(Home[p], heads[Home[p]])
  PROVE  Covered(Home[p], job[p].head)'
<1> DEFINE b == job[p]
           w == Home[p]
<1>1. TypeOK /\ b \in ScanJobs /\ b.head \in Commits
  BY ApplyEffect, JobKinds DEF ScanInvariant, IndexInvariant, ScanJobs
<1>2. job'[p].head = b.head
  BY <1>1, ApplyEffect DEF TypeOK
<1> SUFFICES ASSUME NEW i \in Ids \cap History[b.head]
             PROVE  <<i, w>> \in owners' \/ (rows'[i] # NoRow /\ rows'[i].source = "none")
  BY <1>2 DEF Covered
<1>3. CASE i \in Applied(b)
  <2>1. <<i, w>> \notin Unclaimed(HiddenRows(b), b, w)
    BY <1>3 DEF Unclaimed, Applied
  <2> QED
    BY <1>3, <2>1, ApplyEffect DEF ClaimsAfter, ClaimsLeft
<1>4. CASE i \in ItemsOf(b) \ Applied(b)
  <2>1. rows[i] # NoRow /\ rows[i].source = "none"
    BY <1>4 DEF Applied, MayApply, ScanInvariant, RowsFit
  <2> QED
    BY <1>1, <1>4, <2>1, ApplySources
<1>5. CASE i \notin ItemsOf(b)
  <2>1. heads[w] # NoCommit /\ "git" \notin b.prune /\ i \in History[heads[w]]
    BY <1>5 DEF Continues, ItemsOf
  <2>2. heads[w] \in Commits
    BY <1>1, <2>1 DEF TypeOK
  <2>3. PICK c \in Commits : c = heads[w]
    BY <2>2
  <2>4. Covered(w, c)
    BY <2>1, <2>3 DEF Covered
  <2>5. Covered(w, c)'
    BY <2>1, <2>4, CoveredByOthers
  <2> QED
    BY <2>1, <2>3, <2>5 DEF Covered
<1> QED
  BY <1>3, <1>4, <1>5

\* With one process per worktree, a step keeps the decisions of every recorded HEAD,
\* and those an import in progress has still to record, in the index.
LEMMA HeadsStep ==
  ASSUME ScanInvariant, HeadsAreCovered, OneProcessPerWorktree,
         [Next]_vars, HeadsGetRecorded \/ UNCHANGED vars, listed = Worktrees
  PROVE  HeadsAreCovered'
<1>1. TypeOK
  BY DEF ScanInvariant, IndexInvariant
<1>2. ASSUME NEW p \in Procs, Recording(p), job'[p] # job[p]
      PROVE  /\ RecordHead(p)
             /\ heads' = [heads EXCEPT ![Home[p]] = job[p].head]
             /\ job'[p] = Idle
  <2>1. RecordHead(p)
    BY <1>2 DEF HeadsGetRecorded, vars
  <2> QED
    BY <1>1, <2>1 DEF RecordHead, TypeOK
<1>3. ASSUME NEW w \in Worktrees, heads'[w] # heads[w]
      PROVE  \E p \in Procs : Home[p] = w /\ RecordHead(p)
  <2>1. PICK p \in Procs : RecordHead(p)
    BY <1>1, <1>3, ApplyEffect
    DEF Next, ImportNext, AgentNext, PeopleNext, WorktreeNext, vars, Scan, WriteNote,
        InsertNote, InsertNoteFails, RecordLocal, WriteSidecar, FinishResolve,
        ResolveWithoutFile, Crash, EditFile, MoveHead, RemoveWorktree, AddWorktree
  <2>2. Home[p] = w
    BY <1>1, <1>3, <2>1 DEF RecordHead, TypeOK
  <2> QED
    BY <2>1, <2>2
<1>4. ASSUME NEW p \in Procs, RecordHead(p)
      PROVE  /\ Recording(p) /\ job'[p] = Idle /\ Home[p] \in Worktrees
             /\ heads'[Home[p]] = job[p].head
             /\ ~ \E q \in Procs : Apply(q)
  <2>1. /\ Recording(p) /\ job' = [job EXCEPT ![p] = Idle]
        /\ heads' = [heads EXCEPT ![Home[p]] = job[p].head]
        /\ Home[p] \in Worktrees
    BY <1>4, HomeAssumption DEF RecordHead, Recording
  <2>2. ASSUME NEW q \in Procs, Apply(q)
        PROVE  FALSE
    <3>1. job'[q] # job[q]
      BY <1>1, <2>2, ApplyEffect DEF TypeOK
    <3>2. q = p
      BY <1>1, <2>1, <3>1 DEF TypeOK
    <3> QED
      BY <2>1, <2>2, <3>2, ApplyEffect DEF Recording
  <2> QED
    BY <1>1, <2>1, <2>2 DEF TypeOK
<1>5. ASSUME NEW p \in Procs, Scanning(p)'
      PROVE  Continues(job[p], Home[p])'
  <2>1. CASE job'[p] = job[p]
    <3>1. Scanning(p) /\ Continues(job[p], Home[p])
      BY <1>5, <2>1 DEF Scanning, HeadsAreCovered
    <3>2. heads'[Home[p]] = heads[Home[p]]
      <4> SUFFICES ASSUME heads'[Home[p]] # heads[Home[p]]
                   PROVE  FALSE
        OBVIOUS
      <4>1. PICK q \in Procs : Home[q] = Home[p] /\ RecordHead(q)
        BY <1>3, HomeAssumption
      <4>2. q = p
        BY <4>1 DEF OneProcessPerWorktree
      <4> QED
        BY <1>4, <2>1, <3>1, <4>1, <4>2 DEF Scanning
    <3> QED
      BY <2>1, <3>1, <3>2 DEF Continues
  <2>2. CASE job'[p] # job[p]
    <3>1. PICK mode \in AllModes, lost \in SUBSET FailsToRead : Scan(p, mode, lost)
      BY <1>1, <1>5, <2>2, NewScans
    <3>2. heads' = heads
      BY <3>1 DEF Scan
    <3> QED
      BY <1>1, <3>1, <3>2, ScanReads DEF Continues, NotGone
  <2> QED
    BY <2>1, <2>2
<1>6. ASSUME NEW q \in Procs, Apply(q)
      PROVE  /\ q \in Procs /\ Scanning(q) /\ Home[q] \in Worktrees
             /\ job[q].listed = Worktrees
             /\ job[q].head # NoCommit => Recording(q)' /\ job'[q].head = job[q].head
             /\ job[q].head # NoCommit => Covered(Home[q], job[q].head)'
             /\ job[q].head = NoCommit => "git" \notin job[q].prune
             /\ heads' = heads
  <2>1. Scanning(q) /\ Home[q] \in Worktrees /\ heads' = heads
    BY <1>6, ApplyEffect, HomeAssumption DEF Scanning
  <2>2. Continues(job[q], Home[q]) /\ Faithful(job[q], Home[q])
    BY <2>1 DEF HeadsAreCovered, ScanInvariant, ScansAreFaithful
  <2>3. job[q].head # NoCommit => job'[q] = [at |-> "head", head |-> job[q].head]
    BY <1>1, <1>6, ApplyEffect DEF TypeOK
  <2>4. job[q].head # NoCommit => job'[q] # Idle
    <3>1. job[q].head \in Commits \cup {NoCommit}
      BY <1>1, <1>6, ApplyEffect, JobKinds DEF ScanJobs
    <3> QED
      BY <2>3, <3>1, IdleAssumption DEF HeadJobs
  <2>5. \A r \in Procs : Home[r] = Home[q] => ~ Recording(r)
    BY <2>1 DEF OneProcessPerWorktree, Scanning, Recording
  <2>6. heads[Home[q]] # NoCommit => Covered(Home[q], heads[Home[q]])
    BY <2>1, <2>5 DEF HeadsAreCovered
  <2>7. job[q].head # NoCommit => Covered(Home[q], job[q].head)'
    BY <1>6, <2>1, <2>2, <2>6, CoveredByImport DEF Continues
  <2> QED
    BY <2>1, <2>2, <2>3, <2>4, <2>7 DEF Continues, Faithful, Recording

<1>7. ASSUME NEW w \in Worktrees, NEW c \in Commits, Covered(w, c),
             \A q \in Procs : Apply(q) /\ Home[q] = w => "git" \notin job[q].prune
      PROVE  Covered(w, c)'
  <2>1. CASE \E q \in Procs : Apply(q)
    BY <1>6, <1>7, <2>1, CoveredByOthers
  <2>2. CASE ~ \E q \in Procs : Apply(q)
    BY <1>1, <1>7, <2>2, CoveredStays
  <2> QED
    BY <2>1, <2>2
<1>8. ASSUME NEW p \in Procs, Recording(p)
      PROVE  /\ job[p].head \in Commits /\ Home[p] \in Worktrees
             /\ Covered(Home[p], job[p].head)
             /\ \A q \in Procs : ~ (Apply(q) /\ Home[q] = Home[p])
  <2>1. job[p].head \in Commits /\ Home[p] \in Worktrees
    BY <1>1, <1>8, JobKinds, HomeAssumption DEF Recording, HeadJobs
  <2>2. ASSUME NEW q \in Procs, Apply(q), Home[q] = Home[p]
        PROVE  FALSE
    <3>1. q = p
      BY <2>2 DEF OneProcessPerWorktree
    <3> QED
      BY <1>8, <2>2, <3>1, ApplyEffect DEF Recording
  <2> QED
    BY <1>8, <2>1, <2>2 DEF HeadsAreCovered
<1>9. ASSUME NEW p \in Procs, Recording(p)'
      PROVE  Covered(Home[p], job[p].head)'
  <2>1. CASE job'[p] = job[p]
    <3>1. Recording(p)
      BY <1>9, <2>1 DEF Recording
    <3>2. PICK c \in Commits : c = job[p].head
      BY <1>8, <3>1
    <3>3. Covered(Home[p], c)'
      BY <1>7, <1>8, <3>1, <3>2
    <3> QED
      BY <2>1, <3>2, <3>3 DEF Covered
  <2>2. CASE job'[p] # job[p]
    <3>1. job'[p] # Idle /\ job'[p].at = "head"
      BY <1>9 DEF Recording
    <3>2. ~ \E mode \in Modes, lost \in Failures : Scan(p, mode, lost)
      BY <1>1, <3>1 DEF Scan, TypeOK
    <3>3. ~ RecordHead(p) /\ ~ InsertNote(p) /\ ~ InsertNoteFails(p) /\ ~ FinishResolve(p) /\ ~ Crash(p)
      BY <1>1, <3>1 DEF RecordHead, InsertNote, InsertNoteFails, FinishResolve, Crash, TypeOK
    <3>4. \A i \in NoteIds, target \in Ids \cup {NoId} : ~ WriteNote(p, i, target)
      BY <1>1, <3>1 DEF WriteNote, TypeOK
    <3>5. \A i \in Ids : ~ WriteSidecar(p, i)
      BY <1>1, <3>1 DEF WriteSidecar, TypeOK
    <3>6. Apply(p)
      BY <1>1, <2>2, <3>2, <3>3, <3>4, <3>5, OwnSteps
    <3>7. job[p].head # NoCommit
      BY <1>1, <3>1, <3>6, ApplyEffect DEF TypeOK
    <3> QED
      BY <1>6, <3>6, <3>7
  <2> QED
    BY <2>1, <2>2
<1>10. ASSUME NEW w \in Worktrees, heads'[w] # NoCommit,
              \A p \in Procs : Home[p] = w => ~ Recording(p)'
       PROVE  Covered(w, heads[w])'
  <2>1. PICK c \in Commits : c = heads'[w]
    BY <1>1, <1>10, TypeStep DEF TypeOK
  <2>2. ASSUME NEW p \in Procs, Home[p] = w, RecordHead(p)
        PROVE  Covered(w, c)'
    BY <1>4, <1>7, <1>8, <2>1, <2>2
  <2>3. ASSUME ~ \E p \in Procs : Home[p] = w /\ RecordHead(p)
        PROVE  Covered(w, c)'
    <3>1. heads[w] = c
      BY <1>3, <2>1, <2>3
    <3>2. \A p \in Procs : Home[p] = w => ~ Recording(p)
      BY <1>2, <1>10, <2>3 DEF Recording
    <3>3. Covered(w, c)
      BY <1>10, <2>1, <3>1, <3>2 DEF HeadsAreCovered
    <3>4. \A q \in Procs : Apply(q) /\ Home[q] = w => "git" \notin job[q].prune
      BY <1>6, <1>10
    <3> QED
      BY <1>7, <3>3, <3>4
  <2>4. Covered(w, c)'
    BY <2>2, <2>3
  <2> QED
    BY <2>1, <2>4 DEF Covered
<1> QED
  BY <1>5, <1>9, <1>10 DEF HeadsAreCovered

\* Whatever is committed, amended, reset or switched to: the recorded HEAD of a worktree
\* stands for decisions that are all in the index, so that an incremental refresh from
\* there loses none of them.
THEOREM HeadIsIndexed ==
  ASSUME OneProcessPerWorktree
  PROVE  Spec /\ [](listed = Worktrees) /\ [][HeadsGetRecorded]_vars => []RecordedHeadIsIndexed
<1>1. Init => HeadsAreCovered
  BY DEF Init, HeadsAreCovered, Scanning, Recording
<1>2. /\ ScanInvariant /\ HeadsAreCovered /\ listed = Worktrees
      /\ [Next]_vars /\ [HeadsGetRecorded]_vars
      => HeadsAreCovered'
  BY HeadsStep
<1>3. ScanInvariant /\ HeadsAreCovered => RecordedHeadIsIndexed
  <2> SUFFICES ASSUME ScanInvariant, HeadsAreCovered, NEW w \in listed, heads[w] # NoCommit,
                      \A p \in Procs : Home[p] = w => job[p] = Idle,
                      NEW i \in Ids \cap History[heads[w]]
               PROVE  <<i, w>> \in owners \/ (rows[i] # NoRow /\ rows[i].source = "none")
    BY DEF RecordedHeadIsIndexed
  <2>1. w \in Worktrees /\ \A p \in Procs : Home[p] = w => ~ Recording(p)
    BY DEF ScanInvariant, IndexInvariant, TypeOK, Recording
  <2>2. Covered(w, heads[w])
    BY <2>1 DEF HeadsAreCovered
  <2> QED
    BY <2>2 DEF Covered
<1> QED
  BY <1>1, <1>2, <1>3, ScanInvariance, PTL DEF Spec

=============================================================================

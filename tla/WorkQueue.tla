------------------------------ MODULE WorkQueue ------------------------------
(***************************************************************************)
(* Upkeep by cheap models (src/src/work.rs): `submit` applies the answers  *)
(* of workers to the memory graph, while agents go on using it.            *)
(*                                                                         *)
(* An answer is untrusted: it may name any memory, come late, twice or     *)
(* from several workers at once; the batch a worker was given is not       *)
(* consulted.  The code checks that the answer still is one memdag would   *)
(* ask for, then carries it out in several transactions.  So an answer is  *)
(* one action that checks and one action per transaction; other processes  *)
(* run in between, and a worker may die there (a step that fails gives the *)
(* answer up as well).  An answer that is refused changes nothing.         *)
(***************************************************************************)
EXTENDS Naturals, FiniteSets

CONSTANTS
  Ids, Kinds, Sessions, LinkTypes, CitesAtBirth, MaxLearnings, MaxRelations,
  NoRow, NoId, NoSession,  \* the parameters of MemoryGraph
  Origin,  \* what backs the memory of an id: see Origins
  Workers, \* the processes that submit answers ...
  Mortal,  \* ... and those of them that may die in this instance
  Worded,  \* the memories that are given keywords in this instance (a bound) ...
  Edited,  \* ... those whose cited or own files people touch in it (a bound) ...
  Retired, \* ... those that agents supersede or resolve in it (a bound) ...
  Moves,   \* ... and what people make of the files of notes in it (a bound)
  Idle, NoVerdict

\* Recorded directly; a note, seen by processes that have write-through; imported from
\* anything else, or a note where write-through is off.
Origins  == {"direct", "note", "imported"}
\* The file of a note in this checkout: none, there, there with its `.resolved.md`.
Files    == {"absent", "open", "resolved"}
Verdicts == {"duplicate", "conflict", "related", "distinct"}

ASSUME IdsAssumption     == Ids \subseteq Nat
ASSUME BoundsAssumption  == Edited \subseteq Ids /\ Retired \subseteq Ids /\ Moves \subseteq Files
ASSUME OriginAssumption  == Origin \in [Ids -> Origins]
ASSUME VerdictAssumption == NoVerdict \notin Verdicts

VARIABLES
  mem, relations, reviewed, swept, \* the tables of MemoryGraph
  verdict,  \* the column reviewed_pairs.verdict
  notes,    \* the files of notes in this checkout
  job,      \* the answer each worker is in the middle of applying
  log,      \* history: what workers dropped as a duplicate, which of it they hid in the
            \* database alone, and what they replaced
  moved     \* history: the workers whose note people moved since they checked it

\* The graph that workers see to: they add tasks, references and new versions of
\* memories that cite files, also where agents in this instance record none.
Graph == INSTANCE MemoryGraph WITH Kinds        <- Kinds \cup {"task"},
                                   LinkTypes    <- LinkTypes \cup {"references"},
                                   CitesAtBirth <- CitesAtBirth \cup {"none", "current"}

ASSUME GraphAssumption == /\ Kinds \subseteq Graph!AllKinds
                          /\ LinkTypes \subseteq Graph!AllTypes
                          /\ CitesAtBirth \subseteq {"none", "current"}
                          /\ NoId \notin Ids
                          /\ NoSession \notin Sessions
                          /\ IsFiniteSet(Ids)
                          /\ NoRow \notin Graph!Row

graph == <<mem, relations, reviewed, swept>>
files == <<notes, moved>>
vars  == <<mem, relations, reviewed, swept, verdict, notes, job, log, moved>>

Step(w, at)    == job' = [job EXCEPT ![w].at = at]
Finished(w)    == job' = [job EXCEPT ![w] = Idle]
Busy(w, at)    == job[w] # Idle /\ job[w].at = at

\* Ids the store may give to what a worker has it record; a task is never a note.
Fresh      == {i \in Ids : mem[i] = NoRow /\ Origin[i] # "imported"}
FreshTasks == {i \in Fresh : Origin[i] = "direct"}

\* record_memory writes the file of a note with its row.
NoteWritten(i) == /\ notes' = [notes EXCEPT ![i] = IF Origin[i] = "note" THEN "open" ELSE @]
                  /\ UNCHANGED moved

-----------------------------------------------------------------------------
(***************************************************************************)
(* consolidate: judge a pair                                               *)
(***************************************************************************)

\* resolution_persists: an import would undo or contradict any other resolution.
\* (Variant: every note, as if its file were always in this checkout.)
NotesPersist(i) == Origin[i] # "imported"
Persists(i) == Origin[i] = "direct" \/ (Origin[i] = "note" /\ notes[i] = "open")

\* What a verdict on a < b sets out to do.  A duplicate that cannot be resolved for
\* good is kept instead of the other; if neither can, a person is asked.
Plan(v, a, b, keep) ==
  LET drop == IF keep = a THEN b ELSE a
      step(at, from, to) ==
        [at |-> at, verdict |-> v, a |-> a, b |-> b, from |-> from, to |-> to]
  IN  CASE v = "duplicate" /\ Persists(drop) -> step("resolve", drop, keep)
        [] v = "duplicate" /\ ~Persists(drop) /\ Persists(keep) -> step("resolve", keep, drop)
        [] v = "duplicate" /\ ~Persists(drop) /\ ~Persists(keep) -> step("task", a, b)
        [] v = "conflict" -> step("task", a, b)
        [] v = "related"  -> step("link", a, b)
        [] v = "distinct" -> step("mark", a, b)

\* A pair a consolidate batch could contain now.  (Whether the titles are similar
\* enough is up to SQLite: a candidate here may be refused there.)
\* (Variant: whatever the members' status.)
Unreviewed(a, b) == {a, b} \notin reviewed /\ {a, b} \subseteq Graph!Stored
Candidate(a, b) ==
  {a, b} \notin reviewed /\ Graph!Consolidatable(a) /\ Graph!Consolidatable(b)

\* Only the verdict `duplicate` says which of the two to keep.
JudgePair(w, a, b, v, keep) ==
  /\ job[w] = Idle
  /\ a < b
  /\ keep \in IF v = "duplicate" THEN {a, b} ELSE {a}
  /\ Candidate(a, b)
  /\ job' = [job EXCEPT ![w] = Plan(v, a, b, keep)]
  /\ UNCHANGED <<graph, verdict, files, log>>

\* The workers that are about to resolve the memory.
Resolving(i) == {w \in Workers : /\ job[w] # Idle
                                 /\ job[w].at \in {"resolve", "update"}
                                 /\ job[w].from = i}

\* resolve_memory looks at the file once more and writes `<id>.resolved.md` before the
\* row, if the file is there without one.
SealNote(w) ==
  /\ Busy(w, "resolve")
  /\ Origin[job[w].from] = "note"
  /\ notes[job[w].from] = "open"
  /\ notes' = [notes EXCEPT ![job[w].from] = "resolved"]
  /\ Step(w, "update")
  /\ UNCHANGED <<graph, verdict, log, moved>>

\* Someone else has resolved the note by now.
SealRefused(w) ==
  /\ Busy(w, "resolve")
  /\ Origin[job[w].from] = "note"
  /\ notes[job[w].from] = "resolved"
  /\ Finished(w)
  /\ moved' = moved \ {w}
  /\ UNCHANGED <<graph, verdict, notes, log>>

\* History: a file still says that what a worker resolves is current.
Unbacked(w, i) == Origin[i] # "direct" /\ notes[i] # "resolved" /\ w \notin moved

\* The row, at once when there is no file to mark.
ResolveDuplicate(w) ==
  /\ \/ Busy(w, "update")
     \/ Busy(w, "resolve") /\ (Origin[job[w].from] = "note" => notes[job[w].from] = "absent")
  /\ Graph!ResolveMemory(job[w].from)
  /\ log' = log \cup {<<kind, job[w].from, job[w].to>> : kind \in
                        {"dropped"} \cup {h \in {"hidden"} : Unbacked(w, job[w].from)}}
  /\ Step(w, "link")
  /\ moved' = moved \ {w}
  /\ UNCHANGED <<verdict, notes>>

\* The update of the row fails: the mark is removed again, or the one that stands in
\* its place since people moved it.
Unseal(w) ==
  /\ w \in Mortal
  /\ Busy(w, "update")
  /\ notes' = [notes EXCEPT ![job[w].from] = IF @ = "resolved" THEN "open" ELSE @]
  /\ Finished(w)
  /\ moved' = (IF w \in moved THEN moved \cup Resolving(job[w].from) ELSE moved) \ {w}
  /\ UNCHANGED <<graph, verdict, log>>

LinkPair(w) ==
  /\ Busy(w, "link")
  /\ Graph!LinkEntities(job[w].from, job[w].to, "references")
  /\ Step(w, "mark")
  /\ UNCHANGED <<verdict, files, log>>

RecordTask(w, id) ==
  /\ Busy(w, "task")
  /\ Graph!RecordMemory(id, "task", NoSession, NoId, "none")
  /\ job' = [job EXCEPT ![w].at = "first", ![w].from = id]
  /\ UNCHANGED <<verdict, files, log>>

\* (Variant: the task names one of the two only.)
LinkOnlyOne(w) ==
  /\ Busy(w, "first")
  /\ Graph!LinkEntities(job[w].from, job[w].a, "references")
  /\ Step(w, "mark")
  /\ UNCHANGED <<verdict, files, log>>

LinkFirst(w) ==
  /\ Busy(w, "first")
  /\ Graph!LinkEntities(job[w].from, job[w].a, "references")
  /\ Step(w, "second")
  /\ UNCHANGED <<verdict, files, log>>

LinkSecond(w) ==
  /\ Busy(w, "second")
  /\ Graph!LinkEntities(job[w].from, job[w].b, "references")
  /\ Step(w, "mark")
  /\ UNCHANGED <<verdict, files, log>>

\* INSERT OR REPLACE: the last verdict stays.
MarkPair(w) ==
  LET pair == {job[w].a, job[w].b}
  IN  /\ Busy(w, "mark")
      /\ Graph!MarkPairReviewed(pair)
      /\ verdict' = [verdict EXCEPT ![pair] = job[w].verdict]
      /\ Finished(w)
      /\ UNCHANGED <<files, log>>

-----------------------------------------------------------------------------
(***************************************************************************)
(* verify: confirm or correct a stale memory                               *)
(***************************************************************************)

\* An active memory, not scratch, that is stale right now.  (Variant: any stale one.)
Stale(id) == mem[id] # NoRow /\ mem[id].kind # "ephemeral" /\ mem[id].cites = "changed"
Verifiable(id) ==
  /\ mem[id] # NoRow
  /\ mem[id].status = "active"
  /\ mem[id].kind # "ephemeral"
  /\ mem[id].cites = "changed"

AnswerVerify(w, id, at) ==
  /\ job[w] = Idle
  /\ Verifiable(id)
  /\ at \in {"confirm", "correct"}
  /\ job' = [job EXCEPT ![w] = [at |-> at, id |-> id]]
  /\ UNCHANGED <<graph, verdict, files, log>>

\* confirm_memory reads the memory once more.  A note whose file is here is re-recorded
\* by a note that supersedes it; any other imported memory is refused.
MayConfirm(id) == /\ mem[id] # NoRow
                  /\ mem[id].status = "active"
                  /\ mem[id].cites # "none"

ConfirmDirect(w) ==
  /\ Busy(w, "confirm")
  /\ MayConfirm(job[w].id)
  /\ Origin[job[w].id] = "direct"
  /\ Step(w, "restamp")
  /\ UNCHANGED <<graph, verdict, files, log>>

ConfirmNote(w) ==
  /\ Busy(w, "confirm")
  /\ MayConfirm(job[w].id)
  /\ Origin[job[w].id] = "note"
  /\ notes[job[w].id] # "absent"
  /\ Step(w, "rerecord")
  /\ UNCHANGED <<graph, verdict, files, log>>

ConfirmRefused(w) ==
  /\ Busy(w, "confirm")
  /\ \/ ~MayConfirm(job[w].id)
     \/ Origin[job[w].id] = "imported"
     \/ Origin[job[w].id] = "note" /\ notes[job[w].id] = "absent"
  /\ Finished(w)
  /\ UNCHANGED <<graph, verdict, files, log>>

\* The new baseline is written whatever the row's status is by now.
Restamp(w) ==
  /\ Busy(w, "restamp")
  /\ Graph!ConfirmMemory(job[w].id)
  /\ Finished(w)
  /\ UNCHANGED <<verdict, files, log>>

\* A new version of the memory with its kind and paths, fingerprinted now: a note
\* that confirms it, or the worker's correction.  (Variant: the old version stays.)
SupersedeKeepingOld(w, new) ==
  /\ Busy(w, "rerecord") \/ Busy(w, "correct")
  /\ Cardinality(relations) < MaxRelations
  /\ mem' = [mem EXCEPT ![new] = Graph!NewRow(mem[job[w].id].kind, "active", NoSession, "current")]
  /\ relations' = relations \cup {<<new, job[w].id, "supersedes">>}
  /\ NoteWritten(new)
  /\ log' = log \cup {<<"replaced", new, job[w].id>>}
  /\ Finished(w)
  /\ UNCHANGED <<reviewed, swept, verdict>>

Supersede(w, new) ==
  /\ Busy(w, "rerecord") \/ Busy(w, "correct")
  /\ Graph!RecordMemory(new, mem[job[w].id].kind, NoSession, job[w].id, "current")
  /\ NoteWritten(new)
  /\ log' = log \cup {<<"replaced", new, job[w].id>>}
  /\ Finished(w)
  /\ UNCHANGED verdict

-----------------------------------------------------------------------------
(***************************************************************************)
(* expand: keywords                                                        *)
(***************************************************************************)

\* apply_keywords checks the queue and then stores; at most it stores keywords over
\* keywords or is refused by then, so that here it is one step.
Expand(w, id) ==
  /\ job[w] = Idle
  /\ id \in Worded
  /\ Graph!NeedsKeywords(id)
  /\ Graph!SetKeywords(id)
  /\ UNCHANGED <<verdict, files, job, log>>

-----------------------------------------------------------------------------
\* The worker dies, or a step of its answer fails: what was done so far stays.
GiveUp(w) ==
  /\ w \in Mortal
  /\ job[w] # Idle
  /\ Finished(w)
  /\ moved' = moved \ {w}
  /\ UNCHANGED <<graph, verdict, notes, log>>

\* Agents, sweeps and people, as in MemoryGraph.
AgentRecords ==
  /\ \E id \in Ids, kind \in Kinds, session \in Sessions \cup {NoSession},
        target \in Retired \cup {NoId}, cites \in CitesAtBirth :
       /\ Graph!RecordMemory(id, kind, session, target, cites)
       /\ NoteWritten(id)
  /\ UNCHANGED <<verdict, job, log>>

\* (A death between mark and row leaves what a mark that people pull leaves.)
AgentResolves(id) ==
  /\ Graph!ResolveMemory(id)
  /\ Origin[id] = "note" => notes[id] # "resolved"
  /\ notes' = [notes EXCEPT ![id] = IF @ = "open" THEN "resolved" ELSE @]
  /\ UNCHANGED <<verdict, job, log, moved>>

Others ==
  /\ \/ \E source, target \in Ids, type \in LinkTypes : Graph!LinkEntities(source, target, type)
     \/ \E session \in Sessions, learnings \in Graph!Learnings, purge \in BOOLEAN :
          Graph!ConsolidateSession(session, learnings, purge)
     \/ Graph!PurgeExpiredEphemeral
     \/ \E id \in Ids : Graph!Age(id)
     \/ \E id \in Edited : Graph!EditCitedFile(id)
  /\ UNCHANGED <<verdict, files, job, log>>

\* People switch branches, pull, move or delete files: a note's file and its mark come
\* and go.
MoveNote(i, file) ==
  /\ mem[i] # NoRow
  /\ Origin[i] = "note"
  /\ notes' = [notes EXCEPT ![i] = file]
  /\ moved' = moved \cup Resolving(i)
  /\ UNCHANGED <<graph, verdict, job, log>>

Init ==
  /\ Graph!Init
  /\ verdict = [p \in Graph!Pairs |-> NoVerdict]
  /\ job = [w \in Workers |-> Idle]
  /\ notes = [i \in Ids |-> "absent"]
  /\ log = {}
  /\ moved = {}

Judge(w) ==
  \/ \E a, b, keep \in Ids, v \in Verdicts : JudgePair(w, a, b, v, keep)
  \/ SealNote(w)
  \/ SealRefused(w)
  \/ ResolveDuplicate(w)
  \/ Unseal(w)
  \/ LinkPair(w)
  \/ \E id \in FreshTasks : RecordTask(w, id)
  \/ LinkFirst(w)
  \/ LinkSecond(w)
  \/ MarkPair(w)

Verify(w) ==
  \/ \E id \in Ids, at \in {"confirm", "correct"} : AnswerVerify(w, id, at)
  \/ ConfirmDirect(w)
  \/ ConfirmNote(w)
  \/ ConfirmRefused(w)
  \/ Restamp(w)
  \/ \E new \in Fresh : Supersede(w, new)

Next == \/ Others
        \/ AgentRecords
        \/ \E id \in Retired : AgentResolves(id)
        \/ \E id \in Edited, file \in Moves : MoveNote(id, file)
        \/ \E w \in Workers : \/ Judge(w)
                            \/ Verify(w)
                            \/ \E id \in Ids : Expand(w, id)
                            \/ GiveUp(w)

Spec == Init /\ [][Next]_vars

-----------------------------------------------------------------------------
(***************************************************************************)
(* Properties                                                              *)
(***************************************************************************)

Judgements == {j \in [at : {"resolve", "update", "link", "task", "first", "second", "mark"},
                      verdict : Verdicts, a : Ids, b : Ids, from : Ids, to : Ids] : j.a < j.b}
Answers    == [at : {"confirm", "restamp", "rerecord", "correct"}, id : Ids]

\* The tables, the verdicts and the half-applied answers have the code's shapes.
TypeOK ==
  /\ Graph!TypeOK
  /\ verdict \in [Graph!Pairs -> Verdicts \cup {NoVerdict}]
  /\ job \in [Workers -> {Idle} \cup Judgements \cup Answers]
  /\ notes \in [Ids -> Files]
  /\ log \subseteq {"dropped", "hidden", "replaced"} \X Ids \X Ids
  /\ moved \subseteq Workers

\* Whatever workers answer, and wherever they stop, they only do to the graph what
\* its operations allow: every step of an answer is one of MemoryGraph, whose
\* guarantees therefore hold with workers around.
ImplementsGraph == Graph!Spec

References(s, t) == <<s, t, "references">> \in relations
Asked(a, b) == \E t \in Ids : /\ mem[t] # NoRow
                              /\ mem[t].kind = "task"
                              /\ References(t, a)
                              /\ References(t, b)
Resolved(d, k) == /\ mem[d] # NoRow
                  /\ mem[d].status \notin {"active", "ephemeral"}
                  /\ References(d, k)

\* What a recorded verdict promises about the pair.
CarriedOut(v, a, b) ==
  /\ v = "duplicate" => Resolved(a, b) \/ Resolved(b, a) \/ Asked(a, b)
  /\ v = "conflict"  => Asked(a, b)
  /\ v = "related"   => References(a, b) \/ References(b, a)

\* A judged pair is not offered again, so its verdict must not be recorded before it
\* was carried out: wherever a worker stops, a recorded conflict has its task with
\* both links, a recorded duplicate is resolved and linked (or has its task), and
\* recorded relatives are linked.
VerdictsAreCarriedOut ==
  \A a, b \in Ids : {a, b} \in reviewed => CarriedOut(verdict[{a, b}], a, b)

\* A worker never hides in the database alone what an import would bring back or the
\* repository still says is current: of a memory that a file backs it resolves only a
\* note, together with its mark, however agents, people and other workers resolve, pull
\* or give up in between.  Only a note whose file or mark people moved after the check
\* loses it, since nothing holds the checkout still.
ResolutionsPersist ==
  \A e \in log : e[1] # "hidden"

\* Merging duplicates loses nothing: two memories are never each dropped as a
\* duplicate of the other, as rows.  (One submitting process.  A note that was marked by
\* a worker that died before the row is not logged as dropped, see SealNote.)
DuplicatesKeepOne ==
  \A d \in log : d[1] = "dropped" => <<"dropped", d[3], d[2]>> \notin log

\* Every memory is corrected or re-recorded at most once by workers, so no two of
\* their versions compete.  (One submitting process, which may die anywhere.)
ReplacedOnce ==
  \A d, e \in log : d[1] = "replaced" /\ e[1] = "replaced" /\ d[3] = e[3] => d = e

=============================================================================

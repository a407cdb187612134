----------------------------- MODULE VectorIndex ------------------------------
(***************************************************************************)
(* Vectors of memories (src/src/store.rs: embedder,                        *)
(* check_embedder_identity, embed_best_effort, embed_missing_up_to;        *)
(* src/src/embed.rs: embed; the triggers of src/src/db.rs).                *)
(*                                                                         *)
(* An embedder is an external command that may take seconds.  It runs      *)
(* outside any transaction, on a text read before, while other processes   *)
(* rewrite, delete and record memories.  Each process checks once, in      *)
(* three statements, that the stored vectors are of its own embedder.      *)
(* Scratch gets no vectors and is left out.                                *)
(***************************************************************************)
EXTENDS Naturals, FiniteSets

CONSTANTS
  Ids,         \* memories; a smaller one was created earlier
  Sourced,     \* those with a source, which imports rewrite and prune
  Texts,       \* title and body, but for what is appended to the body
  Refused,     \* texts the embedder always fails on
  Embedders,   \* identities: model names, or commands without one
  Procs,
  Limits,      \* how many memories one backfill may embed
  MaxFailures, \* bound on failures of the embedder or of a statement
  NoRow, NoVec, NoEmbedder, Unknown

ASSUME IdsAssumption       == Ids \subseteq Nat
ASSUME SourcedAssumption   == Sourced \subseteq Ids
ASSUME RefusedAssumption   == Refused \subseteq Texts
ASSUME LimitsAssumption    == Limits \subseteq Nat \ {0}
ASSUME BoundAssumption     == MaxFailures \in Nat
ASSUME NoRowAssumption     == NoRow \notin Texts
ASSUME EmbeddersAssumption == NoEmbedder # Unknown /\ {NoEmbedder, Unknown} \cap Embedders = {}
ASSUME NoVecAssumption     == NoVec \notin [text : Texts, by : Embedders \cup {Unknown}]

VARIABLES
  text,      \* text[id]: what the memory says
  vec,       \* memories_vec: the text a vector was computed from, and by whom
  recorded,  \* memdag_meta.embedder
  embedder,  \* embedder[p]: the identity a process was started with
  checked,   \* processes that have compared theirs with the recorded one
  cool,      \* processes that skip the embedder for a while, after a failure
  job,       \* what each process is doing
  mixed,     \* history: two embedders were in use at once, or a check failed
  failures   \* failures so far

tables == <<text, vec, recorded>>
vars   == <<text, vec, recorded, embedder, checked, cool, job, mixed, failures>>

Vector == [text : Texts, by : Embedders \cup {Unknown}]
Idle   == [at |-> "idle", then |-> "idle", todo |-> {}]
\* A job passes through the check if its process has not made it, and then embeds what it
\* has to, or reads first what that is.
Checks == {"read", "delete", "record"}
Job    == [at : {"idle", "embed", "select"} \cup Checks, then : {"idle", "embed", "select"},
           todo : SUBSET (Ids \X Texts)]

Stored(id) == text[id] # NoRow
Missing    == {id \in Ids : Stored(id) /\ vec[id] = NoVec}
\* The order of a backfill: by age.  (Variant: the newest first.)
Newest(todo) == CHOOSE x \in todo : \A other \in todo : x[1] >= other[1]
First(todo)  == CHOOSE x \in todo : \A other \in todo : x[1] <= other[1]
Fail       == failures < MaxFailures /\ failures' = failures + 1

-----------------------------------------------------------------------------
(***************************************************************************)
(* Memories come, change and go                                            *)
(***************************************************************************)

\* The triggers memories_vec_ad and memories_vec_au.  (Variant: the second is missing.)
OnlyOnDelete(id) == IF text'[id] = NoRow THEN [vec EXCEPT ![id] = NoVec] ELSE vec
Triggered(id)    == [vec EXCEPT ![id] = NoVec]

Begin(p, then, todo) ==
  job' = [job EXCEPT ![p] = [at |-> IF p \in checked THEN then ELSE "read", then |-> then, todo |-> todo]]

\* embed_best_effort, after record_memory or consolidate_session has committed the row.
Record(p, id, t) ==
  /\ job[p] = Idle
  /\ ~Stored(id)
  /\ text' = [text EXCEPT ![id] = t]
  /\ IF embedder[p] = NoEmbedder THEN UNCHANGED job ELSE Begin(p, "embed", {<<id, t>>})
  /\ UNCHANGED <<vec, recorded, embedder, checked, cool, mixed, failures>>

\* An import applies what changed, or prunes, in any process; a row it adds has no vector.
Import(id, t) ==
  /\ text[id] # t
  /\ text' = [text EXCEPT ![id] = t]
  /\ vec' = Triggered(id)
  /\ UNCHANGED <<recorded, embedder, checked, cool, job, mixed, failures>>

-----------------------------------------------------------------------------
(***************************************************************************)
(* The check: check_embedder_identity                                      *)
(***************************************************************************)

\* Vectors of another embedder are dropped before the new one is recorded.
\* (Variant: after.)
RecordFirst == <<"record", "delete">>
CheckOrder  == <<"delete", "record">>
After(step) == IF step = CheckOrder[1] THEN CheckOrder[2] ELSE "done"

\* `at` after the check is what the job is for.
Continue(p, at) ==
  IF at = "done"
  THEN checked' = checked \cup {p} /\ job' = [job EXCEPT ![p].at = job[p].then]
  ELSE job' = [job EXCEPT ![p].at = at] /\ UNCHANGED checked

\* Without a record the vectors that are there are adopted.
ReadIdentity(p) ==
  /\ job[p].at = "read"
  /\ Continue(p, CASE recorded = embedder[p] -> "done"
                   [] recorded = Unknown     -> "record"
                   [] OTHER                  -> CheckOrder[1])
  /\ UNCHANGED <<tables, embedder, cool, mixed, failures>>

DropVectors(p) ==
  /\ job[p].at = "delete"
  /\ vec' = [id \in Ids |-> NoVec]
  /\ Continue(p, After("delete"))
  /\ UNCHANGED <<text, recorded, embedder, cool, mixed, failures>>

RecordIdentity(p) ==
  /\ job[p].at = "record"
  /\ recorded' = embedder[p]
  /\ Continue(p, After("record"))
  /\ UNCHANGED <<text, vec, embedder, cool, mixed, failures>>

\* embedder() prints a warning and goes on: the check is not made again.
CheckFails(p) ==
  /\ job[p].at \in Checks
  /\ Fail
  /\ Continue(p, "done")
  /\ mixed' = TRUE
  /\ UNCHANGED <<tables, embedder, cool>>

-----------------------------------------------------------------------------
(***************************************************************************)
(* Embedding                                                               *)
(***************************************************************************)

\* embed_missing (of `memdag embed`) and the bounded one of a refresh.
Backfill(p) ==
  /\ job[p] = Idle
  /\ embedder[p] # NoEmbedder
  /\ Begin(p, "select", {})
  /\ UNCHANGED <<tables, embedder, checked, cool, mixed, failures>>

Select(p) ==
  /\ job[p].at = "select"
  /\ \E limit \in Limits :
       LET ids == {id \in Missing : Cardinality({i \in Missing : i < id}) < limit}
       IN  job' = [job EXCEPT ![p] = IF ids = {} THEN Idle
                                     ELSE [at |-> "embed", then |-> "embed",
                                           todo |-> {<<id, text[id]>> : id \in ids}]]
  /\ UNCHANGED <<tables, embedder, checked, cool, mixed, failures>>

Rest(p, x) == IF job[p].todo = {x} THEN Idle ELSE [job[p] EXCEPT !.todo = @ \ {x}]

\* The command succeeds and upsert_embedding stores what it said, whatever became of the
\* memory meanwhile.
Store(p) ==
  /\ job[p].at = "embed"
  /\ p \notin cool
  /\ LET x == First(job[p].todo)
     IN  /\ x[2] \notin Refused
         /\ vec' = [vec EXCEPT ![x[1]] = [text |-> x[2], by |-> embedder[p]]]
         /\ job' = [job EXCEPT ![p] = Rest(p, x)]
  /\ UNCHANGED <<text, recorded, embedder, checked, cool, mixed, failures>>

\* The statement fails, as it may where a vector is (a virtual table need not support
\* OR REPLACE): the rest of a backfill is given up.
StoreFails(p) ==
  /\ job[p].at = "embed"
  /\ p \notin cool
  /\ LET x == First(job[p].todo)
     IN  /\ x[2] \notin Refused
         /\ IF vec[x[1]] = NoVec THEN Fail ELSE UNCHANGED failures
  /\ job' = [job EXCEPT ![p] = Idle]
  /\ UNCHANGED <<tables, embedder, checked, cool, mixed>>

\* The command fails or times out; for a while it is not run again, and the rest of a
\* backfill is given up.
EmbedFails(p) ==
  /\ job[p].at = "embed"
  /\ p \notin cool
  /\ IF First(job[p].todo)[2] \in Refused THEN UNCHANGED failures ELSE Fail
  /\ cool' = cool \cup {p}
  /\ job' = [job EXCEPT ![p] = Idle]
  /\ UNCHANGED <<tables, embedder, checked, mixed>>

Skipped(p) ==
  /\ job[p].at = "embed"
  /\ p \in cool
  /\ job' = [job EXCEPT ![p] = Idle]
  /\ UNCHANGED <<tables, embedder, checked, cool, mixed, failures>>

CoolsDown(p) ==
  /\ p \in cool
  /\ cool' = cool \ {p}
  /\ UNCHANGED <<tables, embedder, checked, job, mixed, failures>>

\* search_memory and search_vector: a query makes the check too; embedding it and finding
\* its neighbours changes nothing, unless the command fails.
Search(p) ==
  /\ job[p] = Idle
  /\ embedder[p] # NoEmbedder
  /\ p \notin checked
  /\ Begin(p, "idle", {})
  /\ UNCHANGED <<tables, embedder, checked, cool, mixed, failures>>

QueryFails(p) ==
  /\ job[p] = Idle
  /\ p \in checked \ cool
  /\ Fail
  /\ cool' = cool \cup {p}
  /\ UNCHANGED <<tables, embedder, checked, job, mixed>>

\* A process ends, anywhere, and another one starts, perhaps with another embedder.
Differ(e, f) == e # f /\ NoEmbedder \notin {e, f}

Restart(p) ==
  /\ \E e \in Embedders \cup {NoEmbedder} :
       /\ embedder' = [embedder EXCEPT ![p] = e]
       /\ mixed' = (mixed \/ \E q \in Procs \ {p} : Differ(e, embedder[q]))
  /\ checked' = checked \ {p}
  /\ cool' = cool \ {p}
  /\ job' = [job EXCEPT ![p] = Idle]
  /\ UNCHANGED <<tables, failures>>

-----------------------------------------------------------------------------

\* Vectors may be older than the record of who computed them.
Init ==
  /\ text \in [Ids -> Texts \cup {NoRow}]
  /\ \E ids \in SUBSET {id \in Ids : Stored(id) /\ text[id] \notin Refused} :
       vec = [id \in Ids |-> IF id \in ids THEN [text |-> text[id], by |-> Unknown] ELSE NoVec]
  /\ recorded = Unknown
  /\ embedder = [p \in Procs |-> NoEmbedder]
  /\ checked = {}
  /\ cool = {}
  /\ job = [p \in Procs |-> Idle]
  /\ mixed = FALSE
  /\ failures = 0

Steps(p) == \/ ReadIdentity(p) \/ DropVectors(p) \/ RecordIdentity(p) \/ CheckFails(p)
            \/ Select(p) \/ Store(p) \/ StoreFails(p) \/ EmbedFails(p) \/ Skipped(p)

Embedding(p) == Steps(p) \/ Backfill(p) \/ Search(p) \/ QueryFails(p) \/ CoolsDown(p)

Next ==
  \/ \E p \in Procs : \/ Embedding(p) \/ Restart(p)
                      \/ \E id \in Ids, t \in Texts : Record(p, id, t)
  \/ \E id \in Sourced, t \in Texts \cup {NoRow} : Import(id, t)

Spec == Init /\ [][Next]_vars

\* A process takes its steps, a cooldown ends, and `memdag embed` is run now and then.
FairSpec ==
  Spec /\ \A p \in Procs : WF_vars(Steps(p)) /\ WF_vars(CoolsDown(p)) /\ WF_vars(Backfill(p))

-----------------------------------------------------------------------------
(***************************************************************************)
(* Properties                                                              *)
(***************************************************************************)

\* Every variable has its type.
TypeOK ==
  /\ text \in [Ids -> Texts \cup {NoRow}]
  /\ vec \in [Ids -> Vector \cup {NoVec}]
  /\ recorded \in Embedders \cup {Unknown}
  /\ embedder \in [Procs -> Embedders \cup {NoEmbedder}]
  /\ checked \subseteq Procs
  /\ cool \subseteq Procs
  /\ job \in [Procs -> Job]
  /\ \A p \in Procs : /\ job[p].at = "embed" => job[p].todo # {}
                      /\ job[p].at # "idle" => embedder[p] # NoEmbedder
                      /\ job[p].at \in {"embed", "select"} => p \in checked
  /\ mixed \in BOOLEAN
  /\ failures \in 0..MaxFailures

\* As long as no two embedders are in use at once and no check failed, every stored
\* vector is of the recorded embedder (or older than the record), and that is the one of
\* every process that has checked: a query is never compared with the vectors of another
\* embedder, also if a process died between two statements of the check.
OneSpace ==
  mixed \/
    /\ \A id \in Ids : vec[id] # NoVec => vec[id].by \in {recorded, Unknown}
    /\ \A p \in checked : embedder[p] = recorded

\* Right: no vector without its memory, nor of a text it no longer has.
Right(id)   == vec[id] # NoVec => text[id] = vec[id].text
Outdated(p) == \E x \in job[p].todo : text[x[1]] # x[2]

\* A vector goes wrong in one way only: its text was read before the memory was rewritten
\* or deleted, and the embedder was slower.  Every other step keeps right what is right.
OnlySlowEmbeddingsAreWrong ==
  [][\A id \in Ids : Right(id) => Right(id)' \/ \E p \in Procs : Outdated(p) /\ Store(p)]_vars

\* When memories and processes stay as they are, every memory gets a vector, up to the
\* first one the embedder refuses (a backfill stops there).
Blocked(id) == \E i \in Missing : i <= id /\ text[i] \in Refused
Quiet       == <>[][\E p \in Procs : Embedding(p)]_vars /\ <>[](\E p \in Procs : embedder[p] # NoEmbedder)
BackfillCompletes == Quiet => <>[](\A id \in Missing : Blocked(id))
=============================================================================

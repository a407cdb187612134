-------------------------- MODULE VectorIndex_proofs ---------------------------
(***************************************************************************)
(* Proofs about VectorIndex, for any number of processes, memories, texts  *)
(* and embedders.                                                          *)
(*                                                                         *)
(* The argument for one space of vectors: as long as nobody uses another   *)
(* embedder at the same time, whoever records an identity has either       *)
(* dropped the other vectors or found none but unnamed ones, and whoever   *)
(* stores a vector meanwhile has the same embedder.                        *)
(***************************************************************************)
EXTENDS VectorIndex, TLAPS, WellFoundedInduction

\* A job that is to embed has something to embed.
HasWork == \A p \in Procs : job[p].then = "embed" => job[p].todo # {}

\* No two processes use different embedders.
InUse == \A p, q \in Procs : ~Differ(embedder[p], embedder[q])

\* Whoever is about to record its identity left no vector of another embedder.
ReadyToRecord ==
  \A p \in Procs : job[p].at = "record" =>
    \A id \in Ids : vec[id] # NoVec => vec[id].by \in {embedder[p], Unknown}

\* Vectors are the recorded embedder's, which everyone who checked has.
Recorded == /\ \A id \in Ids : vec[id] # NoVec => vec[id].by \in {recorded, Unknown}
            /\ \A p \in checked : embedder[p] = recorded

IInv == /\ TypeOK
        /\ HasWork
        /\ mixed \/ (InUse /\ ReadyToRecord /\ Recorded)

-----------------------------------------------------------------------------

\* Jobs are worked off in order: there is a first one.
LEMMA FirstIsThere ==
  ASSUME NEW todo \in SUBSET (Ids \X Texts), todo # {}
  PROVE  First(todo) \in todo
<1> DEFINE ages == {x[1] : x \in todo}
<1>1. ages # {} /\ ages \subseteq Nat
  BY IdsAssumption
<1>2. PICK a \in ages : \A b \in ages : ~(<<b, a>> \in OpToRel(<, Nat))
  BY <1>1, NatLessThanWellFounded, WFMin
<1>3. \A b \in ages : a <= b
  <2> SUFFICES ASSUME NEW b \in ages PROVE a <= b
    OBVIOUS
  <2>1. a \in Nat /\ b \in Nat
    BY <1>1
  <2>2. ~(b < a)
    BY <1>2, <2>1, Zenon DEF OpToRel
  <2> QED BY <2>1, <2>2
<1>4. \E x \in todo : \A other \in todo : x[1] <= other[1]
  BY <1>3
<1> QED BY <1>4 DEF First

LEMMA NamesAreApart ==
  /\ NoEmbedder \notin Embedders /\ NoEmbedder # Unknown /\ Unknown \notin Embedders
  /\ NoVec \notin Vector /\ NoRow \notin Texts
BY EmbeddersAssumption, NoVecAssumption, NoRowAssumption DEF Vector

LEMMA IdleIsAJob ==
  Idle \in Job /\ Idle.at = "idle" /\ Idle.then = "idle" /\ Idle.todo = {}
BY DEF Idle, Job, Checks

\* The types of what steps of embedding may change.
LEMMA JobsAre ==
  ASSUME TypeOK, NEW p \in Procs
  PROVE  /\ job[p] \in Job
         /\ job[p].todo \in SUBSET (Ids \X Texts)
         /\ embedder[p] \in Embedders \cup {NoEmbedder}
         /\ job[p].at = "embed" => job[p].todo # {}
         /\ job[p].at # "idle" => embedder[p] # NoEmbedder /\ embedder[p] \in Embedders
         /\ job[p].at \in {"embed", "select"} => p \in checked
BY DEF TypeOK, Job

LEMMA FailuresStayBounded ==
  ASSUME failures \in 0..MaxFailures, Fail \/ failures' = failures
  PROVE  failures' \in 0..MaxFailures
<1>1. CASE Fail
  BY <1>1, BoundAssumption DEF Fail
<1>2. CASE failures' = failures
  BY <1>2
<1> QED BY <1>1, <1>2

\* A step of one process keeps the types, if its new job is one it may have.
LEMMA TypesStay ==
  ASSUME IInv, NEW p \in Procs, NEW j \in Job,
         job' = [job EXCEPT ![p] = j],
         text' \in [Ids -> Texts \cup {NoRow}],
         vec' \in [Ids -> Vector \cup {NoVec}],
         recorded' \in Embedders \cup {Unknown},
         embedder' = embedder,
         checked' \in {checked, checked \cup {p}},
         cool' \subseteq Procs,
         mixed' \in BOOLEAN,
         Fail \/ failures' = failures,
         j.at = "embed" \/ j.then = "embed" => j.todo # {},
         j.at # "idle" => embedder[p] # NoEmbedder,
         j.at \in {"embed", "select"} => p \in checked'
  PROVE  TypeOK' /\ HasWork'
<1>0. TypeOK /\ HasWork
  BY DEF IInv
<1>1. failures' \in 0..MaxFailures
  <2>1. failures \in 0..MaxFailures
    BY <1>0 DEF TypeOK
  <2> QED BY <2>1, FailuresStayBounded
<1>2. /\ job' \in [Procs -> Job]
      /\ job'[p] = j
      /\ \A q \in Procs : q # p => job'[q] = job[q]
  BY <1>0 DEF TypeOK
<1>3. \A q \in Procs : /\ job'[q].at = "embed" => job'[q].todo # {}
                       /\ job'[q].at # "idle" => embedder'[q] # NoEmbedder
                       /\ job'[q].at \in {"embed", "select"} => q \in checked'
  <2> SUFFICES ASSUME NEW q \in Procs
               PROVE  /\ job'[q].at = "embed" => job'[q].todo # {}
                      /\ job'[q].at # "idle" => embedder'[q] # NoEmbedder
                      /\ job'[q].at \in {"embed", "select"} => q \in checked'
    OBVIOUS
  <2>1. CASE q = p
    BY <2>1, <1>2
  <2>2. CASE q # p
    BY <2>2, <1>0, <1>2 DEF TypeOK
  <2> QED BY <2>1, <2>2
<1>4. TypeOK'
  BY <1>0, <1>1, <1>2, <1>3 DEF TypeOK
<1>5. HasWork'
  BY <1>0, <1>2 DEF HasWork
<1> QED BY <1>4, <1>5

LEMMA InitIInv == Init => IInv
<1> SUFFICES ASSUME Init PROVE IInv
  OBVIOUS
<1>1. /\ text \in [Ids -> Texts \cup {NoRow}]
      /\ recorded = Unknown
      /\ embedder = [p \in Procs |-> NoEmbedder]
      /\ checked = {} /\ cool = {}
      /\ job = [p \in Procs |-> Idle]
  BY DEF Init
<1>2. mixed \in BOOLEAN /\ failures = 0
  BY DEF Init
<1>3. PICK ids \in SUBSET {id \in Ids : Stored(id) /\ text[id] \notin Refused} :
        vec = [id \in Ids |-> IF id \in ids THEN [text |-> text[id], by |-> Unknown] ELSE NoVec]
  BY DEF Init
<1>4. \A id \in Ids : vec[id] = NoVec \/ (vec[id] \in Vector /\ vec[id].by = Unknown)
  BY <1>1, <1>3 DEF Stored, Vector
<1>5. vec \in [Ids -> Vector \cup {NoVec}]
  BY <1>3, <1>4
<1>6. failures \in 0..MaxFailures
  BY <1>2, BoundAssumption
<1>7. TypeOK
  <2>1. /\ job \in [Procs -> Job]
        /\ \A p \in Procs : job[p].at = "idle"
        /\ embedder \in [Procs -> Embedders \cup {NoEmbedder}]
    BY <1>1, IdleIsAJob
  <2> QED BY <2>1, <1>1, <1>2, <1>5, <1>6 DEF TypeOK
<1>8. HasWork /\ InUse /\ ReadyToRecord /\ Recorded
  BY <1>1, <1>4, IdleIsAJob DEF HasWork, InUse, Differ, ReadyToRecord, Recorded
<1> QED BY <1>7, <1>8 DEF IInv

-----------------------------------------------------------------------------

\* A step that stores no vector and records nothing keeps the space, if whoever it brings
\* to recording finds only unnamed vectors.
LEMMA SpaceStays ==
  ASSUME InUse, ReadyToRecord, Recorded,
         embedder' = embedder, recorded' = recorded,
         \A q \in checked' : embedder[q] = recorded,
         \A id \in Ids : vec'[id] = vec[id] \/ vec'[id] = NoVec,
         \A q \in Procs : job'[q].at = "record" =>
           job[q].at = "record" \/ \A id \in Ids : vec'[id] # NoVec => vec[id].by = Unknown
  PROVE  InUse' /\ ReadyToRecord' /\ Recorded'
<1>1. InUse'
  BY DEF InUse
<1>2. Recorded'
  BY DEF Recorded
<1>3. ReadyToRecord'
  <2> SUFFICES ASSUME NEW q \in Procs, job'[q].at = "record", NEW id \in Ids, vec'[id] # NoVec
               PROVE  vec'[id].by \in {embedder[q], Unknown}
    BY DEF ReadyToRecord
  <2>1. vec'[id] = vec[id] /\ vec[id] # NoVec
    OBVIOUS
  <2> QED BY <2>1 DEF ReadyToRecord
<1> QED BY <1>1, <1>2, <1>3

\* A process that begins a job, on what it recorded or for a backfill or a search.
LEMMA BeginKeepsIInv ==
  ASSUME IInv, NEW p \in Procs, NEW then \in {"idle", "embed", "select"},
         NEW todo \in SUBSET (Ids \X Texts), then = "embed" => todo # {},
         then = "idle" => p \notin checked,
         embedder[p] # NoEmbedder, Begin(p, then, todo),
         text' \in [Ids -> Texts \cup {NoRow}],
         UNCHANGED <<vec, recorded, embedder, checked, cool, failures>>, mixed' = mixed
  PROVE  IInv'
<1> DEFINE j == [at |-> IF p \in checked THEN then ELSE "read", then |-> then, todo |-> todo]
<1>0. TypeOK
  BY DEF IInv
<1>1. job' = [job EXCEPT ![p] = j]
  BY DEF Begin
<1>2. j \in Job /\ j.at \in {then, "read"} /\ j.then = then /\ j.todo = todo
      /\ (p \notin checked => j.at = "read")
  BY DEF Job, Checks
<1>3. TypeOK' /\ HasWork'
  <2>1. /\ vec' \in [Ids -> Vector \cup {NoVec}] /\ recorded' \in Embedders \cup {Unknown}
        /\ checked' \in {checked, checked \cup {p}} /\ cool' \subseteq Procs
        /\ mixed' \in BOOLEAN
    BY <1>0 DEF TypeOK
  <2>2. /\ j.at = "embed" \/ j.then = "embed" => j.todo # {}
        /\ j.at \in {"embed", "select"} => p \in checked'
    BY <1>2
  <2> HIDE DEF j
  <2> QED BY <1>1, <1>2, <2>1, <2>2, TypesStay
<1>4. ASSUME InUse, ReadyToRecord, Recorded
      PROVE  InUse' /\ ReadyToRecord' /\ Recorded'
  <2>1. \A q \in Procs : job'[q].at = "record" => job[q].at = "record"
    BY <1>0, <1>1, <1>2 DEF TypeOK
  <2>2. \A q \in checked' : embedder[q] = recorded
    BY <1>4 DEF Recorded
  <2> QED BY <1>4, <2>1, <2>2, SpaceStays
<1> QED BY <1>3, <1>4 DEF IInv

LEMMA RecordKeepsIInv ==
  ASSUME IInv, NEW p \in Procs, NEW id \in Ids, NEW t \in Texts, Record(p, id, t)
  PROVE  IInv'
<1>0. TypeOK
  BY DEF IInv
<1>1. /\ text' \in [Ids -> Texts \cup {NoRow}]
      /\ UNCHANGED <<vec, recorded, embedder, checked, cool, failures>>
  BY <1>0 DEF TypeOK, Record
<1>2. mixed' = mixed
  BY DEF Record
<1>3. CASE embedder[p] = NoEmbedder
  <2>1. job' = job
    BY <1>3 DEF Record
  <2>2. TypeOK' /\ HasWork'
    BY <1>0, <1>1, <1>2, <2>1 DEF IInv, TypeOK, HasWork
  <2>3. (mixed \/ (InUse /\ ReadyToRecord /\ Recorded))'
    BY <1>1, <1>2, <2>1 DEF IInv, InUse, ReadyToRecord, Recorded
  <2> QED BY <2>2, <2>3 DEF IInv
<1>4. CASE embedder[p] # NoEmbedder
  <2>1. Begin(p, "embed", {<<id, t>>})
    BY <1>4 DEF Record
  <2>2. {<<id, t>>} \in SUBSET (Ids \X Texts) /\ {<<id, t>>} # {}
    OBVIOUS
  <2>3. "embed" \in {"idle", "embed", "select"} /\ "embed" # "idle"
    OBVIOUS
  <2> QED BY <1>1, <1>2, <1>4, <2>1, <2>2, <2>3, BeginKeepsIInv
<1> QED BY <1>3, <1>4

LEMMA BackfillKeepsIInv ==
  ASSUME IInv, NEW p \in Procs, Backfill(p) \/ Search(p)
  PROVE  IInv'
<1>1. UNCHANGED <<text, vec, recorded, embedder, checked, cool, failures>>
  BY DEF Backfill, Search, tables
<1>2. mixed' = mixed
  BY DEF Backfill, Search
<1>3. text' \in [Ids -> Texts \cup {NoRow}]
  BY <1>1 DEF IInv, TypeOK
<1>4. CASE Backfill(p)
  <2>1. embedder[p] # NoEmbedder /\ Begin(p, "select", {})
    BY <1>4 DEF Backfill
  <2> QED BY <1>1, <1>2, <1>3, <2>1, BeginKeepsIInv
<1>5. CASE Search(p)
  <2>1. embedder[p] # NoEmbedder /\ p \notin checked /\ Begin(p, "idle", {})
    BY <1>5 DEF Search
  <2> QED BY <1>1, <1>2, <1>3, <2>1, BeginKeepsIInv
<1> QED BY <1>4, <1>5

LEMMA ImportKeepsIInv ==
  ASSUME IInv, NEW id \in Sourced, NEW t \in Texts \cup {NoRow}, Import(id, t)
  PROVE  IInv'
<1>0. TypeOK
  BY DEF IInv
<1>1. /\ UNCHANGED <<recorded, embedder, checked, cool, job, failures>>
      /\ text' = [text EXCEPT ![id] = t] /\ vec' = [vec EXCEPT ![id] = NoVec]
  BY DEF Import, Triggered
<1>2. mixed' = mixed
  BY DEF Import
<1>3. /\ text' \in [Ids -> Texts \cup {NoRow}] /\ vec' \in [Ids -> Vector \cup {NoVec}]
      /\ \A i \in Ids : vec'[i] = vec[i] \/ vec'[i] = NoVec
  BY <1>0, <1>1, SourcedAssumption DEF TypeOK
<1>4. TypeOK' /\ HasWork'
  BY <1>0, <1>1, <1>2, <1>3 DEF IInv, TypeOK, HasWork
<1>5. ASSUME InUse, ReadyToRecord, Recorded
      PROVE  InUse' /\ ReadyToRecord' /\ Recorded'
  <2>1. \A q \in checked' : embedder[q] = recorded
    BY <1>1, <1>5 DEF Recorded
  <2> QED BY <1>1, <1>3, <1>5, <2>1, SpaceStays
<1> QED BY <1>2, <1>4, <1>5 DEF IInv

-----------------------------------------------------------------------------

\* Where a step of the check leads: on in the check, or to what the job is for.
LEMMA ContinueIs ==
  ASSUME TypeOK, HasWork, NEW p \in Procs, NEW at \in {"delete", "record", "done"},
         job[p].at \in Checks, Continue(p, at)
  PROVE  \E j \in Job :
           /\ job' = [job EXCEPT ![p] = j]
           /\ j.todo = job[p].todo /\ j.then = job[p].then
           /\ j.then = "embed" => j.todo # {}
           /\ IF at = "done" THEN j.at = j.then /\ checked' = checked \cup {p}
                             ELSE j.at = at /\ checked' = checked
<1>1. job[p] \in Job /\ job \in [Procs -> Job]
  BY DEF TypeOK
<1> DEFINE j == [job[p] EXCEPT !.at = IF at = "done" THEN job[p].then ELSE at]
<1>2. j \in Job /\ j.todo = job[p].todo /\ j.then = job[p].then
      /\ j.at = IF at = "done" THEN job[p].then ELSE at
  BY <1>1 DEF Job, Checks
<1>3. job' = [job EXCEPT ![p] = j]
  BY <1>1 DEF Continue
<1>4. IF at = "done" THEN checked' = checked \cup {p} ELSE checked' = checked
  BY DEF Continue
<1>5. j.then = "embed" => j.todo # {}
  BY <1>2 DEF HasWork
<1> QED BY <1>2, <1>3, <1>4, <1>5

\* The types after a step of the check.
LEMMA CheckKeepsTypes ==
  ASSUME IInv, NEW p \in Procs, NEW at \in {"delete", "record", "done"},
         job[p].at \in Checks, Continue(p, at),
         text' = text, embedder' = embedder, cool' = cool,
         vec' \in [Ids -> Vector \cup {NoVec}],
         recorded' \in Embedders \cup {Unknown},
         mixed' \in BOOLEAN,
         Fail \/ failures' = failures
  PROVE  /\ TypeOK' /\ HasWork'
         /\ \A q \in Procs : job'[q].at = "record" => q = p \/ job[q].at = "record"
         /\ job'[p].at = "record" => at = "record"
         /\ checked' = IF at = "done" THEN checked \cup {p} ELSE checked
<1>0. TypeOK /\ HasWork
  BY DEF IInv
<1>1. PICK j \in Job :
           /\ job' = [job EXCEPT ![p] = j]
           /\ j.todo = job[p].todo /\ j.then = job[p].then
           /\ j.then = "embed" => j.todo # {}
           /\ IF at = "done" THEN j.at = j.then /\ checked' = checked \cup {p}
                             ELSE j.at = at /\ checked' = checked
  BY <1>0, ContinueIs
<1>2. /\ text' \in [Ids -> Texts \cup {NoRow}] /\ cool' \subseteq Procs
      /\ checked' \in {checked, checked \cup {p}}
      /\ embedder[p] # NoEmbedder
  BY <1>0, <1>1 DEF TypeOK, Checks
<1>3. /\ j.at = "embed" \/ j.then = "embed" => j.todo # {}
      /\ j.at \in {"embed", "select"} => p \in checked'
  BY <1>1
<1>4. TypeOK' /\ HasWork'
  BY <1>1, <1>2, <1>3, TypesStay
<1>5. /\ \A q \in Procs : job'[q].at = "record" => q = p \/ job[q].at = "record"
      /\ job'[p].at = "record" => at = "record"
  BY <1>0, <1>1 DEF TypeOK, Job
<1> QED BY <1>1, <1>4, <1>5

LEMMA ReadKeepsIInv ==
  ASSUME IInv, NEW p \in Procs, ReadIdentity(p)
  PROVE  IInv'
<1>0. TypeOK
  BY DEF IInv
<1>1. /\ job[p].at \in Checks
      /\ UNCHANGED <<text, vec, recorded, embedder, cool, failures>>
  BY DEF ReadIdentity, tables, Checks
<1>2. mixed' = mixed
  BY DEF ReadIdentity
<1>3. PICK at \in {"delete", "record", "done"} :
        /\ Continue(p, at)
        /\ at = "done" => recorded = embedder[p]
        /\ at = "record" => recorded = Unknown
  <2>1. CASE recorded = embedder[p]
    BY <2>1 DEF ReadIdentity
  <2>2. CASE recorded # embedder[p] /\ recorded = Unknown
    BY <2>2 DEF ReadIdentity
  <2>3. CASE recorded # embedder[p] /\ recorded # Unknown
    BY <2>3 DEF ReadIdentity, CheckOrder
  <2> QED BY <2>1, <2>2, <2>3
<1>4. /\ TypeOK' /\ HasWork'
      /\ \A q \in Procs : job'[q].at = "record" => q = p \/ job[q].at = "record"
      /\ job'[p].at = "record" => at = "record"
      /\ checked' = IF at = "done" THEN checked \cup {p} ELSE checked
  <2>1. /\ vec' \in [Ids -> Vector \cup {NoVec}] /\ recorded' \in Embedders \cup {Unknown}
        /\ mixed' \in BOOLEAN
    BY <1>0, <1>1, <1>2 DEF TypeOK
  <2> QED BY <1>1, <1>3, <2>1, CheckKeepsTypes
<1>5. ASSUME InUse, ReadyToRecord, Recorded
      PROVE  InUse' /\ ReadyToRecord' /\ Recorded'
  <2>1. \A q \in checked' : embedder[q] = recorded
    BY <1>3, <1>4, <1>5 DEF Recorded
  <2>2. ASSUME NEW q \in Procs, job'[q].at = "record"
        PROVE  job[q].at = "record" \/ \A id \in Ids : vec'[id] # NoVec => vec[id].by = Unknown
    BY <2>2, <1>1, <1>3, <1>4, <1>5 DEF Recorded
  <2> QED BY <1>1, <1>5, <2>1, <2>2, SpaceStays
<1> QED BY <1>2, <1>4, <1>5 DEF IInv

LEMMA DropKeepsIInv ==
  ASSUME IInv, NEW p \in Procs, DropVectors(p)
  PROVE  IInv'
<1>0. TypeOK
  BY DEF IInv
<1>1. /\ job[p].at \in Checks
      /\ Continue(p, "record")
      /\ vec' = [id \in Ids |-> NoVec]
      /\ UNCHANGED <<text, recorded, embedder, cool, failures>>
  BY DEF DropVectors, Checks, After, CheckOrder
<1>2. mixed' = mixed
  BY DEF DropVectors
<1>3. /\ TypeOK' /\ HasWork'
      /\ checked' = checked
  <2>1. /\ vec' \in [Ids -> Vector \cup {NoVec}] /\ recorded' \in Embedders \cup {Unknown}
        /\ mixed' \in BOOLEAN
    BY <1>0, <1>1, <1>2 DEF TypeOK
  <2>2. "record" \in {"delete", "record", "done"} /\ "record" # "done"
    OBVIOUS
  <2> QED BY <1>1, <2>1, <2>2, CheckKeepsTypes
<1>4. ASSUME InUse, ReadyToRecord, Recorded
      PROVE  InUse' /\ ReadyToRecord' /\ Recorded'
  <2>1. \A q \in checked' : embedder[q] = recorded
    BY <1>3, <1>4 DEF Recorded
  <2>2. \A id \in Ids : vec'[id] = NoVec
    BY <1>1
  <2> QED BY <1>1, <1>4, <2>1, <2>2, SpaceStays
<1> QED BY <1>2, <1>3, <1>4 DEF IInv

LEMMA RecordIdentityKeepsIInv ==
  ASSUME IInv, NEW p \in Procs, RecordIdentity(p)
  PROVE  IInv'
<1>0. TypeOK
  BY DEF IInv
<1>1. /\ job[p].at = "record" /\ job[p].at \in Checks
      /\ Continue(p, "done")
      /\ recorded' = embedder[p]
      /\ UNCHANGED <<text, vec, embedder, cool, failures>>
  BY DEF RecordIdentity, Checks, After, CheckOrder
<1>2. mixed' = mixed
  BY DEF RecordIdentity
<1>3. embedder[p] \in Embedders /\ embedder[p] # NoEmbedder
  BY <1>0, <1>1, JobsAre
<1>4. /\ TypeOK' /\ HasWork'
      /\ \A q \in Procs : job'[q].at = "record" => job[q].at = "record"
      /\ checked' = checked \cup {p}
  <2>1. /\ vec' \in [Ids -> Vector \cup {NoVec}] /\ recorded' \in Embedders \cup {Unknown}
        /\ mixed' \in BOOLEAN
    BY <1>0, <1>1, <1>2, <1>3 DEF TypeOK
  <2>2. "done" \in {"delete", "record", "done"}
    OBVIOUS
  <2> QED BY <1>1, <2>1, <2>2, CheckKeepsTypes
<1>5. ASSUME InUse, ReadyToRecord, Recorded
      PROVE  InUse' /\ ReadyToRecord' /\ Recorded'
  <2>1. \A q \in checked' : embedder[q] = recorded'
    <3> SUFFICES ASSUME NEW q \in checked, q # p PROVE embedder[q] = embedder[p]
      BY <1>1, <1>4
    <3>1. q \in Procs /\ embedder[q] = recorded
      BY <1>0, <1>5 DEF TypeOK, Recorded
    <3>2. embedder[q] # NoEmbedder
      BY <3>1, <1>0, NamesAreApart DEF TypeOK
    <3> QED BY <3>1, <3>2, <1>3, <1>5 DEF InUse, Differ
  <2>2. \A id \in Ids : vec'[id] # NoVec => vec'[id].by \in {recorded', Unknown}
    BY <1>1, <1>5 DEF ReadyToRecord
  <2>3. ReadyToRecord'
    BY <1>1, <1>4, <1>5 DEF ReadyToRecord
  <2> QED BY <1>1, <1>5, <2>1, <2>2, <2>3 DEF InUse, Recorded
<1> QED BY <1>2, <1>4, <1>5 DEF IInv

LEMMA CheckFailsKeepsIInv ==
  ASSUME IInv, NEW p \in Procs, CheckFails(p)
  PROVE  IInv'
<1>0. TypeOK
  BY DEF IInv
<1>1. /\ job[p].at \in Checks
      /\ Continue(p, "done")
      /\ Fail
      /\ UNCHANGED <<text, vec, recorded, embedder, cool>>
  BY DEF CheckFails, tables
<1>2. mixed' = TRUE
  BY DEF CheckFails
<1>3. /\ vec' \in [Ids -> Vector \cup {NoVec}] /\ recorded' \in Embedders \cup {Unknown}
      /\ mixed' \in BOOLEAN /\ "done" \in {"delete", "record", "done"}
  BY <1>0, <1>1, <1>2 DEF TypeOK
<1>4. TypeOK' /\ HasWork'
  BY <1>1, <1>3, CheckKeepsTypes
<1> QED BY <1>2, <1>4 DEF IInv

-----------------------------------------------------------------------------

\* What is left of a job whose first memory is done.
LEMMA RestIsAJob ==
  ASSUME TypeOK, NEW p \in Procs, job[p].at = "embed", NEW x, x = First(job[p].todo)
  PROVE  /\ Rest(p, x) \in Job
         /\ Rest(p, x).at \in {"idle", "embed"}
         /\ Rest(p, x).at = "embed" \/ Rest(p, x).then = "embed" => Rest(p, x).todo # {}
<1>1. job[p] \in Job /\ job[p].todo # {}
  BY JobsAre
<1>2. CASE job[p].todo = {x}
  <2>1. Rest(p, x) = Idle
    BY <1>2 DEF Rest
  <2> QED BY <2>1, IdleIsAJob
<1>3. CASE job[p].todo # {x}
  <2>1. Rest(p, x) = [job[p] EXCEPT !.todo = @ \ {x}]
    BY <1>3 DEF Rest
  <2>2. job[p].todo \ {x} # {}
    BY <1>1, <1>3
  <2>3. job[p].todo \ {x} \in SUBSET (Ids \X Texts)
    BY <1>1 DEF Job
  <2>4. Rest(p, x) = [at |-> job[p].at, then |-> job[p].then, todo |-> job[p].todo \ {x}]
    BY <1>1, <2>1 DEF Job
  <2>5. Rest(p, x) \in Job
    BY <1>1, <2>3, <2>4 DEF Job
  <2> QED BY <2>2, <2>4, <2>5
<1> QED BY <1>2, <1>3

\* Steps that embed nothing: what is missing is looked up, or a job is given up.
LEMMA GiveUpKeepsIInv ==
  ASSUME IInv, NEW p \in Procs, Select(p) \/ StoreFails(p) \/ EmbedFails(p) \/ Skipped(p)
  PROVE  IInv'
<1>0. TypeOK
  BY DEF IInv
<1>1. UNCHANGED <<text, vec, recorded, embedder, checked>>
  BY DEF Select, StoreFails, EmbedFails, Skipped, tables
<1>2. mixed' = mixed
  BY DEF Select, StoreFails, EmbedFails, Skipped
<1>3. Fail \/ failures' = failures
  BY DEF Select, StoreFails, EmbedFails, Skipped
<1>4. cool' \subseteq Procs
  BY <1>0 DEF TypeOK, Select, StoreFails, EmbedFails, Skipped
<1>5. PICK j \in Job : /\ job' = [job EXCEPT ![p] = j]
                       /\ j.at \in {"idle", "embed"}
                       /\ j.at = "embed" \/ j.then = "embed" => j.todo # {}
  <2>1. CASE job' = [job EXCEPT ![p] = Idle]
    BY <2>1, IdleIsAJob
  <2>2. CASE job' # [job EXCEPT ![p] = Idle]
    <3>1. PICK limit \in Limits :
            LET ids == {id \in Missing : Cardinality({i \in Missing : i < id}) < limit}
            IN  job' = [job EXCEPT ![p] = IF ids = {} THEN Idle
                                          ELSE [at |-> "embed", then |-> "embed",
                                                todo |-> {<<id, text[id]>> : id \in ids}]]
      BY <2>2 DEF Select, StoreFails, EmbedFails, Skipped
    <3> DEFINE ids == {id \in Missing : Cardinality({i \in Missing : i < id}) < limit}
               j == [at |-> "embed", then |-> "embed", todo |-> {<<id, text[id]>> : id \in ids}]
    <3>2. ids # {} /\ job' = [job EXCEPT ![p] = j]
      BY <2>2, <3>1
    <3>3. ids \subseteq Missing
      OBVIOUS
    <3> HIDE DEF ids
    <3>4. \A id \in ids : id \in Ids /\ text[id] \in Texts
      BY <3>3, <1>0 DEF TypeOK, Missing, Stored
    <3>5. /\ {<<id, text[id]>> : id \in ids} \in SUBSET (Ids \X Texts)
          /\ {<<id, text[id]>> : id \in ids} # {}
      <4>1. \A y \in {<<id, text[id]>> : id \in ids} : y \in Ids \X Texts
        BY <3>4
      <4>2. PICK id \in ids : TRUE
        BY <3>2
      <4>3. <<id, text[id]>> \in {<<i, text[i]>> : i \in ids}
        OBVIOUS
      <4> QED BY <4>1, <4>3
    <3>6. j \in Job /\ j.at = "embed" /\ j.todo # {}
      BY <3>5 DEF Job, Checks
    <3> HIDE DEF j
    <3> QED BY <3>2, <3>6
  <2> QED BY <2>1, <2>2
<1>6. j.at = "embed" => job[p].at \in {"embed", "select"}
  BY <1>5, <1>0 DEF Select, StoreFails, EmbedFails, Skipped
<1>7. TypeOK' /\ HasWork'
  <2>1. /\ text' \in [Ids -> Texts \cup {NoRow}] /\ vec' \in [Ids -> Vector \cup {NoVec}]
        /\ recorded' \in Embedders \cup {Unknown} /\ mixed' \in BOOLEAN
        /\ checked' \in {checked, checked \cup {p}}
    BY <1>0, <1>1, <1>2 DEF TypeOK
  <2>2. /\ j.at # "idle" => embedder[p] # NoEmbedder
        /\ j.at \in {"embed", "select"} => p \in checked'
    BY <1>0, <1>1, <1>5, <1>6 DEF TypeOK
  <2> QED BY <1>1, <1>3, <1>4, <1>5, <2>1, <2>2, TypesStay
<1>8. ASSUME InUse, ReadyToRecord, Recorded
      PROVE  InUse' /\ ReadyToRecord' /\ Recorded'
  <2>1. \A q \in Procs : job'[q].at = "record" => job[q].at = "record"
    BY <1>0, <1>5 DEF TypeOK
  <2>2. \A q \in checked' : embedder[q] = recorded
    BY <1>1, <1>8 DEF Recorded
  <2> QED BY <1>1, <1>8, <2>1, <2>2, SpaceStays
<1> QED BY <1>2, <1>7, <1>8 DEF IInv

LEMMA StoreKeepsIInv ==
  ASSUME IInv, NEW p \in Procs, Store(p)
  PROVE  IInv'
<1> DEFINE x == First(job[p].todo)
           j == Rest(p, x)
<1>0. TypeOK
  BY DEF IInv
<1>1. /\ job[p].at = "embed"
      /\ vec' = [vec EXCEPT ![x[1]] = [text |-> x[2], by |-> embedder[p]]]
      /\ job' = [job EXCEPT ![p] = j]
      /\ UNCHANGED <<text, recorded, embedder, checked, cool, failures>>
  BY DEF Store
<1>2. mixed' = mixed
  BY DEF Store
<1>3. x \in Ids \X Texts /\ embedder[p] \in Embedders /\ embedder[p] # NoEmbedder /\ p \in checked
  BY <1>0, <1>1, JobsAre, FirstIsThere
<1>4. j \in Job /\ j.at \in {"idle", "embed"} /\ (j.at = "embed" \/ j.then = "embed" => j.todo # {})
  BY <1>0, <1>1, RestIsAJob
<1> HIDE DEF x, j
<1>5. /\ vec' \in [Ids -> Vector \cup {NoVec}]
      /\ \A id \in Ids : id # x[1] => vec'[id] = vec[id]
      /\ vec'[x[1]].by = embedder[p]
  BY <1>0, <1>1, <1>3 DEF TypeOK, Vector
<1>6. TypeOK' /\ HasWork'
  <2>1. /\ text' \in [Ids -> Texts \cup {NoRow}]
        /\ recorded' \in Embedders \cup {Unknown} /\ mixed' \in BOOLEAN
        /\ checked' \in {checked, checked \cup {p}} /\ cool' \subseteq Procs
    BY <1>0, <1>1, <1>2 DEF TypeOK
  <2>2. /\ j.at # "idle" => embedder[p] # NoEmbedder
        /\ j.at \in {"embed", "select"} => p \in checked'
    BY <1>1, <1>3
  <2> QED BY <1>1, <1>4, <1>5, <2>1, <2>2, TypesStay
<1>7. ASSUME InUse, ReadyToRecord, Recorded
      PROVE  InUse' /\ ReadyToRecord' /\ Recorded'
  <2>1. \A q \in Procs : job'[q].at = "record" => job[q].at = "record"
    BY <1>0, <1>1, <1>4 DEF TypeOK
  <2>2. embedder[p] = recorded
    BY <1>3, <1>7 DEF Recorded
  <2>3. Recorded'
    BY <1>1, <1>5, <1>7, <2>2 DEF Recorded
  <2>4. ReadyToRecord'
    <3> SUFFICES ASSUME NEW q \in Procs, job[q].at = "record", NEW id \in Ids, vec'[id] # NoVec
                 PROVE  vec'[id].by \in {embedder[q], Unknown}
      BY <1>1, <2>1 DEF ReadyToRecord
    <3>1. CASE id = x[1]
      <4>1. embedder[q] # NoEmbedder
        BY <1>0 DEF TypeOK
      <4> QED BY <3>1, <4>1, <1>3, <1>5, <1>7 DEF InUse, Differ
    <3>2. CASE id # x[1]
      BY <3>2, <1>5, <1>7 DEF ReadyToRecord
    <3> QED BY <3>1, <3>2
  <2> QED BY <1>1, <1>7, <2>3, <2>4 DEF InUse
<1> QED BY <1>2, <1>6, <1>7 DEF IInv

LEMMA CoolingKeepsIInv ==
  ASSUME IInv, NEW p \in Procs, CoolsDown(p) \/ QueryFails(p)
  PROVE  IInv'
<1>0. TypeOK
  BY DEF IInv
<1>1. UNCHANGED <<text, vec, recorded, embedder, checked, job>> /\ cool' \subseteq Procs
  BY <1>0 DEF TypeOK, CoolsDown, QueryFails, tables
<1>2. mixed' = mixed
  BY DEF CoolsDown, QueryFails
<1>3. failures' \in 0..MaxFailures
  <2>1. failures \in 0..MaxFailures /\ (Fail \/ failures' = failures)
    BY <1>0 DEF TypeOK, CoolsDown, QueryFails
  <2> QED BY <2>1, FailuresStayBounded
<1>4. TypeOK' /\ HasWork'
  BY <1>0, <1>1, <1>2, <1>3 DEF IInv, TypeOK, HasWork
<1>5. (InUse /\ ReadyToRecord /\ Recorded) => (InUse /\ ReadyToRecord /\ Recorded)'
  BY <1>1 DEF InUse, ReadyToRecord, Recorded
<1> QED BY <1>2, <1>4, <1>5 DEF IInv

LEMMA RestartKeepsIInv ==
  ASSUME IInv, NEW p \in Procs, Restart(p)
  PROVE  IInv'
<1>0. TypeOK
  BY DEF IInv
<1>1. PICK e \in Embedders \cup {NoEmbedder} :
        /\ embedder' = [embedder EXCEPT ![p] = e]
        /\ mixed' = (mixed \/ \E q \in Procs \ {p} : Differ(e, embedder[q]))
  BY DEF Restart
<1>2. /\ UNCHANGED <<text, vec, recorded, failures>>
      /\ checked' = checked \ {p} /\ cool' = cool \ {p}
      /\ job' = [job EXCEPT ![p] = Idle]
  BY DEF Restart, tables
<1>3. /\ embedder' \in [Procs -> Embedders \cup {NoEmbedder}]
      /\ embedder'[p] = e /\ job'[p] = Idle
      /\ \A q \in Procs : q # p => embedder'[q] = embedder[q] /\ job'[q] = job[q]
      /\ job' \in [Procs -> Job]
  BY <1>0, <1>1, <1>2, IdleIsAJob DEF TypeOK
<1>4. TypeOK'
  <2>1. ASSUME NEW q \in Procs
        PROVE  /\ job'[q].at = "embed" => job'[q].todo # {}
               /\ job'[q].at # "idle" => embedder'[q] # NoEmbedder
               /\ job'[q].at \in {"embed", "select"} => q \in checked'
    BY <1>0, <1>2, <1>3, IdleIsAJob DEF TypeOK
  <2>2. mixed' \in BOOLEAN
    BY <1>0, <1>1 DEF TypeOK
  <2> QED BY <1>0, <1>2, <1>3, <2>1, <2>2 DEF TypeOK
<1>5. HasWork'
  BY <1>2, <1>3, IdleIsAJob DEF IInv, HasWork
<1>6. ASSUME ~mixed', InUse, ReadyToRecord, Recorded
      PROVE  InUse' /\ ReadyToRecord' /\ Recorded'
  <2>1. \A q \in Procs \ {p} : ~Differ(e, embedder[q])
    BY <1>1, <1>6
  <2>2. InUse'
    BY <1>3, <1>6, <2>1 DEF InUse, Differ
  <2>3. ReadyToRecord'
    BY <1>2, <1>3, <1>6, IdleIsAJob DEF ReadyToRecord
  <2>4. Recorded'
    BY <1>0, <1>2, <1>3, <1>6 DEF TypeOK, Recorded
  <2> QED BY <2>2, <2>3, <2>4
<1>7. mixed => mixed'
  BY <1>1
<1> QED BY <1>4, <1>5, <1>6, <1>7 DEF IInv

-----------------------------------------------------------------------------

LEMMA NextKeepsIInv == IInv /\ [Next]_vars => IInv'
<1> SUFFICES ASSUME IInv, [Next]_vars PROVE IInv'
  OBVIOUS
<1>1. ASSUME NEW p \in Procs, Embedding(p) PROVE IInv'
  BY <1>1, ReadKeepsIInv, DropKeepsIInv, RecordIdentityKeepsIInv, CheckFailsKeepsIInv,
     GiveUpKeepsIInv, StoreKeepsIInv, BackfillKeepsIInv, CoolingKeepsIInv DEF Embedding, Steps
<1>2. ASSUME NEW p \in Procs, Restart(p) PROVE IInv'
  BY <1>2, RestartKeepsIInv
<1>3. ASSUME NEW p \in Procs, NEW id \in Ids, NEW t \in Texts, Record(p, id, t) PROVE IInv'
  BY <1>3, RecordKeepsIInv
<1>4. ASSUME NEW id \in Sourced, NEW t \in Texts \cup {NoRow}, Import(id, t) PROVE IInv'
  BY <1>4, ImportKeepsIInv
<1>5. CASE UNCHANGED vars
  <2>1. UNCHANGED <<text, vec, recorded, embedder, checked, cool, job, failures>>
    BY <1>5 DEF vars, tables
  <2>2. mixed' = mixed
    BY <1>5 DEF vars
  <2>3. TypeOK' /\ HasWork'
    BY <2>1, <2>2 DEF IInv, TypeOK, HasWork
  <2>4. (InUse /\ ReadyToRecord /\ Recorded) => (InUse /\ ReadyToRecord /\ Recorded)'
    BY <2>1 DEF InUse, ReadyToRecord, Recorded
  <2> QED BY <2>2, <2>3, <2>4 DEF IInv
<1> QED BY <1>1, <1>2, <1>3, <1>4, <1>5 DEF Next

LEMMA Invariance == Spec => []IInv
BY InitIInv, NextKeepsIInv, PTL DEF Spec

\* Every variable has its type; nobody embeds without an embedder or before the check.
THEOREM TypeCorrect == Spec => []TypeOK
<1>1. IInv => TypeOK
  BY DEF IInv
<1> QED BY <1>1, Invariance, PTL

\* One embedder at a time and no failed check: all vectors are in one space, that of
\* everyone who searches, wherever processes die between the statements of the check
\* (check_embedder_identity).
THEOREM VectorsShareASpace == Spec => []OneSpace
<1>1. IInv => OneSpace
  BY DEF IInv, OneSpace, Recorded
<1> QED BY <1>1, Invariance, PTL

\* Only an embedding that was overtaken makes a vector wrong (embed_best_effort and the
\* triggers on memories_vec).
THEOREM OnlyOvertakenGoWrong == Spec => OnlySlowEmbeddingsAreWrong
<1> DEFINE Act == \A id \in Ids :
                    Right(id) => Right(id)' \/ \E p \in Procs : Outdated(p) /\ Store(p)
<1>1. IInv /\ [Next]_vars => Act
  <2> SUFFICES ASSUME IInv, [Next]_vars, NEW id \in Ids, Right(id)
               PROVE  Right(id)' \/ \E p \in Procs : Outdated(p) /\ Store(p)
    OBVIOUS
  <2>0. TypeOK
    BY DEF IInv
  <2>1. ASSUME NEW p \in Procs, NEW i \in Ids, NEW t \in Texts, Record(p, i, t) PROVE Right(id)'
    <3>1. vec' = vec /\ text' = [text EXCEPT ![i] = t] /\ text[i] = NoRow
      BY <2>1 DEF Record, Stored
    <3>2. CASE i = id
      BY <3>1, <3>2, <2>0, NamesAreApart DEF Right, TypeOK, Vector
    <3>3. CASE i # id
      BY <3>1, <3>3, <2>0 DEF Right, TypeOK
    <3> QED BY <3>2, <3>3
  <2>2. ASSUME NEW i \in Sourced, NEW t \in Texts \cup {NoRow}, Import(i, t) PROVE Right(id)'
    <3>1. text' = [text EXCEPT ![i] = t] /\ vec' = [vec EXCEPT ![i] = NoVec]
      BY <2>2 DEF Import, Triggered
    <3> QED BY <3>1, <2>0, SourcedAssumption DEF Right, TypeOK
  <2>3. ASSUME NEW p \in Procs, Store(p), ~Outdated(p) PROVE Right(id)'
    <3> DEFINE x == First(job[p].todo)
    <3>1. x \in job[p].todo /\ x \in Ids \X Texts
      BY <2>3, <2>0, JobsAre, FirstIsThere DEF Store
    <3>2. vec' = [vec EXCEPT ![x[1]] = [text |-> x[2], by |-> embedder[p]]] /\ text' = text
      BY <2>3 DEF Store
    <3> HIDE DEF x
    <3>3. text[x[1]] = x[2]
      BY <3>1, <2>3 DEF Outdated
    <3> QED BY <3>1, <3>2, <3>3, <2>0 DEF Right, TypeOK
  <2>4. ASSUME NEW p \in Procs, DropVectors(p) PROVE Right(id)'
    BY <2>4 DEF DropVectors, Right
  <2>5. ASSUME NEW p \in Procs,
               Embedding(p) \/ Restart(p), ~Store(p), ~DropVectors(p)
        PROVE  Right(id)'
    <3>1. text' = text /\ vec' = vec
      BY <2>5 DEF Embedding, Steps, ReadIdentity, RecordIdentity, CheckFails, Select, StoreFails,
                  EmbedFails, Skipped, Backfill, Search, QueryFails, CoolsDown, Restart, tables
    <3> QED BY <3>1 DEF Right
  <2>6. CASE UNCHANGED vars
    BY <2>6 DEF vars, tables, Right
  <2> QED BY <2>1, <2>2, <2>3, <2>4, <2>5, <2>6 DEF Next
<1>2. Spec => [][Act]_vars
  BY <1>1, Invariance, PTL DEF Spec
<1> QED BY <1>2 DEF OnlySlowEmbeddingsAreWrong

=============================================================================

--------------------------- MODULE WorkQueue_proofs ---------------------------
(***************************************************************************)
(* Proofs, for every set of ids, workers and bounds, that the work queue   *)
(* implements MemoryGraph, whatever workers answer and wherever they stop. *)
(*                                                                         *)
(* GraphProofs names the lemmas of MemoryGraph_proofs for the instance     *)
(* Graph of WorkQueue.  Its operators are those of Graph, under another    *)
(* name; the lemmas Same... say so, one per operation.                     *)
(***************************************************************************)
EXTENDS WorkQueue, FiniteSetTheorems, TLAPS

GraphProofs == INSTANCE MemoryGraph_proofs
                 WITH Kinds        <- Kinds \cup {"task"},
                      LinkTypes    <- LinkTypes \cup {"references"},
                      CitesAtBirth <- CitesAtBirth \cup {"none", "current"}

-----------------------------------------------------------------------------
(***************************************************************************)
(* What MemoryGraph_proofs proves holds for Graph                          *)
(***************************************************************************)

\* The assumptions of MemoryGraph hold for this instance of it.
LEMMA AssumptionsHold ==
  /\ GraphProofs!KindsAssumption
  /\ GraphProofs!LinkTypesAssumption
  /\ GraphProofs!CitesAssumption
  /\ GraphProofs!NullsAssumption
  /\ GraphProofs!NoRowAssumption
BY GraphAssumption
   DEF GraphProofs!KindsAssumption, GraphProofs!LinkTypesAssumption,
       GraphProofs!CitesAssumption, GraphProofs!NullsAssumption,
       GraphProofs!NoRowAssumption,
       Graph!AllKinds, GraphProofs!AllKinds,
       Graph!AllTypes, GraphProofs!AllTypes,
       Graph!AllStatuses, GraphProofs!AllStatuses,
       Graph!Row, GraphProofs!Row,
       GraphProofs!IsFiniteSet, IsFiniteSet

\* RecordMemory is the same operation under both names.
LEMMA SameRecordMemory ==
  \A id, kind, session, target, cites : Graph!RecordMemory(id, kind, session, target, cites) <=> GraphProofs!RecordMemory(id, kind, session, target, cites)
BY DEF Graph!RecordMemory, GraphProofs!RecordMemory,
       Graph!IdIsFree, GraphProofs!IdIsFree,
       Graph!NewRow, GraphProofs!NewRow,
       Graph!StatusAtBirth, GraphProofs!StatusAtBirth,
       Graph!EdgesAtBirth, GraphProofs!EdgesAtBirth,
       Graph!Cardinality, GraphProofs!Cardinality

\* LinkEntities is the same operation under both names.
LEMMA SameLinkEntities ==
  \A s, t, type : Graph!LinkEntities(s, t, type) <=> GraphProofs!LinkEntities(s, t, type)
BY DEF Graph!LinkEntities, GraphProofs!LinkEntities,
       Graph!Cardinality, GraphProofs!Cardinality

\* ResolveMemory is the same operation under both names.
LEMMA SameResolveMemory ==
  \A id : Graph!ResolveMemory(id) <=> GraphProofs!ResolveMemory(id)
BY DEF Graph!ResolveMemory, GraphProofs!ResolveMemory

\* SetKeywords is the same operation under both names.
LEMMA SameSetKeywords ==
  \A id : Graph!SetKeywords(id) <=> GraphProofs!SetKeywords(id)
BY DEF Graph!SetKeywords, GraphProofs!SetKeywords

\* MarkPairReviewed is the same operation under both names.
LEMMA SameMarkPairReviewed ==
  \A p : Graph!MarkPairReviewed(p) <=> GraphProofs!MarkPairReviewed(p)
BY DEF Graph!MarkPairReviewed, GraphProofs!MarkPairReviewed,
       Graph!Stored, GraphProofs!Stored

\* ConfirmMemory is the same operation under both names.
LEMMA SameConfirmMemory ==
  \A id : Graph!ConfirmMemory(id) <=> GraphProofs!ConfirmMemory(id)
BY DEF Graph!ConfirmMemory, GraphProofs!ConfirmMemory

\* EditCitedFile is the same operation under both names.
LEMMA SameEditCitedFile ==
  \A id : Graph!EditCitedFile(id) <=> GraphProofs!EditCitedFile(id)
BY DEF Graph!EditCitedFile, GraphProofs!EditCitedFile

\* Age is the same operation under both names.
LEMMA SameAge ==
  \A id : Graph!Age(id) <=> GraphProofs!Age(id)
BY DEF Graph!Age, GraphProofs!Age,
       Graph!IsScratch, GraphProofs!IsScratch

\* ConsolidateSession is the same operation under both names.
LEMMA SameConsolidateSession ==
  \A s, l, purge : Graph!ConsolidateSession(s, l, purge) <=> GraphProofs!ConsolidateSession(s, l, purge)
BY DEF Graph!ConsolidateSession, GraphProofs!ConsolidateSession,
       Graph!WithLearnings, GraphProofs!WithLearnings,
       Graph!NewRow, GraphProofs!NewRow,
       Graph!ScratchOf, GraphProofs!ScratchOf,
       Graph!IsScratch, GraphProofs!IsScratch,
       Graph!DeleteRows, GraphProofs!DeleteRows,
       Graph!EdgesWithout, GraphProofs!EdgesWithout,
       Graph!ReviewsWithout, GraphProofs!ReviewsWithout,
       Graph!Supersedes, GraphProofs!Supersedes

\* The sweep is the same operation under both names.
LEMMA SamePurge == Graph!PurgeExpiredEphemeral <=> GraphProofs!PurgeExpiredEphemeral
BY DEF Graph!PurgeExpiredEphemeral, GraphProofs!PurgeExpiredEphemeral,
       Graph!Expired, GraphProofs!Expired,
       Graph!IsScratch, GraphProofs!IsScratch,
       Graph!Stored, GraphProofs!Stored,
       Graph!DeleteRows, GraphProofs!DeleteRows,
       Graph!EdgesWithout, GraphProofs!EdgesWithout,
       Graph!ReviewsWithout, GraphProofs!ReviewsWithout,
       Graph!Supersedes, GraphProofs!Supersedes

\* So are the learnings a consolidation may be given, ...
LEMMA SameLearnings == Graph!Learnings = GraphProofs!Learnings
BY DEF Graph!Learnings, GraphProofs!Learnings,
       Graph!Cardinality, GraphProofs!Cardinality

\* ... the pairs a verdict may be about, ...
LEMMA SamePairs == Graph!Pairs = GraphProofs!Pairs
BY DEF Graph!Pairs, GraphProofs!Pairs,
       Graph!Cardinality, GraphProofs!Cardinality

\* ... the type invariant, now and in the next state, ...
LEMMA SameType == /\ Graph!TypeOK <=> GraphProofs!TypeOK
                  /\ Graph!TypeOK' <=> GraphProofs!TypeOK'
BY SamePairs DEF Graph!TypeOK, GraphProofs!TypeOK,
       Graph!Row, GraphProofs!Row,
       Graph!AllKinds, GraphProofs!AllKinds,
       Graph!AllStatuses, GraphProofs!AllStatuses,
       Graph!AllTypes, GraphProofs!AllTypes

\* ... and the steps.
LEMMA SameNext == [Graph!Next]_(Graph!vars) <=> [GraphProofs!Next]_(GraphProofs!vars)
BY SamePairs, SameLearnings, SamePurge,
   SameRecordMemory, SameLinkEntities, SameResolveMemory, SameSetKeywords,
   SameMarkPairReviewed, SameConfirmMemory, SameEditCitedFile, SameAge, SameConsolidateSession
   DEF Graph!Next, GraphProofs!Next,
       Graph!AgentNext, GraphProofs!AgentNext,
       Graph!UpkeepNext, GraphProofs!UpkeepNext,
       Graph!vars, GraphProofs!vars

\* Every stored memory has a kind that people record, or is a task.
KindsKnown == \A i \in Ids : mem[i] # NoRow => mem[i].kind \in Kinds \cup {"task"}

\* A step of the graph keeps its tables well formed and the kinds known.
LEMMA GraphTypeStep ==
  ASSUME Graph!TypeOK, KindsKnown, [Graph!Next]_(Graph!vars)
  PROVE  Graph!TypeOK' /\ KindsKnown'
<1>1. GraphProofs!TypeOK /\ [GraphProofs!Next]_(GraphProofs!vars)
  BY SameType, SameNext
<1>2. GraphProofs!TypeOK'
  BY <1>1, AssumptionsHold, GraphProofs!TypeStep DEF GraphProofs!TypeStep
<1>3. GraphProofs!KindsKnown
  BY DEF KindsKnown, GraphProofs!KindsKnown, GraphProofs!Stored
<1>4. GraphProofs!KindsKnown'
  BY <1>1, <1>3, AssumptionsHold, GraphProofs!KindStep DEF GraphProofs!KindStep
<1>5. KindsKnown'
  BY <1>4 DEF KindsKnown, GraphProofs!KindsKnown, GraphProofs!Stored
<1>6. QED
  BY <1>2, <1>5, SameType

-----------------------------------------------------------------------------
(***************************************************************************)
(* Answers being applied                                                   *)
(***************************************************************************)

JudgeSteps  == {"resolve", "update", "link", "task", "first", "second", "mark"}
AnswerSteps == {"confirm", "restamp", "rerecord", "correct"}

\* The step an answer is at tells what kind of answer it is.
LEMMA JobKinds ==
  ASSUME TypeOK, NEW w \in Workers, job[w] # Idle
  PROVE  /\ job[w].at \in JudgeSteps => job[w] \in Judgements
         /\ job[w].at \in AnswerSteps => job[w] \in Answers
BY DEF TypeOK, JudgeSteps, AnswerSteps, Judgements, Answers

\* An answer that goes on to its next step, or whose task has got an id, is one.
LEMMA JobUpdates ==
  /\ \A j \in Judgements : \A at \in JudgeSteps :
       /\ [j EXCEPT !.at = at] \in Judgements
       /\ \A i \in Ids : [j EXCEPT !.at = at, !.from = i] \in Judgements
  /\ \A j \in Answers : \A at \in AnswerSteps : [j EXCEPT !.at = at] \in Answers
<1>1. \A j \in Judgements : \A at \in JudgeSteps : [j EXCEPT !.at = at] \in Judgements
  BY DEF Judgements, JudgeSteps
<1>2. \A j \in Judgements : \A at \in JudgeSteps : \A i \in Ids :
        [j EXCEPT !.at = at, !.from = i] \in Judgements
  BY DEF Judgements, JudgeSteps
<1>3. \A j \in Answers : \A at \in AnswerSteps : [j EXCEPT !.at = at] \in Answers
  BY DEF Answers, AnswerSteps
<1>4. QED
  BY <1>1, <1>2, <1>3, Zenon

\* What a verdict sets out to do is an answer being applied.
LEMMA PlanType ==
  ASSUME NEW v \in Verdicts, NEW a \in Ids, NEW b \in Ids, NEW keep \in {a, b}, a < b
  PROVE  Plan(v, a, b, keep) \in Judgements
BY DEF Plan, Verdicts, Judgements

\* Two different ids are a pair.
LEMMA PairOfTwo ==
  ASSUME NEW a \in Ids, NEW b \in Ids, a # b
  PROVE  {a, b} \in Graph!Pairs
<1>1. Cardinality({a}) = 1 /\ IsFiniteSet({a})
  BY FS_Singleton
<1>2. Cardinality({a} \cup {b}) = 2
  BY <1>1, FS_AddElement
<1>3. {a} \cup {b} = {a, b}
  OBVIOUS
<1>4. Graph!Cardinality({a, b}) = Cardinality({a, b})
  BY DEF Cardinality, Graph!Cardinality
<1>5. QED
  BY <1>2, <1>3, <1>4 DEF Graph!Pairs

-----------------------------------------------------------------------------
(***************************************************************************)
(* The steps                                                               *)
(***************************************************************************)

IInv == TypeOK /\ KindsKnown

\* Every step of an answer, a death included, is a step of the graph or leaves the
\* graph alone; so is every step of the others.
LEMMA StepsAreGraphSteps ==
  ASSUME IInv, [Next]_vars
  PROVE  [Graph!Next]_(Graph!vars)
<1> USE DEF IInv
<1>1. ASSUME UNCHANGED graph
      PROVE  [Graph!Next]_(Graph!vars)
  BY <1>1 DEF graph, Graph!vars
<1>2. ASSUME NEW w \in Workers, Judge(w)
      PROVE  [Graph!Next]_(Graph!vars)
  <2>1. CASE \E a, b, keep \in Ids, v \in Verdicts : JudgePair(w, a, b, v, keep)
    BY <1>1, <2>1 DEF JudgePair
  <2>2. CASE ResolveDuplicate(w)
    <3>1. job[w] \in Judgements
      BY <2>2, JobKinds DEF ResolveDuplicate, Busy, JudgeSteps
    <3>2. job[w].from \in Ids /\ Graph!ResolveMemory(job[w].from)
      BY <2>2, <3>1 DEF ResolveDuplicate, Judgements
    <3>3. QED
      BY <3>2 DEF Graph!Next, Graph!AgentNext
  <2>31. CASE SealNote(w) \/ SealRefused(w) \/ Unseal(w)
    BY <1>1, <2>31 DEF SealNote, SealRefused, Unseal
  <2>3. CASE LinkPair(w)
    <3>1. job[w] \in Judgements
      BY <2>3, JobKinds DEF LinkPair, Busy, JudgeSteps
    <3>2. /\ job[w].from \in Ids /\ job[w].to \in Ids
          /\ Graph!LinkEntities(job[w].from, job[w].to, "references")
      BY <2>3, <3>1 DEF LinkPair, Judgements
    <3>3. QED
      BY <3>2 DEF Graph!Next, Graph!AgentNext
  <2>4. CASE \E id \in FreshTasks : RecordTask(w, id)
    <3>1. PICK id \in Ids : Graph!RecordMemory(id, "task", NoSession, NoId, "none")
      BY <2>4 DEF RecordTask, FreshTasks, Fresh
    <3>2. QED
      BY <3>1 DEF Graph!Next, Graph!AgentNext
  <2>5. CASE LinkFirst(w)
    <3>1. job[w] \in Judgements
      BY <2>5, JobKinds DEF LinkFirst, Busy, JudgeSteps
    <3>2. /\ job[w].from \in Ids /\ job[w].a \in Ids
          /\ Graph!LinkEntities(job[w].from, job[w].a, "references")
      BY <2>5, <3>1 DEF LinkFirst, Judgements
    <3>3. QED
      BY <3>2 DEF Graph!Next, Graph!AgentNext
  <2>6. CASE LinkSecond(w)
    <3>1. job[w] \in Judgements
      BY <2>6, JobKinds DEF LinkSecond, Busy, JudgeSteps
    <3>2. /\ job[w].from \in Ids /\ job[w].b \in Ids
          /\ Graph!LinkEntities(job[w].from, job[w].b, "references")
      BY <2>6, <3>1 DEF LinkSecond, Judgements
    <3>3. QED
      BY <3>2 DEF Graph!Next, Graph!AgentNext
  <2>7. CASE MarkPair(w)
    <3>1. job[w] \in Judgements
      BY <2>7, JobKinds DEF MarkPair, Busy, JudgeSteps
    <3>2. job[w].a \in Ids /\ job[w].b \in Ids /\ job[w].a # job[w].b
      <4>1. job[w].a \in Ids /\ job[w].b \in Ids /\ job[w].a < job[w].b
        BY <3>1 DEF Judgements
      <4>2. job[w].a \in Nat /\ job[w].b \in Nat
        BY <4>1, IdsAssumption
      <4>3. QED
        BY <4>1, <4>2
    <3>3. {job[w].a, job[w].b} \in Graph!Pairs
      BY <3>2, PairOfTwo
    <3>4. Graph!MarkPairReviewed({job[w].a, job[w].b})
      BY <2>7 DEF MarkPair
    <3>5. QED
      BY <3>3, <3>4 DEF Graph!Next, Graph!UpkeepNext
  <2>8. QED
    BY <1>2, <2>1, <2>2, <2>31, <2>3, <2>4, <2>5, <2>6, <2>7 DEF Judge
<1>3. ASSUME NEW w \in Workers, Verify(w)
      PROVE  [Graph!Next]_(Graph!vars)
  <2>1. CASE \/ \E id \in Ids, at \in {"confirm", "correct"} : AnswerVerify(w, id, at)
             \/ ConfirmDirect(w) \/ ConfirmNote(w) \/ ConfirmRefused(w)
    BY <1>1, <2>1 DEF AnswerVerify, ConfirmDirect, ConfirmNote, ConfirmRefused
  <2>2. CASE Restamp(w)
    <3>1. job[w] \in Answers
      BY <2>2, JobKinds DEF Restamp, Busy, AnswerSteps
    <3>2. job[w].id \in Ids /\ Graph!ConfirmMemory(job[w].id)
      BY <2>2, <3>1 DEF Restamp, Answers
    <3>3. QED
      BY <3>2 DEF Graph!Next, Graph!UpkeepNext
  <2>3. CASE \E new \in Fresh : Supersede(w, new)
    <3>1. PICK new \in Ids : Supersede(w, new)
      BY <2>3 DEF Fresh
    <3>2. job[w] \in Answers
      BY <3>1, JobKinds DEF Supersede, Busy, AnswerSteps
    <3>3. job[w].id \in Ids /\ job[w].id # NoId
      BY <3>2, GraphAssumption DEF Answers
    <3>4. Graph!RecordMemory(new, mem[job[w].id].kind, NoSession, job[w].id, "current")
      BY <3>1 DEF Supersede
    <3>5. mem[job[w].id] # NoRow
      BY <3>3, <3>4 DEF Graph!RecordMemory
    <3>6. mem[job[w].id].kind \in Kinds \cup {"task"}
      BY <3>3, <3>5 DEF KindsKnown
    <3>7. QED
      BY <3>3, <3>4, <3>6 DEF Graph!Next, Graph!AgentNext
  <2>4. QED
    BY <1>3, <2>1, <2>2, <2>3 DEF Verify
<1>4. ASSUME NEW w \in Workers, NEW id \in Ids, Expand(w, id)
      PROVE  [Graph!Next]_(Graph!vars)
  BY <1>4 DEF Expand, Graph!Next, Graph!UpkeepNext
<1>5. ASSUME NEW w \in Workers, GiveUp(w)
      PROVE  [Graph!Next]_(Graph!vars)
  BY <1>1, <1>5 DEF GiveUp
<1>6. ASSUME \/ Others
             \/ AgentRecords
             \/ \E id \in Retired : AgentResolves(id)
             \/ \E id \in Edited, file \in Moves : MoveNote(id, file)
      PROVE  [Graph!Next]_(Graph!vars)
  <2>1. CASE Others
    BY <2>1, BoundsAssumption DEF Others, Graph!Next, Graph!AgentNext, Graph!UpkeepNext
  <2>2. CASE AgentRecords
    BY <2>2, BoundsAssumption DEF AgentRecords, Graph!Next, Graph!AgentNext
  <2>3. CASE \E id \in Retired : AgentResolves(id)
    BY <2>3, BoundsAssumption DEF AgentResolves, Graph!Next, Graph!AgentNext
  <2>4. CASE \E id \in Edited, file \in Moves : MoveNote(id, file)
    BY <1>1, <2>4 DEF MoveNote
  <2>5. QED
    BY <1>6, <2>1, <2>2, <2>3, <2>4
<1>7. CASE UNCHANGED vars
  BY <1>1, <1>7 DEF vars, graph
<1>8. QED
  BY <1>2, <1>3, <1>4, <1>5, <1>6, <1>7 DEF Next

\* The types of what the work queue adds to the graph.
QueueType ==
  /\ verdict \in [Graph!Pairs -> Verdicts \cup {NoVerdict}]
  /\ job \in [Workers -> {Idle} \cup Judgements \cup Answers]
  /\ notes \in [Ids -> Files]
  /\ log \subseteq {"dropped", "hidden", "replaced"} \X Ids \X Ids
  /\ moved \subseteq Workers

\* Every step keeps verdicts, answers and the log well formed.
LEMMA QueueTypeStep ==
  ASSUME TypeOK, [Next]_vars
  PROVE  QueueType'
<1> USE DEF QueueType
<1>1. QueueType
  BY DEF TypeOK
<1>2. ASSUME NEW w \in Workers, NEW j \in {Idle} \cup Judgements \cup Answers,
             job' = [job EXCEPT ![w] = j]
      PROVE  job' \in [Workers -> {Idle} \cup Judgements \cup Answers]
  BY <1>1, <1>2
<1>3. ASSUME NEW w \in Workers, Judge(w)
      PROVE  QueueType'
  <2>1. ASSUME NEW a \in Ids, NEW b \in Ids, NEW keep \in Ids, NEW v \in Verdicts,
               JudgePair(w, a, b, v, keep)
        PROVE  QueueType'
    <3>1. keep \in {a, b} /\ a < b
      BY <2>1 DEF JudgePair
    <3>2. Plan(v, a, b, keep) \in Judgements
      BY <3>1, PlanType
    <3>3. QED
      BY <1>1, <1>2, <2>1, <3>2 DEF JudgePair, files
  <2>2. ASSUME \/ SealNote(w) \/ ResolveDuplicate(w)
               \/ LinkPair(w) \/ LinkFirst(w) \/ LinkSecond(w)
        PROVE  QueueType'
    <3>1. job[w] # Idle /\ job[w] \in Judgements
      BY <2>2, JobKinds
         DEF SealNote, ResolveDuplicate, LinkPair, LinkFirst, LinkSecond, Busy, JudgeSteps
    <3>2. PICK at \in JudgeSteps : job' = [job EXCEPT ![w].at = at]
      BY <2>2 DEF SealNote, ResolveDuplicate, LinkPair, LinkFirst, LinkSecond, Step, JudgeSteps
    <3>3. [job[w] EXCEPT !.at = at] \in Judgements
      BY <3>1, JobUpdates
    <3>4. job' = [job EXCEPT ![w] = [job[w] EXCEPT !.at = at]]
      BY <1>1, <3>2
    <3>5. job' \in [Workers -> {Idle} \cup Judgements \cup Answers]
      BY <1>2, <3>3, <3>4
    <3>6. job[w].from \in Ids /\ job[w].to \in Ids
      BY <3>1 DEF Judgements
    <3>7. log' \subseteq {"dropped", "hidden", "replaced"} \X Ids \X Ids
      <4>1. CASE ResolveDuplicate(w)
        BY <1>1, <3>6, <4>1 DEF ResolveDuplicate
      <4>2. CASE log' = log
        BY <1>1, <4>2
      <4>3. QED
        BY <2>2, <4>1, <4>2 DEF SealNote, LinkPair, LinkFirst, LinkSecond
    <3>8. verdict' = verdict
      BY <2>2 DEF SealNote, ResolveDuplicate, LinkPair, LinkFirst, LinkSecond
    <3>9. notes' \in [Ids -> Files] /\ moved' \subseteq Workers
      BY <1>1, <2>2 DEF SealNote, ResolveDuplicate, LinkPair, LinkFirst, LinkSecond, files, Files
    <3>10. QED
      BY <1>1, <3>5, <3>7, <3>8, <3>9
  <2>21. ASSUME SealRefused(w) \/ Unseal(w)
         PROVE  QueueType'
    <3>1. notes' \in [Ids -> Files]
      BY <1>1, <2>21 DEF SealRefused, Unseal, Files
    <3>2. moved' \subseteq Workers
      BY <1>1, <2>21 DEF SealRefused, Unseal, Resolving
    <3>3. job' = [job EXCEPT ![w] = Idle] /\ verdict' = verdict /\ log' = log
      BY <2>21 DEF SealRefused, Unseal, Finished
    <3>4. QED
      BY <1>1, <1>2, <3>1, <3>2, <3>3
  <2>3. ASSUME NEW id \in Ids, RecordTask(w, id)
        PROVE  QueueType'
    <3>1. job[w] # Idle /\ job[w] \in Judgements
      BY <2>3, JobKinds DEF RecordTask, Busy, JudgeSteps
    <3>2. [job[w] EXCEPT !.at = "first", !.from = id] \in Judgements
      BY <3>1, JobUpdates DEF JudgeSteps
    <3>3. job' = [job EXCEPT ![w] = [job[w] EXCEPT !.at = "first", !.from = id]]
      BY <1>1, <2>3 DEF RecordTask
    <3>4. job' \in [Workers -> {Idle} \cup Judgements \cup Answers]
      BY <1>2, <3>2, <3>3
    <3>5. QED
      BY <1>1, <2>3, <3>4 DEF RecordTask, files
  <2>4. ASSUME MarkPair(w)
        PROVE  QueueType'
    <3>1. job[w] \in Judgements
      BY <2>4, JobKinds DEF MarkPair, Busy, JudgeSteps
    <3>2. job[w].verdict \in Verdicts
      BY <3>1 DEF Judgements
    <3>3. verdict' \in [Graph!Pairs -> Verdicts \cup {NoVerdict}]
      BY <1>1, <2>4, <3>2 DEF MarkPair
    <3>4. job' = [job EXCEPT ![w] = Idle] /\ log' = log /\ UNCHANGED files
      BY <2>4 DEF MarkPair, Finished
    <3>5. QED
      BY <1>1, <1>2, <3>3, <3>4 DEF files
  <2>5. QED
    BY <1>3, <2>1, <2>2, <2>21, <2>3, <2>4 DEF Judge, FreshTasks, Fresh
<1>4. ASSUME NEW w \in Workers, Verify(w)
      PROVE  QueueType'
  <2>1. ASSUME NEW id \in Ids, NEW at \in {"confirm", "correct"}, AnswerVerify(w, id, at)
        PROVE  QueueType'
    <3>1. [at |-> at, id |-> id] \in Answers
      BY DEF Answers
    <3>2. QED
      BY <1>1, <1>2, <2>1, <3>1 DEF AnswerVerify, files
  <2>2. ASSUME ConfirmDirect(w) \/ ConfirmNote(w)
        PROVE  QueueType'
    <3>1. job[w] \in Answers
      BY <2>2, JobKinds DEF ConfirmDirect, ConfirmNote, Busy, AnswerSteps
    <3>2. PICK at \in AnswerSteps : job' = [job EXCEPT ![w].at = at]
      BY <2>2 DEF ConfirmDirect, ConfirmNote, Step, AnswerSteps
    <3>3. [job[w] EXCEPT !.at = at] \in Answers
      BY <3>1, JobUpdates
    <3>4. job' = [job EXCEPT ![w] = [job[w] EXCEPT !.at = at]]
      BY <1>1, <3>2
    <3>5. QED
      BY <1>1, <1>2, <2>2, <3>3, <3>4 DEF ConfirmDirect, ConfirmNote, files
  <2>3. ASSUME ConfirmRefused(w) \/ Restamp(w)
        PROVE  QueueType'
    BY <1>1, <1>2, <2>3 DEF ConfirmRefused, Restamp, Finished, files
  <2>4. ASSUME NEW new \in Ids, Supersede(w, new)
        PROVE  QueueType'
    <3>1. job[w] \in Answers
      BY <2>4, JobKinds DEF Supersede, Busy, AnswerSteps
    <3>2. job[w].id \in Ids
      BY <3>1 DEF Answers
    <3>3. notes' \in [Ids -> Files] /\ moved' = moved
      BY <1>1, <2>4 DEF Supersede, NoteWritten, Files
    <3>4. QED
      BY <1>1, <1>2, <2>4, <3>2, <3>3 DEF Supersede, Finished
  <2>5. QED
    BY <1>4, <2>1, <2>2, <2>3, <2>4 DEF Verify, Fresh
<1>5. ASSUME NEW w \in Workers, NEW id \in Ids, Expand(w, id)
      PROVE  QueueType'
  BY <1>1, <1>5 DEF Expand, files
<1>6. ASSUME NEW w \in Workers, GiveUp(w)
      PROVE  QueueType'
  BY <1>1, <1>2, <1>6 DEF GiveUp, Finished
<1>7. CASE Others \/ UNCHANGED vars
  BY <1>1, <1>7 DEF Others, vars, files
<1>8. ASSUME AgentRecords
      PROVE  QueueType'
  BY <1>1, <1>8 DEF AgentRecords, NoteWritten, Files
<1>9. ASSUME NEW id \in Ids, AgentResolves(id)
      PROVE  QueueType'
  BY <1>1, <1>9 DEF AgentResolves, Files
<1>10. ASSUME NEW id \in Ids, NEW file \in Files, MoveNote(id, file)
       PROVE  QueueType'
  BY <1>1, <1>10 DEF MoveNote, Resolving
<1>11. QED
  BY <1>3, <1>4, <1>5, <1>6, <1>7, <1>8, <1>9, <1>10, BoundsAssumption DEF Next

-----------------------------------------------------------------------------
(***************************************************************************)
(* What stays as it is between two steps of an answer                      *)
(***************************************************************************)

Durable(i) == mem[i] # NoRow /\ mem[i].kind # "ephemeral"
Settled(i) == mem[i] # NoRow /\ mem[i].status \notin {"active", "ephemeral"}
IsTask(i)  == mem[i] # NoRow /\ mem[i].kind = "task"

\* A step of the graph keeps its invariants.
LEMMA GraphInvariantStep ==
  ASSUME GraphProofs!IInv, [Graph!Next]_(Graph!vars)
  PROVE  GraphProofs!IInv'
BY SameNext, AssumptionsHold, GraphProofs!InductiveStep DEF GraphProofs!InductiveStep

\* Durable rows and their kinds, the references between them, and what was settled
\* stay, whatever anyone does.
LEMMA DurableStays ==
  ASSUME GraphProofs!IInv, [Graph!Next]_(Graph!vars)
  PROVE  /\ \A i \in Ids : Durable(i) => Durable(i)'
         /\ \A i \in Ids : IsTask(i) => IsTask(i)'
         /\ \A i \in Ids : Durable(i) /\ Settled(i) => Settled(i)'
         /\ \A s, t \in Ids : Durable(s) /\ Durable(t) /\ References(s, t) => References(s, t)'
<1>1. [GraphProofs!Next]_(GraphProofs!vars)
  BY SameNext
<1>2. ASSUME NEW i \in Ids
      PROVE  GraphProofs!RowStep(i)
  BY <1>1, AssumptionsHold, GraphProofs!StepsAreRowSteps
     DEF GraphProofs!StepsAreRowSteps, GraphProofs!IInv
<1>3. GraphProofs!EdgeStep
  BY <1>1, AssumptionsHold, GraphProofs!StepsAreEdgeSteps
     DEF GraphProofs!StepsAreEdgeSteps, GraphProofs!IInv
<1>4. ASSUME NEW i \in Ids, Durable(i)
      PROVE  mem'[i] # NoRow /\ mem'[i].kind = mem[i].kind
  <2>1. ~GraphProofs!IsScratch(mem[i])
    BY <1>4 DEF Durable, GraphProofs!IsScratch, GraphProofs!IInv,
                GraphProofs!ScratchNeverActive, GraphProofs!Stored
  <2>2. QED
    BY <1>2, <1>4, <2>1 DEF GraphProofs!RowStep, Durable
<1>5. \A i \in Ids : Durable(i) => Durable(i)'
  BY <1>4 DEF Durable
<1>6. \A i \in Ids : IsTask(i) => IsTask(i)'
  BY <1>4 DEF Durable, IsTask
<1>7. \A i \in Ids : Durable(i) /\ Settled(i) => Settled(i)'
  BY <1>2, <1>4 DEF Durable, Settled, GraphProofs!RowStep
<1>8. ASSUME NEW s \in Ids, NEW t \in Ids, Durable(s), Durable(t), References(s, t)
      PROVE  References(s, t)'
  <2>1. s \notin GraphProofs!Lost /\ t \notin GraphProofs!Lost
    BY <1>4, <1>8 DEF GraphProofs!Lost
  <2>2. QED
    BY <1>3, <1>8, <2>1 DEF GraphProofs!EdgeStep, References
<1>9. QED
  BY <1>5, <1>6, <1>7, <1>8

\* So a verdict that was carried out stays carried out.
LEMMA CarriedOutStays ==
  ASSUME GraphProofs!IInv, [Graph!Next]_(Graph!vars),
         NEW a \in Ids, NEW b \in Ids, NEW v,
         Durable(a), Durable(b), CarriedOut(v, a, b)
  PROVE  CarriedOut(v, a, b)'
<1>1. Resolved(a, b) => Resolved(a, b)'
  BY DurableStays DEF Resolved, Settled
<1>2. Resolved(b, a) => Resolved(b, a)'
  BY DurableStays DEF Resolved, Settled
<1>3. Asked(a, b) => Asked(a, b)'
  <2>1. ASSUME NEW t \in Ids, IsTask(t), References(t, a), References(t, b)
        PROVE  IsTask(t)' /\ References(t, a)' /\ References(t, b)'
    <3>1. Durable(t)
      BY <2>1 DEF IsTask, Durable
    <3>2. QED
      BY <2>1, <3>1, DurableStays
  <2>2. QED
    BY <2>1 DEF Asked, IsTask
<1>4. (References(a, b) => References(a, b)') /\ (References(b, a) => References(b, a)')
  BY DurableStays
<1>5. QED
  BY <1>1, <1>2, <1>3, <1>4 DEF CarriedOut

-----------------------------------------------------------------------------
(***************************************************************************)
(* What a judgement has done by each of its steps                          *)
(***************************************************************************)

\* The two ends of the link are the two members of the pair.
Joins(j) == (j.from = j.a /\ j.to = j.b) \/ (j.from = j.b /\ j.to = j.a)

Sound(j) ==
  /\ Durable(j.a) /\ Durable(j.b)
  /\ j.at \in {"resolve", "update"} => j.verdict = "duplicate" /\ Joins(j)
  /\ j.at = "link" => /\ Joins(j)
                      /\ j.verdict = "related" \/ (j.verdict = "duplicate" /\ Settled(j.from))
  /\ j.at \in {"task", "first", "second"} => j.verdict \in {"duplicate", "conflict"}
  /\ j.at \in {"first", "second"} => IsTask(j.from)
  /\ j.at = "second" => References(j.from, j.a)
  /\ j.at = "mark" => CarriedOut(j.verdict, j.a, j.b)

JobsSound == \A w \in Workers : job[w] # Idle /\ job[w].at \in JudgeSteps => Sound(job[w])

\* The members of a judged pair stay, and so does what the verdict promised.
ReviewsSound ==
  \A a, b \in Ids : {a, b} \in reviewed =>
    Durable(a) /\ Durable(b) /\ CarriedOut(verdict[{a, b}], a, b)

\* What a verdict sets out to do is sound when nothing of it is done.
LEMMA PlanSound ==
  ASSUME NEW v \in Verdicts, NEW a \in Ids, NEW b \in Ids, NEW keep \in {a, b},
         Durable(a), Durable(b)
  PROVE  Sound(Plan(v, a, b, keep))
BY DEF Plan, Verdicts, Sound, Joins, CarriedOut

\* What a judgement has done by a step is not undone while it waits for the next.
LEMMA SoundStays ==
  ASSUME GraphProofs!IInv, [Graph!Next]_(Graph!vars), NEW j \in Judgements, Sound(j)
  PROVE  Sound(j)'
<1>1. /\ j.a \in Ids /\ j.b \in Ids /\ j.from \in Ids /\ j.to \in Ids
      /\ j.at \in JudgeSteps
  BY DEF Judgements, JudgeSteps
<1>2. Durable(j.a) /\ Durable(j.b)
  BY DEF Sound
<1>3. Durable(j.a)' /\ Durable(j.b)'
  BY <1>1, <1>2, DurableStays
<1>4. CASE j.at \in {"resolve", "update", "task"}
  BY <1>3, <1>4 DEF Sound, Joins
<1>5. CASE j.at = "link"
  <2>1. Joins(j) /\ Durable(j.from)
    BY <1>2, <1>5 DEF Sound, Joins
  <2>2. Settled(j.from) => Settled(j.from)'
    BY <1>1, <2>1, DurableStays
  <2>3. QED
    BY <1>3, <1>5, <2>2 DEF Sound
<1>6. CASE j.at \in {"first", "second"}
  <2>1. IsTask(j.from) /\ Durable(j.from)
    BY <1>6 DEF Sound, IsTask, Durable
  <2>2. IsTask(j.from)'
    BY <1>1, <2>1, DurableStays
  <2>3. References(j.from, j.a) => References(j.from, j.a)'
    BY <1>1, <1>2, <2>1, DurableStays
  <2>4. QED
    BY <1>3, <1>6, <2>2, <2>3 DEF Sound
<1>7. CASE j.at = "mark"
  <2>1. CarriedOut(j.verdict, j.a, j.b)'
    BY <1>1, <1>2, <1>7, CarriedOutStays DEF Sound
  <2>2. QED
    BY <1>3, <1>7, <2>1 DEF Sound
<1>8. QED
  BY <1>1, <1>4, <1>5, <1>6, <1>7 DEF JudgeSteps

\* The same for an answer that is given by name, in the next state.
LEMMA SoundNamed ==
  ASSUME NEW w \in Workers, NEW j \in Judgements, job'[w] = j, Sound(j)'
  PROVE  Sound(job[w])'
BY DEF Sound, Joins, Durable, Settled, IsTask, References, CarriedOut, Asked, Resolved

\* Only its own steps move the answer of a worker.
LEMMA OwnSteps ==
  ASSUME TypeOK, [Next]_vars, NEW w \in Workers, job'[w] # job[w]
  PROVE  Judge(w) \/ Verify(w) \/ GiveUp(w)
<1>1. ASSUME NEW u \in Workers, NEW j, job' = [job EXCEPT ![u] = j]
      PROVE  u = w
  BY <1>1 DEF TypeOK
<1>2. ASSUME NEW u \in Workers, Judge(u)
      PROVE  u = w
  BY <1>1, <1>2 DEF Judge, JudgePair, SealNote, SealRefused, ResolveDuplicate, Unseal, LinkPair, RecordTask, LinkFirst,
                    LinkSecond, MarkPair, Step, Finished, TypeOK
<1>3. ASSUME NEW u \in Workers, Verify(u)
      PROVE  u = w
  BY <1>1, <1>3 DEF Verify, AnswerVerify, ConfirmDirect, ConfirmNote, ConfirmRefused,
                    Restamp, Supersede, Step, Finished, TypeOK
<1>4. ASSUME NEW u \in Workers, GiveUp(u)
      PROVE  u = w
  BY <1>1, <1>4 DEF GiveUp, Finished
<1>5. /\ ~ (\E u \in Workers, id \in Ids : Expand(u, id))
      /\ ~ Others /\ ~ AgentRecords /\ vars' # vars
      /\ \A id \in Ids : ~ AgentResolves(id)
      /\ \A id \in Ids, file \in Files : ~ MoveNote(id, file)
  BY DEF Expand, Others, AgentRecords, AgentResolves, MoveNote, vars
<1>6. QED
  BY <1>2, <1>3, <1>4, <1>5, BoundsAssumption DEF Next

VInv == IInv /\ GraphProofs!IInv /\ JobsSound /\ ReviewsSound

\* Every step of a judgement does what the next one relies on.
LEMMA JudgeIsSound ==
  ASSUME VInv, [Next]_vars, NEW w \in Workers, Judge(w),
         job'[w] # Idle
  PROVE  Sound(job[w])'
<1>1. [Graph!Next]_(Graph!vars)
  BY StepsAreGraphSteps DEF VInv
<1>2. TypeOK /\ GraphProofs!IInv
  BY DEF VInv, IInv
<1>3. ASSUME NEW a \in Ids, NEW b \in Ids, NEW keep \in Ids, NEW v \in Verdicts,
             JudgePair(w, a, b, v, keep)
      PROVE  Sound(job[w])'
  <2>1. /\ keep \in {a, b} /\ a < b
        /\ Durable(a) /\ Durable(b)
        /\ job'[w] = Plan(v, a, b, keep)
    BY <1>2, <1>3 DEF JudgePair, Candidate, Graph!Consolidatable, Graph!Stored, Durable, TypeOK
  <2>2. Plan(v, a, b, keep) \in Judgements
    BY <2>1, PlanType
  <2>3. Sound(Plan(v, a, b, keep))
    BY <2>1, PlanSound
  <2>4. PICK j \in Judgements : j = Plan(v, a, b, keep)
    BY <2>2
  <2>5. Sound(j)'
    BY <1>1, <1>2, <2>3, <2>4, SoundStays
  <2>6. QED
    BY <2>1, <2>4, <2>5, SoundNamed
<1>4. ASSUME NEW j \in Judgements, j = job[w], Sound(j),
             \/ SealNote(w) \/ ResolveDuplicate(w)
             \/ LinkPair(w) \/ LinkFirst(w) \/ LinkSecond(w)
             \/ \E id \in FreshTasks : RecordTask(w, id)
      PROVE  Sound(job[w])'
  <2>1. /\ j.a \in Ids /\ j.b \in Ids /\ j.from \in Ids /\ j.to \in Ids
    BY DEF Judgements
  <2>2. Durable(j.a)' /\ Durable(j.b)'
    BY <1>1, <1>2, <1>4, <2>1, DurableStays DEF Sound
  <2>3. mem \in [Ids -> Graph!Row \cup {NoRow}]
    BY <1>2 DEF TypeOK, Graph!TypeOK
  <2>4. CASE ResolveDuplicate(w)
    <3>1. PICK k \in Judgements : k = [j EXCEPT !.at = "link"]
      BY JobUpdates DEF JudgeSteps
    <3>2. job'[w] = k /\ j.at \in {"resolve", "update"} /\ Graph!ResolveMemory(j.from)
      BY <1>2, <1>4, <2>4, <3>1 DEF ResolveDuplicate, Busy, Step, TypeOK
    <3>3. Settled(j.from)'
      BY <2>1, <2>2, <2>3, <3>2, <1>4
         DEF Graph!ResolveMemory, Graph!Row, Settled, Sound, Joins, Durable
    <3>4. /\ k.at = "link" /\ k.verdict = j.verdict
          /\ k.a = j.a /\ k.b = j.b /\ k.from = j.from /\ k.to = j.to
      BY <3>1 DEF Judgements
    <3>5. Sound(k)'
      BY <1>4, <2>2, <3>2, <3>3, <3>4 DEF Sound, Joins
    <3>6. QED
      BY <3>2, <3>5, SoundNamed
  <2>41. CASE SealNote(w)
    <3>1. PICK k \in Judgements : k = [j EXCEPT !.at = "update"]
      BY JobUpdates DEF JudgeSteps
    <3>2. job'[w] = k /\ j.at = "resolve"
      BY <1>2, <1>4, <2>41, <3>1 DEF SealNote, Busy, Step, TypeOK
    <3>3. /\ k.at = "update" /\ k.verdict = j.verdict
          /\ k.a = j.a /\ k.b = j.b /\ k.from = j.from /\ k.to = j.to
      BY <3>1 DEF Judgements
    <3>4. Sound(k)'
      BY <1>4, <2>2, <3>2, <3>3 DEF Sound, Joins
    <3>5. QED
      BY <3>2, <3>4, SoundNamed
  <2>5. CASE LinkPair(w)
    <3>1. PICK k \in Judgements : k = [j EXCEPT !.at = "mark"]
      BY JobUpdates DEF JudgeSteps
    <3>2. job'[w] = k /\ j.at = "link" /\ Graph!LinkEntities(j.from, j.to, "references")
      BY <1>2, <1>4, <2>5, <3>1 DEF LinkPair, Busy, Step, TypeOK
    <3>3. /\ k.at = "mark" /\ k.verdict = j.verdict
          /\ k.a = j.a /\ k.b = j.b /\ k.from = j.from /\ k.to = j.to
      BY <3>1 DEF Judgements
    <3>4. References(j.from, j.to)' /\ mem' = mem
      BY <3>2 DEF Graph!LinkEntities, References
    <3>5. CarriedOut(k.verdict, k.a, k.b)'
      BY <1>4, <3>2, <3>3, <3>4 DEF CarriedOut, Sound, Joins, Settled, Resolved
    <3>6. Sound(k)'
      BY <2>2, <3>3, <3>5 DEF Sound
    <3>7. QED
      BY <3>2, <3>6, SoundNamed
  <2>6. ASSUME NEW id \in Ids, RecordTask(w, id)
        PROVE  Sound(job[w])'
    <3>1. PICK k \in Judgements : k = [j EXCEPT !.at = "first", !.from = id]
      BY JobUpdates DEF JudgeSteps
    <3>2. /\ job'[w] = k /\ j.at = "task"
          /\ Graph!RecordMemory(id, "task", NoSession, NoId, "none")
      BY <1>2, <1>4, <2>6, <3>1 DEF RecordTask, Busy, TypeOK
    <3>3. /\ k.at = "first" /\ k.verdict = j.verdict
          /\ k.a = j.a /\ k.b = j.b /\ k.from = id
      BY <3>1 DEF Judgements
    <3>4. IsTask(id)'
      <4>1. mem'[id] = Graph!NewRow("task", Graph!StatusAtBirth("task"), NoSession, "none")
        BY <3>2 DEF Graph!RecordMemory
      <4>2. mem'[id] \in Graph!Row
        BY <4>1 DEF Graph!NewRow, Graph!StatusAtBirth, Graph!Row, Graph!AllKinds, Graph!AllStatuses
      <4>3. NoRow \notin Graph!Row
        BY GraphAssumption
      <4>4. mem'[id] # NoRow
        BY <4>2, <4>3
      <4>5. mem'[id].kind = "task"
        BY <4>1 DEF Graph!NewRow
      <4>6. QED
        BY <4>4, <4>5 DEF IsTask
    <3>5. Sound(k)'
      BY <1>4, <2>2, <3>2, <3>3, <3>4 DEF Sound
    <3>6. QED
      BY <3>2, <3>5, SoundNamed
  <2>7. CASE LinkFirst(w)
    <3>1. PICK k \in Judgements : k = [j EXCEPT !.at = "second"]
      BY JobUpdates DEF JudgeSteps
    <3>2. job'[w] = k /\ j.at = "first" /\ Graph!LinkEntities(j.from, j.a, "references")
      BY <1>2, <1>4, <2>7, <3>1 DEF LinkFirst, Busy, Step, TypeOK
    <3>3. /\ k.at = "second" /\ k.verdict = j.verdict
          /\ k.a = j.a /\ k.b = j.b /\ k.from = j.from
      BY <3>1 DEF Judgements
    <3>4. References(j.from, j.a)' /\ IsTask(j.from)'
      BY <1>4, <3>2 DEF Graph!LinkEntities, References, IsTask, Sound
    <3>5. Sound(k)'
      BY <1>4, <2>2, <3>2, <3>3, <3>4 DEF Sound
    <3>6. QED
      BY <3>2, <3>5, SoundNamed
  <2>8. CASE LinkSecond(w)
    <3>1. PICK k \in Judgements : k = [j EXCEPT !.at = "mark"]
      BY JobUpdates DEF JudgeSteps
    <3>2. job'[w] = k /\ j.at = "second" /\ Graph!LinkEntities(j.from, j.b, "references")
      BY <1>2, <1>4, <2>8, <3>1 DEF LinkSecond, Busy, Step, TypeOK
    <3>3. /\ k.at = "mark" /\ k.verdict = j.verdict
          /\ k.a = j.a /\ k.b = j.b
      BY <3>1 DEF Judgements
    <3>4. IsTask(j.from)' /\ References(j.from, j.a)' /\ References(j.from, j.b)'
      BY <1>4, <3>2 DEF Graph!LinkEntities, References, IsTask, Sound
    <3>5. Asked(j.a, j.b)'
      BY <2>1, <3>4 DEF Asked, IsTask
    <3>6. CarriedOut(k.verdict, k.a, k.b)'
      BY <1>4, <3>2, <3>3, <3>5 DEF CarriedOut, Sound
    <3>7. Sound(k)'
      BY <2>2, <3>3, <3>6 DEF Sound
    <3>8. QED
      BY <3>2, <3>7, SoundNamed
  <2>9. QED
    BY <1>4, <2>4, <2>41, <2>5, <2>6, <2>7, <2>8 DEF FreshTasks, Fresh
<1>5. ASSUME \/ SealNote(w) \/ ResolveDuplicate(w)
             \/ LinkPair(w) \/ LinkFirst(w) \/ LinkSecond(w)
             \/ \E id \in FreshTasks : RecordTask(w, id)
      PROVE  Sound(job[w])'
  <2>1. job[w] # Idle /\ job[w].at \in JudgeSteps
    BY <1>5 DEF SealNote, ResolveDuplicate, LinkPair, LinkFirst, LinkSecond, RecordTask, Busy,
                JudgeSteps
  <2>2. PICK j \in Judgements : j = job[w]
    BY <1>2, <2>1, JobKinds
  <2>3. Sound(j)
    BY <2>1, <2>2 DEF VInv, JobsSound
  <2>4. QED
    BY <1>4, <1>5, <2>2, <2>3
<1>6. ~ MarkPair(w) /\ ~ SealRefused(w) /\ ~ Unseal(w)
  BY <1>2 DEF MarkPair, SealRefused, Unseal, Finished, TypeOK
<1>7. QED
  BY <1>3, <1>5, <1>6 DEF Judge

\* Whatever runs, every judgement has done by each of its steps what it should.
LEMMA JobsSoundStep ==
  ASSUME VInv, [Next]_vars
  PROVE  JobsSound'
<1> SUFFICES ASSUME NEW w \in Workers, job'[w] # Idle, job'[w].at \in JudgeSteps
             PROVE  Sound(job[w])'
  BY DEF JobsSound
<1>1. [Graph!Next]_(Graph!vars)
  BY StepsAreGraphSteps DEF VInv
<1>2. TypeOK /\ GraphProofs!IInv
  BY DEF VInv, IInv
<1>3. CASE job'[w] = job[w]
  <2>1. PICK j \in Judgements : j = job[w]
    BY <1>2, <1>3, JobKinds
  <2>2. Sound(j)
    BY <1>3, <2>1 DEF VInv, JobsSound
  <2>3. Sound(j)'
    BY <1>1, <1>2, <2>2, SoundStays
  <2>4. QED
    BY <1>3, <2>1, <2>3, SoundNamed
<1>4. CASE Judge(w)
  BY <1>4, JudgeIsSound
<1>5. CASE Verify(w)
  <2>1. \A id \in Ids, at \in {"confirm", "correct"} :
          AnswerVerify(w, id, at) => job'[w].at \in AnswerSteps
    BY <1>2 DEF AnswerVerify, AnswerSteps, TypeOK
  <2>2. ASSUME ConfirmDirect(w) \/ ConfirmNote(w)
        PROVE  job'[w].at \in AnswerSteps
    <3>1. job[w] \in Answers
      BY <1>2, <2>2, JobKinds DEF ConfirmDirect, ConfirmNote, Busy, AnswerSteps
    <3>2. PICK at \in {"restamp", "rerecord"} : job' = [job EXCEPT ![w].at = at]
      BY <2>2 DEF ConfirmDirect, ConfirmNote, Step
    <3>3. job'[w] = [job[w] EXCEPT !.at = at]
      BY <1>2, <3>2 DEF TypeOK
    <3>4. job'[w].at = at
      BY <3>1, <3>3 DEF Answers
    <3>5. QED
      BY <3>2, <3>4 DEF AnswerSteps
  <2>3. /\ ~ ConfirmRefused(w) /\ ~ Restamp(w)
        /\ \A new \in Fresh : ~ Supersede(w, new)
    BY <1>2 DEF ConfirmRefused, Restamp, Supersede, Finished, TypeOK
  <2>4. job'[w].at \in AnswerSteps
    BY <1>5, <2>1, <2>2, <2>3 DEF Verify
  <2>5. QED
    BY <2>4 DEF AnswerSteps, JudgeSteps
<1>6. CASE GiveUp(w)
  BY <1>2, <1>6 DEF GiveUp, Finished, TypeOK
<1>7. QED
  BY <1>2, <1>3, <1>4, <1>5, <1>6, OwnSteps

\* Only the last step of a judgement adds or changes a verdict.
LEMMA VerdictSteps ==
  ASSUME [Next]_vars
  PROVE  \/ reviewed' \subseteq reviewed /\ verdict' = verdict
         \/ \E w \in Workers : MarkPair(w)
<1>1. ASSUME Others \/ AgentRecords
             \/ (\E id \in Retired : AgentResolves(id))
             \/ (\E id \in Edited, file \in Moves : MoveNote(id, file))
      PROVE  reviewed' \subseteq reviewed /\ verdict' = verdict
  BY <1>1 DEF Others, AgentRecords, AgentResolves, MoveNote, graph, Graph!RecordMemory, Graph!LinkEntities, Graph!ResolveMemory,
     Graph!ConsolidateSession, Graph!PurgeExpiredEphemeral, Graph!DeleteRows,
     Graph!ReviewsWithout, Graph!Age, Graph!EditCitedFile
<1>2. ASSUME NEW w \in Workers, Judge(w), ~ MarkPair(w)
      PROVE  reviewed' \subseteq reviewed /\ verdict' = verdict
  BY <1>2 DEF Judge, JudgePair, SealNote, SealRefused, ResolveDuplicate, Unseal, LinkPair,
     RecordTask, LinkFirst, LinkSecond,
     graph, Graph!RecordMemory, Graph!LinkEntities, Graph!ResolveMemory
<1>3. ASSUME NEW w \in Workers, Verify(w)
      PROVE  reviewed' \subseteq reviewed /\ verdict' = verdict
  BY <1>3 DEF Verify, AnswerVerify, ConfirmDirect, ConfirmNote, ConfirmRefused, Restamp,
     Supersede, graph, Graph!ConfirmMemory, Graph!RecordMemory
<1>4. ASSUME NEW w \in Workers, NEW id \in Ids, Expand(w, id)
      PROVE  reviewed' \subseteq reviewed /\ verdict' = verdict
  BY <1>4 DEF Expand, Graph!SetKeywords
<1>5. ASSUME NEW w \in Workers, GiveUp(w)
      PROVE  reviewed' \subseteq reviewed /\ verdict' = verdict
  BY <1>5 DEF GiveUp, graph
<1>6. CASE UNCHANGED vars
  BY <1>6 DEF vars
<1>7. QED
  BY <1>1, <1>2, <1>3, <1>4, <1>5, <1>6 DEF Next

\* A verdict is written when it was carried out, and stays carried out.
LEMMA ReviewsSoundStep ==
  ASSUME VInv, [Next]_vars
  PROVE  ReviewsSound'
<1> SUFFICES ASSUME NEW a \in Ids, NEW b \in Ids, {a, b} \in reviewed',
                    NEW v, v = verdict'[{a, b}]
             PROVE  Durable(a)' /\ Durable(b)' /\ CarriedOut(v, a, b)'
  BY DEF ReviewsSound, CarriedOut, Durable, Resolved, Asked, References
<1>1. [Graph!Next]_(Graph!vars)
  BY StepsAreGraphSteps DEF VInv
<1>2. TypeOK /\ GraphProofs!IInv
  BY DEF VInv, IInv
<1>3. ASSUME Durable(a), Durable(b), CarriedOut(v, a, b)
      PROVE  Durable(a)' /\ Durable(b)' /\ CarriedOut(v, a, b)'
  BY <1>1, <1>2, <1>3, DurableStays, CarriedOutStays
<1>4. ASSUME {a, b} \in reviewed, verdict'[{a, b}] = verdict[{a, b}]
      PROVE  Durable(a)' /\ Durable(b)' /\ CarriedOut(v, a, b)'
  <2>1. Durable(a) /\ Durable(b) /\ CarriedOut(verdict[{a, b}], a, b)
    BY <1>4 DEF VInv, ReviewsSound
  <2>2. CarriedOut(v, a, b)
    BY <1>4, <2>1
  <2>3. QED
    BY <1>3, <2>1, <2>2
<1>5. CASE reviewed' \subseteq reviewed /\ verdict' = verdict
  BY <1>4, <1>5
<1>6. ASSUME NEW w \in Workers, MarkPair(w)
      PROVE  Durable(a)' /\ Durable(b)' /\ CarriedOut(v, a, b)'
  <2>1. PICK j \in Judgements : j = job[w] /\ job[w] # Idle /\ job[w].at = "mark"
    BY <1>2, <1>6, JobKinds DEF MarkPair, Busy, JudgeSteps
  <2>2. Durable(j.a) /\ Durable(j.b) /\ CarriedOut(j.verdict, j.a, j.b)
    BY <2>1 DEF VInv, JobsSound, Sound, JudgeSteps
  <2>3. /\ reviewed' = reviewed \cup {{j.a, j.b}}
        /\ verdict' = [verdict EXCEPT ![{j.a, j.b}] = j.verdict]
    BY <1>6, <2>1 DEF MarkPair, Graph!MarkPairReviewed
  <2>4. verdict \in [Graph!Pairs -> Verdicts \cup {NoVerdict}] /\ reviewed \subseteq Graph!Pairs
    BY <1>2 DEF TypeOK, Graph!TypeOK
  <2>5. j.a \in Ids /\ j.b \in Ids /\ j.a < j.b
    BY DEF Judgements
  <2>6. {j.a, j.b} \in Graph!Pairs
    <3>1. j.a \in Nat /\ j.b \in Nat
      BY <2>5, IdsAssumption
    <3>2. QED
      BY <2>5, <3>1, PairOfTwo
  <2>7. CASE {a, b} = {j.a, j.b}
    <3>1. v = j.verdict
      BY <2>3, <2>4, <2>6, <2>7
    <3>2. (a = j.a /\ b = j.b) \/ (a = j.b /\ b = j.a)
      BY <2>7
    <3>3. Durable(a) /\ Durable(b)
      BY <2>2, <3>2
    <3>4. CarriedOut(v, a, b)
      BY <2>2, <3>1, <3>2 DEF CarriedOut, Asked
    <3>5. QED
      BY <1>3, <3>3, <3>4
  <2>8. CASE {a, b} # {j.a, j.b}
    <3>1. {a, b} \in reviewed
      BY <2>3, <2>8
    <3>2. verdict'[{a, b}] = verdict[{a, b}]
      BY <2>3, <2>4, <2>8, <3>1
    <3>3. QED
      BY <1>4, <3>1, <3>2
  <2>9. QED
    BY <2>7, <2>8
<1>7. QED
  BY <1>5, <1>6, VerdictSteps

-----------------------------------------------------------------------------
(***************************************************************************)
(* Theorems                                                                *)
(***************************************************************************)

\* The initial tables and idle workers satisfy the invariant, ...
LEMMA InitInvariant ==
  ASSUME Init
  PROVE  IInv
<1>1. Graph!TypeOK /\ KindsKnown
  BY DEF Init, Graph!Init, Graph!TypeOK, KindsKnown
<1>2. QueueType
  BY DEF Init, QueueType, Files
<1>3. QED
  BY <1>1, <1>2 DEF IInv, TypeOK, QueueType

\* ... and every step keeps it.
LEMMA InvariantStep ==
  ASSUME IInv, [Next]_vars
  PROVE  IInv'
<1>1. Graph!TypeOK' /\ KindsKnown'
  BY StepsAreGraphSteps, GraphTypeStep DEF IInv, TypeOK
<1>2. QueueType'
  BY QueueTypeStep DEF IInv
<1>3. QED
  BY <1>1, <1>2 DEF IInv, TypeOK, QueueType

\* The invariant is inductive.
THEOREM Invariance == Spec => []IInv
BY InitInvariant, InvariantStep, PTL DEF Spec

\* Tables, verdicts and half-applied answers always have the shape the code gives
\* them, with any number of workers dying anywhere.
THEOREM TypeCorrect == Spec => []TypeOK
<1>1. IInv => TypeOK
  BY DEF IInv
<1>2. QED
  BY <1>1, Invariance, PTL

\* Whatever workers answer, late, twice or at once, and wherever they stop, the
\* memory graph changes by its own operations only: submit implements MemoryGraph.
THEOREM GraphRefinement == Spec => ImplementsGraph
<1>1. Init => Graph!Init
  BY DEF Init
<1>2. IInv /\ [Next]_vars => [Graph!Next]_(Graph!vars)
  BY StepsAreGraphSteps
<1>3. QED
  BY <1>1, <1>2, Invariance, PTL DEF Spec, ImplementsGraph, Graph!Spec

\* The invariant with what half-applied answers rely on is inductive, too.
THEOREM StrongInvariance == Spec => []VInv
<1>1. Init => VInv
  <2> SUFFICES ASSUME Init
               PROVE  VInv
    OBVIOUS
  <2>1. IInv
    BY InitInvariant
  <2>2. GraphProofs!IInv
    BY <2>1, SameType DEF Init, Graph!Init, IInv, TypeOK, GraphProofs!IInv,
       GraphProofs!NoDanglingReferences, GraphProofs!ScratchNeverActive,
       GraphProofs!SupersededIsExplained, GraphProofs!Stored
  <2>3. JobsSound /\ ReviewsSound
    BY DEF Init, Graph!Init, JobsSound, ReviewsSound
  <2>4. QED
    BY <2>1, <2>2, <2>3 DEF VInv
<1>2. VInv /\ [Next]_vars => VInv'
  <2> SUFFICES ASSUME VInv, [Next]_vars
               PROVE  VInv'
    OBVIOUS
  <2>1. IInv'
    BY InvariantStep DEF VInv
  <2>2. GraphProofs!IInv'
    BY StepsAreGraphSteps, GraphInvariantStep DEF VInv
  <2>3. JobsSound' /\ ReviewsSound'
    BY JobsSoundStep, ReviewsSoundStep
  <2>4. QED
    BY <2>1, <2>2, <2>3 DEF VInv
<1>3. QED
  BY <1>1, <1>2, PTL DEF Spec

\* Wherever workers die and however many submit at once, a verdict in reviewed_pairs
\* was carried out: the links, the resolution or the task it promises are there.
THEOREM VerdictsHold == Spec => []VerdictsAreCarriedOut
<1>1. VInv => VerdictsAreCarriedOut
  BY DEF VInv, ReviewsSound, VerdictsAreCarriedOut
<1>2. QED
  BY <1>1, StrongInvariance, PTL

-----------------------------------------------------------------------------
(***************************************************************************)
(* Resolutions that persist                                                *)
(*                                                                         *)
(* What a worker checked about a file may have changed by the time it      *)
(* resolves the memory: what is left of the check is that the file is      *)
(* still there, or that people moved it; and after the mark, that the mark *)
(* is there, which no other worker takes away unless people had moved one  *)
(* of the two marks.                                                       *)
(***************************************************************************)

At(w, at) == job[w] # Idle /\ job[w].at = at

ChecksBacked ==
  \A w \in Workers : At(w, "resolve") =>
    \/ Origin[job[w].from] = "direct"
    \/ Origin[job[w].from] = "note" /\ (notes[job[w].from] # "absent" \/ w \in moved)

MarksBacked ==
  \A w \in Workers : At(w, "update") =>
    Origin[job[w].from] = "note" /\ (notes[job[w].from] = "resolved" \/ w \in moved)

MarksApart ==
  \A v, w \in Workers : v # w /\ At(v, "update") /\ At(w, "update") /\ job[v].from = job[w].from
    => v \in moved \/ w \in moved

Backed == ChecksBacked /\ MarksBacked /\ MarksApart

\* The steps that touch a note's file, or end the watch over it.
LEMMA FileSteps ==
  ASSUME [Next]_vars
  PROVE  \/ UNCHANGED files
         \/ \E w \in Workers : \/ SealNote(w) \/ SealRefused(w) \/ ResolveDuplicate(w)
                               \/ Unseal(w) \/ GiveUp(w)
                               \/ \E new \in Fresh : Supersede(w, new)
         \/ AgentRecords
         \/ \E id \in Ids : AgentResolves(id)
         \/ \E id \in Ids, file \in Files : MoveNote(id, file)
<1>1. ASSUME NEW w \in Workers, Judge(w)
      PROVE  \/ UNCHANGED files
             \/ SealNote(w) \/ SealRefused(w) \/ ResolveDuplicate(w) \/ Unseal(w)
  BY <1>1 DEF Judge, JudgePair, LinkPair, RecordTask, LinkFirst, LinkSecond, MarkPair
<1>2. ASSUME NEW w \in Workers, Verify(w)
      PROVE  UNCHANGED files \/ \E new \in Fresh : Supersede(w, new)
  BY <1>2 DEF Verify, AnswerVerify, ConfirmDirect, ConfirmNote, ConfirmRefused, Restamp
<1>3. ASSUME NEW w \in Workers, NEW id \in Ids, Expand(w, id)
      PROVE  UNCHANGED files
  BY <1>3 DEF Expand
<1>4. CASE Others \/ UNCHANGED vars
  BY <1>4 DEF Others, vars, files
<1>5. QED
  BY <1>1, <1>2, <1>3, <1>4, BoundsAssumption DEF Next

\* Only the resolution of a duplicate and a new version are logged.
LEMMA LogSteps ==
  ASSUME [Next]_vars, log' # log
  PROVE  \E w \in Workers : ResolveDuplicate(w) \/ \E new \in Fresh : Supersede(w, new)
BY DEF Next, Others, AgentRecords, AgentResolves, MoveNote, Expand, GiveUp, vars,
   Judge, JudgePair, SealNote, SealRefused, Unseal, LinkPair, RecordTask, LinkFirst, LinkSecond, MarkPair,
   Verify, AnswerVerify, ConfirmDirect, ConfirmNote, ConfirmRefused, Restamp

\* The memory that a worker is about to resolve is stored.
LEMMA ResolvedIsStored ==
  ASSUME VInv, NEW w \in Workers, At(w, "resolve") \/ At(w, "update")
  PROVE  job[w].from \in Ids /\ mem[job[w].from] # NoRow /\ job[w] \in Judgements
<1>1. job[w] \in Judgements
  BY JobKinds DEF VInv, IInv, At, JudgeSteps
<1>2. Sound(job[w])
  BY DEF VInv, JobsSound, At, JudgeSteps
<1>3. QED
  BY <1>1, <1>2 DEF Judgements, Sound, Joins, Durable, At

\* While a worker waits between check, mark and row, whatever runs leaves the file
\* there, and the mark, or is a move by people.
LEMMA WatchStays ==
  ASSUME VInv, Backed, [Next]_vars, NEW v \in Workers, job'[v] = job[v],
         At(v, "resolve") \/ At(v, "update"), NEW i \in Ids, i = job[v].from
  PROVE  /\ v \in moved => v \in moved'
         /\ At(v, "resolve") => notes[i] = "absent" \/ notes'[i] # "absent" \/ v \in moved'
         /\ At(v, "update") => notes[i] # "resolved" \/ notes'[i] = "resolved" \/ v \in moved'
<1>1. /\ job \in [Workers -> {Idle} \cup Judgements \cup Answers]
      /\ notes \in [Ids -> Files] /\ moved \subseteq Workers
  BY DEF VInv, IInv, TypeOK
<1>2. mem[i] # NoRow
  BY ResolvedIsStored
<1>3. CASE UNCHANGED files
  BY <1>3 DEF files
<1>4. ASSUME NEW w \in Workers, SealNote(w)
      PROVE  notes'[i] = notes[i] \/ (notes'[i] = "resolved" /\ notes[i] = "open")
  BY <1>1, <1>4 DEF SealNote
<1>5. ASSUME NEW w \in Workers, SealRefused(w) \/ ResolveDuplicate(w) \/ GiveUp(w)
      PROVE  notes' = notes /\ moved' = moved \ {w} /\ w # v
  <2>1. notes' = notes /\ moved' = moved \ {w}
    BY <1>5 DEF SealRefused, ResolveDuplicate, GiveUp
  <2>2. CASE SealRefused(w) \/ GiveUp(w)
    BY <1>1, <2>1, <2>2 DEF SealRefused, GiveUp, Finished, At
  <2>3. CASE ResolveDuplicate(w)
    <3>1. w = v => job'[v].at = "link"
      <4>1. job[v] \in Judgements
        BY ResolvedIsStored
      <4>2. w = v => job'[v] = [job[v] EXCEPT !.at = "link"]
        BY <1>1, <2>3 DEF ResolveDuplicate, Step
      <4>3. QED
        BY <4>1, <4>2 DEF Judgements
    <3>2. QED
      BY <2>1, <3>1 DEF At
  <2>4. QED
    BY <1>5, <2>2, <2>3
<1>6. ASSUME NEW w \in Workers, Unseal(w)
      PROVE  /\ v \in moved => v \in moved'
             /\ At(v, "resolve") => notes[i] = "absent" \/ notes'[i] # "absent" \/ v \in moved'
             /\ At(v, "update") => notes[i] # "resolved" \/ notes'[i] = "resolved" \/ v \in moved'
  <2>1. w # v
    BY <1>1, <1>6 DEF Unseal, Finished, At
  <2>2. At(w, "update") /\ job[w].from \in Ids
    BY <1>6, ResolvedIsStored DEF Unseal, Busy, At
  <2>3. v \in moved => v \in moved'
    BY <1>6, <2>1 DEF Unseal
  <2>4. CASE job[w].from # i
    BY <1>1, <1>6, <2>3, <2>4 DEF Unseal
  <2>5. CASE job[w].from = i
    <3>1. notes'[i] = IF notes[i] = "resolved" THEN "open" ELSE notes[i]
      BY <1>1, <1>6, <2>5 DEF Unseal
    <3>2. At(v, "update") => v \in moved'
      <4>1. SUFFICES ASSUME At(v, "update")
                     PROVE  v \in moved'
        OBVIOUS
      <4>2. CASE w \in moved
        <5>1. v \in Resolving(i)
          BY <4>1 DEF Resolving, At
        <5>2. moved' = (moved \cup Resolving(i)) \ {w}
          BY <1>6, <2>5, <4>2 DEF Unseal
        <5>3. QED
          BY <2>1, <5>1, <5>2
      <4>3. CASE w \notin moved
        BY <2>1, <2>2, <2>3, <2>5, <4>1, <4>3 DEF Backed, MarksApart
      <4>4. QED
        BY <4>2, <4>3
    <3>3. QED
      BY <2>3, <3>1, <3>2
  <2>6. QED
    BY <2>4, <2>5
<1>7. ASSUME NEW new \in Ids, mem[new] = NoRow, NoteWritten(new)
      PROVE  notes'[i] = notes[i] /\ moved' = moved
  BY <1>1, <1>2, <1>7 DEF NoteWritten
<1>8. ASSUME NEW w \in Workers, NEW new \in Fresh, Supersede(w, new)
      PROVE  notes'[i] = notes[i] /\ moved' = moved
  BY <1>7, <1>8 DEF Supersede, Fresh
<1>9. ASSUME AgentRecords
      PROVE  notes'[i] = notes[i] /\ moved' = moved
  BY <1>7, <1>9 DEF AgentRecords, Graph!RecordMemory, Graph!IdIsFree
<1>10. ASSUME NEW id \in Ids, AgentResolves(id)
       PROVE  /\ moved' = moved
              /\ notes'[i] = notes[i] \/ (notes'[i] = "resolved" /\ notes[i] = "open")
  BY <1>1, <1>10 DEF AgentResolves
<1>11. ASSUME NEW id \in Ids, NEW file \in Files, MoveNote(id, file)
       PROVE  /\ v \in moved => v \in moved'
              /\ notes'[i] = notes[i] \/ v \in moved'
  <2>1. CASE id # i
    BY <1>1, <1>11, <2>1 DEF MoveNote
  <2>2. CASE id = i
    BY <1>11, <2>2 DEF MoveNote, Resolving, At
  <2>3. QED
    BY <2>1, <2>2
<1>12. CASE \E w \in Workers : SealNote(w)
  <2>1. moved' = moved
    BY <1>12 DEF SealNote
  <2>2. QED
    BY <1>4, <1>12, <2>1
<1>13. CASE \E w \in Workers : SealRefused(w) \/ ResolveDuplicate(w) \/ GiveUp(w)
  BY <1>5, <1>13
<1>14. QED
  BY <1>3, <1>6, <1>8, <1>9, <1>10, <1>11, <1>12, <1>13, FileSteps

\* A worker begins to resolve what its check found to persist, and marks a note that
\* is there and has no mark.
LEMMA WatchBegins ==
  ASSUME VInv, Backed, [Next]_vars, NEW v \in Workers, job'[v] # job[v]
  PROVE  /\ At(v, "resolve")' => /\ job'[v].from \in Ids
                                 /\ UNCHANGED files
                                 /\ Persists(job'[v].from)
         /\ At(v, "update")' => SealNote(v) /\ At(v, "resolve") /\ job'[v].from = job[v].from
<1>1. TypeOK
  BY DEF VInv, IInv
<1>2. ASSUME NEW a \in Ids, NEW b \in Ids, NEW keep \in Ids, NEW vd \in Verdicts,
             JudgePair(v, a, b, vd, keep)
      PROVE  /\ ~ At(v, "update")'
             /\ At(v, "resolve")' => /\ job'[v].from \in Ids
                                     /\ UNCHANGED files
                                     /\ Persists(job'[v].from)
  <2>1. keep \in {a, b} /\ a < b /\ UNCHANGED files
    BY <1>2 DEF JudgePair
  <2>2. job'[v] = Plan(vd, a, b, keep)
    BY <1>1, <1>2 DEF JudgePair, TypeOK
  <2>3. /\ Plan(vd, a, b, keep).at # "update"
        /\ Plan(vd, a, b, keep).from \in Ids
        /\ Plan(vd, a, b, keep).at = "resolve" => Persists(Plan(vd, a, b, keep).from)
    BY <2>1 DEF Plan, Verdicts
  <2>4. QED
    BY <2>1, <2>2, <2>3 DEF At
<1>3. ASSUME SealNote(v)
      PROVE  At(v, "resolve") /\ job'[v].at = "update" /\ job'[v].from = job[v].from
  <2>1. At(v, "resolve") /\ job[v] \in Judgements
    BY <1>3, ResolvedIsStored DEF SealNote, Busy, At
  <2>2. job'[v] = [job[v] EXCEPT !.at = "update"]
    BY <1>1, <1>3 DEF SealNote, Step, TypeOK
  <2>3. QED
    BY <2>1, <2>2 DEF Judgements
<1>4. ASSUME \/ ResolveDuplicate(v) \/ LinkPair(v) \/ LinkFirst(v) \/ LinkSecond(v)
             \/ \E id \in FreshTasks : RecordTask(v, id)
      PROVE  job'[v].at \in {"link", "mark", "first", "second"}
  <2>1. job[v] \in Judgements
    BY <1>1, <1>4, JobKinds DEF ResolveDuplicate, LinkPair, LinkFirst, LinkSecond, RecordTask,
                                Busy, JudgeSteps
  <2>2. \E at \in {"link", "mark", "first", "second"}, i \in Ids :
          \/ job'[v] = [job[v] EXCEPT !.at = at]
          \/ job'[v] = [job[v] EXCEPT !.at = at, !.from = i]
    <3>1. job[v].from \in Ids
      BY <2>1 DEF Judgements
    <3>2. CASE \E id \in FreshTasks : RecordTask(v, id)
      BY <1>1, <3>2 DEF RecordTask, FreshTasks, Fresh, TypeOK
    <3>3. CASE ResolveDuplicate(v) \/ LinkPair(v) \/ LinkFirst(v) \/ LinkSecond(v)
      BY <1>1, <3>1, <3>3 DEF ResolveDuplicate, LinkPair, LinkFirst, LinkSecond, Step, TypeOK
    <3>4. QED
      BY <1>4, <3>2, <3>3
  <2>3. QED
    BY <2>1, <2>2 DEF Judgements
<1>5. ASSUME Verify(v), At(v, "resolve")' \/ At(v, "update")'
      PROVE  FALSE
  <2>1. \A id \in Ids, at \in {"confirm", "correct"} : ~ AnswerVerify(v, id, at)
    BY <1>1, <1>5 DEF AnswerVerify, At, TypeOK
  <2>2. ASSUME ConfirmDirect(v) \/ ConfirmNote(v)
        PROVE  FALSE
    <3>1. job[v] \in Answers
      BY <1>1, <2>2, JobKinds DEF ConfirmDirect, ConfirmNote, Busy, AnswerSteps
    <3>2. PICK at \in {"restamp", "rerecord"} : job' = [job EXCEPT ![v].at = at]
      BY <2>2 DEF ConfirmDirect, ConfirmNote, Step
    <3>3. job'[v] = [job[v] EXCEPT !.at = at]
      BY <1>1, <3>2 DEF TypeOK
    <3>4. job'[v].at = at
      BY <3>1, <3>3 DEF Answers
    <3>5. QED
      BY <1>5, <3>2, <3>4 DEF At
  <2>3. /\ ~ ConfirmRefused(v) /\ ~ Restamp(v)
        /\ \A new \in Fresh : ~ Supersede(v, new)
    BY <1>1, <1>5 DEF ConfirmRefused, Restamp, Supersede, Finished, At, TypeOK
  <2>4. QED
    BY <1>5, <2>1, <2>2, <2>3 DEF Verify
<1>6. ASSUME SealRefused(v) \/ Unseal(v) \/ MarkPair(v) \/ GiveUp(v)
      PROVE  job'[v] = Idle
  BY <1>1, <1>6 DEF SealRefused, Unseal, MarkPair, GiveUp, Finished, TypeOK
<1>7. CASE Judge(v)
  BY <1>2, <1>3, <1>4, <1>6, <1>7 DEF Judge, At
<1>8. QED
  BY <1>1, <1>5, <1>6, <1>7, OwnSteps DEF At

\* So what a worker relies on is kept up, ...
LEMMA BackedStep ==
  ASSUME VInv, Backed, [Next]_vars
  PROVE  Backed'
<1>1. TypeOK
  BY DEF VInv, IInv
<1>2. ASSUME NEW w \in Workers, At(w, "resolve")'
      PROVE  \/ Origin[job'[w].from] = "direct"
             \/ Origin[job'[w].from] = "note" /\ (notes'[job'[w].from] # "absent" \/ w \in moved')
  <2>1. CASE job'[w] = job[w]
    <3>1. At(w, "resolve")
      BY <1>2, <2>1 DEF At
    <3>2. job[w].from \in Ids
      BY <3>1, ResolvedIsStored
    <3>3. QED
      BY <2>1, <3>1, <3>2, WatchStays DEF Backed, ChecksBacked
  <2>2. CASE job'[w] # job[w]
    BY <1>2, <2>2, WatchBegins DEF Persists, files
  <2>3. QED
    BY <2>1, <2>2
<1>3. ASSUME NEW w \in Workers, SealNote(w)
      PROVE  /\ Origin[job[w].from] = "note" /\ notes[job[w].from] = "open"
             /\ notes'[job[w].from] = "resolved" /\ moved' = moved
             /\ \A v \in Workers : v # w => job'[v] = job[v]
  <2>1. job[w].from \in Ids
    BY <1>3, ResolvedIsStored DEF SealNote, Busy, At
  <2>2. QED
    BY <1>1, <1>3, <2>1 DEF SealNote, Step, TypeOK
<1>4. ASSUME NEW w \in Workers, At(w, "update")'
      PROVE  Origin[job'[w].from] = "note" /\ (notes'[job'[w].from] = "resolved" \/ w \in moved')
  <2>1. CASE job'[w] = job[w]
    <3>1. At(w, "update")
      BY <1>4, <2>1 DEF At
    <3>2. job[w].from \in Ids
      BY <3>1, ResolvedIsStored
    <3>3. QED
      BY <2>1, <3>1, <3>2, WatchStays DEF Backed, MarksBacked
  <2>2. CASE job'[w] # job[w]
    BY <1>3, <1>4, <2>2, WatchBegins
  <2>3. QED
    BY <2>1, <2>2
<1>5. ASSUME NEW v \in Workers, NEW w \in Workers, v # w, job'[v] = job[v], job'[w] # job[w],
             At(v, "update")', At(w, "update")', job'[v].from = job'[w].from
      PROVE  v \in moved'
  <2>1. SealNote(w) /\ job'[w].from = job[w].from
    BY <1>5, WatchBegins
  <2>2. At(v, "update") /\ notes[job[v].from] = "open" /\ moved' = moved
    BY <1>3, <1>5, <2>1 DEF At
  <2>3. QED
    BY <2>2 DEF Backed, MarksBacked
<1>6. ASSUME NEW v \in Workers, NEW w \in Workers, v # w,
             At(v, "update")', At(w, "update")', job'[v].from = job'[w].from
      PROVE  v \in moved' \/ w \in moved'
  <2>1. CASE job'[v] = job[v] /\ job'[w] = job[w]
    <3>1. At(v, "update") /\ At(w, "update") /\ job[v].from = job[w].from
      BY <1>6, <2>1 DEF At
    <3>2. job[v].from \in Ids /\ job[w].from \in Ids
      BY <3>1, ResolvedIsStored
    <3>3. (v \in moved => v \in moved') /\ (w \in moved => w \in moved')
      BY <2>1, <3>1, <3>2, WatchStays
    <3>4. QED
      BY <1>6, <3>1, <3>3 DEF Backed, MarksApart
  <2>2. CASE job'[v] # job[v] /\ job'[w] # job[w]
    <3>1. SealNote(v) /\ SealNote(w)
      BY <1>6, <2>2, WatchBegins
    <3>2. QED
      BY <1>3, <1>6, <2>2, <3>1
  <2>3. QED
    BY <1>5, <1>6, <2>1, <2>2
<1>7. QED
  BY <1>2, <1>4, <1>6 DEF Backed, ChecksBacked, MarksBacked, MarksApart, At

\* ... and no resolution hides a memory in the database alone.
LEMMA ResolutionsStep ==
  ASSUME VInv, Backed, ResolutionsPersist, [Next]_vars
  PROVE  ResolutionsPersist'
<1>1. CASE log' = log
  BY <1>1 DEF ResolutionsPersist
<1>2. ASSUME NEW w \in Workers, ResolveDuplicate(w)
      PROVE  ResolutionsPersist'
  <2>1. ~ Unbacked(w, job[w].from)
    <3>1. CASE At(w, "update")
      BY <3>1 DEF Backed, MarksBacked, Unbacked
    <3>2. CASE At(w, "resolve") /\ (Origin[job[w].from] = "note" => notes[job[w].from] = "absent")
      BY <3>2 DEF Backed, ChecksBacked, Unbacked
    <3>3. QED
      BY <1>2, <3>1, <3>2 DEF ResolveDuplicate, Busy, At
  <2>2. log' \subseteq log \cup {<<"dropped", job[w].from, job[w].to>>}
    BY <1>2, <2>1 DEF ResolveDuplicate
  <2>3. QED
    BY <2>2 DEF ResolutionsPersist
<1>3. ASSUME NEW w \in Workers, NEW new \in Fresh, Supersede(w, new)
      PROVE  ResolutionsPersist'
  <2>1. log' = log \cup {<<"replaced", new, job[w].id>>}
    BY <1>3 DEF Supersede
  <2>2. QED
    BY <2>1 DEF ResolutionsPersist
<1>4. QED
  BY <1>1, <1>2, <1>3, LogSteps

\* With any number of workers, agents and people who resolve, mark and move notes
\* between the check of a worker, its mark and its row: no worker hides a memory that a
\* file backs in the database alone, unless people moved the file in between.
THEOREM ResolutionsHold == Spec => []ResolutionsPersist
<1>1. Init => Backed /\ ResolutionsPersist
  BY DEF Init, Backed, ChecksBacked, MarksBacked, MarksApart, At, ResolutionsPersist
<1>2. VInv /\ (Backed /\ ResolutionsPersist) /\ [Next]_vars => (Backed /\ ResolutionsPersist)'
  BY BackedStep, ResolutionsStep
<1>3. QED
  BY <1>1, <1>2, StrongInvariance, PTL DEF Spec

-----------------------------------------------------------------------------
(***************************************************************************)
(* One submitting process                                                  *)
(*                                                                         *)
(* What a worker settled stays settled, and the code asks only about what  *)
(* is active; but between the question and the answer another process may  *)
(* settle it as well.  A single process never meets its own log that way.  *)
(***************************************************************************)

Asking(w) == job[w] # Idle /\ job[w].at \in AnswerSteps

\* A memory an answer is being applied to is not scratch, so it stays.
AnswersDurable == \A w \in Workers : Asking(w) => Durable(job[w].id)

\* What was dropped or replaced is settled, for good.
DroppedIsSettled  == \A d, k \in Ids : <<"dropped", d, k>> \in log => Durable(d) /\ Settled(d)
ReplacedIsSettled == \A n, t \in Ids : <<"replaced", n, t>> \in log => Durable(t) /\ Settled(t)

LogInvariant == VInv /\ AnswersDurable /\ DroppedIsSettled /\ ReplacedIsSettled

\* An answer about a memory was begun while it was active, or is the one before.
LEMMA AskingSteps ==
  ASSUME TypeOK, [Next]_vars, NEW w \in Workers, Asking(w)'
  PROVE  \/ Asking(w) /\ job'[w].id = job[w].id
         \/ Verifiable(job'[w].id) /\ UNCHANGED <<graph, log>>
<1>1. CASE job'[w] = job[w]
  BY <1>1 DEF Asking
<1>2. ASSUME Judge(w)
      PROVE  FALSE
  <2>1. ASSUME NEW a \in Ids, NEW b \in Ids, NEW keep \in Ids, NEW v \in Verdicts,
               JudgePair(w, a, b, v, keep)
        PROVE  FALSE
    <3>1. Plan(v, a, b, keep) \in Judgements
      <4>1. keep \in {a, b} /\ a < b
        BY <2>1 DEF JudgePair
      <4>2. QED
        BY <4>1, PlanType
    <3>2. job'[w] \in Judgements
      BY <2>1, <3>1 DEF JudgePair, TypeOK
    <3>3. QED
      BY <3>2 DEF Asking, AnswerSteps, Judgements
  <2>2. ASSUME \/ SealNote(w) \/ ResolveDuplicate(w)
               \/ LinkPair(w) \/ LinkFirst(w) \/ LinkSecond(w)
               \/ \E id \in FreshTasks : RecordTask(w, id)
        PROVE  FALSE
    <3>1. job[w] # Idle /\ job[w].at \in JudgeSteps
      BY <2>2 DEF SealNote, ResolveDuplicate, LinkPair, LinkFirst, LinkSecond, RecordTask, Busy,
                  JudgeSteps
    <3>2. PICK j \in Judgements : j = job[w]
      BY <3>1, JobKinds
    <3>3. \E at \in JudgeSteps, i \in Ids :
            \/ job'[w] = [j EXCEPT !.at = at]
            \/ job'[w] = [j EXCEPT !.at = at, !.from = i]
      <4>1. j.from \in Ids
        BY DEF Judgements
      <4>2. CASE \E id \in FreshTasks : RecordTask(w, id)
        BY <3>2, <4>2 DEF RecordTask, FreshTasks, Fresh, JudgeSteps, TypeOK
      <4>3. CASE \/ SealNote(w) \/ ResolveDuplicate(w)
                 \/ LinkPair(w) \/ LinkFirst(w) \/ LinkSecond(w)
        BY <3>2, <4>1, <4>3 DEF SealNote, ResolveDuplicate, LinkPair, LinkFirst, LinkSecond, Step,
                                JudgeSteps, TypeOK
      <4>4. QED
        BY <2>2, <4>2, <4>3
    <3>4. job'[w] \in Judgements
      BY <3>3, JobUpdates
    <3>5. QED
      BY <3>4 DEF Asking, AnswerSteps, Judgements
  <2>3. ~ MarkPair(w) /\ ~ SealRefused(w) /\ ~ Unseal(w)
    BY DEF MarkPair, SealRefused, Unseal, Finished, Asking, TypeOK
  <2>4. QED
    BY <1>2, <2>1, <2>2, <2>3 DEF Judge
<1>3. ASSUME Verify(w)
      PROVE  \/ Asking(w) /\ job'[w].id = job[w].id
             \/ Verifiable(job'[w].id) /\ UNCHANGED <<graph, log>>
  <2>1. ASSUME NEW id \in Ids, NEW at \in {"confirm", "correct"}, AnswerVerify(w, id, at)
        PROVE  Verifiable(job'[w].id) /\ UNCHANGED <<graph, log>>
    <3>1. job'[w].id = id
      BY <2>1 DEF AnswerVerify, TypeOK
    <3>2. QED
      BY <2>1, <3>1 DEF AnswerVerify
  <2>2. ASSUME ConfirmDirect(w) \/ ConfirmNote(w)
        PROVE  Asking(w) /\ job'[w].id = job[w].id
    <3>1. Asking(w)
      BY <2>2 DEF ConfirmDirect, ConfirmNote, Busy, Asking, AnswerSteps
    <3>2. PICK at \in {"restamp", "rerecord"} : job' = [job EXCEPT ![w].at = at]
      BY <2>2 DEF ConfirmDirect, ConfirmNote, Step
    <3>3. job'[w] = [job[w] EXCEPT !.at = at]
      BY <3>2 DEF TypeOK
    <3>4. job[w] \in Answers
      BY <3>1, JobKinds DEF Asking
    <3>5. job'[w].id = job[w].id
      BY <3>3, <3>4 DEF Answers
    <3>6. QED
      BY <3>1, <3>5
  <2>3. /\ ~ ConfirmRefused(w) /\ ~ Restamp(w)
        /\ \A new \in Fresh : ~ Supersede(w, new)
    BY DEF ConfirmRefused, Restamp, Supersede, Finished, Asking, TypeOK
  <2>4. QED
    BY <1>3, <2>1, <2>2, <2>3 DEF Verify
<1>4. ~ GiveUp(w)
  BY DEF GiveUp, Finished, Asking, TypeOK
<1>5. QED
  BY <1>1, <1>2, <1>3, <1>4, OwnSteps

\* No step makes the memory of an answer scratch or deletes it.
LEMMA AnswersDurableStep ==
  ASSUME VInv, AnswersDurable, [Next]_vars
  PROVE  AnswersDurable'
<1> SUFFICES ASSUME NEW w \in Workers, Asking(w)'
             PROVE  Durable(job[w].id)'
  BY DEF AnswersDurable
<1>1. TypeOK /\ GraphProofs!IInv
  BY DEF VInv, IInv
<1>2. CASE Asking(w) /\ job'[w].id = job[w].id
  <2>1. PICK i \in Ids : i = job[w].id
    BY <1>1, <1>2, JobKinds DEF Asking, Answers
  <2>2. Durable(i)
    BY <1>2, <2>1 DEF AnswersDurable
  <2>3. Durable(i)'
    BY <1>1, <2>2, StepsAreGraphSteps, DurableStays DEF VInv
  <2>4. QED
    BY <1>2, <2>1, <2>3 DEF Durable
<1>3. CASE Verifiable(job'[w].id) /\ UNCHANGED <<graph, log>>
  BY <1>3 DEF Verifiable, Durable, graph
<1>4. QED
  BY <1>1, <1>2, <1>3, AskingSteps

\* What a worker logs, it has settled.
LEMMA LoggedIsSettledStep ==
  ASSUME LogInvariant, [Next]_vars
  PROVE  DroppedIsSettled' /\ ReplacedIsSettled'
<1>1. TypeOK /\ GraphProofs!IInv /\ [Graph!Next]_(Graph!vars)
  BY StepsAreGraphSteps DEF LogInvariant, VInv, IInv
<1>2. mem \in [Ids -> Graph!Row \cup {NoRow}]
  BY <1>1 DEF TypeOK, Graph!TypeOK
<1>3. \A i \in Ids : Durable(i) /\ Settled(i) => Durable(i)' /\ Settled(i)'
  BY <1>1, DurableStays
<1>4. CASE log' = log
  BY <1>3, <1>4 DEF LogInvariant, DroppedIsSettled, ReplacedIsSettled, Durable, Settled
<1>5. ASSUME NEW w \in Workers, ResolveDuplicate(w)
      PROVE  DroppedIsSettled' /\ ReplacedIsSettled'
  <2>1. PICK j \in Judgements : j = job[w] /\ job[w] # Idle /\ j.at \in {"resolve", "update"}
    BY <1>1, <1>5, JobKinds DEF ResolveDuplicate, Busy, JudgeSteps
  <2>2. Sound(j)
    BY <2>1 DEF LogInvariant, VInv, JobsSound, JudgeSteps
  <2>3. PICK d \in Ids : d = j.from
    BY DEF Judgements
  <2>4. Durable(d)
    BY <2>1, <2>2, <2>3 DEF Sound, Joins
  <2>5. /\ Graph!ResolveMemory(d)
        /\ log' \subseteq log \cup {<<"dropped", d, j.to>>, <<"hidden", d, j.to>>}
    BY <1>5, <2>1, <2>3 DEF ResolveDuplicate
  <2>6. Durable(d)'
    BY <1>1, <2>4, DurableStays
  <2>7. Settled(d)'
    <3>1. mem'[d].status = "resolved" /\ mem[d] \in Graph!Row
      BY <1>2, <2>4, <2>5 DEF Graph!ResolveMemory, Graph!Row, Durable
    <3>2. mem'[d] # NoRow
      BY <2>6 DEF Durable
    <3>3. QED
      BY <3>1, <3>2 DEF Settled
  <2>8. \A i, k \in Ids : <<"dropped", i, k>> \in log' => Durable(i)' /\ Settled(i)'
    BY <1>3, <2>5, <2>6, <2>7 DEF LogInvariant, DroppedIsSettled
  <2>9. \A n, t \in Ids : <<"replaced", n, t>> \in log' => Durable(t)' /\ Settled(t)'
    BY <1>3, <2>5 DEF LogInvariant, ReplacedIsSettled
  <2>10. QED
    BY <2>8, <2>9 DEF DroppedIsSettled, ReplacedIsSettled, Durable, Settled
<1>6. ASSUME NEW w \in Workers, NEW new \in Ids, Supersede(w, new)
      PROVE  DroppedIsSettled' /\ ReplacedIsSettled'
  <2>1. Asking(w)
    BY <1>6 DEF Supersede, Busy, Asking, AnswerSteps
  <2>2. PICK t \in Ids : t = job[w].id
    BY <1>1, <2>1, JobKinds DEF Asking, Answers
  <2>3. Durable(t)
    BY <2>1, <2>2 DEF LogInvariant, AnswersDurable
  <2>4. /\ Graph!RecordMemory(new, mem[t].kind, NoSession, t, "current")
        /\ log' = log \cup {<<"replaced", new, t>>}
    BY <1>6, <2>2 DEF Supersede
  <2>5. Durable(t)'
    BY <1>1, <2>3, DurableStays
  <2>6. Settled(t)'
    <3>1. t # new
      BY <2>3, <2>4 DEF Graph!RecordMemory, Graph!IdIsFree, Durable
    <3>2. mem'[t].status = "superseded" /\ mem[t] \in Graph!Row
      BY <1>2, <2>3, <2>4, <3>1 DEF Graph!RecordMemory, Graph!Row, Durable
    <3>3. mem'[t] # NoRow
      BY <2>5 DEF Durable
    <3>4. QED
      BY <3>2, <3>3 DEF Settled
  <2>7. \A i, k \in Ids : <<"dropped", i, k>> \in log' => Durable(i)' /\ Settled(i)'
    BY <1>3, <2>4 DEF LogInvariant, DroppedIsSettled
  <2>8. \A n, i \in Ids : <<"replaced", n, i>> \in log' => Durable(i)' /\ Settled(i)'
    BY <1>3, <2>4, <2>5, <2>6 DEF LogInvariant, ReplacedIsSettled
  <2>9. QED
    BY <2>7, <2>8 DEF DroppedIsSettled, ReplacedIsSettled, Durable, Settled
<1>7. QED
  BY <1>4, <1>5, <1>6, LogSteps DEF Fresh

\* With any number of workers, what they dropped or replaced is settled for good.
THEOREM LogInvariance == Spec => []LogInvariant
<1>1. Init => AnswersDurable /\ DroppedIsSettled /\ ReplacedIsSettled
  BY DEF Init, AnswersDurable, Asking, DroppedIsSettled, ReplacedIsSettled
<1>2. VInv /\ (AnswersDurable /\ DroppedIsSettled /\ ReplacedIsSettled) /\ [Next]_vars
      => (AnswersDurable /\ DroppedIsSettled /\ ReplacedIsSettled)'
  BY AnswersDurableStep, LoggedIsSettledStep DEF LogInvariant
<1>3. LogInvariant <=> VInv /\ (AnswersDurable /\ DroppedIsSettled /\ ReplacedIsSettled)
  BY DEF LogInvariant
<1>4. QED
  BY <1>1, <1>2, <1>3, StrongInvariance, PTL DEF Spec

OneWorker == \A v, w \in Workers : v = w

\* The keeper of the pair whose duplicate a worker is about to resolve was not dropped
\* by it before.
KeeperStays ==
  \A w \in Workers : job[w] # Idle /\ job[w].at \in {"resolve", "update"} =>
    \A k \in Ids : <<"dropped", job[w].to, k>> \notin log

\* What a worker is about to confirm or correct, it has not replaced before.
NotReplacedYet ==
  \A w \in Workers : Asking(w) => \A n \in Ids : <<"replaced", n, job[w].id>> \notin log

\* The one process begins with a pair of active memories and logs nothing before it
\* resolves one of them.
LEMMA KeeperStep ==
  ASSUME OneWorker, LogInvariant, KeeperStays, [Next]_vars
  PROVE  KeeperStays'
<1> SUFFICES ASSUME NEW w \in Workers, job'[w] # Idle, job'[w].at \in {"resolve", "update"}
             PROVE  \A k \in Ids : <<"dropped", job'[w].to, k>> \notin log'
  BY DEF KeeperStays
<1>1. TypeOK
  BY DEF LogInvariant, VInv, IInv
<1>2. ASSUME NEW u \in Workers, ResolveDuplicate(u) \/ \E new \in Fresh : Supersede(u, new)
      PROVE  FALSE
  <2>1. u = w
    BY DEF OneWorker
  <2>2. \A new \in Fresh : ~ Supersede(u, new)
    BY <1>1, <2>1 DEF Supersede, Finished, TypeOK
  <2>3. CASE ResolveDuplicate(u)
    <3>1. PICK j \in Judgements : j = job[w]
      BY <1>1, <2>1, <2>3, JobKinds DEF ResolveDuplicate, Busy, JudgeSteps
    <3>2. job'[w] = [j EXCEPT !.at = "link"]
      BY <1>1, <2>1, <2>3, <3>1 DEF ResolveDuplicate, Step, TypeOK
    <3>3. job'[w].at = "link"
      BY <3>2 DEF Judgements
    <3>4. QED
      BY <3>3
  <2>4. QED
    BY <1>2, <2>2, <2>3
<1>3. log' = log
  BY <1>2, LogSteps
<1>4. CASE job'[w] = job[w]
  BY <1>3, <1>4 DEF KeeperStays
<1>5. ASSUME NEW a \in Ids, NEW b \in Ids, NEW keep \in Ids, NEW v \in Verdicts,
             JudgePair(w, a, b, v, keep)
      PROVE  \A k \in Ids : <<"dropped", job'[w].to, k>> \notin log
  <2>1. /\ keep \in {a, b}
        /\ mem[a] # NoRow /\ mem[a].status = "active"
        /\ mem[b] # NoRow /\ mem[b].status = "active"
    BY <1>5 DEF JudgePair, Candidate, Graph!Consolidatable, Graph!Stored
  <2>2. job'[w] = Plan(v, a, b, keep)
    BY <1>1, <1>5 DEF JudgePair, TypeOK
  <2>3. Plan(v, a, b, keep).to \in {a, b}
    BY <2>1 DEF Plan, Verdicts
  <2>4. ~ Settled(a) /\ ~ Settled(b)
    BY <2>1 DEF Settled
  <2>5. QED
    BY <2>2, <2>3, <2>4 DEF LogInvariant, DroppedIsSettled
<1>6. ASSUME Judge(w)
      PROVE  \A k \in Ids : <<"dropped", job'[w].to, k>> \notin log
  <2>1. ASSUME \/ LinkPair(w) \/ LinkFirst(w) \/ LinkSecond(w)
               \/ \E id \in FreshTasks : RecordTask(w, id)
        PROVE  FALSE
    <3>1. PICK j \in Judgements : j = job[w]
      BY <1>1, <2>1, JobKinds DEF LinkPair, LinkFirst, LinkSecond, RecordTask, Busy, JudgeSteps
    <3>2. \E at \in {"mark", "first", "second"}, i \in Ids :
            \/ job'[w] = [j EXCEPT !.at = at]
            \/ job'[w] = [j EXCEPT !.at = at, !.from = i]
      <4>1. j.from \in Ids
        BY DEF Judgements
      <4>2. CASE \E id \in FreshTasks : RecordTask(w, id)
        BY <1>1, <3>1, <4>2 DEF RecordTask, FreshTasks, Fresh, TypeOK
      <4>3. CASE LinkPair(w) \/ LinkFirst(w) \/ LinkSecond(w)
        BY <1>1, <3>1, <4>1, <4>3 DEF LinkPair, LinkFirst, LinkSecond, Step, TypeOK
      <4>4. QED
        BY <2>1, <4>2, <4>3
    <3>3. job'[w].at \in {"mark", "first", "second"}
      BY <3>2 DEF Judgements
    <3>4. QED
      BY <3>3
  <2>2. ~ MarkPair(w) /\ ~ SealRefused(w) /\ ~ Unseal(w)
    BY <1>1 DEF MarkPair, SealRefused, Unseal, Finished, TypeOK
  <2>3. CASE SealNote(w)
    <3>1. PICK j \in Judgements : j = job[w]
      BY <1>1, <2>3, JobKinds DEF SealNote, Busy, JudgeSteps
    <3>2. job'[w] = [j EXCEPT !.at = "update"]
      BY <1>1, <2>3, <3>1 DEF SealNote, Step, TypeOK
    <3>3. job'[w].to = j.to
      BY <3>2 DEF Judgements
    <3>4. QED
      BY <2>3, <3>1, <3>3 DEF SealNote, Busy, KeeperStays
  <2>4. QED
    BY <1>2, <1>5, <1>6, <2>1, <2>2, <2>3 DEF Judge
<1>7. ~ Verify(w)
  <2>1. ~ Asking(w)'
    BY DEF Asking, AnswerSteps
  <2>2. \A id \in Ids, at \in {"confirm", "correct"} : ~ AnswerVerify(w, id, at)
    BY <1>1 DEF AnswerVerify, TypeOK
  <2>3. ~ ConfirmDirect(w) /\ ~ ConfirmNote(w)
    <3>1. ASSUME ConfirmDirect(w) \/ ConfirmNote(w)
          PROVE  FALSE
      <4>1. PICK j \in Answers : j = job[w]
        BY <1>1, <3>1, JobKinds DEF ConfirmDirect, ConfirmNote, Busy, AnswerSteps
      <4>2. PICK at \in {"restamp", "rerecord"} : job'[w] = [j EXCEPT !.at = at]
        BY <1>1, <3>1, <4>1 DEF ConfirmDirect, ConfirmNote, Step, TypeOK
      <4>3. job'[w].at = at
        BY <4>2 DEF Answers
      <4>4. QED
        BY <4>2, <4>3
    <3>2. QED
      BY <3>1
  <2>4. /\ ~ ConfirmRefused(w) /\ ~ Restamp(w)
        /\ \A new \in Fresh : ~ Supersede(w, new)
    BY <1>1 DEF ConfirmRefused, Restamp, Supersede, Finished, TypeOK
  <2>5. QED
    BY <2>2, <2>3, <2>4 DEF Verify
<1>8. ~ GiveUp(w)
  BY <1>1 DEF GiveUp, Finished, TypeOK
<1>9. QED
  BY <1>1, <1>3, <1>4, <1>6, <1>7, <1>8, OwnSteps

\* The one process begins with an active memory and logs nothing before it has
\* replaced it.
LEMMA NotReplacedStep ==
  ASSUME OneWorker, LogInvariant, NotReplacedYet, [Next]_vars
  PROVE  NotReplacedYet'
<1> SUFFICES ASSUME NEW w \in Workers, Asking(w)'
             PROVE  \A n \in Ids : <<"replaced", n, job'[w].id>> \notin log'
  BY DEF NotReplacedYet
<1>1. TypeOK
  BY DEF LogInvariant, VInv, IInv
<1>2. CASE Verifiable(job'[w].id) /\ UNCHANGED <<graph, log>>
  <2>1. PICK i \in Ids : i = job'[w].id
    <3>1. job'[w] \in Answers
      <4>1. TypeOK'
        BY InvariantStep DEF LogInvariant, VInv, IInv
      <4>2. QED
        BY <4>1 DEF TypeOK, Asking, AnswerSteps, Judgements, Answers
    <3>2. QED
      BY <3>1 DEF Answers
  <2>2. ~ Settled(i)
    BY <1>2, <2>1 DEF Verifiable, Settled
  <2>3. QED
    BY <1>2, <2>1, <2>2 DEF LogInvariant, ReplacedIsSettled
<1>3. CASE Asking(w) /\ job'[w].id = job[w].id
  <2>1. ASSUME NEW u \in Workers, ResolveDuplicate(u) \/ \E new \in Fresh : Supersede(u, new)
        PROVE  FALSE
    <3>1. u = w
      BY DEF OneWorker
    <3>2. ~ ResolveDuplicate(u)
      BY <1>3, <3>1 DEF ResolveDuplicate, Busy, Asking, AnswerSteps
    <3>3. \A new \in Fresh : ~ Supersede(u, new)
      BY <1>1, <3>1 DEF Supersede, Finished, Asking, TypeOK
    <3>4. QED
      BY <2>1, <3>2, <3>3
  <2>2. log' = log
    BY <2>1, LogSteps
  <2>3. QED
    BY <1>3, <2>2 DEF NotReplacedYet
<1>4. QED
  BY <1>1, <1>2, <1>3, AskingSteps

\* So neither of a dropped pair's members is the keeper of the reverse drop.
LEMMA KeepOneStep ==
  ASSUME LogInvariant, KeeperStays, DuplicatesKeepOne, [Next]_vars
  PROVE  DuplicatesKeepOne'
<1>1. TypeOK
  BY DEF LogInvariant, VInv, IInv
<1>2. CASE log' = log
  BY <1>2 DEF DuplicatesKeepOne
<1>3. ASSUME NEW w \in Workers, ResolveDuplicate(w)
      PROVE  DuplicatesKeepOne'
  <2>1. PICK j \in Judgements : j = job[w] /\ job[w] # Idle /\ j.at \in {"resolve", "update"}
    BY <1>1, <1>3, JobKinds DEF ResolveDuplicate, Busy, JudgeSteps
  <2>2. j.from \in Ids /\ j.to \in Ids /\ j.a \in Ids /\ j.b \in Ids /\ j.a < j.b
    BY DEF Judgements
  <2>3. j.from # j.to
    <3>1. j.a \in Nat /\ j.b \in Nat
      BY <2>2, IdsAssumption
    <3>2. j.a # j.b
      BY <2>2, <3>1
    <3>3. Joins(j)
      BY <2>1 DEF LogInvariant, VInv, JobsSound, Sound, JudgeSteps
    <3>4. QED
      BY <3>2, <3>3 DEF Joins
  <2>4. <<"dropped", j.to, j.from>> \notin log
    BY <2>1, <2>2 DEF KeeperStays
  <2>5. log' \subseteq log \cup {<<"dropped", j.from, j.to>>, <<"hidden", j.from, j.to>>}
    BY <1>3, <2>1 DEF ResolveDuplicate
  <2> SUFFICES ASSUME NEW d \in log', d[1] = "dropped", <<"dropped", d[3], d[2]>> \in log'
               PROVE  FALSE
    BY DEF DuplicatesKeepOne
  <2>6. log \subseteq {"dropped", "hidden", "replaced"} \X Ids \X Ids
    BY <1>1 DEF TypeOK
  <2>7. CASE d \in log
    <3>1. <<"dropped", d[3], d[2]>> \notin log
      BY <2>7 DEF DuplicatesKeepOne
    <3>2. d[3] = j.from /\ d[2] = j.to
      BY <2>5, <3>1
    <3>3. d = <<"dropped", j.to, j.from>>
      BY <2>6, <2>7, <3>2
    <3>4. QED
      BY <2>4, <2>7, <3>3
  <2>8. CASE d = <<"dropped", j.from, j.to>>
    <3>1. <<"dropped", j.to, j.from>> \in log'
      BY <2>8
    <3>2. QED
      BY <2>3, <2>4, <2>5, <3>1
  <2>9. QED
    BY <2>5, <2>7, <2>8
<1>4. ASSUME NEW w \in Workers, NEW new \in Fresh, Supersede(w, new)
      PROVE  DuplicatesKeepOne'
  <2>1. log' = log \cup {<<"replaced", new, job[w].id>>}
    BY <1>4 DEF Supersede
  <2>2. QED
    BY <2>1 DEF DuplicatesKeepOne
<1>5. QED
  BY <1>2, <1>3, <1>4, LogSteps

\* ... and no memory is replaced twice.
LEMMA ReplacedOnceStep ==
  ASSUME LogInvariant, NotReplacedYet, ReplacedOnce, [Next]_vars
  PROVE  ReplacedOnce'
<1>1. TypeOK
  BY DEF LogInvariant, VInv, IInv
<1>2. CASE log' = log
  BY <1>2 DEF ReplacedOnce
<1>3. ASSUME NEW w \in Workers, ResolveDuplicate(w)
      PROVE  ReplacedOnce'
  <2>1. log' \subseteq log \cup {<<"dropped", job[w].from, job[w].to>>,
                                <<"hidden", job[w].from, job[w].to>>}
    BY <1>3 DEF ResolveDuplicate
  <2>2. QED
    BY <2>1 DEF ReplacedOnce
<1>4. ASSUME NEW w \in Workers, NEW new \in Fresh, Supersede(w, new)
      PROVE  ReplacedOnce'
  <2>1. Asking(w)
    BY <1>4 DEF Supersede, Busy, Asking, AnswerSteps
  <2>2. PICK t \in Ids : t = job[w].id
    BY <1>1, <2>1, JobKinds DEF Asking, Answers
  <2>3. log' = log \cup {<<"replaced", new, t>>}
    BY <1>4, <2>2 DEF Supersede
  <2>4. log \subseteq {"dropped", "hidden", "replaced"} \X Ids \X Ids
    BY <1>1 DEF TypeOK
  <2>5. ASSUME NEW e \in log, e[1] = "replaced", e[3] = t
        PROVE  FALSE
    <3>1. e[2] \in Ids /\ e = <<"replaced", e[2], t>>
      BY <2>4, <2>5
    <3>2. QED
      BY <2>1, <2>2, <3>1 DEF NotReplacedYet
  <2>6. QED
    BY <2>3, <2>5 DEF ReplacedOnce
<1>5. QED
  BY <1>2, <1>3, <1>4, LogSteps

\* With one submitting process, that may die anywhere among agents who settle the same
\* memories meanwhile: two memories are never each dropped as a duplicate of the other.
THEOREM DuplicatesNeverBothDropped ==
  ASSUME OneWorker
  PROVE  Spec => []DuplicatesKeepOne
<1>1. Init => KeeperStays /\ DuplicatesKeepOne
  BY DEF Init, KeeperStays, DuplicatesKeepOne
<1>2. LogInvariant /\ (KeeperStays /\ DuplicatesKeepOne) /\ [Next]_vars
      => (KeeperStays /\ DuplicatesKeepOne)'
  BY KeeperStep, KeepOneStep
<1>3. QED
  BY <1>1, <1>2, LogInvariance, PTL DEF Spec

\* With one submitting process: a memory is corrected or re-recorded at most once, so
\* that it has one successor and not two that compete.
THEOREM ReplacedAtMostOnce ==
  ASSUME OneWorker
  PROVE  Spec => []ReplacedOnce
<1>1. Init => NotReplacedYet /\ ReplacedOnce
  BY DEF Init, NotReplacedYet, ReplacedOnce, Asking
<1>2. LogInvariant /\ (NotReplacedYet /\ ReplacedOnce) /\ [Next]_vars
      => (NotReplacedYet /\ ReplacedOnce)'
  BY NotReplacedStep, ReplacedOnceStep
<1>3. QED
  BY <1>1, <1>2, LogInvariance, PTL DEF Spec

=============================================================================

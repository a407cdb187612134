--------------------------- MODULE Installer_proofs ---------------------------
(***************************************************************************)
(* Proofs about `memdag install` and `memdag uninstall`, for every set of  *)
(* targets and processes, at both locations, for any commands, edits,      *)
(* links and files to begin with.                                          *)
(***************************************************************************)
EXTENDS Installer, TLAPS

-----------------------------------------------------------------------------
(***************************************************************************)
(* Which files can be the same                                             *)
(***************************************************************************)

\* No two targets have the same config file, and none has the one OpenCode prefers.
LEMMA ConfigFilesDiffer ==
  /\ \A t, u \in AllTargets : t # u => ConfigFile[t] # ConfigFile[u]
  /\ \A t \in AllTargets : ConfigFile[t] # Preferred
<1>1. CASE Location = "project"
  BY <1>1 DEF ConfigFile, Preferred, Here, AllTargets
<1>2. CASE Location # "project"
  BY <1>2 DEF ConfigFile, Preferred, Here, AllTargets
<1>3. QED
  BY <1>1, <1>2

\* No config file is a skill folder.
LEMMA SkillsAreNoConfigs == ConfPaths \cap SkillDirs = {}
<1>1. \A t, u \in AllTargets : ConfigFile[t] # SkillDir[u] /\ Preferred # SkillDir[u]
  <2>1. CASE Location = "project"
    BY <2>1 DEF ConfigFile, Preferred, SkillDir, Here, AllTargets
  <2>2. CASE Location # "project"
    BY <2>2 DEF ConfigFile, Preferred, SkillDir, Here, AllTargets
  <2>3. QED
    BY <2>1, <2>2
<1>2. QED
  BY <1>1, TargetsAssumption DEF ConfPaths, SkillDirs

\* No worker's file is a rule of memdag's own.
LEMMA WorkersAreNoRules ==
  \A t, u \in AllTargets : u \in OwnRule /\ WorkerFile[t] # NoPath =>
    WorkerFile[t] # InstructionsFile[u]
<1>1. CASE Location = "project"
  BY <1>1 DEF WorkerFile, InstructionsFile, Here, AllTargets, OwnRule, NoPath
<1>2. CASE Location # "project"
  BY <1>2 DEF WorkerFile, InstructionsFile, Here, AllTargets, OwnRule, NoPath
<1>3. QED
  BY <1>1, <1>2

\* No two targets have the same worker's file.
LEMMA WorkerFilesDiffer ==
  \A t, u \in AllTargets : WorkerFile[t] = WorkerFile[u] /\ WorkerFile[t] # NoPath => t = u
<1>1. CASE Location = "project"
  BY <1>1 DEF WorkerFile, Here, AllTargets, NoPath
<1>2. CASE Location # "project"
  BY <1>2 DEF WorkerFile, Here, AllTargets, NoPath
<1>3. QED
  BY <1>1, <1>2

\* Every target without a rule of its own has shared instructions.
LEMMA SharedFilesExist ==
  \A t \in AllTargets \ OwnRule : InstructionsFile[t] # NoPath
<1>1. CASE Location = "project"
  BY <1>1 DEF InstructionsFile, Here, AllTargets, OwnRule, NoPath
<1>2. CASE Location # "project"
  BY <1>2 DEF InstructionsFile, Here, AllTargets, OwnRule, NoPath
<1>3. QED
  BY <1>1, <1>2

-----------------------------------------------------------------------------
(***************************************************************************)
(* The invariants                                                          *)
(***************************************************************************)

OneProcess == \A p, q \in Procs : p = q

\* The steps left are steps of the target's parts, and the parts are those asked for
\* (a refresh looks after the hook unasked).
JobsFit == \A p \in Procs : job[p] # Idle =>
  LET j == job[p]
  IN  /\ j.cmd \in Commands
      /\ j.target \in j.cmd.targets
      /\ j.left \subseteq j.cmd.targets
      /\ j.parts \subseteq j.cmd.parts \cup {"hooks"}
      /\ ~j.cmd.refresh /\ j.todo # {} => j.parts = j.cmd.parts
      /\ \A s \in j.todo :
           /\ PartOf(s) \in j.parts
           /\ s \in {"permissions", "hooks"} => j.target = "claude_code"
           /\ s = "worker" => WorkerFile[j.target] # NoPath
           /\ s = "instructions" => InstructionsFile[j.target] # NoPath
           /\ s = "mcp1" => j.cmd.op = "uninstall"
           /\ s = "migrate" => j.cmd.op = "install"

\* Only OpenCode's configs have an entry in the old shape.
OldShapeIsOpenCodes ==
  \A f \in ConfPaths : conf[f].v1.here => f \in {ConfigFile["opencode"], Preferred}

\* A model is pinned in a worker file that memdag wrote.
PinsAreWorkers ==
  \A f \in OwnPaths :
    own[f].pinned => own[f].by = "memdag" /\ \E t \in Targets : f = WorkerFile[t]

\* Between the two writes of a skill folder.
HalfWritten(p, op) == /\ Busy(p, op)
                      /\ "stamp" \in job[p].todo
                      /\ "skill" \notin job[p].todo

\* The stamp follows the skill at once.
StampFollows == \A p \in Procs : job[p] # Idle =>
  /\ "skill" \in job[p].todo => "stamp" \in job[p].todo
  /\ "stamp" \in job[p].todo => "skill" \in job[p].todo \/ IsNext(p, "stamp")

\* Nobody's SKILL.md but memdag's is under its stamp, also between the two writes; and
\* one of memdag's without a stamp is about to be stamped, or was left so.
StampsAreMemdags ==
  /\ \A d \in SkillDirs : skill[d].stamp => skill[d].md # "foreign"
  /\ \A p \in Procs : HalfWritten(p, "install") => skill[SkillDir[job[p].target]].md = "ours"
  /\ \A p \in Procs : HalfWritten(p, "uninstall") =>
       skill[SkillDir[job[p].target]].md = "none" /\ skill[SkillDir[job[p].target]].stamp
  /\ \A d \in SkillDirs :
       skill[d].md = "ours" /\ ~skill[d].stamp =>
         d \in torn \/ \E p \in Procs : HalfWritten(p, "install") /\ SkillDir[job[p].target] = d

\* What a refresh is still to write, the target has already, or its settings mention.
Already(t, parts, s) ==
  /\ s = "mcp" => /\ HasPiece(t, "mcp")
                  /\ t = "kiro" /\ "permissions" \in parts => conf[ConfigFile[t]].v2.approve
  /\ s = "worker" => /\ Generated(WorkerFile[t])
                     /\ t = "opencode" /\ "permissions" \in parts => own[WorkerFile[t]].allow
  /\ s = "permissions"  => settings.allow \/ "permissions" \in settings.mentions
  /\ s = "hooks"        => settings.hook \/ "hooks" \in settings.mentions
  /\ s = "instructions" => Has(t, "instructions")
  /\ s = "stamp"        => skill[SkillDir[t]].stamp

RefreshFits == \A p \in Procs : Busy(p, "install") /\ job[p].cmd.refresh =>
  \A s \in job[p].todo : Already(job[p].target, job[p].parts, s)

\* Only installed targets were promised something, and never what has no file.
PromisesFit == \A q \in promised :
  /\ IsInstalled(q[1])
  /\ q[2] = "instructions" => InstructionsFile[q[1]] # NoPath

\* While targets are uninstalled, what is promised is promised to others, which the
\* command knows of, or is not asked for; and it is about to stamp out a skill folder
\* only if none of those uses it.
OthersAreKnown == \A p \in Procs : Busy(p, "uninstall") =>
  /\ job[p].remaining \cap job[p].cmd.targets = {}
  /\ \A q \in promised : q[1] \in job[p].remaining
                         \/ (q[1] \in job[p].cmd.targets /\ q[2] \notin job[p].cmd.parts)
  /\ HalfWritten(p, "uninstall") => ~SkillShared(p)

\* The file OpenCode prefers is there only where people made it.
PreferredIsPeoples == Exists(conf[Preferred]) => conf[Preferred].user

\* Nothing a step cleans is left for target t, but for what others share and what could
\* not be cleaned.
UsualEntryGone(t) == conf[ConfPath(t)].v2.here => ConfPath(t) \in torn
OldEntryGone(t)   == t = "opencode" /\ conf[ConfPath(t)].v1.here => ConfPath(t) \in torn
InstructionsGone(p, t) ==
  Has(t, "instructions") =>
    \E o \in Targets : /\ o \in job[p].remaining
                       /\ SameFile(InstructionsFile[o], InstructionsFile[t])
SkillGone(p, t) ==
  skill[SkillDir[t]].stamp \/ skill[SkillDir[t]].md = "ours" =>
    \/ SkillDir[t] \in torn
    \/ \E o \in Targets : o \in job[p].remaining /\ SkillDir[o] = SkillDir[t]

Gone(p, t, s) ==
  /\ s = "mcp"          => UsualEntryGone(t)
  /\ s = "mcp1"         => OldEntryGone(t)
  /\ s = "permissions"  => (t = "claude_code" => ~settings.allow)
  /\ s = "hooks"        => (t = "claude_code" => ~settings.hook)
  /\ s = "worker"       => ~Generated(WorkerFile[t])
  /\ s = "instructions" => InstructionsGone(p, t)
  /\ s = "stamp"        => SkillGone(p, t)

\* An uninstall of every part has cleaned the targets it has begun, but for the steps
\* it has still to take.
CleanedSoFar == \A p \in Procs : Busy(p, "uninstall") /\ job[p].cmd.parts = AllParts =>
  \A t \in job[p].cmd.targets \ job[p].left, s \in Steps :
    (t = job[p].target /\ s \in job[p].todo) \/ Gone(p, t, s)

-----------------------------------------------------------------------------
(***************************************************************************)
(* Running commands                                                        *)
(***************************************************************************)

\* A running command is not an idle process.
LEMMA IdleIsNoJob == Idle \notin Job
BY DEF Idle, Job

\* What Done does: the steps are taken off, and nothing else of the command changes.
LEMMA DoneSteps ==
  ASSUME TypeOK, NEW p \in Procs, job[p] # Idle, NEW steps, Done(p, steps)
  PROVE  /\ job' \in [Procs -> Job \cup {Idle}]
         /\ job'[p] # Idle
         /\ job'[p].cmd = job[p].cmd /\ job'[p].left = job[p].left
         /\ job'[p].target = job[p].target /\ job'[p].parts = job[p].parts
         /\ job'[p].remaining = job[p].remaining
         /\ job'[p].path = job[p].path /\ job'[p].v1 = job[p].v1
         /\ job'[p].todo = job[p].todo \ steps
         /\ \A q \in Procs : q # p => job'[q] = job[q]
<1>1. PICK j \in Job : j = job[p]
  BY DEF TypeOK
<1>2. PICK k : k = [j EXCEPT !.todo = @ \ steps]
  OBVIOUS
<1>3. job' = [job EXCEPT ![p] = k]
  BY <1>1, <1>2 DEF Done
<1>4. /\ k \in Job
      /\ k.cmd = j.cmd /\ k.left = j.left /\ k.target = j.target /\ k.parts = j.parts
      /\ k.remaining = j.remaining /\ k.path = j.path /\ k.v1 = j.v1
      /\ k.todo = j.todo \ steps
  BY <1>2 DEF Job
<1>5. k # Idle
  BY <1>4, IdleIsNoJob
<1>6. job'[p] = k /\ job' \in [Procs -> Job \cup {Idle}] /\ \A q \in Procs : q # p => job'[q] = job[q]
  BY <1>3, <1>4 DEF TypeOK
<1>7. QED
  BY <1>1, <1>4, <1>5, <1>6

\* The files memdag looks for are files of the instance.
LEMMA PathTypes ==
  /\ Preferred \in ConfPaths
  /\ \A t \in Targets : /\ ConfigFile[t] \in ConfPaths /\ ConfPath(t) \in ConfPaths
                        /\ SkillDir[t] \in SkillDirs
                        /\ WorkerFile[t] # NoPath => WorkerFile[t] \in OwnPaths
                        /\ t \notin OwnRule => InstructionsFile[t] \in TextPaths
                        /\ t \in OwnRule /\ InstructionsFile[t] # NoPath
                             => InstructionsFile[t] \in OwnPaths
  /\ \A f \in TextPaths : Real(f) \in TextPaths
<1>1. \A f \in TextPaths : Real(f) \in TextPaths
  BY DEF Real
<1>2. QED
  BY <1>1 DEF ConfPaths, ConfPath, SkillDirs, OwnPaths, TextPaths

\* Setting and removing entries keeps a config one.
LEMMA EntryTypes ==
  ASSUME NEW c \in Conf
  PROVE  /\ NoEntry \in Entry /\ c.v1 \in Entry /\ c.v2 \in Entry
         /\ \A v1 \in BOOLEAN, approve \in BOOLEAN :
              MergeEntry(EntryOf(c, v1), approve) \in Entry
         /\ \A v1 \in BOOLEAN, e \in Entry : SetEntry(c, v1, e) \in Conf
         /\ \A v1 \in BOOLEAN : RemoveEntry(c, v1) \in Conf
<1>1. NoEntry \in Entry /\ c.v1 \in Entry /\ c.v2 \in Entry
  BY DEF NoEntry, Entry, Conf
<1>2. \A v1 \in BOOLEAN, e \in Entry : SetEntry(c, v1, e) \in Conf
  BY DEF SetEntry, Conf
<1>3. \A v1 \in BOOLEAN, approve \in BOOLEAN : MergeEntry(EntryOf(c, v1), approve) \in Entry
  BY <1>1 DEF MergeEntry, EntryOf, Entry
<1>4. \A v1 \in BOOLEAN : RemoveEntry(c, v1) \in Conf
  BY <1>1, <1>2 DEF RemoveEntry
<1>5. QED
  BY <1>1, <1>2, <1>3, <1>4

\* merge_entry: the entry is there, with what it had.
LEMMA MergedEntries ==
  ASSUME NEW c \in Conf, NEW v1 \in BOOLEAN, NEW approve \in BOOLEAN,
         NEW k, k = SetEntry(c, v1, MergeEntry(EntryOf(c, v1), approve))
  PROVE  /\ EntryOf(k, v1).here
         /\ (k.v1.custom <=> c.v1.custom) /\ (k.v2.custom <=> c.v2.custom)
         /\ (k.v1.here <=> c.v1.here \/ v1) /\ (k.v2.here <=> c.v2.here \/ ~v1)
         /\ k.v2.approve <=> c.v2.approve \/ (~v1 /\ approve)
         /\ k.user = c.user /\ k.valid = c.valid
<1>1. PICK e : e = MergeEntry(EntryOf(c, v1), approve)
  OBVIOUS
<1>2. /\ e \in Entry
      /\ e.here = TRUE /\ e.custom = EntryOf(c, v1).custom
      /\ e.approve = (EntryOf(c, v1).approve \/ approve)
  BY <1>1, EntryTypes DEF MergeEntry
<1>3. k = SetEntry(c, v1, e)
  BY <1>1
<1>4. CASE v1 = TRUE
  <2>1. k = [c EXCEPT !.v1 = e]
    BY <1>3, <1>4 DEF SetEntry
  <2>2. k.v1 = e /\ k.v2 = c.v2 /\ k.user = c.user /\ k.valid = c.valid
    BY <2>1 DEF Conf
  <2>3. e.custom = c.v1.custom
    BY <1>2, <1>4 DEF EntryOf
  <2>4. QED
    BY <1>2, <1>4, <2>2, <2>3 DEF EntryOf
<1>5. CASE v1 = FALSE
  <2>1. k = [c EXCEPT !.v2 = e]
    BY <1>3, <1>5 DEF SetEntry
  <2>2. k.v2 = e /\ k.v1 = c.v1 /\ k.user = c.user /\ k.valid = c.valid
    BY <2>1 DEF Conf
  <2>3. e.custom = c.v2.custom /\ e.approve = (c.v2.approve \/ approve)
    BY <1>2, <1>5 DEF EntryOf
  <2>4. QED
    BY <1>2, <1>5, <2>2, <2>3 DEF EntryOf
<1>6. QED
  BY <1>4, <1>5

\* json_remove: one of the two entries goes, unless the config does not parse.
LEMMA RemovedEntries ==
  ASSUME NEW c \in Conf, NEW v1 \in BOOLEAN, NEW k, k = RemoveEntry(c, v1)
  PROVE  /\ ~c.valid => k = c
         /\ c.valid => ~EntryOf(k, v1).here
         /\ k.v1 = c.v1 \/ (v1 /\ ~k.v1.here)
         /\ k.v2 = c.v2 \/ (~v1 /\ ~k.v2.here)
         /\ k.v2.approve => c.v2.approve
         /\ k.user = c.user /\ k.valid = c.valid
<1>1. NoEntry \in Entry /\ NoEntry.here = FALSE /\ NoEntry.approve = FALSE
  BY DEF NoEntry, Entry
<1>2. CASE ~c.valid
  BY <1>2 DEF RemoveEntry
<1>3. CASE c.valid /\ v1 = TRUE
  <2>1. k = [c EXCEPT !.v1 = NoEntry]
    BY <1>3 DEF RemoveEntry, SetEntry
  <2>2. k.v1 = NoEntry /\ k.v2 = c.v2 /\ k.user = c.user /\ k.valid = c.valid
    BY <2>1 DEF Conf
  <2>3. QED
    BY <1>1, <1>3, <2>2 DEF EntryOf
<1>4. CASE c.valid /\ v1 = FALSE
  <2>1. k = [c EXCEPT !.v2 = NoEntry]
    BY <1>4 DEF RemoveEntry, SetEntry
  <2>2. k.v2 = NoEntry /\ k.v1 = c.v1 /\ k.user = c.user /\ k.valid = c.valid
    BY <2>1 DEF Conf
  <2>3. QED
    BY <1>1, <1>4, <2>2 DEF EntryOf
<1>5. QED
  BY <1>2, <1>3, <1>4

\* People neither add nor remove an entry, nor take away what they added.
LEMMA EditedEntries ==
  ASSUME NEW c \in Conf, NEW k,
         \/ k = [c EXCEPT !.v1 = Custom(c.v1), !.v2 = Custom(c.v2)]
         \/ \E v \in BOOLEAN : k = Spoil(c, v)
         \/ k = [c EXCEPT !.user = TRUE]
  PROVE  /\ (k.v1.here <=> c.v1.here) /\ (k.v2.here <=> c.v2.here)
         /\ c.v1.custom /\ c.v1.here => k.v1.custom
         /\ c.v2.custom /\ c.v2.here => k.v2.custom
         /\ k.v2.approve <=> c.v2.approve
<1>1. CASE k = [c EXCEPT !.v1 = Custom(c.v1), !.v2 = Custom(c.v2)]
  <2>1. c.v1 \in Entry /\ c.v2 \in Entry
    BY DEF Conf
  <2>2. k.v1 = Custom(c.v1) /\ k.v2 = Custom(c.v2)
    BY <1>1 DEF Conf
  <2>3. \A e \in Entry : /\ Custom(e).here = e.here
                         /\ Custom(e).custom = e.here
                         /\ Custom(e).approve = e.approve
    BY DEF Custom, Entry
  <2>4. QED
    BY <2>1, <2>2, <2>3
<1>2. CASE (\E v \in BOOLEAN : k = Spoil(c, v)) \/ k = [c EXCEPT !.user = TRUE]
  <2>1. k.v1 = c.v1 /\ k.v2 = c.v2
    BY <1>2 DEF Spoil, Conf
  <2>2. QED
    BY <2>1
<1>3. QED
  BY <1>1, <1>2

-----------------------------------------------------------------------------
(***************************************************************************)
(* Types                                                                   *)
(***************************************************************************)

JobsType  == job \in [Procs -> Job \cup {Idle}]
FilesType == /\ conf \in [ConfPaths -> Conf]
             /\ text \in [TextPaths -> Text]
             /\ own \in [OwnPaths -> Own]
             /\ skill \in [SkillDirs -> Skill]
             /\ settings \in Settings

\* A running command has the fields of one.
LEMMA JobFields ==
  ASSUME TypeOK, NEW p \in Procs, job[p] # Idle
  PROVE  /\ job[p] \in Job
         /\ job[p].cmd \in Command /\ job[p].target \in Targets
         /\ job[p].left \subseteq Targets /\ job[p].todo \subseteq Steps
         /\ job[p].parts \subseteq AllParts /\ job[p].remaining \subseteq Targets
         /\ job[p].path \in ConfPaths /\ job[p].v1 \in BOOLEAN
         /\ job[p].cmd.op \in {"install", "uninstall"}
         /\ job[p].cmd.targets \subseteq Targets
<1>1. job[p] \in Job
  BY DEF TypeOK
<1>2. QED
  BY <1>1 DEF Job, Command

\* Every step keeps the jobs.
LEMMA JobsTypeStep ==
  ASSUME TypeOK, [Next]_vars
  PROVE  JobsType'
<1> USE DEF JobsType
<1>1. JobsType
  BY DEF TypeOK
<1>2. ASSUME NEW p \in Procs, NEW j \in Job \cup {Idle}, job' = [job EXCEPT ![p] = j]
      PROVE  JobsType'
  BY <1>1, <1>2
<1>3. ASSUME NEW p \in Procs, NEW steps, job[p] # Idle, Done(p, steps)
      PROVE  JobsType'
  BY <1>3, DoneSteps
<1>4. ASSUME NEW p \in Procs, NEW cmd \in Commands, Start(p, cmd)
      PROVE  JobsType'
  <2> DEFINE chosen == IF cmd.refresh THEN {t \in cmd.targets : IsInstalled(t)} ELSE cmd.targets
             some   == CHOOSE t \in chosen : TRUE
             rest   == IF cmd.op = "uninstall" THEN Others(cmd) ELSE {}
             j      == [cmd |-> cmd, left |-> chosen, target |-> some, todo |-> {}, parts |-> {},
                        remaining |-> rest, path |-> ConfPath(some), v1 |-> FALSE]
  <2>1. cmd \in Command /\ cmd.targets \subseteq Targets
    BY CommandsAssumption DEF Command
  <2>2. chosen \subseteq Targets /\ chosen # {}
    BY <1>4, <2>1 DEF Start
  <2>3. some \in Targets
    BY <2>2
  <2>4. ConfPath(some) \in ConfPaths
    BY <2>3, PathTypes
  <2>5. rest \subseteq Targets
    BY DEF Others
  <2>6. job' = [job EXCEPT ![p] = j]
    BY <1>4 DEF Start
  <2> HIDE DEF chosen, some, rest
  <2>7. j \in Job
    BY <2>1, <2>2, <2>3, <2>4, <2>5 DEF Job
  <2>8. QED
    BY <1>2, <2>6, <2>7
<1>5. ASSUME NEW p \in Procs, BeginTarget(p)
      PROVE  JobsType'
  <2>1. job[p] # Idle
    BY <1>5 DEF BeginTarget
  <2>2. PICK j \in Job : j = job[p]
    BY <2>1, JobFields
  <2>3. PICK t \in j.left :
          job' = [job EXCEPT ![p].left = @ \ {t}, ![p].target = t,
                             ![p].parts = PartsFor(j.cmd, t),
                             ![p].todo = Plan(j.cmd.op, t, PartsFor(j.cmd, t))]
    BY <1>5, <2>2 DEF BeginTarget
  <2> DEFINE parts == PartsFor(j.cmd, t)
  <2>4. PICK k : k = [j EXCEPT !.left = @ \ {t}, !.target = t, !.parts = parts,
                               !.todo = Plan(j.cmd.op, t, parts)]
    OBVIOUS
  <2>5. job' = [job EXCEPT ![p] = k]
    BY <2>2, <2>3, <2>4
  <2>6. t \in Targets /\ parts \subseteq AllParts /\ Plan(j.cmd.op, t, parts) \subseteq Steps
    <3>1. t \in Targets /\ j.cmd.parts \subseteq AllParts
      BY <2>2 DEF Job, Command
    <3>2. parts \subseteq AllParts
      BY <3>1 DEF PartsFor, InstalledParts
    <3>3. QED
      BY <3>1, <3>2 DEF Plan
  <2>7. k \in Job
    BY <2>4, <2>6 DEF Job
  <2>8. QED
    BY <1>2, <2>5, <2>7
<1>6. ASSUME NEW p \in Procs, InstallMcp(p)
      PROVE  JobsType'
  <2>1. job[p] # Idle
    BY <1>6 DEF InstallMcp, At, Busy
  <2>2. PICK j \in Job : j = job[p]
    BY <2>1, JobFields
  <2>3. PICK path \in ConfPaths, v1 \in BOOLEAN, more \in SUBSET {"migrate"} :
          job' = [job EXCEPT ![p].path = path, ![p].v1 = v1,
                             ![p].todo = (@ \ {"mcp"}) \cup more]
    <3>1. ConfPath(job[p].target) \in ConfPaths
      BY <2>1, JobFields, PathTypes
    <3>2. \A t, c, format : WritesV1(t, c, format) \in BOOLEAN
      BY DEF WritesV1
    <3>3. \A t, c, v1 : {s \in {"migrate"} : OtherShape(t, c, v1)} \in SUBSET {"migrate"}
      OBVIOUS
    <3>4. QED
      BY <1>6, <3>1, <3>2, <3>3 DEF InstallMcp
  <2>4. PICK k : k = [j EXCEPT !.path = path, !.v1 = v1, !.todo = (@ \ {"mcp"}) \cup more]
    OBVIOUS
  <2>5. job' = [job EXCEPT ![p] = k]
    BY <2>2, <2>3, <2>4
  <2>6. "migrate" \in Steps
    BY DEF Steps, Rank
  <2>7. k \in Job
    BY <2>3, <2>4, <2>6 DEF Job
  <2>8. QED
    BY <1>2, <2>5, <2>7
<1>7. ASSUME NEW p \in Procs, End(p) \/ Crash(p) \/ Refuse(p)
      PROVE  JobsType'
  BY <1>2, <1>7 DEF End, Crash, Refuse
<1>8. ASSUME NEW p \in Procs, Install(p), ~InstallMcp(p)
      PROVE  JobsType'
  BY <1>3, <1>8 DEF Install, InstallToml, Migrate, WriteWorker, WriteInstructions, WriteSkill,
                    At, Busy
<1>9. ASSUME NEW p \in Procs, Uninstall(p) \/ Stamp(p) \/ EditPermissions(p) \/ EditHook(p)
      PROVE  JobsType'
  BY <1>3, <1>9 DEF Uninstall, RemoveMcp, RemoveToml, RemoveWorker, RemoveInstructions,
                    RemoveSkill, Stamp, EditPermissions, EditHook, At, Busy
<1>10. CASE Edit \/ UNCHANGED vars
  BY <1>1, <1>10 DEF Edit, vars
<1>11. QED
  BY <1>4, <1>5, <1>6, <1>7, <1>8, <1>9, <1>10 DEF Next

-----------------------------------------------------------------------------
(***************************************************************************)
(* What can happen to one file                                             *)
(***************************************************************************)

OpenCodes == {ConfigFile["opencode"], Preferred}

\* A command at that step merges an entry into a config, in the old shape only for
\* OpenCode, or removes one; or people edit it while no command moves.
EntryMerged(f) ==
  /\ conf[f].valid
  /\ \E p \in Procs, v1, approve \in BOOLEAN :
       /\ InstallMcp(p) \/ InstallToml(p)
       /\ At(p, "install", "mcp") /\ f = ConfPath(job[p].target)
       /\ v1 => f \in OpenCodes
       /\ approve => Approves(p)
       /\ conf'[f] = SetEntry(conf[f], v1, MergeEntry(EntryOf(conf[f], v1), approve))
Removing(p) == Migrate(p) \/ Busy(p, "uninstall")
EntryRemoved(f) ==
  \E p \in Procs, v1 \in BOOLEAN : Removing(p) /\ conf'[f] = RemoveEntry(conf[f], v1)
ConfEdited(f) ==
  /\ job' = job
  /\ \/ /\ conf[f].valid
        /\ conf'[f] = [conf[f] EXCEPT !.v1 = Custom(conf[f].v1), !.v2 = Custom(conf[f].v2)]
     \/ \E v \in BOOLEAN : conf'[f] = Spoil(conf[f], v)
     \/ f = Preferred /\ conf'[f] = [conf[f] EXCEPT !.user = TRUE]

ConfStep ==
  /\ conf' \in [ConfPaths -> Conf]
  /\ \A f \in ConfPaths :
       conf'[f] = conf[f] \/ EntryMerged(f) \/ EntryRemoved(f) \/ ConfEdited(f)

\* An entry removed from a config leaves one.
LEMMA RemovedIsConfStep ==
  ASSUME TypeOK, NEW p \in Procs, Removing(p), NEW f \in ConfPaths, NEW v1 \in BOOLEAN,
         conf' = [conf EXCEPT ![f] = RemoveEntry(conf[f], v1)]
  PROVE  ConfStep
<1>1. conf[f] \in Conf /\ conf \in [ConfPaths -> Conf]
  BY DEF TypeOK
<1>2. RemoveEntry(conf[f], v1) \in Conf
  BY <1>1, EntryTypes
<1>3. conf'[f] = RemoveEntry(conf[f], v1) /\ \A g \in ConfPaths : g # f => conf'[g] = conf[g]
  BY <1>1
<1>4. EntryRemoved(f)
  BY <1>3 DEF EntryRemoved
<1>5. QED
  BY <1>1, <1>2, <1>3, <1>4 DEF ConfStep

\* So does one merged into it.
LEMMA MergedIsConfStep ==
  ASSUME TypeOK, NEW f \in ConfPaths, NEW v1 \in BOOLEAN, NEW approve \in BOOLEAN,
         NEW p \in Procs, InstallMcp(p) \/ InstallToml(p),
         At(p, "install", "mcp"), f = ConfPath(job[p].target),
         conf[f].valid, v1 => f \in OpenCodes, approve => Approves(p),
         conf' = [conf EXCEPT ![f] = SetEntry(conf[f], v1, MergeEntry(EntryOf(conf[f], v1), approve))]
  PROVE  ConfStep
<1>1. conf[f] \in Conf /\ conf \in [ConfPaths -> Conf]
  BY DEF TypeOK
<1>2. SetEntry(conf[f], v1, MergeEntry(EntryOf(conf[f], v1), approve)) \in Conf
  BY <1>1, EntryTypes
<1>3. /\ conf'[f] = SetEntry(conf[f], v1, MergeEntry(EntryOf(conf[f], v1), approve))
      /\ \A g \in ConfPaths : g # f => conf'[g] = conf[g]
  BY <1>1
<1>4. EntryMerged(f)
  BY <1>3 DEF EntryMerged
<1>5. QED
  BY <1>1, <1>2, <1>3, <1>4 DEF ConfStep

\* The config of a target is OpenCode's only if the target is OpenCode.
LEMMA ConfPathOf ==
  \A t \in Targets : /\ t # "opencode" => ConfPath(t) = ConfigFile[t] /\ ConfPath(t) \notin OpenCodes
                     /\ t = "opencode" => ConfPath(t) \in OpenCodes
<1>1. "opencode" \in AllTargets
  BY DEF AllTargets
<1>2. QED
  BY <1>1, ConfigFilesDiffer, TargetsAssumption DEF ConfPath, OpenCodes

\* InstallMcp, with what it computes given names.
LEMMA InstallMcpStep ==
  ASSUME TypeOK, NEW p \in Procs, InstallMcp(p)
  PROVE  \E path \in ConfPaths, v1 \in BOOLEAN :
           /\ path = ConfPath(job[p].target)
           /\ v1 = WritesV1(job[p].target, conf[path], job[p].cmd.format)
           /\ v1 => path \in OpenCodes
           /\ conf[path].valid
           /\ conf' = [conf EXCEPT ![path] =
                         SetEntry(conf[path], v1, MergeEntry(EntryOf(conf[path], v1), Approves(p)))]
           /\ job' = [job EXCEPT ![p].path = path, ![p].v1 = v1,
                ![p].todo = (@ \ {"mcp"})
                            \cup {s \in {"migrate"} : OtherShape(job[p].target, conf[path], v1)}]
<1>1. job[p] # Idle
  BY DEF InstallMcp, At, Busy
<1>2. PICK t \in Targets : t = job[p].target
  BY <1>1, JobFields
<1>3. PICK path \in ConfPaths : path = ConfPath(t)
  BY <1>2, PathTypes
<1>4. PICK v1 \in BOOLEAN : v1 = WritesV1(t, conf[path], job[p].cmd.format)
  BY DEF WritesV1
<1>5. v1 => path \in OpenCodes
  BY <1>2, <1>3, <1>4, ConfPathOf DEF WritesV1
<1>6. QED
  BY <1>2, <1>3, <1>4, <1>5 DEF InstallMcp

\* Every step is one of these for each config.
LEMMA ConfSteps ==
  ASSUME TypeOK, [Next]_vars
  PROVE  ConfStep
<1>1. conf \in [ConfPaths -> Conf]
  BY DEF TypeOK
<1>2. ASSUME conf' = conf
      PROVE  ConfStep
  BY <1>1, <1>2 DEF ConfStep
<1>3. ASSUME NEW p \in Procs, InstallMcp(p)
      PROVE  ConfStep
  <2>1. Approves(p) \in BOOLEAN
    BY DEF Approves
  <2>2. At(p, "install", "mcp")
    BY <1>3 DEF InstallMcp
  <2>3. QED
    BY <1>3, <2>1, <2>2, InstallMcpStep, MergedIsConfStep
<1>4. ASSUME NEW p \in Procs, InstallToml(p)
      PROVE  ConfStep
  <2>1. PICK f \in ConfPaths : f = ConfigFile["codex"]
    <3>1. job[p].target \in Targets
      BY <1>4, JobFields DEF InstallToml, At, Busy
    <3>2. QED
      BY <1>4, <3>1, PathTypes DEF InstallToml
  <2>2. conf[f].valid /\ conf' = [conf EXCEPT ![f].v2 = MergeEntry(conf[f].v2, FALSE)]
    BY <1>4, <2>1 DEF InstallToml
  <2>3. conf' = [conf EXCEPT ![f] =
                   SetEntry(conf[f], FALSE, MergeEntry(EntryOf(conf[f], FALSE), FALSE))]
    BY <1>1, <2>2 DEF SetEntry, EntryOf
  <2>4. At(p, "install", "mcp") /\ f = ConfPath(job[p].target)
    BY <1>4, <2>1 DEF InstallToml, ConfPath
  <2>5. QED
    BY <1>4, <2>2, <2>3, <2>4, MergedIsConfStep
<1>5. ASSUME NEW p \in Procs, Migrate(p)
      PROVE  ConfStep
  <2>1. PICK f \in ConfPaths, v1 \in BOOLEAN : f = job[p].path /\ v1 = ~job[p].v1
    BY <1>5, JobFields DEF Migrate, At, Busy
  <2>2. conf' = conf \/ conf' = [conf EXCEPT ![f] = RemoveEntry(conf[f], v1)]
    BY <1>5, <2>1 DEF Migrate
  <2>3. Removing(p)
    BY <1>5 DEF Removing
  <2>4. QED
    BY <1>2, <2>2, <2>3, RemovedIsConfStep
<1>6. ASSUME NEW p \in Procs, RemoveMcp(p)
      PROVE  ConfStep
  <2>1. PICK f \in ConfPaths : f = ConfPath(job[p].target)
    BY <1>6, JobFields, PathTypes DEF RemoveMcp
  <2>2. PICK v1 \in BOOLEAN : conf' = [conf EXCEPT ![f] = RemoveEntry(conf[f], v1)]
    BY <1>6, <2>1 DEF RemoveMcp
  <2>3. Removing(p)
    BY <1>6 DEF RemoveMcp, At, Removing
  <2>4. QED
    BY <2>2, <2>3, RemovedIsConfStep
<1>7. ASSUME NEW p \in Procs, RemoveToml(p)
      PROVE  ConfStep
  <2>1. PICK f \in ConfPaths : f = ConfigFile["codex"]
    <3>1. job[p].target \in Targets
      BY <1>7, JobFields DEF RemoveToml, At, Busy
    <3>2. QED
      BY <1>7, <3>1, PathTypes DEF RemoveToml
  <2>2. conf[f].valid /\ conf' = [conf EXCEPT ![f].v2 = NoEntry]
    BY <1>7, <2>1 DEF RemoveToml
  <2>3. conf' = [conf EXCEPT ![f] = RemoveEntry(conf[f], FALSE)]
    BY <1>1, <2>2 DEF RemoveEntry, SetEntry
  <2>4. Removing(p)
    BY <1>7 DEF RemoveToml, At, Removing
  <2>5. QED
    BY <2>3, <2>4, RemovedIsConfStep
<1>8. ASSUME Edit
      PROVE  ConfStep
  <2>1. CASE EditConf
    <3>1. job' = job
      BY <1>8 DEF Edit
    <3>2. PICK f \in ConfPaths :
            \/ /\ conf[f].valid
               /\ conf' = [conf EXCEPT ![f].v1 = Custom(@), ![f].v2 = Custom(@)]
            \/ conf' = [conf EXCEPT ![f] = Spoil(conf[f], FALSE)]
            \/ conf' = [conf EXCEPT ![f] = Spoil(conf[f], TRUE)]
            \/ f = Preferred /\ conf' = [conf EXCEPT ![f].user = TRUE]
      BY <2>1 DEF EditConf
    <3>3. PICK c \in Conf : c = conf[f]
      BY <1>1
    <3>4. PICK k : k = conf'[f]
      OBVIOUS
    <3>5. \/ c.valid /\ k = [c EXCEPT !.v1 = Custom(c.v1), !.v2 = Custom(c.v2)]
          \/ \E v \in BOOLEAN : k = Spoil(c, v)
          \/ f = Preferred /\ k = [c EXCEPT !.user = TRUE]
      BY <1>1, <3>2, <3>3, <3>4
    <3>6. k \in Conf
      <4>1. \A v \in BOOLEAN : Spoil(c, v) \in Conf
        BY DEF Spoil, Conf
      <4>2. Custom(c.v1) \in Entry /\ Custom(c.v2) \in Entry
        BY DEF Custom, Conf, Entry
      <4>3. [c EXCEPT !.v1 = Custom(c.v1), !.v2 = Custom(c.v2)] \in Conf
        BY <4>2 DEF Conf
      <4>4. [c EXCEPT !.user = TRUE] \in Conf
        BY DEF Conf
      <4>5. QED
        BY <3>5, <4>1, <4>3, <4>4
    <3>7. ConfEdited(f)
      BY <3>1, <3>3, <3>4, <3>5 DEF ConfEdited
    <3>8. conf' = [conf EXCEPT ![f] = k]
      BY <1>1, <3>2, <3>4
    <3>9. QED
      BY <1>1, <3>6, <3>7, <3>8 DEF ConfStep
  <2>2. CASE ~EditConf
    BY <1>2, <1>8, <2>2 DEF Edit, EditOwn, EditText, EditSkill, EditSettings
  <2>3. QED
    BY <2>1, <2>2
<1>9. ASSUME NEW p \in Procs,
             \/ WriteWorker(p) \/ WriteInstructions(p) \/ WriteSkill(p)
             \/ RemoveWorker(p) \/ RemoveInstructions(p) \/ RemoveSkill(p)
             \/ Stamp(p) \/ EditPermissions(p) \/ EditHook(p)
      PROVE  conf' = conf
  BY <1>9 DEF WriteWorker, WriteInstructions, WriteSkill, RemoveWorker, RemoveInstructions,
              RemoveSkill, Stamp, EditPermissions, EditHook
<1>10. ASSUME NEW p \in Procs,
              \/ \E cmd \in Commands : Start(p, cmd)
              \/ BeginTarget(p) \/ End(p) \/ Crash(p) \/ Refuse(p)
       PROVE  conf' = conf
  BY <1>10 DEF Start, BeginTarget, End, Crash, Refuse, files
<1>11. CASE UNCHANGED vars
  BY <1>2, <1>11 DEF vars
<1>12. QED
  BY <1>2, <1>3, <1>4, <1>5, <1>6, <1>7, <1>8, <1>9, <1>10, <1>11 DEF Next, Install, Uninstall

\* A worker or a rule is written where no one else's file is, or removed where it is
\* memdag's; or people edit it while no command moves.
WorkerWritten(f) ==
  /\ own[f].by # "people"
  /\ \E p \in Procs, t \in Targets, pinned, allow \in BOOLEAN :
       /\ At(p, "install", "worker") /\ t = job[p].target /\ f = WorkerFile[t]
       /\ Pinned(f) => pinned
       /\ allow <=> "permissions" \in job[p].parts
       /\ own'[f] = WorkerText(t, pinned, allow)
RuleWritten(f) ==
  /\ own[f].by # "people"
  /\ \E p \in Procs : /\ At(p, "install", "instructions")
                       /\ job[p].target \in Targets \cap OwnRule
                       /\ f = InstructionsFile[job[p].target]
  /\ own'[f] = [Nobodys EXCEPT !.by = "memdag"]
OwnRemoved(f) ==
  /\ own[f].by = "memdag"
  /\ \E p \in Procs :
       \/ At(p, "uninstall", "worker") /\ f = WorkerFile[job[p].target]
       \/ /\ At(p, "uninstall", "instructions")
          /\ ~InstructionsShared(p)
          /\ job[p].target \in OwnRule
          /\ f = InstructionsFile[job[p].target]
  /\ own'[f] = Nobodys
OwnEdited(f) ==
  /\ job' = job
  /\ \/ /\ own[f].by = "memdag"
        /\ \E t \in Targets : f = WorkerFile[t]
        /\ own'[f] = [own[f] EXCEPT !.pinned = TRUE]
     \/ own[f].by = "nobody" /\ own'[f] = [own[f] EXCEPT !.by = "people"]

OwnStep ==
  /\ own' \in [OwnPaths -> Own]
  /\ \A f \in OwnPaths : \/ own'[f] = own[f]
                         \/ WorkerWritten(f) \/ RuleWritten(f) \/ OwnRemoved(f) \/ OwnEdited(f)

\* Writing where no such file can be writes nothing.
LEMMA OwnUpdate ==
  ASSUME TypeOK, NEW f, NEW x \in Own, own' = [own EXCEPT ![f] = x]
  PROVE  /\ own' \in [OwnPaths -> Own]
         /\ \A g \in OwnPaths : IF g = f THEN own'[g] = x ELSE own'[g] = own[g]
BY DEF TypeOK

\* Every step is one of these for each file that is all memdag's.
LEMMA OwnSteps ==
  ASSUME TypeOK, [Next]_vars
  PROVE  OwnStep
<1>1. own \in [OwnPaths -> Own]
  BY DEF TypeOK
<1>2. ASSUME own' = own
      PROVE  OwnStep
  BY <1>1, <1>2 DEF OwnStep
<1>3. Nobodys \in Own /\ [Nobodys EXCEPT !.by = "memdag"] \in Own
  BY DEF Nobodys, Own
<1>4. ASSUME NEW p \in Procs, WriteWorker(p)
      PROVE  OwnStep
  <2>1. job[p] # Idle
    BY <1>4 DEF WriteWorker, At, Busy
  <2>2. PICK t \in Targets : t = job[p].target
    BY <2>1, JobFields
  <2>3. PICK f : f = WorkerFile[t]
    OBVIOUS
  <2>4. PICK pinned \in {job[p].cmd.model \/ Pinned(f)} : TRUE
    OBVIOUS
  <2>5. PICK allow \in {"permissions" \in job[p].parts} : TRUE
    OBVIOUS
  <2>6. pinned \in BOOLEAN /\ allow \in BOOLEAN
    OBVIOUS
  <2>7. own' = [own EXCEPT ![f] = WorkerText(t, pinned, allow)] /\ own[f].by # "people"
    BY <1>4, <2>2, <2>3, <2>4, <2>5 DEF WriteWorker, MayWriteOwned
  <2>8. WorkerText(t, pinned, allow) \in Own
    BY <2>6 DEF WorkerText, Own
  <2>9. Pinned(f) => pinned
    BY <2>4
  <2>10. At(p, "install", "worker") /\ (allow <=> "permissions" \in job[p].parts)
    BY <1>4, <2>5 DEF WriteWorker
  <2>11. ASSUME f \in OwnPaths
         PROVE  WorkerWritten(f)
    <3>1. own'[f] = WorkerText(t, pinned, allow)
      BY <2>7, <2>8, <2>11, OwnUpdate
    <3>2. QED
      BY <2>2, <2>3, <2>5, <2>6, <2>7, <2>9, <2>10, <3>1, Zenon DEF WorkerWritten
  <2>12. QED
    BY <2>7, <2>8, <2>11, OwnUpdate DEF OwnStep
<1>5. ASSUME NEW p \in Procs, WriteInstructions(p)
      PROVE  OwnStep
  <2>1. job[p] # Idle
    BY <1>5 DEF WriteInstructions, At, Busy
  <2>2. PICK t \in Targets : t = job[p].target
    BY <2>1, JobFields
  <2>3. PICK f : f = InstructionsFile[t]
    OBVIOUS
  <2>4. CASE t \in OwnRule
    <3>1. own' = [own EXCEPT ![f] = [Nobodys EXCEPT !.by = "memdag"]] /\ own[f].by # "people"
      BY <1>5, <2>2, <2>3, <2>4 DEF WriteInstructions, MayWriteOwned
    <3>2. \A g \in OwnPaths : own'[g] = own[g] \/ RuleWritten(g)
      BY <1>3, <1>5, <2>2, <2>3, <2>4, <3>1, OwnUpdate DEF RuleWritten, WriteInstructions
    <3>3. QED
      BY <1>3, <3>1, <3>2, OwnUpdate DEF OwnStep
  <2>5. CASE t \notin OwnRule
    BY <1>2, <1>5, <2>2, <2>5 DEF WriteInstructions
  <2>6. QED
    BY <2>4, <2>5
<1>6. ASSUME NEW p \in Procs, NEW f, own' = WithoutOwned(f),
             \/ At(p, "uninstall", "worker") /\ f = WorkerFile[job[p].target]
             \/ /\ At(p, "uninstall", "instructions")
                /\ ~InstructionsShared(p)
                /\ job[p].target \in OwnRule
                /\ f = InstructionsFile[job[p].target]
      PROVE  OwnStep
  <2>1. CASE own[f].by = "memdag"
    <3>1. own' = [own EXCEPT ![f] = Nobodys]
      BY <1>6, <2>1 DEF WithoutOwned
    <3>2. \A g \in OwnPaths : own'[g] = own[g] \/ OwnRemoved(g)
      BY <1>3, <1>6, <2>1, <3>1, OwnUpdate DEF OwnRemoved
    <3>3. QED
      BY <1>3, <3>1, <3>2, OwnUpdate DEF OwnStep
  <2>2. CASE own[f].by # "memdag"
    BY <1>2, <1>6, <2>2 DEF WithoutOwned
  <2>3. QED
    BY <2>1, <2>2
<1>7. ASSUME NEW p \in Procs, RemoveWorker(p) \/ RemoveInstructions(p)
      PROVE  OwnStep
  BY <1>2, <1>6, <1>7 DEF RemoveWorker, RemoveInstructions
<1>8. ASSUME Edit
      PROVE  OwnStep
  <2>1. CASE EditOwn
    <3>1. PICK f \in OwnPaths :
            \/ /\ own[f].by = "memdag"
               /\ \E t \in Targets : f = WorkerFile[t]
               /\ own' = [own EXCEPT ![f].pinned = TRUE]
            \/ own[f].by = "nobody" /\ own' = [own EXCEPT ![f].by = "people"]
      BY <2>1 DEF EditOwn
    <3>2. job' = job
      BY <1>8 DEF Edit
    <3>3. PICK x \in Own : x = own[f]
      BY <1>1
    <3>4. [x EXCEPT !.pinned = TRUE] \in Own /\ [x EXCEPT !.by = "people"] \in Own
      BY DEF Own
    <3>5. PICK y \in Own :
            /\ own' = [own EXCEPT ![f] = y]
            /\ \/ /\ x.by = "memdag"
                  /\ \E t \in Targets : f = WorkerFile[t]
                  /\ y = [x EXCEPT !.pinned = TRUE]
               \/ x.by = "nobody" /\ y = [x EXCEPT !.by = "people"]
      BY <3>1, <3>3, <3>4
    <3>6. own'[f] = y
      BY <3>5, OwnUpdate
    <3>7. OwnEdited(f)
      BY <3>2, <3>3, <3>5, <3>6 DEF OwnEdited
    <3>8. QED
      BY <3>5, <3>7, OwnUpdate DEF OwnStep
  <2>2. CASE ~EditOwn
    BY <1>2, <1>8, <2>2 DEF Edit, EditConf, EditText, EditSkill, EditSettings
  <2>3. QED
    BY <2>1, <2>2
<1>9. ASSUME NEW p \in Procs,
             \/ InstallMcp(p) \/ InstallToml(p) \/ Migrate(p) \/ WriteSkill(p)
             \/ RemoveMcp(p) \/ RemoveToml(p) \/ RemoveSkill(p)
             \/ Stamp(p) \/ EditPermissions(p) \/ EditHook(p)
      PROVE  own' = own
  BY <1>9 DEF InstallMcp, InstallToml, Migrate, WriteSkill, RemoveMcp, RemoveToml,
              RemoveSkill, Stamp, EditPermissions, EditHook
<1>10. ASSUME NEW p \in Procs,
              \/ \E cmd \in Commands : Start(p, cmd)
              \/ BeginTarget(p) \/ End(p) \/ Crash(p) \/ Refuse(p)
       PROVE  own' = own
  BY <1>10 DEF Start, BeginTarget, End, Crash, Refuse, files
<1>11. CASE UNCHANGED vars
  BY <1>2, <1>11 DEF vars
<1>12. QED
  BY <1>2, <1>4, <1>5, <1>7, <1>8, <1>9, <1>10, <1>11 DEF Next, Install, Uninstall

\* A block is written or removed where the markers pair up; or people break and mend
\* the markers while no command moves.
TextWritten(f) ==
  /\ \E p \in Procs : /\ At(p, "install", "instructions")
                      /\ job[p].target \notin OwnRule
                      /\ f = Real(InstructionsFile[job[p].target])
  /\ text'[f] = "ours"
TextRemoved(f) ==
  /\ \E p \in Procs : /\ At(p, "uninstall", "instructions")
                      /\ ~InstructionsShared(p)
                      /\ job[p].target \notin OwnRule
                      /\ f = Real(InstructionsFile[job[p].target])
  /\ text'[f] = "none"

TextStep ==
  /\ text' \in [TextPaths -> Text]
  /\ \A f \in TextPaths :
       \/ text'[f] = text[f]
       \/ text[f] # "unbalanced" /\ TextWritten(f)
       \/ text[f] # "unbalanced" /\ TextRemoved(f)
       \/ job' = job /\ {text[f], text'[f]} = {"ours", "unbalanced"}

\* Every step is one of these for each shared file.
LEMMA TextSteps ==
  ASSUME TypeOK, [Next]_vars
  PROVE  TextStep
<1>1. text \in [TextPaths -> Text]
  BY DEF TypeOK
<1>2. ASSUME text' = text
      PROVE  TextStep
  BY <1>1, <1>2 DEF TextStep
<1>3. ASSUME NEW f, NEW x \in {"ours", "none"}, text[f] # "unbalanced", text' = [text EXCEPT ![f] = x],
             text'[f] = x => TextWritten(f) \/ TextRemoved(f)
      PROVE  TextStep
  <2>1. x \in Text
    BY DEF Text
  <2>2. text' \in [TextPaths -> Text]
    BY <1>1, <1>3, <2>1
  <2>3. \A g \in TextPaths : IF g = f THEN text'[g] = x ELSE text'[g] = text[g]
    BY <1>1, <1>3
  <2>4. QED
    BY <1>3, <2>2, <2>3 DEF TextStep
<1>4. ASSUME NEW p \in Procs, WriteInstructions(p) \/ RemoveInstructions(p)
      PROVE  TextStep
  <2>1. PICK f : f = Real(InstructionsFile[job[p].target])
    OBVIOUS
  <2>2. \/ text' = text
        \/ /\ At(p, "install", "instructions") /\ job[p].target \notin OwnRule
           /\ text[f] # "unbalanced"
           /\ text' = [text EXCEPT ![f] = "ours"]
        \/ /\ At(p, "uninstall", "instructions") /\ job[p].target \notin OwnRule
           /\ ~InstructionsShared(p)
           /\ text[f] # "unbalanced"
           /\ text' = [text EXCEPT ![f] = "none"]
    BY <1>4, <2>1 DEF WriteInstructions, RemoveInstructions, Upsert, RemoveBlock
  <2>3. QED
    BY <1>2, <1>3, <2>1, <2>2 DEF TextWritten, TextRemoved
<1>5. ASSUME Edit
      PROVE  TextStep
  <2>1. CASE EditText
    <3>1. PICK f \in TextPaths, x \in {"ours", "unbalanced"} :
            text' = [text EXCEPT ![f] = x] /\ {text[f], x} = {"ours", "unbalanced"}
      BY <2>1 DEF EditText
    <3>2. job' = job /\ x \in Text
      BY <1>5 DEF Edit, Text
    <3>3. text' \in [TextPaths -> Text]
      BY <1>1, <3>1, <3>2
    <3>4. text'[f] = x /\ \A g \in TextPaths : g # f => text'[g] = text[g]
      BY <1>1, <3>1
    <3>5. QED
      BY <3>1, <3>2, <3>3, <3>4 DEF TextStep
  <2>2. CASE ~EditText
    BY <1>2, <1>5, <2>2 DEF Edit, EditConf, EditOwn, EditSkill, EditSettings
  <2>3. QED
    BY <2>1, <2>2
<1>6. ASSUME NEW p \in Procs,
             \/ InstallMcp(p) \/ InstallToml(p) \/ Migrate(p) \/ WriteWorker(p) \/ WriteSkill(p)
             \/ RemoveMcp(p) \/ RemoveToml(p) \/ RemoveWorker(p) \/ RemoveSkill(p)
             \/ Stamp(p) \/ EditPermissions(p) \/ EditHook(p)
      PROVE  text' = text
  BY <1>6 DEF InstallMcp, InstallToml, Migrate, WriteWorker, WriteSkill, RemoveMcp, RemoveToml,
              RemoveWorker, RemoveSkill, Stamp, EditPermissions, EditHook
<1>7. ASSUME NEW p \in Procs,
             \/ \E cmd \in Commands : Start(p, cmd)
             \/ BeginTarget(p) \/ End(p) \/ Crash(p) \/ Refuse(p)
      PROVE  text' = text
  BY <1>7 DEF Start, BeginTarget, End, Crash, Refuse, files
<1>8. CASE UNCHANGED vars
  BY <1>2, <1>8 DEF vars
<1>9. QED
  BY <1>2, <1>4, <1>5, <1>6, <1>7, <1>8 DEF Next, Install, Uninstall

\* SKILL.md is written or removed, the stamp set or removed, by a command at that step;
\* or people write a SKILL.md where there is nothing, while no command moves.
SkillFor(p, op, s, d) == At(p, op, s) /\ d = SkillDir[job[p].target]
SkillStep ==
  /\ skill' \in [SkillDirs -> Skill]
  /\ \A d \in SkillDirs :
       \/ skill'[d] = skill[d]
       \/ /\ \E p \in Procs : WriteSkill(p) /\ SkillFor(p, "install", "skill", d)
          /\ skill[d].md = "none" \/ skill[d].stamp
          /\ skill'[d] = [skill[d] EXCEPT !.md = "ours"]
       \/ /\ \E p \in Procs : RemoveSkill(p) /\ SkillFor(p, "uninstall", "skill", d)
          /\ skill[d].stamp
          /\ skill'[d] = [skill[d] EXCEPT !.md = "none"]
       \/ /\ \E p \in Procs : Stamp(p) /\ SkillFor(p, "install", "stamp", d)
          /\ skill'[d] = [skill[d] EXCEPT !.stamp = TRUE]
       \/ /\ \E p \in Procs : Stamp(p) /\ SkillFor(p, "uninstall", "stamp", d)
          /\ skill'[d] = [skill[d] EXCEPT !.stamp = FALSE]
       \/ /\ job' = job
          /\ skill[d].md = "none"
          /\ ~skill[d].stamp
          /\ skill'[d] = [skill[d] EXCEPT !.md = "foreign"]

\* Every step is one of these for each skill folder.
LEMMA SkillSteps ==
  ASSUME TypeOK, [Next]_vars
  PROVE  SkillStep
<1>1. skill \in [SkillDirs -> Skill]
  BY DEF TypeOK
<1>2. ASSUME skill' = skill
      PROVE  SkillStep
  BY <1>1, <1>2 DEF SkillStep
<1>3. \A d \in SkillDirs : /\ \A md \in {"none", "ours", "foreign"} : [skill[d] EXCEPT !.md = md] \in Skill
                           /\ \A b \in BOOLEAN : [skill[d] EXCEPT !.stamp = b] \in Skill
  BY <1>1 DEF Skill
<1>4. ASSUME NEW p \in Procs, WriteSkill(p) \/ RemoveSkill(p)
      PROVE  SkillStep
  <2>1. job[p] # Idle
    BY <1>4 DEF WriteSkill, RemoveSkill, At, Busy
  <2>2. PICK d \in SkillDirs : d = SkillDir[job[p].target]
    BY <2>1, JobFields, PathTypes
  <2>3. CASE skill' = skill
    BY <1>2, <2>3
  <2>4. CASE WriteSkill(p) /\ skill' # skill
    <3>1. /\ SkillFor(p, "install", "skill", d)
          /\ skill[d].md = "none" \/ skill[d].stamp
          /\ skill' = [skill EXCEPT ![d].md = "ours"]
      BY <2>2, <2>4 DEF WriteSkill, SkillFor
    <3>2. skill' \in [SkillDirs -> Skill]
      BY <1>1, <1>3, <3>1
    <3>3. /\ skill'[d] = [skill[d] EXCEPT !.md = "ours"]
          /\ \A e \in SkillDirs : e # d => skill'[e] = skill[e]
      BY <1>1, <3>1
    <3>4. QED
      BY <2>4, <3>1, <3>2, <3>3 DEF SkillStep
  <2>5. CASE RemoveSkill(p) /\ skill' # skill
    <3>1. /\ SkillFor(p, "uninstall", "skill", d)
          /\ skill[d].stamp
          /\ skill' = [skill EXCEPT ![d].md = "none"]
      BY <2>2, <2>5 DEF RemoveSkill, SkillFor
    <3>2. skill' \in [SkillDirs -> Skill]
      BY <1>1, <1>3, <3>1
    <3>3. /\ skill'[d] = [skill[d] EXCEPT !.md = "none"]
          /\ \A e \in SkillDirs : e # d => skill'[e] = skill[e]
      BY <1>1, <3>1
    <3>4. QED
      BY <2>5, <3>1, <3>2, <3>3 DEF SkillStep
  <2>6. QED
    BY <1>4, <2>3, <2>4, <2>5
<1>5. ASSUME NEW p \in Procs, Stamp(p)
      PROVE  SkillStep
  <2>1. job[p] # Idle
    BY <1>5 DEF Stamp
  <2>2. PICK d \in SkillDirs : d = SkillDir[job[p].target]
    BY <2>1, JobFields, PathTypes
  <2>3. PICK op \in {"install", "uninstall"} : op = job[p].cmd.op
    BY <2>1, JobFields
  <2>4. PICK b \in BOOLEAN : b <=> op = "install"
    OBVIOUS
  <2>5. SkillFor(p, op, "stamp", d) /\ skill' = [skill EXCEPT ![d].stamp = b]
    BY <1>5, <2>1, <2>2, <2>3, <2>4 DEF Stamp, SkillFor, At, Busy
  <2>6. skill' \in [SkillDirs -> Skill]
    BY <1>1, <1>3, <2>5
  <2>7. /\ skill'[d] = [skill[d] EXCEPT !.stamp = b]
        /\ \A e \in SkillDirs : e # d => skill'[e] = skill[e]
    BY <1>1, <2>5
  <2>8. CASE op = "install"
    BY <1>5, <2>4, <2>5, <2>6, <2>7, <2>8 DEF SkillStep
  <2>9. CASE op = "uninstall"
    BY <1>5, <2>4, <2>5, <2>6, <2>7, <2>9 DEF SkillStep
  <2>10. QED
    BY <2>8, <2>9
<1>6. ASSUME Edit
      PROVE  SkillStep
  <2>1. CASE EditSkill
    <3>1. PICK d \in SkillDirs : /\ skill[d].md = "none" /\ ~skill[d].stamp
                                 /\ skill' = [skill EXCEPT ![d].md = "foreign"]
      BY <2>1 DEF EditSkill
    <3>2. job' = job
      BY <1>6 DEF Edit
    <3>3. skill' \in [SkillDirs -> Skill]
      BY <1>1, <1>3, <3>1
    <3>4. /\ skill'[d] = [skill[d] EXCEPT !.md = "foreign"]
          /\ \A e \in SkillDirs : e # d => skill'[e] = skill[e]
      BY <1>1, <3>1
    <3>5. QED
      BY <3>1, <3>2, <3>3, <3>4 DEF SkillStep
  <2>2. CASE ~EditSkill
    BY <1>2, <1>6, <2>2 DEF Edit, EditConf, EditOwn, EditText, EditSettings
  <2>3. QED
    BY <2>1, <2>2
<1>7. ASSUME NEW p \in Procs,
             \/ InstallMcp(p) \/ InstallToml(p) \/ Migrate(p) \/ WriteWorker(p)
             \/ WriteInstructions(p) \/ RemoveMcp(p) \/ RemoveToml(p) \/ RemoveWorker(p)
             \/ RemoveInstructions(p) \/ EditPermissions(p) \/ EditHook(p)
      PROVE  skill' = skill
  BY <1>7 DEF InstallMcp, InstallToml, Migrate, WriteWorker, WriteInstructions, RemoveMcp,
              RemoveToml, RemoveWorker, RemoveInstructions, EditPermissions, EditHook
<1>8. ASSUME NEW p \in Procs,
             \/ \E cmd \in Commands : Start(p, cmd)
             \/ BeginTarget(p) \/ End(p) \/ Crash(p) \/ Refuse(p)
      PROVE  skill' = skill
  BY <1>8 DEF Start, BeginTarget, End, Crash, Refuse, files
<1>9. CASE UNCHANGED vars
  BY <1>2, <1>9 DEF vars
<1>10. QED
  BY <1>2, <1>4, <1>5, <1>6, <1>7, <1>8, <1>9 DEF Next, Install, Uninstall

\* Claude Code's settings: one of memdag's two pieces is set or removed by a command at
\* that step; or people break and mend the file, or mention one of them elsewhere in it,
\* while no command moves.
SettingsStep ==
  \/ settings' = settings
  \/ /\ settings.valid
     /\ \/ \E p \in Procs : At(p, "install", "permissions") /\ settings' = [settings EXCEPT !.allow = TRUE]
        \/ \E p \in Procs : At(p, "uninstall", "permissions") /\ settings' = [settings EXCEPT !.allow = FALSE]
        \/ \E p \in Procs : At(p, "install", "hooks") /\ settings' = [settings EXCEPT !.hook = TRUE]
        \/ \E p \in Procs : At(p, "uninstall", "hooks") /\ settings' = [settings EXCEPT !.hook = FALSE]
  \/ job' = job /\ \E v \in BOOLEAN : settings' = [settings EXCEPT !.valid = v]
  \/ job' = job /\ \E m \in SUBSET Mentions :
                    settings' = [settings EXCEPT !.mentions = settings.mentions \cup m]

\* Every step is one of these for the settings.
LEMMA SettingsSteps ==
  ASSUME TypeOK, [Next]_vars
  PROVE  SettingsStep /\ settings' \in Settings
<1>1. SettingsStep
  <2>1. ASSUME NEW p \in Procs, EditPermissions(p) \/ EditHook(p)
        PROVE  SettingsStep
    BY <2>1 DEF EditPermissions, EditHook, SettingsStep
  <2>2. ASSUME Edit
        PROVE  SettingsStep
    BY <2>2 DEF Edit, EditConf, EditOwn, EditText, EditSkill, EditSettings, SettingsStep
  <2>3. ASSUME NEW p \in Procs,
               \/ InstallMcp(p) \/ InstallToml(p) \/ Migrate(p) \/ WriteWorker(p)
               \/ WriteInstructions(p) \/ WriteSkill(p) \/ RemoveMcp(p) \/ RemoveToml(p)
               \/ RemoveWorker(p) \/ RemoveInstructions(p) \/ RemoveSkill(p) \/ Stamp(p)
        PROVE  settings' = settings
    BY <2>3 DEF InstallMcp, InstallToml, Migrate, WriteWorker, WriteInstructions, WriteSkill,
                RemoveMcp, RemoveToml, RemoveWorker, RemoveInstructions, RemoveSkill, Stamp
  <2>4. ASSUME NEW p \in Procs,
               \/ \E cmd \in Commands : Start(p, cmd)
               \/ BeginTarget(p) \/ End(p) \/ Crash(p) \/ Refuse(p)
        PROVE  settings' = settings
    BY <2>4 DEF Start, BeginTarget, End, Crash, Refuse, files
  <2>5. CASE UNCHANGED vars
    BY <2>5 DEF vars, SettingsStep
  <2>6. ASSUME settings' = settings
        PROVE  SettingsStep
    BY <2>6 DEF SettingsStep
  <2>7. QED
    BY <2>1, <2>2, <2>3, <2>4, <2>5, <2>6 DEF Next, Install, Uninstall
<1>2. settings \in Settings
  BY DEF TypeOK
<1>3. \A b \in BOOLEAN : /\ [settings EXCEPT !.allow = b] \in Settings
                         /\ [settings EXCEPT !.hook = b] \in Settings
                         /\ [settings EXCEPT !.valid = b] \in Settings
  BY <1>2 DEF Settings
<1>6. \A m \in SUBSET Mentions :
        [settings EXCEPT !.mentions = settings.mentions \cup m] \in Settings
  BY <1>2 DEF Settings
<1>4. settings' \in Settings
  BY <1>1, <1>2, <1>3, <1>6 DEF SettingsStep
<1>5. QED
  BY <1>1, <1>4

\* Only instructions and stamps are promised, each to the target a command writes them
\* for; and where anything is written, only installed targets keep their promises.
LEMMA PromiseSteps ==
  ASSUME TypeOK, [Next]_vars
  PROVE  \/ promised' \subseteq promised
         \/ \E p \in Procs :
              \/ WriteInstructions(p)
                 /\ promised' \subseteq promised \cup {<<job[p].target, "instructions">>}
              \/ Stamp(p) /\ job[p].cmd.op = "install"
                 /\ promised' \subseteq promised \cup {<<job[p].target, "skill">>}
<1>1. ASSUME NEW p \in Procs, WriteInstructions(p)
      PROVE  promised' \subseteq promised \cup {<<job[p].target, "instructions">>}
  BY <1>1 DEF WriteInstructions, Remember
<1>2. ASSUME NEW p \in Procs, Stamp(p)
      PROVE  \/ promised' \subseteq promised
             \/ job[p].cmd.op = "install"
                /\ promised' \subseteq promised \cup {<<job[p].target, "skill">>}
  BY <1>2 DEF Stamp, Remember
<1>3. ASSUME NEW p \in Procs,
             \/ InstallMcp(p) \/ InstallToml(p) \/ Migrate(p) \/ WriteWorker(p)
             \/ RemoveMcp(p) \/ RemoveToml(p) \/ RemoveWorker(p) \/ RemoveInstructions(p)
      PROVE  promised' \subseteq promised
  BY <1>3 DEF InstallMcp, InstallToml, Migrate, WriteWorker, RemoveMcp, RemoveToml,
              RemoveWorker, RemoveInstructions, Remember
<1>4. ASSUME NEW p \in Procs,
             \/ WriteSkill(p) \/ RemoveSkill(p) \/ EditPermissions(p) \/ EditHook(p)
             \/ \E cmd \in Commands : Start(p, cmd)
             \/ BeginTarget(p) \/ End(p) \/ Crash(p) \/ Refuse(p)
      PROVE  promised' \subseteq promised
  BY <1>4 DEF WriteSkill, RemoveSkill, EditPermissions, EditHook,
              Start, BeginTarget, End, Crash, Refuse, Remember
<1>5. CASE Edit
  BY <1>5 DEF Edit, Remember
<1>6. CASE UNCHANGED vars
  BY <1>6 DEF vars
<1>7. QED
  BY <1>1, <1>2, <1>3, <1>4, <1>5, <1>6 DEF Next, Install, Uninstall

\* Places become torn when a command dies or passes over a config, and are mended by
\* Migrate and Stamp only.
LEMMA TornSteps ==
  ASSUME TypeOK, [Next]_vars
  PROVE  /\ torn' \subseteq torn \cup ConfPaths \cup SkillDirs
         /\ \/ torn \subseteq torn'
            \/ \E p \in Procs : Migrate(p) /\ torn' = torn \ {job[p].path}
            \/ \E p \in Procs : Stamp(p) /\ torn' = torn \ {SkillDir[job[p].target]}
<1>1. ASSUME NEW p \in Procs, Crash(p)
      PROVE  torn \subseteq torn' /\ torn' \subseteq torn \cup ConfPaths \cup SkillDirs
  <2>1. job[p].path \in ConfPaths /\ SkillDir[job[p].target] \in SkillDirs
    BY <1>1, JobFields, PathTypes DEF Crash
  <2>2. QED
    BY <1>1, <2>1 DEF Crash
<1>2. ASSUME NEW p \in Procs, Migrate(p)
      PROVE  /\ torn' \subseteq torn \cup ConfPaths \cup SkillDirs
             /\ torn \subseteq torn' \/ torn' = torn \ {job[p].path}
  <2>1. job[p].path \in ConfPaths
    BY <1>2, JobFields DEF Migrate, At, Busy
  <2>2. torn' = torn \ {job[p].path} \/ torn' = torn \cup {job[p].path}
    BY <1>2 DEF Migrate
  <2>3. QED
    BY <2>1, <2>2
<1>3. ASSUME NEW p \in Procs, RemoveMcp(p)
      PROVE  torn \subseteq torn' /\ torn' \subseteq torn \cup ConfPaths \cup SkillDirs
  <2>1. ConfPath(job[p].target) \in ConfPaths
    BY <1>3, JobFields, PathTypes DEF RemoveMcp
  <2>2. QED
    BY <1>3, <2>1 DEF RemoveMcp
<1>4. ASSUME NEW p \in Procs, Stamp(p)
      PROVE  torn' = torn \ {SkillDir[job[p].target]}
  BY <1>4 DEF Stamp
<1>5. ASSUME NEW p \in Procs,
             \/ InstallMcp(p) \/ InstallToml(p) \/ WriteWorker(p)
             \/ WriteInstructions(p) \/ WriteSkill(p) \/ RemoveToml(p)
             \/ RemoveWorker(p) \/ RemoveInstructions(p) \/ RemoveSkill(p)
             \/ EditPermissions(p) \/ EditHook(p)
      PROVE  torn' = torn
  BY <1>5 DEF InstallMcp, InstallToml, WriteWorker, WriteInstructions, WriteSkill,
              RemoveToml, RemoveWorker, RemoveInstructions, RemoveSkill,
              EditPermissions, EditHook
<1>6. ASSUME NEW p \in Procs,
             \/ \E cmd \in Commands : Start(p, cmd)
             \/ BeginTarget(p) \/ End(p) \/ Refuse(p)
      PROVE  torn' = torn
  BY <1>6 DEF Start, BeginTarget, End, Refuse
<1>7. CASE Edit \/ UNCHANGED vars
  BY <1>7 DEF Edit, vars
<1>8. QED
  BY <1>1, <1>2, <1>3, <1>4, <1>5, <1>6, <1>7 DEF Next, Install, Uninstall

\* The bounds on commands and edits are kept.
LEMMA CountSteps ==
  ASSUME TypeOK, [Next]_vars
  PROVE  commands' \in 0..MaxCommands /\ edits' \in 0..MaxEdits
<1>1. commands \in 0..MaxCommands /\ edits \in 0..MaxEdits
  BY DEF TypeOK
<1>2. ASSUME NEW p \in Procs, NEW cmd \in Commands, Start(p, cmd)
      PROVE  commands' \in 0..MaxCommands /\ edits' = edits
  <2>1. commands < MaxCommands /\ commands' = commands + 1 /\ edits' = edits
    BY <1>2 DEF Start
  <2>2. QED
    BY <1>1, <2>1, BoundsAssumption
<1>3. ASSUME Edit
      PROVE  edits' \in 0..MaxEdits /\ commands' = commands
  <2>1. edits < MaxEdits /\ edits' = edits + 1 /\ commands' = commands
    BY <1>3 DEF Edit
  <2>2. QED
    BY <1>1, <2>1, BoundsAssumption
<1>4. ASSUME NEW p \in Procs,
             \/ InstallMcp(p) \/ InstallToml(p) \/ Migrate(p) \/ WriteWorker(p)
             \/ WriteInstructions(p) \/ WriteSkill(p) \/ RemoveMcp(p) \/ RemoveToml(p)
             \/ RemoveWorker(p) \/ RemoveInstructions(p) \/ RemoveSkill(p) \/ Stamp(p)
             \/ EditPermissions(p) \/ EditHook(p)
      PROVE  UNCHANGED counts
  BY <1>4 DEF InstallMcp, InstallToml, Migrate, WriteWorker, WriteInstructions, WriteSkill,
              RemoveMcp, RemoveToml, RemoveWorker, RemoveInstructions, RemoveSkill, Stamp,
              EditPermissions, EditHook
<1>5. ASSUME NEW p \in Procs, BeginTarget(p) \/ End(p) \/ Crash(p) \/ Refuse(p)
      PROVE  UNCHANGED counts
  BY <1>5 DEF BeginTarget, End, Crash, Refuse
<1>6. CASE UNCHANGED vars
  BY <1>1, <1>6 DEF vars
<1>7. ASSUME UNCHANGED counts
      PROVE  commands' \in 0..MaxCommands /\ edits' \in 0..MaxEdits
  BY <1>1, <1>7 DEF counts
<1>8. QED
  BY <1>1, <1>2, <1>3, <1>4, <1>5, <1>6, <1>7 DEF Next, Install, Uninstall

\* So every step keeps the types.
LEMMA TypeStep ==
  ASSUME TypeOK, [Next]_vars
  PROVE  TypeOK'
<1>1. /\ conf' \in [ConfPaths -> Conf] /\ own' \in [OwnPaths -> Own]
      /\ text' \in [TextPaths -> Text] /\ skill' \in [SkillDirs -> Skill]
      /\ settings' \in Settings
  BY ConfSteps, OwnSteps, TextSteps, SkillSteps, SettingsSteps
     DEF ConfStep, OwnStep, TextStep, SkillStep
<1>2. JobsType'
  BY JobsTypeStep
<1>3. promised' \subseteq Targets \X Shared
  <2>1. promised \subseteq Targets \X Shared
    BY DEF TypeOK
  <2>2. ASSUME NEW p \in Procs, WriteInstructions(p) \/ Stamp(p)
        PROVE  {<<job[p].target, "instructions">>, <<job[p].target, "skill">>}
                 \subseteq Targets \X Shared
    <3>1. job[p].target \in Targets
      BY <2>2, JobFields DEF WriteInstructions, Stamp, At, Busy
    <3>2. QED
      BY <3>1 DEF Shared
  <2>3. QED
    BY <2>1, <2>2, PromiseSteps
<1>4. torn' \subseteq ConfPaths \cup SkillDirs
  BY TornSteps DEF TypeOK
<1>5. commands' \in 0..MaxCommands /\ edits' \in 0..MaxEdits
  BY CountSteps
<1>6. QED
  BY <1>1, <1>2, <1>3, <1>4, <1>5 DEF TypeOK, JobsType

\* The files memdag first finds are well formed, and no command runs.
LEMMA InitType ==
  ASSUME Init
  PROVE  TypeOK
<1>1. PICK b \in Files : /\ conf = b.conf /\ text = b.text /\ own = b.own
                         /\ skill = b.skill /\ settings = b.settings
  BY BeginAssumption DEF Init
<1>2. /\ conf \in [ConfPaths -> Conf] /\ own \in [OwnPaths -> Own]
      /\ text \in [TextPaths -> Text] /\ skill \in [SkillDirs -> Skill]
      /\ settings \in Settings
  BY <1>1 DEF Files
<1>3. job \in [Procs -> Job \cup {Idle}] /\ promised = {} /\ torn = {}
  BY DEF Init
<1>4. commands \in 0..MaxCommands /\ edits \in 0..MaxEdits
  BY BoundsAssumption DEF Init
<1>5. QED
  BY <1>2, <1>3, <1>4 DEF TypeOK

\* Files, running commands and the histories always have the shape the code gives them,
\* with any number of commands running at once and dying anywhere.
THEOREM TypeCorrect == Spec => []TypeOK
BY InitType, TypeStep, PTL DEF Spec

-----------------------------------------------------------------------------
(***************************************************************************)
(* One command among others                                                *)
(***************************************************************************)

Works(p) == Install(p) \/ Uninstall(p) \/ Stamp(p) \/ EditPermissions(p) \/ EditHook(p)
Stops(p) == End(p) \/ Crash(p) \/ Refuse(p)
Moves(p) == (\E cmd \in Commands : Start(p, cmd)) \/ BeginTarget(p) \/ Works(p) \/ Stops(p)

\* All that works but InstallMcp takes steps off the list.
LEMMA WorkIsDone ==
  ASSUME NEW p \in Procs, Works(p), ~InstallMcp(p)
  PROVE  job[p] # Idle /\ \E steps : Done(p, steps)
<1>1. CASE Install(p)
  BY <1>1 DEF Install, InstallToml, Migrate, WriteWorker, WriteInstructions, WriteSkill, At, Busy
<1>2. CASE Uninstall(p)
  BY <1>2 DEF Uninstall, RemoveMcp, RemoveToml, RemoveWorker, RemoveInstructions, RemoveSkill,
              At, Busy
<1>3. CASE Stamp(p) \/ EditPermissions(p) \/ EditHook(p)
  BY <1>3 DEF Stamp, EditPermissions, EditHook, At, Busy
<1>4. QED
  BY <1>1, <1>2, <1>3 DEF Works

\* What InstallMcp does to the command.
LEMMA InstallMcpJob ==
  ASSUME TypeOK, NEW p \in Procs, InstallMcp(p)
  PROVE  /\ job[p] # Idle /\ job'[p] # Idle
         /\ job'[p].cmd = job[p].cmd /\ job'[p].left = job[p].left
         /\ job'[p].target = job[p].target /\ job'[p].parts = job[p].parts
         /\ job'[p].remaining = job[p].remaining
         /\ job'[p].path = ConfPath(job[p].target)
         /\ job'[p].todo = (job[p].todo \ {"mcp"})
              \cup {s \in {"migrate"} : OtherShape(job[p].target, conf[job'[p].path], job'[p].v1)}
         /\ job'[p].v1 = WritesV1(job[p].target, conf[job'[p].path], job[p].cmd.format)
         /\ \A q \in Procs : q # p => job'[q] = job[q]
<1>1. job[p] # Idle
  BY DEF InstallMcp, At, Busy
<1>2. PICK j \in Job : j = job[p]
  BY <1>1, JobFields
<1> DEFINE path == ConfPath(j.target)
           v1   == WritesV1(j.target, conf[path], j.cmd.format)
<1>3. /\ path \in ConfPaths /\ v1 \in BOOLEAN
      /\ job' = [job EXCEPT ![p].path = path, ![p].v1 = v1,
           ![p].todo = (@ \ {"mcp"}) \cup {s \in {"migrate"} : OtherShape(j.target, conf[path], v1)}]
  <2>1. path \in ConfPaths
    BY <1>1, <1>2, JobFields, PathTypes
  <2>2. v1 \in BOOLEAN
    BY DEF WritesV1
  <2>3. QED
    BY <1>2, <2>1, <2>2 DEF InstallMcp
<1> HIDE DEF path, v1
<1>4. PICK more : more = {s \in {"migrate"} : OtherShape(j.target, conf[path], v1)}
  OBVIOUS
<1>5. PICK k : k = [j EXCEPT !.path = path, !.v1 = v1, !.todo = (@ \ {"mcp"}) \cup more]
  OBVIOUS
<1>6. job'[p] = k /\ \A q \in Procs : q # p => job'[q] = job[q]
  BY <1>2, <1>3, <1>4, <1>5 DEF TypeOK
<1>7. /\ k.cmd = j.cmd /\ k.left = j.left /\ k.target = j.target /\ k.parts = j.parts
      /\ k.remaining = j.remaining /\ k.path = path /\ k.v1 = v1
      /\ k.todo = (j.todo \ {"mcp"}) \cup more
  BY <1>5 DEF Job
<1>8. k \in Job
  <2>1. "migrate" \in Steps
    BY DEF Steps, Rank
  <2>2. more \subseteq Steps
    BY <1>4, <2>1
  <2>3. QED
    BY <1>3, <1>5, <2>2 DEF Job
<1>9. k # Idle
  BY <1>8, IdleIsNoJob
<1>10. QED
  BY <1>1, <1>2, <1>4, <1>6, <1>7, <1>9 DEF path, v1

\* What BeginTarget does to the command.
LEMMA BeginTargetJob ==
  ASSUME TypeOK, NEW p \in Procs, BeginTarget(p)
  PROVE  \E t \in job[p].left :
           /\ job[p] # Idle /\ job[p].todo = {}
           /\ job'[p].cmd = job[p].cmd /\ job'[p].left = job[p].left \ {t}
           /\ job'[p].target = t
           /\ job'[p].parts = PartsFor(job[p].cmd, t)
           /\ job'[p].remaining = job[p].remaining
           /\ job'[p].todo = Plan(job[p].cmd.op, t, PartsFor(job[p].cmd, t))
           /\ \A q \in Procs : q # p => job'[q] = job[q]
<1>1. job[p] # Idle
  BY DEF BeginTarget
<1>2. PICK j \in Job : j = job[p]
  BY <1>1, JobFields
<1>3. PICK t \in j.left :
        job' = [job EXCEPT ![p].left = @ \ {t}, ![p].target = t,
                           ![p].parts = PartsFor(j.cmd, t),
                           ![p].todo = Plan(j.cmd.op, t, PartsFor(j.cmd, t))]
  BY <1>2 DEF BeginTarget
<1>4. PICK parts, todo : parts = PartsFor(j.cmd, t) /\ todo = Plan(j.cmd.op, t, PartsFor(j.cmd, t))
  OBVIOUS
<1>5. PICK k : k = [j EXCEPT !.left = @ \ {t}, !.target = t, !.parts = parts, !.todo = todo]
  OBVIOUS
<1>6. job'[p] = k /\ \A q \in Procs : q # p => job'[q] = job[q]
  BY <1>2, <1>3, <1>4, <1>5 DEF TypeOK
<1>7. /\ k.cmd = j.cmd /\ k.left = j.left \ {t} /\ k.target = t /\ k.parts = parts
      /\ k.remaining = j.remaining /\ k.todo = todo
  BY <1>5 DEF Job
<1>8. j.todo = {}
  BY <1>2 DEF BeginTarget
<1>9. QED
  BY <1>1, <1>2, <1>4, <1>6, <1>7, <1>8

\* What Start does to the command.
LEMMA StartJob ==
  ASSUME TypeOK, NEW p \in Procs, NEW cmd \in Commands, Start(p, cmd)
  PROVE  /\ job[p] = Idle
         /\ job'[p].cmd = cmd
         /\ job'[p].left = IF cmd.refresh THEN {t \in cmd.targets : IsInstalled(t)} ELSE cmd.targets
         /\ job'[p].target \in job'[p].left
         /\ job'[p].todo = {} /\ job'[p].parts = {}
         /\ job'[p].remaining = IF cmd.op = "uninstall" THEN Others(cmd) ELSE {}
<1> DEFINE chosen == IF cmd.refresh THEN {t \in cmd.targets : IsInstalled(t)} ELSE cmd.targets
           some   == CHOOSE t \in chosen : TRUE
           rest   == IF cmd.op = "uninstall" THEN Others(cmd) ELSE {}
<1>1. chosen # {} /\ some \in chosen
  BY DEF Start
<1>2. job' = [job EXCEPT ![p] =
         [cmd |-> cmd, left |-> chosen, target |-> some, todo |-> {}, parts |-> {},
          remaining |-> rest, path |-> ConfPath(some), v1 |-> FALSE]]
  BY DEF Start
<1>3. job[p] = Idle
  BY DEF Start
<1> HIDE DEF some, rest, chosen
<1>4. job'[p] = [cmd |-> cmd, left |-> chosen, target |-> some, todo |-> {}, parts |-> {},
                 remaining |-> rest, path |-> ConfPath(some), v1 |-> FALSE]
  BY <1>2 DEF TypeOK
<1>5. /\ job'[p].cmd = cmd /\ job'[p].left = chosen /\ job'[p].target = some
      /\ job'[p].todo = {} /\ job'[p].parts = {} /\ job'[p].remaining = rest
  BY <1>4
<1>6. QED
  BY <1>1, <1>3, <1>5 DEF chosen, rest

\* A process moves by its own steps only.
LEMMA OwnMoves ==
  ASSUME TypeOK, [Next]_vars, NEW p \in Procs, job'[p] # job[p]
  PROVE  Moves(p)
<1>1. ASSUME NEW q \in Procs, NEW j, job' = [job EXCEPT ![q] = j]
      PROVE  q = p
  BY <1>1 DEF TypeOK
<1>2. ASSUME NEW q \in Procs, Works(q), ~InstallMcp(q)
      PROVE  q = p
  <2>1. PICK steps : Done(q, steps) /\ job[q] # Idle
    BY <1>2, WorkIsDone
  <2>2. QED
    BY <2>1, DoneSteps
<1>3. ASSUME NEW q \in Procs, InstallMcp(q)
      PROVE  q = p
  BY <1>3, InstallMcpJob
<1>4. ASSUME NEW q \in Procs, NEW cmd \in Commands, Start(q, cmd)
      PROVE  q = p
  BY <1>1, <1>4 DEF Start
<1>5. ASSUME NEW q \in Procs, BeginTarget(q)
      PROVE  q = p
  BY <1>5, BeginTargetJob
<1>6. ASSUME NEW q \in Procs, Stops(q)
      PROVE  q = p
  BY <1>1, <1>6 DEF Stops, End, Crash, Refuse
<1>7. ~Edit /\ vars' # vars
  BY DEF Edit, vars
<1>8. PICK q \in Procs : Moves(q)
  BY <1>7 DEF Next, Moves, Works, Stops
<1>9. QED
  BY <1>2, <1>3, <1>4, <1>5, <1>6, <1>8 DEF Moves

\* A running command takes some of its steps off the list and changes nothing else of it.
Proceeds(p) ==
  /\ job[p] # Idle /\ job'[p] # Idle
  /\ job'[p].cmd = job[p].cmd /\ job'[p].left = job[p].left
  /\ job'[p].target = job[p].target /\ job'[p].parts = job[p].parts
  /\ job'[p].remaining = job[p].remaining
  /\ job'[p].path = job[p].path /\ job'[p].v1 = job[p].v1
  /\ job'[p].todo \subseteq job[p].todo

\* The ways a process gets to where it is.
LEMMA JobSteps ==
  ASSUME TypeOK, [Next]_vars, NEW p \in Procs, job'[p] # Idle
  PROVE  \/ job'[p] = job[p]
         \/ \E cmd \in Commands : Start(p, cmd)
         \/ BeginTarget(p)
         \/ InstallMcp(p)
         \/ Works(p) /\ Proceeds(p)
<1>1. Stops(p) => job'[p] = Idle
  BY DEF Stops, End, Crash, Refuse, TypeOK
<1>2. ASSUME Works(p), ~InstallMcp(p)
      PROVE  Proceeds(p)
  <2>1. PICK steps : Done(p, steps) /\ job[p] # Idle
    BY <1>2, WorkIsDone
  <2>2. QED
    BY <2>1, DoneSteps DEF Proceeds
<1>3. job'[p] # job[p] => Moves(p)
  BY OwnMoves
<1>4. QED
  BY <1>1, <1>2, <1>3 DEF Moves

\* The steps left always fit the command.
LEMMA JobsFitStep ==
  ASSUME TypeOK, JobsFit, [Next]_vars
  PROVE  JobsFit'
<1> DEFINE Fits(j) ==
      /\ j.cmd \in Commands
      /\ j.target \in j.cmd.targets
      /\ j.left \subseteq j.cmd.targets
      /\ j.parts \subseteq j.cmd.parts \cup {"hooks"}
      /\ ~j.cmd.refresh /\ j.todo # {} => j.parts = j.cmd.parts
      /\ \A s \in j.todo :
           /\ PartOf(s) \in j.parts
           /\ s \in {"permissions", "hooks"} => j.target = "claude_code"
           /\ s = "worker" => WorkerFile[j.target] # NoPath
           /\ s = "instructions" => InstructionsFile[j.target] # NoPath
           /\ s = "mcp1" => j.cmd.op = "uninstall"
           /\ s = "migrate" => j.cmd.op = "install"
<1>1. \A q \in Procs : job[q] # Idle => Fits(job[q])
  BY DEF JobsFit
<1>2. SUFFICES ASSUME NEW p \in Procs, job'[p] # Idle
               PROVE  Fits(job'[p])
  BY DEF JobsFit
<1>3. CASE job'[p] = job[p]
  BY <1>1, <1>2, <1>3
<1>4. ASSUME NEW cmd \in Commands, Start(p, cmd)
      PROVE  Fits(job'[p])
  <2>1. job'[p].left = IF cmd.refresh THEN {t \in cmd.targets : IsInstalled(t)} ELSE cmd.targets
    BY <1>4, StartJob
  <2>2. job'[p].left \subseteq cmd.targets
    BY <2>1, Zenon
  <2>3. /\ job'[p].cmd = cmd
        /\ job'[p].target \in job'[p].left /\ job'[p].todo = {} /\ job'[p].parts = {}
    BY <1>4, StartJob
  <2>4. QED
    BY <2>2, <2>3
<1>5. CASE BeginTarget(p)
  <2>1. PICK t \in job[p].left :
          /\ job[p] # Idle
          /\ job'[p].cmd = job[p].cmd /\ job'[p].left = job[p].left \ {t}
          /\ job'[p].target = t
          /\ job'[p].parts = PartsFor(job[p].cmd, t)
          /\ job'[p].todo = Plan(job[p].cmd.op, t, PartsFor(job[p].cmd, t))
    BY <1>5, BeginTargetJob
  <2>2. job[p].left \subseteq job[p].cmd.targets
    BY <1>1, <2>1
  <2>3. /\ job'[p].parts \subseteq job[p].cmd.parts \cup {"hooks"}
        /\ ~job[p].cmd.refresh => job'[p].parts = job[p].cmd.parts
    BY <2>1 DEF PartsFor
  <2>4. \A s \in job'[p].todo : PartOf(s) \in job'[p].parts /\ Applies(job[p].cmd.op, t, s)
    BY <2>1 DEF Plan
  <2>5. \A s \in job'[p].todo :
           /\ s \in {"permissions", "hooks"} => t = "claude_code"
           /\ s = "worker" => WorkerFile[t] # NoPath
           /\ s = "instructions" => InstructionsFile[t] # NoPath
           /\ s = "mcp1" => job[p].cmd.op = "uninstall"
           /\ s # "migrate"
    BY <2>4 DEF Applies
  <2>6. /\ job[p].cmd \in Commands /\ t \in job[p].cmd.targets
        /\ job'[p].left \subseteq job[p].cmd.targets
        /\ job'[p].cmd = job[p].cmd /\ job'[p].target = t
    BY <1>1, <2>1, <2>2
  <2>7. QED
    BY <2>3, <2>4, <2>5, <2>6
<1>6. CASE InstallMcp(p)
  <2>1. /\ job[p] # Idle
        /\ job'[p].cmd = job[p].cmd /\ job'[p].left = job[p].left
        /\ job'[p].target = job[p].target /\ job'[p].parts = job[p].parts
        /\ job'[p].todo \subseteq job[p].todo \cup {"migrate"}
    BY <1>6, InstallMcpJob
  <2>2. Fits(job[p])
    BY <1>1, <2>1
  <2>3. "mcp" \in job[p].todo /\ job[p].cmd.op = "install"
    BY <1>6 DEF InstallMcp, At, Busy, IsNext
  <2>4. "mcp" \in job[p].parts
    <3>1. PartOf("mcp") = "mcp"
      BY DEF PartOf
    <3>2. QED
      BY <2>2, <2>3, <3>1
  <2>5. PartOf("migrate") = "mcp"
    BY DEF PartOf
  <2>6. \A s \in job'[p].todo :
           /\ PartOf(s) \in job[p].parts
           /\ s \in {"permissions", "hooks"} => job[p].target = "claude_code"
           /\ s = "worker" => WorkerFile[job[p].target] # NoPath
           /\ s = "instructions" => InstructionsFile[job[p].target] # NoPath
           /\ s = "mcp1" => job[p].cmd.op = "uninstall"
           /\ s = "migrate" => job[p].cmd.op = "install"
    BY <2>1, <2>2, <2>3, <2>4, <2>5
  <2>7. ~job[p].cmd.refresh => job[p].parts = job[p].cmd.parts
    BY <2>2, <2>3
  <2>8. QED
    BY <2>1, <2>2, <2>6, <2>7
<1>7. CASE Proceeds(p)
  <2>1. Fits(job[p])
    BY <1>1, <1>7 DEF Proceeds
  <2>2. QED
    BY <1>7, <2>1 DEF Proceeds
<1>8. QED
  BY <1>2, <1>3, <1>4, <1>5, <1>6, <1>7, JobSteps

\* Two steps are next at once only where no list has both.
LEMMA NextIsOne ==
  ASSUME TypeOK, JobsFit, NEW p \in Procs, job[p] # Idle,
         NEW s \in Steps, IsNext(p, s), NEW r \in Steps, IsNext(p, r)
  PROVE  s = r
<1>1. s \in job[p].todo /\ r \in job[p].todo /\ Rank[s] <= Rank[r] /\ Rank[r] <= Rank[s]
  BY DEF IsNext
<1>2. \A x \in Steps : Rank[x] \in Nat
  BY DEF Steps, Rank
<1>3. Rank[s] = Rank[r]
  BY <1>1, <1>2
<1>4. s = r \/ {s, r} = {"migrate", "mcp1"}
  BY <1>3 DEF Steps, Rank
<1>5. /\ \A x \in job[p].todo : x = "mcp1" => job[p].cmd.op = "uninstall"
      /\ \A x \in job[p].todo : x = "migrate" => job[p].cmd.op = "install"
  BY DEF JobsFit
<1>6. QED
  BY <1>1, <1>4, <1>5

-----------------------------------------------------------------------------
(***************************************************************************)
(* One shape of an entry                                                   *)
(***************************************************************************)

\* What was there is still there or gone; only an install adds an entry.
LEMMA EntriesKept ==
  ASSUME TypeOK, [Next]_vars, NEW f \in ConfPaths
  PROVE  \/ EntryMerged(f)
         \/ /\ conf'[f].v1.here => conf[f].v1.here
            /\ conf'[f].v2.here => conf[f].v2.here
            /\ conf'[f].v2.approve => conf[f].v2.approve
<1>1. PICK c \in Conf : c = conf[f]
  BY DEF TypeOK
<1>2. PICK k : k = conf'[f]
  OBVIOUS
<1>3. CASE k = c
  BY <1>1, <1>2, <1>3
<1>4. CASE EntryRemoved(f)
  <2>1. PICK v1 \in BOOLEAN : k = RemoveEntry(c, v1)
    BY <1>1, <1>2, <1>4 DEF EntryRemoved
  <2>2. /\ k.v1 = c.v1 \/ ~k.v1.here
        /\ k.v2 = c.v2 \/ ~k.v2.here
        /\ k.v2.approve => c.v2.approve
    BY <2>1, RemovedEntries
  <2>3. QED
    BY <1>1, <1>2, <2>2
<1>5. CASE ConfEdited(f)
  <2>1. \/ k = [c EXCEPT !.v1 = Custom(c.v1), !.v2 = Custom(c.v2)]
        \/ \E v \in BOOLEAN : k = Spoil(c, v)
        \/ k = [c EXCEPT !.user = TRUE]
    BY <1>1, <1>2, <1>5 DEF ConfEdited
  <2>2. (k.v1.here <=> c.v1.here) /\ (k.v2.here <=> c.v2.here) /\ (k.v2.approve <=> c.v2.approve)
    BY <2>1, EditedEntries
  <2>3. QED
    BY <1>1, <1>2, <2>2
<1>6. QED
  BY <1>1, <1>2, <1>3, <1>4, <1>5, ConfSteps DEF ConfStep

\* What a merged entry is.
LEMMA EntriesMerged ==
  ASSUME TypeOK, NEW f \in ConfPaths, EntryMerged(f)
  PROVE  \E p \in Procs, v1, approve \in BOOLEAN :
           /\ InstallMcp(p) \/ InstallToml(p)
           /\ At(p, "install", "mcp") /\ f = ConfPath(job[p].target)
           /\ v1 => f \in OpenCodes
           /\ approve => Approves(p)
           /\ (conf'[f].v1.here <=> conf[f].v1.here \/ v1)
           /\ (conf'[f].v2.here <=> conf[f].v2.here \/ ~v1)
           /\ conf'[f].v2.approve <=> conf[f].v2.approve \/ (~v1 /\ approve)
           /\ conf'[f].user = conf[f].user /\ conf'[f].valid = conf[f].valid
<1>1. PICK c, k : c \in Conf /\ c = conf[f] /\ k = conf'[f]
  BY DEF TypeOK
<1>2. PICK p \in Procs, v1, approve \in BOOLEAN :
         /\ InstallMcp(p) \/ InstallToml(p)
         /\ At(p, "install", "mcp") /\ f = ConfPath(job[p].target)
         /\ v1 => f \in OpenCodes
         /\ approve => Approves(p)
         /\ k = SetEntry(c, v1, MergeEntry(EntryOf(c, v1), approve))
  BY <1>1 DEF EntryMerged
<1>3. /\ (k.v1.here <=> c.v1.here \/ v1) /\ (k.v2.here <=> c.v2.here \/ ~v1)
      /\ k.v2.approve <=> c.v2.approve \/ (~v1 /\ approve)
      /\ k.user = c.user /\ k.valid = c.valid
  BY <1>1, <1>2, MergedEntries
<1>4. QED
  BY <1>1, <1>2, <1>3

\* An entry in the old shape is written to OpenCode's configs only.
LEMMA OldShapeStep ==
  ASSUME TypeOK, OldShapeIsOpenCodes, [Next]_vars
  PROVE  OldShapeIsOpenCodes'
<1> SUFFICES ASSUME NEW f \in ConfPaths, conf'[f].v1.here
             PROVE  f \in OpenCodes
  BY DEF OldShapeIsOpenCodes, OpenCodes
<1>1. conf[f].v1.here => f \in OpenCodes
  BY DEF OldShapeIsOpenCodes, OpenCodes
<1>2. CASE EntryMerged(f)
  BY <1>1, <1>2, EntriesMerged
<1>3. QED
  BY <1>1, <1>2, EntriesKept

\* While a command is between the two writes, it can only do the second one or die.
LEMMA MigrateIsNext ==
  ASSUME TypeOK, JobsFit, [Next]_vars, NEW p \in Procs, At(p, "install", "migrate")
  PROVE  \/ job'[p] = job[p]
         \/ Crash(p)
         \/ Migrate(p)
<1>1. job[p] # Idle /\ job[p].todo # {} /\ job[p].cmd.op = "install"
  BY DEF At, Busy, IsNext
<1>2. \A s \in Steps : IsNext(p, s) => s = "migrate"
  <2>1. "migrate" \in Steps
    BY DEF Steps, Rank
  <2>2. QED
    BY <1>1, <2>1, NextIsOne DEF At
<1>3. /\ \A s \in {"mcp", "mcp1", "permissions", "worker", "instructions", "skill", "stamp", "hooks"} :
             s \in Steps
  BY DEF Steps, Rank
<1>4. \A s \in {"mcp", "mcp1", "permissions", "worker", "instructions", "skill", "stamp", "hooks"} :
         ~IsNext(p, s)
  BY <1>2, <1>3
<1>5. ~Refuse(p)
  BY <1>1, <1>4 DEF Refuse, Refused, At, Busy
<1>6. ~Uninstall(p)
  BY <1>1 DEF Uninstall, RemoveMcp, RemoveToml, RemoveWorker, RemoveInstructions, RemoveSkill, At, Busy
<1>7. ~Stamp(p) /\ ~EditPermissions(p) /\ ~EditHook(p)
  BY <1>4 DEF Stamp, EditPermissions, EditHook, At
<1>8. Install(p) => Migrate(p)
  BY <1>4 DEF Install, InstallMcp, InstallToml, WriteWorker, WriteInstructions, WriteSkill, At
<1>9. ~(\E cmd \in Commands : Start(p, cmd)) /\ ~BeginTarget(p) /\ ~End(p)
  BY <1>1 DEF Start, BeginTarget, End
<1>10. QED
  BY <1>5, <1>6, <1>7, <1>8, <1>9, OwnMoves DEF Moves, Works, Stops

\* Migrate leaves one shape, or notes that it could not.
LEMMA MigrateStep ==
  ASSUME TypeOK, NEW p \in Procs, Migrate(p), NEW f, f = job[p].path
  PROVE  f \in torn' \/ ~conf'[f].v1.here \/ ~conf'[f].v2.here
<1>1. f \in ConfPaths /\ job[p].v1 \in BOOLEAN
  BY JobFields DEF Migrate, At, Busy
<1>2. PICK v1 \in BOOLEAN : v1 = ~job[p].v1
  BY <1>1
<1>3. PICK c \in Conf : c = conf[f]
  BY <1>1 DEF TypeOK
<1>4. CASE ConfPath(job[p].target) = f /\ c.valid
  <2>1. conf' = [conf EXCEPT ![f] = RemoveEntry(c, v1)]
    BY <1>2, <1>3, <1>4 DEF Migrate
  <2>2. conf'[f] = RemoveEntry(c, v1)
    BY <1>1, <2>1 DEF TypeOK
  <2>3. ~EntryOf(conf'[f], v1).here
    BY <1>4, <2>2, RemovedEntries
  <2>4. QED
    BY <2>3 DEF EntryOf
<1>5. CASE ~(ConfPath(job[p].target) = f /\ c.valid)
  BY <1>3, <1>5 DEF Migrate
<1>6. QED
  BY <1>4, <1>5

\* The second shape is written only by a command that was told the shape, and that goes
\* on to remove the first.
LEMMA OnceStep ==
  ASSUME TypeOK, JobsFit, OldShapeIsOpenCodes, DefinedOnce, [Next]_vars
  PROVE  DefinedOnce'
<1> SUFFICES ASSUME NEW f \in ConfPaths, conf'[f].v1.here, conf'[f].v2.here, f \notin torn'
             PROVE  \E p \in Procs : /\ At(p, "install", "migrate")'
                                     /\ job'[p].path = f
                                     /\ job'[p].cmd.format # "auto"
  BY DEF DefinedOnce, Twice, Moving
<1>1. CASE f \in torn
  <2>1. ASSUME NEW q \in Procs, Stamp(q)
        PROVE  torn' # torn \ {f}
    <3>1. SkillDir[job[q].target] \in SkillDirs
      BY <2>1, JobFields, PathTypes DEF Stamp
    <3>2. torn' = torn \ {SkillDir[job[q].target]}
      BY <2>1 DEF Stamp
    <3>3. QED
      BY <1>1, <3>1, <3>2, SkillsAreNoConfigs
  <2>2. PICK q \in Procs :
          \/ Migrate(q) /\ torn' = torn \ {job[q].path}
          \/ Stamp(q) /\ torn' = torn \ {SkillDir[job[q].target]}
    BY <1>1, TornSteps
  <2>3. Migrate(q) /\ job[q].path = f
    BY <1>1, <2>1, <2>2
  <2>4. QED
    BY <2>3, MigrateStep
<1>2. CASE f \notin torn /\ conf[f].v1.here /\ conf[f].v2.here
  <2>1. PICK p \in Procs : /\ At(p, "install", "migrate")
                            /\ job[p].path = f
                            /\ job[p].cmd.format # "auto"
    BY <1>2 DEF DefinedOnce, Twice, Moving
  <2>2. ~Crash(p)
    BY <2>1 DEF Crash, At
  <2>3. ~Migrate(p)
    BY <2>1, MigrateStep
  <2>4. job'[p] = job[p]
    BY <2>1, <2>2, <2>3, MigrateIsNext
  <2>5. At(p, "install", "migrate")'
    BY <2>1, <2>4 DEF At, Busy, IsNext
  <2>6. QED
    BY <2>1, <2>4, <2>5
<1>3. CASE ~(conf[f].v1.here /\ conf[f].v2.here)
  <2>1. EntryMerged(f)
    BY <1>3, EntriesKept
  <2>2. PICK p \in Procs : (InstallMcp(p) \/ InstallToml(p)) /\ f = ConfPath(job[p].target)
    BY <2>1 DEF EntryMerged
  <2>3. f \in OpenCodes
    BY OldShapeStep DEF OldShapeIsOpenCodes, OpenCodes
  <2>4. job[p].target \in Targets
    BY <2>2, JobFields DEF InstallMcp, InstallToml, At, Busy
  <2>5. job[p].target = "opencode"
    BY <2>2, <2>3, <2>4, ConfPathOf
  <2>6. InstallMcp(p)
    BY <2>2, <2>5 DEF InstallToml
  <2>7. PICK path \in ConfPaths, v1 \in BOOLEAN :
          /\ path = ConfPath(job[p].target)
          /\ v1 = WritesV1(job[p].target, conf[path], job[p].cmd.format)
          /\ conf' = [conf EXCEPT ![path] =
                        SetEntry(conf[path], v1, MergeEntry(EntryOf(conf[path], v1), Approves(p)))]
    BY <2>6, InstallMcpStep
  <2>8. PICK c \in Conf, approve \in {Approves(p)}, k \in {conf'[f]} : c = conf[f]
    BY DEF TypeOK
  <2>9. k = SetEntry(c, v1, MergeEntry(EntryOf(c, v1), approve))
    BY <2>2, <2>7, <2>8 DEF TypeOK
  <2> approve \in BOOLEAN
    BY DEF Approves
  <2>10. (k.v1.here <=> c.v1.here \/ v1) /\ (k.v2.here <=> c.v2.here \/ ~v1)
    BY <2>9, MergedEntries
  <2>11. OtherShape("opencode", c, v1)
    BY <1>3, <2>8, <2>10 DEF OtherShape
  <2>12. /\ job'[p] # Idle /\ job'[p].cmd = job[p].cmd
         /\ job'[p].path = f
         /\ job'[p].todo = (job[p].todo \ {"mcp"})
              \cup {s \in {"migrate"} : OtherShape(job[p].target, conf[job'[p].path], job'[p].v1)}
         /\ job'[p].v1 = WritesV1(job[p].target, conf[job'[p].path], job[p].cmd.format)
    BY <2>2, <2>6, InstallMcpJob
  <2>13. job'[p].v1 = v1 /\ conf[job'[p].path] = c
    BY <2>2, <2>7, <2>8, <2>12
  <2>14. job'[p].todo = (job[p].todo \ {"mcp"}) \cup {"migrate"}
    BY <2>5, <2>11, <2>12, <2>13
  <2>15. job[p].todo \subseteq Steps /\ job[p].cmd.op = "install"
    BY <2>6, JobFields DEF InstallMcp, At, Busy
  <2>16. \A r \in Steps \ {"mcp"} : Rank["migrate"] <= Rank[r]
    BY DEF Steps, Rank
  <2>17. "migrate" \in Steps
    BY DEF Steps, Rank
  <2>18. IsNext(p, "migrate")'
    BY <2>14, <2>15, <2>16, <2>17 DEF IsNext
  <2>19. At(p, "install", "migrate")'
    BY <2>12, <2>15, <2>18 DEF At, Busy
  <2>20. job[p].cmd.format # "auto"
    BY <1>3, <2>2, <2>5, <2>7, <2>8, <2>11 DEF OtherShape, WritesV1
  <2>21. QED
    BY <2>12, <2>19, <2>20
<1>4. QED
  BY <1>1, <1>2, <1>3

\* Whatever else runs and wherever a command dies: an OpenCode config defines memdag in
\* both shapes only until a command that was told to write the second one has removed the
\* first, or where it could not.
THEOREM EntryInOneShape == Spec => []DefinedOnce
<1> DEFINE Inv == JobsFit /\ OldShapeIsOpenCodes /\ DefinedOnce
<1>1. Init => Inv
  <2> SUFFICES ASSUME Init
               PROVE  Inv
    OBVIOUS
  <2>1. JobsFit
    BY DEF Init, JobsFit
  <2>2. OldShapeIsOpenCodes /\ DefinedOnce
    BY BeginAssumption DEF Init, Whole, OldShapeIsOpenCodes, DefinedOnce, Twice
  <2>3. QED
    BY <2>1, <2>2
<1>2. TypeOK /\ Inv /\ [Next]_vars => Inv'
  BY JobsFitStep, OldShapeStep, OnceStep
<1>3. QED
  BY <1>1, <1>2, TypeCorrect, PTL DEF Spec

-----------------------------------------------------------------------------
(***************************************************************************)
(* What people chose                                                       *)
(***************************************************************************)

\* A model stays pinned in worker files of memdag's only: no rule is written to one.
LEMMA PinsStep ==
  ASSUME TypeOK, PinsAreWorkers, [Next]_vars
  PROVE  PinsAreWorkers'
<1> SUFFICES ASSUME NEW f \in OwnPaths, own'[f].pinned
             PROVE  own'[f].by = "memdag" /\ \E t \in Targets : f = WorkerFile[t]
  BY DEF PinsAreWorkers
<1>1. OwnStep /\ own[f] \in Own
  BY OwnSteps DEF TypeOK
<1>2. CASE own'[f] = own[f]
  BY <1>2 DEF PinsAreWorkers
<1>3. CASE WorkerWritten(f)
  BY <1>3 DEF WorkerWritten, WorkerText
<1>4. CASE RuleWritten(f) \/ OwnRemoved(f)
  BY <1>4 DEF RuleWritten, OwnRemoved, Nobodys
<1>5. CASE OwnEdited(f)
  BY <1>1, <1>5 DEF OwnEdited, PinsAreWorkers, Own
<1>6. QED
  BY <1>1, <1>2, <1>3, <1>4, <1>5 DEF OwnStep

\* Neither a merged entry nor a rewritten worker drops what people put there.
LEMMA ChoicesStep ==
  ASSUME TypeOK, PinsAreWorkers, DefinedOnce, [Next]_vars
  PROVE  /\ \A f \in ConfPaths :
              /\ conf[f].v1.custom /\ conf'[f].v1.here => conf'[f].v1.custom
              /\ conf[f].v2.custom /\ conf'[f].v2.here => conf'[f].v2.custom
              /\ Customised(conf[f]) /\ HasEntry(conf'[f]) => Customised(conf'[f]) \/ MovesAway(f)
         /\ \A f \in OwnPaths : own[f].pinned /\ own'[f].by = "memdag" => own'[f].pinned
<1>1. ASSUME NEW f \in ConfPaths
      PROVE  /\ conf[f].v1.custom /\ conf'[f].v1.here => conf'[f].v1.custom
             /\ conf[f].v2.custom /\ conf'[f].v2.here => conf'[f].v2.custom
             /\ Customised(conf[f]) /\ HasEntry(conf'[f]) => Customised(conf'[f]) \/ MovesAway(f)
  <2>1. PICK c \in Conf : c = conf[f]
    BY DEF TypeOK
  <2>2. PICK k : k = conf'[f]
    OBVIOUS
  <2>3. CASE k = c
    BY <2>1, <2>2, <2>3 DEF Customised
  <2>4. CASE EntryMerged(f)
    <3>1. PICK v1, approve \in BOOLEAN : k = SetEntry(c, v1, MergeEntry(EntryOf(c, v1), approve))
      BY <2>1, <2>2, <2>4 DEF EntryMerged
    <3>2. /\ (k.v1.custom <=> c.v1.custom) /\ (k.v2.custom <=> c.v2.custom)
          /\ (c.v1.here => k.v1.here) /\ (c.v2.here => k.v2.here)
      BY <3>1, MergedEntries
    <3>3. QED
      BY <2>1, <2>2, <3>2 DEF Customised
  <2>5. CASE EntryRemoved(f)
    <3>1. PICK v1 \in BOOLEAN : k = RemoveEntry(c, v1)
      BY <2>1, <2>2, <2>5 DEF EntryRemoved
    <3>2. /\ k.v1 = c.v1 \/ ~k.v1.here
          /\ k.v2 = c.v2 \/ ~k.v2.here
      BY <3>1, RemovedEntries
    <3>3. Customised(c) /\ HasEntry(k) => Customised(k) \/ Twice(c)
      BY <3>2 DEF Customised, HasEntry, Twice
    <3>4. QED
      BY <2>1, <2>2, <3>2, <3>3 DEF DefinedOnce, MovesAway
  <2>6. CASE ConfEdited(f)
    <3>1. /\ (k.v1.here <=> c.v1.here) /\ (k.v2.here <=> c.v2.here)
          /\ c.v1.custom /\ c.v1.here => k.v1.custom
          /\ c.v2.custom /\ c.v2.here => k.v2.custom
      <4>1. \/ k = [c EXCEPT !.v1 = Custom(c.v1), !.v2 = Custom(c.v2)]
            \/ \E v \in BOOLEAN : k = Spoil(c, v)
            \/ k = [c EXCEPT !.user = TRUE]
        BY <2>1, <2>2, <2>6 DEF ConfEdited
      <4>2. QED
        BY <4>1, EditedEntries
    <3>2. QED
      BY <2>1, <2>2, <3>1 DEF Customised
  <2>7. QED
    BY <2>1, <2>2, <2>3, <2>4, <2>5, <2>6, ConfSteps DEF ConfStep
<1>2. ASSUME NEW f \in OwnPaths, own[f].pinned, own'[f].by = "memdag"
      PROVE  own'[f].pinned
  <2>1. own[f].by = "memdag" /\ own[f] \in Own /\ OwnStep
    BY <1>2, OwnSteps DEF PinsAreWorkers, TypeOK
  <2>2. ~ RuleWritten(f)
    <3>1. PICK t \in Targets : f = WorkerFile[t]
      BY <1>2 DEF PinsAreWorkers
    <3>2. f # NoPath
      BY DEF OwnPaths
    <3>3. QED
      BY <3>1, <3>2, WorkersAreNoRules, TargetsAssumption DEF RuleWritten
  <2>3. ~ OwnRemoved(f)
    BY <1>2 DEF OwnRemoved, Nobodys
  <2>4. WorkerWritten(f) => own'[f].pinned
    BY <1>2, <2>1 DEF WorkerWritten, WorkerText, Pinned
  <2>5. OwnEdited(f) => own'[f].pinned
    BY <1>2, <2>1 DEF OwnEdited, Own
  <2>6. QED
    BY <1>2, <2>1, <2>2, <2>3, <2>4, <2>5 DEF OwnStep
<1>3. QED
  BY <1>1, <1>2

\* Whatever else runs: installing again keeps the keys people put into memdag's entry
\* and the model they pinned in the worker.  An entry loses its keys only where it moves
\* to its other shape, because it was told to or after such a move was torn.
THEOREM ChoicesSurvive == Spec => ChoicesSurviveReinstall
<1>1. Init => PinsAreWorkers
  BY BeginAssumption DEF Init, Whole, PinsAreWorkers
<1>2. TypeOK /\ PinsAreWorkers /\ [Next]_vars => PinsAreWorkers'
  BY PinsStep
<1>3. TypeOK /\ PinsAreWorkers /\ DefinedOnce /\ [Next]_vars =>
        [job' # job =>
           /\ \A f \in ConfPaths :
                /\ conf[f].v1.custom /\ conf'[f].v1.here => conf'[f].v1.custom
                /\ conf[f].v2.custom /\ conf'[f].v2.here => conf'[f].v2.custom
                /\ Customised(conf[f]) /\ HasEntry(conf'[f]) => Customised(conf'[f]) \/ MovesAway(f)
           /\ \A f \in OwnPaths : own[f].pinned /\ own'[f].by = "memdag" => own'[f].pinned]_vars
  BY ChoicesStep
<1>4. QED
  BY <1>1, <1>2, <1>3, TypeCorrect, EntryInOneShape, PTL DEF Spec, ChoicesSurviveReinstall

-----------------------------------------------------------------------------
(***************************************************************************)
(* A skill folder and its stamp                                            *)
(***************************************************************************)

\* Only the two steps of the skill take it off the list.
LEMMA SkillIsDone ==
  ASSUME TypeOK, NEW p \in Procs, Works(p), job[p] # Idle, "skill" \in job[p].todo
  PROVE  "skill" \in job'[p].todo \/ WriteSkill(p) \/ RemoveSkill(p)
<1>1. CASE InstallMcp(p)
  BY <1>1, InstallMcpJob
<1>2. ASSUME NEW steps, Done(p, steps), "skill" \notin steps
      PROVE  "skill" \in job'[p].todo
  BY <1>2, DoneSteps
<1>3. CASE InstallToml(p) \/ Migrate(p) \/ WriteWorker(p) \/ WriteInstructions(p)
  BY <1>2, <1>3 DEF InstallToml, Migrate, WriteWorker, WriteInstructions
<1>4. CASE RemoveMcp(p) \/ RemoveToml(p) \/ RemoveWorker(p) \/ RemoveInstructions(p)
  BY <1>2, <1>4 DEF RemoveMcp, RemoveToml, RemoveWorker, RemoveInstructions
<1>5. CASE Stamp(p) \/ EditPermissions(p) \/ EditHook(p)
  BY <1>2, <1>5 DEF Stamp, EditPermissions, EditHook
<1>6. QED
  BY <1>1, <1>3, <1>4, <1>5 DEF Works, Install, Uninstall

\* The skill's steps take nothing else off the list, and the stamp only with the skill.
LEMMA SkillJob ==
  ASSUME TypeOK, NEW p \in Procs, WriteSkill(p) \/ RemoveSkill(p)
  PROVE  /\ Proceeds(p) /\ IsNext(p, "skill")
         /\ \/ job'[p].todo = job[p].todo \ {"skill", "stamp"} /\ skill' = skill
            \/ job'[p].todo = job[p].todo \ {"skill"}
<1>1. job[p] # Idle /\ IsNext(p, "skill")
  BY DEF WriteSkill, RemoveSkill, At, Busy
<1>2. \/ Done(p, {"skill", "stamp"}) /\ skill' = skill
      \/ Done(p, {"skill"})
  BY DEF WriteSkill, RemoveSkill
<1>3. QED
  BY <1>1, <1>2, DoneSteps DEF Proceeds

\* The stamp is the last step of the parts but for the hook.
LEMMA StampFollowsStep ==
  ASSUME TypeOK, JobsFit, StampFollows, [Next]_vars
  PROVE  StampFollows'
<1> SUFFICES ASSUME NEW p \in Procs, job'[p] # Idle
             PROVE  /\ "skill" \in job'[p].todo => "stamp" \in job'[p].todo
                    /\ "stamp" \in job'[p].todo => "skill" \in job'[p].todo \/ IsNext(p, "stamp")'
  BY DEF StampFollows
<1>1. CASE job'[p] = job[p]
  BY <1>1 DEF StampFollows, IsNext
<1>2. ASSUME NEW cmd \in Commands, Start(p, cmd)
      PROVE  job'[p].todo = {}
  BY <1>2, StartJob
<1>3. CASE BeginTarget(p)
  <2>1. PICK op, t, parts : job'[p].todo = Plan(op, t, parts)
    BY <1>3, BeginTargetJob
  <2>2. "skill" \in Plan(op, t, parts) <=> "stamp" \in Plan(op, t, parts)
    BY DEF Plan, PartOf, Applies, Steps, Rank
  <2>3. QED
    BY <2>1, <2>2
<1>4. ASSUME job[p] # Idle, "skill" \notin job[p].todo, "stamp" \in job[p].todo,
             job'[p].todo \subseteq job[p].todo
      PROVE  /\ "skill" \notin job'[p].todo
             /\ "stamp" \in job'[p].todo => IsNext(p, "stamp")'
  BY <1>4 DEF StampFollows, IsNext
<1>5. CASE InstallMcp(p)
  <2>1. /\ job[p] # Idle
        /\ job'[p].todo \subseteq job[p].todo \cup {"migrate"}
        /\ job[p].todo \ {"mcp"} \subseteq job'[p].todo
    BY <1>5, InstallMcpJob
  <2>2. IsNext(p, "mcp")
    BY <1>5 DEF InstallMcp, At
  <2>3. ~IsNext(p, "stamp")
    <3>1. "mcp" \in Steps /\ "stamp" \in Steps
      BY DEF Steps, Rank
    <3>2. QED
      BY <2>1, <2>2, <3>1, NextIsOne
  <2>4. QED
    BY <2>1, <2>3 DEF StampFollows
<1>6. CASE (WriteSkill(p) \/ RemoveSkill(p))
  <2>1. /\ job[p] # Idle /\ IsNext(p, "skill")
        /\ \/ job'[p].todo = job[p].todo \ {"skill", "stamp"}
           \/ job'[p].todo = job[p].todo \ {"skill"}
    BY <1>6, SkillJob DEF Proceeds
  <2>2. job[p].todo \subseteq Steps
    BY <2>1, JobFields
  <2>3. \A r \in Steps : Rank["skill"] <= Rank[r] /\ r # "skill" => Rank["stamp"] <= Rank[r]
    BY DEF Steps, Rank
  <2>4. \A r \in job'[p].todo : Rank["stamp"] <= Rank[r]
    BY <2>1, <2>2, <2>3 DEF IsNext
  <2>5. QED
    BY <2>1, <2>4 DEF IsNext
<1>7. CASE Works(p) /\ Proceeds(p) /\ ~WriteSkill(p) /\ ~RemoveSkill(p)
  <2>1. job[p] # Idle /\ job'[p].todo \subseteq job[p].todo
    BY <1>7 DEF Proceeds
  <2>2. CASE "skill" \in job[p].todo
    <3>1. "skill" \in job'[p].todo
      BY <1>7, <2>1, <2>2, SkillIsDone
    <3>2. "stamp" \in job'[p].todo
      <4>1. "stamp" \in job[p].todo /\ ~IsNext(p, "stamp")
        <5>1. ~(Rank["stamp"] <= Rank["skill"])
          BY DEF Rank
        <5>2. QED
          BY <2>1, <2>2, <5>1 DEF StampFollows, IsNext
      <4>2. ~Stamp(p)
        BY <4>1 DEF Stamp
      <4>3. ASSUME NEW steps, Done(p, steps), "stamp" \notin steps
            PROVE  "stamp" \in job'[p].todo
        BY <2>1, <4>1, <4>3, DoneSteps
      <4>4. CASE InstallMcp(p)
        BY <4>1, <4>4, InstallMcpJob
      <4>5. CASE InstallToml(p) \/ Migrate(p) \/ WriteWorker(p) \/ WriteInstructions(p)
        BY <4>3, <4>5 DEF InstallToml, Migrate, WriteWorker, WriteInstructions
      <4>6. CASE RemoveMcp(p) \/ RemoveToml(p) \/ RemoveWorker(p) \/ RemoveInstructions(p)
        BY <4>3, <4>6 DEF RemoveMcp, RemoveToml, RemoveWorker, RemoveInstructions
      <4>7. CASE EditPermissions(p) \/ EditHook(p)
        BY <4>3, <4>7 DEF EditPermissions, EditHook
      <4>8. QED
        BY <1>7, <4>2, <4>4, <4>5, <4>6, <4>7 DEF Works, Install, Uninstall
    <3>3. QED
      BY <3>1, <3>2
  <2>3. CASE "skill" \notin job[p].todo
    BY <1>4, <2>1, <2>3
  <2>4. QED
    BY <2>2, <2>3
<1>8. QED
  BY <1>1, <1>2, <1>3, <1>5, <1>6, <1>7, JobSteps

\* While a folder is half written, its command can only set or remove the stamp, or die.
LEMMA StampIsNext ==
  ASSUME TypeOK, JobsFit, [Next]_vars, NEW p \in Procs, job[p] # Idle, IsNext(p, "stamp")
  PROVE  \/ job'[p] = job[p]
         \/ Crash(p)
         \/ Stamp(p)
<1>1. job[p].todo # {}
  BY DEF IsNext
<1>2. \A s \in {"mcp", "migrate", "mcp1", "permissions", "worker", "instructions", "skill", "hooks"} :
         ~IsNext(p, s)
  <2>1. /\ "stamp" \in Steps
        /\ \A s \in {"mcp", "migrate", "mcp1", "permissions", "worker", "instructions", "skill", "hooks"} :
             s \in Steps
    BY DEF Steps, Rank
  <2>2. QED
    BY <2>1, NextIsOne
<1>3. ~Refuse(p)
  BY <1>2 DEF Refuse, Refused, At
<1>4. ~Uninstall(p)
  BY <1>2 DEF Uninstall, RemoveMcp, RemoveToml, RemoveWorker, RemoveInstructions, RemoveSkill, At
<1>5. ~EditPermissions(p) /\ ~EditHook(p)
  BY <1>2 DEF EditPermissions, EditHook, At
<1>6. ~Install(p)
  BY <1>2 DEF Install, InstallMcp, InstallToml, Migrate, WriteWorker, WriteInstructions, WriteSkill, At
<1>7. ~(\E cmd \in Commands : Start(p, cmd)) /\ ~BeginTarget(p) /\ ~End(p)
  BY <1>1 DEF Start, BeginTarget, End
<1>8. QED
  BY <1>3, <1>4, <1>5, <1>6, <1>7, OwnMoves DEF Moves, Works, Stops

\* A folder gets half written by the first of the two steps only.
LEMMA HalfWrittenSteps ==
  ASSUME TypeOK, JobsFit, StampFollows, [Next]_vars, NEW p \in Procs, NEW op, HalfWritten(p, op)'
  PROVE  /\ job[p] # Idle /\ job[p].cmd.op = op /\ job'[p].target = job[p].target
         /\ job'[p].remaining = job[p].remaining
         /\ \/ HalfWritten(p, op) /\ ~Stamp(p)
            \/ WriteSkill(p) /\ skill' = [skill EXCEPT ![SkillDir[job[p].target]].md = "ours"]
            \/ RemoveSkill(p) /\ skill' = [skill EXCEPT ![SkillDir[job[p].target]].md = "none"]
<1>1. /\ job'[p] # Idle /\ job'[p].cmd.op = op
      /\ "stamp" \in job'[p].todo /\ "skill" \notin job'[p].todo
  BY DEF HalfWritten, Busy
<1>2. ~Stamp(p)
  <2>1. ASSUME Stamp(p)
        PROVE  "stamp" \notin job'[p].todo
    BY <2>1, DoneSteps DEF Stamp
  <2>2. QED
    BY <1>1, <2>1
<1>3. CASE job'[p] = job[p]
  BY <1>1, <1>2, <1>3 DEF HalfWritten, Busy
<1>4. CASE BeginTarget(p)
  <2>1. PICK o, t, parts : job'[p].todo = Plan(o, t, parts)
    BY <1>4, BeginTargetJob
  <2>2. "skill" \in Plan(o, t, parts) <=> "stamp" \in Plan(o, t, parts)
    BY DEF Plan, PartOf, Applies, Steps, Rank
  <2>3. QED
    BY <1>1, <2>1, <2>2
<1>5. ASSUME NEW cmd \in Commands, Start(p, cmd)
      PROVE  FALSE
  BY <1>1, <1>5, StartJob
<1>6. CASE InstallMcp(p)
  <2>1. /\ job[p] # Idle /\ job'[p].cmd = job[p].cmd /\ job'[p].target = job[p].target
        /\ job'[p].remaining = job[p].remaining
        /\ job'[p].todo \subseteq job[p].todo \cup {"migrate"}
        /\ job[p].todo \ {"mcp"} \subseteq job'[p].todo
    BY <1>6, InstallMcpJob
  <2>2. QED
    BY <1>1, <1>2, <2>1 DEF HalfWritten, Busy
<1>7. CASE Works(p) /\ Proceeds(p)
  <2>1. /\ job[p] # Idle /\ job'[p].cmd = job[p].cmd /\ job'[p].target = job[p].target
        /\ job'[p].remaining = job[p].remaining
        /\ job'[p].todo \subseteq job[p].todo
    BY <1>7 DEF Proceeds
  <2>2. CASE "skill" \notin job[p].todo
    BY <1>1, <1>2, <2>1, <2>2 DEF HalfWritten, Busy
  <2>3. CASE "skill" \in job[p].todo
    <3>1. WriteSkill(p) \/ RemoveSkill(p)
      BY <1>1, <1>7, <2>1, <2>3, SkillIsDone
    <3>2. ~Done(p, {"skill", "stamp"})
      BY <1>1, <2>1, DoneSteps
    <3>3. QED
      BY <1>1, <2>1, <3>1, <3>2 DEF WriteSkill, RemoveSkill
  <2>4. QED
    BY <2>2, <2>3
<1>8. QED
  BY <1>1, <1>3, <1>4, <1>5, <1>6, <1>7, JobSteps

\* With one command at a time no folder's stamp comes to stand for a SKILL.md that is not
\* memdag's.
LEMMA StampsStep ==
  ASSUME OneProcess, TypeOK, JobsFit, StampFollows, StampsAreMemdags, [Next]_vars
  PROVE  StampsAreMemdags'
<1>1. SkillStep
  BY SkillSteps
<1>2. ASSUME NEW p \in Procs, NEW op, At(p, op, "stamp")
      PROVE  HalfWritten(p, op) /\ IsNext(p, "stamp")
  <2>1. ~(Rank["stamp"] <= Rank["skill"])
    BY DEF Rank
  <2>2. QED
    BY <1>2, <2>1 DEF At, IsNext, HalfWritten
<1>3. \A d \in SkillDirs : skill[d] \in Skill /\ skill'[d] \in Skill
  BY <1>1 DEF SkillStep, TypeOK
<1>4. ASSUME NEW p \in Procs, HalfWritten(p, "install") \/ HalfWritten(p, "uninstall")
      PROVE  job[p] # Idle /\ SkillDir[job[p].target] \in SkillDirs /\ "skill" \notin job[p].todo
             /\ job[p].target \in Targets
  <2>1. job[p] # Idle /\ "skill" \notin job[p].todo
    BY <1>4 DEF HalfWritten, Busy
  <2>2. QED
    BY <2>1, JobFields, PathTypes
<1>5. ASSUME NEW d \in SkillDirs, skill'[d].stamp
      PROVE  skill'[d].md # "foreign"
  <2>1. CASE skill'[d] = skill[d]
    BY <1>5, <2>1 DEF StampsAreMemdags
  <2>2. CASE \/ skill'[d] = [skill[d] EXCEPT !.md = "ours"]
             \/ skill'[d] = [skill[d] EXCEPT !.md = "none"]
    BY <1>3, <2>2 DEF Skill
  <2>3. CASE /\ \E p \in Procs : SkillFor(p, "install", "stamp", d)
             /\ skill'[d] = [skill[d] EXCEPT !.stamp = TRUE]
    <3>1. skill[d].md = "ours"
      BY <1>2, <2>3 DEF SkillFor, StampsAreMemdags
    <3>2. QED
      BY <1>3, <2>3, <3>1 DEF Skill
  <2>4. CASE \/ skill'[d] = [skill[d] EXCEPT !.stamp = FALSE]
             \/ ~skill[d].stamp /\ skill'[d] = [skill[d] EXCEPT !.md = "foreign"]
    BY <1>3, <1>5, <2>4 DEF Skill
  <2>5. QED
    BY <1>1, <2>1, <2>2, <2>3, <2>4 DEF SkillStep
<1>6. ASSUME NEW p \in Procs, HalfWritten(p, "install")'
      PROVE  skill'[SkillDir[job'[p].target]].md = "ours"
  <2>1. /\ job[p] # Idle /\ job[p].cmd.op = "install" /\ job'[p].target = job[p].target
        /\ \/ HalfWritten(p, "install") /\ ~Stamp(p)
           \/ WriteSkill(p) /\ skill' = [skill EXCEPT ![SkillDir[job[p].target]].md = "ours"]
           \/ RemoveSkill(p)
    BY <1>6, HalfWrittenSteps
  <2>2. PICK d \in SkillDirs : d = SkillDir[job[p].target]
    BY <2>1, JobFields, PathTypes
  <2>3. ~RemoveSkill(p)
    BY <2>1 DEF RemoveSkill, At, Busy
  <2>4. CASE WriteSkill(p) /\ skill' = [skill EXCEPT ![d].md = "ours"]
    <3>1. skill'[d] = [skill[d] EXCEPT !.md = "ours"]
      BY <2>4 DEF TypeOK
    <3>2. skill'[d].md = "ours"
      BY <1>3, <3>1 DEF Skill
    <3>3. QED
      BY <2>1, <2>2, <3>2
  <2>5. CASE HalfWritten(p, "install") /\ ~Stamp(p)
    <3>1. skill[d].md = "ours"
      BY <2>2, <2>5 DEF StampsAreMemdags
    <3>2. ~(\E q \in Procs : Stamp(q)) /\ ~(\E q \in Procs : RemoveSkill(q))
      BY <2>3, <2>5 DEF OneProcess
    <3>3. CASE skill'[d] = [skill[d] EXCEPT !.md = "ours"]
      BY <1>3, <2>1, <2>2, <3>3 DEF Skill
    <3>4. CASE skill'[d] = skill[d]
      BY <2>1, <2>2, <3>1, <3>4
    <3>5. QED
      BY <1>1, <2>2, <3>1, <3>2, <3>3, <3>4 DEF SkillStep
  <2>6. QED
    BY <2>1, <2>2, <2>3, <2>4, <2>5
<1>7. ASSUME NEW p \in Procs, HalfWritten(p, "uninstall")'
      PROVE  skill'[SkillDir[job'[p].target]].md = "none" /\ skill'[SkillDir[job'[p].target]].stamp
  <2>1. /\ job[p] # Idle /\ job[p].cmd.op = "uninstall" /\ job'[p].target = job[p].target
        /\ \/ HalfWritten(p, "uninstall") /\ ~Stamp(p)
           \/ WriteSkill(p)
           \/ RemoveSkill(p) /\ skill' = [skill EXCEPT ![SkillDir[job[p].target]].md = "none"]
    BY <1>7, HalfWrittenSteps
  <2>2. PICK d \in SkillDirs : d = SkillDir[job[p].target]
    BY <2>1, JobFields, PathTypes
  <2>3. ~WriteSkill(p)
    BY <2>1 DEF WriteSkill, At, Busy
  <2>4. CASE RemoveSkill(p) /\ skill' = [skill EXCEPT ![d].md = "none"]
    <3>1. skill'[d] = [skill[d] EXCEPT !.md = "none"]
      BY <2>4 DEF TypeOK
    <3>2. skill[d].stamp
      <4>1. CASE skill' = skill /\ Done(p, {"skill", "stamp"})
        <5>1. "stamp" \notin job'[p].todo
          BY <2>1, <4>1, DoneSteps
        <5>2. QED
          BY <1>7, <5>1 DEF HalfWritten
      <4>2. QED
        BY <2>2, <2>4, <4>1 DEF RemoveSkill
    <3>3. skill'[d].md = "none" /\ skill'[d].stamp
      BY <1>3, <3>1, <3>2 DEF Skill
    <3>4. QED
      BY <2>1, <2>2, <3>3
  <2>5. CASE HalfWritten(p, "uninstall") /\ ~Stamp(p)
    <3>1. skill[d].md = "none" /\ skill[d].stamp
      BY <2>2, <2>5 DEF StampsAreMemdags
    <3>2. ~(\E q \in Procs : Stamp(q)) /\ ~(\E q \in Procs : WriteSkill(q))
      BY <2>3, <2>5 DEF OneProcess
    <3>3. CASE skill'[d] = [skill[d] EXCEPT !.md = "none"]
      BY <1>3, <2>1, <2>2, <3>1, <3>3 DEF Skill
    <3>4. CASE skill'[d] = skill[d]
      BY <2>1, <2>2, <3>1, <3>4
    <3>5. QED
      BY <1>1, <2>2, <3>1, <3>2, <3>3, <3>4 DEF SkillStep
  <2>6. QED
    BY <2>1, <2>2, <2>3, <2>4, <2>5
<1>8. ASSUME NEW d \in SkillDirs, skill'[d].md = "ours", ~skill'[d].stamp, d \notin torn'
      PROVE  \E p \in Procs : HalfWritten(p, "install")' /\ SkillDir[job'[p].target] = d
  <2>1. CASE skill'[d] = skill[d]
    <3>1. CASE d \in torn
      <4>1. ASSUME NEW q \in Procs, Migrate(q)
            PROVE  torn' # torn \ {d}
        <5>1. job[q].path \in ConfPaths
          BY <4>1, JobFields DEF Migrate, At, Busy
        <5>2. torn' = torn \ {job[q].path} \/ torn' = torn \cup {job[q].path}
          BY <4>1 DEF Migrate
        <5>3. QED
          BY <1>8, <3>1, <5>1, <5>2, SkillsAreNoConfigs
      <4>2. PICK q \in Procs :
              \/ Migrate(q) /\ torn' = torn \ {job[q].path}
              \/ Stamp(q) /\ torn' = torn \ {SkillDir[job[q].target]}
        BY <1>8, <3>1, TornSteps
      <4>3. Stamp(q) /\ SkillDir[job[q].target] = d
        BY <1>8, <3>1, <4>1, <4>2
      <4>4. PICK op \in {"install", "uninstall"} : At(q, op, "stamp")
        BY <4>3, JobFields DEF Stamp, At, Busy
      <4>5. CASE op = "install"
        <5>1. skill' = [skill EXCEPT ![d].stamp = TRUE]
          BY <4>3, <4>4, <4>5 DEF Stamp, At, Busy
        <5>2. skill'[d].stamp
          BY <1>3, <5>1 DEF TypeOK, Skill
        <5>3. QED
          BY <1>8, <5>2
      <4>6. CASE op = "uninstall"
        BY <1>2, <1>8, <2>1, <4>3, <4>4, <4>6 DEF StampsAreMemdags
      <4>7. QED
        BY <4>5, <4>6
    <3>2. CASE d \notin torn
      <4>1. PICK p \in Procs : HalfWritten(p, "install") /\ SkillDir[job[p].target] = d
        BY <1>8, <2>1, <3>2 DEF StampsAreMemdags
      <4>2. job[p] # Idle /\ IsNext(p, "stamp") /\ job[p].cmd.op = "install"
        BY <4>1 DEF HalfWritten, Busy, StampFollows
      <4>3. ~Crash(p)
        BY <1>8, <4>1, <4>2 DEF Crash
      <4>4. ~Stamp(p)
        <5>1. ASSUME Stamp(p)
              PROVE  skill'[d].stamp
          <6>1. skill' = [skill EXCEPT ![d].stamp = TRUE]
            BY <4>1, <4>2, <5>1 DEF Stamp
          <6>2. QED
            BY <1>3, <6>1 DEF TypeOK, Skill
        <5>2. QED
          BY <1>8, <5>1
      <4>5. job'[p] = job[p]
        BY <4>2, <4>3, <4>4, StampIsNext
      <4>6. HalfWritten(p, "install")'
        BY <4>1, <4>5 DEF HalfWritten, Busy
      <4>7. QED
        BY <4>1, <4>5, <4>6
    <3>3. QED
      BY <3>1, <3>2
  <2>2. CASE skill'[d] # skill[d]
    <3>1. CASE \E p \in Procs : WriteSkill(p) /\ SkillFor(p, "install", "skill", d)
      <4>1. PICK p \in Procs : WriteSkill(p) /\ SkillFor(p, "install", "skill", d)
        BY <3>1
      <4>2. Done(p, {"skill"})
        BY <2>2, <4>1 DEF WriteSkill
      <4>3. job[p] # Idle /\ job[p].cmd.op = "install" /\ "skill" \in job[p].todo
            /\ SkillDir[job[p].target] = d
        BY <4>1 DEF SkillFor, At, Busy, IsNext
      <4>4. "stamp" \in job[p].todo
        BY <4>3 DEF StampFollows
      <4>5. job'[p] # Idle /\ job'[p].todo = job[p].todo \ {"skill"} /\ job'[p].cmd = job[p].cmd
            /\ job'[p].target = job[p].target
        BY <4>2, <4>3, DoneSteps
      <4>6. HalfWritten(p, "install")'
        BY <4>3, <4>4, <4>5 DEF HalfWritten, Busy
      <4>7. QED
        BY <4>3, <4>5, <4>6
    <3>2. CASE \/ skill'[d] = [skill[d] EXCEPT !.md = "none"]
               \/ skill'[d] = [skill[d] EXCEPT !.md = "foreign"]
               \/ skill'[d] = [skill[d] EXCEPT !.stamp = TRUE]
      BY <1>3, <1>8, <3>2 DEF Skill
    <3>3. CASE /\ \E p \in Procs : SkillFor(p, "uninstall", "stamp", d)
               /\ skill'[d] = [skill[d] EXCEPT !.stamp = FALSE]
      <4>1. skill[d].md = "none"
        BY <1>2, <3>3 DEF SkillFor, StampsAreMemdags
      <4>2. QED
        BY <1>3, <1>8, <3>3, <4>1 DEF Skill
    <3>4. QED
      BY <1>1, <2>2, <3>1, <3>2, <3>3 DEF SkillStep
  <2>3. QED
    BY <2>1, <2>2
<1>9. QED
  BY <1>5, <1>6, <1>7, <1>8 DEF StampsAreMemdags

-----------------------------------------------------------------------------
(***************************************************************************)
(* What is not memdag's                                                    *)
(***************************************************************************)

ForeignFilesStay ==
  [][job' # job =>
       /\ \A f \in OwnPaths : own[f].by = "people" => own'[f] = own[f]
       /\ \A f \in ConfPaths : ~conf[f].valid => conf'[f] = conf[f]
       /\ \A f \in TextPaths : text[f] = "unbalanced" => text'[f] = text[f]
       /\ ~settings.valid => settings' = settings]_vars

\* Nothing is written over a file of people's own, and nothing at all in one that memdag
\* cannot read.
LEMMA ForeignFilesStep ==
  ASSUME TypeOK, [Next]_vars, job' # job
  PROVE  /\ \A f \in OwnPaths : own[f].by = "people" => own'[f] = own[f]
         /\ \A f \in ConfPaths : ~conf[f].valid => conf'[f] = conf[f]
         /\ \A f \in TextPaths : text[f] = "unbalanced" => text'[f] = text[f]
         /\ ~settings.valid => settings' = settings
<1>1. ASSUME NEW f \in OwnPaths, own[f].by = "people"
      PROVE  own'[f] = own[f]
  BY <1>1, OwnSteps DEF OwnStep, WorkerWritten, RuleWritten, OwnRemoved, OwnEdited
<1>2. ASSUME NEW f \in ConfPaths, ~conf[f].valid
      PROVE  conf'[f] = conf[f]
  <2>1. CASE EntryRemoved(f)
    <3>1. PICK v1 \in BOOLEAN : conf'[f] = RemoveEntry(conf[f], v1)
      BY <2>1 DEF EntryRemoved
    <3>2. conf[f] \in Conf
      BY DEF TypeOK
    <3>3. QED
      BY <1>2, <3>1, <3>2, RemovedEntries
  <2>2. ~EntryMerged(f) /\ ~ConfEdited(f)
    BY <1>2 DEF EntryMerged, ConfEdited
  <2>3. QED
    BY <2>1, <2>2, ConfSteps DEF ConfStep
<1>3. ASSUME NEW f \in TextPaths, text[f] = "unbalanced"
      PROVE  text'[f] = text[f]
  BY <1>3, TextSteps DEF TextStep
<1>4. ~settings.valid => settings' = settings
  BY SettingsSteps DEF SettingsStep
<1>5. QED
  BY <1>1, <1>2, <1>3, <1>4

\* However many commands run at once: workers and rules of people's own, configs and
\* settings that do not parse, and blocks whose markers do not pair up are left alone.
THEOREM ForeignFilesStayAlways == Spec => ForeignFilesStay
<1>1. TypeOK /\ [Next]_vars =>
        [job' # job =>
           /\ \A f \in OwnPaths : own[f].by = "people" => own'[f] = own[f]
           /\ \A f \in ConfPaths : ~conf[f].valid => conf'[f] = conf[f]
           /\ \A f \in TextPaths : text[f] = "unbalanced" => text'[f] = text[f]
           /\ ~settings.valid => settings' = settings]_vars
  BY ForeignFilesStep
<1>2. QED
  BY <1>1, TypeCorrect, PTL DEF Spec, ForeignFilesStay

\* The invariants of one command at a time that all the following proofs rest on.
OneCommandInv == TypeOK /\ JobsFit /\ StampFollows /\ StampsAreMemdags /\ OldShapeIsOpenCodes

\* They hold from the start and are kept.
LEMMA OneCommand ==
  ASSUME OneProcess
  PROVE  Spec => []OneCommandInv
<1>1. Init => OneCommandInv
  <2> SUFFICES ASSUME Init
               PROVE  OneCommandInv
    OBVIOUS
  <2>1. TypeOK
    BY InitType
  <2>2. \A p \in Procs : job[p] = Idle
    BY DEF Init
  <2>3. JobsFit /\ StampFollows
    BY <2>2 DEF JobsFit, StampFollows
  <2>4. PICK b \in Begin : conf = b.conf /\ skill = b.skill /\ Whole(b)
    BY BeginAssumption DEF Init
  <2>5. StampsAreMemdags
    BY <2>2, <2>4 DEF StampsAreMemdags, HalfWritten, Busy, Whole
  <2>6. OldShapeIsOpenCodes
    BY <2>4 DEF OldShapeIsOpenCodes, Whole
  <2>7. QED
    BY <2>1, <2>3, <2>5, <2>6 DEF OneCommandInv
<1>2. OneCommandInv /\ [Next]_vars => OneCommandInv'
  BY TypeStep, JobsFitStep, StampFollowsStep, StampsStep, OldShapeStep DEF OneCommandInv
<1>3. QED
  BY <1>1, <1>2, PTL DEF Spec

\* With one command at a time a SKILL.md of people's own is safe too.
LEMMA ForeignSkillStep ==
  ASSUME StampsAreMemdags, TypeOK, JobsFit, [Next]_vars, job' # job,
         NEW d \in SkillDirs, skill[d].md = "foreign"
  PROVE  skill'[d] = skill[d]
<1>1. ~skill[d].stamp
  BY DEF StampsAreMemdags
<1>2. ASSUME NEW p \in Procs, NEW op \in {"install", "uninstall"}, SkillFor(p, op, "stamp", d)
      PROVE  FALSE
  <2>1. ~(Rank["stamp"] <= Rank["skill"])
    BY DEF Rank
  <2>2. HalfWritten(p, op)
    BY <1>2, <2>1 DEF SkillFor, At, IsNext, HalfWritten
  <2>3. SkillDir[job[p].target] = d
    BY <1>2 DEF SkillFor
  <2>4. QED
    BY <2>2, <2>3 DEF StampsAreMemdags
<1>3. QED
  BY <1>1, <1>2, SkillSteps DEF SkillStep

\* An installer that runs alone never changes a file that memdag did not write or cannot
\* read: workers, rules and skills of people's own, configs and settings that do not parse,
\* blocks whose markers do not pair up; whatever people edit between its steps.
THEOREM ForeignContent ==
  ASSUME OneProcess
  PROVE  Spec => ForeignContentStays
<1>1. OneCommandInv /\ [Next]_vars =>
        [job' # job =>
           /\ \A f \in OwnPaths : own[f].by = "people" => own'[f] = own[f]
           /\ \A d \in SkillDirs : skill[d].md = "foreign" => skill'[d] = skill[d]
           /\ \A f \in ConfPaths : ~conf[f].valid => conf'[f] = conf[f]
           /\ \A f \in TextPaths : text[f] = "unbalanced" => text'[f] = text[f]
           /\ ~settings.valid => settings' = settings]_vars
  BY ForeignFilesStep, ForeignSkillStep DEF OneCommandInv
<1>2. QED
  BY <1>1, OneCommand, PTL DEF Spec, ForeignContentStays

-----------------------------------------------------------------------------
(***************************************************************************)
(* What targets that stay installed keep                                   *)
(***************************************************************************)

\* The commands people run in this instance tell uninstall what stays installed
\* (run_uninstall).
UninstallsProtect == \A cmd \in Commands : cmd.op = "uninstall" => cmd.protect

\* Whatever is written, only targets that are installed then keep their promises.
LEMMA RememberSteps ==
  ASSUME TypeOK, [Next]_vars, NEW q \in promised'
  PROVE  IsInstalled(q[1])' \/ (q \in promised /\ conf' = conf /\ own' = own)
<1>1. ASSUME NEW new, NEW dropped, Remember(new, dropped)
      PROVE  IsInstalled(q[1])'
  BY <1>1 DEF Remember
<1>2. ASSUME NEW p \in Procs, \E cmd \in Commands : Start(p, cmd)
      PROVE  IsInstalled(q[1])'
  BY <1>1, <1>2 DEF Start
<1>3. ASSUME NEW p \in Procs,
             \/ BeginTarget(p) \/ End(p) \/ Crash(p) \/ Refuse(p) \/ WriteSkill(p)
             \/ RemoveSkill(p) \/ EditPermissions(p) \/ EditHook(p)
      PROVE  q \in promised /\ conf' = conf /\ own' = own
  BY <1>3 DEF BeginTarget, End, Crash, Refuse, WriteSkill, RemoveSkill, EditPermissions, EditHook,
              files
<1>4. ASSUME NEW p \in Procs,
             \/ InstallMcp(p) \/ InstallToml(p) \/ Migrate(p) \/ WriteWorker(p)
             \/ WriteInstructions(p) \/ RemoveMcp(p) \/ RemoveToml(p) \/ RemoveWorker(p)
             \/ RemoveInstructions(p) \/ Stamp(p)
      PROVE  IsInstalled(q[1])'
  BY <1>1, <1>4 DEF InstallMcp, InstallToml, Migrate, WriteWorker, WriteInstructions, RemoveMcp,
                    RemoveToml, RemoveWorker, RemoveInstructions, Stamp
<1>5. CASE Edit
  BY <1>1, <1>5 DEF Edit
<1>6. CASE UNCHANGED vars
  BY <1>6 DEF vars
<1>7. QED
  BY <1>2, <1>3, <1>4, <1>5, <1>6 DEF Next, Install, Uninstall

\* Promises are made to installed targets, for files there are.
LEMMA PromisesFitStep ==
  ASSUME TypeOK, JobsFit, PromisesFit, [Next]_vars
  PROVE  PromisesFit'
<1> SUFFICES ASSUME NEW q \in promised'
             PROVE  /\ IsInstalled(q[1])'
                    /\ q[2] = "instructions" => InstructionsFile[q[1]] # NoPath
  BY DEF PromisesFit
<1>1. IsInstalled(q[1])'
  <2>1. CASE q \in promised /\ conf' = conf /\ own' = own
    <3>1. IsInstalled(q[1])
      BY <2>1 DEF PromisesFit
    <3>2. QED
      BY <2>1, <3>1 DEF IsInstalled, Configured, ConfPath, Generated
  <2>2. QED
    BY <2>1, RememberSteps
<1>2. ASSUME q[2] = "instructions"
      PROVE  InstructionsFile[q[1]] # NoPath
  <2>1. CASE q \in promised
    BY <1>2, <2>1 DEF PromisesFit
  <2>2. CASE q \notin promised
    <3>1. PICK p \in Procs : WriteInstructions(p) /\ q = <<job[p].target, "instructions">>
      BY <1>2, <2>2, PromiseSteps
    <3>2. job[p] # Idle /\ "instructions" \in job[p].todo
      BY <3>1 DEF WriteInstructions, At, Busy, IsNext
    <3>3. QED
      BY <3>1, <3>2 DEF JobsFit
  <2>3. QED
    BY <2>1, <2>2
<1>3. QED
  BY <1>1, <1>2

\* A command that uninstalls did so before, or begins now.
LEMMA UninstallSteps ==
  ASSUME TypeOK, [Next]_vars, NEW p \in Procs, Busy(p, "uninstall")'
  PROVE  \/ \E cmd \in Commands : Start(p, cmd) /\ cmd.op = "uninstall"
         \/ /\ Busy(p, "uninstall")
            /\ job'[p].cmd = job[p].cmd
            /\ job'[p].remaining = job[p].remaining
<1>1. job'[p] # Idle /\ job'[p].cmd.op = "uninstall"
  BY DEF Busy
<1>2. ASSUME NEW cmd \in Commands, Start(p, cmd)
      PROVE  cmd.op = "uninstall"
  BY <1>1, <1>2, StartJob
<1>3. CASE job'[p] = job[p]
  BY <1>1, <1>3 DEF Busy
<1>4. CASE BeginTarget(p)
  BY <1>1, <1>4, BeginTargetJob DEF Busy
<1>5. CASE InstallMcp(p)
  BY <1>1, <1>5, InstallMcpJob DEF Busy
<1>6. CASE Proceeds(p)
  BY <1>1, <1>6 DEF Busy, Proceeds
<1>7. QED
  BY <1>1, <1>2, <1>3, <1>4, <1>5, <1>6, JobSteps

\* While the only command uninstalls, nothing is promised.
LEMMA NothingPromised ==
  ASSUME OneProcess, TypeOK, [Next]_vars, NEW p \in Procs, Busy(p, "uninstall")
  PROVE  promised' \subseteq promised
BY PromiseSteps DEF OneProcess, Busy, WriteInstructions, At

\* An uninstall knows of all other targets that were promised something.
LEMMA OthersStep ==
  ASSUME OneProcess, UninstallsProtect,
         TypeOK, JobsFit, StampFollows, PromisesFit, OthersAreKnown, [Next]_vars
  PROVE  OthersAreKnown'
<1> SUFFICES ASSUME NEW p \in Procs, Busy(p, "uninstall")'
             PROVE  /\ job'[p].remaining \cap job'[p].cmd.targets = {}
                    /\ \A q \in promised' :
                         \/ q[1] \in job'[p].remaining
                         \/ q[1] \in job'[p].cmd.targets /\ q[2] \notin job'[p].cmd.parts
                    /\ HalfWritten(p, "uninstall")' => ~SkillShared(p)'
  BY DEF OthersAreKnown
<1>1. ASSUME HalfWritten(p, "uninstall")'
      PROVE  ~SkillShared(p)'
  <2>1. /\ job[p].cmd.op = "uninstall" /\ job[p] # Idle
        /\ job'[p].target = job[p].target /\ job'[p].remaining = job[p].remaining
        /\ HalfWritten(p, "uninstall") \/ WriteSkill(p) \/ RemoveSkill(p)
    BY <1>1, HalfWrittenSteps
  <2>2. ~WriteSkill(p)
    BY <2>1 DEF WriteSkill, At, Busy
  <2>3. ~SkillShared(p)
    <3>1. CASE HalfWritten(p, "uninstall")
      BY <2>1, <3>1 DEF OthersAreKnown, Busy
    <3>2. CASE RemoveSkill(p)
      <4>1. ~Done(p, {"skill", "stamp"})
        BY <1>1, <2>1, DoneSteps DEF HalfWritten
      <4>2. QED
        BY <3>2, <4>1 DEF RemoveSkill
    <3>3. QED
      BY <2>1, <2>2, <3>1, <3>2
  <2>4. QED
    BY <2>1, <2>3 DEF SkillShared
<1>2. CASE \E cmd \in Commands : Start(p, cmd) /\ cmd.op = "uninstall"
  <2>1. PICK cmd \in Commands : Start(p, cmd) /\ cmd.op = "uninstall"
    BY <1>2
  <2>2. cmd.protect /\ cmd \in Command
    BY <2>1, CommandsAssumption DEF UninstallsProtect
  <2>3. job'[p].cmd = cmd /\ job'[p].remaining = Others(cmd)
    <3>1. job'[p].remaining = IF cmd.op = "uninstall" THEN Others(cmd) ELSE {}
      BY <2>1, StartJob
    <3>2. job'[p].cmd = cmd
      BY <2>1, StartJob
    <3>3. QED
      BY <2>1, <3>1, <3>2, Zenon
  <2>4. Others(cmd) = {t \in Targets \ cmd.targets : IsInstalled(t)}
    BY <2>2 DEF Others
  <2>5. ASSUME NEW q \in promised'
        PROVE  \/ q[1] \in Others(cmd)
               \/ q[1] \in cmd.targets /\ q[2] \notin cmd.parts
    <3> DEFINE chosen == IF cmd.refresh THEN {t \in cmd.targets : IsInstalled(t)} ELSE cmd.targets
    <3>1. q \in promised /\ q \notin chosen \X cmd.parts
      BY <2>1, <2>5 DEF Start, Remember
    <3>2. IsInstalled(q[1])
      BY <3>1 DEF PromisesFit
    <3>3. PICK t \in Targets, part \in Shared : q = <<t, part>>
      BY <3>1 DEF TypeOK
    <3>4. t \in cmd.targets => t \in chosen
      BY <3>2, <3>3
    <3>5. QED
      BY <2>4, <3>1, <3>2, <3>3, <3>4
  <2>6. QED
    BY <1>1, <2>3, <2>4, <2>5
<1>3. CASE /\ Busy(p, "uninstall")
           /\ job'[p].cmd = job[p].cmd
           /\ job'[p].remaining = job[p].remaining
  <2>1. promised' \subseteq promised
    BY <1>3, NothingPromised
  <2>2. QED
    BY <1>1, <1>3, <2>1 DEF OthersAreKnown
<1>4. QED
  BY <1>2, <1>3, UninstallSteps

\* The step of an uninstall that removes instructions spares those promised to others.
LEMMA InstructionsSpared ==
  ASSUME TypeOK, JobsFit, PromisesFit, OthersAreKnown, NEW p \in Procs,
         At(p, "uninstall", "instructions"), ~InstructionsShared(p),
         NEW t \in Targets, <<t, "instructions">> \in promised
  PROVE  /\ InstructionsFile[t] # InstructionsFile[job[p].target]
         /\ Real(InstructionsFile[t]) # Real(InstructionsFile[job[p].target])
<1>1. job[p] # Idle /\ Busy(p, "uninstall") /\ "instructions" \in job[p].todo
  BY DEF At, Busy, IsNext
<1>2. /\ job[p].target \in job[p].cmd.targets
      /\ "instructions" \in job[p].parts /\ job[p].parts \subseteq job[p].cmd.parts \cup {"hooks"}
      /\ InstructionsFile[job[p].target] # NoPath
  <2>1. PartOf("instructions") = "instructions"
    BY DEF PartOf
  <2>2. QED
    BY <1>1, <2>1 DEF JobsFit
<1>3. t \in job[p].remaining /\ job[p].remaining \cap job[p].cmd.targets = {}
  <2>1. PICK q \in promised : q = <<t, "instructions">>
    OBVIOUS
  <2>2. q[1] = t /\ q[2] = "instructions"
    BY <2>1
  <2>3. QED
    BY <1>1, <1>2, <2>1, <2>2 DEF OthersAreKnown
<1>4. InstructionsFile[t] # NoPath
  <2>1. PICK q \in promised : q = <<t, "instructions">>
    OBVIOUS
  <2>2. QED
    BY <2>1 DEF PromisesFit
<1>5. ~SameFile(InstructionsFile[t], InstructionsFile[job[p].target])
  BY <1>2, <1>3 DEF InstructionsShared
<1>6. QED
  BY <1>2, <1>4, <1>5 DEF SameFile

\* So every shared piece stays while it is promised.
LEMMA SharedStep ==
  ASSUME OneProcess, TypeOK, JobsFit, StampFollows, StampsAreMemdags, PromisesFit,
         OthersAreKnown, SharedFilesStay, [Next]_vars
  PROVE  SharedFilesStay'
<1>1. promised \subseteq Targets \X Shared /\ promised' \subseteq Targets \X Shared
  BY TypeStep DEF TypeOK
<1>2. \A t \in Targets : <<t, "skill">> \in promised => skill[SkillDir[t]].stamp
  <2>1. \A t : LET q == <<t, "skill">> IN q[1] = t /\ q[2] = "skill"
    OBVIOUS
  <2>2. QED
    BY <2>1 DEF SharedFilesStay
<1>3. \A t \in Targets : <<t, "instructions">> \in promised => Has(t, "instructions")
  <2>1. \A t : LET q == <<t, "instructions">> IN q[1] = t /\ q[2] = "instructions"
    OBVIOUS
  <2>2. QED
    BY <2>1 DEF SharedFilesStay
<1>4. ASSUME NEW t \in Targets, <<t, "skill">> \in promised'
      PROVE  skill'[SkillDir[t]].stamp
  <2>1. PICK d \in SkillDirs : d = SkillDir[t]
    BY PathTypes
  <2>2. skill[d] \in Skill
    BY DEF TypeOK
  <2>3. CASE <<t, "skill">> \in promised
    <3>1. skill[d].stamp
      BY <1>2, <2>1, <2>3
    <3>2. ASSUME NEW p \in Procs, SkillFor(p, "uninstall", "stamp", d)
          PROVE  FALSE
      <4>1. Busy(p, "uninstall") /\ job[p] # Idle /\ "stamp" \in job[p].todo /\ d = SkillDir[job[p].target]
        BY <3>2 DEF SkillFor, At, Busy, IsNext
      <4>2. HalfWritten(p, "uninstall")
        <5>1. ~(Rank["stamp"] <= Rank["skill"])
          BY DEF Rank
        <5>2. QED
          BY <3>2, <4>1, <5>1 DEF SkillFor, At, IsNext, HalfWritten
      <4>3. ~SkillShared(p) /\ job[p].remaining \cap job[p].cmd.targets = {}
        BY <4>1, <4>2 DEF OthersAreKnown
      <4>4. /\ job[p].target \in job[p].cmd.targets
            /\ "skill" \in job[p].cmd.parts
        <5>1. PartOf("stamp") = "skill"
          BY DEF PartOf
        <5>2. "skill" \in job[p].parts /\ job[p].parts \subseteq job[p].cmd.parts \cup {"hooks"}
          BY <4>1, <5>1 DEF JobsFit
        <5>3. job[p].target \in job[p].cmd.targets
          BY <4>1 DEF JobsFit
        <5>4. QED
          BY <5>2, <5>3
      <4>5. t \in job[p].remaining
        <5>1. PICK q \in promised : q = <<t, "skill">>
          BY <2>3
        <5>2. q[1] = t /\ q[2] = "skill"
          BY <5>1
        <5>3. QED
          BY <4>1, <4>4, <5>1, <5>2 DEF OthersAreKnown
      <4>6. QED
        BY <2>1, <4>1, <4>3, <4>4, <4>5 DEF SkillShared
    <3>3. skill'[d].stamp
      <4>1. \/ skill'[d] = skill[d]
            \/ skill'[d] = [skill[d] EXCEPT !.md = "ours"]
            \/ skill'[d] = [skill[d] EXCEPT !.md = "none"]
            \/ skill'[d] = [skill[d] EXCEPT !.stamp = TRUE]
        BY <3>1, <3>2, SkillSteps DEF SkillStep
      <4>2. QED
        BY <2>2, <3>1, <4>1 DEF Skill
    <3>4. QED
      BY <2>1, <3>3
  <2>4. CASE <<t, "skill">> \notin promised
    <3>1. PICK p \in Procs : Stamp(p) /\ job[p].cmd.op = "install" /\ t = job[p].target
      BY <1>4, <2>4, PromiseSteps
    <3>2. skill' = [skill EXCEPT ![d].stamp = TRUE]
      BY <2>1, <3>1 DEF Stamp
    <3>3. skill'[d].stamp
      BY <2>2, <3>2 DEF TypeOK, Skill
    <3>4. QED
      BY <2>1, <3>3
  <2>5. QED
    BY <2>3, <2>4
<1>5. ASSUME NEW t \in Targets, t \in OwnRule, <<t, "instructions">> \in promised'
      PROVE  Generated(InstructionsFile[t])'
  <2>1. InstructionsFile[t] # NoPath
    <3>1. PICK q \in promised' : q = <<t, "instructions">>
      BY <1>5
    <3>2. QED
      BY <3>1, PromisesFitStep DEF PromisesFit
  <2>2. PICK f \in OwnPaths : f = InstructionsFile[t]
    BY <1>5, <2>1, PathTypes
  <2>3. CASE <<t, "instructions">> \in promised
    <3>1. own[f].by = "memdag"
      BY <1>3, <1>5, <2>2, <2>3 DEF Has, Generated
    <3>2. OwnStep /\ own[f] \in Own
      BY OwnSteps DEF TypeOK
    <3>3. ~OwnRemoved(f)
      <4>1. ASSUME NEW p \in Procs, At(p, "uninstall", "worker"), f = WorkerFile[job[p].target]
            PROVE  FALSE
        <5>1. job[p].target \in Targets
          BY <4>1, JobFields DEF At, Busy
        <5>2. QED
          BY <1>5, <2>1, <2>2, <4>1, <5>1, WorkersAreNoRules, TargetsAssumption
      <4>2. QED
        BY <2>2, <2>3, <4>1, InstructionsSpared DEF OwnRemoved
    <3>4. own'[f].by = "memdag"
      <4>1. CASE OwnEdited(f)
        BY <3>1, <3>2, <4>1 DEF OwnEdited, Own
      <4>2. CASE WorkerWritten(f)
        <5>1. PICK u, pinned, allow : own'[f] = WorkerText(u, pinned, allow)
          BY <4>2 DEF WorkerWritten
        <5>2. QED
          BY <5>1 DEF WorkerText
      <4>3. CASE RuleWritten(f)
        BY <4>3 DEF RuleWritten, Nobodys
      <4>4. QED
        BY <3>1, <3>2, <3>3, <4>1, <4>2, <4>3 DEF OwnStep
    <3>5. QED
      BY <2>1, <2>2, <3>4 DEF Generated
  <2>4. CASE <<t, "instructions">> \notin promised
    <3>1. PICK p \in Procs : WriteInstructions(p) /\ t = job[p].target
      BY <1>5, <2>4, PromiseSteps
    <3>2. own' = [own EXCEPT ![f] = [Nobodys EXCEPT !.by = "memdag"]]
      BY <1>5, <2>2, <3>1 DEF WriteInstructions
    <3>3. own'[f].by = "memdag"
      BY <3>2 DEF TypeOK, Nobodys
    <3>4. QED
      BY <2>1, <2>2, <3>3 DEF Generated
  <2>5. QED
    BY <2>3, <2>4
<1>6. ASSUME NEW t \in Targets, t \notin OwnRule, <<t, "instructions">> \in promised'
      PROVE  text'[Real(InstructionsFile[t])] # "none"
  <2>1. PICK f \in TextPaths : f = Real(InstructionsFile[t])
    BY <1>6, PathTypes
  <2>2. CASE <<t, "instructions">> \in promised
    <3>1. text[f] # "none"
      BY <1>3, <1>6, <2>1, <2>2 DEF Has
    <3>2. ~TextRemoved(f)
      BY <2>1, <2>2, InstructionsSpared DEF TextRemoved
    <3>3. TextWritten(f) => text'[f] # "none"
      BY DEF TextWritten
    <3>4. text'[f] # "none"
      BY <3>1, <3>2, <3>3, TextSteps DEF TextStep
    <3>5. QED
      BY <2>1, <3>4
  <2>3. CASE <<t, "instructions">> \notin promised
    <3>1. PICK p \in Procs : WriteInstructions(p) /\ t = job[p].target
      BY <1>6, <2>3, PromiseSteps
    <3>2. text[f] # "unbalanced" /\ text' = [text EXCEPT ![f] = Upsert(text[f])]
      BY <1>6, <2>1, <3>1 DEF WriteInstructions
    <3>3. text'[f] = "ours"
      BY <3>2 DEF TypeOK, Upsert
    <3>4. QED
      BY <2>1, <3>3
  <2>4. QED
    BY <2>2, <2>3
<1>7. ASSUME NEW q \in promised'
      PROVE  IF q[2] = "skill" THEN skill'[SkillDir[q[1]]].stamp ELSE Has(q[1], "instructions")'
  <2>1. PICK t \in Targets, part \in Shared : q = <<t, part>>
    BY <1>1, <1>7
  <2>2. CASE part = "skill"
    BY <1>4, <1>7, <2>1, <2>2
  <2>3. CASE part = "instructions"
    <3>1. Has(t, "instructions")'
      BY <1>5, <1>6, <1>7, <2>1, <2>3 DEF Has
    <3>2. q[1] = t /\ q[2] # "skill"
      BY <2>1, <2>3
    <3>3. QED
      BY <3>1, <3>2
  <2>4. QED
    BY <2>1, <2>2, <2>3 DEF Shared
<1>8. QED
  BY <1>7 DEF SharedFilesStay

\* An installer that runs alone, may it die or be refused anywhere and whatever people edit
\* in between: instructions and a skill that a target was given are there as long as the
\* target is installed, whichever targets sharing the file are uninstalled.
THEOREM SharedFiles ==
  ASSUME OneProcess, UninstallsProtect
  PROVE  Spec => []SharedFilesStay
<1> DEFINE Inv == PromisesFit /\ OthersAreKnown /\ SharedFilesStay
<1>1. Init => Inv
  BY DEF Init, PromisesFit, OthersAreKnown, Busy, SharedFilesStay
<1>2. OneCommandInv /\ Inv /\ [Next]_vars => Inv'
  BY PromisesFitStep, OthersStep, SharedStep DEF OneCommandInv
<1>3. QED
  BY <1>1, <1>2, OneCommand, PTL DEF Spec

-----------------------------------------------------------------------------
(***************************************************************************)
(* A complete uninstall                                                    *)
(***************************************************************************)

\* Uninstall has no --refresh: it takes the targets it is told (UninstallArgs).
UninstallsTakeAll == \A cmd \in Commands : cmd.op = "uninstall" => ~cmd.refresh

\* Nothing of memdag's makes or takes away the file OpenCode prefers.
LEMMA PreferredStep ==
  ASSUME TypeOK, PreferredIsPeoples, [Next]_vars
  PROVE  /\ PreferredIsPeoples'
         /\ conf[Preferred].user => conf'[Preferred].user
         /\ ~Exists(conf[Preferred]) => ~conf'[Preferred].v1.here /\ ~conf'[Preferred].v2.here
<1>1. PICK c \in Conf : c = conf[Preferred]
  BY PathTypes DEF TypeOK
<1>2. PICK k : k = conf'[Preferred]
  OBVIOUS
<1>3. Exists(c) => c.user
  BY <1>1 DEF PreferredIsPeoples
<1>4. SUFFICES /\ Exists(k) => k.user
               /\ c.user => k.user
               /\ ~Exists(c) => ~k.v1.here /\ ~k.v2.here
  BY <1>1, <1>2 DEF PreferredIsPeoples
<1>5. CASE k = c
  BY <1>3, <1>5 DEF Exists
<1>6. CASE EntryMerged(Preferred)
  <2>1. PICK p \in Procs : At(p, "install", "mcp") /\ Preferred = ConfPath(job[p].target)
    BY <1>6 DEF EntryMerged
  <2>2. job[p].target \in AllTargets
    BY <2>1, JobFields, TargetsAssumption DEF At, Busy
  <2>3. Exists(c)
    BY <1>1, <2>1, <2>2, ConfigFilesDiffer DEF ConfPath
  <2>4. k.user = c.user
    BY <1>1, <1>2, <1>6, PathTypes, EntriesMerged
  <2>5. QED
    BY <1>3, <2>3, <2>4
<1>7. CASE EntryRemoved(Preferred)
  <2>1. PICK v1 \in BOOLEAN : k = RemoveEntry(c, v1)
    BY <1>1, <1>2, <1>7 DEF EntryRemoved
  <2>2. /\ k.v1 = c.v1 \/ ~k.v1.here
        /\ k.v2 = c.v2 \/ ~k.v2.here
        /\ k.user = c.user /\ k.valid = c.valid
    BY <2>1, RemovedEntries
  <2>3. QED
    BY <1>3, <2>2 DEF Exists
<1>8. CASE ConfEdited(Preferred)
  <2>1. \/ c.valid /\ k = [c EXCEPT !.v1 = Custom(c.v1), !.v2 = Custom(c.v2)]
        \/ \E v \in BOOLEAN : k = Spoil(c, v)
        \/ k = [c EXCEPT !.user = TRUE]
    BY <1>1, <1>2, <1>8 DEF ConfEdited
  <2>2. (k.v1.here <=> c.v1.here) /\ (k.v2.here <=> c.v2.here)
    BY <2>1, EditedEntries
  <2>3. CASE c.valid /\ k = [c EXCEPT !.v1 = Custom(c.v1), !.v2 = Custom(c.v2)]
    <3>1. k.user = c.user /\ k.valid = c.valid
      BY <2>3 DEF Conf
    <3>2. QED
      BY <1>3, <2>2, <3>1 DEF Exists
  <2>4. CASE \E v \in BOOLEAN : k = Spoil(c, v)
    <3>1. k.user = c.user /\ (~Exists(c) => k = c)
      BY <2>4 DEF Spoil, Conf
    <3>2. QED
      BY <1>3, <3>1 DEF Exists
  <2>5. CASE k = [c EXCEPT !.user = TRUE]
    <3>1. k.user = TRUE
      BY <2>5 DEF Conf
    <3>2. QED
      BY <2>2, <3>1 DEF Exists
  <2>6. QED
    BY <2>1, <2>3, <2>4, <2>5
<1>9. QED
  BY <1>1, <1>2, <1>5, <1>6, <1>7, <1>8, ConfSteps, PathTypes DEF ConfStep

\* So the config of a target changes only to one without an entry, that people made.
LEMMA ConfPathStep ==
  ASSUME TypeOK, PreferredIsPeoples, [Next]_vars, NEW t \in Targets
  PROVE  \/ ConfPath(t)' = ConfPath(t)
         \/ /\ ConfPath(t)' = Preferred
            /\ ~conf'[Preferred].v1.here /\ ~conf'[Preferred].v2.here
<1>1. Exists(conf[Preferred]) => Exists(conf'[Preferred])
  BY PreferredStep DEF PreferredIsPeoples, Exists
<1>2. CASE Exists(conf[Preferred])
  BY <1>1, <1>2 DEF ConfPath
<1>3. CASE ~Exists(conf[Preferred])
  BY <1>3, PreferredStep DEF ConfPath
<1>4. QED
  BY <1>2, <1>3

\* While the only command uninstalls, no entry comes, and no config is mended.
LEMMA EntriesOnlyGo ==
  ASSUME OneProcess, OneCommandInv, [Next]_vars, NEW p \in Procs, Busy(p, "uninstall"),
         NEW f \in ConfPaths
  PROVE  /\ conf'[f].v1.here => conf[f].v1.here
         /\ conf'[f].v2.here => conf[f].v2.here
         /\ conf'[f].v2.approve => conf[f].v2.approve
         /\ f \in torn => f \in torn'
<1>1. TypeOK
  BY DEF OneCommandInv
<1>2. ~EntryMerged(f)
  BY DEF OneProcess, EntryMerged, At, Busy
<1>3. ASSUME NEW q \in Procs, Stamp(q)
      PROVE  SkillDir[job[q].target] # f
  BY <1>1, <1>3, JobFields, PathTypes, SkillsAreNoConfigs DEF Stamp
<1>4. ~(\E q \in Procs : Migrate(q))
  BY DEF OneProcess, Migrate, At, Busy
<1>5. f \in torn => f \in torn'
  BY <1>1, <1>3, <1>4, TornSteps
<1>6. QED
  BY <1>1, <1>2, <1>5, EntriesKept

\* What an uninstall has cleaned stays clean: the entries,
LEMMA EntriesStayGone ==
  ASSUME OneProcess, OneCommandInv, PreferredIsPeoples, [Next]_vars,
         NEW p \in Procs, Busy(p, "uninstall"), NEW t \in Targets
  PROVE  /\ UsualEntryGone(t) => UsualEntryGone(t)'
         /\ OldEntryGone(t) => OldEntryGone(t)'
<1>1. TypeOK
  BY DEF OneCommandInv
<1>2. PICK f \in ConfPaths : f = ConfPath(t)
  BY PathTypes
<1>3. /\ conf'[f].v1.here => conf[f].v1.here
      /\ conf'[f].v2.here => conf[f].v2.here
      /\ f \in torn => f \in torn'
  BY EntriesOnlyGo
<1>4. CASE ConfPath(t)' = f
  BY <1>2, <1>3, <1>4 DEF UsualEntryGone, OldEntryGone
<1>5. CASE /\ ConfPath(t)' = Preferred
           /\ ~conf'[Preferred].v1.here /\ ~conf'[Preferred].v2.here
  BY <1>5 DEF UsualEntryGone, OldEntryGone
<1>6. QED
  BY <1>1, <1>2, <1>4, <1>5, ConfPathStep

\* the settings, the worker and the instructions,
LEMMA PiecesStayGone ==
  ASSUME OneProcess, OneCommandInv, [Next]_vars, NEW p \in Procs, Busy(p, "uninstall"),
         job'[p].remaining = job[p].remaining, NEW t \in Targets
  PROVE  /\ ~settings.allow => ~settings'.allow
         /\ ~settings.hook => ~settings'.hook
         /\ ~Generated(WorkerFile[t]) => ~Generated(WorkerFile[t])'
         /\ InstructionsGone(p, t) => InstructionsGone(p, t)'
         /\ Has(t, "instructions")' => Has(t, "instructions")
<1>1. TypeOK
  BY DEF OneCommandInv
<1>2. ASSUME NEW q \in Procs, NEW s, At(q, "install", s)
      PROVE  FALSE
  BY <1>2 DEF OneProcess, At, Busy
<1>3. settings \in Settings
  BY <1>1 DEF TypeOK
<1>4. \/ settings' = settings
      \/ settings' = [settings EXCEPT !.allow = FALSE]
      \/ settings' = [settings EXCEPT !.hook = FALSE]
      \/ \E v \in BOOLEAN : settings' = [settings EXCEPT !.valid = v]
      \/ \E m \in SUBSET Mentions :
           settings' = [settings EXCEPT !.mentions = settings.mentions \cup m]
  BY <1>1, <1>2, SettingsSteps DEF SettingsStep
<1>5. (~settings.allow => ~settings'.allow) /\ (~settings.hook => ~settings'.hook)
  BY <1>3, <1>4 DEF Settings
<1>6. ASSUME NEW f \in OwnPaths, own'[f].by = "memdag"
      PROVE  own[f].by = "memdag"
  <2>1. ~WorkerWritten(f) /\ ~RuleWritten(f)
    BY <1>2 DEF WorkerWritten, RuleWritten
  <2>2. own[f] \in Own
    BY <1>1 DEF TypeOK
  <2>3. OwnEdited(f) => own[f].by = "memdag"
    BY <1>6, <2>2 DEF OwnEdited, Own
  <2>4. ~OwnRemoved(f)
    BY <1>6 DEF OwnRemoved, Nobodys
  <2>5. QED
    BY <1>1, <1>6, <2>1, <2>3, <2>4, OwnSteps DEF OwnStep
<1>7. ~Generated(WorkerFile[t]) => ~Generated(WorkerFile[t])'
  BY <1>6, PathTypes DEF Generated
<1>8. Has(t, "instructions")' => Has(t, "instructions")
  <2>1. CASE t \in OwnRule
    BY <1>6, <2>1, PathTypes DEF Has, Generated
  <2>2. CASE t \notin OwnRule
    <3>1. PICK f \in TextPaths : f = Real(InstructionsFile[t])
      BY <2>2, PathTypes
    <3>2. text'[f] # "none" => text[f] # "none"
      BY <1>1, <1>2, TextSteps DEF TextStep, TextWritten, TextRemoved
    <3>3. QED
      BY <2>2, <3>1, <3>2 DEF Has
  <2>3. QED
    BY <2>1, <2>2
<1>9. QED
  BY <1>5, <1>7, <1>8 DEF InstructionsGone

\* the skill.
LEMMA SkillStaysGone ==
  ASSUME OneProcess, OneCommandInv, [Next]_vars, NEW p \in Procs, Busy(p, "uninstall"),
         job'[p].remaining = job[p].remaining, NEW t \in Targets, SkillGone(p, t)
  PROVE  SkillGone(p, t)'
<1>1. TypeOK /\ StampsAreMemdags
  BY DEF OneCommandInv
<1>2. PICK d \in SkillDirs : d = SkillDir[t]
  BY PathTypes
<1>3. skill[d] \in Skill /\ skill'[d] \in Skill
  BY <1>1, SkillSteps DEF TypeOK, SkillStep
<1>4. \/ skill'[d] = skill[d]
      \/ skill'[d] = [skill[d] EXCEPT !.md = "none"]
      \/ skill'[d] = [skill[d] EXCEPT !.stamp = FALSE]
      \/ skill'[d] = [skill[d] EXCEPT !.md = "foreign"]
  BY <1>1, SkillSteps DEF SkillStep, SkillFor, OneProcess, At, Busy
<1>5. skill'[d].stamp \/ skill'[d].md = "ours" => skill[d].stamp \/ skill[d].md = "ours"
  BY <1>3, <1>4 DEF Skill
<1>6. ASSUME skill'[d].stamp \/ skill'[d].md = "ours", d \in torn
      PROVE  d \in torn'
  <2>1. ~(\E q \in Procs : Migrate(q))
    BY DEF OneProcess, Migrate, At, Busy
  <2>2. ASSUME NEW q \in Procs, Stamp(q), SkillDir[job[q].target] = d
        PROVE  FALSE
    <3>1. q = p /\ At(p, "uninstall", "stamp")
      BY <2>2 DEF OneProcess, Stamp, At, Busy
    <3>2. HalfWritten(p, "uninstall")
      <4>1. ~(Rank["stamp"] <= Rank["skill"])
        BY DEF Rank
      <4>2. QED
        BY <3>1, <4>1 DEF At, IsNext, HalfWritten
    <3>3. skill[d].md = "none"
      BY <1>1, <2>2, <3>1, <3>2 DEF StampsAreMemdags
    <3>4. skill' = [skill EXCEPT ![d].stamp = FALSE]
      BY <2>2, <3>1 DEF Stamp, Busy
    <3>5. ~skill'[d].stamp /\ skill'[d].md = "none"
      BY <1>1, <1>3, <3>3, <3>4 DEF TypeOK, Skill
    <3>6. QED
      BY <1>6, <3>5
  <2>3. QED
    BY <1>1, <1>6, <2>1, <2>2, TornSteps
<1>7. QED
  BY <1>2, <1>5, <1>6 DEF SkillGone

\* Each step of an uninstall cleans what it is for: the entry in its usual place,
LEMMA UsualEntryCleaned ==
  ASSUME OneProcess, OneCommandInv, PreferredIsPeoples, [Next]_vars,
         NEW p \in Procs, Busy(p, "uninstall"), Works(p),
         "mcp" \in job[p].todo, "mcp" \notin job'[p].todo,
         NEW t \in Targets, t = job[p].target
  PROVE  UsualEntryGone(t)'
<1>1. TypeOK /\ job[p] # Idle /\ job[p].cmd.op = "uninstall"
  BY DEF OneCommandInv, Busy
<1>2. PICK f \in ConfPaths : f = ConfPath(t)
  BY PathTypes
<1>3. PICK c \in Conf : c = conf[f]
  BY <1>1 DEF TypeOK
<1>4. \/ RemoveToml(p)
      \/ t # "codex" /\ conf' = [conf EXCEPT ![f] = RemoveEntry(c, FALSE)]
         /\ torn' = torn \cup {g \in {f} : ~c.valid}
  <2>1. ASSUME NEW steps, Done(p, steps), "mcp" \notin steps
        PROVE  FALSE
    BY <1>1, <2>1, DoneSteps
  <2>2. ~Install(p)
    BY <1>1 DEF Install, InstallMcp, InstallToml, Migrate, WriteWorker, WriteInstructions,
                WriteSkill, At, Busy
  <2>3. ~RemoveWorker(p) /\ ~RemoveInstructions(p) /\ ~RemoveSkill(p)
        /\ ~Stamp(p) /\ ~EditPermissions(p) /\ ~EditHook(p)
    BY <2>1 DEF RemoveWorker, RemoveInstructions, RemoveSkill, Stamp, EditPermissions, EditHook
  <2>4. ASSUME RemoveMcp(p)
        PROVE  t # "codex" /\ conf' = [conf EXCEPT ![f] = RemoveEntry(c, FALSE)]
               /\ torn' = torn \cup {g \in {f} : ~c.valid}
    <3>1. PICK s \in {"mcp", "mcp1"} :
            /\ conf' = [conf EXCEPT ![f] = RemoveEntry(c, s = "mcp1")]
            /\ torn' = torn \cup {g \in {f} : ~c.valid}
            /\ Done(p, {s})
      BY <1>2, <1>3, <2>4 DEF RemoveMcp
    <3>2. s = "mcp"
      BY <2>1, <3>1
    <3>3. t # "codex"
      BY <2>4 DEF RemoveMcp
    <3>4. (s = "mcp1") = FALSE
      BY <3>2
    <3>5. QED
      BY <3>1, <3>3, <3>4
  <2>5. QED
    BY <2>2, <2>3, <2>4 DEF Works, Uninstall
<1>5. ~conf'[f].v2.here \/ f \in torn'
  <2>1. CASE RemoveToml(p)
    <3>1. f = ConfigFile["codex"]
      BY <1>2, <2>1 DEF RemoveToml, ConfPath
    <3>2. conf' = [conf EXCEPT ![f].v2 = NoEntry]
      BY <2>1, <3>1 DEF RemoveToml
    <3>3. conf'[f].v2 = NoEntry
      BY <1>1, <3>2 DEF TypeOK, Conf
    <3>4. QED
      BY <3>3 DEF NoEntry
  <2>2. CASE conf' = [conf EXCEPT ![f] = RemoveEntry(c, FALSE)]
             /\ torn' = torn \cup {g \in {f} : ~c.valid}
    <3>1. conf'[f] = RemoveEntry(c, FALSE)
      BY <1>1, <2>2 DEF TypeOK
    <3>2. c.valid => ~EntryOf(conf'[f], FALSE).here
      BY <3>1, RemovedEntries
    <3>3. QED
      BY <2>2, <3>2 DEF EntryOf
  <2>3. QED
    BY <1>4, <2>1, <2>2
<1>6. QED
  BY <1>1, <1>2, <1>5, ConfPathStep DEF UsualEntryGone

\* the one in the old shape,
LEMMA OldEntryCleaned ==
  ASSUME OneProcess, OneCommandInv, PreferredIsPeoples, [Next]_vars,
         NEW p \in Procs, Busy(p, "uninstall"), Works(p),
         "mcp1" \in job[p].todo, "mcp1" \notin job'[p].todo,
         NEW t \in Targets, t = job[p].target
  PROVE  OldEntryGone(t)'
<1>1. TypeOK /\ job[p] # Idle /\ job[p].cmd.op = "uninstall"
  BY DEF OneCommandInv, Busy
<1>2. PICK f \in ConfPaths : f = ConfPath(t)
  BY PathTypes
<1>3. PICK c \in Conf : c = conf[f]
  BY <1>1 DEF TypeOK
<1>4. conf' = [conf EXCEPT ![f] = RemoveEntry(c, TRUE)]
      /\ torn' = torn \cup {g \in {f} : ~c.valid}
  <2>1. ASSUME NEW steps, Done(p, steps), "mcp1" \notin steps
        PROVE  FALSE
    BY <1>1, <2>1, DoneSteps
  <2>2. ~Install(p)
    BY <1>1 DEF Install, InstallMcp, InstallToml, Migrate, WriteWorker, WriteInstructions,
                WriteSkill, At, Busy
  <2>3. ~RemoveToml(p) /\ ~RemoveWorker(p) /\ ~RemoveInstructions(p) /\ ~RemoveSkill(p)
        /\ ~Stamp(p) /\ ~EditPermissions(p) /\ ~EditHook(p)
    BY <2>1 DEF RemoveToml, RemoveWorker, RemoveInstructions, RemoveSkill, Stamp, EditPermissions,
                EditHook
  <2>4. RemoveMcp(p)
    BY <2>2, <2>3 DEF Works, Uninstall
  <2>5. PICK s \in {"mcp", "mcp1"} :
          /\ conf' = [conf EXCEPT ![f] = RemoveEntry(c, s = "mcp1")]
          /\ torn' = torn \cup {g \in {f} : ~c.valid}
          /\ Done(p, {s})
    BY <1>2, <1>3, <2>4 DEF RemoveMcp
  <2>6. (s = "mcp1") = TRUE
    BY <2>1, <2>5
  <2>7. QED
    BY <2>5, <2>6
<1>5. ~conf'[f].v1.here \/ f \in torn'
  <2>1. conf'[f] = RemoveEntry(c, TRUE)
    BY <1>1, <1>4 DEF TypeOK
  <2>2. c.valid => ~EntryOf(conf'[f], TRUE).here
    BY <2>1, RemovedEntries
  <2>3. QED
    BY <1>4, <2>2 DEF EntryOf
<1>6. QED
  BY <1>1, <1>2, <1>5, ConfPathStep DEF OldEntryGone

\* the pieces in Claude Code's settings, the worker and the instructions,
LEMMA PiecesCleaned ==
  ASSUME OneCommandInv, [Next]_vars, NEW p \in Procs, Busy(p, "uninstall"), Works(p),
         NEW s \in {"permissions", "hooks", "worker", "instructions"},
         s \in job[p].todo, s \notin job'[p].todo,
         NEW t \in Targets, t = job[p].target
  PROVE  /\ s = "permissions" => ~settings'.allow
         /\ s = "hooks" => ~settings'.hook
         /\ s = "worker" => ~Generated(WorkerFile[t])'
         /\ s = "instructions" => InstructionsGone(p, t)'
<1>1. TypeOK /\ JobsFit /\ job[p] # Idle /\ job[p].cmd.op = "uninstall"
  BY DEF OneCommandInv, Busy
<1>2. ASSUME NEW steps, Done(p, steps), s \notin steps
      PROVE  FALSE
  BY <1>1, <1>2, DoneSteps
<1>3. ~Install(p)
  BY <1>1 DEF Install, InstallMcp, InstallToml, Migrate, WriteWorker, WriteInstructions,
              WriteSkill, At, Busy
<1>4. ~RemoveMcp(p) /\ ~RemoveToml(p) /\ ~RemoveSkill(p) /\ ~Stamp(p)
  BY <1>2 DEF RemoveMcp, RemoveToml, RemoveSkill, Stamp
<1>5. /\ EditPermissions(p) => s = "permissions"
      /\ EditHook(p) => s = "hooks"
      /\ RemoveWorker(p) => s = "worker"
      /\ RemoveInstructions(p) => s = "instructions"
  BY <1>2 DEF EditPermissions, EditHook, RemoveWorker, RemoveInstructions
<1>6. CASE EditPermissions(p)
  <2>1. settings' = [settings EXCEPT !.allow = FALSE]
    BY <1>1, <1>6 DEF EditPermissions, At, Busy
  <2>2. ~settings'.allow
    BY <1>1, <2>1 DEF TypeOK, Settings
  <2>3. QED
    BY <1>5, <1>6, <2>2
<1>7. CASE EditHook(p)
  <2>1. settings' = [settings EXCEPT !.hook = FALSE]
    BY <1>1, <1>7 DEF EditHook, At, Busy
  <2>2. ~settings'.hook
    BY <1>1, <2>1 DEF TypeOK, Settings
  <2>3. QED
    BY <1>5, <1>7, <2>2
<1>8. ASSUME NEW f \in OwnPaths, own' = WithoutOwned(f)
      PROVE  own'[f].by # "memdag"
  BY <1>1, <1>8 DEF WithoutOwned, Nobodys, TypeOK
<1>9. CASE RemoveWorker(p)
  <2>1. own' = WithoutOwned(WorkerFile[t])
    BY <1>9 DEF RemoveWorker
  <2>2. ~Generated(WorkerFile[t])'
    BY <1>8, <2>1, PathTypes DEF Generated
  <2>3. QED
    BY <1>5, <1>9, <2>2
<1>10. CASE RemoveInstructions(p)
  <2>1. Done(p, {"instructions"})
    BY <1>10 DEF RemoveInstructions
  <2>2. job'[p].remaining = job[p].remaining /\ job[p].remaining \subseteq Targets
    BY <1>1, <2>1, DoneSteps, JobFields
  <2>3. InstructionsGone(p, t)'
    <3>1. CASE InstructionsShared(p)
      BY <2>2, <3>1 DEF InstructionsShared, InstructionsGone
    <3>2. CASE ~InstructionsShared(p) /\ t \in OwnRule
      <4>1. own' = WithoutOwned(InstructionsFile[t])
        BY <1>10, <3>2 DEF RemoveInstructions
      <4>2. ~Generated(InstructionsFile[t])'
        BY <1>8, <3>2, <4>1, PathTypes DEF Generated
      <4>3. QED
        BY <3>2, <4>2 DEF InstructionsGone, Has
    <3>3. CASE ~InstructionsShared(p) /\ t \notin OwnRule
      <4>1. PICK f \in TextPaths : f = Real(InstructionsFile[t])
        BY <3>3, PathTypes
      <4>2. text[f] # "unbalanced" /\ text' = [text EXCEPT ![f] = RemoveBlock(text[f])]
        BY <1>10, <3>3, <4>1 DEF RemoveInstructions
      <4>3. text'[f] = "none"
        BY <1>1, <4>2 DEF TypeOK, RemoveBlock
      <4>4. QED
        BY <3>3, <4>1, <4>3 DEF InstructionsGone, Has
    <3>4. QED
      BY <3>1, <3>2, <3>3
  <2>4. QED
    BY <1>5, <1>10, <2>3
<1>11. QED
  BY <1>3, <1>4, <1>6, <1>7, <1>9, <1>10 DEF Works, Uninstall

\* the skill.
LEMMA SkillCleaned ==
  ASSUME OneProcess, OneCommandInv, [Next]_vars, NEW p \in Procs, Busy(p, "uninstall"), Works(p),
         "stamp" \in job[p].todo, "stamp" \notin job'[p].todo,
         NEW t \in Targets, t = job[p].target
  PROVE  SkillGone(p, t)'
<1>1. TypeOK /\ StampsAreMemdags /\ job[p] # Idle /\ job[p].cmd.op = "uninstall"
  BY DEF OneCommandInv, Busy
<1>2. PICK d \in SkillDirs : t = job[p].target /\ d = SkillDir[t]
  BY PathTypes
<1>3. ASSUME NEW steps, Done(p, steps), "stamp" \notin steps
      PROVE  FALSE
  BY <1>1, <1>3, DoneSteps
<1>4. ~Install(p)
  BY <1>1 DEF Install, InstallMcp, InstallToml, Migrate, WriteWorker, WriteInstructions,
              WriteSkill, At, Busy
<1>5. ~RemoveMcp(p) /\ ~RemoveToml(p) /\ ~RemoveWorker(p) /\ ~RemoveInstructions(p)
      /\ ~EditPermissions(p) /\ ~EditHook(p)
  BY <1>3 DEF RemoveMcp, RemoveToml, RemoveWorker, RemoveInstructions, EditPermissions, EditHook
<1>6. skill[d] \in Skill
  BY <1>1 DEF TypeOK
<1>7. CASE Stamp(p)
  <2>1. At(p, "uninstall", "stamp")
    BY <1>1, <1>7 DEF Stamp, At, Busy
  <2>2. HalfWritten(p, "uninstall")
    <3>1. ~(Rank["stamp"] <= Rank["skill"])
      BY DEF Rank
    <3>2. QED
      BY <2>1, <3>1 DEF At, IsNext, HalfWritten
  <2>3. skill[d].md = "none"
    BY <1>1, <1>2, <2>2 DEF StampsAreMemdags
  <2>4. skill' = [skill EXCEPT ![d].stamp = FALSE]
    BY <1>1, <1>2, <1>7 DEF Stamp
  <2>5. ~skill'[d].stamp /\ skill'[d].md = "none"
    BY <1>1, <1>6, <2>3, <2>4 DEF TypeOK, Skill
  <2>6. QED
    BY <1>2, <2>5 DEF SkillGone
<1>8. CASE RemoveSkill(p)
  <2>1. Done(p, {"skill", "stamp"}) /\ skill' = skill /\ torn' = torn
        /\ (SkillShared(p) \/ ~skill[d].stamp)
    BY <1>2, <1>3, <1>8 DEF RemoveSkill
  <2>2. job'[p].remaining = job[p].remaining /\ job[p].remaining \subseteq Targets
    BY <1>1, <2>1, DoneSteps, JobFields
  <2>3. CASE SkillShared(p)
    BY <1>2, <2>2, <2>3 DEF SkillShared, SkillGone
  <2>4. CASE ~skill[d].stamp
    <3>1. ~(\E q \in Procs : HalfWritten(q, "install"))
      BY <1>1 DEF OneProcess, HalfWritten, Busy
    <3>2. skill[d].md = "ours" => d \in torn
      BY <1>1, <2>4, <3>1 DEF StampsAreMemdags
    <3>3. QED
      BY <1>2, <2>1, <2>4, <3>2 DEF SkillGone
  <2>5. QED
    BY <2>1, <2>3, <2>4
<1>9. QED
  BY <1>4, <1>5, <1>7, <1>8 DEF Works, Uninstall

\* What is clean stays clean while the uninstall runs.
LEMMA GoneStays ==
  ASSUME OneProcess, OneCommandInv, PreferredIsPeoples, [Next]_vars, NEW p \in Procs,
         Busy(p, "uninstall"), job'[p].remaining = job[p].remaining,
         NEW t \in Targets, NEW s, Gone(p, t, s)
  PROVE  Gone(p, t, s)'
BY EntriesStayGone, PiecesStayGone, SkillStaysGone DEF Gone

\* Each step cleans what it is for.
LEMMA StepCleans ==
  ASSUME OneProcess, OneCommandInv, PreferredIsPeoples, [Next]_vars,
         NEW p \in Procs, Busy(p, "uninstall"), Works(p), NEW t \in Targets, t = job[p].target,
         NEW s, s \in job[p].todo, s \notin job'[p].todo
  PROVE  Gone(p, t, s)'
<1>1. CASE s \in {"permissions", "hooks", "worker", "instructions"}
  BY <1>1, PiecesCleaned DEF Gone
<1>2. CASE s \in {"mcp", "mcp1", "stamp"}
  BY <1>2, UsualEntryCleaned, OldEntryCleaned, SkillCleaned DEF Gone
<1>3. CASE s \notin {"permissions", "hooks", "worker", "instructions", "mcp", "mcp1", "stamp"}
  BY <1>3 DEF Gone
<1>4. QED
  BY <1>1, <1>2, <1>3

\* Where a step does not apply, there is nothing to clean.
LEMMA NothingToClean ==
  ASSUME NEW p, NEW t \in Targets, NEW s \in Steps, s \notin Plan("uninstall", t, AllParts)
  PROVE  Gone(p, t, s)'
<1>1. PartOf(s) \in AllParts
  BY DEF PartOf, AllParts, Steps, Rank
<1>2. ~Applies("uninstall", t, s)
  BY <1>1 DEF Plan
<1>3. /\ s \notin {"mcp", "stamp"}
      /\ s = "mcp1" => t # "opencode"
      /\ s \in {"permissions", "hooks"} => t # "claude_code"
      /\ s = "worker" => WorkerFile[t] = NoPath
      /\ s = "instructions" => InstructionsFile[t] = NoPath
  BY <1>2 DEF Applies
<1>4. s = "instructions" => InstructionsGone(p, t)'
  BY <1>3, SharedFilesExist, TargetsAssumption DEF InstructionsGone, Has, Generated
<1>5. s = "worker" => ~Generated(WorkerFile[t])'
  BY <1>3 DEF Generated
<1>6. s = "mcp1" => OldEntryGone(t)'
  BY <1>3 DEF OldEntryGone
<1>7. QED
  BY <1>3, <1>4, <1>5, <1>6 DEF Gone

\* So, of an uninstall of everything, all but the steps left is done.
LEMMA CleanedStep ==
  ASSUME OneProcess, UninstallsTakeAll,
         OneCommandInv, PreferredIsPeoples, CleanedSoFar, [Next]_vars
  PROVE  CleanedSoFar'
<1> SUFFICES ASSUME NEW p \in Procs, Busy(p, "uninstall")', job'[p].cmd.parts = AllParts,
                    NEW t \in job'[p].cmd.targets \ job'[p].left, NEW s \in Steps,
                    ~(t = job'[p].target /\ s \in job'[p].todo)
             PROVE  Gone(p, t, s)'
  BY DEF CleanedSoFar
<1>1. TypeOK /\ JobsFit /\ TypeOK' /\ job'[p] # Idle
  BY TypeStep DEF OneCommandInv, Busy
<1>2. t \in Targets
  <2>1. \A cmd \in Command : cmd.targets \subseteq Targets
    BY DEF Command
  <2>2. job'[p].cmd \in Command
    BY <1>1 DEF TypeOK, Job
  <2>3. QED
    BY <2>1, <2>2
<1>3. ASSUME NEW cmd \in Commands, Start(p, cmd), cmd.op = "uninstall"
      PROVE  FALSE
  <2>1. job'[p].left = IF cmd.refresh THEN {u \in cmd.targets : IsInstalled(u)} ELSE cmd.targets
    BY <1>1, <1>3, StartJob
  <2>2. job'[p].cmd = cmd
    BY <1>1, <1>3, StartJob
  <2>3. job'[p].left = cmd.targets
    BY <1>3, <2>1 DEF UninstallsTakeAll
  <2>4. QED
    BY <2>2, <2>3
<1>4. /\ Busy(p, "uninstall") /\ job[p] # Idle
      /\ job'[p].cmd = job[p].cmd /\ job'[p].remaining = job[p].remaining
  BY <1>1, <1>3, UninstallSteps DEF Busy
<1>5. ASSUME t \notin job[p].left, ~(t = job[p].target /\ s \in job[p].todo)
      PROVE  Gone(p, t, s)'
  <2>1. Gone(p, t, s)
    BY <1>4, <1>5 DEF CleanedSoFar
  <2>2. QED
    BY <1>2, <1>4, <2>1, GoneStays
<1>6. CASE job'[p] = job[p]
  BY <1>5, <1>6
<1>7. CASE BeginTarget(p)
  <2>1. PICK u \in job[p].left :
          /\ job[p].todo = {}
          /\ job'[p].left = job[p].left \ {u}
          /\ job'[p].target = u
          /\ job'[p].todo = Plan(job[p].cmd.op, u, PartsFor(job[p].cmd, u))
    BY <1>1, <1>7, BeginTargetJob
  <2>2. CASE t = u
    <3>1. job[p].cmd.op = "uninstall" /\ job[p].cmd.parts = AllParts /\ ~job[p].cmd.refresh
      BY <1>1, <1>4 DEF Busy, JobsFit, UninstallsTakeAll
    <3>2. job'[p].todo = Plan("uninstall", t, AllParts)
      BY <2>1, <2>2, <3>1 DEF PartsFor
    <3>3. QED
      BY <1>2, <2>1, <2>2, <3>2, NothingToClean
  <2>3. CASE t # u
    BY <1>5, <2>1, <2>3
  <2>4. QED
    BY <2>2, <2>3
<1>8. CASE Works(p) /\ Proceeds(p)
  <2>1. job'[p].left = job[p].left /\ job'[p].target = job[p].target
    BY <1>8 DEF Proceeds
  <2>2. CASE t = job[p].target /\ s \in job[p].todo
    BY <1>2, <1>4, <1>8, <2>1, <2>2, StepCleans
  <2>3. CASE ~(t = job[p].target /\ s \in job[p].todo)
    BY <1>5, <2>1, <2>3
  <2>4. QED
    BY <2>2, <2>3
<1>9. ~(\E cmd \in Commands : Start(p, cmd))
  BY <1>4 DEF Start
<1>10. ~InstallMcp(p)
  BY <1>4 DEF InstallMcp, At, Busy
<1>11. QED
  BY <1>1, <1>6, <1>7, <1>8, <1>9, <1>10, JobSteps

\* At its end, nothing is left to do.
LEMMA EndIsClean ==
  ASSUME OneCommandInv, CleanedSoFar, NEW p \in Procs, Busy(p, "uninstall"),
         job[p].cmd.parts = AllParts, End(p), NEW t \in job[p].cmd.targets
  PROVE  /\ Configured(t) => ConfPath(t) \in torn
         /\ ~Generated(WorkerFile[t])
         /\ Has(t, "instructions") =>
              \E o \in Targets : o \in job[p].remaining /\ SameFile(InstructionsFile[o], InstructionsFile[t])
         /\ skill[SkillDir[t]].stamp \/ skill[SkillDir[t]].md = "ours" =>
              \/ SkillDir[t] \in torn
              \/ \E o \in Targets : o \in job[p].remaining /\ SkillDir[o] = SkillDir[t]
         /\ t = "claude_code" => ~settings.allow /\ ~settings.hook
<1>1. job[p].todo = {} /\ job[p].left = {}
  BY DEF End
<1>2. \A s \in Steps : Gone(p, t, s)
  BY <1>1 DEF CleanedSoFar
<1>3. \A s \in {"mcp", "mcp1", "permissions", "hooks", "worker", "instructions", "stamp"} : s \in Steps
  BY DEF Steps, Rank
<1>4. /\ UsualEntryGone(t) /\ OldEntryGone(t) /\ InstructionsGone(p, t) /\ SkillGone(p, t)
      /\ ~Generated(WorkerFile[t])
      /\ t = "claude_code" => ~settings.allow /\ ~settings.hook
  BY <1>2, <1>3 DEF Gone
<1>5. Configured(t) => ConfPath(t) \in torn
  BY <1>4 DEF Configured, UsualEntryGone, OldEntryGone
<1>6. QED
  BY <1>4, <1>5 DEF InstructionsGone, SkillGone

\* An installer that runs alone, whatever people edit in between: when an uninstall of
\* everything has ended, nothing of memdag is left for its targets, but for what targets
\* that stay installed use too, and files that could not be read or were left half written.
THEOREM CompleteUninstall ==
  ASSUME OneProcess, UninstallsTakeAll
  PROVE  Spec => UninstallIsComplete
<1> DEFINE Inv == PreferredIsPeoples /\ CleanedSoFar
<1>1. Init => Inv
  <2> SUFFICES ASSUME Init
               PROVE  Inv
    OBVIOUS
  <2>1. CleanedSoFar
    BY DEF Init, CleanedSoFar, Busy
  <2>2. PreferredIsPeoples
    BY BeginAssumption DEF Init, Whole, PreferredIsPeoples
  <2>3. QED
    BY <2>1, <2>2
<1>2. OneCommandInv /\ Inv /\ [Next]_vars => Inv'
  BY CleanedStep, PreferredStep DEF OneCommandInv
<1>3. OneCommandInv /\ Inv =>
        [\A p \in Procs :
           /\ Busy(p, "uninstall")
           /\ job[p].cmd.parts = AllParts
           /\ job[p].cmd.protect
           /\ End(p)
           => \A t \in job[p].cmd.targets :
                LET d == SkillDir[t]
                    kept(o) == o \in job[p].remaining
                IN  /\ Configured(t) => ConfPath(t) \in torn
                    /\ ~Generated(WorkerFile[t])
                    /\ Has(t, "instructions") =>
                         \E o \in Targets : kept(o) /\ SameFile(InstructionsFile[o], InstructionsFile[t])
                    /\ skill[d].stamp \/ skill[d].md = "ours" =>
                         d \in torn \/ \E o \in Targets : kept(o) /\ SkillDir[o] = d
                    /\ t = "claude_code" => ~settings.allow /\ ~settings.hook]_vars
  BY EndIsClean
<1>4. QED
  BY <1>1, <1>2, <1>3, OneCommand, PTL DEF Spec, UninstallIsComplete

-----------------------------------------------------------------------------
(***************************************************************************)
(* A refresh                                                               *)
(***************************************************************************)

\* A command that installs did so before, or has nothing to do yet, or is at a new target.
LEMMA InstallSteps ==
  ASSUME TypeOK, [Next]_vars, NEW p \in Procs, Busy(p, "install")'
  PROVE  \/ job'[p].todo = {}
         \/ BeginTarget(p)
         \/ /\ Busy(p, "install")
            /\ job'[p].cmd = job[p].cmd /\ job'[p].target = job[p].target
            /\ job'[p].parts = job[p].parts
            /\ job'[p].todo \subseteq job[p].todo \cup {"migrate"}
<1>1. job'[p] # Idle /\ job'[p].cmd.op = "install"
  BY DEF Busy
<1>2. ASSUME NEW cmd \in Commands, Start(p, cmd)
      PROVE  job'[p].todo = {}
  BY <1>2, StartJob
<1>3. CASE job'[p] = job[p]
  BY <1>1, <1>3 DEF Busy
<1>4. CASE InstallMcp(p)
  BY <1>1, <1>4, InstallMcpJob DEF Busy
<1>5. CASE Proceeds(p)
  BY <1>1, <1>5 DEF Busy, Proceeds
<1>6. QED
  BY <1>1, <1>2, <1>3, <1>4, <1>5, JobSteps

\* While the only command installs, no entry goes but by Migrate.
LEMMA EntriesOnlyCome ==
  ASSUME OneProcess, TypeOK, [Next]_vars, NEW p \in Procs, Busy(p, "install"),
         ~Migrate(p), NEW f \in ConfPaths
  PROVE  /\ conf[f].v1.here => conf'[f].v1.here
         /\ conf[f].v2.here => conf'[f].v2.here
         /\ conf[f].v2.approve => conf'[f].v2.approve
<1>1. ~EntryRemoved(f)
  BY DEF OneProcess, EntryRemoved, Removing, Busy
<1>2. PICK c, k : c \in Conf /\ c = conf[f] /\ k = conf'[f]
  BY DEF TypeOK
<1>3. CASE EntryMerged(f)
  <2>1. PICK v1, approve \in BOOLEAN :
          /\ (k.v1.here <=> c.v1.here \/ v1) /\ (k.v2.here <=> c.v2.here \/ ~v1)
          /\ k.v2.approve <=> c.v2.approve \/ (~v1 /\ approve)
    BY <1>2, <1>3, EntriesMerged
  <2>2. QED
    BY <1>2, <2>1
<1>4. CASE ConfEdited(f)
  <2>1. \/ k = [c EXCEPT !.v1 = Custom(c.v1), !.v2 = Custom(c.v2)]
        \/ \E v \in BOOLEAN : k = Spoil(c, v)
        \/ k = [c EXCEPT !.user = TRUE]
    BY <1>2, <1>4 DEF ConfEdited
  <2>2. (k.v1.here <=> c.v1.here) /\ (k.v2.here <=> c.v2.here) /\ (k.v2.approve <=> c.v2.approve)
    BY <1>2, <2>1, EditedEntries
  <2>3. QED
    BY <1>2, <2>2
<1>5. QED
  BY <1>1, <1>3, <1>4, ConfSteps DEF ConfStep

\* Nor do the other pieces, while it installs.
LEMMA PiecesOnlyCome ==
  ASSUME OneProcess, TypeOK, [Next]_vars, NEW p \in Procs, Busy(p, "install"),
         NEW t \in Targets
  PROVE  /\ settings.allow => settings'.allow
         /\ settings.hook => settings'.hook
         /\ settings.mentions \subseteq settings'.mentions
         /\ skill[SkillDir[t]].stamp => skill'[SkillDir[t]].stamp
         /\ Generated(WorkerFile[t]) => Generated(WorkerFile[t])'
         /\ Has(t, "instructions") => Has(t, "instructions")'
         /\ t = "opencode" /\ (job[p].todo # {} => "permissions" \in job[p].parts)
            /\ Generated(WorkerFile[t]) /\ own[WorkerFile[t]].allow => own'[WorkerFile[t]].allow
<1>1. ASSUME NEW q \in Procs, NEW s, At(q, "uninstall", s)
      PROVE  FALSE
  BY <1>1 DEF OneProcess, At, Busy
<1>2. settings \in Settings
  BY DEF TypeOK
<1>3. \/ settings' = settings
      \/ settings' = [settings EXCEPT !.allow = TRUE]
      \/ settings' = [settings EXCEPT !.hook = TRUE]
      \/ \E v \in BOOLEAN : settings' = [settings EXCEPT !.valid = v]
      \/ \E m \in SUBSET Mentions :
           settings' = [settings EXCEPT !.mentions = settings.mentions \cup m]
  BY <1>1, SettingsSteps DEF SettingsStep
<1>4. /\ settings.allow => settings'.allow
      /\ settings.hook => settings'.hook
      /\ settings.mentions \subseteq settings'.mentions
  BY <1>2, <1>3 DEF Settings
<1>5. ASSUME NEW d \in SkillDirs, skill[d].stamp
      PROVE  skill'[d].stamp
  <2>1. skill[d] \in Skill
    BY DEF TypeOK
  <2>2. \/ skill'[d] = skill[d]
        \/ skill'[d] = [skill[d] EXCEPT !.md = "ours"]
        \/ skill'[d] = [skill[d] EXCEPT !.stamp = TRUE]
    BY <1>1, <1>5, SkillSteps DEF SkillStep, SkillFor
  <2>3. QED
    BY <1>5, <2>1, <2>2 DEF Skill
<1>6. ASSUME NEW f \in OwnPaths, own[f].by = "memdag"
      PROVE  own'[f].by = "memdag" /\ (own'[f].allow = own[f].allow \/ WorkerWritten(f) \/ RuleWritten(f))
  <2>1. own[f] \in Own
    BY DEF TypeOK
  <2>2. ~OwnRemoved(f)
    BY <1>1 DEF OwnRemoved
  <2>3. CASE OwnEdited(f)
    BY <1>6, <2>1, <2>3 DEF OwnEdited, Own
  <2>4. CASE WorkerWritten(f)
    <3>1. PICK u, pinned, allow : own'[f] = WorkerText(u, pinned, allow)
      BY <2>4 DEF WorkerWritten
    <3>2. QED
      BY <2>4, <3>1 DEF WorkerText
  <2>5. CASE RuleWritten(f)
    BY <2>5 DEF RuleWritten, Nobodys
  <2>6. QED
    BY <1>6, <2>2, <2>3, <2>4, <2>5, OwnSteps DEF OwnStep
<1>7. Generated(WorkerFile[t]) => Generated(WorkerFile[t])'
  BY <1>6, PathTypes DEF Generated
<1>8. Has(t, "instructions") => Has(t, "instructions")'
  <2>1. CASE t \in OwnRule
    BY <1>6, <2>1, PathTypes DEF Has, Generated
  <2>2. CASE t \notin OwnRule
    <3>1. PICK f \in TextPaths : f = Real(InstructionsFile[t])
      BY <2>2, PathTypes
    <3>2. text[f] # "none" => text'[f] # "none"
      BY <1>1, TextSteps DEF TextStep, TextWritten, TextRemoved
    <3>3. QED
      BY <2>2, <3>1, <3>2 DEF Has
  <2>3. QED
    BY <2>1, <2>2
<1>9. ASSUME t = "opencode", job[p].todo # {} => "permissions" \in job[p].parts,
             Generated(WorkerFile[t]), own[WorkerFile[t]].allow
      PROVE  own'[WorkerFile[t]].allow
  <2>1. PICK f \in OwnPaths : f = WorkerFile[t] /\ own[f].by = "memdag" /\ f # NoPath
    BY <1>9, PathTypes DEF Generated
  <2>2. CASE WorkerWritten(f)
    <3>1. PICK q \in Procs, u \in Targets, pinned \in BOOLEAN, allow \in BOOLEAN :
            /\ At(q, "install", "worker") /\ u = job[q].target /\ f = WorkerFile[u]
            /\ allow <=> "permissions" \in job[q].parts
            /\ own'[f] = WorkerText(u, pinned, allow)
      BY <2>2 DEF WorkerWritten
    <3>2. u = "opencode" /\ allow = TRUE
      <4>1. q = p /\ job[p].todo # {}
        BY <3>1 DEF OneProcess, At, IsNext
      <4>2. u = t
        BY <2>1, <3>1, WorkerFilesDiffer, TargetsAssumption
      <4>3. QED
        BY <1>9, <3>1, <4>1, <4>2
    <3>3. own'[f].allow = (u = "opencode" /\ allow)
      BY <3>1 DEF WorkerText
    <3>4. own'[f].allow
      BY <3>2, <3>3
    <3>5. QED
      BY <2>1, <3>4
  <2>3. ~RuleWritten(f)
    BY <2>1, WorkersAreNoRules, TargetsAssumption DEF RuleWritten
  <2>4. QED
    BY <1>6, <1>9, <2>1, <2>2, <2>3
<1>10. QED
  BY <1>4, <1>5, <1>7, <1>8, <1>9, PathTypes

\* A refresh begins a target with what it has,
LEMMA FoundAlready ==
  ASSUME TypeOK, NEW p \in Procs, BeginTarget(p),
         job[p].cmd.refresh, job[p].cmd.op = "install",
         NEW t \in Targets, t = job'[p].target, NEW parts, parts = job'[p].parts,
         NEW s \in job'[p].todo
  PROVE  Already(t, parts, s)'
<1>1. PICK cmd : cmd = job[p].cmd
  OBVIOUS
<1>2. parts = PartsFor(cmd, t) /\ job'[p].todo = Plan("install", t, PartsFor(cmd, t))
  BY <1>1, BeginTargetJob
<1>3. parts \subseteq InstalledParts(t)
  BY <1>1, <1>2 DEF PartsFor
<1>4. PartOf(s) \in parts /\ Applies("install", t, s)
  BY <1>2 DEF Plan
<1>5. UNCHANGED files
  BY DEF BeginTarget
<1>6. \A part \in parts : Has(t, part)
  BY <1>3 DEF InstalledParts
<1>7. CASE s = "mcp"
  <2>1. "mcp" \in parts
    BY <1>4, <1>7 DEF PartOf
  <2>2. HasPiece(t, "mcp")
    <3>1. Configured(t)
      BY <1>6, <2>1 DEF Has
    <3>2. ConfPath(t) \in {ConfigFile[t]} \cup {g \in {Preferred} : t = "opencode"}
      BY DEF ConfPath
    <3>3. conf[ConfPath(t)].v1.here \/ conf[ConfPath(t)].v2.here
      BY <3>1 DEF Configured
    <3>4. QED
      BY <3>2, <3>3 DEF HasPiece
  <2>3. t = "kiro" /\ "permissions" \in parts => conf[ConfigFile[t]].v2.approve
    BY <1>6 DEF Has, Mentioned, ConfPath
  <2>4. HasPiece(t, "mcp")'
    BY <1>5, <2>2 DEF HasPiece, files
  <2>5. t = "kiro" /\ "permissions" \in parts => conf'[ConfigFile[t]].v2.approve
    BY <1>5, <2>3 DEF files
  <2>6. QED
    BY <1>7, <2>4, <2>5 DEF Already
<1>8. CASE s = "worker"
  <2>1. Generated(WorkerFile[t])
    BY <1>4, <1>6, <1>8 DEF PartOf, Has
  <2>2. t = "opencode" /\ "permissions" \in parts => own[WorkerFile[t]].allow
    BY <1>6 DEF Has, Mentioned
  <2>3. QED
    BY <1>5, <1>8, <2>1, <2>2 DEF Already, Generated, files
<1>9. CASE s = "permissions"
  BY <1>4, <1>5, <1>6, <1>9 DEF PartOf, Applies, Has, Mentioned, Already, files
<1>10. CASE s = "hooks"
  BY <1>4, <1>5, <1>6, <1>10 DEF PartOf, Applies, Has, Mentioned, Already, files
<1>11. CASE s = "instructions"
  <2>1. Has(t, "instructions")
    BY <1>4, <1>6, <1>11 DEF PartOf
  <2>2. Has(t, "instructions")'
    BY <1>5, <2>1 DEF Has, Generated, files
  <2>3. QED
    BY <1>11, <2>2 DEF Already
<1>12. CASE s = "stamp"
  <2>1. skill[SkillDir[t]].stamp
    BY <1>4, <1>6, <1>12 DEF PartOf, Has
  <2>2. QED
    BY <1>5, <1>12, <2>1 DEF Already, files
<1>13. QED
  BY <1>7, <1>8, <1>9, <1>10, <1>11, <1>12 DEF Already

\* and nothing takes that away before the refresh comes to it.
LEMMA StillAlready ==
  ASSUME OneProcess, TypeOK, [Next]_vars, NEW p \in Procs, Busy(p, "install"),
         NEW t \in Targets, t = job[p].target, NEW parts, parts = job[p].parts,
         NEW s \in job[p].todo, Already(t, parts, s)
  PROVE  Already(t, parts, s)'
<1>1. CASE s = "mcp"
  <2> ~Migrate(p)
    <3>1. ~(Rank["migrate"] <= Rank["mcp"])
      BY DEF Rank
    <3>2. QED
      BY <1>1, <3>1 DEF Migrate, At, IsNext
  <2>1. PICK f \in ConfPaths : /\ f \in {ConfigFile[t]} \cup {g \in {Preferred} : t = "opencode"}
                               /\ conf[f].v1.here \/ conf[f].v2.here
    BY <1>1, PathTypes DEF Already, HasPiece
  <2>2. conf'[f].v1.here \/ conf'[f].v2.here
    BY <2>1, EntriesOnlyCome
  <2>3. HasPiece(t, "mcp")'
    BY <2>1, <2>2 DEF HasPiece
  <2>4. conf[ConfigFile[t]].v2.approve => conf'[ConfigFile[t]].v2.approve
    BY PathTypes, EntriesOnlyCome
  <2>5. QED
    BY <1>1, <2>3, <2>4 DEF Already
<1>2. CASE s = "worker"
  BY <1>2, PiecesOnlyCome DEF Already
<1>3. CASE s # "mcp" /\ s # "worker"
  BY <1>3, PiecesOnlyCome DEF Already
<1>4. QED
  BY <1>1, <1>2, <1>3

LEMMA RefreshStep ==
  ASSUME OneProcess, TypeOK, RefreshFits, [Next]_vars
  PROVE  RefreshFits'
<1>1. SUFFICES ASSUME NEW p \in Procs, Busy(p, "install")', job'[p].cmd.refresh,
                      NEW s \in job'[p].todo,
                      NEW t, t = job'[p].target, NEW parts, parts = job'[p].parts
               PROVE  Already(t, parts, s)'
  BY DEF RefreshFits
<1>2. t \in Targets
  BY <1>1, TypeStep DEF TypeOK, Busy, Job
<1>3. CASE BeginTarget(p)
  <2>1. job[p].cmd.refresh /\ job[p].cmd.op = "install"
    BY <1>1, <1>3, BeginTargetJob DEF Busy
  <2>2. QED
    BY <1>1, <1>2, <1>3, <2>1, FoundAlready
<1>4. CASE /\ Busy(p, "install")
           /\ job'[p].cmd = job[p].cmd /\ job'[p].target = job[p].target
           /\ job'[p].parts = job[p].parts
           /\ job'[p].todo \subseteq job[p].todo \cup {"migrate"}
  <2>1. CASE s = "migrate"
    BY <2>1 DEF Already
  <2>2. CASE s # "migrate"
    <3>1. s \in job[p].todo /\ t = job[p].target /\ parts = job[p].parts
      BY <1>1, <1>4, <2>2
    <3>2. Already(t, parts, s)
      BY <1>1, <1>4, <3>1 DEF RefreshFits
    <3>3. QED
      BY <1>2, <1>4, <3>1, <3>2, StillAlready
  <2>3. QED
    BY <2>1, <2>2
<1>5. QED
  BY <1>1, <1>3, <1>4, InstallSteps

\* What a step of a refresh writes was there: the entries, with Kiro's approvals in them,
LEMMA RefreshedEntries ==
  ASSUME OneProcess, TypeOK, RefreshFits, [Next]_vars,
         NEW p \in Procs, job[p] # Idle, job[p].cmd.refresh, NEW t \in Targets
  PROVE  /\ HasPiece(t, "mcp")' => HasPiece(t, "mcp")
         /\ t = "kiro" /\ conf'[ConfigFile[t]].v2.approve => conf[ConfigFile[t]].v2.approve
<1> DEFINE Candidates == {ConfigFile[t]} \cup {g \in {Preferred} : t = "opencode"}
<1>1. Candidates \subseteq ConfPaths
  BY PathTypes
<1>2. ASSUME NEW f \in Candidates, EntryMerged(f)
      PROVE  /\ HasPiece(t, "mcp")
             /\ t = "kiro" /\ conf'[f].v2.approve => conf[f].v2.approve
  <2>1. PICK q \in Procs, v1, approve \in BOOLEAN :
          /\ At(q, "install", "mcp") /\ f = ConfPath(job[q].target)
          /\ approve => Approves(q)
          /\ conf'[f].v2.approve <=> conf[f].v2.approve \/ (~v1 /\ approve)
    BY <1>1, <1>2, EntriesMerged
  <2>2. At(p, "install", "mcp") /\ f = ConfPath(job[p].target) /\ (approve => Approves(p))
    BY <2>1 DEF OneProcess
  <2>3. PICK u \in Targets : u = job[p].target
    BY JobFields
  <2>4. u = t
    BY <2>2, <2>3, ConfigFilesDiffer, TargetsAssumption DEF ConfPath
  <2>5. Already(t, job[p].parts, "mcp")
    BY <2>2, <2>3, <2>4 DEF RefreshFits, At, IsNext
  <2>6. approve => t = "kiro" /\ "permissions" \in job[p].parts
    BY <2>2, <2>3, <2>4 DEF Approves
  <2>7. t = "kiro" => f = ConfigFile[t]
    OBVIOUS
  <2>8. QED
    BY <2>1, <2>5, <2>6, <2>7 DEF Already
<1>3. ASSUME NEW f \in Candidates, conf'[f].v1.here \/ conf'[f].v2.here
      PROVE  HasPiece(t, "mcp")
  <2>1. CASE EntryMerged(f)
    BY <1>2, <2>1
  <2>2. CASE conf[f].v1.here \/ conf[f].v2.here
    BY <2>2 DEF HasPiece
  <2>3. QED
    BY <1>1, <1>3, <2>1, <2>2, EntriesKept
<1>4. HasPiece(t, "mcp")' => HasPiece(t, "mcp")
  BY <1>3 DEF HasPiece
<1>5. t = "kiro" /\ conf'[ConfigFile[t]].v2.approve => conf[ConfigFile[t]].v2.approve
  BY <1>1, <1>2, EntriesKept
<1>6. QED
  BY <1>4, <1>5

\* the settings,
LEMMA RefreshedSettings ==
  ASSUME OneProcess, TypeOK, RefreshFits, [Next]_vars,
         NEW p \in Procs, job[p] # Idle, job[p].cmd.refresh
  PROVE  /\ settings'.allow => settings.allow \/ "permissions" \in settings.mentions
         /\ settings'.hook => settings.hook \/ "hooks" \in settings.mentions
<1>1. settings \in Settings
  BY DEF TypeOK
<1>2. ASSUME NEW q \in Procs, At(q, "install", "permissions")
      PROVE  settings.allow \/ "permissions" \in settings.mentions
  BY <1>2 DEF OneProcess, RefreshFits, Already, At, IsNext
<1>3. ASSUME NEW q \in Procs, At(q, "install", "hooks")
      PROVE  settings.hook \/ "hooks" \in settings.mentions
  BY <1>3 DEF OneProcess, RefreshFits, Already, At, IsNext
<1>4. \/ settings' = settings
      \/ /\ settings.allow \/ "permissions" \in settings.mentions
         /\ settings' = [settings EXCEPT !.allow = TRUE]
      \/ /\ settings.hook \/ "hooks" \in settings.mentions
         /\ settings' = [settings EXCEPT !.hook = TRUE]
      \/ settings' = [settings EXCEPT !.allow = FALSE]
      \/ settings' = [settings EXCEPT !.hook = FALSE]
      \/ \E v \in BOOLEAN : settings' = [settings EXCEPT !.valid = v]
      \/ \E m \in SUBSET Mentions :
           settings' = [settings EXCEPT !.mentions = settings.mentions \cup m]
  BY <1>2, <1>3, SettingsSteps DEF SettingsStep
<1>5. QED
  BY <1>1, <1>4 DEF Settings

\* the workers and memdag's own rules,
LEMMA RefreshedOwn ==
  ASSUME OneProcess, TypeOK, RefreshFits, [Next]_vars,
         NEW p \in Procs, job[p] # Idle, job[p].cmd.refresh, job' # job,
         NEW f \in OwnPaths
  PROVE  /\ own'[f].by = "memdag" => own[f].by = "memdag"
         /\ own'[f].allow => own[f].allow
<1>1. own[f] \in Own
  BY DEF TypeOK
<1>2. ASSUME NEW s \in job[p].todo, Busy(p, "install")
      PROVE  Already(job[p].target, job[p].parts, s)
  BY <1>2 DEF RefreshFits
<1>3. CASE WorkerWritten(f)
  <2>1. PICK q \in Procs, t \in Targets, pinned, allow \in BOOLEAN :
          /\ At(q, "install", "worker") /\ t = job[q].target /\ f = WorkerFile[t]
          /\ allow <=> "permissions" \in job[q].parts
          /\ own'[f] = WorkerText(t, pinned, allow)
    BY <1>3 DEF WorkerWritten
  <2>2. q = p
    BY DEF OneProcess
  <2>3. Already(t, job[p].parts, "worker")
    BY <1>2, <2>1, <2>2 DEF At, IsNext
  <2>4. own[f].by = "memdag" /\ (t = "opencode" /\ "permissions" \in job[p].parts => own[f].allow)
    BY <2>1, <2>3 DEF Already, Generated
  <2>5. own'[f].allow = (t = "opencode" /\ allow)
    BY <2>1 DEF WorkerText
  <2>6. QED
    BY <2>1, <2>2, <2>4, <2>5
<1>4. CASE RuleWritten(f)
  <2>1. PICK q \in Procs, t \in Targets :
          At(q, "install", "instructions") /\ t = job[q].target /\ t \in OwnRule
          /\ f = InstructionsFile[t]
    BY <1>4 DEF RuleWritten
  <2>2. q = p
    BY DEF OneProcess
  <2>3. Already(t, job[p].parts, "instructions")
    BY <1>2, <2>1, <2>2 DEF At, IsNext
  <2>4. own[f].by = "memdag"
    BY <2>1, <2>3 DEF Already, Has, Generated
  <2>5. ~own'[f].allow
    BY <1>4 DEF RuleWritten, Nobodys
  <2>6. QED
    BY <2>4, <2>5
<1>5. CASE OwnRemoved(f)
  BY <1>5 DEF OwnRemoved, Nobodys
<1>6. ~OwnEdited(f)
  BY DEF OwnEdited
<1>7. QED
  BY <1>3, <1>4, <1>5, <1>6, OwnSteps DEF OwnStep

\* the instructions that are shared, the skills.
LEMMA RefreshedShared ==
  ASSUME OneProcess, TypeOK, RefreshFits, [Next]_vars,
         NEW p \in Procs, job[p] # Idle, job[p].cmd.refresh
  PROVE  /\ \A f \in TextPaths : text'[f] # "none" => text[f] # "none"
         /\ \A d \in SkillDirs : skill'[d].stamp => skill[d].stamp
<1>1. ASSUME NEW s \in job[p].todo, Busy(p, "install")
      PROVE  Already(job[p].target, job[p].parts, s)
  BY <1>1 DEF RefreshFits
<1>2. ASSUME NEW f \in TextPaths, TextWritten(f)
      PROVE  text[f] # "none"
  <2>1. At(p, "install", "instructions") /\ job[p].target \notin OwnRule
        /\ f = Real(InstructionsFile[job[p].target])
    BY <1>2 DEF OneProcess, TextWritten
  <2>2. Already(job[p].target, job[p].parts, "instructions")
    BY <1>1, <2>1 DEF At, IsNext
  <2>3. QED
    BY <2>1, <2>2 DEF Already, Has
<1>3. ASSUME NEW f \in TextPaths, text'[f] # "none"
      PROVE  text[f] # "none"
  BY <1>2, <1>3, TextSteps DEF TextStep, TextRemoved
<1>4. ASSUME NEW d \in SkillDirs, skill'[d].stamp
      PROVE  skill[d].stamp
  <2>1. skill[d] \in Skill
    BY DEF TypeOK
  <2>2. ASSUME NEW q \in Procs, SkillFor(q, "install", "stamp", d)
        PROVE  skill[d].stamp
    <3>1. At(p, "install", "stamp") /\ d = SkillDir[job[p].target]
      BY <2>2 DEF OneProcess, SkillFor
    <3>2. Already(job[p].target, job[p].parts, "stamp")
      BY <1>1, <3>1 DEF At, IsNext
    <3>3. QED
      BY <3>1, <3>2 DEF Already
  <2>3. \/ skill[d].stamp
        \/ skill'[d] = skill[d]
        \/ \E md \in {"ours", "none", "foreign"} : skill'[d] = [skill[d] EXCEPT !.md = md]
        \/ skill'[d] = [skill[d] EXCEPT !.stamp = FALSE]
    BY <2>2, SkillSteps DEF SkillStep
  <2>4. QED
    BY <1>4, <2>1, <2>3 DEF Skill
<1>5. QED
  BY <1>3, <1>4

LEMMA RefreshedPieces ==
  ASSUME OneProcess, TypeOK, RefreshFits, [Next]_vars,
         NEW p \in Procs, job[p] # Idle, job[p].cmd.refresh, job' # job,
         NEW t \in Targets, NEW part \in AllParts, HasPiece(t, part)'
  PROVE  HasPiece(t, part) \/ Mentioned(t, part)
<1>1. ASSUME part # "mcp", part \notin Mentions \/ t # "claude_code"
      PROVE  (HasPiece(t, part) <=> Has(t, part)) /\ (HasPiece(t, part)' <=> Has(t, part)')
  BY <1>1 DEF HasPiece
<1>2. Generated(WorkerFile[t])' => Generated(WorkerFile[t])
  BY PathTypes, RefreshedOwn DEF Generated
<1>3. CASE part = "mcp"
  BY <1>3, RefreshedEntries
<1>4. CASE part = "worker"
  <2>1. Has(t, part)' => Has(t, part)
    BY <1>2, <1>4 DEF Has
  <2>2. QED
    BY <1>1, <1>4, <2>1 DEF Mentions
<1>5. CASE part = "instructions"
  <2>1. CASE t \in OwnRule
    <3>1. Has(t, part)' => Has(t, part)
      BY <1>5, <2>1, PathTypes, RefreshedOwn DEF Has, Generated
    <3>2. QED
      BY <1>1, <1>5, <3>1 DEF Mentions
  <2>2. CASE t \notin OwnRule
    <3>1. Has(t, part)' => Has(t, part)
      BY <1>5, <2>2, PathTypes, RefreshedShared DEF Has
    <3>2. QED
      BY <1>1, <1>5, <3>1 DEF Mentions
  <2>3. QED
    BY <2>1, <2>2
<1>6. CASE part = "skill"
  <2>1. Has(t, part)' => Has(t, part)
    BY <1>6, PathTypes, RefreshedShared DEF Has
  <2>2. QED
    BY <1>1, <1>6, <2>1 DEF Mentions
<1>7. CASE part \in Mentions /\ t = "claude_code"
  <2>1. CASE part = "hooks"
    <3>1. settings'.hook
      BY <1>7, <2>1 DEF HasPiece
    <3>2. settings.hook \/ "hooks" \in settings.mentions
      BY <3>1, RefreshedSettings
    <3>3. QED
      BY <1>7, <2>1, <3>2 DEF HasPiece, Mentioned
  <2>2. CASE part = "permissions"
    <3>1. settings'.allow
      BY <1>7, <2>2 DEF HasPiece
    <3>2. settings.allow \/ "permissions" \in settings.mentions
      BY <3>1, RefreshedSettings
    <3>3. QED
      BY <1>7, <2>2, <3>2 DEF HasPiece, Mentioned
  <2>3. QED
    BY <1>7, <2>1, <2>2 DEF Mentions
<1>8. CASE part \in Mentions /\ t # "claude_code"
  <2>1. Has(t, part)'
    BY <1>1, <1>8 DEF Mentions
  <2>2. part = "permissions" /\ t \in {"opencode", "kiro"}
    BY <1>8, <2>1 DEF Has, Mentioned, Mentions
  <2>3. CASE t = "opencode"
    <3>1. WorkerFile[t] \in OwnPaths
      <4>1. WorkerFile["opencode"] # NoPath
        BY LocationAssumption DEF WorkerFile, Here, NoPath
      <4>2. QED
        BY <2>3, <4>1, PathTypes
    <3>2. own'[WorkerFile[t]].allow
      BY <2>1, <2>2, <2>3 DEF Has, Mentioned
    <3>3. own[WorkerFile[t]].allow
      BY <3>1, <3>2, RefreshedOwn
    <3>4. Has(t, part)
      BY <2>2, <2>3, <3>3 DEF Has
    <3>5. QED
      BY <1>1, <1>8, <3>4 DEF Mentions
  <2>4. CASE t = "kiro"
    <3>1. ConfPath(t) = ConfigFile[t] /\ ConfPath(t)' = ConfigFile[t]
      BY <2>4 DEF ConfPath
    <3>2. conf'[ConfigFile[t]].v2.approve
      BY <2>1, <2>2, <2>4, <3>1 DEF Has, Mentioned
    <3>3. conf[ConfigFile[t]].v2.approve
      BY <2>4, <3>2, RefreshedEntries
    <3>4. Has(t, part)
      BY <2>2, <2>4, <3>1, <3>3 DEF Has
    <3>5. QED
      BY <1>1, <1>8, <3>4 DEF Mentions
  <2>5. QED
    BY <2>2, <2>3, <2>4
<1>9. QED
  BY <1>3, <1>4, <1>5, <1>6, <1>7, <1>8 DEF AllParts, Mentions

(***************************************************************************)
(* A refresh never gives a harness a piece that it has nowhere             *)
(* (run_install with --refresh), whatever people edit meanwhile, but for   *)
(* approvals and a hook that Claude Code's settings mention elsewhere.     *)
(* The command decides what to write when it begins a target, from what is *)
(* there then; that is still there when it comes to write it.              *)
(***************************************************************************)
THEOREM RefreshAdds ==
  ASSUME OneProcess
  PROVE  Spec => RefreshAddsNothing
<1>1. Init => RefreshFits
  BY DEF Init, RefreshFits, Busy
<1>2. OneCommandInv /\ RefreshFits /\ [Next]_vars => RefreshFits'
  BY RefreshStep DEF OneCommandInv
<1>3. OneCommandInv /\ RefreshFits /\ [Next]_vars =>
        [\A p \in Procs :
           /\ job[p] # Idle
           /\ job[p].cmd.refresh
           /\ job' # job
           => \A t \in Targets, part \in AllParts :
                HasPiece(t, part)' => HasPiece(t, part) \/ Mentioned(t, part)]_vars
  BY RefreshedPieces DEF OneCommandInv
<1>4. QED
  BY <1>1, <1>2, <1>3, OneCommand, PTL DEF Spec, RefreshAddsNothing

-----------------------------------------------------------------------------
(***************************************************************************)
(* An install that ends                                                    *)
(***************************************************************************)

\* What a step of an install is for is there: the entry in one of the files it can be in,
\* with Kiro's approvals; the worker, with OpenCode's; the pieces in the settings; the
\* instructions; a stamped skill folder, or one that people or a dead command left without.
Given(t, parts, s) ==
  /\ s = "mcp" => /\ HasPiece(t, "mcp")
                  /\ t = "kiro" /\ {"permissions", "worker"} \subseteq parts
                       => conf[ConfigFile[t]].v2.approve
  /\ s = "worker" => /\ Generated(WorkerFile[t])
                     /\ t = "opencode" /\ "permissions" \in parts => own[WorkerFile[t]].allow
  /\ s = "permissions"  => settings.allow
  /\ s = "hooks"        => settings.hook
  /\ s = "instructions" => Has(t, "instructions")
  /\ s = "stamp"        => \/ skill[SkillDir[t]].stamp
                           \/ skill[SkillDir[t]].md = "foreign"
                           \/ SkillDir[t] \in torn

\* When an install ends without a refusal, each of its targets has what was asked for.
InstallIsComplete ==
  [][\A p \in Procs :
       Busy(p, "install") /\ ~job[p].cmd.refresh /\ End(p) =>
         \A t \in job[p].cmd.targets : \A s \in Plan("install", t, job[p].cmd.parts) :
           Given(t, job[p].cmd.parts, s)]_vars

\* The targets it has begun have it, but for the steps it has still to take.
GivenSoFar == \A p \in Procs : Busy(p, "install") /\ ~job[p].cmd.refresh =>
  \A t \in job[p].cmd.targets \ job[p].left : \A s \in Plan("install", t, job[p].cmd.parts) :
    (t = job[p].target /\ s \in job[p].todo) \/ Given(t, job[p].cmd.parts, s)

\* A command that has an entry's other shape to remove has written the one it keeps.
MovesWritten == \A p \in Procs : job[p] # Idle /\ "migrate" \in job[p].todo =>
  /\ "mcp" \notin job[p].todo
  /\ job[p].path \in OpenCodes
  /\ IF job[p].v1 THEN conf[job[p].path].v1.here ELSE conf[job[p].path].v2.here

\* InstallMcp writes the entry in the shape it notes.
LEMMA EntryWritten ==
  ASSUME TypeOK, NEW p \in Procs, InstallMcp(p), NEW f, f = ConfPath(job[p].target)
  PROVE  /\ f \in ConfPaths /\ job'[p].path = f /\ job'[p].v1 \in BOOLEAN
         /\ IF job'[p].v1 THEN conf'[f].v1.here ELSE conf'[f].v2.here
         /\ "mcp" \notin job'[p].todo
         /\ "migrate" \in job'[p].todo => "migrate" \in job[p].todo \/ job[p].target = "opencode"
         /\ ~job'[p].v1 /\ Approves(p) => conf'[f].v2.approve
         /\ job'[p].v1 => job[p].target = "opencode"
<1>1. PICK v1 \in BOOLEAN :
        /\ f \in ConfPaths
        /\ v1 = WritesV1(job[p].target, conf[f], job[p].cmd.format)
        /\ conf' = [conf EXCEPT ![f] = SetEntry(conf[f], v1, MergeEntry(EntryOf(conf[f], v1), Approves(p)))]
  BY InstallMcpStep
<1>2. PICK approve \in BOOLEAN : approve = Approves(p)
  BY DEF Approves
<1>3. PICK c \in Conf : c = conf[f]
  BY <1>1 DEF TypeOK
<1>4. PICK k : k = SetEntry(c, v1, MergeEntry(EntryOf(c, v1), approve))
  OBVIOUS
<1>5. conf'[f] = k
  BY <1>1, <1>2, <1>3, <1>4 DEF TypeOK
<1>6. /\ (k.v1.here <=> c.v1.here \/ v1) /\ (k.v2.here <=> c.v2.here \/ ~v1)
      /\ k.v2.approve <=> c.v2.approve \/ (~v1 /\ approve)
  BY <1>4, MergedEntries
<1>7. /\ job'[p].path = f
      /\ job'[p].todo = (job[p].todo \ {"mcp"})
           \cup {s \in {"migrate"} : OtherShape(job[p].target, conf[f], job'[p].v1)}
      /\ job'[p].v1 = v1
  BY <1>1, InstallMcpJob
<1>8. "mcp" \notin job'[p].todo
  BY <1>7
<1>9. "migrate" \in job'[p].todo => "migrate" \in job[p].todo \/ job[p].target = "opencode"
  BY <1>7 DEF OtherShape
<1>10. v1 => job[p].target = "opencode"
  BY <1>1 DEF WritesV1
<1>11. QED
  BY <1>1, <1>2, <1>5, <1>6, <1>7, <1>8, <1>9, <1>10

\* Nothing adds that step but InstallMcp, and nothing else touches the entry before it.
LEMMA MovesStep ==
  ASSUME OneProcess, TypeOK, JobsFit, MovesWritten, [Next]_vars
  PROVE  MovesWritten'
<1> SUFFICES ASSUME NEW p \in Procs, job'[p] # Idle, "migrate" \in job'[p].todo
             PROVE  /\ "mcp" \notin job'[p].todo
                    /\ job'[p].path \in OpenCodes
                    /\ IF job'[p].v1 THEN conf'[job'[p].path].v1.here
                                     ELSE conf'[job'[p].path].v2.here
  BY DEF MovesWritten
<1>1. ~Migrate(p)
  <2>1. ASSUME Migrate(p)
        PROVE  Done(p, {"migrate"}) /\ job[p] # Idle
    BY <2>1 DEF Migrate, At, Busy
  <2>2. QED
    BY <2>1, DoneSteps
<1>2. ASSUME job[p] # Idle, "migrate" \in job[p].todo,
             job'[p].path = job[p].path, job'[p].v1 = job[p].v1, job'[p].todo \subseteq job[p].todo
      PROVE  /\ "mcp" \notin job'[p].todo
             /\ job'[p].path \in OpenCodes
             /\ IF job'[p].v1 THEN conf'[job'[p].path].v1.here ELSE conf'[job'[p].path].v2.here
  <2>1. Busy(p, "install")
    BY <1>2 DEF JobsFit, Busy
  <2>2. PICK f \in ConfPaths : f = job[p].path
    BY <1>2, JobFields
  <2>3. (conf[f].v1.here => conf'[f].v1.here) /\ (conf[f].v2.here => conf'[f].v2.here)
    BY <1>1, <2>1, EntriesOnlyCome
  <2>4. QED
    BY <1>2, <2>2, <2>3 DEF MovesWritten
<1>3. CASE job'[p] = job[p]
  BY <1>2, <1>3
<1>4. ASSUME NEW cmd \in Commands, Start(p, cmd)
      PROVE  FALSE
  BY <1>4, StartJob
<1>5. CASE BeginTarget(p)
  <2>1. PICK op, t, parts : job'[p].todo = Plan(op, t, parts)
    BY <1>5, BeginTargetJob
  <2>2. "migrate" \notin Plan(op, t, parts)
    BY DEF Plan, Applies
  <2>3. QED
    BY <2>1, <2>2
<1>6. CASE InstallMcp(p)
  <2>1. job[p] # Idle /\ "mcp" \in job[p].todo
    BY <1>6 DEF InstallMcp, At, Busy, IsNext
  <2>2. job[p].target = "opencode"
    BY <1>6, <2>1, EntryWritten DEF MovesWritten
  <2>3. ConfPath(job[p].target) \in OpenCodes
    BY <2>1, <2>2, JobFields, ConfPathOf
  <2>4. QED
    BY <1>6, <2>3, EntryWritten
<1>7. CASE Works(p) /\ Proceeds(p)
  BY <1>2, <1>7 DEF Proceeds
<1>8. QED
  BY <1>3, <1>4, <1>5, <1>6, <1>7, JobSteps

\* Migrate takes away no entry of another target, nor all of OpenCode's.
LEMMA MovedIsKept ==
  ASSUME TypeOK, MovesWritten, NEW p \in Procs, Migrate(p), NEW f \in ConfPaths
  PROVE  /\ f \notin OpenCodes => conf'[f] = conf[f]
         /\ conf[f].v1.here \/ conf[f].v2.here => conf'[f].v1.here \/ conf'[f].v2.here
<1>1. job[p] # Idle /\ "migrate" \in job[p].todo
  BY DEF Migrate, At, Busy, IsNext
<1>2. PICK g \in ConfPaths, v1 \in BOOLEAN : g = job[p].path /\ v1 = ~job[p].v1
  BY <1>1, JobFields
<1>3. g \in OpenCodes /\ (IF v1 THEN conf[g].v2.here ELSE conf[g].v1.here)
  BY <1>1, <1>2, JobFields DEF MovesWritten
<1>4. conf' = conf \/ conf' = [conf EXCEPT ![g] = RemoveEntry(conf[g], v1)]
  BY <1>2 DEF Migrate
<1>5. CASE conf'[f] = conf[f]
  BY <1>5
<1>6. CASE f = g /\ conf'[f] = RemoveEntry(conf[f], v1)
  <2>1. PICK c, k : c \in Conf /\ c = conf[f] /\ k = conf'[f]
    BY DEF TypeOK
  <2>2. (k.v1 = c.v1 \/ v1) /\ (k.v2 = c.v2 \/ ~v1)
    BY <1>6, <2>1, RemovedEntries
  <2>3. QED
    BY <1>3, <1>6, <2>1, <2>2
<1>7. QED
  BY <1>4, <1>5, <1>6 DEF TypeOK

\* So a target that has its entry keeps one while the command installs,
LEMMA EntryStays ==
  ASSUME OneProcess, TypeOK, MovesWritten, [Next]_vars, NEW p \in Procs, Busy(p, "install"),
         NEW t \in Targets
  PROVE  /\ HasPiece(t, "mcp") => HasPiece(t, "mcp")'
         /\ t = "kiro" /\ conf[ConfigFile[t]].v2.approve => conf'[ConfigFile[t]].v2.approve
<1>1. ASSUME NEW f \in ConfPaths, conf[f].v1.here \/ conf[f].v2.here
      PROVE  conf'[f].v1.here \/ conf'[f].v2.here
  <2>1. CASE Migrate(p)
    BY <1>1, <2>1, MovedIsKept
  <2>2. CASE ~Migrate(p)
    BY <1>1, <2>2, EntriesOnlyCome
  <2>3. QED
    BY <2>1, <2>2
<1>2. HasPiece(t, "mcp") => HasPiece(t, "mcp")'
  <2>1. {ConfigFile[t]} \cup {g \in {Preferred} : t = "opencode"} \subseteq ConfPaths
    BY PathTypes
  <2>2. QED
    BY <1>1, <2>1 DEF HasPiece
<1>3. ASSUME t = "kiro", conf[ConfigFile[t]].v2.approve
      PROVE  conf'[ConfigFile[t]].v2.approve
  <2>1. ConfigFile[t] \in ConfPaths \ OpenCodes
    BY <1>3, PathTypes, ConfPathOf
  <2>2. CASE Migrate(p)
    BY <1>3, <2>1, <2>2, MovedIsKept
  <2>3. CASE ~Migrate(p)
    BY <1>3, <2>1, <2>3, EntriesOnlyCome
  <2>4. QED
    BY <2>2, <2>3
<1>4. QED
  BY <1>2, <1>3

\* and a skill folder that is not to be stamped stays so, unless it is stamped.
LEMMA SkillStays ==
  ASSUME OneProcess, OneCommandInv, [Next]_vars, NEW p \in Procs, Busy(p, "install"),
         NEW d \in SkillDirs, skill[d].stamp \/ skill[d].md = "foreign" \/ d \in torn
  PROVE  skill'[d].stamp \/ skill'[d].md = "foreign" \/ d \in torn'
<1>1. TypeOK /\ JobsFit /\ StampsAreMemdags
  BY DEF OneCommandInv
<1>2. PICK t \in Targets : d = SkillDir[t]
  BY DEF SkillDirs
<1>3. CASE skill[d].stamp
  BY <1>1, <1>2, <1>3, PiecesOnlyCome
<1>4. CASE skill[d].md = "foreign"
  <2>1. CASE job' = job
    <3>1. skill[d] \in Skill
      BY <1>1 DEF TypeOK
    <3>2. ~WriteSkill(p) /\ ~RemoveSkill(p)
      BY <1>1, <2>1, SkillJob DEF IsNext
    <3>3. ~Stamp(p)
      <4>1. ASSUME Stamp(p)
            PROVE  Done(p, {"stamp"}) /\ "stamp" \in job[p].todo /\ job[p] # Idle
        BY <4>1 DEF Stamp, IsNext
      <4>2. QED
        BY <1>1, <2>1, <4>1, DoneSteps
    <3>4. QED
      BY <1>1, <1>4, <3>2, <3>3, SkillSteps DEF SkillStep, OneProcess
  <2>2. CASE job' # job
    BY <1>1, <1>4, <2>2, ForeignSkillStep
  <2>3. QED
    BY <2>1, <2>2
<1>5. CASE d \in torn
  <2>1. ASSUME NEW q \in Procs, Stamp(q), d = SkillDir[job[q].target]
        PROVE  skill'[d].stamp
    <3>1. q = p /\ job[q].cmd.op = "install"
      BY DEF OneProcess, Busy
    <3>2. skill' = [skill EXCEPT ![d].stamp = job[q].cmd.op = "install"]
      BY <2>1 DEF Stamp
    <3>3. skill' = [skill EXCEPT ![d].stamp = TRUE]
      BY <3>1, <3>2
    <3>4. skill[d] \in Skill
      BY <1>1 DEF TypeOK
    <3>5. QED
      BY <1>1, <3>3, <3>4 DEF TypeOK, Skill
  <2>2. ASSUME NEW q \in Procs, Migrate(q)
        PROVE  job[q].path # d
    <3>1. job[q].path \in ConfPaths
      BY <1>1, <2>2, JobFields DEF Migrate, At, Busy
    <3>2. QED
      BY <3>1, SkillsAreNoConfigs
  <2>3. QED
    BY <1>1, <1>5, <2>1, <2>2, TornSteps
<1>6. QED
  BY <1>3, <1>4, <1>5

\* What was given stays while the command installs.
LEMMA GivenStays ==
  ASSUME OneProcess, OneCommandInv, MovesWritten, [Next]_vars, NEW p \in Procs,
         Busy(p, "install"), ~job[p].cmd.refresh, NEW parts, parts = job[p].cmd.parts,
         NEW t \in Targets, NEW s, Given(t, parts, s)
  PROVE  Given(t, parts, s)'
<1>1. TypeOK /\ JobsFit
  BY DEF OneCommandInv
<1>2. CASE s = "mcp"
  BY <1>1, <1>2, EntryStays DEF Given
<1>3. CASE s = "worker"
  <2>1. job[p].todo # {} => job[p].parts = parts
    BY <1>1 DEF JobsFit, Busy
  <2>2. QED
    BY <1>1, <1>3, <2>1, PiecesOnlyCome DEF Given
<1>4. CASE s \in {"permissions", "hooks", "instructions"}
  BY <1>1, <1>4, PiecesOnlyCome DEF Given
<1>5. CASE s = "stamp"
  BY <1>5, PathTypes, SkillStays DEF Given
<1>6. CASE s \notin {"mcp", "worker", "permissions", "hooks", "instructions", "stamp"}
  BY <1>6 DEF Given
<1>7. QED
  BY <1>2, <1>3, <1>4, <1>5, <1>6

\* Each step writes what it is for: the entry,
LEMMA EntryGiven ==
  ASSUME OneCommandInv, NEW p \in Procs, InstallMcp(p) \/ InstallToml(p),
         NEW t \in Targets, t = job[p].target, NEW parts, parts = job[p].parts
  PROVE  Given(t, parts, "mcp")'
<1>1. TypeOK
  BY DEF OneCommandInv
<1>2. PICK f \in ConfPaths : f = ConfPath(t)
  BY PathTypes
<1>3. f \in {ConfigFile[t]} \cup {g \in {Preferred} : t = "opencode"} /\ (t = "kiro" => f = ConfigFile[t])
  BY <1>2 DEF ConfPath
<1>4. CASE InstallMcp(p)
  <2>1. conf'[f].v1.here \/ conf'[f].v2.here
    BY <1>1, <1>2, <1>4, EntryWritten
  <2>2. HasPiece(t, "mcp")'
    BY <1>3, <2>1 DEF HasPiece
  <2>3. ASSUME t = "kiro", {"permissions", "worker"} \subseteq parts
        PROVE  conf'[ConfigFile[t]].v2.approve
    <3>1. Approves(p)
      BY <2>3 DEF Approves
    <3>2. ~job'[p].v1
      BY <1>1, <1>2, <1>4, <2>3, EntryWritten
    <3>3. QED
      BY <1>1, <1>2, <1>3, <1>4, <2>3, <3>1, <3>2, EntryWritten
  <2>4. QED
    BY <2>2, <2>3 DEF Given
<1>5. CASE InstallToml(p)
  <2>1. t = "codex" /\ f = ConfigFile[t]
    BY <1>2, <1>5 DEF InstallToml, ConfPath
  <2>2. PICK c, e : c \in Conf /\ c = conf[f] /\ e = MergeEntry(c.v2, FALSE)
    BY <1>1 DEF TypeOK
  <2>3. conf' = [conf EXCEPT ![f] = [c EXCEPT !.v2 = e]]
    BY <1>5, <2>1, <2>2 DEF InstallToml
  <2>4. conf'[f].v2 = e
    BY <1>1, <2>2, <2>3 DEF TypeOK, Conf
  <2>5. conf'[f].v2.here
    BY <2>2, <2>4 DEF MergeEntry
  <2>6. HasPiece(t, "mcp")'
    BY <1>3, <2>5 DEF HasPiece
  <2>7. QED
    BY <2>1, <2>6 DEF Given
<1>6. QED
  BY <1>4, <1>5

\* the pieces in the settings, the worker, the instructions,
LEMMA PieceGiven ==
  ASSUME OneCommandInv, NEW p \in Procs, Busy(p, "install"), Works(p),
         NEW s \in {"permissions", "hooks", "worker", "instructions"},
         s \in job[p].todo, s \notin job'[p].todo,
         NEW t \in Targets, t = job[p].target, NEW parts, parts = job[p].parts
  PROVE  Given(t, parts, s)'
<1>1. TypeOK /\ JobsFit /\ job[p] # Idle /\ job[p].cmd.op = "install"
  BY DEF OneCommandInv, Busy
<1>2. ASSUME NEW steps, Done(p, steps), s \notin steps
      PROVE  FALSE
  BY <1>1, <1>2, DoneSteps
<1>3. ~Uninstall(p)
  BY <1>1 DEF Uninstall, RemoveMcp, RemoveToml, RemoveWorker, RemoveInstructions, RemoveSkill,
              At, Busy
<1>4. ~InstallMcp(p) /\ ~InstallToml(p) /\ ~Migrate(p) /\ ~WriteSkill(p) /\ ~Stamp(p)
  <2>1. ~InstallMcp(p)
    BY <1>1, InstallMcpJob
  <2>2. QED
    BY <1>2, <2>1 DEF InstallToml, Migrate, WriteSkill, Stamp
<1>5. /\ EditPermissions(p) => s = "permissions"
      /\ EditHook(p) => s = "hooks"
      /\ WriteWorker(p) => s = "worker"
      /\ WriteInstructions(p) => s = "instructions"
  BY <1>2 DEF EditPermissions, EditHook, WriteWorker, WriteInstructions
<1>6. CASE EditPermissions(p)
  <2>1. settings' = [settings EXCEPT !.allow = TRUE]
    BY <1>1, <1>6 DEF EditPermissions, At, Busy
  <2>2. settings'.allow
    BY <1>1, <2>1 DEF TypeOK, Settings
  <2>3. QED
    BY <1>5, <1>6, <2>2 DEF Given
<1>7. CASE EditHook(p)
  <2>1. settings' = [settings EXCEPT !.hook = TRUE]
    BY <1>1, <1>7 DEF EditHook, At, Busy
  <2>2. settings'.hook
    BY <1>1, <2>1 DEF TypeOK, Settings
  <2>3. QED
    BY <1>5, <1>7, <2>2 DEF Given
<1>8. CASE WriteWorker(p)
  <2>1. WorkerFile[t] # NoPath
    BY <1>1, <1>5, <1>8 DEF JobsFit
  <2>2. PICK f \in OwnPaths : f = WorkerFile[t]
    BY <2>1, PathTypes
  <2>3. PICK pinned, allow : /\ own' = [own EXCEPT ![f] = WorkerText(t, pinned, allow)]
                             /\ allow = ("permissions" \in parts)
    BY <1>8, <2>2 DEF WriteWorker
  <2>4. own'[f] = WorkerText(t, pinned, allow)
    BY <1>1, <2>3 DEF TypeOK
  <2>5. own'[f].by = "memdag" /\ own'[f].allow = (t = "opencode" /\ allow)
    BY <2>4 DEF WorkerText
  <2>6. Generated(WorkerFile[t])' /\ (t = "opencode" /\ "permissions" \in parts => own'[WorkerFile[t]].allow)
    BY <2>1, <2>2, <2>3, <2>5 DEF Generated
  <2>7. QED
    BY <1>5, <1>8, <2>6 DEF Given
<1>9. CASE WriteInstructions(p)
  <2>1. InstructionsFile[t] # NoPath
    BY <1>1, <1>5, <1>9 DEF JobsFit
  <2>2. CASE t \in OwnRule
    <3>1. PICK f \in OwnPaths : f = InstructionsFile[t]
      BY <2>1, <2>2, PathTypes
    <3>2. own' = [own EXCEPT ![f] = [Nobodys EXCEPT !.by = "memdag"]]
      BY <1>9, <2>2, <3>1 DEF WriteInstructions
    <3>3. own'[f].by = "memdag"
      BY <1>1, <3>2 DEF TypeOK, Nobodys
    <3>4. Has(t, "instructions")'
      BY <2>1, <2>2, <3>1, <3>3 DEF Has, Generated
    <3>5. QED
      BY <1>5, <1>9, <3>4 DEF Given
  <2>3. CASE t \notin OwnRule
    <3>1. PICK f \in TextPaths : f = Real(InstructionsFile[t])
      BY <2>3, PathTypes
    <3>2. text[f] # "unbalanced" /\ text' = [text EXCEPT ![f] = Upsert(text[f])]
      BY <1>9, <2>3, <3>1 DEF WriteInstructions
    <3>3. text'[f] = "ours"
      BY <1>1, <3>2 DEF TypeOK, Upsert
    <3>4. Has(t, "instructions")'
      BY <2>3, <3>1, <3>3 DEF Has
    <3>5. QED
      BY <1>5, <1>9, <3>4 DEF Given
  <2>4. QED
    BY <2>2, <2>3
<1>10. QED
  BY <1>3, <1>4, <1>6, <1>7, <1>8, <1>9 DEF Works, Install

\* the stamp, unless the folder is one to be left alone.
LEMMA SkillGiven ==
  ASSUME OneProcess, OneCommandInv, NEW p \in Procs, Busy(p, "install"), Works(p),
         "stamp" \in job[p].todo, "stamp" \notin job'[p].todo,
         NEW t \in Targets, t = job[p].target, NEW parts
  PROVE  Given(t, parts, "stamp")'
<1>1. TypeOK /\ JobsFit /\ StampsAreMemdags /\ job[p] # Idle /\ job[p].cmd.op = "install"
  BY DEF OneCommandInv, Busy
<1>2. PICK d \in SkillDirs : t = job[p].target /\ d = SkillDir[t]
  BY PathTypes
<1>3. ASSUME NEW steps, Done(p, steps), "stamp" \notin steps
      PROVE  FALSE
  BY <1>1, <1>3, DoneSteps
<1>4. ~Uninstall(p)
  BY <1>1 DEF Uninstall, RemoveMcp, RemoveToml, RemoveWorker, RemoveInstructions, RemoveSkill,
              At, Busy
<1>5. ~InstallMcp(p)
  BY <1>1, InstallMcpJob
<1>6. ~InstallToml(p) /\ ~Migrate(p) /\ ~WriteWorker(p) /\ ~WriteInstructions(p)
      /\ ~EditPermissions(p) /\ ~EditHook(p)
  BY <1>3 DEF InstallToml, Migrate, WriteWorker, WriteInstructions, EditPermissions, EditHook
<1>7. skill[d] \in Skill
  BY <1>1 DEF TypeOK
<1>8. CASE Stamp(p)
  <2>1. skill' = [skill EXCEPT ![d].stamp = TRUE]
    BY <1>1, <1>2, <1>8 DEF Stamp
  <2>2. skill'[d].stamp
    BY <1>1, <1>7, <2>1 DEF TypeOK, Skill
  <2>3. QED
    BY <1>2, <2>2 DEF Given
<1>9. CASE WriteSkill(p)
  <2>1. skill' = skill /\ torn' = torn /\ skill[d].md # "none" /\ ~skill[d].stamp
    BY <1>2, <1>3, <1>9 DEF WriteSkill
  <2>2. \A q \in Procs : ~HalfWritten(q, "install")
    <3>1. "skill" \in job[p].todo
      BY <1>9 DEF WriteSkill, At, IsNext
    <3>2. QED
      BY <3>1 DEF OneProcess, HalfWritten
  <2>3. skill[d].md = "foreign" \/ d \in torn
    BY <1>1, <1>7, <2>1, <2>2 DEF StampsAreMemdags, Skill
  <2>4. QED
    BY <1>2, <2>1, <2>3 DEF Given
<1>10. QED
  BY <1>4, <1>5, <1>6, <1>8, <1>9 DEF Works, Install

\* Only the two steps of the entry take it off an install's list.
LEMMA EntryIsDone ==
  ASSUME TypeOK, NEW p \in Procs, Busy(p, "install"), Works(p),
         "mcp" \in job[p].todo, "mcp" \notin job'[p].todo
  PROVE  InstallMcp(p) \/ InstallToml(p)
<1>1. job[p] # Idle /\ job[p].cmd.op = "install"
  BY DEF Busy
<1>2. ASSUME NEW steps, Done(p, steps), "mcp" \notin steps
      PROVE  FALSE
  BY <1>1, <1>2, DoneSteps
<1>3. ~Uninstall(p)
  BY <1>1 DEF Uninstall, RemoveMcp, RemoveToml, RemoveWorker, RemoveInstructions, RemoveSkill,
              At, Busy
<1>4. ~Migrate(p) /\ ~WriteWorker(p) /\ ~WriteInstructions(p) /\ ~WriteSkill(p)
  BY <1>2 DEF Migrate, WriteWorker, WriteInstructions, WriteSkill
<1>5. ~Stamp(p) /\ ~EditPermissions(p) /\ ~EditHook(p)
  BY <1>2 DEF Stamp, EditPermissions, EditHook
<1>6. QED
  BY <1>3, <1>4, <1>5 DEF Works, Install

\* So, of what an install was asked for, all but the steps left is there.
LEMMA GivenStep ==
  ASSUME OneProcess, OneCommandInv, MovesWritten, GivenSoFar, [Next]_vars
  PROVE  GivenSoFar'
<1> SUFFICES ASSUME NEW p \in Procs, Busy(p, "install")', ~job'[p].cmd.refresh,
                    NEW t \in job'[p].cmd.targets \ job'[p].left,
                    NEW parts, parts = job'[p].cmd.parts,
                    NEW s \in Plan("install", t, parts),
                    ~(t = job'[p].target /\ s \in job'[p].todo)
             PROVE  Given(t, parts, s)'
  BY DEF GivenSoFar
<1>1. TypeOK /\ JobsFit /\ TypeOK' /\ job'[p] # Idle /\ job'[p].cmd.op = "install"
  BY TypeStep DEF OneCommandInv, Busy
<1>2. t \in Targets
  <2>1. \A cmd \in Command : cmd.targets \subseteq Targets
    BY DEF Command
  <2>2. job'[p].cmd \in Command
    BY <1>1 DEF TypeOK, Job
  <2>3. QED
    BY <2>1, <2>2
<1>3. ASSUME NEW cmd \in Commands, Start(p, cmd)
      PROVE  FALSE
  <2>1. /\ job'[p].left = IF cmd.refresh THEN {u \in cmd.targets : IsInstalled(u)} ELSE cmd.targets
        /\ job'[p].cmd = cmd
    BY <1>1, <1>3, StartJob
  <2>2. QED
    BY <2>1
<1>4. ASSUME Busy(p, "install"), job'[p].cmd = job[p].cmd, t \notin job[p].left,
             ~(t = job[p].target /\ s \in job[p].todo)
      PROVE  Given(t, parts, s)'
  <2>1. Given(t, parts, s)
    BY <1>4 DEF GivenSoFar
  <2>2. QED
    BY <1>2, <1>4, <2>1, GivenStays
<1>5. ASSUME Busy(p, "install"), job'[p].cmd = job[p].cmd, s \in job[p].todo
      PROVE  job[p].parts = parts
  BY <1>1, <1>5 DEF JobsFit, Busy
<1>6. CASE job'[p] = job[p]
  BY <1>1, <1>4, <1>6 DEF Busy
<1>7. CASE BeginTarget(p)
  <2>1. PICK u \in job[p].left :
          /\ job[p] # Idle /\ job[p].todo = {}
          /\ job'[p].cmd = job[p].cmd
          /\ job'[p].left = job[p].left \ {u}
          /\ job'[p].target = u
          /\ job'[p].todo = Plan(job[p].cmd.op, u, PartsFor(job[p].cmd, u))
    BY <1>1, <1>7, BeginTargetJob
  <2>2. CASE t = u
    <3>1. PartsFor(job[p].cmd, u) = parts
      BY <2>1 DEF PartsFor
    <3>2. QED
      BY <1>1, <2>1, <2>2, <3>1
  <2>3. CASE t # u
    BY <1>1, <1>4, <2>1, <2>3 DEF Busy
  <2>4. QED
    BY <2>2, <2>3
<1>8. CASE InstallMcp(p)
  <2>1. /\ Busy(p, "install") /\ job'[p].cmd = job[p].cmd
        /\ job'[p].left = job[p].left /\ job'[p].target = job[p].target
        /\ job[p].todo \ {"mcp"} \subseteq job'[p].todo
    BY <1>1, <1>8, InstallMcpJob DEF InstallMcp, At
  <2>2. CASE t = job[p].target /\ s = "mcp" /\ s \in job[p].todo
    BY <1>2, <1>5, <1>8, <2>1, <2>2, EntryGiven
  <2>3. CASE ~(t = job[p].target /\ s = "mcp" /\ s \in job[p].todo)
    BY <1>4, <2>1, <2>3
  <2>4. QED
    BY <2>2, <2>3
<1>9. CASE Works(p) /\ Proceeds(p)
  <2>1. /\ Busy(p, "install") /\ job'[p].cmd = job[p].cmd
        /\ job'[p].left = job[p].left /\ job'[p].target = job[p].target
    BY <1>1, <1>9 DEF Proceeds, Busy
  <2>2. CASE t = job[p].target /\ s \in job[p].todo
    <3>1. s \notin job'[p].todo /\ job[p].parts = parts
      BY <1>5, <2>1, <2>2
    <3>2. CASE s = "mcp"
      <4>1. InstallMcp(p) \/ InstallToml(p)
        BY <1>1, <1>9, <2>1, <2>2, <3>1, <3>2, EntryIsDone
      <4>2. QED
        BY <1>2, <2>2, <3>1, <3>2, <4>1, EntryGiven
    <3>3. CASE s \in {"permissions", "hooks", "worker", "instructions"}
      BY <1>2, <1>9, <2>1, <2>2, <3>1, <3>3, PieceGiven
    <3>4. CASE s = "stamp"
      BY <1>2, <1>9, <2>1, <2>2, <3>1, <3>4, SkillGiven
    <3>5. CASE s \notin {"mcp", "permissions", "hooks", "worker", "instructions", "stamp"}
      BY <3>5 DEF Given
    <3>6. QED
      BY <3>2, <3>3, <3>4, <3>5
  <2>3. CASE ~(t = job[p].target /\ s \in job[p].todo)
    BY <1>4, <2>1, <2>3
  <2>4. QED
    BY <2>2, <2>3
<1>10. QED
  BY <1>1, <1>3, <1>6, <1>7, <1>8, <1>9, JobSteps

(***************************************************************************)
(* An installer that runs alone: when an install has ended, each of its    *)
(* targets has what was asked for, whatever people edit in between, and    *)
(* whatever it wrote for the other targets after it.                       *)
(***************************************************************************)
THEOREM InstallGives ==
  ASSUME OneProcess
  PROVE  Spec => InstallIsComplete
<1> DEFINE Inv == MovesWritten /\ GivenSoFar
<1>1. Init => Inv
  BY DEF Init, MovesWritten, GivenSoFar, Busy
<1>2. OneCommandInv /\ Inv /\ [Next]_vars => Inv'
  BY MovesStep, GivenStep DEF OneCommandInv
<1>3. OneCommandInv /\ Inv =>
        [\A p \in Procs :
           Busy(p, "install") /\ ~job[p].cmd.refresh /\ End(p) =>
             \A t \in job[p].cmd.targets : \A s \in Plan("install", t, job[p].cmd.parts) :
               Given(t, job[p].cmd.parts, s)]_vars
  <2>1. ASSUME Inv, NEW p \in Procs, Busy(p, "install"), ~job[p].cmd.refresh, End(p),
               NEW t \in job[p].cmd.targets, NEW s \in Plan("install", t, job[p].cmd.parts)
        PROVE  Given(t, job[p].cmd.parts, s)
    BY <2>1 DEF End, GivenSoFar
  <2>2. QED
    BY <2>1
<1>4. QED
  BY <1>1, <1>2, <1>3, OneCommand, PTL DEF Spec, InstallIsComplete

=============================================================================

------------------------------ MODULE Installer ------------------------------
(***************************************************************************)
(* `memdag install` and `memdag uninstall` (src/src/install.rs, with the   *)
(* file primitives of src/src/harness.rs and the commands of main.rs):     *)
(* pieces of memdag in files that people, harnesses and several targets    *)
(* share.                                                                  *)
(*                                                                         *)
(* A command works through its targets one by one, and through the parts   *)
(* of a target in a fixed order.  Each part is one file replaced by a      *)
(* rename; between two of them people edit, or the command dies.  A part   *)
(* that is refused (a file that does not parse, one that memdag did not    *)
(* write) ends the command where it is.                                    *)
(***************************************************************************)
EXTENDS Naturals

CONSTANTS
  Targets,    \* the harnesses of this instance
  Location,   \* "project" or "global"
  Procs,      \* processes that run a command
  Commands,   \* the command lines people use, see Command
  Edits,      \* what people do to the files meanwhile, see Edit
  Begin,      \* the files as memdag first finds them, see Files
  Links,      \* pairs of shared files of which the first is a symlink to the second
  MaxCommands, MaxEdits  \* bounds on the commands run and the edits made

AllTargets == {"claude_code", "opencode", "codex", "cursor",
               "gemini", "vscode", "kiro", "antigravity"}
AllParts   == {"mcp", "worker", "instructions", "skill", "permissions", "hooks"}
AllEdits   == {"customise", "pin", "break", "fix", "shadow", "write", "mention"}
NoPath     == "none"

\* A command line after parsing: `protect` says whether uninstall is told which
\* other targets are still installed (run_uninstall), or not (`memdag mcp
\* uninstall`, `memdag work uninstall`).
Command == [op : {"install", "uninstall"}, targets : SUBSET Targets, parts : SUBSET AllParts,
            refresh : BOOLEAN, model : BOOLEAN, format : {"auto", "v1", "v2"},
            protect : BOOLEAN]

ASSUME TargetsAssumption  == Targets \subseteq AllTargets
ASSUME LocationAssumption == Location \in {"project", "global"}
ASSUME CommandsAssumption == Commands \subseteq Command
ASSUME EditsAssumption    == Edits \subseteq AllEdits

-----------------------------------------------------------------------------
(***************************************************************************)
(* Where each target keeps what                                            *)
(***************************************************************************)

Here(project, global) == IF Location = "project" THEN project ELSE global

\* The config file with the server entry (mcp_spec).
ConfigFile == Here(
  [claude_code |-> ".mcp.json", opencode |-> "opencode.json", codex |-> ".codex/config.toml",
   cursor |-> ".cursor/mcp.json", gemini |-> ".gemini/settings.json", vscode |-> ".vscode/mcp.json",
   kiro |-> ".kiro/settings/mcp.json", antigravity |-> ".agents/mcp_config.json"],
  [claude_code |-> "~/.claude.json", opencode |-> "~/opencode/opencode.json",
   codex |-> "~/.codex/config.toml", cursor |-> "~/.cursor/mcp.json",
   gemini |-> "~/.gemini/settings.json", vscode |-> "~/Code/mcp.json",
   kiro |-> "~/.kiro/settings/mcp.json", antigravity |-> "~/.gemini/config/mcp_config.json"])

\* The file OpenCode prefers where it exists (opencode_config).
Preferred == Here(".opencode/opencode.jsonc", "~/opencode/opencode.jsonc")

\* The worker's file (worker_path); two harnesses have none.
WorkerFile == Here(
  [claude_code |-> ".claude/agents/memdag-worker.md", opencode |-> ".opencode/agents/memdag-worker.md",
   codex |-> ".codex/agents/memdag-worker.toml", cursor |-> ".cursor/agents/memdag-worker.md",
   gemini |-> ".gemini/agents/memdag-worker.md", vscode |-> ".github/agents/memdag-worker.agent.md",
   kiro |-> NoPath, antigravity |-> NoPath],
  [claude_code |-> "~/.claude/agents/memdag-worker.md", opencode |-> "~/opencode/agents/memdag-worker.md",
   codex |-> "~/.codex/agents/memdag-worker.toml", cursor |-> "~/.cursor/agents/memdag-worker.md",
   gemini |-> "~/.gemini/agents/memdag-worker.md", vscode |-> "~/.copilot/agents/memdag-worker.agent.md",
   kiro |-> NoPath, antigravity |-> NoPath])

\* The always-on instructions: a block in a shared file, or a file of memdag's own.
OwnRule == {"cursor", "kiro", "antigravity"}
InstructionsFile == Here(
  [claude_code |-> "CLAUDE.md", opencode |-> "AGENTS.md", codex |-> "AGENTS.md",
   cursor |-> ".cursor/rules/memdag.mdc", gemini |-> "GEMINI.md",
   vscode |-> ".github/copilot-instructions.md", kiro |-> ".kiro/steering/memdag.md",
   antigravity |-> ".agents/rules/memdag.md"],
  [claude_code |-> "~/.claude/CLAUDE.md", opencode |-> "~/opencode/AGENTS.md",
   codex |-> "~/.codex/AGENTS.md", cursor |-> NoPath, gemini |-> "~/.gemini/GEMINI.md",
   vscode |-> "~/.copilot/copilot-instructions.md", kiro |-> "~/.kiro/steering/memdag.md",
   antigravity |-> "~/.gemini/config/rules/memdag.md"])

SkillDir == Here(
  [claude_code |-> ".claude/skills/memdag", kiro |-> ".kiro/skills/memdag",
   opencode |-> ".agents/skills/memdag", antigravity |-> ".agents/skills/memdag",
   codex |-> ".agents/skills/memdag", cursor |-> ".agents/skills/memdag",
   gemini |-> ".agents/skills/memdag", vscode |-> ".agents/skills/memdag"],
  [claude_code |-> "~/.claude/skills/memdag", kiro |-> "~/.kiro/skills/memdag",
   opencode |-> "~/opencode/skills/memdag", antigravity |-> "~/.gemini/config/skills/memdag",
   codex |-> "~/.agents/skills/memdag", cursor |-> "~/.agents/skills/memdag",
   gemini |-> "~/.agents/skills/memdag", vscode |-> "~/.agents/skills/memdag"])

ConfPaths == {ConfigFile[t] : t \in Targets} \cup {Preferred}
TextPaths == {InstructionsFile[t] : t \in Targets \ OwnRule}
OwnPaths  == ({WorkerFile[t] : t \in Targets} \cup {InstructionsFile[t] : t \in Targets \cap OwnRule})
             \ {NoPath}
SkillDirs == {SkillDir[t] : t \in Targets}

\* A server entry (`custom`: with keys, flags or a MEMDAG_DB people put there).
Entry == [here : BOOLEAN, custom : BOOLEAN, approve : BOOLEAN]
NoEntry == [here |-> FALSE, custom |-> FALSE, approve |-> FALSE]

\* A config: whether anything else is in it, whether it parses, and memdag's
\* entry under `mcp` (v1, only OpenCode) and in its usual place (v2).
Conf     == [user : BOOLEAN, valid : BOOLEAN, v1 : Entry, v2 : Entry]
Text     == {"none", "ours", "unbalanced"}  \* memdag's block in a file
Own      == [by : {"nobody", "memdag", "people"}, pinned : BOOLEAN, allow : BOOLEAN]
Skill    == [md : {"none", "ours", "foreign"}, stamp : BOOLEAN]
\* Claude Code's settings: its rules under `permissions.allow`, a hook that memdag takes
\* for its own (is_memdag_hook), and which of the two people mention elsewhere: the rules
\* under deny or ask, `hook session-start` in a command of their own.
Mentions == {"permissions", "hooks"}
Settings == [user : BOOLEAN, valid : BOOLEAN, allow : BOOLEAN, hook : BOOLEAN,
             mentions : SUBSET Mentions]

Files == [conf : [ConfPaths -> Conf], text : [TextPaths -> Text], own : [OwnPaths -> Own],
          skill : [SkillDirs -> Skill], settings : Settings]

\* Whether a config is there at all.
Exists(c) == c.user \/ ~c.valid \/ c.v1.here \/ c.v2.here

\* What memdag left in the files before is whole, and where it writes such things: an
\* entry in one shape, the old one only for OpenCode, whose preferred file people
\* make; a stamp on its own SKILL.md; a model in its own worker file.
Whole(b) ==
  /\ \A f \in ConfPaths :
       b.conf[f].v1.here => f \in {ConfigFile["opencode"], Preferred} /\ ~b.conf[f].v2.here
  /\ Exists(b.conf[Preferred]) => b.conf[Preferred].user
  /\ \A f \in OwnPaths :
       b.own[f].pinned => b.own[f].by = "memdag" /\ \E t \in Targets : f = WorkerFile[t]
  /\ \A d \in SkillDirs : /\ b.skill[d].stamp => b.skill[d].md # "foreign"
                          /\ b.skill[d].md = "ours" => b.skill[d].stamp

ASSUME BeginAssumption == Begin \subseteq Files /\ \A b \in Begin : Whole(b)
\* What a link leads to has text of its own: the link never dangles, and removing
\* the block leaves the file.
ASSUME LinksAssumption == Links \subseteq TextPaths \X TextPaths
ASSUME BoundsAssumption == MaxCommands \in Nat /\ MaxEdits \in Nat

VARIABLES
  conf, text, own, skill, settings,  \* the files, see Files
  job,        \* what each process is doing
  promised,   \* history: parts in shared files that targets still installed were given
  torn,       \* history: places where a command could not finish what it had begun
  commands, edits  \* how many commands were run and edits made, for the bounds

files == <<conf, text, own, skill, settings>>
counts == <<commands, edits>>
vars  == <<conf, text, own, skill, settings, job, promised, torn, commands, edits>>

\* The steps of a target, in the order of `install` and `uninstall`: parts, with
\* the second write of those that take two (the other shape of an OpenCode entry,
\* the stamp of a skill folder).
Rank == [mcp |-> 1, migrate |-> 2, mcp1 |-> 2, permissions |-> 3, worker |-> 4,
         instructions |-> 5, skill |-> 6, stamp |-> 7, hooks |-> 8]
Steps == DOMAIN Rank
PartOf(s) == CASE s \in {"migrate", "mcp1"} -> "mcp"
               [] s = "stamp"               -> "skill"
               [] OTHER                     -> s

\* A running command: the targets it has not begun, the target it is at with the
\* steps left, the parts it writes there, and the other targets it found installed.
\* `path` and `v1` are where and in which shape it wrote the entry.
Job == [cmd : Command, left : SUBSET Targets, target : Targets, todo : SUBSET Steps,
        parts : SUBSET AllParts, remaining : SUBSET Targets, path : ConfPaths, v1 : BOOLEAN]
Idle == [cmd |-> "idle"]

Busy(p, op)    == job[p] # Idle /\ job[p].cmd.op = op
IsNext(p, s)   == s \in job[p].todo /\ \A r \in job[p].todo : Rank[s] <= Rank[r]
At(p, op, s)   == Busy(p, op) /\ IsNext(p, s)
Done(p, steps) == job' = [job EXCEPT ![p].todo = @ \ steps]

-----------------------------------------------------------------------------
(***************************************************************************)
(* What memdag sees                                                        *)
(***************************************************************************)

\* opencode_config: the first candidate that is a file, else the last.
ConfPath(t) == IF t = "opencode" /\ Exists(conf[Preferred]) THEN Preferred ELSE ConfigFile[t]

\* A symlink (CLAUDE.md -> AGENTS.md) is followed.
Real(f) == IF \E g \in TextPaths : <<f, g>> \in Links
           THEN CHOOSE g \in TextPaths : <<f, g>> \in Links ELSE f

\* is_configured: a file that does not parse counts as one without an entry.
Configured(t) == LET c == conf[ConfPath(t)]
                 IN  c.valid /\ (c.v2.here \/ (t = "opencode" /\ c.v1.here))

Generated(f) == f # NoPath /\ own[f].by = "memdag"

\* is_installed: files several targets share do not count.
IsInstalled(t) == \/ Configured(t)
                  \/ Generated(WorkerFile[t])
                  \/ t \in OwnRule /\ Generated(InstructionsFile[t])

\* installed_parts.  Claude Code's settings are searched as text, so a mention counts.
\* (The other two texts that are searched, for OpenCode's and Kiro's approvals, matter
\* to a refresh only beside a worker of memdag's: the first is that worker, and Kiro has
\* none.)
Mentioned(t, part) == t = "claude_code" /\ part \in settings.mentions
Has(t, part) ==
  CASE part = "mcp"          -> Configured(t)
    [] part = "worker"       -> Generated(WorkerFile[t])
    [] part = "instructions" -> IF t \in OwnRule THEN Generated(InstructionsFile[t])
                                ELSE text[Real(InstructionsFile[t])] # "none"
    [] part = "skill"        -> skill[SkillDir[t]].stamp
    [] part = "permissions"  -> \/ t = "claude_code" /\ settings.allow
                                \/ Mentioned(t, part)
                                \/ t = "opencode" /\ own[WorkerFile[t]].allow
                                \/ t = "kiro" /\ conf[ConfPath(t)].v2.approve
    [] part = "hooks"        -> \/ t = "claude_code" /\ settings.hook
                                \/ Mentioned(t, part)

InstalledParts(t) == {part \in AllParts : Has(t, part)}

\* The steps a target takes for the given parts.
Applies(op, t, s) ==
  CASE s = "migrate"                    -> FALSE  \* added by InstallMcp where needed
    [] s = "mcp1"                       -> op = "uninstall" /\ t = "opencode"
    [] s \in {"permissions", "hooks"}   -> t = "claude_code"
    [] s = "worker"                     -> WorkerFile[t] # NoPath
    [] s = "instructions"               -> InstructionsFile[t] # NoPath
    [] OTHER                            -> TRUE
Plan(op, t, parts) == {s \in Steps : PartOf(s) \in parts /\ Applies(op, t, s)}

-----------------------------------------------------------------------------
(***************************************************************************)
(* A command: its targets, and the end of it                               *)
(***************************************************************************)

\* What targets that stay installed keep (history): a shared part once written for
\* a target, until the target is uninstalled or no longer seen to be installed.
Shared == {"instructions", "skill"}
Remember(new, dropped) ==
  promised' = {q \in (promised \cup new) \ dropped : IsInstalled(q[1])'}

\* run_install and run_uninstall up to their loops.  A refresh takes the targets
\* that are installed.  Which one comes first is up to BeginTarget.  (Variant: every
\* harness memdag knows counts.)
AllOthers(cmd) == {t \in AllTargets \ cmd.targets : cmd.protect}
Others(cmd)   == {t \in Targets \ cmd.targets : cmd.protect /\ IsInstalled(t)}

Start(p, cmd) ==
  LET chosen == IF cmd.refresh THEN {t \in cmd.targets : IsInstalled(t)} ELSE cmd.targets
  IN  /\ job[p] = Idle
      /\ chosen # {}
      /\ LET some == CHOOSE t \in chosen : TRUE
         IN  job' = [job EXCEPT ![p] =
               [cmd |-> cmd, left |-> chosen, target |-> some, todo |-> {}, parts |-> {},
                remaining |-> IF cmd.op = "uninstall" THEN Others(cmd) ELSE {},
                path |-> ConfPath(some), v1 |-> FALSE]]
      /\ commands < MaxCommands
      /\ commands' = commands + 1
      /\ UNCHANGED <<files, torn, edits>>
      /\ Remember({}, IF cmd.op = "uninstall" THEN chosen \X cmd.parts ELSE {})

\* A refresh writes the parts a target has now, of those asked for; the hook even
\* without being asked.  (Variant: whatever was asked for.)
PartsAsked(cmd, t) == cmd.parts
PartsFor(cmd, t) == IF cmd.refresh
                    THEN InstalledParts(t) \cap (cmd.parts \cup {"hooks"})
                    ELSE cmd.parts

BeginTarget(p) ==
  /\ job[p] # Idle
  /\ job[p].todo = {}
  /\ \E t \in job[p].left :
       LET cmd == job[p].cmd
           parts == PartsFor(cmd, t)
       IN  /\ job' = [job EXCEPT ![p].left = @ \ {t}, ![p].target = t, ![p].parts = parts,
                                 ![p].todo = Plan(cmd.op, t, parts)]
  /\ UNCHANGED <<files, promised, torn, counts>>

End(p) ==
  /\ job[p] # Idle
  /\ job[p].todo = {}
  /\ job[p].left = {}
  /\ job' = [job EXCEPT ![p] = Idle]
  /\ UNCHANGED <<files, promised, torn, counts>>

\* The command dies: a skill folder may be left with one of its two files, an
\* OpenCode config with both shapes of the entry.
Crash(p) ==
  /\ job[p] # Idle
  /\ job' = [job EXCEPT ![p] = Idle]
  /\ torn' = torn \cup {d \in {SkillDir[job[p].target]} : IsNext(p, "stamp")}
                  \cup {path \in {job[p].path} : IsNext(p, "migrate")}
  /\ UNCHANGED <<files, promised, counts>>

-----------------------------------------------------------------------------
(***************************************************************************)
(* The server entry                                                        *)
(***************************************************************************)

\* merge_entry: memdag's keys are set, everything people added stays.
\* (Variant: the entry is written anew.)
FreshEntry(old, approve) == [here |-> TRUE, custom |-> FALSE, approve |-> approve]
MergeEntry(old, approve) ==
  [here |-> TRUE, custom |-> old.custom, approve |-> old.approve \/ approve]

\* opencode_shape.  (Variant: only an entry in the old shape is ever moved.)
WritesV1(t, c, format) ==
  t = "opencode" /\ (format = "v1" \/ (format = "auto" /\ c.v1.here /\ ~c.v2.here))
OldShape(t, c, v1)   == t = "opencode" /\ ~v1 /\ c.v1.here
OtherShape(t, c, v1) == t = "opencode" /\ (IF v1 THEN c.v2.here ELSE c.v1.here)

SetEntry(c, v1, entry) == IF v1 THEN [c EXCEPT !.v1 = entry] ELSE [c EXCEPT !.v2 = entry]
EntryOf(c, v1)         == IF v1 THEN c.v1 ELSE c.v2
\* json_remove: the entry and the containers it leaves empty.
\* (Variant: always the same keys.)
RemoveUsual(c, v1)     == IF c.valid THEN SetEntry(c, FALSE, NoEntry) ELSE c
RemoveEntry(c, v1)     == IF c.valid THEN SetEntry(c, v1, NoEntry) ELSE c

\* Kiro approves tools in the entry (mcp_entry).
Approves(p) == job[p].target = "kiro" /\ {"permissions", "worker"} \subseteq job[p].parts

InstallMcp(p) ==
  /\ At(p, "install", "mcp")
  /\ job[p].target # "codex"
  /\ LET t == job[p].target
         path == ConfPath(t)
         c  == conf[path]
         v1 == WritesV1(t, c, job[p].cmd.format)
     IN  /\ c.valid
         /\ conf' = [conf EXCEPT ![path] = SetEntry(c, v1, MergeEntry(EntryOf(c, v1), Approves(p)))]
         /\ job' = [job EXCEPT ![p].path = path, ![p].v1 = v1,
                      ![p].todo = (@ \ {"mcp"}) \cup {s \in {"migrate"} : OtherShape(t, c, v1)}]
  /\ UNCHANGED <<text, own, skill, settings, torn, counts>>
  /\ Remember({}, {})

\* Codex keeps its entry in a TOML file (toml_set), in one shape.
InstallToml(p) ==
  /\ At(p, "install", "mcp")
  /\ job[p].target = "codex"
  /\ conf[ConfigFile["codex"]].valid
  /\ conf' = [conf EXCEPT ![ConfigFile["codex"]].v2 = MergeEntry(@, FALSE)]
  /\ Done(p, {"mcp"})
  /\ UNCHANGED <<text, own, skill, settings, torn, counts>>
  /\ Remember({}, {})

\* The other shape goes, if it is in the same file.
Migrate(p) ==
  /\ At(p, "install", "migrate")
  /\ LET path == job[p].path
     IN  IF ConfPath(job[p].target) = path /\ conf[path].valid
         THEN /\ conf' = [conf EXCEPT ![path] = RemoveEntry(@, ~job[p].v1)]
              /\ torn' = torn \ {path}
         ELSE UNCHANGED conf /\ torn' = torn \cup {path}
  /\ Done(p, {"migrate"})
  /\ UNCHANGED <<text, own, skill, settings, counts>>
  /\ Remember({}, {})

\* Both shapes are removed from an OpenCode config, by two writes.  A JSON config
\* that does not parse is passed over, a TOML one is refused.
RemoveMcp(p) ==
  /\ job[p] # Idle
  /\ job[p].target # "codex"
  /\ \E s \in {"mcp", "mcp1"} :
       LET path == ConfPath(job[p].target)
       IN  /\ At(p, "uninstall", s)
           /\ conf' = [conf EXCEPT ![path] = RemoveEntry(@, s = "mcp1")]
           /\ torn' = torn \cup {f \in {path} : ~conf[path].valid}
           /\ Done(p, {s})
  /\ UNCHANGED <<text, own, skill, settings, counts>>
  /\ Remember({}, {})

RemoveToml(p) ==
  /\ At(p, "uninstall", "mcp")
  /\ job[p].target = "codex"
  /\ conf[ConfigFile["codex"]].valid
  /\ conf' = [conf EXCEPT ![ConfigFile["codex"]].v2 = NoEntry]
  /\ Done(p, {"mcp"})
  /\ UNCHANGED <<text, own, skill, settings, torn, counts>>
  /\ Remember({}, {})

-----------------------------------------------------------------------------
(***************************************************************************)
(* Approvals and hook in Claude Code's settings                            *)
(***************************************************************************)

\* allow_worker_tools and remove_worker_tools: their rules, everything else stays.
EditPermissions(p) ==
  /\ settings.valid
  /\ \/ At(p, "install", "permissions")   /\ settings' = [settings EXCEPT !.allow = TRUE]
     \/ At(p, "uninstall", "permissions") /\ settings' = [settings EXCEPT !.allow = FALSE]
  /\ Done(p, {"permissions"})
  /\ UNCHANGED <<conf, text, own, skill, promised, torn, counts>>

\* add_session_hook and remove_session_hook: memdag's own hook only.
EditHook(p) ==
  /\ settings.valid
  /\ \/ At(p, "install", "hooks")   /\ settings' = [settings EXCEPT !.hook = TRUE]
     \/ At(p, "uninstall", "hooks") /\ settings' = [settings EXCEPT !.hook = FALSE]
  /\ Done(p, {"hooks"})
  /\ UNCHANGED <<conf, text, own, skill, promised, torn, counts>>

-----------------------------------------------------------------------------
(***************************************************************************)
(* The worker, the instructions, the skill                                 *)
(***************************************************************************)

Nobodys == [by |-> "nobody", pinned |-> FALSE, allow |-> FALSE]

\* write_owned refuses a file that people wrote.  (Variant: it does not look.)
MayOverwrite(f)  == f \in OwnPaths
MayWriteOwned(f) == own[f].by # "people"
\* remove_owned leaves it alone.
WithoutOwned(f) == IF own[f].by = "memdag" THEN [own EXCEPT ![f] = Nobodys] ELSE own

\* worker_file: whether a model is pinned, and OpenCode's approvals.
WorkerText(t, pinned, allow) ==
  [by |-> "memdag", pinned |-> pinned, allow |-> t = "opencode" /\ allow]

\* existing_model: the model an earlier worker file pins.
Pinned(f) == own[f].by = "memdag" /\ own[f].pinned

WriteWorker(p) ==
  /\ At(p, "install", "worker")
  /\ LET t == job[p].target
         f == WorkerFile[t]
     IN  /\ MayWriteOwned(f)
         /\ own' = [own EXCEPT ![f] = WorkerText(t, job[p].cmd.model \/ Pinned(f),
                                                 "permissions" \in job[p].parts)]
  /\ Done(p, {"worker"})
  /\ UNCHANGED <<conf, text, skill, settings, torn, counts>>
  /\ Remember({}, {})

RemoveWorker(p) ==
  /\ At(p, "uninstall", "worker")
  /\ own' = WithoutOwned(WorkerFile[job[p].target])
  /\ Done(p, {"worker"})
  /\ UNCHANGED <<conf, text, skill, settings, torn, counts>>
  /\ Remember({}, {})

\* upsert_block and remove_block are refused where the markers do not pair up.
Upsert(x)      == IF x = "unbalanced" THEN x ELSE "ours"
RemoveBlock(x) == IF x = "unbalanced" THEN x ELSE "none"

WriteInstructions(p) ==
  /\ At(p, "install", "instructions")
  /\ LET f == InstructionsFile[job[p].target]
     IN  \/ /\ job[p].target \in OwnRule
            /\ MayWriteOwned(f)
            /\ own' = [own EXCEPT ![f] = [Nobodys EXCEPT !.by = "memdag"]]
            /\ UNCHANGED text
         \/ /\ job[p].target \notin OwnRule
            /\ text[Real(f)] # "unbalanced"
            /\ text' = [text EXCEPT ![Real(f)] = Upsert(@)]
            /\ UNCHANGED own
  /\ Done(p, {"instructions"})
  /\ UNCHANGED <<conf, skill, settings, torn, counts>>
  /\ Remember({<<job[p].target, "instructions">>}, {})

\* shared_with: another target that was found installed uses the same file.
\* (Variant: paths are compared as they are written, not where links lead.)
SameName(f, g) == f = g
SameFile(f, g) == f # NoPath /\ g # NoPath /\ Real(f) = Real(g)
InstructionsShared(p) ==
  \E o \in job[p].remaining \ {job[p].target} :
    SameFile(InstructionsFile[o], InstructionsFile[job[p].target])
SkillShared(p) ==
  \E o \in job[p].remaining \ {job[p].target} : SkillDir[o] = SkillDir[job[p].target]

RemoveInstructions(p) ==
  /\ At(p, "uninstall", "instructions")
  /\ LET f == InstructionsFile[job[p].target]
     IN  \/ InstructionsShared(p) /\ UNCHANGED <<text, own>>
         \/ /\ ~InstructionsShared(p)
            /\ job[p].target \in OwnRule
            /\ own' = WithoutOwned(f)
            /\ UNCHANGED text
         \/ /\ ~InstructionsShared(p)
            /\ job[p].target \notin OwnRule
            /\ text[Real(f)] # "unbalanced"
            /\ text' = [text EXCEPT ![Real(f)] = RemoveBlock(@)]
            /\ UNCHANGED own
  /\ Done(p, {"instructions"})
  /\ UNCHANGED <<conf, skill, settings, torn, counts>>
  /\ Remember({}, {})

\* install_skill: SKILL.md, then the stamp that marks the folder as memdag's.  A
\* folder with an unstamped SKILL.md, whoever wrote it, is left alone.
WriteSkill(p) ==
  /\ At(p, "install", "skill")
  /\ LET d == SkillDir[job[p].target]
     IN  IF skill[d].md # "none" /\ ~skill[d].stamp
         THEN UNCHANGED skill /\ Done(p, {"skill", "stamp"})
         ELSE skill' = [skill EXCEPT ![d].md = "ours"] /\ Done(p, {"skill"})
  /\ UNCHANGED <<conf, text, own, settings, promised, torn, counts>>

\* remove_skill: the other way round, and only a stamped folder.
RemoveSkill(p) ==
  /\ At(p, "uninstall", "skill")
  /\ LET d == SkillDir[job[p].target]
     IN  IF SkillShared(p) \/ ~skill[d].stamp
         THEN UNCHANGED skill /\ Done(p, {"skill", "stamp"})
         ELSE skill' = [skill EXCEPT ![d].md = "none"] /\ Done(p, {"skill"})
  /\ UNCHANGED <<conf, text, own, settings, promised, torn, counts>>

Stamp(p) ==
  /\ job[p] # Idle
  /\ IsNext(p, "stamp")
  /\ skill' = [skill EXCEPT ![SkillDir[job[p].target]].stamp = job[p].cmd.op = "install"]
  /\ Done(p, {"stamp"})
  /\ torn' = torn \ {SkillDir[job[p].target]}
  /\ UNCHANGED <<conf, text, own, settings, counts>>
  /\ Remember(IF job[p].cmd.op = "install" THEN {<<job[p].target, "skill">>} ELSE {}, {})

\* A step that is refused ends the command: what was written before stays.
Refused(p) ==
  LET t == job[p].target
      f == InstructionsFile[t]
  IN  \/ At(p, "install", "mcp") /\ ~conf[ConfPath(t)].valid
      \/ At(p, "uninstall", "mcp") /\ t = "codex" /\ ~conf[ConfPath(t)].valid
      \/ job[p] # Idle /\ (IsNext(p, "permissions") \/ IsNext(p, "hooks")) /\ ~settings.valid
      \/ At(p, "install", "worker") /\ ~MayWriteOwned(WorkerFile[t])
      \/ At(p, "install", "instructions") /\ t \in OwnRule /\ ~MayWriteOwned(f)
      \/ At(p, "install", "instructions") /\ t \notin OwnRule /\ text[Real(f)] = "unbalanced"
      \/ /\ At(p, "uninstall", "instructions")
         /\ t \notin OwnRule
         /\ ~InstructionsShared(p)
         /\ text[Real(f)] = "unbalanced"

Refuse(p) ==
  /\ Refused(p)
  /\ job' = [job EXCEPT ![p] = Idle]
  /\ UNCHANGED <<files, promised, torn, counts>>

-----------------------------------------------------------------------------
(***************************************************************************)
(* People (external)                                                       *)
(***************************************************************************)

Spoil(c, v) == IF Exists(c) THEN [c EXCEPT !.valid = v] ELSE c
Custom(e)   == [e EXCEPT !.custom = e.here]

EditConf ==
  /\ \E f \in ConfPaths :
       \/ /\ "customise" \in Edits
          /\ conf[f].valid
          /\ conf' = [conf EXCEPT ![f].v1 = Custom(@), ![f].v2 = Custom(@)]
       \/ "break" \in Edits /\ conf' = [conf EXCEPT ![f] = Spoil(@, FALSE)]
       \/ "fix"   \in Edits /\ conf' = [conf EXCEPT ![f] = Spoil(@, TRUE)]
       \/ "shadow" \in Edits /\ f = Preferred /\ conf' = [conf EXCEPT ![f].user = TRUE]
  /\ conf' # conf
  /\ UNCHANGED <<text, own, skill, settings>>

EditOwn ==
  /\ \E f \in OwnPaths :
       \/ /\ "pin" \in Edits
          /\ own[f].by = "memdag"
          /\ \E t \in Targets : f = WorkerFile[t]
          /\ own' = [own EXCEPT ![f].pinned = TRUE]
       \/ /\ "write" \in Edits
          /\ own[f].by = "nobody"
          /\ own' = [own EXCEPT ![f].by = "people"]
  /\ own' # own
  /\ UNCHANGED <<conf, text, skill, settings>>

EditText ==
  /\ \E f \in TextPaths :
       \/ /\ "break" \in Edits
          /\ text[f] = "ours"
          /\ text' = [text EXCEPT ![f] = "unbalanced"]
       \/ /\ "fix" \in Edits
          /\ text[f] = "unbalanced"
          /\ text' = [text EXCEPT ![f] = "ours"]
  /\ text' # text
  /\ UNCHANGED <<conf, own, skill, settings>>

EditSkill ==
  /\ "write" \in Edits
  /\ \E d \in SkillDirs :
       /\ skill[d].md = "none"
       /\ ~skill[d].stamp
       /\ skill' = [skill EXCEPT ![d].md = "foreign"]
  /\ UNCHANGED <<conf, text, own, settings>>

EditSettings ==
  /\ settings.user
  /\ \/ "break" \in Edits /\ settings' = [settings EXCEPT !.valid = FALSE]
     \/ "fix"   \in Edits /\ settings' = [settings EXCEPT !.valid = TRUE]
     \/ "mention" \in Edits /\ \E part \in Mentions :
                                settings' = [settings EXCEPT !.mentions = @ \cup {part}]
  /\ settings' # settings
  /\ UNCHANGED <<conf, text, own, skill>>

Edit ==
  /\ EditConf \/ EditOwn \/ EditText \/ EditSkill \/ EditSettings
  /\ edits < MaxEdits
  /\ edits' = edits + 1
  /\ UNCHANGED <<job, torn, commands>>
  /\ Remember({}, {})

-----------------------------------------------------------------------------

Init ==
  /\ \E b \in Begin : /\ conf = b.conf /\ text = b.text /\ own = b.own
                     /\ skill = b.skill /\ settings = b.settings
  /\ job = [p \in Procs |-> Idle]
  /\ promised = {}
  /\ torn = {}
  /\ commands = 0 /\ edits = 0

Install(p)   == \/ InstallMcp(p) \/ InstallToml(p) \/ Migrate(p) \/ WriteWorker(p)
                \/ WriteInstructions(p) \/ WriteSkill(p)
Uninstall(p) == \/ RemoveMcp(p) \/ RemoveToml(p) \/ RemoveWorker(p)
                \/ RemoveInstructions(p) \/ RemoveSkill(p)

Next == \/ \E p \in Procs :
             \/ \E cmd \in Commands : Start(p, cmd)
             \/ BeginTarget(p) \/ End(p) \/ Crash(p)
             \/ Install(p) \/ Uninstall(p) \/ Stamp(p) \/ EditPermissions(p) \/ EditHook(p)
             \/ Refuse(p)
        \/ Edit

Spec == Init /\ [][Next]_vars

-----------------------------------------------------------------------------
(***************************************************************************)
(* Properties                                                              *)
(***************************************************************************)

\* Every variable has its type; a running command works on targets of the instance.
TypeOK ==
  /\ conf \in [ConfPaths -> Conf]
  /\ text \in [TextPaths -> Text]
  /\ own \in [OwnPaths -> Own]
  /\ skill \in [SkillDirs -> Skill]
  /\ settings \in Settings
  /\ job \in [Procs -> Job \cup {Idle}]
  /\ promised \subseteq Targets \X Shared
  /\ torn \subseteq ConfPaths \cup SkillDirs
  /\ commands \in 0..MaxCommands /\ edits \in 0..MaxEdits

\* What a target was given in a file it shares with others is there as long as the
\* target is installed, whichever of the others are uninstalled in between, by
\* commands that die or are refused halfway too (run_uninstall, install.rs `uninstall`).
SharedFilesStay ==
  \A q \in promised :
    IF q[2] = "skill" THEN skill[SkillDir[q[1]]].stamp ELSE Has(q[1], "instructions")

\* An OpenCode config defines memdag in both shapes only while a command that was told
\* the shape (--opencode-format) is between its two writes, or where one could not do
\* the second (install: "so it isn't defined twice").
Moving(f) == \E p \in Procs : /\ At(p, "install", "migrate")
                              /\ job[p].path = f
                              /\ job[p].cmd.format # "auto"
Twice(c) == c.v1.here /\ c.v2.here
DefinedOnce == \A f \in ConfPaths : Twice(conf[f]) => f \in torn \/ Moving(f)

\* When an uninstall of every part ends without a refusal, nothing of memdag is left
\* for its targets, but for what others share and what could not be cleaned.
UninstallIsComplete ==
  [][\A p \in Procs :
       /\ Busy(p, "uninstall")
       /\ job[p].cmd.parts = AllParts
       /\ job[p].cmd.protect
       /\ End(p)
       => \A t \in job[p].cmd.targets :
            LET d == SkillDir[t]
                kept(o) == o \in job[p].remaining
            IN  /\ Configured(t) => ConfPath(t) \in torn
                /\ ~Generated(WorkerFile[t])
                /\ Has(t, "instructions") =>
                     \E o \in Targets : kept(o) /\ SameFile(InstructionsFile[o], InstructionsFile[t])
                /\ skill[d].stamp \/ skill[d].md = "ours" =>
                     d \in torn \/ \E o \in Targets : kept(o) /\ SkillDir[o] = d
                /\ t = "claude_code" => ~settings.allow /\ ~settings.hook]_vars

\* A refresh never gives a harness a piece that it has nowhere (run_install: "it never
\* adds files the user didn't ask for"), but for approvals and the hook where people's
\* own settings mention them (installed_parts searches the text).
HasPiece(t, part) ==
  IF part = "mcp"
    THEN \E f \in {ConfigFile[t]} \cup {g \in {Preferred} : t = "opencode"} :
           conf[f].v1.here \/ conf[f].v2.here
    ELSE IF part \in Mentions /\ t = "claude_code"
      THEN IF part = "hooks" THEN settings.hook ELSE settings.allow
      ELSE Has(t, part)
RefreshAddsNothing ==
  [][\A p \in Procs :
       /\ job[p] # Idle
       /\ job[p].cmd.refresh
       /\ job' # job
       => \A t \in Targets, part \in AllParts :
            HasPiece(t, part)' => HasPiece(t, part) \/ Mentioned(t, part)]_vars

\* No command changes a file that memdag did not write or cannot read: workers, rules
\* and skills of people's own, configs that do not parse, markers that do not pair up.
ForeignContentStays ==
  [][job' # job =>
       /\ \A f \in OwnPaths : own[f].by = "people" => own'[f] = own[f]
       /\ \A d \in SkillDirs : skill[d].md = "foreign" => skill'[d] = skill[d]
       /\ \A f \in ConfPaths : ~conf[f].valid => conf'[f] = conf[f]
       /\ \A f \in TextPaths : text[f] = "unbalanced" => text'[f] = text[f]
       /\ ~settings.valid => settings' = settings]_vars

\* Installing again keeps what people put into memdag's entry, and the worker's model
\* they pinned (merge_entry, existing_model): an entry that is written keeps it, and a
\* file that has an entry left has it somewhere.  The exception is an entry that moves:
\* the new shape is written without regard to the old one, which then goes, with what
\* people put there.  So it is when --opencode-format asks for it, or where such a move
\* had been torn.
Customised(c) == (c.v1.here /\ c.v1.custom) \/ (c.v2.here /\ c.v2.custom)
HasEntry(c)   == c.v1.here \/ c.v2.here
MovesAway(f)  == Twice(conf[f]) /\ (f \in torn \/ Moving(f))
ChoicesSurviveReinstall ==
  [][job' # job =>
       /\ \A f \in ConfPaths :
            /\ conf[f].v1.custom /\ conf'[f].v1.here => conf'[f].v1.custom
            /\ conf[f].v2.custom /\ conf'[f].v2.here => conf'[f].v2.custom
            /\ Customised(conf[f]) /\ HasEntry(conf'[f]) => Customised(conf'[f]) \/ MovesAway(f)
       /\ \A f \in OwnPaths : own[f].pinned /\ own'[f].by = "memdag" => own'[f].pinned]_vars
=============================================================================

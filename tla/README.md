# A verification project for memdag

memdag is a memory graph for coding agents: decisions, tasks, invariants and
session scratch in one SQLite database per repository, partly written by agents
and partly imported from git commits, ADRs and note files. Several processes
(an MCP server per agent, CLI calls, workers) and several git worktrees share
the database. These modules state what the program promises under that sharing,
check it with TLC on small instances and prove part of it with TLAPS.

Run a check with `tlc -config MCImporter_agents.cfg MCImporter` (the module is
the part of the cfg's name before `_`), a proof with `tlapm Importer_proofs.tla`.

## 1. Inventory

Paths are relative to `src/` of the repository.

| Component | State it keeps | Operations | Correct when |
|---|---|---|---|
| Memory graph (`src/store.rs`, `src/models.rs`) | `memories`, `memory_relations`, `reviewed_pairs` | `record_memory`, `link_entities`, `resolve_memory`, `consolidate_session`, `purge_expired_ephemeral`, `set_keywords`, `mark_pair_reviewed`, `confirm_memory`, `list_ready` | a settled memory never comes back; only scratch is lost; no edge or verdict outlives a row; a hidden memory names what replaced it; offered tasks stay offered |
| Importer (`src/import.rs`, `src/checkout.rs`) | rows with a `source`, `memory_owners`, `pending_relations`, `last_import_head:<worktree>` | `import_repo` (collect, `apply`, record HEAD), `refresh_if_stale`, pruning | a sourced row lives exactly while a worktree claims it; imports of one worktree do not touch the claims of another; incremental refreshes lose nothing; the index converges to what the worktrees hold |
| Write-through notes (`src/store.rs`, `src/notes.rs`) | `<id>.md` and `<id>.resolved.md` beside the rows | `record_memory`, `resolve_memory`, `consolidate_session` with a notes directory | file and row end up both there or both gone, whatever fails or dies in between |
| Work queue (`src/work.rs`) | answers being applied; `reviewed_pairs.verdict`, `keywords` | `next_batch`, `submit` (expand, verify, consolidate) | a late, repeated or invented answer does nothing; recorded verdicts were carried out |
| Embeddings (`src/embed.rs`, `src/store.rs`) | `memories_vec`, the embedder's identity, a cooldown | `embed_best_effort`, `embed_missing_up_to`, `check_embedder_identity` | a query only meets vectors of its own embedder; a vector is of its memory's text, unless the command was overtaken; backfills get everywhere |
| Schema and migrations (`src/db.rs`) | `user_version`, tables, triggers | creation, migrations v1 to v6 | every committed version is one that can be written to; data and search index survive; the newest version is reached |
| Legacy merge (`src/db.rs`, `src/main.rs`) | old per-worktree databases | claim by rename, copy, rename again | no memory of an old database is lost; a database is retired only when it is copied |
| Search and ranking (`src/store.rs`) | none | reciprocal rank fusion, status penalties | order as documented |
| Provenance (`src/provenance.rs`) | `paths`, `fingerprints`, `commit_sha` | stamping, batched staleness | a changed citation is reported, an unchanged one is not |
| MCP server (`src/mcp.rs`) | session state, time of last refresh | `initialize`, `tools/call`, `prompts/get` | one response per request and none per notification |
| CLI, configuration (`src/main.rs`, `src/cli.rs`) | none | one command per call; each starts with the scratch sweep | - |
| Installer (`src/install.rs`, `src/harness.rs`) | entries, blocks, files and folders among files people own | `install`, `install --refresh`, `uninstall`, the `mcp`, `work` and `skill` commands built on them | what another harness still uses stays; uninstall leaves nothing of memdag and everything else; refresh adds nothing |
| Build, bench, scripts | none | - | - |

How they interact. Everything writes through one SQLite connection per process;
an operation is one immediate transaction, or one autocommit statement, unless
noted. The importer, write-through and the work queue are the parts that need
several steps: the importer reads a worktree *before* its transaction and
records HEAD *after* it; write-through touches a file before the row; a
worker's answer is checked in one transaction and carried out in up to five
more. The MCP server and the CLI refresh from git (`auto_refresh`) before they
read. Hard behaviours are therefore interleavings of these half-done
operations, crashes between their steps, edits and branch switches at any
moment, and worktrees that come and go. Vectors are computed outside any
transaction and stored when the external command is done. Starting up has races
of its own: several processes create or migrate the database, or fold an old one
into it, while builds of another version have it open. The installer edits files
one by one that several harnesses and people share, and keeps no record of what
it did. `PROJECT.json` lists each hazard at its line, with the properties that
cover it.

## 2. Modules

| Module | What it is |
|---|---|
| `MemoryGraph` | the tables and the one-transaction operations on memories without files |
| `MemoryGraph_proofs` | its invariants and action properties, proved |
| `OwnedIndex` | the abstract index shared by worktrees: claims, and their union |
| `Importer` | scan, apply, record HEAD; write-through; people editing worktrees |
| `Importer_proofs` | its invariants, what imports leave, and the refinement of `OwnedIndex`, proved |
| `WorkQueue` | `submit`, transaction by transaction, over an INSTANCE of `MemoryGraph` |
| `WorkQueue_proofs` | its invariants and the refinement of `MemoryGraph`, proved |
| `SchemaMigration` | opening a database: creation, each migration, older builds beside it |
| `SchemaMigration_proofs` | its invariants and action properties, proved |
| `LegacyMerge` | claim, copy, retire or put back an old database, rename by rename |
| `LegacyMerge_proofs` | its invariants and action property, proved |
| `VectorIndex` | embedding, backfills, and the check of who embedded what |
| `VectorIndex_proofs` | its invariants and action property, proved |
| `Installer` | install, refresh and uninstall, file by file, among people's edits |
| `Installer_proofs` | its invariants and action properties, and what an install leaves, proved |
| `MCMemoryGraph`, `MCImporter`, `MCWorkQueue`, `MCSchemaMigration`, `MCLegacyMerge`, `MCVectorIndex`, `MCInstaller` | instances for TLC |

A definition preceded by a remark "Variant" stands for a mistake the code does
not make: put in place of the definition after it, it breaks the property it is
about. No specification uses it.

### MemoryGraph

`mem` is the table `memories` (a row has the kind, status, session, whether it
has keywords, whether its age exceeds the scratch TTL, and whether the files it
cites changed), `relations` and `reviewed` are the other two tables. Each
operation of `MemoryStore` is one action with the code's checks as guards; an
operation the code refuses has no action. `DeleteRows` deletes with the
`ON DELETE CASCADE` clauses of the schema. `Age` and `EditCitedFile` are the
clock and people. `swept` is history: rows that lost a superseder to a sweep of
scratch, the one way in which a superseded row may lose its explanation.
Texts, tags, commits and timestamps are left out, since no guard reads them.

### Importer and OwnedIndex

A process works in one worktree (`Home`). `Scan` is `import_repo` up to its
transaction: it stores in `job[p]` what it read (documents, what could not be
read, which sources were scanned completely, git's list of worktrees, HEAD).
`Apply` is the function `apply`, one transaction on that stored reading, in the
code's order: upserts, pending edges, status changes, claims, orphans, cascade,
rows that become current again. `RecordHead` is the statement after it. The
write-through operations have a step for the file and one for the row, and the
refusals that undo the file. `Crash` may strike between any two steps.
`EditFile`, `MoveHead`, `RemoveWorktree` and `AddWorktree` are what people and
git do. `said` is history: the document a row was last applied from.

An id belongs to one source, because the ids of commits, ADRs and notes differ
by prefix; so the only collision is that of an imported id with a row recorded
directly, which `MayApply` handles as the code does. Only `supersedes` edges
are kept: no other type changes a status.

A source is pruned only where it was read completely (`Pruned`): commits in a
full scan, notes and ADRs if their directories could be listed. A worktree list
that cannot be read drops no claims (`NotGone`); a sibling whose own `gitdir`
cannot be read (checkout.rs:93) counts as one that is not listed, which is
`RemoveWorktree` and `AddWorktree` around a scan.

`OwnedIndex` says what readers may rely on: the claims of each worktree, and the
index, which is their union. A process looks which worktrees are listed, and
later states the claims of its own worktree as a whole. In that step the claims
of a worktree that was missing from its list go, and those of a listed one stay
as they are; a process that could not look, or died and forgot, drops nobody's.
`Importer` implements it with claims read off `memory_owners`, the index being
the rows with a source, and the list being the one in the scan of `job[p]`.

### WorkQueue

`job[w]` is the answer a submitting process is applying. `JudgePair` and
`AnswerVerify` are the checks; `Plan` decides, as `apply_pair` does, which of
two duplicates is resolved, or that a task is recorded. Then one action per
transaction follows. `GiveUp` is a crash or a failing step. Other processes are
`Others`, the agents' part of `MemoryGraph`. `Origin` says what backs a
memory, since resolving or confirming an imported one would not last, and
`notes` what this checkout has of a note: its file, its file and the sidecar
that marks it resolved, or nothing (also without write-through). `Persists` is
`resolution_persists` and reads it when the answer is checked; the resolution
writes the sidecar (`SealNote`), then the row, and takes the sidecar away again
if the row fails (`Unseal`). People move the files at any time (`MoveNote`).
`log` is history: what workers dropped, replaced, or hid in the database alone.
`moved` says whose note people have moved since it was checked. Whether
two titles are similar enough to be a candidate is left to SQLite: any pair of
active durable memories may be accepted or refused.

### SchemaMigration

A database has a version, the pieces of schema that are there (`has`), the width of
the full-text table and of the triggers that feed it, and its data. A process looks
for the table `memories`, creates the schema under the write lock after a second
look, or reads the version and takes one migration after the other; `Needed` is the
version read again inside each. `ToV1` to `ToV6` change what the SQL changes: `ToV1`
replaces the table with foreign keys off, `ToV3` drops vectors of deleted memories
(later deletions take theirs along), `ToV4` rebuilds the index, `ToV5` fills
`memory_owners`. `Fail` is a statement that fails or a process that dies; nothing of
its transaction stays. Older builds (external) open a database of their own version,
keep the connection while it is migrated underneath, and insert, delete, link and
embed. Pragmas and their retries are left out.

### LegacyMerge

`file` says what is under each name: `memdag.db`, the claims
`memdag.db.merging-<pid>`, `memdag.db.merged`. A process goes through `Look`,
`Restore`, `OpenOld`, `Claim`, `Copy`, `Finish`, each one system call or
transaction, and may die in between; the files of a WAL move along. `aged` is
the only clock: content last written more than a minute ago. A server of the
old build holds a file (`held`), not a name, so its writes follow the renames.
It is there from the beginning or not at all, since today's build does not open
that path. Claims are unique, as process ids are. History: what was recorded
(`recorded`), what was written after the copy (`late`), and whether a process
came to open or attach a file that another one had moved away (`movedAway`).

### VectorIndex

`vec` has the text a vector was computed from and who computed it. `Record`,
`Backfill` and `Search` begin a job, which passes through the three statements
of `check_embedder_identity` if its process has not checked yet, then embeds
what it has read. `Store` stores whatever was computed, also for a memory that
is gone; `StoreFails` allows `INSERT OR REPLACE` to be refused where a vector
exists, which is up to the virtual table. `EmbedFails` is an error or a timeout,
and starts the cooldown. What an import does to vectors are the triggers
(`Triggered`). `mixed` is history: two embedders were in use at once, or a check
failed. Scratch has no vectors and is left out; text that is appended by a
resolution does not count as another text.

### Installer

`conf` are the files with a server entry (in OpenCode's two shapes), `text` the
files with an instruction block, `own` the files memdag writes whole, `skill` the
skill folders (SKILL.md and its stamp), `settings` Claude Code's approvals and hook,
and which of the two people's own settings mention: `installed_parts` looks for
Claude Code's rules and hook in the text of the file (`Mentioned`), so rules that
are denied, or another hook that ends that way, count. The tables at the top
(`ConfigFile`, `WorkerFile`, ...) say which target keeps what where, for a project
or globally; `Links` has symlinks. `Start` is the command line with its checks,
`BeginTarget` decides what is to do for one target (a refresh looks at what is
there), and each part is one action that replaces one file. `Refuse` ends the
command where a part is refused. It may die anywhere, and people edit at any moment:
they customise an entry, pin a model, mention memdag's rules or hook, break a file,
write one of their own, add a config that OpenCode prefers. Two of OpenCode's four
candidate files stand for all; `--path` and `--key` and `--print-config` are left
out, as is detection: a command names its targets, in any order. TOML, JSON and
Markdown edits are what they do to memdag's part.

## 3. Runs

| Run | Instance | What it shows |
|---|---|---|
| `graph` | 2 ids, tasks, decisions and scratch, every operation, fair sweep | no dangling references, scratch never active, superseded rows explained, no zombies, only scratch lost, offered tasks stay offered, expired scratch is deleted |
| `import_agents` | 1 worktree, 2 processes, a note and a decision commit, full and file imports, every action | reference counting and exact imports while recording, resolving and importing race and processes die |
| `import_worktrees` | 2 worktrees that come and go, 2 notes that may supersede each other | edges and statuses stay consistent, and every step is one of `OwnedIndex` |
| `import_history` | 1 process, full, incremental and git-only imports; decisions on a commit and on one of two branches after it, 2 ADRs, one of which may be unreadable | incremental refreshes lose no decision: what the recorded HEAD reaches is claimed; the index converges |
| `work` | 1 submitting process that may die, agents around it; 3 memories: direct, imported, note; people who move the note's file away | recorded verdicts are carried out; nothing is hidden in the database alone; duplicates are not dropped both ways; corrections do not compete; every step is one of `MemoryGraph` |
| `schema` | 2 processes, 2 memories, a database of any version or none, builds of versions 0, 3 and 4 beside it, 1 failure | every committed schema fits its version; search is exact, vectors go with their rows; the version never goes back, no data is lost, the upgrade completes |
| `legacy` | 2 processes, 2 claims, a direct and an imported memory with an edge, an old server, 1 failure | nothing recorded before the copy is lost, only copied databases are retired, the hand-over completes |
| `vectors` | 2 processes with 2 embedders, 2 memories of which one is imported, a refused text, 1 failure | one vector space; only an overtaken command makes a vector wrong; backfills complete |
| `install` | Claude Code, OpenCode, Codex and Kiro in a project, CLAUDE.md linked to AGENTS.md, from nothing or from broken files; 3 of 8 commands, 1 edit | shared files stay, no double definition, uninstall complete, refresh adds nothing that is not mentioned, foreign content survives, and choices but for an entry that moves |
| `import_adr` (violation) | 2 ADRs | see section 5 |
| `install_shared` (violation) | OpenCode, Codex; 3 commands | see section 5 |
| `legacy_two` (violation) | `legacy` without failures | see section 5 |

Why these bounds. A zombie or a lost superseder takes the row it happens to and
its superseder; an inherited edge an id that is recorded again. What a third row
adds (chains) is in the proofs. Claims need two worktrees, since a third is one
more of "the others"; a race of half-done imports needs two processes. One
decision after a common commit on each of two branches makes HEAD move forwards,
backwards and sideways. `MaxRelations` bounds the edges of a graph and
`MaxLearnings` the learnings of one consolidation, both in the guards;
`Worded`, `Edited` and `Retired` bound which memories are given keywords, have
their cited files edited and are superseded or resolved by agents in `work`;
agents retire the note only, the one with a mark to race for. `Moves` is what
people make of its file: taking it away makes every later step find it missing,
and the proofs have all of `Files`.
Schema steps of a process only depend on what it read and on the database, so
two processes make all overlaps; old builds of versions 0, 3 and 4 are one
before each change of what writing needs (origins, the index, claims).
`MaxFailures` of 1 puts one death or failure at any step, which leaves the
state that recovery starts from. A merge needs a claimer and one that takes the
claim for an abandoned one. Three commands are an install of two harnesses, the
uninstall of one, and one in between; four targets because they cover each way
of sharing: two with AGENTS.md, three with a skills folder, one with a rule file
of its own. Symmetry is used only for safety runs and only among values nothing
distinguishes: processes of one worktree, worktrees taken together with their
process. All behaviours may stop, so deadlock is not checked: every process can
always be idle for good.

Fairness. `graph` assumes the sweep runs again and again: every CLI command
starts with it. `import_history` assumes that a full import is made now and
then, and that no process stays between two steps for good; a crash is a step of
its own. The full imports are those people make with `memdag import`: the server
refreshes only when HEAD has moved, and then reads what is new (import.rs:1310),
so `IndexConverges` promises nothing where nobody runs the command. There is one
process, no agent and no death in that run. `schema` assumes the same of a process
that opens the database, `legacy` that memdag is started again and again (each
start makes the attempt), the old server ends its transactions and time passes.
`vectors` assumes that processes take their steps, a cooldown ends, and people
run `memdag embed` now and then. A backfill reads as many memories as there are,
so its limit never cuts one short here. `IndexConverges` and
`BackfillCompletes` only speak of behaviours in which edits, recordings and
restarts end.

`RecordedHeadIsIndexed` needs one process per worktree, `DuplicatesKeepOne` and
`ReplacedOnce` one submitting process, and the properties of the installer, but
for `DefinedOnce` and `ChoicesSurviveReinstall`, one command at a time. Their
runs have just that, and section 4 states it as a hypothesis of the theorem;
section 5 says what goes wrong otherwise.

## 4. Proofs

All theorems hold for every value of the constants that satisfies the module's
ASSUMEs (ids and worktrees of any number, any commit graph, any documents).

`MemoryGraph_proofs`. The inductive invariant is `TypeOK`,
`NoDanglingReferences`, `ScratchNeverActive` and `SupersededIsExplained`
together. The last needs the second: after a sweep deletes a superseder, the
superseded row must be in `swept`, and no other edge may have pointed from a
row that is not there. From it follow `NoZombies`,
`DurableKnowledgeSurvives` and `ReadyUntilSettledOrBlocked` as properties of
every step.

`Importer_proofs`. The inductive invariant is `TypeOK`, `SourcedRowsAreOwned`,
`EdgesJoinStoredRows` and `SupersededIsExplained`. A row made current by
`Apply` is one without an edge *left*, so that a row with an edge left must
have a stored superseder: this is where `EdgesJoinStoredRows` is needed. Nothing
about the age of a scan is assumed; `Apply` works on any reading of the right
type. `IndexRefinement` maps claims, index and lists as described above: `Scan` is
a look, `Apply` the update by its worktree, which drops the claims of exactly the
worktrees that its scan did not find listed, `InsertNote` an update that adds one
claim, a death forgets the list, and people's worktrees come and go; every other
step stutters.

What an import leaves also depends on what it has read. `ScanInvariant` adds that
a scan in progress holds readable documents and, where it may prune commits,
exactly the history of the HEAD it read (`ScansAreFaithful`), and that no id
changes its source (`RowsFit`). `FullImportsAreExact` follows for any number of
processes. `HeadIsIndexed` needs `HeadsAreCovered` besides: an incremental scan
may lack a decision only if the HEAD recorded *now* reaches it, and a HEAD about
to be recorded is covered by the claims already. It has three hypotheses. Two
processes of one worktree, a worktree that is unlisted for a while, and a death
between the transaction and the record each break it (section 5).

`ImportsAreIdempotent` is about a second import of the same reading, right after
the first: it would leave the claims, the edges and the rows that are there. The
documents that were applied are claimed now and are applied again; what was
refused, because it is recorded directly, is refused again. An edge that was
pending and has its rows now is a relation already. No row is hidden, freed or
orphaned that was not. The exception is a document that says it was superseded
and lost the edge to its superseder in the first import: that import ends by
making it active, the second reads the document and makes it superseded again
(run `import_adr`). Pending edges are left out, because pruning a row may put
back one that had been resolved.

`WorkQueue_proofs`. `TypeCorrect`, and `GraphRefinement`: every step of a
worker's answer is a step of `MemoryGraph` or changes none of its tables. With
`MemoryGraph_proofs`, workers therefore cannot break the guarantees of the
graph, in any number and dying anywhere. `VerdictsHold` and `ResolutionsHold`
need the stages of an answer in the inductive invariant (`Sound`): at `second`
the task exists and names the first member, at `mark` the verdict is carried
out. What was done at one stage must survive until the next although anyone may
run in between; it does because the members of a pair are durable, and the
lemmas of `MemoryGraph_proofs` (`StepsAreRowSteps`, `StepsAreEdgeSteps`, and its
invariant `ScratchNeverActive`) say that no step deletes a durable row, an edge
between durable rows, or makes a settled one active again. For `ResolutionsHold`
the stages say that the note of a worker about to resolve is there, and marked
once the row's turn has come, unless people have moved it since (`Unbacked`): a
worker that gives up unmarks only what it had marked itself. Both hold for any
number of workers, while their runs have one.

`LogInvariant` says that what was dropped or replaced is durable and settled, and
that is for good. `DuplicatesNeverBothDropped` and `ReplacedAtMostOnce` assume
one submitting process (`OneWorker`): the keeper of a pair was active when the
pair was accepted, hence not dropped before, and until the duplicate is resolved
nobody else logs anything (`KeeperStays`, `NotReplacedYet`). Deaths and agents at
any moment are allowed.

`SchemaMigration_proofs`. The invariant is `TypeOK` with `SchemaMatchesVersion`,
`OpenMeansCurrent` and `IndexIsExact`, that nothing is stored
where there is no table, and what each stage of opening knows: a process that
has read the version knows that the table exists and that the version has not
gone back since, so a migration whose number exceeds the version is the very
next one. That makes each `ToV<k>` start from version `k - 1`, and its effect fit.
`NeverBackwards`, `DataSurvives` and `VectorsFollowRows` follow for every step. That
no vector is without a memory does not hold: one may be stored after its memory
was deleted (store.rs:471), in this module and in `VectorIndex`. An older build can
write at any version because the triggers fit the index, and cannot break what
it does not know because the triggers are the database's.

`LegacyMerge_proofs`. As long as no process found its file gone, there is one
file at most (`OneFile`), which a rename moves without overwriting another. No
two processes work on a claim of one name (`ClaimsAreAlone`), so what a process
copied is what it retires; only a database has content, and edges join rows of
their file (`FilesAreSound`). With these `NothingLost` and `MergedMeansCopied`
are inductive. A claim that is put back under a running merge keeps its rows:
the exemption is about files that are gone, not about claims taken over.

`VectorIndex_proofs`. Outside mixed use, every process with an embedder has the
same one; one at `record` has dropped the vectors of another, so whatever is
there is its own or older than the record (`ReadyToRecord`); one that has
checked agrees with the record (`Recorded`). The order of the statements is
what makes this hold through a death between them. `HasWork` says that a job
that embeds has something to embed, which the least element of `First` needs.

`Installer_proofs`. First, one lemma per kind of file says how a step may change
it and which action of whom does (`ConfSteps`, `OwnSteps`, `TextSteps`,
`SkillSteps`, `SettingsSteps`, `PromiseSteps`, `TornSteps`), and one says how a
command proceeds (`JobSteps`); everything else rests on those. `ConfigFilesDiffer`,
`SkillsAreNoConfigs` and `WorkersAreNoRules` come from the tables of paths, at
both locations. Of the files to begin with, `BeginAssumption` says that what
memdag left in them is whole (`Whole`): a stamp and its SKILL.md go together, an
entry has one shape, the old one only for OpenCode, a model is pinned in memdag's
own worker files only.

For any number of commands at a time: `TypeCorrect`; `EntryInOneShape`, because
the shape that is left over is the next thing a command takes (`JobsFit`,
`OldShapeIsOpenCodes`), and a command that was not told the shape keeps the one
it finds; `ChoicesSurvive`, with `EntryInOneShape`: of a file with one shape, an
entry is merged in place, and of one with both, the move is under way or was
torn; and `ForeignFilesStayAlways`, which is
`ForeignContentStays` without the skill folders. Two installers at one skill folder
may stamp a SKILL.md that somebody else wrote in between, so the rest is for one
command at a time (`OneProcess`), which still may die or be refused anywhere,
with people editing between any two steps:

- `ForeignContent`: a stamp is the step right after its SKILL.md (`StampFollows`),
  and stamped folders are memdag's (`StampsAreMemdags`).
- `SharedFiles`: what is promised while something is uninstalled is promised to
  targets that the command found installed (`OthersAreKnown`), so it keeps their
  files. It assumes that uninstalls are told about the others
  (`UninstallsProtect`), which `memdag work uninstall` is not: run
  `install_shared`.
- `CompleteUninstall`: each target begun is clean but for the steps left
  (`CleanedSoFar`), each step cleans its part, and nothing an edit does brings a
  part back; a config that comes to be preferred has no entry, since people made it
  (`PreferredIsPeoples`). It assumes that an uninstall takes the targets as named
  (`UninstallsTakeAll`; the command line has no `uninstall --refresh`).
- `RefreshAdds`: what a refresh is still to write, the target has (`RefreshFits`);
  it had it when the refresh began with the target, or its settings mention it, and
  neither people nor the steps before take it away.
- `InstallGives`: when an install (not a refresh) ends, each of its targets has what
  was asked for (`InstallIsComplete`). Each step gives its part, and nothing after it
  takes it away again (`GivenSoFar`, `GivenStays`): worker files differ between
  targets (`WorkerFilesDiffer`), and `Migrate` keeps one of the two entries, because
  the shape it leaves has been written by then (`MovesWritten`). Not covered: the
  entry may be in a file that people have since made unreadable or put another
  before, and a skill folder with an unstamped SKILL.md stays as it is.

Only model-checked: the liveness properties (`ExpiredIsSwept`, `IndexConverges`,
`UpgradeCompletes`, `HandedOver`, `BackfillCompletes`), because they need fairness
and ENABLED, which the prover does not handle. Every other property of a passing
run is a theorem. Conversely, no run repeats the type invariants
of `MemoryGraph`, `Importer`, `WorkQueue`, `LegacyMerge` and `VectorIndex`,
`OpenMeansCurrent`, `SecondImportChangesNothing` and `InstallIsComplete`.

## 5. Where code and documentation part

Each is a run whose property states what the document says:

- `import_adr`: a row freed by a lost edge is made active although the document
  just applied says `Status: superseded` (`src/import.rs:1258`).
- `install_shared`: `memdag work uninstall` removes the block of AGENTS.md that
  another installed harness was given (`src/main.rs:518`; README.md:179).
- `legacy_two`: the claim of a running merge is put back by a second process
  when the old file's content is more than a minute old (`src/db.rs:675`;
  db.rs:444). The first then attaches a file that is gone, which creates an
  empty one, and renames that over the old database.

Seen in the model or the code, without a run of their own. The graph and its
workers:

- docs/DESIGN.md:18 calls the graph acyclic; `link_entities` accepts self-links
  and cycles (store.rs:638). Tasks that block each other all leave the ready
  queue, and no operation removes an edge.
- docs/DESIGN.md:248: a `supersedes` edge deprecates its target; one made by
  `link_entities` does not (store.rs:660).
- docs/DESIGN.md:249: `depends_on` holds a task back; `list_ready` looks at
  `blocks` only (store.rs:1605).
- A learning of kind `ephemeral` is inserted and deleted by the consolidation
  that reports it as recorded (`src/mcp.rs:538`).
- A worker that dies after the sidecar of the duplicate it resolves leaves the
  memory active with the mark beside its file (store.rs:1481). The same verdict
  submitted again finds that the mark stands, resolves the other memory instead
  (work.rs:507), and the next import hides the first: both are dropped.
  `DuplicatesKeepOne` is about rows, and does not see it.
- A worker whose row fails removes the sidecar by its name, also if people have
  meanwhile put another there (store.rs:1508).
- README.md:484: a worker's correction can be recorded against a memory that was
  superseded after the check (work.rs:367).
- README.md:496, "Each pair is judged once": after a crash between a conflict's
  task and its mark, or with two workers, a pair can get two tasks; two workers
  may drop each of two duplicates in favour of the other.

Imports:

- README.md:352: a note recorded between an import's scan and its transaction
  loses its row although its file is there. The next import of notes restores it.
- docs/adr/0005: a worktree that was not listed for a while does not get its
  claims on commits back with its next import, as its recorded HEAD is still
  there (import.rs:1213). Full imports do it.
- Two processes of one worktree can record a HEAD whose commits are not all in
  the index (import.rs:1305, 1318). So can one that dies, or whose statement fails,
  between an import's transaction and the record of its HEAD (import.rs:906, 916):
  the old HEAD stays recorded while its decisions were pruned. When the branch is
  switched back, a refresh sees nothing to do, and what comes later is read only
  from there on. A full import repairs it.
- docs/adr/0003: an edge lost with its pruned target does not come back when the
  target does, until the superseding note's own worktree imports again
  (import.rs:1131). A row that was resolved locally, superseded and freed again
  comes back active (import.rs:1263).
- `memdag import --git` records HEAD without reading notes, so the next
  automatic refresh skips notes that came with the same pull (main.rs:406).
- An import between the sidecar and the row of `resolve_memory` appends the
  resolution to the body, and the row's update appends it again (store.rs:1490).

Vectors and start-up:

- A failing identity check is reported and not made again (store.rs:213), and
  two processes with different embedders may store side by side: both leave
  vectors of two spaces in one table, which `OneSpace` excuses as `mixed`.
- A slow embedding may leave a vector of an old text, or of a memory that is
  gone, and no backfill looks for those. The comment at db.rs:105 says triggers
  see to it that none is left.
- One refused text keeps every younger memory from a backfill (store.rs:511).
- What a server of the old build writes after the copy goes to the retired file.
- Rows imported before version 3 have no origin, and builds before version 5
  insert without a claim (db.rs:388): no import prunes either.
- A newer build may migrate between this build's look at the version and its
  first statement (db.rs:281).

Installer:

- A death between SKILL.md and its stamp leaves a folder that no later command
  touches (install.rs:1108).
- An OpenCode entry that moves to the other shape (`--opencode-format`, or after
  a move that was torn) is written fresh there and then removed in its old place,
  with the settings people had put into it (install.rs:1352). README.md:185 and
  the comment at install.rs:783 promise that those stay. `ChoicesSurviveReinstall`
  states the exception (`MovesAway`).
- `installed_parts` searches the text of Claude Code's settings (install.rs:1281).
  Memdag's rules under `deny` or `ask`, or any hook ending in `hook session-start`,
  count as installed, so `install --refresh` adds approvals or a hook that nobody
  had, against README.md:188. `RefreshAddsNothing` states the exception
  (`Mentioned`).
- A hook of people's own whose command has `memdag` in it and ends in
  `hook session-start` is memdag's (install.rs:1148): an install replaces it, an
  uninstall removes it. Hooks are one flag in the model, which has no such hook.
- An OpenCode config added between install and uninstall hides the entry in the
  old one from uninstall (install.rs:301).
- A JSON config that does not parse counts as having no entry for uninstall,
  which leaves it and ends without an error (install.rs:891).
- A refusal comes after other parts were written, which stay.
- Every edit is read, change, rename, without a lock (harness.rs:305): of two
  edits at a time one is lost. The model has no such overlap: an edit is one step.

## 6. What is left out, and the plan

Abstracted in the modules above: text, tags and rendering; `import --since` and
GitHub comments (`--gh`); refusals of secrets and oversized bodies; references
other than supersedes in `Importer`; the note files of `consolidate_session`.
A document that is deleted takes its sidecar along. A scan is read at one
moment, with everything else free to happen between it and its transaction.

Out of scope: SQLite itself (transactions are atomic and serialised), FTS5,
`sqlite-vec`, git, the file system beyond atomic renames and creation; the
command line; build, benchmark and scripts.

Not modelled, though it is the program's own. Search and ranking, because it
only reads: one query and arithmetic on floating-point scores. The MCP server,
because it handles one request at a time and its only state is when it last
refreshed; `Importer` lets a refresh happen at any time. Provenance beyond what
`MemoryGraph` has (whether cited files changed). `next_batch` and its starvation
by `unsure` answers: a batch is the first stale memories, and answers of
`unsure` leave them there.

Planned, in this order:

1. `WorkQueue`: `next_batch`.
2. `Importer`: `consolidate_session` with its files, and the theorems about them.
3. `NoteFile`: creation with and without hard links, under crashes (notes.rs:467).
4. `McpServer`: requests, notifications, the throttled refresh.
5. `Ranking` and `Provenance`: rank fusion and batched staleness as functions,
   against reference definitions.

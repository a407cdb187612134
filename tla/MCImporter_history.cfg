\* One process: commits, amends, branch switches, and an ADR that another one, sometimes unreadable, supersedes.
CONSTANTS
  n1 = n1  n2 = n2  a1 = a1  a2 = a2  c0 = c0  c1 = c1  c2 = c2
  w1 = w1  w2 = w2  p1 = p1  p2 = p2
  Ids = {c0, c1, a1, a2}
  SourceOf <- SourceOfId
  Worktrees = {w1}
  Procs = {p1}
  Home <- OneHome
  Commits = {c0, c1, c2}
  History <- TwoBranches
  Docs <- Adrs
  Modes = {"auto", "full", "git"}
  Failures = {{}, {"adr"}, {"git"}}
  NoRow = NoRow  NoDoc = NoDoc  NoId = NoId  NoCommit = NoCommit  Idle = Idle
SPECIFICATION FairImportsSpec
INVARIANTS RecordedHeadIsIndexed
PROPERTIES IndexConverges
CHECK_DEADLOCK FALSE

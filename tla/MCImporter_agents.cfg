\* Every action: two processes of one worktree import, record, resolve and die at any moment.
CONSTANTS
  n1 = n1  n2 = n2  a1 = a1  a2 = a2  c0 = c0  c1 = c1  c2 = c2
  w1 = w1  w2 = w2  p1 = p1  p2 = p2
  Ids = {n1, c0}
  SourceOf <- SourceOfId
  Worktrees = {w1}
  Procs = {p1, p2}
  Home <- OneHome
  Commits = {c0}
  History <- OneCommit
  Docs <- Resolved
  Modes = {"full", "files"}
  Failures = {{}, {"note"}, {"git"}}
  NoRow = NoRow  NoDoc = NoDoc  NoId = NoId  NoCommit = NoCommit  Idle = Idle
SPECIFICATION Spec
SYMMETRY ProcSymmetry
INVARIANTS SourcedRowsAreOwned
PROPERTIES FullImportIsExact
CHECK_DEADLOCK FALSE

\* Worktrees come and go while both import; a note that may supersede another.
CONSTANTS
  n1 = n1  n2 = n2  a1 = a1  a2 = a2  c0 = c0  c1 = c1  c2 = c2
  w1 = w1  w2 = w2  p1 = p1  p2 = p2
  Ids = {n1, n2}
  SourceOf <- SourceOfId
  Worktrees = {w1, w2}
  Procs = {p1, p2}
  Home <- HomePerProc
  Commits = {}
  History <- NoHistory
  Docs <- Notes
  Modes = {"files"}
  Failures = {{}, {"note"}, {"worktrees"}}
  NoRow = NoRow  NoDoc = NoDoc  NoId = NoId  NoCommit = NoCommit  Idle = Idle
SPECIFICATION WorktreeSpec
SYMMETRY SideSymmetry
INVARIANTS EdgesJoinStoredRows SupersededIsExplained
PROPERTIES ImplementsOwnedIndex
CHECK_DEADLOCK FALSE

\* An ADR whose superseder's file is deleted shows as active although it says superseded.
CONSTANTS
  n1 = n1  n2 = n2  a1 = a1  a2 = a2  c0 = c0  c1 = c1  c2 = c2
  w1 = w1  w2 = w2  p1 = p1  p2 = p2
  Ids = {a1, a2}
  SourceOf <- SourceOfId
  Worktrees = {w1}
  Procs = {p1}
  Home <- OneHome
  Commits = {c0}
  History <- OneCommit
  Docs <- Adrs
  Modes = {"full"}
  Failures = {{}}
  NoRow = NoRow  NoDoc = NoDoc  NoId = NoId  NoCommit = NoCommit  Idle = Idle
SPECIFICATION ImportsSpec
INVARIANTS RetiredAdrsStayRetired
CHECK_DEADLOCK FALSE

SPECIFICATION Spec
CONSTANTS
  Procs = {p1, p2}
  Claims = {c1, c2}
  Ids <- MCIds
  Direct <- MCDirect
  Edges <- MCEdges
  MaxFailures = 0
INVARIANT ClaimedByOne
CHECK_DEADLOCK FALSE

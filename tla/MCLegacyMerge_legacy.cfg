SPECIFICATION FairSpec
CONSTANTS
  Procs = {p1, p2}
  Claims = {c1, c2}
  Ids <- MCIds
  Direct <- MCDirect
  Edges <- MCEdges
  MaxFailures = 1
INVARIANTS NothingLost MergedMeansCopied
PROPERTY HandedOver
CHECK_DEADLOCK FALSE

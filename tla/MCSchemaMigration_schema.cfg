SPECIFICATION FairSpec
CONSTANTS
  Procs = {p1, p2}
  Ids = {1, 2}
  Edges <- MCEdges
  FirstVersions = {0, 1, 2, 3, 4, 5, 6, 7}
  OldBuilds = {0, 3, 4}
  MaxFailures = 1
INVARIANTS TypeOK SchemaMatchesVersion IndexIsExact
PROPERTIES VectorsGoWithTheirRows NeverBackwards DataSurvives UpgradeCompletes
CHECK_DEADLOCK FALSE

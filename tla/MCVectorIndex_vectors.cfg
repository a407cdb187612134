\* Two processes that may change their embedder, two memories, one text that is refused.
CONSTANTS
  Ids <- MCIds
  Sourced <- MCSourced
  Texts = {plain, refused}
  Refused = {refused}
  Embedders = {e1, e2}
  Procs = {p1, p2}
  Limits = {2}
  MaxFailures = 1
  NoRow = NoRow  NoVec = NoVec  NoEmbedder = NoEmbedder  Unknown = Unknown
SPECIFICATION FairSpec
INVARIANTS OneSpace
PROPERTIES OnlySlowEmbeddingsAreWrong BackfillCompletes
CHECK_DEADLOCK FALSE

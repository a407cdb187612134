\* One submitting process that may die anywhere, among agents.
CONSTANTS
  Ids = {1, 2, 3}
  Kinds = {"decision"}
  Sessions = {}
  LinkTypes = {}
  CitesAtBirth = {"current"}
  MaxLearnings = 0
  MaxRelations = 2
  NoRow = NoRow
  NoId = 0
  NoSession = NoSession
  Origin <- OneOfEach
  Workers = {w1}
  Mortal = {w1}
  Worded = {2}
  Edited = {1, 2, 3}
  Retired = {1}
  Moves = {"absent"}
  Idle = Idle
  NoVerdict = NoVerdict
SPECIFICATION Spec
INVARIANTS VerdictsAreCarriedOut ResolutionsPersist DuplicatesKeepOne ReplacedOnce
PROPERTIES ImplementsGraph
CHECK_DEADLOCK FALSE

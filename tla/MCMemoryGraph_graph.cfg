\* Every operation in every order, under a fair sweep, over two memories.
CONSTANTS
  Ids = {m1, m2}
  Kinds = {"task", "decision", "ephemeral"}
  Sessions = {s1}
  LinkTypes = {"blocks"}
  CitesAtBirth = {"none", "current"}
  MaxLearnings = 1
  MaxRelations = 2
  NoRow = NoRow
  NoId = NoId
  NoSession = NoSession
SPECIFICATION FairSpec
INVARIANTS NoDanglingReferences ScratchNeverActive SupersededIsExplained
PROPERTIES NoZombies DurableKnowledgeSurvives ReadyUntilSettledOrBlocked ExpiredIsSwept
CHECK_DEADLOCK FALSE

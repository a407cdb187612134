SPECIFICATION Spec
CONSTANTS
  Targets <- MCTargets
  Location = "project"
  Procs = {p1}
  Commands <- MCCommands
  Edits = {"customise", "pin", "break", "fix", "shadow", "write", "mention"}
  Begin <- MCBegin
  Links <- OneLink
  MaxCommands = 3
  MaxEdits = 1
INVARIANTS TypeOK SharedFilesStay DefinedOnce
PROPERTIES UninstallIsComplete RefreshAddsNothing ForeignContentStays ChoicesSurviveReinstall
CHECK_DEADLOCK FALSE

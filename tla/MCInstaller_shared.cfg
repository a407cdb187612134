SPECIFICATION Spec
CONSTANTS
  Targets = {"opencode", "codex"}
  Location = "project"
  Procs = {p1}
  Commands <- SharedCommands
  Edits = {}
  Begin <- OnlyNoFiles
  Links = {}
  MaxCommands = 3
  MaxEdits = 0
INVARIANT SharedFilesStay
CHECK_DEADLOCK FALSE

\* Two commands that read lines or go on for ever, and an abort between the request for a
\* line and the wait for it.
SPECIFICATION Spec
CONSTANTS
  None = None
  Kinds = {"reads", "loops"}
  MaxCommands = 2
  MaxAborts = 1
  MaxReads = 2
  MayClose = TRUE
PROPERTIES
  ExitEnds
CHECK_DEADLOCK FALSE

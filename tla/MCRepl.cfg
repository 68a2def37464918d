\* Three commands of every kind, two aborts, lines and the end of the window.
SPECIFICATION Spec
CONSTANTS
  None = None
  Kinds = {"returns", "raises", "exits", "reads", "loops"}
  MaxCommands = 3
  MaxAborts = 2
  MaxReads = 3
  MayClose = TRUE
INVARIANTS
  SendsAreWhole
  ReportsMatch
  LinesMatch
PROPERTIES
  RequestsEnd
CHECK_DEADLOCK FALSE

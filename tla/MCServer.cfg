\* Two edits of a document and a wait, a limit small enough to be met, and Dispose.
SPECIFICATION Spec
CONSTANTS
  j1 = j1
  j2 = j2
  d1 = d1
  Jobs = {j1, j2}
  Docs = {d1}
  Doc <- MCOneDoc
  ParseOnly = {}
  Waiters = {w1}
  QueueLimit = 1
  MayDispose = TRUE
  None = None
INVARIANTS
  TypeOK
  OneCounterPerDocument
PROPERTIES
  WaitIsHonest
  EditsAreAnalyzed
  WaitsEnd
CHECK_DEADLOCK FALSE

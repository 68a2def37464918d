\* Two edits, also ones that replace the text or open the document again, and a
\* parse nobody edited for.
SPECIFICATION Spec
CONSTANTS
  Tasks = {t1, t2, t3}
  Editors = {t1, t2}
  Readers = {r1}
  EditKinds = {"open", "change", "replace"}
  MaxVersion = 1
  None = None
INVARIANTS
  ParsesDoNotOverlap
  EditIsCovered
  ClearedCookieSuffices
  NewestParseStays
PROPERTIES
  EveryParseEnds
  ReadersReturn
CHECK_DEADLOCK FALSE

SPECIFICATION Spec
CONSTANTS
  Tasks = {t1, t2, t3}
  Editors = {t1, t2}
  Readers = {r1}
  EditKinds = {"open", "change", "replace", "close"}
  MaxVersion = 1
  None = None
PROPERTIES
  WaitReturnsUpToDate
CHECK_DEADLOCK FALSE

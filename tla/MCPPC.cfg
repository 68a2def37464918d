\* The queue as AnalysisQueue uses it: no duplicates, no token of the caller.
SPECIFICATION Spec
CONSTANTS
  i1 = i1
  i2 = i2
  i3 = i3
  i4 = i4
  k1 = k1
  k2 = k2
  Items = {i1, i2, i3}
  Keys = {k1, k2}
  Key <- MCKey
  Calls = {c1, c2}
  TokenCalls = {c2}
  MaxPriority = 3
  ExcludeDuplicates = TRUE
  NoItem = NoItem
INVARIANTS
  TypeOK
  FirstAvailableIsMin
  PendingOnlyWhenEmpty
  AtMostOnePerKey
  EachItemInOnePlace
  OneLossPerCancellation
PROPERTIES
  NeverDemoted
  DisposeEndsCalls
  ImplementsPriorityQueue
CHECK_DEADLOCK FALSE

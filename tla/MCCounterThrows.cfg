SPECIFICATION Spec
CONSTANTS
  v1 = v1
  v2 = v2
  v3 = v3
  v4 = v4
  Workers = {w1}
  Waiters = {v1}
  Kind <- MCKind
  None = None
  CompletedTask = CompletedTask
INVARIANTS
  DecrementReturns
CHECK_DEADLOCK FALSE

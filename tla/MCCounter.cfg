\* Two scopes and one call of each wait but two of WaitForZeroAsync.
SPECIFICATION Spec
CONSTANTS
  v1 = v1
  v2 = v2
  v3 = v3
  v4 = v4
  Workers = {w1, w2}
  Waiters = {v1, v2, v3}
  Kind <- MCKind
  None = None
  CompletedTask = CompletedTask
INVARIANTS
  CountIsOutstanding
  NoLostWakeup
  EarlyOnlyWhenShared
PROPERTIES
  ZeroWaitsEnd
CHECK_DEADLOCK FALSE

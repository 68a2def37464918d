\* Work that is never disposed: entries merging, grouped, and a function behind them.
SPECIFICATION Spec
CONSTANTS
  a1 = a1
  a2 = a2
  b1 = b1
  r1 = r1
  x1 = x1
  n1 = n1
  a = a
  b = b
  r = r
  g = g
  Calls = {a1, a2, b1, x1}
  ExecCalls = {x1}
  NestedCalls = {}
  Entry <- MCEntry
  Group <- MCGroup
  Disposers = {}
  MayThrow = FALSE
  LowestPriority = 2
  None = None
INVARIANTS
  GroupScheduledOnce
  CompleteMeansAnalyzed
  WaitCoversEarlier
PROPERTIES
  EntriesAreAnalyzed
CHECK_DEADLOCK FALSE

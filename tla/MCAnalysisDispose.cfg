\* Failing handlers, nested functions and Dispose at any moment.
SPECIFICATION Spec
CONSTANTS
  a1 = a1
  a2 = a2
  b1 = b1
  r1 = r1
  x1 = x1
  n1 = n1
  a = a
  b = b
  r = r
  g = g
  Calls = {a1, r1, x1, n1}
  ExecCalls = {x1, n1}
  NestedCalls = {n1}
  Entry <- MCEntry
  Group <- MCGroup
  Disposers = {d1}
  MayThrow = TRUE
  LowestPriority = 2
  None = None
PROPERTIES
  FunctionsEnd
  DisposeReturns
CHECK_DEADLOCK FALSE

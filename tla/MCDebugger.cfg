\* Two threads with every kind of stop and every request.
SPECIFICATION Spec
CONSTANTS
  Threads = {t1, t2}
  Loop = Loop
  None = None
  Requests = {"breakAll", "continue", "step", "evaluate", "detach"}
  Stops = {"breakpoint", "tracepoint", "removed"}
  MaxRequests = 2
  MaxHits = 1
INVARIANTS
  NoStopUnseen
PROPERTIES
  ReasonComesFirst
  RequestsAreAnswered
  LoopReturns
  DetachFrees
CHECK_DEADLOCK FALSE

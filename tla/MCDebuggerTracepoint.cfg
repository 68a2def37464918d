\* One thread stops at a breakpoint, steps, and meets a tracepoint.
SPECIFICATION Spec
CONSTANTS
  Threads = {t1}
  Loop = Loop
  None = None
  Requests = {"step"}
  Stops = {"breakpoint", "tracepoint"}
  MaxRequests = 1
  MaxHits = 2
PROPERTIES
  StepsEnd
CHECK_DEADLOCK FALSE

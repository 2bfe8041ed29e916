CONSTANTS
  c1 = c1
  c2 = c2
  Callers = {c1, c2}
  NThreads = 2
  MaxCalls = 2
  NChunks = 2
  MaxEpoch = 3
  Exclusive = FALSE
  StaleParked = FALSE
  Panics = {}
SPECIFICATION Spec
INVARIANT ClosureAlive
CHECK_DEADLOCK FALSE

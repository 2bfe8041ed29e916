CONSTANTS
  c1 = c1
  c2 = c2
  Callers = {c1, c2}
  NThreads = 2
  MaxCalls = 2
  NChunks = 2
  MaxEpoch = 3
  Exclusive = TRUE
  StaleParked = TRUE
  Panics = {}
SPECIFICATION Spec
INVARIANT NoSleepThroughEpoch
CHECK_DEADLOCK FALSE

CONSTANTS
  c1 = c1
  Callers = {c1}
  NThreads = 3
  MaxCalls = 2
  NChunks = 2
  MaxEpoch = 1
  Exclusive = TRUE
  StaleParked = TRUE
  Panics = {}
SPECIFICATION FairSpec
PROPERTIES EveryCallReturns WorkersLeave
CHECK_DEADLOCK FALSE

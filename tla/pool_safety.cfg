CONSTANTS
  c1 = c1
  c2 = c2
  Callers = {c1, c2}
  NThreads = 3
  MaxCalls = 3
  NChunks = 3
  MaxEpoch = 1
  Exclusive = TRUE
  StaleParked = FALSE
  Panics = {"worker", "caller", "puller"}
SPECIFICATION Spec
SYMMETRY CallerSymmetry
INVARIANTS TypeOK ParkedIsExact ClosureAlive ItemsRunOnce NoSleepThroughEpoch
PROPERTIES CallStableWhileEngaged ImplementsForkJoin
CHECK_DEADLOCK FALSE

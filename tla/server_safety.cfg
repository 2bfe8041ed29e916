CONSTANTS
  r1 = r1
  r2 = r2
  Ids = {r1, r2}
  Wants <- TextAndJobs
  Sizes = {1, 2}
  MaxRecords = 1
  MaxBytes = 3
  TTL = 1
  MaxTime = 1
  ChanCap = 1
  MaxTokens = 2
  Panics = TRUE
SPECIFICATION Spec
SYMMETRY RequestSymmetry
INVARIANTS TypeOK OneGeneration ToldMatchesStore StreamEndsInOutcome AnsweredMeansFree
PROPERTY ImplementsSingleSlot
CHECK_DEADLOCK FALSE

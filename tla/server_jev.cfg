CONSTANTS
  r1 = r1
  r2 = r2
  Ids = {r1, r2}
  Wants <- WithJev
  Sizes = {1, 2}
  MaxRecords = 1
  MaxBytes = 3
  TTL = 1
  MaxTime = 1
  ChanCap = 1
  MaxTokens = 1
  Panics = TRUE
SPECIFICATION Spec
INVARIANT OneModelUser
CHECK_DEADLOCK FALSE

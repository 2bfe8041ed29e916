CONSTANTS
  r1 = r1
  r2 = r2
  r3 = r3
  r4 = r4
  Ids = {r1, r2, r3, r4}
  Sizes = {1, 2, 3, 7}
  MaxRecords = 3
  MaxBytes = 6
  TTL = 2
  MaxTime = 5
SPECIFICATION StoreSpec
SYMMETRY IdSymmetry
INVARIANTS StoreTypeOK StoreConsistent
PROPERTY EvictsOnlyWhatItMust
CHECK_DEADLOCK FALSE

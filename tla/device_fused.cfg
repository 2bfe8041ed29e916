CONSTANTS
  b1 = b1
  b2 = b2
  a1 = a1
  v1 = v1
  t0 = t0
  t1 = t1
  None = None
  Threads = {t0}
  Buffers = {b1, b2}
  Addrs = {a1}
  Versions = {v1}
  Leader = t0
  Workers = {t1}
  Products = 2
SPECIFICATION Spec
SYMMETRY BufferSymmetry
INVARIANT RowsCompleteAlone
CHECK_DEADLOCK FALSE

CONSTANTS
  b1 = b1
  b2 = b2
  b3 = b3
  b4 = b4
  a1 = a1
  v1 = v1
  v2 = v2
  s1 = s1
  t0 = t0
  t1 = t1
  None = None
  Threads = {t0, s1}
  Buffers = {b1, b2, b3, b4}
  Addrs = {a1}
  Versions = {v1, v2}
  Leader = t0
  Workers = {t1}
  Products = 1
SPECIFICATION Spec
SYMMETRY BufferSymmetry
INVARIANTS TypeOK DeviceBuffersLive RecordedWhileIdle WeightsAreCurrent ShutdownIsFinal RowsCompleteAlone
PROPERTY LeaksOnlyInDoubt
CHECK_DEADLOCK FALSE

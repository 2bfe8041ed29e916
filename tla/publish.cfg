SPECIFICATION Spec
CONSTANTS
  e1 = e1
  e2 = e2
  e3 = e3
  Exporters = {e1, e2, e3}
  Overwriters = {e2}
  Pid <- MCPid
  MaxId = 1
  MaxFaults = 2
  Prior = Prior
  Foreign = Foreign
  Absent = Absent
INVARIANTS TypeOK OutputWhole SuccessIsDurable NoLitter
PROPERTIES OthersFilesKept MappedPackageStable ImplementsAtomicPublish
CHECK_DEADLOCK FALSE

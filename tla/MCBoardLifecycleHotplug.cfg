\* The device is removed at any time.
CONSTANTS
  f1 = f1
  f2 = f2
  NoFile = NoFile
  Files = {f1, f2}
  PowerMode = TRUE
  Contract = {}
SPECIFICATION Spec
INVARIANTS
  OperationsFindDevice
CHECK_DEADLOCK FALSE

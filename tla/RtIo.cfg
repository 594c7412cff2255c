SPECIFICATION Spec
CONSTANTS
  Capacity = 2
  OSHandle = {4, 8, 12}
  Files = {"f"}
  MaxLen = 2
  Byte = {0, 1}
  Lengths = {0, 2}
  DwordMax = 1
  StdIn = 4
  StdOut = 8
  StdErr = 65535
INVARIANT HandlesOwned
PROPERTY ImplementsContract
CHECK_DEADLOCK FALSE

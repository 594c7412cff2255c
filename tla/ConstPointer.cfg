CONSTANTS
  HostBits = 6
  NarrowBits = 3
  Evaluate <- EvaluateEntry
  LocateArith <- ArithEntry
  LocateRec <- RecEntry
  TypeOf <- TypeEntry
INIT PointerInit
NEXT Next
CHECK_DEADLOCK FALSE
INVARIANT PointerCastKeeps

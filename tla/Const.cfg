CONSTANTS
  HostBits = 6
  NarrowBits = 3
  Evaluate <- EvaluateEntry
  LocateArith <- ArithEntry
  LocateRec <- RecEntry
  TypeOf <- TypeEntry
INIT Init
NEXT Next
CHECK_DEADLOCK FALSE
INVARIANTS
  LayoutSound
  PassesAgree
  BlameTrue
  ValuesExact
  CyclesRejected

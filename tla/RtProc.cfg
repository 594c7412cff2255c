SPECIFICATION MCSpec
CONSTANTS
  MaxUnits = 5
  Lines <- AllLines
  Arguments <- SmallArguments
  SliceCaps = {1, 3}
  DataCaps = {1, 4, 15}
  UnitCaps = {5, 20}
  MaxMessage = 4
  Messages <- SmallMessages
  Char = {"a", "b"}
  Codes = {7}
  MaxRecords = 1
INVARIANTS SplitExact BuffersHold MessagesFaithful
PROPERTIES Terminates
CHECK_DEADLOCK FALSE

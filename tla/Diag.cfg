SPECIFICATION MCSpec
CONSTANTS
  Codes = {"AIC-L0001", "AIC-U0000"}
  U32Max = 0
  TrapCodes = {0, 1}
  ExitCodes = {0}
  KvLists = {"related"}
  MaxItems = 1
  MaxLines = 1
  SizeMax = 63
  FirstCap = 4
  Lengths = {0, 1, 2, 3, 7, 15, 28, 31, 59, 62, 63}
INVARIANTS BlocksReached
PROPERTIES LinesSound AppendsWhole LoopEnds
CHECK_DEADLOCK FALSE

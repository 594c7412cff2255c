SPECIFICATION Spec
CONSTANTS
  Capacity = 3
  OSHandle = {4, 8, 12, 16}
  Files = {"f"}
  MaxLen = 0
  Byte = {0}
  Lengths = {1}
  DwordMax = 1
  StdIn = 4
  StdOut = 8
  StdErr = 65535
PROPERTIES StreamCallAnswersStream
CHECK_DEADLOCK FALSE

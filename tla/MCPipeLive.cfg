CONSTANTS
  Writer = {w1}
  Reader = {r1}
  None = None
  Byte = {a}
  PIPESIZE = 2
  UMOD = 4
  MaxN = 3
SPECIFICATION LiveSpec
CHECK_DEADLOCK FALSE
PROPERTIES EndOfFile WriteReturns

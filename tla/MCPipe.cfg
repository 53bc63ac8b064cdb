CONSTANTS
  Writer = {w1, w2}
  Reader = {r1}
  None = None
  Byte = {a, b}
  PIPESIZE = 2
  UMOD = 4
  MaxN = 3
SPECIFICATION Spec
CHECK_DEADLOCK FALSE
INVARIANTS NoLostWakeup NoUseAfterFree
PROPERTY ImplementsFifo

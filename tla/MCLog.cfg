CONSTANTS
  Op = {o1, o2}
  Block = {b1, b2, b3, b4}
  Val = {0, 1}
  MAXOPBLOCKS = 2
  OpBlocks = 1
  LOGBLOCKS = 4
SPECIFICATION LiveSpec
INVARIANT NoPanic
PROPERTIES ImplementsAtomicDisk OpStarts

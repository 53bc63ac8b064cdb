SPECIFICATION LiveSpec
CONSTANTS
    Hart = {h1, h2}
    Proc = {p1, p2}
    None = None
    Bytes = 3
    Depth = 3
    MaxSync = 3
    MaxRx = 2
CHECK_DEADLOCK FALSE
INVARIANTS
    IntrComes
    NoOverrun
PROPERTY
    WriteDone

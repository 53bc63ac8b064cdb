SPECIFICATION Spec
CONSTANTS
    Use = {p1, p2}
    Block = {k1, k2, k3, k4}
    Val = {0, 1}
    None = None
    NBUF = 3
    MaxPins = 2
SYMMETRY BioSymmetry
INVARIANT PanicOnlyFull
PROPERTY ImplementsBlocks
CHECK_DEADLOCK FALSE

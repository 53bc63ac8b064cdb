SPECIFICATION Spec
CONSTANTS
    Proc = {p1, p2}
    None = None
    Name = {a, b}
    NInum = 2
    NINODE = 2
    MaxLink = 4
    MaxCrash = 1
SYMMETRY InodeSymmetry
INVARIANTS IputNoBlock NotFreed DiskConsistent

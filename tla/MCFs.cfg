SPECIFICATION Spec
CONSTANTS
    Proc = {p1, p2}
    File = {f1, f2}
    NInum = 4
    NBlock = 8
    BSIZE = 2
    NDIRECT = 2
    DIRSIZ = 2
    MAXOPBLOCKS = 6
    MaxCalls = 4
    NINODE = 3
    Images <- MCImages
    Calls <- MCCalls
INVARIANTS
    NoPanic
    BlocksExact
    TransFits
PROPERTY
    ImplementsFiles
CHECK_DEADLOCK FALSE
SYMMETRY Sym

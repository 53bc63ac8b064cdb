SPECIFICATION Spec
CONSTANTS
    NPROC = 2
    NFILE = 3
    NOFILE = 2
    Pipe = {k1}
    Inode = {n1, n2}
    Null = Null
    MaxRef = 3
SYMMETRY FilesSymmetry
CHECK_DEADLOCK FALSE
INVARIANTS RefsCover PipeEnds InodesHeld

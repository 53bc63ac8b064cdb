SPECIFICATION Spec
CONSTANTS
    NPROC = 2
    NFILE = 3
    NOFILE = 2
    Pipe = {k1}
    Inode = {n1}
    Null = Null
    MaxRef = 3
CHECK_DEADLOCK FALSE
INVARIANT ReleasedByWait
PROPERTY CopiesParent

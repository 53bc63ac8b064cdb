SPECIFICATION Spec
CONSTANTS
    NPROC = 3
    NPages = 8
    PGSIZE = 2
    MaxPg = 2
    Amount <- Amounts
    Program <- Programs
    Stack = 1
    MAXARG = 2
    MaxBusy = 2
INVARIANT
    ForkReturns
PROPERTY
    FaultKills

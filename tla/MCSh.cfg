SPECIFICATION LiveSpec
CONSTANTS
    MAXARGS = 3
    Key <- MCKey
    MaxLine = 4
    MaxCmds = 2
    RunLines <- MCRunLines
    NBUF = 9
    NPROC = 5
    NOFILE = 6
INVARIANTS
    ParseRight
    Wired
    InOrder
PROPERTY
    PromptReturns
CHECK_DEADLOCK FALSE

SPECIFICATION Spec
CONSTANTS
    Reader = {p1, p2}
    None = None
    Char = {a, nl, eot}
    NL = nl
    EOT = eot
    INPUT_BUF_SIZE = 3
    UMOD = 6
    MaxRead = 2
SYMMETRY ConsoleSymmetry
INVARIANTS
    NoLostWakeup
PROPERTY
    ImplementsTerminal

CONSTANTS
    LogThreads = {t1, t2}
    Worker = t1
    Other = t2
    Addrs = {a1, a2, a3}
    LogSizes = {1, 2}
    LogProg <- MCProg
    MoveAnywhere = TRUE

SPECIFICATION LogSpec
INVARIANT HeldIsAllocated
SYMMETRY Symmetry

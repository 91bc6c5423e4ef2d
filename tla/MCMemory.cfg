CONSTANTS
    Threads = {t1, t2}
    Worker = t1
    Server = t2
    Sizes = {1, 4}
    Listed = {1}
    Hdr = 1
    BlockCap = 4
    MaxBlocks = 2
    MaxObjs = 2
    Prog <- MCProg
    CrossDrop = FALSE
    LogThreads = {t1, t2}
    Addrs = {a1, a2, a3}
    LogSizes = {1, 2}
    LogProg <- LongLog
    MoveAnywhere = FALSE
    LinkThreads = {t1, t2}
    Worlds = {w1, w2, w3, w4}
    MaxDepth = 1
    MaxSteps = 3
    MaxRaces = 1

SPECIFICATION MemorySpec
INVARIANT ArenaSound
INVARIANT Telemetry
INVARIANT LogSound
INVARIANT Accounting
INVARIANT LinksSound
INVARIANT SomeFreeable
SYMMETRY Symmetry
\* The process ends when a rewind or a persist bracket is refused.
CHECK_DEADLOCK FALSE

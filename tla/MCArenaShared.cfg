CONSTANTS
    Threads = {t1, t2}
    Worker = t1
    Server = t2
    Sizes = {1, 2, 4}
    Listed = {1, 2}
    Hdr = 1
    BlockCap = 4
    MaxBlocks = 2
    MaxObjs = 2
    Prog <- SharedProg
    CrossDrop = TRUE

SPECIFICATION Spec
INVARIANT NoTwoOwners
\* The process ends when a rewind or a persist bracket is refused.
CHECK_DEADLOCK FALSE

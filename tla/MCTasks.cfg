CONSTANTS
    Threads = {t1, t2, t3}
    Nobody = Nobody
    MaxDepth = 1
    Leaks = TRUE
    Handles = {1, 2, 3}
    a = a
    b = b
    Callers = {a, b}
    Plan <- MixedPlan
    Inputs <- MCInputs
    Widths <- MCWidths
    fn <- Square
    MaxWorkers = 3
    Waiters = {a, b}
    Sigs = {0, 2, 15, 64}
    MaxNaps = 2

SPECIFICATION TasksSpec
\* Handles and pool_map come to an end.
CHECK_DEADLOCK FALSE
INVARIANT TypeOK
INVARIANT MutualExclusion
INVARIANT NoSelfDeadlock
INVARIANT OneOwnerFrees
INVARIANT JoinReadsResult
INVARIANT JobsAccounted
INVARIANT OrderPreserved
INVARIANT WaitTellsTheSignal
PROPERTY MutexIsGranted
PROPERTY HandleIsFreed
PROPERTY PoolReturns
PROPERTY SignalEndsWait

CONSTANTS
    Handles = {1}
    a = a
    b = b
    Callers = {a, b}
    Plan <- DetachPlan

SPECIFICATION HandleSpec
CHECK_DEADLOCK FALSE
INVARIANT NoUseAfterFree

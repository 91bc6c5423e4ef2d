------------------------------ MODULE MCTasks ------------------------------
(***************************************************************************)
(* The !Par builtins beside the channels, one at a time: a behaviour is    *)
(* one of the mutex, of join handles, of pool_map or of the signal slot,   *)
(* and the other three rest in an initial state.                           *)
(***************************************************************************)
EXTENDS Mutex, JoinHandle, PoolMap, Signals

CONSTANTS a, b

\* One call per handle: the first is joined, the second detached, the third joined by
\* the thread that detaches.  Any of them may be a go_bg handle instead.
MixedPlan == [h \in Handles |->
    CASE h = 1 -> {<<a, "join">>} [] h = 2 -> {<<b, "detach">>} [] OTHER -> {<<b, "join">>}]

\* pool_map on vectors of 0 to 3 elements and worker counts from below the
\* clamp (0) to above it (4).
MCInputs == {<< >>, <<5>>, <<5, 6>>, <<7, 5, 6>>}
MCWidths == {0, 2, 4}
Square(x) == x * x

VARIABLE which

ASSUME HandleAssumption /\ OneCallPerHandle /\ PoolAssumption

all == <<which, vars, handleVars, poolVars, signalsVars>>

TasksInit == /\ which \in {"mutex", "handle", "pool", "signal"}
             /\ Init /\ HandleInit /\ PoolInit /\ SignalsInit
             /\ which # "mutex" => owner = CHOOSE t \in Threads : TRUE
             /\ which # "pool" => in = << >> /\ nw = 0

MutexOnly(A) == which = "mutex" /\ A /\ UNCHANGED <<which, handleVars, poolVars, signalsVars>>
HandleOnly(A) == which = "handle" /\ A /\ UNCHANGED <<which, vars, poolVars, signalsVars>>
PoolOnly(A) == which = "pool" /\ A /\ UNCHANGED <<which, vars, handleVars, signalsVars>>
SignalOnly(A) == which = "signal" /\ A /\ UNCHANGED <<which, vars, handleVars, poolVars>>

TasksNext == MutexOnly(Next) \/ HandleOnly(HandleNext) \/ PoolOnly(PoolNext)
                \/ SignalOnly(SignalsNext)

\* The fairness of each part; for the signals, a thread inside a call runs on.
TasksFairness ==
    /\ \A t \in Threads : WF_all(MutexOnly(Inside(t))) /\ WF_all(MutexOnly(CallUnlock(t)))
    /\ \A h \in Handles : WF_all(HandleOnly(TaskStep(h)))
    /\ \A t \in Callers : WF_all(HandleOnly(CallStep(t)))
    /\ WF_all(PoolOnly(Caller)) /\ \A w \in Workers : WF_all(PoolOnly(Worker(w)))
    /\ \A t \in Waiters : WF_all(SignalOnly(WaitStep(t)))

TasksSpec == TasksInit /\ [][TasksNext]_all /\ TasksFairness

-----------------------------------------------------------------------------

\* pool_map returns.
PoolReturns == [](which = "pool") => Terminates
=============================================================================

----------------------------- MODULE JoinHandle -----------------------------
(***************************************************************************)
(* The handle of a !Par task (baga_JoinHandle): go, go_bg, join, detach    *)
(* and the trampoline the new OS thread starts in.  A handle is one calloc *)
(* block shared by the task and by whoever holds its address; the field    *)
(* `detached' (0 joinable, 1 detach requested, 2 finished) decides which   *)
(* of them frees it.                                                       *)
(*                                                                         *)
(* A call is cut where another thread can see or change something: at each *)
(* access to the block and at each pthread call.  An access to a block     *)
(* that is already free, and a pthread_join or pthread_detach of a thread  *)
(* that is not joinable, are undefined behaviour: the model stops there    *)
(* with status = "fault".                                                  *)
(***************************************************************************)
EXTENDS Naturals, FiniteSets

CONSTANTS Handles,   \* the (non-NULL) blocks calloc can return
          Callers,   \* the threads that call join and detach
          Plan       \* Plan[h]: the calls <<t, op>> the program makes on h,
                     \* each at most once

\* What the constants are assumed to be: 0 is the NULL handle.
HandleAssumption == /\ 0 \notin Handles
                    /\ Plan \in [Handles -> SUBSET (Callers \X {"join", "detach"})]

\* A program that makes at most one call on each handle.
OneCallPerHandle == \A h \in Handles : \A c, d \in Plan[h] : c = d

VARIABLES
    heap,       \* "unused", "live" or "freed"
    detached,   \* the field of the same name
    joined,     \* the field of the same name
    result,     \* has the worker's result been stored?
    task,       \* where the trampoline of the handle's thread is
    os,         \* the pthread: "none", "joinable", "joined" or "detached"
    left,       \* the calls of Plan not made yet
    hpc, arg,    \* where each caller is, and the handle it works on
    status      \* "run", "exit" (the runtime called exit) or "fault"

handleVars == <<heap, detached, joined, result, task, os, left, hpc, arg, status>>
block == <<heap, detached, joined, result>>
none == 0   \* the NULL handle, on which join and detach return at once

HandleInit == /\ heap = [h \in Handles |-> "unused"]
              /\ detached = [h \in Handles |-> 0]
              /\ joined = [h \in Handles |-> FALSE]
              /\ result = [h \in Handles |-> FALSE]
              /\ task = [h \in Handles |-> "none"]
              /\ os = [h \in Handles |-> "none"]
              /\ left = [h \in Handles |-> {}]
              /\ hpc = [t \in Callers |-> "idle"]
              /\ arg = [t \in Callers |-> none]
              /\ status = "run"

-----------------------------------------------------------------------------
Free(h) == heap' = [heap EXCEPT ![h] = "freed"]

HandleGoto(t, l) == hpc' = [hpc EXCEPT ![t] = l]

Done(t) == /\ HandleGoto(t, "idle")
           /\ arg' = [arg EXCEPT ![t] = none]

(* go: a joinable thread; its handle is returned, so calls may be made.    *)
Go(h) == /\ status = "run"
         /\ heap[h] = "unused"
         /\ heap' = [heap EXCEPT ![h] = "live"]
         /\ task' = [task EXCEPT ![h] = "fn"]
         /\ os' = [os EXCEPT ![h] = "joinable"]
         /\ left' = [left EXCEPT ![h] = Plan[h]]
         /\ UNCHANGED <<detached, joined, result, hpc, arg, status>>

(* go_bg: born detached with detached = 1; nobody else has the address.    *)
GoBg(h) == /\ status = "run"
           /\ heap[h] = "unused"
           /\ heap' = [heap EXCEPT ![h] = "live"]
           /\ detached' = [detached EXCEPT ![h] = 1]
           /\ task' = [task EXCEPT ![h] = "fn"]
           /\ os' = [os EXCEPT ![h] = "detached"]
           /\ UNCHANGED <<joined, result, left, hpc, arg, status>>

-----------------------------------------------------------------------------
(* The trampoline: run the worker, store its result, atomically exchange   *)
(* detached for 2, and free the block if the old value was 1.              *)

RunFn(h) == /\ status = "run"
            /\ task[h] = "fn" /\ heap[h] = "live"
            /\ result' = [result EXCEPT ![h] = TRUE]
            /\ task' = [task EXCEPT ![h] = "swap"]
            /\ UNCHANGED <<heap, detached, joined, os, left, hpc, arg, status>>

Swap(h) == /\ status = "run"
           /\ task[h] = "swap" /\ heap[h] = "live"
           /\ detached' = [detached EXCEPT ![h] = 2]
           /\ task' = [task EXCEPT ![h] = IF detached[h] = 1 THEN "free" ELSE "exited"]
           /\ UNCHANGED <<heap, joined, result, os, left, hpc, arg, status>>

TaskFree(h) == /\ status = "run"
               /\ task[h] = "free" /\ heap[h] = "live"
               /\ Free(h)
               /\ task' = [task EXCEPT ![h] = "exited"]
               /\ UNCHANGED <<detached, joined, result, os, left, hpc, arg, status>>

-----------------------------------------------------------------------------
Begin(t, op) == \E h \in Handles :
    /\ status = "run"
    /\ hpc[t] = "idle" /\ <<t, op>> \in left[h]
    /\ left' = [left EXCEPT ![h] = @ \ {<<t, op>>}]
    /\ arg' = [arg EXCEPT ![t] = h]
    /\ HandleGoto(t, op)
    /\ UNCHANGED <<block, task, os, status>>

(* join: refuse a detached handle by ending the process, else wait for the *)
(* thread, then take the result and free the block.                        *)
JoinCheck(t) == LET h == arg[t] IN
    /\ status = "run"
    /\ hpc[t] = "join" /\ heap[h] = "live"
    /\ IF detached[h] = 1 THEN status' = "exit" /\ UNCHANGED hpc
       ELSE HandleGoto(t, IF joined[h] THEN "joinfree" ELSE "joinwait") /\ UNCHANGED status
    /\ UNCHANGED <<block, task, os, left, arg>>

\* Mutant: a finished task is not waited for, and neither is a running one.
JoinWaitNot(t) == LET h == arg[t] IN
    /\ status = "run"
    /\ hpc[t] = "joinwait" /\ heap[h] = "live"
    /\ os' = [os EXCEPT ![h] = "joined"]
    /\ HandleGoto(t, "joinset")
    /\ UNCHANGED <<block, task, left, arg, status>>

\* pthread_join returns when the thread has exited (h->th is read before).
JoinWait(t) == LET h == arg[t] IN
    /\ status = "run"
    /\ hpc[t] = "joinwait"
    /\ task[h] = "exited" /\ os[h] = "joinable"
    /\ os' = [os EXCEPT ![h] = "joined"]
    /\ HandleGoto(t, "joinset")
    /\ UNCHANGED <<block, task, left, arg, status>>

JoinSet(t) == LET h == arg[t] IN
    /\ status = "run"
    /\ hpc[t] = "joinset" /\ heap[h] = "live"
    /\ joined' = [joined EXCEPT ![h] = TRUE]
    /\ HandleGoto(t, "joinfree")
    /\ UNCHANGED <<heap, detached, result, task, os, left, arg, status>>

JoinFree(t) == LET h == arg[t] IN
    /\ status = "run"
    /\ hpc[t] = "joinfree" /\ heap[h] = "live"
    /\ Free(h)
    /\ Done(t)
    /\ UNCHANGED <<detached, joined, result, task, os, left, status>>

(* detach: exchange detached for 1; the old value says who frees.          *)
DetachCheck(t) == LET h == arg[t] IN
    /\ status = "run"
    /\ hpc[t] = "detach" /\ heap[h] = "live"
    /\ IF joined[h] THEN Done(t) ELSE HandleGoto(t, "detachswap") /\ UNCHANGED arg
    /\ UNCHANGED <<block, task, os, left, status>>

\* Mutant: a detach that finds the task finished leaves the block to it.
DetachSwapLeaves(t) == LET h == arg[t] IN
    /\ status = "run"
    /\ hpc[t] = "detachswap" /\ heap[h] = "live"
    /\ detached' = [detached EXCEPT ![h] = 1]
    /\ IF detached[h] = 0 THEN HandleGoto(t, "osdetach") /\ UNCHANGED arg ELSE Done(t)
    /\ UNCHANGED <<heap, joined, result, task, os, left, status>>

\* Mutant: a detach frees the block although the task has not ended.
DetachSwapFrees(t) == LET h == arg[t] IN
    /\ status = "run"
    /\ hpc[t] = "detachswap" /\ heap[h] = "live"
    /\ detached' = [detached EXCEPT ![h] = 1]
    /\ IF detached[h] = 1 THEN Done(t) ELSE HandleGoto(t, "detachfree") /\ UNCHANGED arg
    /\ UNCHANGED <<heap, joined, result, task, os, left, status>>

DetachSwap(t) == LET h == arg[t] IN
    /\ status = "run"
    /\ hpc[t] = "detachswap" /\ heap[h] = "live"
    /\ detached' = [detached EXCEPT ![h] = 1]
    /\ \/ detached[h] = 0 /\ HandleGoto(t, "osdetach") /\ UNCHANGED arg
       \/ detached[h] = 1 /\ Done(t)
       \/ detached[h] = 2 /\ HandleGoto(t, "detachfree") /\ UNCHANGED arg
    /\ UNCHANGED <<heap, joined, result, task, os, left, status>>

DetachFree(t) == LET h == arg[t] IN
    /\ status = "run"
    /\ hpc[t] = "detachfree" /\ heap[h] = "live"
    /\ Free(h)
    /\ Done(t)
    /\ UNCHANGED <<detached, joined, result, task, os, left, status>>

\* pthread_detach(h->th): reads the block once more.
OsDetach(t) == LET h == arg[t] IN
    /\ status = "run"
    /\ hpc[t] = "osdetach" /\ heap[h] = "live" /\ os[h] = "joinable"
    /\ os' = [os EXCEPT ![h] = "detached"]
    /\ Done(t)
    /\ UNCHANGED <<block, task, left, status>>

-----------------------------------------------------------------------------
(* The steps that touch a block.                                           *)
TaskTouches(h) == task[h] \in {"fn", "swap", "free"}
CallTouches(t) == hpc[t] \notin {"idle", "joinwait"}
CallPthread(t) == hpc[t] \in {"joinwait", "osdetach"}

(* Touching a freed block, or a pthread call on a thread that is no longer *)
(* joinable: a fault.                                                      *)
Fault == /\ status = "run"
         /\ \/ \E h \in Handles : TaskTouches(h) /\ heap[h] = "freed"
            \/ \E t \in Callers : CallTouches(t) /\ heap[arg[t]] = "freed"
            \/ \E t \in Callers : CallPthread(t) /\ os[arg[t]] # "joinable"
         /\ status' = "fault"
         /\ UNCHANGED <<block, task, os, left, hpc, arg>>

TaskStep(h) == RunFn(h) \/ Swap(h) \/ TaskFree(h)
CallStep(t) == JoinCheck(t) \/ JoinWait(t) \/ JoinSet(t) \/ JoinFree(t)
                  \/ DetachCheck(t) \/ DetachSwap(t) \/ DetachFree(t) \/ OsDetach(t)

HandleNext == \/ \E h \in Handles : Go(h) \/ GoBg(h) \/ TaskStep(h)
              \/ \E t \in Callers : Begin(t, "join") \/ Begin(t, "detach") \/ CallStep(t)
              \/ Fault

HandleSpec == HandleInit /\ [][HandleNext]_handleVars

(* Workers terminate and started calls run on; nobody has to make a call.  *)
HandleFairness == /\ \A h \in Handles : WF_handleVars(TaskStep(h))
                  /\ \A t \in Callers : WF_handleVars(CallStep(t))

HandleFairSpec == HandleSpec /\ HandleFairness

-----------------------------------------------------------------------------
(* Properties.                                                             *)

(* Type invariant: `detached' stays in its three-value protocol, and a      *)
(* thread inside a call works on a handle.                                  *)
HandleTypes ==
    /\ heap \in [Handles -> {"unused", "live", "freed"}]
    /\ detached \in [Handles -> 0 .. 2]
    /\ joined \in [Handles -> BOOLEAN]
    /\ result \in [Handles -> BOOLEAN]
    /\ task \in [Handles -> {"none", "fn", "swap", "free", "exited"}]
    /\ os \in [Handles -> {"none", "joinable", "joined", "detached"}]
    /\ left \in [Handles -> SUBSET (Callers \X {"join", "detach"})]
    /\ hpc \in [Callers -> {"idle", "join", "joinwait", "joinset", "joinfree", "detach",
                           "detachswap", "detachfree", "osdetach"}]
    /\ arg \in [Callers -> Handles \cup {none}]
    /\ \A t \in Callers : hpc[t] # "idle" => arg[t] \in Handles
    /\ status \in {"run", "exit", "fault"}

(* No thread ever touches a handle that has been freed, nor joins or       *)
(* detaches a thread that was already joined or detached.                  *)
NoUseAfterFree == status # "fault"

(* A program that makes one call per handle faults in one place only, the  *)
(* pthread_detach(h->th) of a detach: the trampoline and join never touch  *)
(* a freed block.                                                          *)
OnlyDetachFaults == status = "fault" => \E t \in Callers : hpc[t] = "osdetach" /\ heap[arg[t]] = "freed"

(* The block is freed by one party only: whoever is about to free it holds *)
(* a live block, and the task and a caller are never both about to.        *)
FreedOnce == \A h \in Handles :
    LET freeing == {t \in Callers : hpc[t] \in {"joinfree", "detachfree"} /\ arg[t] = h}
    IN /\ Cardinality(freeing) + (IF task[h] = "free" THEN 1 ELSE 0) <= 1
       /\ freeing # {} \/ task[h] = "free" => heap[h] # "freed"

(* Of every handle: the two exchanges of `detached' let at most one party  *)
(* free it, a freed handle is touched only by the detach that announced    *)
(* itself, and its fields keep their types.                                *)
OneOwnerFrees == HandleTypes /\ FreedOnce /\ OnlyDetachFaults

(* A join that gets as far as reading the result reads the worker's.       *)
JoinReadsResult == \A t \in Callers : hpc[t] = "joinfree" => result[arg[t]]

(* A handle whose one planned call was made, and a go_bg handle, is given  *)
(* back: no block leaks, whichever of the task and the caller comes last.  *)
HandleIsFreed == \A h \in Handles :
    (heap[h] = "live" /\ left[h] = {}) ~> (heap[h] = "freed" \/ status # "run")
=============================================================================

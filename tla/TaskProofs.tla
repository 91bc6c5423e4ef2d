----------------------------- MODULE TaskProofs -----------------------------
(***************************************************************************)
(* Mutual exclusion of the mutex builtin for any number of threads, join   *)
(* handles for any number of handles and of callers, the signal slot for   *)
(* any signals and waiting threads, and pool_map for any vector, number of *)
(* workers and worker function.  The programs do not nest regions of one   *)
(* mutex (MaxDepth <= 1), with or without leaked locks, and make at most   *)
(* one call on each handle (OneCallPerHandle): with more, join and detach  *)
(* of one handle touch freed memory, as the run MCHandleDetachUse shows    *)
(* even for a single detach.                                               *)
(***************************************************************************)
EXTENDS Mutex, JoinHandle, Signals, PoolMap, FiniteSetTheorems, SequenceTheorems, TLAPS

-----------------------------------------------------------------------------
(* The mutex.                                                              *)

(* What holds between the pthread mutex, the two atomics and the program   *)
(* counters.  The first two conjuncts say that whoever is past the lock,   *)
(* or inside a region, holds the mutex; the others make the unlocked reads *)
(* of mutex_lock trustworthy.                                              *)
Inv == /\ TypeOK
       /\ \A t \in Threads :
             /\ pc[t] \in {"storeowner", "storelocked", "clear", "release"} => mu = t
             /\ depth[t] > 0 => mu = t
             /\ depth[t] > 0 => pc[t] = "run"
             /\ pc[t] = "loadowner" /\ owner = t => mu = t
             /\ mu = t /\ pc[t] \in {"run", "loadlocked", "loadowner", "clear"} => locked /\ owner = t
             /\ pc[t] = "storelocked" => owner = t
             /\ pc[t] \in {"storeowner", "storelocked", "release"} => ~locked
             /\ depth[t] <= 1
             /\ pc[t] = "acquire" => mu # t
       /\ locked => mu \in Threads /\ owner = mu

(* Initially nobody holds the mutex and nobody is in a region.             *)
LEMMA InvInit == Init => Inv
<1> SUFFICES ASSUME Init PROVE Inv
  OBVIOUS
<1> USE MutexAssumption DEF MutexAssumption, Init
<1>1. TypeOK
  BY DEF TypeOK
<1>2. QED
  BY <1>1 DEF Inv

(* Every step preserves Inv if regions of the mutex are not nested.        *)
LEMMA InvNext == ASSUME MaxDepth <= 1 PROVE Inv /\ [Next]_vars => Inv'
<1> SUFFICES ASSUME Inv, [Next]_vars PROVE Inv'
  OBVIOUS
<1> USE MutexAssumption DEF MutexAssumption, Inv, TypeOK, Goto
<1>1. ASSUME NEW t \in Threads, CallLock(t) PROVE Inv'
  BY <1>1 DEF CallLock
<1>2. ASSUME NEW t \in Threads, CallUnlock(t) PROVE Inv'
  BY <1>2 DEF CallUnlock
<1>3. ASSUME NEW t \in Threads, Raise(t) PROVE Inv'
  BY <1>3 DEF Raise
<1>4. ASSUME NEW t \in Threads, LoadLocked(t) PROVE Inv'
  BY <1>4 DEF LoadLocked
<1>5. ASSUME NEW t \in Threads, LoadOwner(t) PROVE Inv'
  BY <1>5 DEF LoadOwner
<1>6. ASSUME NEW t \in Threads, Acquire(t) PROVE Inv'
  BY <1>6 DEF Acquire
<1>7. ASSUME NEW t \in Threads, StoreOwner(t) PROVE Inv'
  BY <1>7 DEF StoreOwner
<1>8. ASSUME NEW t \in Threads, StoreLocked(t) PROVE Inv'
  BY <1>8 DEF StoreLocked
<1>9. ASSUME NEW t \in Threads, Clear(t) PROVE Inv'
  BY <1>9 DEF Clear
<1>10. ASSUME NEW t \in Threads, Release(t) PROVE Inv'
  BY <1>10 DEF Release
<1>11. CASE UNCHANGED vars
  BY <1>11 DEF vars
<1>12. QED
  BY <1>1, <1>2, <1>3, <1>4, <1>5, <1>6, <1>7, <1>8, <1>9, <1>10, <1>11 DEF Next, Inside

(* mutex_lock and mutex_unlock keep two threads out of one region although *)
(* the re-lock test reads owner and locked without the mutex, and although *)
(* an effect raised in a region leaves the mutex locked.                   *)
THEOREM MutexExcludes == ASSUME MaxDepth <= 1 PROVE Spec => []MutualExclusion
<1>1. Inv => MutualExclusion
  BY MutexAssumption DEF MutexAssumption, Inv, MutualExclusion, TypeOK
<1>2. QED
  BY InvInit, InvNext, <1>1, PTL DEF Spec

(* A thread whose lock leaked never blocks on it: the re-lock test always  *)
(* recognises the holder.                                                  *)
THEOREM LeakIsFoundAgain == ASSUME MaxDepth <= 1 PROVE Spec => []NoSelfDeadlock
<1>1. Inv => NoSelfDeadlock
  BY DEF Inv, NoSelfDeadlock
<1>2. QED
  BY InvInit, InvNext, <1>1, PTL DEF Spec

(* The state of the mutex keeps its type.                                  *)
THEOREM MutexTypes == ASSUME MaxDepth <= 1 PROVE Spec => []TypeOK
<1>1. Inv => TypeOK
  BY DEF Inv
<1>2. QED
  BY InvInit, InvNext, <1>1, PTL DEF Spec

-----------------------------------------------------------------------------
(* Join handles.                                                           *)

(* A handle that no call has been made on: the task runs, or has ended and *)
(* left the block to whoever calls.                                        *)
Fresh(h) == /\ heap[h] = "live" /\ os[h] = "joinable" /\ ~joined[h]
            /\ \/ detached[h] = 0 /\ task[h] \in {"fn", "swap"}
               \/ detached[h] = 2 /\ task[h] = "exited"

(* The task has ended and the block is there: a caller owns it.            *)
Left(h) == heap[h] = "live" /\ task[h] = "exited" /\ detached[h] # 0

(* detach has announced itself: the task owns the block, or has freed it.  *)
Announced(h) == /\ os[h] = "joinable"
                /\ \/ heap[h] = "live" /\ detached[h] = 1 /\ task[h] \in {"fn", "swap"}
                   \/ heap[h] = "live" /\ detached[h] = 2 /\ task[h] = "free"
                   \/ heap[h] = "freed" /\ detached[h] = 2 /\ task[h] = "exited"

(* What the trampoline of a handle relies on.                              *)
BlockInv == \A h \in Handles :
    /\ heap[h] = "unused" => /\ task[h] = "none" /\ left[h] = {}
                             /\ detached[h] = 0 /\ ~joined[h]
    /\ heap[h] = "freed" => task[h] = "exited"
    /\ heap[h] = "live" => task[h] # "none"
    /\ task[h] \in {"swap", "free", "exited"} => result[h]
    /\ left[h] # {} => Fresh(h)
    /\ \A c, d \in left[h] : c = d

(* What a caller relies on at each of its steps.                           *)
CallInv == \A t \in Callers :
    /\ hpc[t] # "idle" => left[arg[t]] = {}
    /\ hpc[t] \in {"join", "joinwait", "detach", "detachswap"} => Fresh(arg[t])
    /\ hpc[t] \in {"joinset", "joinfree", "detachfree"} => Left(arg[t])
    /\ hpc[t] = "osdetach" => Announced(arg[t])

(* No two threads are inside calls on one handle.                          *)
AloneInv == \A t, u \in Callers :
    hpc[t] # "idle" /\ hpc[u] # "idle" /\ arg[t] = arg[u] => t = u

HandleInv == HandleTypes /\ BlockInv /\ CallInv /\ AloneInv /\ OnlyDetachFaults

(* No handle is in use at first.                                           *)
LEMMA HandleInvInit == ASSUME HandleAssumption PROVE HandleInit => HandleInv
<1> SUFFICES ASSUME HandleInit PROVE HandleInv
  OBVIOUS
<1>1. HandleTypes
  BY DEF HandleInit, HandleTypes, none
<1>2. BlockInv /\ CallInv /\ AloneInv /\ OnlyDetachFaults
  BY DEF HandleInit, BlockInv, CallInv, AloneInv, OnlyDetachFaults
<1>3. QED
  BY <1>1, <1>2 DEF HandleInv

(* go and go_bg take a block that nobody uses.                             *)
LEMMA StartStep ==
    ASSUME HandleAssumption, OneCallPerHandle, HandleInv, NEW h \in Handles, Go(h) \/ GoBg(h)
    PROVE  HandleInv'
<1> USE DEF HandleInv, HandleAssumption
<1>1. \A t \in Callers : hpc[t] # "idle" => arg[t] # h
  BY DEF Go, GoBg, HandleTypes, CallInv, Fresh, Left, Announced
<1>2. HandleTypes'
  BY DEF HandleTypes, Go, GoBg
<1>3. BlockInv'
  BY DEF HandleTypes, BlockInv, Fresh, Go, GoBg, OneCallPerHandle
<1>4. CallInv'
  BY <1>1 DEF HandleTypes, CallInv, Fresh, Left, Announced, Go, GoBg
<1>5. AloneInv' /\ OnlyDetachFaults'
  BY DEF AloneInv, OnlyDetachFaults, Go, GoBg
<1>6. QED
  BY <1>2, <1>3, <1>4, <1>5

(* The trampoline takes a handle from one of its shapes to the next.       *)
LEMMA TaskKeeps ==
    ASSUME HandleAssumption, HandleInv, NEW h \in Handles, TaskStep(h)
    PROVE  HandleInv'
<1> USE DEF HandleInv, HandleAssumption
<1>1. HandleTypes'
  <2>1. CASE RunFn(h)
    BY <2>1 DEF HandleTypes, RunFn
  <2>2. CASE Swap(h)
    BY <2>2 DEF HandleTypes, Swap
  <2>3. CASE TaskFree(h)
    BY <2>3 DEF HandleTypes, TaskFree, Free
  <2>4. QED
    BY <2>1, <2>2, <2>3 DEF TaskStep
<1>2. BlockInv'
  BY DEF HandleTypes, BlockInv, Fresh, TaskStep, RunFn, Swap, TaskFree, Free
<1>3. CallInv'
  BY DEF HandleTypes, CallInv, Fresh, Left, Announced, TaskStep, RunFn, Swap, TaskFree, Free
<1>4. AloneInv' /\ OnlyDetachFaults'
  BY DEF AloneInv, OnlyDetachFaults, TaskStep, RunFn, Swap, TaskFree
<1>5. QED
  BY <1>1, <1>2, <1>3, <1>4

(* Beginning a call uses up the only planned call on the handle.           *)
LEMMA BeginKeeps ==
    ASSUME HandleAssumption, HandleInv, NEW t \in Callers,
           Begin(t, "join") \/ Begin(t, "detach")
    PROVE  HandleInv'
<1> USE DEF HandleInv, HandleAssumption
<1>1. PICK h \in Handles, op \in {"join", "detach"} :
         /\ status = "run" /\ hpc[t] = "idle" /\ <<t, op>> \in left[h]
         /\ left' = [left EXCEPT ![h] = @ \ {<<t, op>>}]
         /\ arg' = [arg EXCEPT ![t] = h] /\ hpc' = [hpc EXCEPT ![t] = op]
         /\ UNCHANGED <<block, task, os, status>>
  BY DEF Begin, HandleGoto
<1>2. Fresh(h) /\ left'[h] = {}
  BY <1>1 DEF HandleTypes, BlockInv
<1>3. \A u \in Callers : hpc[u] # "idle" => arg[u] # h
  BY <1>1 DEF CallInv
<1>4. HandleTypes'
  BY <1>1 DEF HandleTypes, block
<1>5. BlockInv'
  BY <1>1, <1>2 DEF HandleTypes, BlockInv, Fresh, block
<1>6. CallInv'
  BY <1>1, <1>2, <1>3 DEF HandleTypes, CallInv, Fresh, Left, Announced, block
<1>7. AloneInv' /\ OnlyDetachFaults'
  BY <1>1, <1>3 DEF HandleTypes, AloneInv, OnlyDetachFaults, block
<1>8. QED
  BY <1>4, <1>5, <1>6, <1>7

(* A step of join or of detach.                                            *)
LEMMA CallKeeps ==
    ASSUME HandleAssumption, HandleInv, NEW t \in Callers, CallStep(t)
    PROVE  HandleInv'
<1> USE DEF HandleInv, HandleAssumption
<1> DEFINE h == arg[t]
<1>1. status = "run" /\ hpc[t] # "idle" /\ h \in Handles /\ left[h] = {}
  BY DEF CallStep, JoinCheck, JoinWait, JoinSet, JoinFree, DetachCheck, DetachSwap, DetachFree,
         OsDetach, HandleTypes, CallInv
<1>2. \A u \in Callers : u # t /\ hpc[u] # "idle" => arg[u] # h
  BY <1>1 DEF AloneInv
<1>3. CASE JoinCheck(t)
  <2>1. status' = status /\ hpc' = [hpc EXCEPT ![t] = "joinwait"]
        /\ UNCHANGED <<block, task, os, left, arg>>
    BY <1>3 DEF JoinCheck, HandleGoto, CallInv, Fresh
  <2>2. QED
    BY <1>1, <1>3, <2>1 DEF JoinCheck, block, HandleTypes, BlockInv, CallInv, AloneInv, OnlyDetachFaults,
       Fresh, Left, Announced
<1>4. CASE JoinWait(t)
  BY <1>1, <1>2, <1>4 DEF JoinWait, HandleGoto, block, HandleTypes, BlockInv, CallInv, AloneInv,
     OnlyDetachFaults, Fresh, Left, Announced
<1>5. CASE JoinSet(t)
  BY <1>1, <1>2, <1>5 DEF JoinSet, HandleGoto, HandleTypes, BlockInv, CallInv, AloneInv,
     OnlyDetachFaults, Fresh, Left, Announced
<1>6. CASE JoinFree(t)
  BY <1>1, <1>2, <1>6 DEF JoinFree, Free, Done, HandleGoto, HandleTypes, BlockInv, CallInv, AloneInv,
     OnlyDetachFaults, Fresh, Left, Announced
<1>7. CASE DetachCheck(t)
  BY <1>1, <1>2, <1>7 DEF DetachCheck, Done, HandleGoto, block, HandleTypes, BlockInv, CallInv, AloneInv,
     OnlyDetachFaults, Fresh, Left, Announced
<1>8. CASE DetachSwap(t)
  BY <1>1, <1>2, <1>8 DEF DetachSwap, Done, HandleGoto, HandleTypes, BlockInv, CallInv, AloneInv,
     OnlyDetachFaults, Fresh, Left, Announced
<1>9. CASE DetachFree(t)
  BY <1>1, <1>2, <1>9 DEF DetachFree, Free, Done, HandleGoto, HandleTypes, BlockInv, CallInv, AloneInv,
     OnlyDetachFaults, Fresh, Left, Announced
<1>10. CASE OsDetach(t)
  BY <1>1, <1>2, <1>10 DEF OsDetach, Done, HandleGoto, block, HandleTypes, BlockInv, CallInv, AloneInv,
     OnlyDetachFaults, Fresh, Left, Announced
<1>11. QED
  BY <1>3, <1>4, <1>5, <1>6, <1>7, <1>8, <1>9, <1>10 DEF CallStep

(* The only fault left is the pthread_detach after the task freed the block. *)
LEMMA FaultKeeps ==
    ASSUME HandleAssumption, HandleInv, Fault
    PROVE  HandleInv'
<1> USE DEF HandleInv, HandleAssumption
<1>1. OnlyDetachFaults'
  BY DEF Fault, block, HandleTypes, TaskTouches, CallTouches, CallPthread, BlockInv, CallInv, Fresh,
         Left, Announced, OnlyDetachFaults
<1>2. HandleTypes' /\ BlockInv' /\ CallInv' /\ AloneInv'
  BY DEF Fault, block, HandleTypes, BlockInv, CallInv, AloneInv, Fresh, Left, Announced
<1>3. QED
  BY <1>1, <1>2

(* Every step keeps HandleInv.                                             *)
LEMMA HandleInvNext ==
    ASSUME HandleAssumption, OneCallPerHandle
    PROVE  HandleInv /\ [HandleNext]_handleVars => HandleInv'
<1> SUFFICES ASSUME HandleInv, [HandleNext]_handleVars PROVE HandleInv'
  OBVIOUS
<1>1. CASE UNCHANGED handleVars
  BY <1>1 DEF handleVars, HandleInv, HandleTypes, BlockInv, CallInv, AloneInv, OnlyDetachFaults, Fresh,
     Left, Announced
<1>2. CASE HandleNext
  BY <1>2, StartStep, TaskKeeps, BeginKeeps, CallKeeps, FaultKeeps DEF HandleNext
<1>3. QED
  BY <1>1, <1>2

(* Nobody but the owner HandleInv names is about to free a block.          *)
LEMMA OneFrees == ASSUME HandleInv PROVE FreedOnce
<1> SUFFICES ASSUME NEW h \in Handles
             PROVE  LET freeing == {t \in Callers : hpc[t] \in {"joinfree", "detachfree"} /\ arg[t] = h}
                    IN /\ Cardinality(freeing) + (IF task[h] = "free" THEN 1 ELSE 0) <= 1
                       /\ freeing # {} \/ task[h] = "free" => heap[h] # "freed"
  BY DEF FreedOnce
<1> DEFINE freeing == {t \in Callers : hpc[t] \in {"joinfree", "detachfree"} /\ arg[t] = h}
<1>1. freeing # {} => Left(h)
  BY DEF HandleInv, CallInv
<1>2. task[h] = "free" => heap[h] # "freed"
  BY DEF HandleInv, BlockInv
<1>3. CASE freeing = {}
  BY <1>2, <1>3, FS_EmptySet
<1>4. CASE freeing # {}
  <2>1. PICK t \in freeing : TRUE
    BY <1>4
  <2>2. freeing = {t}
    BY <2>1 DEF HandleInv, AloneInv
  <2>3. Cardinality(freeing) = 1
    BY <2>2, FS_Singleton
  <2>4. QED
    BY <1>1, <1>4, <2>3 DEF Left
<1>5. QED
  BY <1>3, <1>4

(* One call per handle: the exchanges of `detached' by the trampoline and  *)
(* by detach settle who frees the block; the only access to a freed one is *)
(* the h->th that detach hands to pthread_detach.                          *)
THEOREM HandleHasOneOwner ==
    ASSUME HandleAssumption, OneCallPerHandle PROVE HandleSpec => []OneOwnerFrees
<1>1. HandleInv => OneOwnerFrees
  BY OneFrees DEF HandleInv, OneOwnerFrees
<1>2. QED
  BY HandleInvInit, HandleInvNext, <1>1, PTL DEF HandleSpec

(* join answers with what the worker stored, never with the zero of calloc. *)
THEOREM JoinAnswersTheResult ==
    ASSUME HandleAssumption, OneCallPerHandle PROVE HandleSpec => []JoinReadsResult
<1>1. HandleInv => JoinReadsResult
  BY DEF HandleInv, HandleTypes, BlockInv, CallInv, Left, JoinReadsResult
<1>2. QED
  BY HandleInvInit, HandleInvNext, <1>1, PTL DEF HandleSpec

(* A program that only joins.                                              *)
NoDetach == \A h \in Handles : Plan[h] \subseteq Callers \X {"join"}

JoinsOnly == /\ \A h \in Handles : left[h] \subseteq Callers \X {"join"}
             /\ \A t \in Callers : hpc[t] \in {"idle", "join", "joinwait", "joinset", "joinfree"}

(* Nobody detaches in a program that only joins.                           *)
LEMMA JoinsOnlyInvariant ==
    ASSUME HandleAssumption, NoDetach
    PROVE  /\ HandleInit => JoinsOnly
           /\ HandleInv /\ JoinsOnly /\ [HandleNext]_handleVars => JoinsOnly'
<1>1. HandleInit => JoinsOnly
  BY DEF HandleInit, JoinsOnly
<1>2. ASSUME HandleInv, JoinsOnly, [HandleNext]_handleVars PROVE JoinsOnly'
  <2> USE <1>2 DEF JoinsOnly, HandleInv, HandleTypes
  <2>1. ASSUME NEW h \in Handles, Go(h) \/ GoBg(h) \/ TaskStep(h) PROVE JoinsOnly'
    BY <2>1 DEF NoDetach, Go, GoBg, TaskStep, RunFn, Swap, TaskFree
  <2>2. ASSUME NEW t \in Callers, Begin(t, "join") \/ Begin(t, "detach") PROVE JoinsOnly'
    BY <2>2 DEF Begin, HandleGoto
  <2>3. ASSUME NEW t \in Callers, CallStep(t) PROVE JoinsOnly'
    BY <2>3 DEF CallStep, JoinCheck, JoinWait, JoinSet, JoinFree, DetachCheck, DetachSwap,
       DetachFree, OsDetach, HandleGoto, Done
  <2>4. CASE Fault \/ UNCHANGED handleVars
    BY <2>4 DEF Fault, handleVars
  <2>5. QED
    BY <2>1, <2>2, <2>3, <2>4 DEF HandleNext
<1>3. QED
  BY <1>1, <1>2

(* The fault that a detach can run into (MCHandleDetachUse) is the only    *)
(* one: a program that joins each handle once, and detaches none, touches  *)
(* no freed handle.                                                        *)
THEOREM JoinedHandlesAreSafe ==
    ASSUME HandleAssumption, OneCallPerHandle, NoDetach PROVE HandleSpec => []NoUseAfterFree
<1>1. HandleInv /\ JoinsOnly => NoUseAfterFree
  BY DEF HandleInv, JoinsOnly, OnlyDetachFaults, NoUseAfterFree
<1>2. QED
  BY HandleInvInit, HandleInvNext, JoinsOnlyInvariant, <1>1, PTL DEF HandleSpec

-----------------------------------------------------------------------------
(* The signal slot.                                                        *)

(* Only real signal numbers are watched, so that a delivery never empties  *)
(* the slot; and a wait that has seen a signal still finds one unless a    *)
(* signal_clear came between.                                              *)
SignalInv == /\ \A s \in watched : Valid(s)
             /\ wiped \in [Waiters -> BOOLEAN]
             /\ spc \in [Waiters -> {"idle", "zero", "poll", "answer"}]
             /\ WaitTellsTheSignal

(* Every step keeps SignalInv.                                             *)
LEMMA SignalInvNext == SignalInv /\ [SignalsNext]_signalsVars => SignalInv'
<1> SUFFICES ASSUME SignalInv, [SignalsNext]_signalsVars PROVE SignalInv'
  OBVIOUS
<1> USE DEF SignalInv, WaitTellsTheSignal, Valid
<1>1. ASSUME NEW s \in Sigs, SignalWatch(s) \/ Handler(s) PROVE SignalInv'
  BY <1>1 DEF SignalWatch, Handler
<1>2. ASSUME NEW t \in Waiters, SignalCheck(t) \/ ClearRead(t) PROVE SignalInv'
  BY <1>2 DEF SignalCheck, ClearRead, Step
<1>3. ASSUME NEW t \in Waiters, ClearZero(t) PROVE SignalInv'
  BY <1>3 DEF ClearZero, Step
<1>4. ASSUME NEW t \in Waiters, NEW k \in -1 .. MaxNaps, WaitBegin(t, k) PROVE SignalInv'
  BY <1>4 DEF WaitBegin, Step
<1>5. ASSUME NEW t \in Waiters, WaitPoll(t) PROVE SignalInv'
  BY <1>5 DEF WaitPoll, Step
<1>6. ASSUME NEW t \in Waiters, WaitAnswer(t) PROVE SignalInv'
  BY <1>6 DEF WaitAnswer, Step
<1>7. CASE UNCHANGED signalsVars
  BY <1>7 DEF signalsVars
<1>8. QED
  BY <1>1, <1>2, <1>3, <1>4, <1>5, <1>6, <1>7 DEF SignalsNext, WaitStep

(* A signal_wait that saw a signal answers with one: another delivery may  *)
(* replace it between the two reads of the slot, and only a signal_clear   *)
(* of another thread takes it away.                                        *)
THEOREM WaitAnswersASignal == SignalsSpec => []WaitTellsTheSignal
<1>1. SignalsInit => SignalInv
  BY DEF SignalsInit, SignalInv, WaitTellsTheSignal
<1>2. SignalInv => WaitTellsTheSignal
  BY DEF SignalInv
<1>3. QED
  BY SignalInvNext, <1>1, <1>2, PTL DEF SignalsSpec

-----------------------------------------------------------------------------
(* pool_map: every job is in one place until its result is stored at its   *)
(* index, and the caller returns the vector of the results in the order of *)
(* the inputs.                                                             *)

CallerStates == {"start", "spawn", "send", "sending", "close", "closing", "collect",
                 "collecting", "join", "done"}
WorkerStates == {"none", "ask", "asking", "work", "reporting", "exited"}

\* How many jobs were sent, and how many of them were taken by a worker.
Sent == IF ppc \in {"start", "spawn"} THEN 0
        ELSE IF ppc \in {"send", "sending"} THEN i ELSE n
Taken == Sent - Len(q[Jobs])

\* A worker holds job j; its result is on its way.
Held(j) == \E w \in Workers : idx[w] = j
Answered(j) == \E k \in 1 .. Len(q[Results]) : q[Results][k][1] = j

\* The jobs whose result was collected, and how many the caller has counted.
Gone == {j \in 0 .. n - 1 : j < Taken /\ ~Held(j) /\ ~Answered(j)}
Got == IF ppc \in {"collect", "collecting"} THEN i ELSE IF ppc \in {"join", "done"} THEN n ELSE 0

PoolTypes ==
    /\ MaxWorkers \in Nat /\ in \in Seq(Int) /\ n <= MaxWorkers
    /\ n >= 1 => cap[Results] = n
    /\ q = [c \in {Jobs, Results} |-> q[c]] /\ closed = [c \in {Jobs, Results} |-> closed[c]]
    /\ q[Jobs] \in Seq(Int) /\ q[Results] \in Seq({<<j, fn(in[j + 1])>> : j \in Int})
    /\ req = [t \in Crew |-> req[t]] /\ out = [t \in Crew |-> out[t]]
    /\ ppc \in CallerStates /\ i \in Nat /\ nw \in Int
    /\ ppc # "start" => vec = [k \in 1 .. n |-> vec[k]]
    /\ wpc \in [Workers -> WorkerStates] /\ idx \in [Workers -> Int]

\* The loops of the caller, and the call it is in.
CallerInv ==
    /\ ppc = "start" => i = 0
    /\ ppc \notin {"start", "done"} => n >= 1
    /\ ppc # "start" /\ n >= 1 => nw \in 1 .. n
    /\ ppc = "spawn" => i < nw
    /\ ppc \in {"send", "sending", "collect", "collecting"} => i < n
    /\ ppc \in {"close", "closing"} => i = 0
    /\ ppc = "join" => i \in 1 .. nw
    /\ closed[Jobs] => ppc \in {"collect", "collecting", "join", "done"}
    /\ ~closed[Results]
    /\ ppc = "sending" => req[Main] = Req("send", Jobs, i)
    /\ ppc = "closing" => req[Main] = Req("close", Jobs, 0)
    /\ ppc = "collecting" => req[Main] = Req("recv", Results, 0)

\* Which workers run, the call each is in, and whether it holds a job.
Unborn(w) == ppc = "start" \/ n = 0 \/ w > nw \/ (ppc = "spawn" /\ w > i)
Joined(w) == n >= 1 /\ w <= nw /\ (ppc = "done" \/ (ppc = "join" /\ w < i))

WorkerInv == \A w \in Workers :
    /\ wpc[w] = "asking" => req[w] = Req("recv2", Jobs, 0)
    /\ wpc[w] = "reporting" => req[w] = Req("send", Results, <<idx[w], fn(in[idx[w] + 1])>>)
    /\ idx[w] = -1 <=> wpc[w] \notin {"work", "reporting"}
    /\ Unborn(w) => wpc[w] = "none"
    /\ Joined(w) => wpc[w] = "exited"

\* The jobs wait in order; a job that was taken is in the hands of one worker
\* or in one result, or gone.
PlaceInv ==
    /\ Len(q[Jobs]) <= Sent
    /\ \A k \in 1 .. Len(q[Jobs]) : q[Jobs][k] = Taken + k - 1
    /\ \A w \in Workers : idx[w] # -1 => idx[w] \in 0 .. Taken - 1
    /\ \A w, x \in Workers : w # x /\ idx[w] = idx[x] => idx[w] = -1
    /\ \A k \in 1 .. Len(q[Results]) : /\ q[Results][k][1] \in 0 .. Taken - 1
                                       /\ ~Held(q[Results][k][1])
    /\ \A k, m \in 1 .. Len(q[Results]) : q[Results][k][1] = q[Results][m][1] => k = m

\* The caller has counted the jobs that are gone and stored their results.
GoneInv == /\ Cardinality(Gone) = Got
           /\ \A j \in Gone : vec[j + 1] = fn(in[j + 1])

PoolInv == PoolTypes /\ CallerInv /\ WorkerInv /\ PlaceInv /\ GoneInv

-----------------------------------------------------------------------------
(* The calls of the channels.                                              *)

\* The request of thread t is answered.
Returned(t) == /\ req' = [req EXCEPT ![t] = C!NoReq]
                /\ out' = [x \in Crew |-> out'[x]]

(* What is left of a sequence without its head.                            *)
LEMMA TailOf ==
    ASSUME NEW S, NEW s \in Seq(S), s # << >>
    PROVE  /\ Tail(s) \in Seq(S) /\ Len(s) \in Nat \ {0} /\ Len(Tail(s)) = Len(s) - 1
           /\ s[1] \in S /\ Head(s) = s[1]
           /\ \A k \in 1 .. Len(s) - 1 : Tail(s)[k] = s[k + 1]
  OBVIOUS

(* One of the two queues changes.                                          *)
LEMMA OneQueue ==
    ASSUME PoolTypes, NEW c \in {Jobs, Results}, NEW s, q' = [q EXCEPT ![c] = s]
    PROVE  /\ q' = [d \in {Jobs, Results} |-> q'[d]] /\ q'[c] = s
           /\ \A d \in {Jobs, Results} \ {c} : q'[d] = q[d]
<1>1. q = [d \in {Jobs, Results} |-> q[d]]
  BY DEF PoolTypes
<1>2. QED
  BY <1>1

(* There are two.                                                          *)
LEMMA TwoQueues ==
    ASSUME PoolTypes
    PROVE  /\ Jobs \in {Jobs, Results} \ {Results} /\ Results \in {Jobs, Results} \ {Jobs}
           /\ q[Jobs] \in Seq(Int) /\ q[Results] \in Seq({<<j, fn(in[j + 1])>> : j \in Int})
  BY DEF PoolTypes, Jobs, Results

(* A thread makes a call.                                                  *)
LEMMA RequestEffect ==
    ASSUME PoolTypes, NEW t \in Crew, NEW op, NEW c, NEW m, C!Request(t, Req(op, c, m))
    PROVE  /\ req' = [req EXCEPT ![t] = Req(op, c, m)] /\ out' = [x \in Crew |-> out'[x]]
           /\ q' = q /\ closed' = closed
  BY DEF PoolTypes, C!Request

(* A send to a channel that is open.                                       *)
LEMMA SendEffect ==
    ASSUME PoolTypes, NEW t \in Crew, NEW c \in {Jobs, Results}, NEW m,
           req[t] = Req("send", c, m), ~closed[c], C!Send(t)
    PROVE  /\ Returned(t) /\ closed' = closed
           /\ q' = [q EXCEPT ![c] = Append(q[c], m)]
<1>1. req[t].op = "send" /\ req[t].c0 = c /\ req[t].v = m
  BY DEF Req
<1>2. q' = [q EXCEPT ![c] = Append(q[c], m)] /\ closed' = closed /\ C!Answer(t, 0, 0)
  <2>1. c # C!Null
    BY DEF C!Null, Jobs, Results
  <2>2. QED
    BY <1>1, <2>1 DEF C!Send
<1>3. Returned(t)
  BY <1>2 DEF PoolTypes, C!Answer, Returned
<1>4. QED
  BY <1>2, <1>3

(* A receive that finds a value takes the oldest one.                      *)
LEMMA ReceiveEffect ==
    ASSUME PoolTypes, NEW t \in Crew, NEW c \in {Jobs, Results}, NEW op \in {"recv", "recv2"},
           req[t] = Req(op, c, 0), C!Receive(t)
    PROVE  /\ Returned(t) /\ closed' = closed
           /\ q[c] # << >> /\ q' = [q EXCEPT ![c] = Tail(q[c])] /\ out'[t].v = Head(q[c])
<1>1. req[t].op = op /\ req[t].c0 = c
  BY DEF Req
<1>2. C!Receives(req[t]) = {c}
  BY <1>1 DEF C!Receives, C!SelectOps, C!Null, Jobs, Results
<1>3. PICK code : /\ q[c] # << >> /\ q' = [q EXCEPT ![c] = Tail(q[c])] /\ closed' = closed
                  /\ C!Answer(t, code, Head(q[c]))
  BY <1>2 DEF C!Receive
<1>4. Returned(t) /\ out'[t].v = Head(q[c])
  BY <1>3 DEF C!Answer, Returned, PoolTypes
<1>5. QED
  BY <1>3, <1>4

(* A recv2 that finds its channel closed and empty.                        *)
LEMMA EndEffect ==
    ASSUME PoolTypes, NEW t \in Crew, C!EndOfStream(t)
    PROVE  Returned(t) /\ closed' = closed /\ q' = q
  BY DEF PoolTypes, C!EndOfStream, C!Answer, Returned

(* A close.                                                                *)
LEMMA CloseEffect ==
    ASSUME PoolTypes, NEW t \in Crew, req[t] = Req("close", Jobs, 0), C!Close(t)
    PROVE  /\ Returned(t) /\ q' = q
           /\ closed' = [k \in {Jobs, Results} |-> closed[k] \/ k = Jobs]
<1>1. req[t].c0 = Jobs
  BY DEF Req
<1>2. QED
  BY <1>1 DEF PoolTypes, C!Close, C!Answer, Returned

-----------------------------------------------------------------------------
(* Where the jobs are.                                                     *)

(* Steps that move no job.                                                 *)
LEMMA JobsStay ==
    ASSUME PoolInv, UNCHANGED <<in, q, idx>>, Sent' = Sent, Got' = Got,
           \A j \in Gone : vec'[j + 1] = vec[j + 1]
    PROVE  PlaceInv' /\ GoneInv'
<1>1. n' = n /\ Taken' = Taken /\ (\A j : Held(j)' <=> Held(j)) /\ (\A j : Answered(j)' <=> Answered(j))
  BY DEF n, Taken, Held, Answered
<1>2. Gone' = Gone
  BY <1>1 DEF Gone
<1>3. PlaceInv'
  BY <1>1 DEF PoolInv, PlaceInv
<1>4. GoneInv'
  BY <1>2 DEF PoolInv, GoneInv
<1>5. QED
  BY <1>3, <1>4

(* Nothing is gone before the caller collects.                             *)
LEMMA NothingGone ==
    ASSUME PoolInv, Got = 0 PROVE Gone = {}
<1>1. IsFiniteSet(0 .. n - 1)
  <2>1. n \in Nat
    BY DEF PoolInv, PoolTypes, n
  <2>2. QED
    BY <2>1, FS_Interval
<1>2. IsFiniteSet(Gone)
  BY <1>1, FS_Subset DEF Gone
<1>3. QED
  BY <1>2, FS_EmptySet DEF PoolInv, GoneInv

(* The constants of a run, and the loop bounds as numbers.                 *)
LEMMA PoolNumbers ==
    ASSUME PoolInv
    PROVE  n \in Nat /\ i \in Nat /\ nw \in Int /\ Len(q[Jobs]) \in Nat /\ Main \in Crew
           /\ Main \notin Workers /\ Workers \subseteq Crew /\ Sent \in Nat
  BY DEF PoolInv, PoolTypes, n, Main, Workers, Crew, Sent

-----------------------------------------------------------------------------
(* The steps of the caller.                                                *)

(* Initially no worker runs and no job was sent.                           *)
LEMMA PoolInvInit == ASSUME PoolAssumption PROVE PoolInit => PoolInv
<1> SUFFICES ASSUME PoolInit PROVE PoolInv
  OBVIOUS
<1>1. q[Jobs] = << >> /\ q[Results] = << >> /\ n \in Nat /\ in \in Seq(Int) /\ n <= MaxWorkers
  BY DEF PoolInit, PoolAssumption, n
<1>2. PoolTypes
  BY <1>1 DEF PoolInit, PoolAssumption, PoolTypes, CallerStates, WorkerStates
<1>3. CallerInv /\ WorkerInv
  BY DEF PoolInit, CallerInv, WorkerInv, Unborn, Joined
<1>4. PlaceInv
  BY <1>1 DEF PoolInit, PlaceInv, Sent, Taken, Held
<1>5. Gone = {} /\ Got = 0
  BY <1>1 DEF PoolInit, Gone, Got, Taken, Sent
<1>6. GoneInv
  BY <1>5, FS_EmptySet DEF GoneInv
<1>7. QED
  BY <1>2, <1>3, <1>4, <1>6 DEF PoolInv

(* The clamp of the width, and the start of the workers.                   *)
LEMMA PoolStartStep == ASSUME PoolInv, Start \/ Spawn PROVE PoolInv'
<1>1. CASE Start
  <2>1. /\ ppc = "start" /\ vec' = [k \in 1 .. n |-> 0] /\ nw' = Clamp(nw)
        /\ ppc' = (IF n = 0 THEN "done" ELSE "spawn")
        /\ UNCHANGED <<cap, q, closed, req, out, in, i, wpc, idx>>
    BY <1>1 DEF Start, chans
  <2>2. n' = n /\ nw' \in Int /\ (n >= 1 => nw' \in 1 .. n)
    BY <2>1, PoolNumbers DEF n, Clamp
  <2>3. PoolTypes'
    BY <2>1, <2>2 DEF PoolInv, PoolTypes, CallerStates
  <2>4. CallerInv'
    BY <2>1, <2>2, PoolNumbers DEF PoolInv, CallerInv
  <2>5. WorkerInv'
    BY <2>1, <2>2, PoolNumbers DEF PoolInv, WorkerInv, Unborn, Joined
  <2>6. Sent' = Sent /\ Got' = Got /\ Got = 0
    <3>1. n = 0 => Sent' = 0 /\ Got' = 0
      BY <2>1, <2>2 DEF Sent, Got
    <3>2. QED
      BY <2>1, <2>2, <3>1 DEF Sent, Got
  <2>7. PlaceInv' /\ GoneInv'
    BY <2>1, <2>6, NothingGone, JobsStay
  <2>8. QED
    BY <2>3, <2>4, <2>5, <2>7 DEF PoolInv
<1>2. CASE Spawn
  <2>1. /\ ppc = "spawn" /\ wpc' = [wpc EXCEPT ![i + 1] = "ask"]
        /\ \/ i + 1 = nw /\ i' = 0 /\ ppc' = "send"
           \/ i + 1 # nw /\ i' = i + 1 /\ ppc' = ppc
        /\ UNCHANGED <<cap, q, closed, req, out, in, nw, vec, idx>>
    BY <1>2 DEF Spawn, chans
  <2>2. n' = n /\ n >= 1 /\ nw \in 1 .. n /\ i < nw /\ i + 1 \in Workers /\ n <= MaxWorkers
    BY <2>1, PoolNumbers DEF n, PoolInv, CallerInv, PoolTypes, Workers
  <2>3. PoolTypes'
    BY <2>1, <2>2, PoolNumbers DEF PoolInv, PoolTypes, CallerStates, WorkerStates
  <2>4. CallerInv'
    BY <2>1, <2>2, PoolNumbers DEF PoolInv, CallerInv
  <2>5. WorkerInv'
    <3>1. \A w \in Workers : w # i + 1 => wpc'[w] = wpc[w]
      BY <2>1 DEF PoolInv, PoolTypes
    <3>2. wpc[i + 1] = "none" /\ wpc'[i + 1] = "ask"
      <4>1. Unborn(i + 1)
        BY <2>1, <2>2, PoolNumbers DEF Unborn
      <4>2. wpc[i + 1] = "none"
        BY <2>2, <4>1 DEF PoolInv, WorkerInv
      <4>3. QED
        BY <2>1, <2>2, <4>2 DEF PoolInv, PoolTypes
    <3>3. QED
      BY <2>1, <2>2, <3>1, <3>2, PoolNumbers DEF PoolInv, WorkerInv, Unborn, Joined, Workers
  <2>6. Sent' = Sent /\ Got' = Got
    BY <2>1, <2>2 DEF Sent, Got
  <2>7. PlaceInv' /\ GoneInv'
    BY <2>1, <2>6, JobsStay
  <2>8. QED
    BY <2>3, <2>4, <2>5, <2>7 DEF PoolInv
<1>3. QED
  BY <1>1, <1>2

(* The caller makes a call on a channel: nothing moves.                    *)
LEMMA AskStep == ASSUME PoolInv, SendJob \/ CloseJobs \/ Collect PROVE PoolInv'
<1>1. PICK op, c, m, new :
        /\ C!Request(Main, Req(op, c, m)) /\ ppc' = new
        /\ \/ ppc = "send" /\ op = "send" /\ c = Jobs /\ m = i /\ new = "sending"
           \/ ppc = "close" /\ op = "close" /\ c = Jobs /\ m = 0 /\ new = "closing"
           \/ ppc = "collect" /\ op = "recv" /\ c = Results /\ m = 0 /\ new = "collecting"
        /\ UNCHANGED <<cap, in, nw, i, vec, wpc, idx>>
  BY DEF SendJob, CloseJobs, Collect
<1>2. /\ req' = [req EXCEPT ![Main] = Req(op, c, m)] /\ out' = [x \in Crew |-> out'[x]]
      /\ UNCHANGED <<q, closed>>
  BY <1>1, PoolNumbers, RequestEffect DEF PoolInv
<1>3. /\ n' = n /\ req'[Main] = Req(op, c, m) /\ req' = [x \in Crew |-> req'[x]]
      /\ \A w \in Workers : req'[w] = req[w]
  BY <1>1, <1>2, PoolNumbers DEF n, PoolInv, PoolTypes
<1>4. PoolTypes'
  BY <1>1, <1>2, <1>3 DEF PoolInv, PoolTypes, CallerStates
<1>5. CallerInv'
  BY <1>1, <1>2, <1>3 DEF PoolInv, CallerInv
<1>6. WorkerInv'
  BY <1>1, <1>2, <1>3 DEF PoolInv, WorkerInv, Unborn, Joined
<1>7. Sent' = Sent /\ Got' = Got
  BY <1>1, <1>3 DEF Sent, Got
<1>8. PlaceInv' /\ GoneInv'
  BY <1>1, <1>2, <1>7, JobsStay
<1>9. QED
  BY <1>4, <1>5, <1>6, <1>8 DEF PoolInv

(* The jobs are closed; a worker is joined.                                *)
LEMMA CloseJoinStep == ASSUME PoolInv, JobsClosed \/ Join PROVE PoolInv'
<1>1. CASE JobsClosed
  <2>1. /\ ppc = "closing" /\ ppc' = "collect" /\ UNCHANGED <<cap, in, nw, i, vec, wpc, idx>>
        /\ req[Main] = Req("close", Jobs, 0) /\ C!Close(Main)
    BY <1>1 DEF JobsClosed, PoolInv, CallerInv
  <2>2. /\ Returned(Main) /\ q' = q
        /\ closed' = [k \in {Jobs, Results} |-> closed[k] \/ k = Jobs]
    BY <2>1, PoolNumbers, CloseEffect DEF PoolInv
  <2>3. /\ n' = n /\ req' = [x \in Crew |-> req'[x]] /\ \A w \in Workers : req'[w] = req[w]
    BY <2>1, <2>2, PoolNumbers DEF n, PoolInv, PoolTypes, Returned
  <2>4. PoolTypes'
    BY <2>1, <2>2, <2>3 DEF PoolInv, PoolTypes, CallerStates, Returned
  <2>5. CallerInv'
    <3>1. ~closed'[Results]
      <4>1. ~closed[Results] /\ Results # Jobs
        BY DEF Jobs, Results, PoolInv, CallerInv
      <4>2. closed'[Results] = (closed[Results] \/ Results = Jobs)
        BY <2>2, Zenon
      <4>3. QED
        BY <4>1, <4>2, Zenon
    <3>2. QED
      BY <2>1, <2>3, <3>1, PoolNumbers DEF PoolInv, CallerInv
  <2>6. WorkerInv'
    BY <2>1, <2>2, <2>3 DEF PoolInv, WorkerInv, Unborn, Joined
  <2>7. Sent' = Sent /\ Got' = Got
    BY <2>1, <2>3 DEF Sent, Got, PoolInv, CallerInv
  <2>8. PlaceInv' /\ GoneInv'
    BY <2>1, <2>2, <2>7, JobsStay
  <2>9. QED
    BY <2>4, <2>5, <2>6, <2>8 DEF PoolInv
<1>2. CASE Join
  <2>1. /\ ppc = "join" /\ wpc[i] = "exited"
        /\ \/ i = nw /\ ppc' = "done" /\ i' = i
           \/ i # nw /\ i' = i + 1 /\ ppc' = ppc
        /\ UNCHANGED <<cap, q, closed, req, out, in, nw, vec, wpc, idx>>
    BY <1>2 DEF Join, chans
  <2>2. n' = n
    BY <2>1 DEF n
  <2>3. PoolTypes'
    BY <2>1, <2>2, PoolNumbers DEF PoolInv, PoolTypes, CallerStates
  <2>4. CallerInv'
    BY <2>1, <2>2, PoolNumbers DEF PoolInv, CallerInv
  <2>5. WorkerInv'
    BY <2>1, <2>2, PoolNumbers DEF PoolInv, WorkerInv, CallerInv, Unborn, Joined, Workers
  <2>6. Sent' = Sent /\ Got' = Got
    BY <2>1, <2>2 DEF Sent, Got
  <2>7. PlaceInv' /\ GoneInv'
    BY <2>1, <2>6, JobsStay
  <2>8. QED
    BY <2>3, <2>4, <2>5, <2>7 DEF PoolInv
<1>3. QED
  BY <1>1, <1>2

(* A job is sent: it is the next one, and the last of the queue.           *)
LEMMA JobSentStep == ASSUME PoolInv, JobSent PROVE PoolInv'
<1>1. /\ ppc = "sending" /\ req[Main] = Req("send", Jobs, i) /\ ~closed[Jobs] /\ C!Send(Main)
      /\ \/ i + 1 = n /\ i' = 0 /\ ppc' = "close"
         \/ i + 1 # n /\ i' = i + 1 /\ ppc' = "send"
      /\ UNCHANGED <<cap, in, nw, vec, wpc, idx>>
  BY DEF JobSent, PoolInv, CallerInv
<1>2. Returned(Main) /\ closed' = closed /\ q' = [q EXCEPT ![Jobs] = Append(q[Jobs], i)]
  BY <1>1, PoolNumbers, SendEffect DEF PoolInv
<1>3. /\ n' = n /\ req' = [x \in Crew |-> req'[x]] /\ \A w \in Workers : req'[w] = req[w]
  BY <1>1, <1>2, PoolNumbers DEF n, PoolInv, PoolTypes, Returned
<1>4. /\ q' = [c \in {Jobs, Results} |-> q'[c]]
      /\ q'[Jobs] = Append(q[Jobs], i) /\ q'[Results] = q[Results] /\ q[Jobs] \in Seq(Int)
  BY <1>2, OneQueue, TwoQueues DEF PoolInv
<1>5. /\ q'[Jobs] \in Seq(Int) /\ Len(q'[Jobs]) = Len(q[Jobs]) + 1
      /\ \A k \in 1 .. Len(q[Jobs]) : q'[Jobs][k] = q[Jobs][k]
      /\ q'[Jobs][Len(q[Jobs]) + 1] = i
  BY <1>4, PoolNumbers
<1>6. PoolTypes'
  BY <1>1, <1>2, <1>3, <1>4, <1>5, PoolNumbers DEF PoolInv, PoolTypes, CallerStates, Returned
<1>7. CallerInv'
  BY <1>1, <1>2, <1>3, PoolNumbers DEF PoolInv, CallerInv
<1>8. WorkerInv'
  BY <1>1, <1>2, <1>3 DEF PoolInv, WorkerInv, Unborn, Joined
<1>9. Sent = i /\ Sent' = i + 1 /\ Taken' = Taken /\ Got = 0 /\ Got' = 0
  <2>1. Sent = i /\ Sent' = i + 1 /\ Got = 0 /\ Got' = 0
    BY <1>1, <1>3, PoolNumbers DEF Sent, Got
  <2>2. QED
    BY <1>5, <2>1, PoolNumbers DEF Taken
<1>10. (\A j : Held(j)' <=> Held(j)) /\ (\A j : Answered(j)' <=> Answered(j))
  BY <1>1, <1>4 DEF Held, Answered
<1>11. PlaceInv'
  <2>1. Len(q'[Jobs]) <= Sent'
    BY <1>5, <1>9, PoolNumbers DEF PoolInv, PlaceInv
  <2>2. \A k \in 1 .. Len(q'[Jobs]) : q'[Jobs][k] = Taken + k - 1
    <3>1. i = Taken + (Len(q[Jobs]) + 1) - 1
      BY <1>9, PoolNumbers DEF Taken
    <3>2. \A k \in 1 .. Len(q[Jobs]) : q[Jobs][k] = Taken + k - 1
      BY DEF PoolInv, PlaceInv
    <3>3. \A k \in 1 .. Len(q'[Jobs]) : k \in 1 .. Len(q[Jobs]) \/ k = Len(q[Jobs]) + 1
      BY <1>5, PoolNumbers
    <3>4. QED
      BY <1>5, <3>1, <3>2, <3>3
  <2>3. QED
    BY <1>1, <1>4, <1>9, <1>10, <2>1, <2>2 DEF PoolInv, PlaceInv
<1>12. Gone' = Gone
  BY <1>3, <1>9, <1>10 DEF Gone
<1>13. GoneInv'
  BY <1>1, <1>9, <1>12 DEF PoolInv, GoneInv
<1>14. QED
  BY <1>6, <1>7, <1>8, <1>11, <1>13 DEF PoolInv

(* A result is collected: its job is gone, and its place in the vector is  *)
(* that of its index.                                                      *)
LEMMA CollectedStep == ASSUME PoolInv, Collected PROVE PoolInv'
<1>1. /\ ppc = "collecting" /\ req[Main] = Req("recv", Results, 0) /\ C!Receive(Main)
      /\ vec' = LET pair == out'[Main].v
                IN IF pair[1] \in 0 .. n - 1 THEN [vec EXCEPT ![pair[1] + 1] = pair[2]] ELSE vec
      /\ \/ i + 1 = n /\ i' = 1 /\ ppc' = "join"
         \/ i + 1 # n /\ i' = i + 1 /\ ppc' = "collect"
      /\ UNCHANGED <<cap, in, nw, wpc, idx>>
  BY DEF Collected, PoolInv, CallerInv
<1>2. /\ Returned(Main) /\ closed' = closed /\ q[Results] # << >>
      /\ q' = [q EXCEPT ![Results] = Tail(q[Results])] /\ out'[Main].v = Head(q[Results])
  BY <1>1, PoolNumbers, ReceiveEffect DEF PoolInv
<1>3. /\ n' = n /\ req' = [x \in Crew |-> req'[x]] /\ \A w \in Workers : req'[w] = req[w]
  BY <1>1, <1>2, PoolNumbers DEF n, PoolInv, PoolTypes, Returned
<1> DEFINE Pairs == {<<j, fn(in[j + 1])>> : j \in Int}
<1>4. /\ q' = [c \in {Jobs, Results} |-> q'[c]] /\ q[Results] \in Seq(Pairs)
      /\ q'[Jobs] = q[Jobs] /\ q'[Results] = Tail(q[Results])
  <2>1. q' = [c \in {Jobs, Results} |-> q'[c]] /\ q'[Jobs] = q[Jobs] /\ q'[Results] = Tail(q[Results])
    BY <1>2, OneQueue, TwoQueues DEF PoolInv
  <2>2. q[Results] \in Seq(Pairs)
    BY TwoQueues DEF PoolInv
  <2>3. QED
    BY <2>1, <2>2
<1>5. \A p \in Pairs : \E j \in Int : p = <<j, fn(in[j + 1])>>
  OBVIOUS
<1> HIDE DEF Pairs
<1>6. /\ q'[Results] \in Seq(Pairs) /\ Len(q'[Results]) = Len(q[Results]) - 1
      /\ Len(q[Results]) \in Nat \ {0} /\ q[Results][1] \in Pairs /\ Head(q[Results]) = q[Results][1]
      /\ \A k \in 1 .. Len(q'[Results]) : q'[Results][k] = q[Results][k + 1]
  <2>1. PICK s \in Seq(Pairs) : s = q[Results] /\ s # << >>
    BY <1>2, <1>4
  <2>2. /\ Tail(s) \in Seq(Pairs) /\ Len(s) \in Nat \ {0} /\ Len(Tail(s)) = Len(s) - 1
        /\ s[1] \in Pairs /\ Head(s) = s[1] /\ \A k \in 1 .. Len(s) - 1 : Tail(s)[k] = s[k + 1]
    BY <2>1, TailOf
  <2>3. q'[Results] = Tail(s)
    BY <1>4, <2>1
  <2>4. QED
    BY <2>1, <2>2, <2>3
<1>7. PICK j \in Int : q[Results][1] = <<j, fn(in[j + 1])>>
  BY <1>5, <1>6
<1>8. j \in 0 .. Taken - 1 /\ ~Held(j) /\ Answered(j) /\ Taken \in Int /\ Taken <= n
  <2>1. j \in 0 .. Taken - 1 /\ ~Held(j) /\ Answered(j)
    BY <1>6, <1>7 DEF PoolInv, PlaceInv, Answered
  <2>2. QED
    BY <1>1, <2>1, PoolNumbers DEF Taken, Sent
<1>9. vec' = [vec EXCEPT ![j + 1] = fn(in[j + 1])] /\ vec = [k \in 1 .. n |-> vec[k]]
  <2>1. out'[Main].v[1] = j /\ out'[Main].v[2] = fn(in[j + 1]) /\ j \in 0 .. n - 1
    BY <1>2, <1>6, <1>7, <1>8, PoolNumbers
  <2>2. QED
    BY <1>1, <2>1 DEF PoolInv, PoolTypes
<1>10. PoolTypes'
  <2>1. q'[Results] \in Seq({<<x, fn(in'[x + 1])>> : x \in Int})
    BY <1>1, <1>6 DEF Pairs
  <2>2. vec' = [k \in 1 .. n' |-> vec'[k]]
    BY <1>3, <1>9
  <2>3. q'[Jobs] \in Seq(Int) /\ out' = [t \in Crew |-> out'[t]]
    BY <1>2, <1>4, TwoQueues DEF PoolInv, Returned
  <2>4. closed' = [c \in {Jobs, Results} |-> closed'[c]] /\ (n' >= 1 => cap'[Results] = n')
    BY <1>1, <1>2, <1>3 DEF PoolInv, PoolTypes
  <2>5. ppc' \in CallerStates /\ i' \in Nat
    BY <1>1, PoolNumbers DEF CallerStates
  <2>6. QED
    BY <1>1, <1>3, <1>4, <2>1, <2>2, <2>3, <2>4, <2>5 DEF PoolInv, PoolTypes
<1>11. CallerInv'
  BY <1>1, <1>2, <1>3, PoolNumbers DEF PoolInv, CallerInv
<1>12. WorkerInv'
  BY <1>1, <1>2, <1>3 DEF PoolInv, WorkerInv, Unborn, Joined, Workers
<1>13. Sent = n /\ Sent' = n /\ Taken' = Taken /\ Got' = Got + 1
  <2>1. Sent = n /\ Sent' = n
    BY <1>1, <1>3 DEF Sent
  <2>2. Taken' = Taken
    BY <1>4, <2>1 DEF Taken
  <2>3. Got' = Got + 1
    BY <1>1, <1>3 DEF Got
  <2>4. QED
    BY <2>1, <2>2, <2>3
<1>14. /\ \A x : Held(x)' <=> Held(x)
       /\ \A x : Answered(x)' <=> Answered(x) /\ x # j
  <2>1. \A x : Held(x)' <=> Held(x)
    BY <1>1 DEF Held
  <2>2. ASSUME NEW x, Answered(x)' PROVE Answered(x) /\ x # j
    <3>1. PICK k \in 1 .. Len(q'[Results]) : q'[Results][k][1] = x
      BY <2>2 DEF Answered
    <3>2. k + 1 \in 1 .. Len(q[Results]) /\ k + 1 # 1 /\ q[Results][k + 1][1] = x
      BY <1>6, <3>1
    <3>3. x # j
      BY <1>6, <1>7, <3>2 DEF PoolInv, PlaceInv
    <3>4. QED
      BY <3>2, <3>3 DEF Answered
  <2>3. ASSUME NEW x, Answered(x), x # j PROVE Answered(x)'
    <3>1. PICK k \in 1 .. Len(q[Results]) : q[Results][k][1] = x
      BY <2>3 DEF Answered
    <3>2. k # 1
      BY <1>7, <2>3, <3>1
    <3>3. k - 1 \in 1 .. Len(q'[Results]) /\ q'[Results][k - 1] = q[Results][(k - 1) + 1]
      BY <1>6, <3>1, <3>2
    <3>4. (k - 1) + 1 = k
      BY <3>1
    <3>5. QED
      BY <3>1, <3>3, <3>4 DEF Answered
  <2>4. QED
    BY <2>1, <2>2, <2>3
<1>15. PlaceInv'
  <2>1. \A k \in 1 .. Len(q'[Results]) : k + 1 \in 1 .. Len(q[Results])
    BY <1>6
  <2>2. \A k \in 1 .. Len(q'[Results]) : q'[Results][k][1] \in 0 .. Taken - 1 /\ ~Held(q'[Results][k][1])
    <3>1. \A k \in 1 .. Len(q[Results]) : q[Results][k][1] \in 0 .. Taken - 1 /\ ~Held(q[Results][k][1])
      BY DEF PoolInv, PlaceInv
    <3>2. QED
      BY <1>6, <2>1, <3>1
  <2>3. \A k, m \in 1 .. Len(q'[Results]) : q'[Results][k][1] = q'[Results][m][1] => k = m
    <3>1. \A k, m \in 1 .. Len(q[Results]) : q[Results][k][1] = q[Results][m][1] => k = m
      BY DEF PoolInv, PlaceInv
    <3>2. ASSUME NEW k \in 1 .. Len(q'[Results]), NEW m \in 1 .. Len(q'[Results]),
                 q'[Results][k][1] = q'[Results][m][1]
          PROVE  k = m
      <4>1. q[Results][k + 1][1] = q[Results][m + 1][1]
        BY <1>6, <3>2
      <4>2. k + 1 = m + 1
        BY <2>1, <3>1, <4>1
      <4>3. QED
        BY <4>2
    <3>3. QED
      BY <3>2
  <2>4. QED
    BY <1>1, <1>4, <1>13, <1>14, <2>2, <2>3 DEF PoolInv, PlaceInv
<1>16. Gone' = Gone \cup {j} /\ j \notin Gone
  <2>1. j \in 0 .. n - 1 /\ j < Taken
    BY <1>8, PoolNumbers
  <2>2. QED
    BY <1>3, <1>8, <1>13, <1>14, <2>1 DEF Gone
<1>17. GoneInv'
  <2>1. IsFiniteSet(Gone)
    <3>1. IsFiniteSet(0 .. n - 1)
      BY PoolNumbers, FS_Interval
    <3>2. QED
      BY <3>1, FS_Subset DEF Gone
  <2>2. Cardinality(Gone') = Got'
    BY <1>13, <1>16, <2>1, FS_AddElement DEF PoolInv, GoneInv
  <2>3. \A x \in Gone' : vec'[x + 1] = fn(in'[x + 1])
    <3>1. \A x \in Gone : x \in 0 .. n - 1 /\ x # j /\ vec[x + 1] = fn(in[x + 1])
      BY <1>16 DEF PoolInv, GoneInv, Gone
    <3>2. \A x \in Gone : vec'[x + 1] = vec[x + 1]
      <4>1. ASSUME NEW x \in Gone PROVE vec'[x + 1] = vec[x + 1]
        <5>1. x + 1 \in 1 .. n /\ x + 1 # j + 1
          BY <3>1, PoolNumbers
        <5>2. QED
          BY <1>9, <5>1
      <4>2. QED
        BY <4>1
    <3>3. vec'[j + 1] = fn(in[j + 1])
      <4>1. j + 1 \in 1 .. n
        BY <1>8, PoolNumbers
      <4>2. QED
        BY <1>9, <4>1
    <3>4. QED
      BY <1>1, <1>16, <3>1, <3>2, <3>3
  <2>4. QED
    BY <2>2, <2>3 DEF GoneInv
<1>18. QED
  BY <1>10, <1>11, <1>12, <1>15, <1>17 DEF PoolInv

-----------------------------------------------------------------------------
(* The steps of a worker.                                                  *)

(* What a worker leaves alone.                                             *)
LEMMA WorkerFrame ==
    ASSUME PoolInv, UNCHANGED <<cap, in, nw, ppc, i, vec, closed>>, NEW w \in Workers,
           NEW r, req' = [req EXCEPT ![w] = r], out' = [x \in Crew |-> out'[x]],
           NEW s \in WorkerStates, wpc' = [wpc EXCEPT ![w] = s], wpc[w] \notin {"none", "exited"}
    PROVE  /\ n' = n /\ req'[w] = r /\ req' = [x \in Crew |-> req'[x]] /\ wpc'[w] = s
           /\ wpc' \in [Workers -> WorkerStates]
           /\ \A x \in Workers : x # w => req'[x] = req[x] /\ wpc'[x] = wpc[x]
           /\ CallerInv' /\ ~Unborn(w) /\ ~Joined(w)
           /\ \A x \in Workers : (Unborn(x)' <=> Unborn(x)) /\ (Joined(x)' <=> Joined(x))
<1>1. /\ n' = n /\ req'[w] = r /\ req' = [x \in Crew |-> req'[x]] /\ wpc'[w] = s
      /\ wpc' \in [Workers -> WorkerStates] /\ req'[Main] = req[Main]
      /\ \A x \in Workers : x # w => req'[x] = req[x] /\ wpc'[x] = wpc[x]
  BY PoolNumbers DEF n, PoolInv, PoolTypes
<1>2. CallerInv'
  BY <1>1 DEF PoolInv, CallerInv
<1>3. \A x \in Workers : (Unborn(x)' <=> Unborn(x)) /\ (Joined(x)' <=> Joined(x))
  BY <1>1 DEF Unborn, Joined
<1>4. ~Unborn(w) /\ ~Joined(w)
  BY DEF PoolInv, WorkerInv
<1>5. QED
  BY <1>1, <1>2, <1>3, <1>4

(* A worker makes a call or exits: nothing moves.                          *)
LEMMA WorkerCalls ==
    ASSUME PoolInv, NEW w \in Workers, NEW r, NEW s \in WorkerStates,
           req' = [req EXCEPT ![w] = r], out' = [x \in Crew |-> out'[x]],
           wpc' = [wpc EXCEPT ![w] = s], wpc[w] \notin {"none", "exited"},
           s = "asking" => r = Req("recv2", Jobs, 0),
           s = "reporting" => r = Req("send", Results, <<idx[w], fn(in[idx[w] + 1])>>),
           s \in {"work", "reporting"} <=> wpc[w] \in {"work", "reporting"},
           UNCHANGED <<cap, in, nw, ppc, i, vec, idx, q, closed>>
    PROVE  PoolInv'
<1>1. /\ n' = n /\ req'[w] = r /\ req' = [x \in Crew |-> req'[x]] /\ wpc'[w] = s
      /\ wpc' \in [Workers -> WorkerStates]
      /\ \A x \in Workers : x # w => req'[x] = req[x] /\ wpc'[x] = wpc[x]
      /\ CallerInv' /\ ~Unborn(w) /\ ~Joined(w)
      /\ \A x \in Workers : (Unborn(x)' <=> Unborn(x)) /\ (Joined(x)' <=> Joined(x))
  BY WorkerFrame
<1>2. PoolTypes'
  BY <1>1 DEF PoolInv, PoolTypes
<1>3. WorkerInv'
  <2> SUFFICES ASSUME NEW x \in Workers
               PROVE  /\ wpc'[x] = "asking" => req'[x] = Req("recv2", Jobs, 0)
                      /\ wpc'[x] = "reporting"
                            => req'[x] = Req("send", Results, <<idx[x], fn(in[idx[x] + 1])>>)
                      /\ idx[x] = -1 <=> wpc'[x] \notin {"work", "reporting"}
                      /\ Unborn(x) => wpc'[x] = "none"
                      /\ Joined(x) => wpc'[x] = "exited"
    BY <1>1 DEF WorkerInv
  <2>1. CASE x = w
    BY <1>1, <2>1 DEF PoolInv, WorkerInv
  <2>2. CASE x # w
    BY <1>1, <2>2 DEF PoolInv, WorkerInv
  <2>3. QED
    BY <2>1, <2>2
<1>4. PlaceInv' /\ GoneInv'
  <2>1. Sent' = Sent /\ Got' = Got
    BY <1>1 DEF Sent, Got
  <2>2. QED
    BY <2>1, JobsStay
<1>5. QED
  BY <1>1, <1>2, <1>3, <1>4 DEF PoolInv

(* A worker asks for a job, finds that there are no more, or computes.     *)
LEMMA QuietWorker ==
    ASSUME PoolInv, NEW w \in Workers, Ask(w) \/ NoMoreJobs(w) \/ Work(w) PROVE PoolInv'
<1>0. w \in Crew /\ {"asking", "exited", "reporting"} \subseteq WorkerStates
  BY PoolNumbers DEF WorkerStates
<1>1. CASE Ask(w)
  <2>1. C!Request(w, Req("recv2", Jobs, 0)) /\ wpc[w] = "ask"
    BY <1>1 DEF Ask
  <2>2. /\ req' = [req EXCEPT ![w] = Req("recv2", Jobs, 0)] /\ out' = [x \in Crew |-> out'[x]]
        /\ UNCHANGED <<q, closed>>
    BY <1>0, <2>1, RequestEffect DEF PoolInv
  <2>3. wpc' = [wpc EXCEPT ![w] = "asking"] /\ UNCHANGED <<cap, in, nw, ppc, i, vec, idx, q, closed>>
    BY <1>1, <2>2 DEF Ask
  <2>4. QED
    BY <1>0, <2>1, <2>2, <2>3, WorkerCalls
<1>2. CASE NoMoreJobs(w)
  <2>1. C!EndOfStream(w) /\ wpc[w] = "asking"
    BY <1>2 DEF NoMoreJobs
  <2>2. Returned(w) /\ UNCHANGED <<q, closed>>
    BY <1>0, <2>1, EndEffect DEF PoolInv
  <2>3. req' = [req EXCEPT ![w] = C!NoReq] /\ out' = [x \in Crew |-> out'[x]]
    BY <2>2 DEF Returned
  <2>4. wpc' = [wpc EXCEPT ![w] = "exited"] /\ UNCHANGED <<cap, in, nw, ppc, i, vec, idx, q, closed>>
    BY <1>2, <2>2 DEF NoMoreJobs
  <2>5. QED
    BY <1>0, <2>1, <2>3, <2>4, WorkerCalls
<1>3. CASE Work(w)
  <2> DEFINE r == Req("send", Results, <<idx[w], fn(in[idx[w] + 1])>>)
  <2>1. C!Request(w, r) /\ wpc[w] = "work"
    BY <1>3 DEF Work
  <2>2. req' = [req EXCEPT ![w] = r] /\ out' = [x \in Crew |-> out'[x]] /\ UNCHANGED <<q, closed>>
    BY <1>0, <2>1, RequestEffect DEF PoolInv
  <2>3. wpc' = [wpc EXCEPT ![w] = "reporting"]
        /\ UNCHANGED <<cap, in, nw, ppc, i, vec, idx, q, closed>>
    BY <1>3, <2>2 DEF Work
  <2>4. QED
    BY <1>0, <2>1, <2>2, <2>3, WorkerCalls
<1>4. QED
  BY <1>1, <1>2, <1>3

(* A worker takes the oldest job.                                          *)
LEMMA GotJobStep ==
    ASSUME PoolInv, NEW w \in Workers, GotJob(w) PROVE PoolInv'
<1>1. /\ wpc[w] = "asking" /\ req[w] = Req("recv2", Jobs, 0) /\ C!Receive(w) /\ idx[w] = -1
      /\ idx' = [idx EXCEPT ![w] = out'[w].v] /\ wpc' = [wpc EXCEPT ![w] = "work"]
      /\ UNCHANGED <<cap, in, nw, ppc, i, vec>>
  BY DEF GotJob, PoolInv, WorkerInv
<1>2. /\ Returned(w) /\ closed' = closed /\ q[Jobs] # << >>
      /\ q' = [q EXCEPT ![Jobs] = Tail(q[Jobs])] /\ out'[w].v = Head(q[Jobs])
  BY <1>1, PoolNumbers, ReceiveEffect DEF PoolInv
<1>3. /\ q' = [c \in {Jobs, Results} |-> q'[c]] /\ q[Jobs] \in Seq(Int)
      /\ q'[Results] = q[Results] /\ q'[Jobs] = Tail(q[Jobs])
  BY <1>2, OneQueue, TwoQueues DEF PoolInv
<1>4. /\ q'[Jobs] \in Seq(Int) /\ Len(q'[Jobs]) = Len(q[Jobs]) - 1
      /\ Len(q[Jobs]) \in Nat \ {0} /\ Head(q[Jobs]) = q[Jobs][1]
      /\ \A k \in 1 .. Len(q'[Jobs]) : q'[Jobs][k] = q[Jobs][k + 1]
  <2>1. PICK s \in Seq(Int) : s = q[Jobs] /\ s # << >>
    BY <1>2, <1>3
  <2>2. /\ Tail(s) \in Seq(Int) /\ Len(s) \in Nat \ {0} /\ Len(Tail(s)) = Len(s) - 1
        /\ s[1] \in Int /\ Head(s) = s[1] /\ \A k \in 1 .. Len(s) - 1 : Tail(s)[k] = s[k + 1]
    BY <2>1, TailOf
  <2>3. q'[Jobs] = Tail(s)
    BY <1>3, <2>1
  <2>4. QED
    BY <2>1, <2>2, <2>3
<1>5. "work" \in WorkerStates
  BY DEF WorkerStates
<1>6. /\ n' = n /\ req'[w] = C!NoReq /\ req' = [x \in Crew |-> req'[x]] /\ wpc'[w] = "work"
      /\ wpc' \in [Workers -> WorkerStates]
      /\ \A x \in Workers : x # w => req'[x] = req[x] /\ wpc'[x] = wpc[x]
      /\ CallerInv' /\ ~Unborn(w) /\ ~Joined(w)
      /\ \A x \in Workers : (Unborn(x)' <=> Unborn(x)) /\ (Joined(x)' <=> Joined(x))
  <2>1. req' = [req EXCEPT ![w] = C!NoReq] /\ out' = [x \in Crew |-> out'[x]]
    BY <1>2 DEF Returned
  <2>2. wpc[w] \notin {"none", "exited"} /\ UNCHANGED <<cap, in, nw, ppc, i, vec, closed>>
    BY <1>1, <1>2
  <2>3. QED
    BY <1>1, <1>5, <2>1, <2>2, WorkerFrame
<1>7. /\ Sent' = Sent /\ Got' = Got /\ Taken' = Taken + 1 /\ Taken \in Nat /\ Taken < n
      /\ Head(q[Jobs]) = Taken
  <2>1. Sent' = Sent /\ Got' = Got /\ Sent \in Nat /\ Sent <= n
    BY <1>1, <1>6, PoolNumbers DEF Sent, Got, PoolInv, CallerInv
  <2>2. Len(q[Jobs]) <= Sent /\ q[Jobs][1] = Taken + 1 - 1
    BY <1>4 DEF PoolInv, PlaceInv
  <2>3. Taken \in Nat /\ Taken < n /\ Taken' = Taken + 1
    BY <1>4, <2>1, <2>2, PoolNumbers, SMTT(40) DEF Taken
  <2>4. Head(q[Jobs]) = Taken
    BY <1>4, <2>2, <2>3
  <2>5. QED
    BY <2>1, <2>3, <2>4
<1>8. idx'[w] = Taken /\ idx' \in [Workers -> Int] /\ \A x \in Workers : x # w => idx'[x] = idx[x]
  BY <1>1, <1>2, <1>7 DEF PoolInv, PoolTypes
<1>9. PoolTypes'
  <2>1. out' = [t \in Crew |-> out'[t]]
    BY <1>2 DEF Returned
  <2>2. QED
    BY <1>1, <1>2, <1>3, <1>4, <1>6, <1>8, <2>1 DEF PoolInv, PoolTypes
<1>10. WorkerInv'
  <2> SUFFICES ASSUME NEW x \in Workers
               PROVE  /\ wpc'[x] = "asking" => req'[x] = Req("recv2", Jobs, 0)
                      /\ wpc'[x] = "reporting"
                            => req'[x] = Req("send", Results, <<idx'[x], fn(in[idx'[x] + 1])>>)
                      /\ idx'[x] = -1 <=> wpc'[x] \notin {"work", "reporting"}
                      /\ Unborn(x) => wpc'[x] = "none"
                      /\ Joined(x) => wpc'[x] = "exited"
    BY <1>1, <1>6 DEF WorkerInv
  <2>1. CASE x = w
    BY <1>6, <1>7, <1>8, <2>1
  <2>2. CASE x # w
    BY <1>6, <1>8, <2>2 DEF PoolInv, WorkerInv
  <2>3. QED
    BY <2>1, <2>2
<1>11. /\ \A j \in Nat : Held(j)' <=> Held(j) \/ j = Taken
       /\ \A j : Answered(j)' <=> Answered(j)
  BY <1>1, <1>3, <1>8 DEF Held, Answered
<1>12. PlaceInv'
  <2>1. \A k \in 1 .. Len(q'[Jobs]) : q'[Jobs][k] = Taken' + k - 1
    <3>1. \A k \in 1 .. Len(q'[Jobs]) : k + 1 \in 1 .. Len(q[Jobs])
      BY <1>4
    <3>2. \A k \in 1 .. Len(q[Jobs]) : q[Jobs][k] = Taken + k - 1
      BY DEF PoolInv, PlaceInv
    <3>3. ASSUME NEW k \in 1 .. Len(q'[Jobs]) PROVE q'[Jobs][k] = Taken' + k - 1
      <4>1. q'[Jobs][k] = Taken + (k + 1) - 1
        BY <1>4, <3>1, <3>2
      <4>2. QED
        BY <1>7, <4>1
    <3>4. QED
      BY <3>3
  <2>2. \A x \in Workers : idx'[x] # -1 => idx'[x] \in 0 .. Taken' - 1
    BY <1>7, <1>8 DEF PoolInv, PlaceInv
  <2>3. \A x, y \in Workers : x # y /\ idx'[x] = idx'[y] => idx'[x] = -1
    <3>1. \A x \in Workers : x # w => idx'[x] # Taken
      BY <1>7, <1>8 DEF PoolInv, PlaceInv
    <3>2. QED
      BY <1>8, <3>1 DEF PoolInv, PlaceInv
  <2>4. \A k \in 1 .. Len(q'[Results]) :
            /\ q'[Results][k][1] \in 0 .. Taken' - 1
            /\ ~\E x \in Workers : idx'[x] = q'[Results][k][1]
    <3>1. \A k \in 1 .. Len(q[Results]) : /\ q[Results][k][1] \in 0 .. Taken - 1
                                          /\ ~Held(q[Results][k][1])
      BY DEF PoolInv, PlaceInv
    <3>2. ASSUME NEW k \in 1 .. Len(q[Results])
          PROVE  /\ q[Results][k][1] \in 0 .. Taken' - 1
                 /\ \A x \in Workers : idx'[x] # q[Results][k][1]
      <4>1. q[Results][k][1] \in 0 .. Taken' - 1 /\ q[Results][k][1] # Taken
        BY <1>7, <3>1
      <4>2. QED
        BY <1>8, <3>1, <4>1 DEF Held
    <3>3. QED
      BY <1>3, <3>2
  <2>5. Len(q'[Jobs]) <= Sent'
    <3>1. Len(q[Jobs]) <= Sent
      BY DEF PoolInv, PlaceInv
    <3>2. QED
      BY <1>4, <1>7, <3>1, PoolNumbers
  <2>6. \A k, m \in 1 .. Len(q'[Results]) : q'[Results][k][1] = q'[Results][m][1] => k = m
    BY <1>3 DEF PoolInv, PlaceInv
  <2>7. QED
    BY <2>1, <2>2, <2>3, <2>4, <2>5, <2>6 DEF PlaceInv, Held
<1>13. Gone' = Gone
  <2>1. ASSUME NEW j \in 0 .. n - 1 PROVE j \in Gone' <=> j \in Gone
    <3>1. j \in Gone' <=> (j < Taken + 1 /\ ~(Held(j) \/ j = Taken) /\ ~Answered(j))
      BY <1>6, <1>7, <1>11 DEF Gone
    <3>2. j < Taken + 1 <=> j < Taken \/ j = Taken
      BY <1>7, PoolNumbers
    <3>3. QED
      BY <1>7, <3>1, <3>2 DEF Gone
  <2>2. QED
    BY <1>6, <2>1 DEF Gone
<1>14. GoneInv'
  BY <1>1, <1>7, <1>13 DEF PoolInv, GoneInv
<1>15. QED
  BY <1>6, <1>9, <1>10, <1>12, <1>14 DEF PoolInv

(* A worker sends its result: the job passes from its hands to the queue.  *)
LEMMA ReportedStep ==
    ASSUME PoolInv, NEW w \in Workers, Reported(w) PROVE PoolInv'
<1>1. /\ wpc[w] = "reporting" /\ C!Send(w) /\ idx[w] # -1 /\ ~closed[Results]
      /\ req[w] = Req("send", Results, <<idx[w], fn(in[idx[w] + 1])>>)
      /\ idx' = [idx EXCEPT ![w] = -1] /\ wpc' = [wpc EXCEPT ![w] = "ask"]
      /\ UNCHANGED <<cap, in, nw, ppc, i, vec>>
  BY DEF Reported, PoolInv, WorkerInv, CallerInv
<1> DEFINE msg == <<idx[w], fn(in[idx[w] + 1])>>
           Pairs == {<<j, fn(in[j + 1])>> : j \in Int}
<1>2. /\ Returned(w) /\ closed' = closed /\ q' = [q EXCEPT ![Results] = Append(q[Results], msg)]
  BY <1>1, PoolNumbers, SendEffect DEF PoolInv
<1>3. /\ q' = [c \in {Jobs, Results} |-> q'[c]] /\ q'[Jobs] = q[Jobs]
      /\ q'[Results] = Append(q[Results], msg) /\ q[Results] \in Seq(Pairs)
  <2>1. /\ q' = [c \in {Jobs, Results} |-> q'[c]] /\ q'[Jobs] = q[Jobs]
        /\ q'[Results] = Append(q[Results], msg)
    BY <1>2, OneQueue, TwoQueues DEF PoolInv
  <2>2. q[Results] \in Seq(Pairs)
    BY TwoQueues DEF PoolInv
  <2>3. QED
    BY <2>1, <2>2
<1>4. idx[w] \in Int /\ idx[w] \in 0 .. Taken - 1 /\ msg \in Pairs /\ msg[1] = idx[w]
  BY <1>1 DEF PoolInv, PoolTypes, PlaceInv
<1> HIDE DEF msg, Pairs
<1>5. /\ q'[Results] \in Seq(Pairs) /\ Len(q'[Results]) = Len(q[Results]) + 1
      /\ Len(q[Results]) \in Nat /\ q'[Results][Len(q[Results]) + 1] = msg
      /\ \A k \in 1 .. Len(q[Results]) : q'[Results][k] = q[Results][k]
  BY <1>3, <1>4
<1>6. "ask" \in WorkerStates
  BY DEF WorkerStates
<1>7. /\ n' = n /\ req'[w] = C!NoReq /\ req' = [x \in Crew |-> req'[x]] /\ wpc'[w] = "ask"
      /\ wpc' \in [Workers -> WorkerStates]
      /\ \A x \in Workers : x # w => req'[x] = req[x] /\ wpc'[x] = wpc[x]
      /\ CallerInv' /\ ~Unborn(w) /\ ~Joined(w)
      /\ \A x \in Workers : (Unborn(x)' <=> Unborn(x)) /\ (Joined(x)' <=> Joined(x))
  <2>1. req' = [req EXCEPT ![w] = C!NoReq] /\ out' = [x \in Crew |-> out'[x]]
    BY <1>2 DEF Returned
  <2>2. wpc[w] \notin {"none", "exited"} /\ UNCHANGED <<cap, in, nw, ppc, i, vec, closed>>
    BY <1>1, <1>2
  <2>3. QED
    BY <1>1, <1>6, <2>1, <2>2, WorkerFrame
<1>8. Sent' = Sent /\ Got' = Got /\ Taken' = Taken
  BY <1>1, <1>3, <1>7 DEF Sent, Got, Taken
<1>9. idx'[w] = -1 /\ idx' \in [Workers -> Int] /\ \A x \in Workers : x # w => idx'[x] = idx[x]
  BY <1>1 DEF PoolInv, PoolTypes
<1>10. PoolTypes'
  <2>1. out' = [t \in Crew |-> out'[t]] /\ q'[Jobs] \in Seq(Int)
    BY <1>2, <1>3, TwoQueues DEF Returned, PoolInv
  <2>2. q'[Results] \in Seq({<<x, fn(in'[x + 1])>> : x \in Int})
    BY <1>1, <1>5 DEF Pairs
  <2>3. QED
    BY <1>1, <1>2, <1>3, <1>7, <1>9, <2>1, <2>2 DEF PoolInv, PoolTypes
<1>11. WorkerInv'
  <2> SUFFICES ASSUME NEW x \in Workers
               PROVE  /\ wpc'[x] = "asking" => req'[x] = Req("recv2", Jobs, 0)
                      /\ wpc'[x] = "reporting"
                            => req'[x] = Req("send", Results, <<idx'[x], fn(in[idx'[x] + 1])>>)
                      /\ idx'[x] = -1 <=> wpc'[x] \notin {"work", "reporting"}
                      /\ Unborn(x) => wpc'[x] = "none"
                      /\ Joined(x) => wpc'[x] = "exited"
    BY <1>1, <1>7 DEF WorkerInv
  <2>1. CASE x = w
    BY <1>7, <1>9, <2>1
  <2>2. CASE x # w
    BY <1>7, <1>9, <2>2 DEF PoolInv, WorkerInv
  <2>3. QED
    BY <2>1, <2>2
<1>12. /\ \A j \in Nat : Held(j)' <=> Held(j) /\ j # idx[w]
       /\ \A j : Answered(j)' <=> Answered(j) \/ j = idx[w]
  <2>1. \A j \in Nat : Held(j)' <=> Held(j) /\ j # idx[w]
    <3>1. \A x \in Workers : x # w => idx[x] # idx[w]
      BY <1>1 DEF PoolInv, PlaceInv
    <3>2. QED
      BY <1>9, <3>1 DEF Held
  <2>2. \A j : Answered(j)' <=> Answered(j) \/ j = idx[w]
    <3>1. ASSUME NEW j, Answered(j) PROVE Answered(j)'
      <4>1. PICK k \in 1 .. Len(q[Results]) : q[Results][k][1] = j
        BY <3>1 DEF Answered
      <4>2. k \in 1 .. Len(q'[Results])
        BY <1>5
      <4>3. QED
        BY <1>5, <4>1, <4>2 DEF Answered
    <3>2. ASSUME NEW j, j = idx[w] PROVE Answered(j)'
      <4>1. Len(q[Results]) + 1 \in 1 .. Len(q'[Results])
        BY <1>5
      <4>2. QED
        BY <1>4, <1>5, <3>2, <4>1 DEF Answered
    <3>3. ASSUME NEW j, Answered(j)' PROVE Answered(j) \/ j = idx[w]
      <4>1. PICK k \in 1 .. Len(q'[Results]) : q'[Results][k][1] = j
        BY <3>3 DEF Answered
      <4>2. k \in 1 .. Len(q[Results]) \/ k = Len(q[Results]) + 1
        BY <1>5
      <4>3. QED
        BY <1>4, <1>5, <4>1, <4>2 DEF Answered
    <3>4. QED
      BY <3>1, <3>2, <3>3
  <2>3. QED
    BY <2>1, <2>2
<1>13. PlaceInv'
  <2>1. \A x \in Workers : idx'[x] # -1 => idx'[x] \in 0 .. Taken - 1
    BY <1>9 DEF PoolInv, PlaceInv
  <2>2. \A x, y \in Workers : x # y /\ idx'[x] = idx'[y] => idx'[x] = -1
    BY <1>9 DEF PoolInv, PlaceInv
  <2>3. \A k \in 1 .. Len(q[Results]) : /\ q[Results][k][1] \in 0 .. Taken - 1
                                        /\ ~Held(q[Results][k][1])
    BY DEF PoolInv, PlaceInv
  <2>4. \A k \in 1 .. Len(q'[Results]) : k \in 1 .. Len(q[Results]) \/ k = Len(q[Results]) + 1
    BY <1>5
  <2>5. ASSUME NEW k \in 1 .. Len(q'[Results])
        PROVE  /\ q'[Results][k][1] \in 0 .. Taken - 1
               /\ ~\E x \in Workers : idx'[x] = q'[Results][k][1]
    <3>1. CASE k \in 1 .. Len(q[Results])
      <4>1. /\ q'[Results][k][1] \in 0 .. Taken - 1 /\ \A x \in Workers : idx[x] # q'[Results][k][1]
        BY <1>5, <2>3, <3>1 DEF Held
      <4>2. QED
        BY <1>9, <4>1
    <3>2. CASE k = Len(q[Results]) + 1
      <4>1. q'[Results][k][1] = idx[w]
        BY <1>4, <1>5, <3>2
      <4>2. \A x \in Workers : idx'[x] # idx[w]
        BY <1>1, <1>4, <1>9 DEF PoolInv, PlaceInv
      <4>3. QED
        BY <1>4, <4>1, <4>2
    <3>3. QED
      BY <2>4, <3>1, <3>2
  <2>6. ASSUME NEW k \in 1 .. Len(q'[Results]), NEW m \in 1 .. Len(q'[Results]),
               q'[Results][k][1] = q'[Results][m][1]
        PROVE  k = m
    <3>1. \A x \in 1 .. Len(q[Results]) : q[Results][x][1] # idx[w]
      BY <2>3 DEF Held
    <3>2. CASE k \in 1 .. Len(q[Results]) /\ m \in 1 .. Len(q[Results])
      <4>1. q[Results][k][1] = q[Results][m][1]
        BY <1>5, <2>6, <3>2
      <4>2. QED
        BY <3>2, <4>1 DEF PoolInv, PlaceInv
    <3>3. CASE k = Len(q[Results]) + 1 /\ m \in 1 .. Len(q[Results])
      BY <1>4, <1>5, <2>6, <3>1, <3>3
    <3>4. CASE k \in 1 .. Len(q[Results]) /\ m = Len(q[Results]) + 1
      BY <1>4, <1>5, <2>6, <3>1, <3>4
    <3>5. QED
      BY <2>4, <3>2, <3>3, <3>4
  <2>7. /\ Len(q'[Jobs]) <= Sent'
        /\ \A k \in 1 .. Len(q'[Jobs]) : q'[Jobs][k] = Taken + k - 1
    BY <1>3, <1>8 DEF PoolInv, PlaceInv
  <2>8. QED
    BY <1>8, <2>1, <2>2, <2>5, <2>6, <2>7 DEF PlaceInv, Held
<1>14. Gone' = Gone
  <2>1. ASSUME NEW j \in 0 .. n - 1 PROVE j \in Gone' <=> j \in Gone
    <3>1. Held(idx[w]) /\ j \in Nat
      BY DEF Held
    <3>2. ~Held(j)' /\ ~Answered(j)' <=> ~Held(j) /\ ~Answered(j)
      BY <1>12, <3>1
    <3>3. QED
      BY <1>7, <1>8, <3>2 DEF Gone
  <2>2. QED
    BY <1>7, <2>1 DEF Gone
<1>15. GoneInv'
  BY <1>1, <1>8, <1>14 DEF PoolInv, GoneInv
<1>16. QED
  BY <1>7, <1>10, <1>11, <1>13, <1>15 DEF PoolInv

(* Every step keeps the invariant.                                         *)
LEMMA PoolInvNext == PoolInv /\ [PoolNext]_poolVars => PoolInv'
<1> SUFFICES ASSUME PoolInv, [PoolNext]_poolVars PROVE PoolInv'
  OBVIOUS
<1>1. CASE Caller
  BY <1>1, PoolStartStep, AskStep, CloseJoinStep, JobSentStep, CollectedStep DEF Caller
<1>2. ASSUME NEW w \in Workers, Worker(w) PROVE PoolInv'
  BY <1>2, QuietWorker, GotJobStep, ReportedStep DEF Worker
<1>3. CASE UNCHANGED poolVars
  <2>1. UNCHANGED <<cap, q, closed, req, out, in, nw, ppc, i, vec, wpc, idx, n>>
    BY <1>3 DEF poolVars, chans, n
  <2>2. PoolTypes' /\ CallerInv'
    BY <2>1 DEF PoolInv, PoolTypes, CallerInv
  <2>3. WorkerInv'
    BY <2>1 DEF PoolInv, WorkerInv, Unborn, Joined
  <2>4. Sent' = Sent /\ Got' = Got
    BY <2>1 DEF Sent, Got
  <2>5. PlaceInv' /\ GoneInv'
    BY <2>1, <2>4, JobsStay
  <2>6. QED
    BY <2>2, <2>3, <2>5 DEF PoolInv
<1>4. QED
  BY <1>1, <1>2, <1>3 DEF PoolNext

-----------------------------------------------------------------------------
(* What follows.                                                           *)

JobsAt(j) == {k \in 1 .. Len(q[Jobs]) : q[Jobs][k] = j}
HoldAt(j) == {w \in Workers : idx[w] = j}
ResultsAt(j) == {k \in 1 .. Len(q[Results]) : q[Results][k][1] = j}

(* Where a job can be, and how often.                                      *)
LEMMA Places ==
    ASSUME PoolInv, NEW j \in 0 .. n - 1
    PROVE  /\ Cardinality(JobsAt(j)) = IF Taken <= j /\ j < Sent THEN 1 ELSE 0
           /\ Cardinality(HoldAt(j)) = IF Held(j) THEN 1 ELSE 0
           /\ Cardinality(ResultsAt(j)) = IF Answered(j) THEN 1 ELSE 0
           /\ Held(j) => j < Taken /\ ~Answered(j)
           /\ Answered(j) => j < Taken
<1>1. /\ \A k \in 1 .. Len(q[Jobs]) : q[Jobs][k] = Taken + k - 1
      /\ Len(q[Jobs]) \in Nat /\ Sent \in Nat /\ Taken \in Nat /\ Len(q[Jobs]) = Sent - Taken
  BY PoolNumbers DEF PoolInv, PlaceInv, Taken
<1>2. /\ \A w \in Workers : idx[w] # -1 => idx[w] \in 0 .. Taken - 1
      /\ \A w, x \in Workers : w # x /\ idx[w] = idx[x] => idx[w] = -1
      /\ \A k \in 1 .. Len(q[Results]) : /\ q[Results][k][1] \in 0 .. Taken - 1
                                         /\ ~Held(q[Results][k][1])
      /\ \A k, m \in 1 .. Len(q[Results]) : q[Results][k][1] = q[Results][m][1] => k = m
  BY DEF PoolInv, PlaceInv
<1>3. j \in Nat
  OBVIOUS
<1>4. Cardinality(JobsAt(j)) = IF Taken <= j /\ j < Sent THEN 1 ELSE 0
  <2>1. CASE Taken <= j /\ j < Sent
    <3>1. j - Taken + 1 \in 1 .. Len(q[Jobs]) /\ q[Jobs][j - Taken + 1] = j
      BY <1>1, <1>3, <2>1
    <3>2. \A k \in JobsAt(j) : k = j - Taken + 1
      BY <1>1, <1>3 DEF JobsAt
    <3>3. JobsAt(j) = {j - Taken + 1}
      BY <3>1, <3>2 DEF JobsAt
    <3>4. QED
      BY <2>1, <3>3, FS_Singleton
  <2>2. CASE ~(Taken <= j /\ j < Sent)
    <3>1. \A k \in 1 .. Len(q[Jobs]) : Taken <= q[Jobs][k] /\ q[Jobs][k] < Sent
      BY <1>1
    <3>2. JobsAt(j) = {}
      BY <2>2, <3>1 DEF JobsAt
    <3>3. QED
      BY <2>2, <3>2, FS_EmptySet
  <2>3. QED
    BY <2>1, <2>2
<1>5. Cardinality(HoldAt(j)) = IF Held(j) THEN 1 ELSE 0
  <2>1. CASE Held(j)
    <3>1. PICK w \in Workers : idx[w] = j
      BY <2>1 DEF Held
    <3>2. HoldAt(j) = {w}
      BY <1>2, <1>3, <3>1 DEF HoldAt
    <3>3. QED
      BY <2>1, <3>2, FS_Singleton
  <2>2. CASE ~Held(j)
    <3>1. HoldAt(j) = {}
      BY <2>2 DEF HoldAt, Held
    <3>2. QED
      BY <2>2, <3>1, FS_EmptySet
  <2>3. QED
    BY <2>1, <2>2
<1>6. Cardinality(ResultsAt(j)) = IF Answered(j) THEN 1 ELSE 0
  <2>1. CASE Answered(j)
    <3>1. PICK k \in 1 .. Len(q[Results]) : q[Results][k][1] = j
      BY <2>1 DEF Answered
    <3>2. ResultsAt(j) = {k}
      BY <1>2, <3>1 DEF ResultsAt
    <3>3. QED
      BY <2>1, <3>2, FS_Singleton
  <2>2. CASE ~Answered(j)
    <3>1. ResultsAt(j) = {}
      BY <2>2 DEF ResultsAt, Answered
    <3>2. QED
      BY <2>2, <3>1, FS_EmptySet
  <2>3. QED
    BY <2>1, <2>2
<1>7. /\ Held(j) => j < Taken /\ ~Answered(j)
      /\ Answered(j) => j < Taken
  BY <1>1, <1>2, <1>3 DEF Held, Answered
<1>8. QED
  BY <1>4, <1>5, <1>6, <1>7

(* No more jobs are sent or taken than there are.                          *)
LEMMA TakenBound == ASSUME PoolInv PROVE Taken \in Nat /\ Taken <= Sent /\ Sent <= n
<1>1. Sent <= n
  BY PoolNumbers DEF Sent, PoolInv, CallerInv
<1>2. Len(q[Jobs]) <= Sent
  BY DEF PoolInv, PlaceInv
<1>3. QED
  BY <1>1, <1>2, PoolNumbers DEF Taken

(* How many jobs there are.                                                *)
LEMMA JobCount == ASSUME PoolInv PROVE IsFiniteSet(0 .. n - 1) /\ Cardinality(0 .. n - 1) = n
<1>1. PICK m \in Int : m = n - 1
  BY PoolNumbers
<1>2. IsFiniteSet(0 .. m) /\ Cardinality(0 .. m) = IF 0 > m THEN 0 ELSE m - 0 + 1
  BY FS_Interval
<1>3. QED
  BY <1>1, <1>2, PoolNumbers

(* When the caller joins the workers, every job is gone.                   *)
LEMMA AllGone ==
    ASSUME PoolInv, ppc \in {"join", "done"} PROVE Gone = 0 .. n - 1
<1>1. IsFiniteSet(0 .. n - 1) /\ Cardinality(0 .. n - 1) = n
  BY JobCount
<1>2. Gone \in SUBSET (0 .. n - 1) /\ Cardinality(Gone) = n
  BY DEF Gone, Got, PoolInv, GoneInv
<1>3. QED
  BY <1>1, <1>2, FS_Subset

(* The results never outnumber the jobs that no worker holds.              *)
LEMMA RoomForResults == ASSUME PoolInv PROVE ResultsHaveRoom
<1> SUFFICES ASSUME NEW w \in Workers, wpc[w] = "reporting", Len(q[Results]) >= cap[Results]
             PROVE  FALSE
  <2>1. /\ Len(q[Results]) \in Nat /\ (n >= 1 => cap[Results] = n)
        /\ \A w \in Workers : n = 0 => wpc[w] = "none"
    <3>1. Len(q[Results]) \in Nat
      BY TwoQueues DEF PoolInv
    <3>2. n >= 1 => cap[Results] = n
      BY DEF PoolInv, PoolTypes
    <3>3. \A w \in Workers : n = 0 => wpc[w] = "none"
      BY DEF PoolInv, WorkerInv, Unborn
    <3>4. QED
      BY <3>1, <3>2, <3>3
  <2>2. \A w \in Workers : wpc[w] = "reporting" => cap[Results] \in Nat
    BY <2>1, PoolNumbers
  <2>3. QED
    BY <2>1, <2>2 DEF ResultsHaveRoom
<1>1. idx[w] \in 0 .. Taken - 1 /\ Taken <= n /\ Taken \in Nat
  <2>1. idx[w] # -1
    BY DEF PoolInv, WorkerInv
  <2>2. idx[w] \in 0 .. Taken - 1
    BY <2>1 DEF PoolInv, PlaceInv
  <2>3. QED
    BY <2>2, TakenBound, PoolNumbers
<1>2. n >= 1 /\ cap[Results] = n
  <2>1. n >= 1
    BY <1>1, PoolNumbers
  <2>2. QED
    BY <2>1 DEF PoolInv, PoolTypes
<1> DEFINE others == (0 .. n - 1) \ {idx[w]}
           f == [k \in 1 .. Len(q[Results]) |-> q[Results][k][1]]
<1>3. IsFiniteSet(others) /\ Cardinality(others) = n - 1
  <2>1. IsFiniteSet(0 .. n - 1) /\ Cardinality(0 .. n - 1) = n
    BY JobCount
  <2>2. idx[w] \in 0 .. n - 1
    BY <1>1, PoolNumbers
  <2>3. QED
    BY <2>1, <2>2, FS_RemoveElement
<1>4. /\ IsFiniteSet(1 .. Len(q[Results]))
      /\ Cardinality(1 .. Len(q[Results])) = Len(q[Results]) /\ Len(q[Results]) \in Nat
  <2>1. Len(q[Results]) \in Nat
    BY DEF PoolInv, PoolTypes
  <2>2. QED
    BY <2>1, FS_Interval
<1>5. f \in [1 .. Len(q[Results]) -> others]
  <2>1. ASSUME NEW k \in 1 .. Len(q[Results]) PROVE q[Results][k][1] \in others
    <3>1. q[Results][k][1] \in 0 .. Taken - 1 /\ ~Held(q[Results][k][1])
      BY DEF PoolInv, PlaceInv
    <3>2. q[Results][k][1] # idx[w]
      BY <3>1 DEF Held
    <3>3. QED
      BY <1>1, <3>1, <3>2, PoolNumbers
  <2>2. QED
    BY <2>1
<1>6. Cardinality(others) < Cardinality(1 .. Len(q[Results]))
  BY <1>2, <1>3, <1>4, PoolNumbers
<1> HIDE DEF others
<1>7. PICK k \in 1 .. Len(q[Results]), m \in 1 .. Len(q[Results]) : k # m /\ f[k] = f[m]
  <2> HIDE DEF f
  <2>1. QED
    BY <1>3, <1>4, <1>5, <1>6, FS_PigeonHole
<1>8. QED
  BY <1>7 DEF PoolInv, PlaceInv

(* No job is lost, done twice or reported twice, whatever the workers do;  *)
(* none of them waits for room in the results, and all have exited before  *)
(* the context they use is freed.                                          *)
THEOREM PoolAccountsForJobs == ASSUME PoolAssumption PROVE PoolSpec => []JobsAccounted
<1>1. PoolInv => JobsAccounted
  <2> SUFFICES ASSUME PoolInv PROVE JobsAccounted
    OBVIOUS
  <2>1. EachJobOnce
    <3> SUFFICES ASSUME NEW j \in 0 .. n - 1
                 PROVE  LET places == Cardinality(JobsAt(j)) + Cardinality(HoldAt(j))
                                          + Cardinality(ResultsAt(j))
                        IN /\ places <= 1
                           /\ ppc \in {"close", "closing"} => places = 1
                           /\ ppc \in {"join", "done"} => places = 0
      BY DEF EachJobOnce, Queued, Holding, JobsAt, HoldAt, ResultsAt
    <3>0. j < Taken => ~(Taken <= j)
      BY TakenBound
    <3>1. Cardinality(JobsAt(j)) + Cardinality(HoldAt(j)) + Cardinality(ResultsAt(j)) <= 1
      BY <3>0, Places
    <3>2. CASE ppc \in {"close", "closing"}
      <4>1. Sent = n /\ Got = 0
        BY <3>2 DEF Sent, Got
      <4>2. j \notin Gone
        BY <4>1, NothingGone
      <4>3. Taken <= j \/ Held(j) \/ Answered(j)
        BY <4>2, PoolNumbers DEF Gone, Taken
      <4>4. QED
        BY <3>1, <3>2, <4>1, <4>3, Places, PoolNumbers DEF Taken
    <3>3. CASE ppc \in {"join", "done"}
      <4>1. j \in Gone
        BY <3>3, AllGone
      <4>2. ~(Taken <= j) /\ ~Held(j) /\ ~Answered(j)
        BY <4>1, PoolNumbers DEF Gone, Taken
      <4>3. QED
        BY <3>1, <3>3, <4>2, Places
    <3>4. QED
      BY <3>1, <3>2, <3>3
  <2>2. ResultsHaveRoom
    BY RoomForResults
  <2>3. NoWorkerLeft
    <3> SUFFICES ASSUME ppc = "done", NEW w \in Workers PROVE wpc[w] \in {"none", "exited"}
      BY DEF NoWorkerLeft
    <3>1. Unborn(w) \/ Joined(w)
      BY PoolNumbers DEF Unborn, Joined, PoolInv, CallerInv, Workers
    <3>2. QED
      BY <3>1 DEF PoolInv, WorkerInv
  <2>4. QED
    BY <2>1, <2>2, <2>3 DEF JobsAccounted
<1>2. QED
  BY <1>1, PoolInvInit, PoolInvNext, PTL DEF PoolSpec

(* pool_map returns fn of each element at that element's place.            *)
THEOREM PoolKeepsOrder == ASSUME PoolAssumption PROVE PoolSpec => []OrderPreserved
<1>1. PoolInv => OrderPreserved
  <2> SUFFICES ASSUME PoolInv, ppc = "done" PROVE vec = [k \in 1 .. n |-> fn(in[k])]
    BY DEF OrderPreserved
  <2>1. vec = [k \in 1 .. n |-> vec[k]]
    BY DEF PoolInv, PoolTypes
  <2>2. ASSUME NEW k \in 1 .. n PROVE vec[k] = fn(in[k])
    <3>1. k - 1 \in Gone /\ (k - 1) + 1 = k
      BY AllGone, PoolNumbers
    <3>2. vec[(k - 1) + 1] = fn(in[(k - 1) + 1])
      BY <3>1 DEF PoolInv, GoneInv
    <3>3. QED
      BY <3>1, <3>2
  <2>3. QED
    BY <2>1, <2>2
<1>2. QED
  BY <1>1, PoolInvInit, PoolInvNext, PTL DEF PoolSpec
=============================================================================

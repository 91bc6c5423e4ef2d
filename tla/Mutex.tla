------------------------------- MODULE Mutex -------------------------------
(***************************************************************************)
(* The mutex builtin of the C backend (baga_Mutex): a pthread mutex beside *)
(* two atomics, owner and locked, from which mutex_lock decides - before   *)
(* it has the mutex - that the calling thread already holds it, and then   *)
(* returns without locking.                                                *)
(*                                                                         *)
(* One step is one atomic access or one pthread call.  depth[t] counts the *)
(* locked regions of the program that thread t is inside.  A region is     *)
(* left by mutex_unlock or, when an effect is raised in it with `?', with  *)
(* no unlock at all: the lock leak that the re-lock branch is there for.   *)
(***************************************************************************)
EXTENDS Naturals

CONSTANTS Threads,
          Nobody,      \* the free mutex
          MaxDepth,    \* how deep the program nests regions of one mutex
          Leaks        \* does it leave regions by raising an effect?

ASSUME MutexAssumption ==
    /\ Nobody \notin Threads
    /\ MaxDepth \in Nat
    /\ Leaks \in BOOLEAN

VARIABLES mu,             \* the pthread mutex: who holds it
          owner, locked,  \* the atomics
          pc, depth

vars == <<mu, owner, locked, pc, depth>>

\* Mutant: mutex_new leaves owner as calloc left it.
InitOwnerUnset == /\ mu = Nobody
                  /\ owner = Nobody
                  /\ locked = FALSE
                  /\ pc = [t \in Threads |-> "run"]
                  /\ depth = [t \in Threads |-> 0]

\* mutex_new: owner starts as the creating thread, locked as 0.
Init == /\ mu = Nobody
        /\ owner \in Threads
        /\ locked = FALSE
        /\ pc = [t \in Threads |-> "run"]
        /\ depth = [t \in Threads |-> 0]

Goto(t, l) == pc' = [pc EXCEPT ![t] = l]

-----------------------------------------------------------------------------
(* mutex_lock.                                                             *)

CallLock(t) == /\ pc[t] = "run" /\ depth[t] < MaxDepth
               /\ Goto(t, "loadlocked")
               /\ UNCHANGED <<mu, owner, locked, depth>>

LoadLocked(t) == /\ pc[t] = "loadlocked"
                 /\ Goto(t, IF locked THEN "loadowner" ELSE "acquire")
                 /\ UNCHANGED <<mu, owner, locked, depth>>

\* Mutant: the re-lock branch is gone; the thread goes on to lock.
LoadOwnerNever(t) ==
    /\ pc[t] = "loadowner"
    /\ Goto(t, "acquire")
    /\ UNCHANGED <<mu, owner, locked, depth>>

\* owner = self: warn and return without locking.
LoadOwner(t) ==
    /\ pc[t] = "loadowner"
    /\ IF owner = t
       THEN Goto(t, "run") /\ depth' = [depth EXCEPT ![t] = @ + 1]
       ELSE Goto(t, "acquire") /\ UNCHANGED depth
    /\ UNCHANGED <<mu, owner, locked>>

Acquire(t) == /\ pc[t] = "acquire" /\ mu = Nobody
              /\ mu' = t
              /\ Goto(t, "storeowner")
              /\ UNCHANGED <<owner, locked, depth>>

\* Mutant: locked is published before owner.
StoreOwnerLate(t) ==
    /\ pc[t] = "storeowner"
    /\ IF locked THEN owner' = t /\ Goto(t, "storelocked") /\ UNCHANGED locked
       ELSE locked' = TRUE /\ UNCHANGED <<owner, pc>>
    /\ UNCHANGED <<mu, depth>>

\* Mutant: owner is not stored, so the holder is not recognised later.
StoreOwnerForgotten(t) ==
    /\ pc[t] = "storeowner"
    /\ Goto(t, "storelocked")
    /\ UNCHANGED <<mu, owner, locked, depth>>

StoreOwner(t) == /\ pc[t] = "storeowner"
                 /\ owner' = t
                 /\ Goto(t, "storelocked")
                 /\ UNCHANGED <<mu, locked, depth>>

StoreLocked(t) == /\ pc[t] = "storelocked"
                  /\ locked' = TRUE
                  /\ depth' = [depth EXCEPT ![t] = @ + 1]
                  /\ Goto(t, "run")
                  /\ UNCHANGED <<mu, owner>>

-----------------------------------------------------------------------------
(* mutex_unlock, and the way out of a region that skips it.                *)

CallUnlock(t) == /\ pc[t] = "run" /\ depth[t] > 0
                 /\ depth' = [depth EXCEPT ![t] = @ - 1]
                 /\ Goto(t, "clear")
                 /\ UNCHANGED <<mu, owner, locked>>

Clear(t) == /\ pc[t] = "clear"
            /\ locked' = FALSE
            /\ Goto(t, "release")
            /\ UNCHANGED <<mu, owner, depth>>

\* pthread_mutex_unlock of a default mutex asks nobody whose it is.
Release(t) == /\ pc[t] = "release"
              /\ mu' = Nobody
              /\ Goto(t, "run")
              /\ UNCHANGED <<owner, locked, depth>>

Raise(t) == /\ Leaks
            /\ pc[t] = "run" /\ depth[t] > 0
            /\ depth' = [depth EXCEPT ![t] = @ - 1]
            /\ UNCHANGED <<mu, owner, locked, pc>>

Inside(t) == LoadLocked(t) \/ LoadOwner(t) \/ Acquire(t) \/ StoreOwner(t) \/ StoreLocked(t)
                \/ Clear(t) \/ Release(t)

Next == \E t \in Threads : CallLock(t) \/ CallUnlock(t) \/ Raise(t) \/ Inside(t)

Spec == Init /\ [][Next]_vars

(* A thread inside a call runs on and a region that is entered is left by  *)
(* an unlock.  Nothing is assumed of the order in which waiters are served.*)
Fairness == \A t \in Threads : WF_vars(Inside(t)) /\ WF_vars(CallUnlock(t))

FairSpec == Spec /\ Fairness

-----------------------------------------------------------------------------
(* Properties.                                                             *)

(* Type invariant: owner always names a thread, also before the first lock. *)
TypeOK == /\ mu \in Threads \cup {Nobody}
          /\ owner \in Threads
          /\ locked \in BOOLEAN
          /\ pc \in [Threads -> {"run", "loadlocked", "loadowner", "acquire", "storeowner",
                                 "storelocked", "clear", "release"}]
          /\ depth \in [Threads -> Nat]

(* Two threads are never inside a region at the same time, although the    *)
(* decision not to lock is taken from two unlocked reads and although a    *)
(* region may have been left with the mutex still held.                    *)
MutualExclusion == \A t, u \in Threads : depth[t] > 0 /\ depth[u] > 0 => t = u

(* A thread never waits for a mutex it holds itself: whoever holds it is   *)
(* recognised, so a leaked lock is found again instead of deadlocking.     *)
NoSelfDeadlock == \A t \in Threads : pc[t] = "acquire" => mu # t

\* The holder has left its region by a raised effect and has not come back.
Leaked == \E t \in Threads : mu = t /\ depth[t] = 0 /\ pc[t] = "run"

(* A mutex that somebody waits for goes to somebody, unless it is leaked:  *)
(* the two atomics never keep everybody out.                               *)
MutexIsGranted == \A t \in Threads :
    (pc[t] = "acquire") ~> ((\E u \in Threads : depth[u] > 0) \/ Leaked)
=============================================================================

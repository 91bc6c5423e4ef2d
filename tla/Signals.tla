------------------------------ MODULE Signals ------------------------------
(***************************************************************************)
(* The one slot for a pending signal (baga_sig_seen).  The handler stores  *)
(* the signal's number whenever the kernel delivers one; signal_clear      *)
(* reads the slot and zeroes it in two steps; signal_wait polls it, and    *)
(* every one of its returns reads the slot a second time.  One step is one *)
(* access of the slot.  The 50 ms naps of a bounded wait are counted down  *)
(* in left; -1 stands for an unlimited one.                                *)
(***************************************************************************)
EXTENDS Integers

CONSTANTS Sigs,      \* signal numbers a program asks for
          Waiters,   \* the threads that call the builtins
          MaxNaps    \* the longest bounded wait, in naps

VARIABLES seen, watched,
          spc,       \* where each thread is in its call
          napsLeft,  \* its naps, and
          got,       \* what it has seen of the slot; also what the call returned
          wiped      \* has a signal_clear zeroed the slot during this wait?

signalsVars == <<seen, watched, spc, napsLeft, got, wiped>>

SignalsInit == /\ seen = 0 /\ watched = {}
               /\ spc = [t \in Waiters |-> "idle"]
               /\ napsLeft = [t \in Waiters |-> 0]
               /\ got = [t \in Waiters |-> 0]
               /\ wiped = [t \in Waiters |-> FALSE]

Valid(s) == s > 0 /\ s < 64

\* signal_watch of a number the kernel has no signal for answers -1.
SignalWatch(s) == /\ Valid(s) /\ watched' = watched \cup {s}
                  /\ UNCHANGED <<seen, spc, napsLeft, got, wiped>>

\* Delivery of a watched signal, by the kernel or by signal_raise; without a
\* handler the default action of the signal would end the process.
Handler(s) == /\ s \in watched /\ seen' = s
              /\ UNCHANGED <<watched, spc, napsLeft, got, wiped>>

Step(t, l) == spc' = [spc EXCEPT ![t] = l]

\* signal_check.
SignalCheck(t) == /\ spc[t] = "idle"
                  /\ got' = [got EXCEPT ![t] = seen]
                  /\ UNCHANGED <<seen, watched, spc, napsLeft, wiped>>

ClearRead(t) == /\ spc[t] = "idle" /\ Step(t, "zero")
                /\ got' = [got EXCEPT ![t] = seen]
                /\ UNCHANGED <<seen, watched, napsLeft, wiped>>

ClearZero(t) == /\ spc[t] = "zero" /\ Step(t, "idle")
                /\ seen' = 0
                /\ wiped' = [u \in Waiters |-> wiped[u] \/ spc[u] \in {"poll", "answer"}]
                /\ UNCHANGED <<watched, napsLeft, got>>

\* signal_wait(ms): the first look.  ms = 0 is a poll.
WaitBegin(t, naps) ==
    /\ spc[t] = "idle"
    /\ wiped' = [wiped EXCEPT ![t] = FALSE]
    /\ napsLeft' = [napsLeft EXCEPT ![t] = naps]
    /\ IF seen # 0 THEN Step(t, "answer") /\ UNCHANGED got
       ELSE IF naps = 0 THEN got' = [got EXCEPT ![t] = 0] /\ UNCHANGED spc
       ELSE Step(t, "poll") /\ UNCHANGED got
    /\ UNCHANGED <<seen, watched>>

\* Mutant: the unlimited wait naps once and then answers.
WaitPollOnce(t) ==
    /\ spc[t] = "poll" /\ Step(t, "answer")
    /\ UNCHANGED <<seen, watched, napsLeft, got, wiped>>

\* Mutant: the loop looks at the slot only while naps are left.
WaitPollBlind(t) ==
    /\ spc[t] = "poll" /\ napsLeft[t] >= 0
    /\ IF napsLeft[t] = 0 THEN Step(t, "answer") /\ UNCHANGED napsLeft
       ELSE napsLeft' = [napsLeft EXCEPT ![t] = @ - 1] /\ UNCHANGED spc
    /\ UNCHANGED <<seen, watched, got, wiped>>

\* A look at the slot and a nap; when the time is up, the last look.
WaitPoll(t) ==
    /\ spc[t] = "poll"
    /\ IF seen # 0 THEN Step(t, "answer") /\ UNCHANGED <<napsLeft, got>>
       ELSE IF napsLeft[t] = 0 THEN Step(t, "idle") /\ got' = [got EXCEPT ![t] = 0] /\ UNCHANGED napsLeft
       ELSE napsLeft' = [napsLeft EXCEPT ![t] = IF @ > 0 THEN @ - 1 ELSE @] /\ UNCHANGED <<spc, got>>
    /\ UNCHANGED <<seen, watched, wiped>>

\* return (int64_t)baga_sig_seen: the second read.
WaitAnswer(t) == /\ spc[t] = "answer" /\ Step(t, "idle")
                 /\ got' = [got EXCEPT ![t] = seen]
                 /\ UNCHANGED <<seen, watched, napsLeft, wiped>>

WaitStep(t) == ClearZero(t) \/ WaitPoll(t) \/ WaitAnswer(t)

SignalsNext == \/ \E s \in Sigs : SignalWatch(s) \/ Handler(s)
               \/ \E t \in Waiters : \/ SignalCheck(t) \/ ClearRead(t) \/ WaitStep(t)
                                     \/ \E naps \in -1..MaxNaps : WaitBegin(t, naps)

SignalsSpec == SignalsInit /\ [][SignalsNext]_signalsVars

-----------------------------------------------------------------------------

\* An unlimited signal_wait answers 0 only when a signal_clear took the signal
\* away between its two reads of the slot.
WaitTellsTheSignal == \A t \in Waiters :
    spc[t] = "answer" /\ ~wiped[t] => seen # 0

\* A signal that stays pending ends every wait, a bounded and an unlimited one.
SignalEndsWait == \A t \in Waiters :
    (<>[](seen # 0)) => []<>(spc[t] \notin {"poll", "answer"})
=============================================================================

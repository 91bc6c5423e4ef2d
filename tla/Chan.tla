-------------------------------- MODULE Chan --------------------------------
(***************************************************************************)
(* The channel monitor of the !Par runtime (baga_Chan): a ring buffer of   *)
(* i64 values behind one pthread mutex and two condition variables, and    *)
(* the builtins chan_send, chan_recv, chan_recv2, chan_try_recv,           *)
(* chan_recv_timeout, chan_select2, chan_select2_wait,                     *)
(* chan_select2_timeout, chan_close and chan_len.                          *)
(*                                                                         *)
(* One step is one critical section of one call: everything a thread does  *)
(* from pthread_mutex_lock to the unlock or the pthread_cond_wait that     *)
(* releases the mutex.  notEmpty[c] and notFull[c] are the threads asleep  *)
(* on the two condition variables; a thread that has been signalled is out *)
(* of the set but still has to win the mutex and look at the predicate     *)
(* again.                                                                  *)
(***************************************************************************)
EXTENDS Integers, Sequences, FiniteSets

CONSTANTS Threads,   \* the OS threads that make calls
          Chans,     \* the channels; a channel is its address, so 0 is NULL
          ReqCap,    \* the capacity each chan_new was asked for
          Vals,      \* the values that are sent
          Junk,      \* what malloc left in a slot of buf
          Prog       \* Prog[t]: the calls thread t of the program may make

AllOps == {"send", "recv", "recv2", "try_recv", "recv_timeout", "select2",
           "select2_wait", "select2_timeout", "close", "len"}
RecvOps == {"recv", "recv2", "recv_timeout"}
SelectOps == {"select2", "select2_wait", "select2_timeout"}

Null == 0
Handles == Chans \cup {Null}

Requests == [op : AllOps, c0 : Handles, c1 : Handles, v : Vals \cup {0}]

ASSUME ChanAssumption ==
    /\ IsFiniteSet(Threads)
    /\ Chans \subseteq Nat \ {0}
    /\ ReqCap \in [Chans -> Int]
    /\ Vals \subseteq Int
    /\ Junk \in Int \ Vals
    /\ Prog \in [Threads -> SUBSET {r \in Requests : r.op = "send" => r.v \in Vals}]

VARIABLES
    buf, head, len, closed,   \* the fields of each baga_Chan
    notEmpty, notFull,        \* its condition variables
    pc,                       \* where each thread is
    req,                      \* the call it is inside
    loc,                      \* the locals of chan_select2 and flip
    out                       \* the answer of its last call

chanVars == <<buf, head, len, closed, notEmpty, notFull>>
vars == <<buf, head, len, closed, notEmpty, notFull, pc, req, loc, out>>

\* chan_new: a capacity below 1 is raised to 1.
Cap == [c \in Chans |-> IF ReqCap[c] < 1 THEN 1 ELSE ReqCap[c]]

NoReq == [op |-> "none", c0 |-> Null, c1 |-> Null, v |-> 0]
NoLoc == [la |-> 0, ca |-> TRUE, lb |-> 0, cb |-> TRUE, flip |-> FALSE]
NoOut == [op |-> "none", code |-> 0, v |-> 0]

Init == /\ buf = [c \in Chans |-> [i \in 0 .. Cap[c] - 1 |-> Junk]]
        /\ head = [c \in Chans |-> 0]
        /\ len = [c \in Chans |-> 0]
        /\ closed = [c \in Chans |-> FALSE]
        /\ notEmpty = [c \in Chans |-> {}]
        /\ notFull = [c \in Chans |-> {}]
        /\ pc = [t \in Threads |-> "idle"]
        /\ req = [t \in Threads |-> NoReq]
        /\ loc = [t \in Threads |-> NoLoc]
        /\ out = [t \in Threads |-> NoOut]

-----------------------------------------------------------------------------
(* Condition variables and returns.                                        *)

Asleep(t) == \E c \in Chans : t \in notEmpty[c] \/ t \in notFull[c]

\* pthread_cond_signal: wakes one sleeper, if there is one.
Signal(cond, c) ==
    IF cond[c] = {} THEN {cond}
    ELSE {[cond EXCEPT ![c] = @ \ {w}] : w \in cond[c]}

Goto(t, l) == pc' = [pc EXCEPT ![t] = l]

Return(t, code, v) ==
    /\ Goto(t, "idle")
    /\ out' = [out EXCEPT ![t] = [op |-> req[t].op, code |-> code, v |-> v]]
    /\ req' = [req EXCEPT ![t] = NoReq]
    /\ loc' = [loc EXCEPT ![t] = NoLoc]

Entry(op) == CASE op = "send" -> "send"
               [] op \in RecvOps -> "recv"
               [] op \in SelectOps -> "snap0"
               [] OTHER -> op

(* A thread that is in no call makes one of its program.                   *)
Invoke(t) == \E r \in Prog[t] :
    /\ pc[t] = "idle"
    /\ Goto(t, Entry(r.op))
    /\ req' = [req EXCEPT ![t] = r]
    /\ out' = [out EXCEPT ![t] = NoOut]
    /\ UNCHANGED <<chanVars, loc>>

-----------------------------------------------------------------------------
(* The operations on one channel.                                          *)

\* Mutants of the next two: an index one slot too far, no signal, and the
\* "optimisation" of signalling only on the empty/full edge.
DequeueNoSignal(c) ==
    /\ head' = [head EXCEPT ![c] = (@ + 1) % Cap[c]]
    /\ len' = [len EXCEPT ![c] = @ - 1]
    /\ UNCHANGED <<buf, closed, notEmpty, notFull>>

EnqueueOffByOne(c, v) ==
    /\ buf' = [buf EXCEPT ![c][(head[c] + len[c] + 1) % Cap[c]] = v]
    /\ len' = [len EXCEPT ![c] = @ + 1]
    /\ notEmpty' \in Signal(notEmpty, c)
    /\ UNCHANGED <<head, closed, notFull>>

EnqueueNoSignal(c, v) ==
    /\ buf' = [buf EXCEPT ![c][(head[c] + len[c]) % Cap[c]] = v]
    /\ len' = [len EXCEPT ![c] = @ + 1]
    /\ UNCHANGED <<head, closed, notEmpty, notFull>>

EnqueueSignalIfEmpty(c, v) ==
    /\ buf' = [buf EXCEPT ![c][(head[c] + len[c]) % Cap[c]] = v]
    /\ len' = [len EXCEPT ![c] = @ + 1]
    /\ IF len[c] = 0 THEN notEmpty' \in Signal(notEmpty, c) ELSE UNCHANGED notEmpty
    /\ UNCHANGED <<head, closed, notFull>>

\* The tail of every successful receive: pop buf[head] and signal a sender.
Dequeue(c) ==
    /\ head' = [head EXCEPT ![c] = (@ + 1) % Cap[c]]
    /\ len' = [len EXCEPT ![c] = @ - 1]
    /\ notFull' \in Signal(notFull, c)
    /\ UNCHANGED <<buf, closed, notEmpty>>

Enqueue(c, v) ==
    /\ buf' = [buf EXCEPT ![c][(head[c] + len[c]) % Cap[c]] = v]
    /\ len' = [len EXCEPT ![c] = @ + 1]
    /\ notEmpty' \in Signal(notEmpty, c)
    /\ UNCHANGED <<head, closed, notFull>>

\* Mutant: closed is tested before the wait and not again after it.
ChanSendStaleClosed(t) == LET c == req[t].c0 IN
    /\ pc[t] = "send" /\ ~Asleep(t)
    /\ \/ /\ c # Null => closed[c] /\ len[c] = Cap[c]
          /\ Return(t, -1, 0)
          /\ UNCHANGED chanVars
       \/ /\ c # Null /\ len[c] = Cap[c] /\ ~closed[c]
          /\ notFull' = [notFull EXCEPT ![c] = @ \cup {t}]
          /\ UNCHANGED <<buf, head, len, closed, notEmpty, pc, req, loc, out>>
       \/ /\ c # Null /\ len[c] # Cap[c]
          /\ Enqueue(c, req[t].v)
          /\ Return(t, 0, 0)

ChanSend(t) == LET c == req[t].c0 IN
    /\ pc[t] = "send" /\ ~Asleep(t)
    /\ \/ /\ c # Null => closed[c]
          /\ Return(t, -1, 0)
          /\ UNCHANGED chanVars
       \/ /\ c # Null /\ len[c] = Cap[c] /\ ~closed[c]
          /\ notFull' = [notFull EXCEPT ![c] = @ \cup {t}]
          /\ UNCHANGED <<buf, head, len, closed, notEmpty, pc, req, loc, out>>
       \/ /\ c # Null /\ len[c] # Cap[c] /\ ~closed[c]
          /\ Enqueue(c, req[t].v)
          /\ Return(t, 0, 0)

\* chan_recv answers a bare value; the cell2 receives put a status first.
OkCode(op) == IF op = "recv" THEN 0 ELSE 1
EofCode(op) == IF op = "recv_timeout" THEN 2 ELSE 0

(* chan_recv, chan_recv2 and chan_recv_timeout: the same loop.  A timed    *)
(* receive that sleeps is at "timed" until its wait ends.                  *)
ChanRecv(t) == LET c == req[t].c0 IN
    /\ pc[t] \in {"recv", "timed"} /\ ~Asleep(t)
    /\ \/ /\ c # Null => len[c] = 0 /\ closed[c]
          /\ Return(t, EofCode(req[t].op), 0)
          /\ UNCHANGED chanVars
       \/ /\ c # Null /\ len[c] = 0 /\ ~closed[c]
          /\ notEmpty' = [notEmpty EXCEPT ![c] = @ \cup {t}]
          /\ Goto(t, IF req[t].op = "recv_timeout" THEN "timed" ELSE "recv")
          /\ UNCHANGED <<buf, head, len, closed, notFull, req, loc, out>>
       \/ /\ c # Null /\ len[c] > 0
          /\ Dequeue(c)
          /\ Return(t, OkCode(req[t].op), buf[c][head[c]])

(* pthread_cond_timedwait answers ETIMEDOUT and chan_recv_timeout returns  *)
(* without looking at len again.  POSIX lets the expiring wait consume a   *)
(* signal that was sent at the same time, so the thread need not be in     *)
(* notEmpty any more.                                                      *)
RecvExpires(t) == LET c == req[t].c0 IN
    /\ pc[t] = "timed"
    /\ notEmpty' = [notEmpty EXCEPT ![c] = @ \ {t}]
    /\ Return(t, 0, 0)
    /\ UNCHANGED <<buf, head, len, closed, notFull>>

ChanTryRecv(t) == LET c == req[t].c0 IN
    /\ pc[t] = "try_recv"
    /\ \/ /\ c # Null => len[c] = 0
          /\ Return(t, IF c = Null THEN 2 ELSE IF closed[c] THEN 2 ELSE 0, 0)
          /\ UNCHANGED chanVars
       \/ /\ c # Null /\ len[c] > 0
          /\ Dequeue(c)
          /\ Return(t, 1, buf[c][head[c]])

\* Mutant: close wakes one receiver only.
ChanCloseSignalsOne(t) == LET c == req[t].c0 IN
    /\ pc[t] = "close" /\ c # Null
    /\ closed' = [closed EXCEPT ![c] = TRUE]
    /\ notEmpty' \in Signal(notEmpty, c)
    /\ notFull' = [notFull EXCEPT ![c] = {}]
    /\ Return(t, 0, 0)
    /\ UNCHANGED <<buf, head, len>>

\* Close broadcasts on both condition variables.
ChanClose(t) == LET c == req[t].c0 IN
    /\ pc[t] = "close"
    /\ \/ /\ c = Null
          /\ Return(t, -1, 0)
          /\ UNCHANGED chanVars
       \/ /\ c # Null
          /\ closed' = [closed EXCEPT ![c] = TRUE]
          /\ notEmpty' = [notEmpty EXCEPT ![c] = {}]
          /\ notFull' = [notFull EXCEPT ![c] = {}]
          /\ Return(t, 0, 0)
          /\ UNCHANGED <<buf, head, len>>

ChanLen(t) == LET c == req[t].c0 IN
    /\ pc[t] = "len"
    /\ Return(t, IF c = Null THEN 0 ELSE len[c], 0)
    /\ UNCHANGED chanVars

-----------------------------------------------------------------------------
(* chan_select2: two snapshots under two separate locks, then up to three  *)
(* try_recv calls that may each find the value already gone.               *)

\* Where a round of select2 that found nothing goes: chan_select2 answers
\* 2, the waiting forms go to sleep, the timed one unless its deadline is past.
NoneReady(t) ==
    /\ UNCHANGED chanVars
    /\ \/ /\ req[t].op \in {"select2", "select2_timeout"}
          /\ Return(t, 2, 0)
       \/ /\ req[t].op \in {"select2_wait", "select2_timeout"}
          /\ Goto(t, "selwait")
          /\ loc' = [loc EXCEPT ![t] = [NoLoc EXCEPT !.flip = loc[t].flip]]
          /\ UNCHANGED <<req, out>>

Snap0(t) == LET a == req[t].c0 IN
    /\ pc[t] = "snap0"
    /\ \/ /\ a = Null /\ req[t].c1 = Null
          /\ Return(t, 3, 0)
          /\ UNCHANGED chanVars
       \/ /\ ~(a = Null /\ req[t].c1 = Null)
          /\ loc' = [loc EXCEPT ![t].la = IF a = Null THEN 0 ELSE len[a],
                                ![t].ca = IF a = Null THEN TRUE ELSE closed[a]]
          /\ Goto(t, "snap1")
          /\ UNCHANGED <<chanVars, req, out>>

Snap1(t) == LET b == req[t].c1 IN
    /\ pc[t] = "snap1"
    /\ loc' = [loc EXCEPT ![t].lb = IF b = Null THEN 0 ELSE len[b],
                          ![t].cb = IF b = Null THEN TRUE ELSE closed[b]]
    /\ Goto(t, "decide")
    /\ UNCHANGED <<chanVars, req, out>>

\* Mutant: one closed channel is enough for the answer 3.
DecideEitherClosed(t) == LET l == loc[t] IN
    /\ pc[t] = "decide"
    /\ \/ /\ l.la = 0 /\ l.lb = 0 /\ ~(~l.ca /\ ~l.cb)
          /\ Return(t, 3, 0)
          /\ UNCHANGED chanVars
       \/ /\ l.la = 0 /\ l.lb = 0 /\ ~(l.ca \/ l.cb)
          /\ NoneReady(t)
       \/ /\ ~(l.la = 0 /\ l.lb = 0)
          /\ Goto(t, IF l.la >= l.lb THEN "take0" ELSE "take1")
          /\ UNCHANGED <<chanVars, req, loc, out>>

\* The fuller channel first; c0 on a tie.
Decide(t) == LET l == loc[t] IN
    /\ pc[t] = "decide"
    /\ \/ /\ l.la = 0 /\ l.lb = 0 /\ l.ca /\ l.cb
          /\ Return(t, 3, 0)
          /\ UNCHANGED chanVars
       \/ /\ l.la = 0 /\ l.lb = 0 /\ ~(l.ca /\ l.cb)
          /\ NoneReady(t)
       \/ /\ ~(l.la = 0 /\ l.lb = 0)
          /\ Goto(t, IF l.la >= l.lb THEN "take0" ELSE "take1")
          /\ UNCHANGED <<chanVars, req, loc, out>>

(* One try_recv inside chan_select2, on channel number which.              *)
TakeWhich(t, here, which) ==
    LET c == IF which = 0 THEN req[t].c0 ELSE req[t].c1 IN
    /\ pc[t] = here
    /\ len[c] > 0
    /\ Dequeue(c)
    /\ Return(t, which, buf[c][head[c]])

Missed(t, here, c) == pc[t] = here /\ len[c] = 0

TakePreferred(t) ==
    \/ TakeWhich(t, "take0", 0)
    \/ /\ Missed(t, "take0", req[t].c0)
       /\ Goto(t, IF loc[t].lb > 0 THEN "take1" ELSE "take0again")
       /\ UNCHANGED <<chanVars, req, loc, out>>

TakeOther(t) ==
    \/ TakeWhich(t, "take1", 1)
    \/ /\ Missed(t, "take1", req[t].c1)
       /\ loc[t].la > 0
       /\ Goto(t, "take0again")
       /\ UNCHANGED <<chanVars, req, loc, out>>
    \/ /\ Missed(t, "take1", req[t].c1)
       /\ loc[t].la = 0
       /\ NoneReady(t)

TakeAgain(t) ==
    \/ TakeWhich(t, "take0again", 0)
    \/ Missed(t, "take0again", req[t].c0) /\ NoneReady(t)

\* The channel this round sleeps on: lower address first, then alternately.
WaitChan(t) ==
    LET a == req[t].c0
        b == req[t].c1
        lo == IF a < b THEN a ELSE b
        hi == IF a < b THEN b ELSE a
    IN IF a # Null /\ b # Null THEN (IF loc[t].flip THEN hi ELSE lo)
       ELSE IF a # Null THEN a ELSE b

\* Mutant: the sleep tests len and forgets closed.
SelWaitIgnoresClosed(t) == LET c == WaitChan(t) IN
    /\ pc[t] = "selwait"
    /\ loc' = [loc EXCEPT ![t].flip = ~@]
    /\ \/ /\ len[c] = 0
          /\ notEmpty' = [notEmpty EXCEPT ![c] = @ \cup {t}]
          /\ Goto(t, "selasleep")
       \/ /\ len[c] # 0
          /\ Goto(t, "snap0")
          /\ UNCHANGED notEmpty
    /\ UNCHANGED <<buf, head, len, closed, notFull, req, out>>

(* The timed wait of chan_select2_wait (5 ms) and chan_select2_timeout     *)
(* (the deadline) on one of the two channels.                              *)
SelWait(t) == LET c == WaitChan(t) IN
    /\ pc[t] = "selwait"
    /\ loc' = [loc EXCEPT ![t].flip = ~@]
    /\ \/ /\ len[c] = 0 /\ ~closed[c]
          /\ notEmpty' = [notEmpty EXCEPT ![c] = @ \cup {t}]
          /\ Goto(t, "selasleep")
       \/ /\ ~(len[c] = 0 /\ ~closed[c])
          /\ Goto(t, "snap0")
          /\ UNCHANGED notEmpty
    /\ UNCHANGED <<buf, head, len, closed, notFull, req, out>>

\* The wait ends, by a signal or by the clock, and the loop starts over.
SelWake(t) ==
    /\ pc[t] = "selasleep" /\ ~Asleep(t)
    /\ Goto(t, "snap0")
    /\ UNCHANGED <<chanVars, req, loc, out>>

SelExpires(t) ==
    /\ pc[t] = "selasleep" /\ Asleep(t)
    /\ notEmpty' = [c \in Chans |-> notEmpty[c] \ {t}]
    /\ Goto(t, "snap0")
    /\ UNCHANGED <<buf, head, len, closed, notFull, req, loc, out>>

-----------------------------------------------------------------------------
(* POSIX lets a condition wait return although nobody signalled it.        *)
SpuriousWakeup(t) ==
    /\ Asleep(t)
    /\ notEmpty' = [c \in Chans |-> notEmpty[c] \ {t}]
    /\ notFull' = [c \in Chans |-> notFull[c] \ {t}]
    /\ UNCHANGED <<buf, head, len, closed, pc, req, loc, out>>

Select(t) == Snap0(t) \/ Snap1(t) \/ Decide(t) \/ TakePreferred(t) \/ TakeOther(t)
                \/ TakeAgain(t) \/ SelWait(t) \/ SelWake(t)

\* A step thread t takes by itself once it has a CPU.
Run(t) == ChanSend(t) \/ ChanRecv(t) \/ ChanTryRecv(t) \/ ChanClose(t) \/ ChanLen(t)
             \/ Select(t)

\* A step the clock makes.
Expires(t) == RecvExpires(t) \/ SelExpires(t)

Next == \E t \in Threads : Invoke(t) \/ Run(t) \/ Expires(t) \/ SpuriousWakeup(t)

Spec == Init /\ [][Next]_vars

(* The kernel runs every runnable thread and every timed wait expires; the *)
(* program need not make calls, and no spurious wakeup is promised.        *)
Fairness == \A t \in Threads : WF_vars(Run(t)) /\ WF_vars(Expires(t))

FairSpec == Spec /\ Fairness

-----------------------------------------------------------------------------
(* Properties.                                                             *)

Labels == {"idle", "send", "recv", "timed", "try_recv", "close", "len", "snap0", "snap1",
           "decide", "take0", "take1", "take0again", "selwait", "selasleep"}

(* Type invariant of the monitor.  The slots of buf between head and       *)
(* head + len hold values that were sent, never what malloc left there.    *)
TypeOK ==
    /\ head \in [Chans -> Nat] /\ \A c \in Chans : head[c] < Cap[c]
    /\ len \in [Chans -> Nat] /\ \A c \in Chans : len[c] <= Cap[c]
    /\ DOMAIN buf = Chans /\ \A c \in Chans : buf[c] \in [0 .. Cap[c] - 1 -> Int]
    /\ \A c \in Chans : \A i \in 0 .. len[c] - 1 : buf[c][(head[c] + i) % Cap[c]] \in Vals
    /\ closed \in [Chans -> BOOLEAN]
    /\ notEmpty \in [Chans -> SUBSET Threads]
    /\ notFull \in [Chans -> SUBSET Threads]
    /\ pc \in [Threads -> Labels]
    /\ req \in [Threads -> Requests \cup {NoReq}]
    /\ loc \in [Threads -> [la : Nat, ca : BOOLEAN, lb : Nat, cb : BOOLEAN, flip : BOOLEAN]]
    /\ out \in [Threads -> [op : AllOps \cup {"none"}, code : Int, v : Vals \cup {0}]]

(* The ring buffer read as a queue, oldest value first.                    *)
Queue(c) == [i \in 1 .. len[c] |-> buf[c][(head[c] + i - 1) % Cap[c]]]

Abs == INSTANCE AbsChan WITH q <- [c \in Chans |-> Queue(c)], cap <- Cap

(* Every builtin is atomic: whatever the interleaving of critical sections *)
(* (and of the two snapshots and three try_recv calls of chan_select2),    *)
(* the answers are those of some order of indivisible calls on bounded     *)
(* FIFO queues; select2 in particular answers 3 only when no value is left *)
(* in either channel.                                                      *)
Linearizable == Abs!Spec

(* Nobody sleeps on a closed channel: chan_close broadcasts, and every     *)
(* loop tests closed before it sleeps.                                     *)
NobodySleepsOnClosed == \A c \in Chans : closed[c] => notEmpty[c] = {} /\ notFull[c] = {}

AwakeReceivers(c) == {t \in Threads : pc[t] \in {"recv", "timed"} /\ req[t].c0 = c /\ t \notin notEmpty[c]}
AwakeSenders(c) == {t \in Threads : pc[t] = "send" /\ req[t].c0 = c /\ t \notin notFull[c]}

(* No lost wakeup of a receiver: when a chan_recv sleeps although the      *)
(* channel has values, at least that many awake receivers are on their way *)
(* to the mutex.                                                           *)
NoLostReceiver == \A c \in Chans :
    notEmpty[c] # {} => len[c] <= Cardinality(AwakeReceivers(c))

(* No lost wakeup of a sender: when a chan_send sleeps although there is   *)
(* room, at least as many awake senders are on their way as there is room. *)
NoLostSender == \A c \in Chans :
    notFull[c] # {} => Cap[c] - len[c] <= Cardinality(AwakeSenders(c))

(* No wakeup is lost on either condition variable of a channel that        *)
(* carries no timed waits.                                                 *)
NoLostWakeup == NoLostReceiver /\ NoLostSender

(* "chan_recv: Blocks if empty": a plain receive never stays blocked while *)
(* its channel holds a value.                                              *)
RecvBlocksOnlyWhileEmpty == \A t \in Threads, c \in Chans :
    (pc[t] = "recv" /\ req[t].c0 = c /\ len[c] > 0) ~> (pc[t] = "idle" \/ len[c] = 0)

(* "chan_send: Blocks if full": a send never stays blocked while its       *)
(* channel has room.                                                       *)
SendBlocksOnlyWhileFull == \A t \in Threads, c \in Chans :
    (pc[t] = "send" /\ req[t].c0 = c /\ len[c] < Cap[c]) ~> (pc[t] = "idle" \/ len[c] = Cap[c])

(* The shutdown protocol terminates: once every channel a call waits for   *)
(* is closed, the call returns, also the alternating sleep of              *)
(* chan_select2_wait that watches one channel at a time.                   *)
ClosedReleasesEveryCall == \A t \in Threads :
    (pc[t] # "idle" /\ \A c \in {req[t].c0, req[t].c1} \ {Null} : closed[c]) ~> (pc[t] = "idle")
=============================================================================

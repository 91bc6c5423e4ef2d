----------------------------- MODULE ChanProofs -----------------------------
(***************************************************************************)
(* Theorems about the channel monitor, for any number of threads and       *)
(* channels, any capacities and any program: its safety, and that it       *)
(* implements AbsChan, where every builtin is atomic.  The refinement      *)
(* mapping reads the ring buffer as a queue (Chan!Queue).                  *)
(***************************************************************************)
EXTENDS Chan, FiniteSetTheorems, SequenceTheorems, TLAPS

-----------------------------------------------------------------------------
(* Arithmetic of the ring.                                                 *)

(* An index below the capacity is left alone by the modulus.               *)
LEMMA ModSmall == ASSUME NEW n \in Nat \ {0}, NEW x \in Nat, x < n PROVE x % n = x
  OBVIOUS

(* An index that ran over the end once comes back at the front.            *)
LEMMA ModWrap ==
    ASSUME NEW n \in Nat \ {0}, NEW x \in Nat, n <= x, x < 2 * n PROVE x % n = x - n
  OBVIOUS

(* The slot after i positions from h, without a modulus.                   *)
LEMMA SlotValue ==
    ASSUME NEW n \in Nat \ {0}, NEW h \in 0 .. n - 1, NEW i \in 0 .. n
    PROVE  (h + i) % n = IF h + i < n THEN h + i ELSE h + i - n
<1> DEFINE x == h + i
<1>1. x \in Nat /\ x < 2 * n
  OBVIOUS
<1> HIDE DEF x
<1>2. CASE x < n
  BY <1>1, <1>2, ModSmall DEF x
<1>3. CASE n <= x
  <2>1. x % n = x - n
    BY <1>1, <1>3, ModWrap
  <2>2. QED
    BY <1>1, <1>3, <2>1 DEF x
<1>4. QED
  BY <1>1, <1>2, <1>3

(* The slot chan_send writes is none of the occupied ones.                 *)
LEMMA FreshSlot ==
    ASSUME NEW n \in Nat \ {0}, NEW h \in 0 .. n - 1, NEW l \in 0 .. n - 1, NEW i \in 0 .. l - 1
    PROVE  /\ (h + l) % n \in 0 .. n - 1 /\ (h + i) % n \in 0 .. n - 1
           /\ (h + i) % n # (h + l) % n
<1>1. l \in 0 .. n /\ i \in 0 .. n
  OBVIOUS
<1>2. (h + i) % n = IF h + i < n THEN h + i ELSE h + i - n
  BY <1>1, SlotValue
<1>3. (h + l) % n = IF h + l < n THEN h + l ELSE h + l - n
  BY <1>1, SlotValue
<1>4. QED
  BY <1>2, <1>3

(* A receive that advances head shifts every later position by one.        *)
LEMMA RingDequeue ==
    ASSUME NEW n \in Nat \ {0}, NEW h \in 0 .. n - 1, NEW i \in 0 .. n - 1
    PROVE  /\ (h + 1) % n \in 0 .. n - 1
           /\ (((h + 1) % n) + i) % n = (h + (i + 1)) % n
<1>1. (h + 1) % n = IF h + 1 < n THEN h + 1 ELSE h + 1 - n
  BY SlotValue, 1 \in 0 .. n
<1>2. (h + 1) % n \in 0 .. n - 1
  BY <1>1
<1>3. (h + (i + 1)) % n = IF h + (i + 1) < n THEN h + (i + 1) ELSE h + (i + 1) - n
  BY SlotValue, i + 1 \in 0 .. n
<1>4. (((h + 1) % n) + i) % n
        = IF ((h + 1) % n) + i < n THEN ((h + 1) % n) + i ELSE ((h + 1) % n) + i - n
  BY SlotValue, <1>2, i \in 0 .. n
<1>5. QED
  BY <1>1, <1>2, <1>3, <1>4

(* A capacity is a positive number, whatever chan_new was asked for.       *)
LEMMA CapType == \A c \in Chans : Cap[c] \in Nat \ {0}
  BY ChanAssumption DEF ChanAssumption, Cap

(* pthread_cond_signal wakes at most one sleeper, and one if there is one. *)
LEMMA SignalWakes ==
    ASSUME NEW cond \in [Chans -> SUBSET Threads], NEW c \in Chans,
           NEW cond2 \in Signal(cond, c)
    PROVE  /\ cond2 \in [Chans -> SUBSET Threads]
           /\ \A d \in Chans : cond2[d] \subseteq cond[d] /\ (d # c => cond2[d] = cond[d])
           /\ cond[c] # {} => \E w \in cond[c] : cond2[c] = cond[c] \ {w}
  BY DEF Signal

-----------------------------------------------------------------------------
(* The inductive invariant.                                                *)

RingOK(c) == /\ head[c] \in 0 .. Cap[c] - 1
             /\ len[c] \in 0 .. Cap[c]
             /\ buf[c] \in [0 .. Cap[c] - 1 -> Int]
             /\ \A i \in 0 .. len[c] - 1 : buf[c][(head[c] + i) % Cap[c]] \in Vals

ChanOK == /\ head \in [Chans -> Nat] /\ len \in [Chans -> Nat] /\ DOMAIN buf = Chans
          /\ buf = [c \in Chans |-> buf[c]]
          /\ closed \in [Chans -> BOOLEAN]
          /\ notEmpty \in [Chans -> SUBSET Threads]
          /\ notFull \in [Chans -> SUBSET Threads]
          /\ \A c \in Chans : RingOK(c)

ThreadOK ==
    /\ pc \in [Threads -> Labels]
    /\ req \in [Threads -> Requests \cup {NoReq}]
    /\ loc \in [Threads -> [la : Nat, ca : BOOLEAN, lb : Nat, cb : BOOLEAN, flip : BOOLEAN]]
    /\ out \in [Threads -> [op : AllOps \cup {"none"}, code : Int, v : Vals \cup {0}]]

\* What the label of a thread says about the call it is inside.
SelLabels == {"snap0", "snap1", "decide", "take0", "take1", "take0again", "selwait", "selasleep"}

Shape(t) ==
    /\ pc[t] = "idle" => req[t] = NoReq
    /\ pc[t] # "idle" => req[t] \in Requests
    /\ pc[t] = "send" => req[t].op = "send" /\ req[t].v \in Vals
    /\ pc[t] \in {"recv", "timed"} => req[t].op \in RecvOps
    /\ pc[t] = "timed" => req[t].op = "recv_timeout" /\ req[t].c0 \in Chans
    /\ pc[t] \in {"try_recv", "close", "len"} => req[t].op = pc[t]
    /\ pc[t] \in SelLabels => req[t].op \in SelectOps
    /\ pc[t] \in SelLabels \ {"snap0"} => ~(req[t].c0 = Null /\ req[t].c1 = Null)
    /\ pc[t] \in {"take0", "take0again"} => req[t].c0 \in Chans
    /\ pc[t] = "take1" => req[t].c1 \in Chans
    /\ pc[t] \in {"selwait", "selasleep"} => req[t].op # "select2"
    /\ pc[t] \in SelLabels /\ loc[t].la > 0 => req[t].c0 \in Chans
    /\ pc[t] \in SelLabels /\ loc[t].lb > 0 => req[t].c1 \in Chans
    /\ pc[t] \notin SelLabels => loc[t] = NoLoc

LocalInv == \A t \in Threads : Shape(t)

\* Closed and drained: it stays so.
Gone(c) == c = Null \/ (closed[c] /\ len[c] = 0)

\* A snapshot of chan_select2 that saw a channel closed and empty is still true.
SnapInv == \A t \in Threads :
    /\ pc[t] \in {"snap1", "decide"} /\ loc[t].la = 0 /\ loc[t].ca => Gone(req[t].c0)
    /\ pc[t] = "decide" /\ loc[t].lb = 0 /\ loc[t].cb => Gone(req[t].c1)

\* Who sleeps where.
SleepInv == \A t \in Threads, c \in Chans :
    /\ t \in notEmpty[c] => \/ pc[t] \in {"recv", "timed"} /\ req[t].c0 = c
                            \/ pc[t] = "selasleep" /\ c \in {req[t].c0, req[t].c1}
    /\ t \in notFull[c] => pc[t] = "send" /\ req[t].c0 = c

Inv == ChanOK /\ ThreadOK /\ LocalInv /\ SnapInv /\ SleepInv

(* The invariant contains the type invariant.                              *)
LEMMA InvTypes == ChanOK /\ ThreadOK => TypeOK
  BY CapType DEF ChanOK, ThreadOK, RingOK, TypeOK

(* The state after every chan_new satisfies the invariant.                 *)
LEMMA InvInit == Init => Inv
<1> SUFFICES ASSUME Init PROVE Inv
  OBVIOUS
<1> USE DEF Init
<1>1. ChanOK
  BY CapType, ChanAssumption DEF ChanOK, RingOK, ChanAssumption
<1>2. ThreadOK
  BY DEF ThreadOK, Labels, NoReq, NoLoc, NoOut
<1>3. LocalInv
  BY DEF LocalInv, Shape, NoReq, NoLoc, SelLabels
<1>4. SnapInv /\ SleepInv
  BY DEF SnapInv, SleepInv
<1>5. QED
  BY <1>1, <1>2, <1>3, <1>4 DEF Inv

-----------------------------------------------------------------------------
(* The building blocks of the actions.                                     *)

(* Storing a value keeps the ring: its occupied slots hold sent values.    *)
LEMMA EnqueueRing ==
    ASSUME ChanOK, NEW c \in Chans, NEW v \in Vals, len[c] # Cap[c], Enqueue(c, v)
    PROVE  ChanOK'
<1> DEFINE n == Cap[c]
           h == head[c]
           l == len[c]
           b == buf[c]
           b2 == buf'[c]
<1>1. n \in Nat \ {0} /\ h \in 0 .. n - 1 /\ l \in 0 .. n - 1 /\ b \in [0 .. n - 1 -> Int]
  BY CapType DEF ChanOK, RingOK
<1>2. v \in Int
  BY ChanAssumption DEF ChanAssumption
<1>3. /\ b2 = [b EXCEPT ![(h + l) % n] = v]
      /\ \A d \in Chans \ {c} : buf'[d] = buf[d]
      /\ buf' = [d \in Chans |-> buf'[d]] /\ DOMAIN buf' = Chans
  BY DEF Enqueue, ChanOK
<1>4. /\ len' \in [Chans -> Nat] /\ len'[c] = l + 1
      /\ \A d \in Chans \ {c} : len'[d] = len[d]
      /\ head' = head
  BY <1>1 DEF Enqueue, ChanOK
<1> HIDE DEF n, h, l, b, b2
<1>5. /\ b2 \in [0 .. n - 1 -> Int]
      /\ b2[(h + l) % n] = v
      /\ \A i \in 0 .. l - 1 : b2[(h + i) % n] = b[(h + i) % n]
  <2>1. (h + l) % n \in 0 .. n - 1
    <3>1. l \in 0 .. n
      BY <1>1
    <3>2. (h + l) % n = IF h + l < n THEN h + l ELSE h + l - n
      BY <1>1, <3>1, SlotValue
    <3>3. QED
      BY <1>1, <3>2
  <2>2. \A i \in 0 .. l - 1 : (h + i) % n \in 0 .. n - 1 /\ (h + i) % n # (h + l) % n
    BY <1>1, FreshSlot
  <2>3. QED
    BY <1>1, <1>2, <1>3, <2>1, <2>2
<1>6. RingOK(c)'
  <2>1. ASSUME NEW i \in 0 .. l PROVE b2[(h + i) % n] \in Vals
    <3>1. CASE i = l
      BY <1>5, <3>1
    <3>2. CASE i \in 0 .. l - 1
      BY <1>5, <3>2 DEF ChanOK, RingOK, n, h, l, b
    <3>3. QED
      BY <1>1, <3>1, <3>2
  <2>2. QED
    BY <2>1, <1>1, <1>4, <1>5, SMTT(40) DEF RingOK, n, h, l, b2
<1>7. \A d \in Chans \ {c} : RingOK(d)'
  BY <1>3, <1>4 DEF ChanOK, RingOK
<1>8. notEmpty' \in [Chans -> SUBSET Threads] /\ UNCHANGED <<closed, notFull>>
  BY SignalWakes DEF Enqueue, ChanOK
<1>9. QED
  BY <1>3, <1>4, <1>6, <1>7, <1>8 DEF ChanOK

(* Taking the oldest value keeps the ring and yields a value that was sent. *)
LEMMA DequeueRing ==
    ASSUME ChanOK, NEW c \in Chans, len[c] > 0, Dequeue(c)
    PROVE  ChanOK' /\ buf[c][head[c]] \in Vals
<1> DEFINE n == Cap[c]
           h == head[c]
           l == len[c]
<1>1. n \in Nat \ {0} /\ h \in 0 .. n - 1 /\ l \in 1 .. n
  BY CapType DEF ChanOK, RingOK
<1>2. buf[c][h] \in Vals
  <2>1. (h + 0) % n = h
    BY <1>1, ModSmall
  <2>2. 0 \in 0 .. l - 1
    BY <1>1
  <2>3. QED
    BY <2>1, <2>2 DEF ChanOK, RingOK
<1>3. /\ head' \in [Chans -> Nat] /\ head'[c] = (h + 1) % n /\ head'[c] \in 0 .. n - 1
      /\ len' \in [Chans -> Nat] /\ len'[c] = l - 1
      /\ \A d \in Chans \ {c} : head'[d] = head[d] /\ len'[d] = len[d]
      /\ buf' = buf
  <2>1. (h + 1) % n \in 0 .. n - 1
    BY <1>1, RingDequeue, 0 \in 0 .. n - 1
  <2>2. (h + 1) % n \in Nat
    BY <1>1, <2>1
  <2>3. QED
    BY <1>1, <2>1, <2>2 DEF Dequeue, ChanOK
<1>4. RingOK(c)'
  <2>1. ASSUME NEW i \in 0 .. (l - 1) - 1 PROVE buf[c][(head'[c] + i) % n] \in Vals
    <3>1. i \in 0 .. n - 1 /\ i + 1 \in 0 .. l - 1
      BY <1>1
    <3>2. (head'[c] + i) % n = (h + (i + 1)) % n
      <4> HIDE DEF n, h, l
      <4>1. (((h + 1) % n) + i) % n = (h + (i + 1)) % n
        BY <1>1, <3>1, RingDequeue
      <4>2. head'[c] = (h + 1) % n
        BY <1>3
      <4>3. QED
        BY <4>1, <4>2
    <3>3. QED
      BY <3>1, <3>2 DEF ChanOK, RingOK
  <2>2. QED
    BY <1>1, <1>3, <2>1 DEF ChanOK, RingOK
<1>5. \A d \in Chans \ {c} : RingOK(d)'
  BY <1>3 DEF ChanOK, RingOK
<1>6. notFull' \in [Chans -> SUBSET Threads] /\ UNCHANGED <<closed, notEmpty>>
  BY SignalWakes DEF Dequeue, ChanOK
<1>7. QED
  BY <1>2, <1>3, <1>4, <1>5, <1>6 DEF ChanOK

(* A return leaves the thread idle and well typed.                         *)
LEMMA ReturnLocal ==
    ASSUME ThreadOK, LocalInv, NEW t \in Threads, pc[t] # "idle",
           NEW code \in Int, NEW v \in Vals \cup {0}, Return(t, code, v)
    PROVE  ThreadOK' /\ LocalInv'
<1>1. req[t].op \in AllOps
  BY DEF LocalInv, Shape, Requests
<1>2. ThreadOK'
  BY <1>1 DEF ThreadOK, Return, Goto, Labels, NoReq, NoLoc
<1>3. LocalInv'
  BY DEF ThreadOK, LocalInv, Shape, Return, Goto, NoReq, NoLoc, SelLabels
<1>4. QED
  BY <1>2, <1>3

\* The step is one of thread t; what was closed and drained stays so.
Others(t) == \A u \in Threads \ {t} : pc'[u] = pc[u] /\ req'[u] = req[u] /\ loc'[u] = loc[u]
GoneStays == \A c \in Handles : Gone(c) => Gone(c)'
NobodyFallsAsleep(t) == \A c \in Chans : /\ notEmpty'[c] \subseteq notEmpty[c] \ {t}
                                         /\ notFull'[c] \subseteq notFull[c] \ {t}

(* Snapshots stay true when the step is another thread's.                  *)
LEMMA SnapKept ==
    ASSUME Inv, NEW t \in Threads, Others(t), GoneStays, pc'[t] \notin {"snap1", "decide"}
    PROVE  SnapInv'
<1>1. \A u \in Threads : req[u].c0 \in Handles /\ req[u].c1 \in Handles
  BY DEF Inv, ThreadOK, Requests, NoReq, Handles
<1>2. ASSUME NEW u \in Threads
      PROVE  /\ pc'[u] \in {"snap1", "decide"} /\ loc'[u].la = 0 /\ loc'[u].ca => Gone(req[u].c0)'
             /\ pc'[u] = "decide" /\ loc'[u].lb = 0 /\ loc'[u].cb => Gone(req[u].c1)'
  <2>1. CASE u = t
    BY <2>1
  <2>2. CASE u # t
    BY <1>1, <2>2 DEF Inv, SnapInv, Others, GoneStays
  <2>3. QED
    BY <2>1, <2>2
<1>3. QED
  BY <1>2 DEF SnapInv

(* Where everybody sleeps stays right when nobody falls asleep.            *)
LEMMA SleepKept ==
    ASSUME Inv, NEW t \in Threads, Others(t), NobodyFallsAsleep(t)
    PROVE  SleepInv'
  BY DEF Inv, SleepInv, Others, NobodyFallsAsleep

(* Every return keeps the invariant.                                       *)
LEMMA ReturnStep ==
    ASSUME Inv, NEW t \in Threads, pc[t] # "idle",
           NEW code \in Int, NEW v \in Vals \cup {0}, Return(t, code, v),
           ChanOK', GoneStays, NobodyFallsAsleep(t)
    PROVE  Inv'
<1>1. Others(t) /\ pc'[t] = "idle"
  BY DEF Inv, ThreadOK, Return, Goto, Others
<1>2. ThreadOK' /\ LocalInv'
  BY ReturnLocal DEF Inv
<1>3. SnapInv' /\ SleepInv'
  BY <1>1, SnapKept, SleepKept
<1>4. QED
  BY <1>2, <1>3 DEF Inv

(* A step that leaves the channels alone disturbs nothing in them.         *)
LEMMA UnchangedChan ==
    ASSUME Inv, NEW t \in Threads, UNCHANGED chanVars
    PROVE  ChanOK' /\ GoneStays /\ (~Asleep(t) => NobodyFallsAsleep(t))
  BY DEF Inv, ChanOK, RingOK, chanVars, GoneStays, Gone, NobodyFallsAsleep, Asleep

(* A value stored by chan_send: the channel stays sound and was not gone.  *)
LEMMA EnqueueStep ==
    ASSUME Inv, NEW t \in Threads, NEW c \in Chans, NEW v \in Vals, len[c] # Cap[c],
           ~closed[c], Enqueue(c, v)
    PROVE  ChanOK' /\ GoneStays /\ (~Asleep(t) => NobodyFallsAsleep(t))
<1>1. ChanOK'
  BY EnqueueRing DEF Inv
<1>2. GoneStays
  BY DEF Enqueue, GoneStays, Gone, Handles, Inv, ChanOK
<1>3. ~Asleep(t) => NobodyFallsAsleep(t)
  BY SignalWakes DEF Enqueue, NobodyFallsAsleep, Asleep, Inv, ChanOK
<1>4. QED
  BY <1>1, <1>2, <1>3

(* A value taken by a receive: the channel stays sound and was not gone.   *)
LEMMA DequeueStep ==
    ASSUME Inv, NEW t \in Threads, NEW c \in Chans, len[c] > 0, Dequeue(c)
    PROVE  /\ ChanOK' /\ GoneStays /\ (~Asleep(t) => NobodyFallsAsleep(t))
           /\ buf[c][head[c]] \in Vals
<1>1. ChanOK' /\ buf[c][head[c]] \in Vals
  BY DequeueRing DEF Inv
<1>2. GoneStays
  BY DEF Dequeue, GoneStays, Gone, Handles, Inv, ChanOK
<1>3. ~Asleep(t) => NobodyFallsAsleep(t)
  BY SignalWakes DEF Dequeue, NobodyFallsAsleep, Asleep, Inv, ChanOK
<1>4. QED
  BY <1>1, <1>2, <1>3

(* A thread sleeps at three labels only.                                   *)
LEMMA AwakeElsewhere ==
    ASSUME Inv, NEW t \in Threads, pc[t] \notin {"send", "recv", "timed", "selasleep"}
    PROVE  ~Asleep(t)
  BY DEF Inv, SleepInv, Asleep

(* What a request can be.                                                  *)
LEMMA ReqType ==
    ASSUME Inv, NEW t \in Threads
    PROVE  req[t].c0 \in Handles /\ req[t].c1 \in Handles
  BY DEF Inv, ThreadOK, Requests, NoReq, Handles

-----------------------------------------------------------------------------
(* One lemma per action.                                                   *)

(* Making a call.                                                          *)
LEMMA InvokeInv == ASSUME Inv, NEW t \in Threads, Invoke(t) PROVE Inv'
<1>1. PICK r \in Prog[t] : /\ pc[t] = "idle"
                           /\ Goto(t, Entry(r.op))
                           /\ req' = [req EXCEPT ![t] = r]
                           /\ out' = [out EXCEPT ![t] = NoOut]
                           /\ UNCHANGED <<chanVars, loc>>
  BY DEF Invoke
<1>2. r \in Requests /\ (r.op = "send" => r.v \in Vals)
  BY ChanAssumption DEF ChanAssumption
<1>3. Entry(r.op) \in {"send", "recv", "try_recv", "close", "len", "snap0"}
  BY <1>2 DEF Requests, Entry, AllOps, RecvOps, SelectOps
<1>4. ThreadOK'
  BY <1>1, <1>2, <1>3 DEF Inv, ThreadOK, Goto, Labels, NoOut
<1>5. Others(t) /\ pc'[t] = Entry(r.op) /\ req'[t] = r /\ loc'[t] = NoLoc
  BY <1>1 DEF Inv, ThreadOK, LocalInv, Shape, SelLabels, Goto, Others
<1>6. Shape(t)'
  BY <1>2, <1>5 DEF Shape, Entry, SelLabels, NoLoc, Requests, AllOps, RecvOps, SelectOps
<1>7. LocalInv'
  BY <1>5, <1>6 DEF LocalInv, Shape, Others, Inv
<1>8. ~Asleep(t) /\ ChanOK' /\ GoneStays /\ NobodyFallsAsleep(t)
  BY <1>1, AwakeElsewhere, UnchangedChan
<1>9. SnapInv' /\ SleepInv'
  BY <1>3, <1>5, <1>8, SnapKept, SleepKept
<1>10. QED
  BY <1>4, <1>7, <1>8, <1>9 DEF Inv

(* chan_send.                                                              *)
LEMMA SendInv == ASSUME Inv, NEW t \in Threads, ChanSend(t) PROVE Inv'
<1> DEFINE c == req[t].c0
<1>1. pc[t] = "send" /\ ~Asleep(t) /\ c \in Handles /\ req[t].v \in Vals
  BY ReqType DEF ChanSend, Inv, LocalInv, Shape
<1>2. CASE Return(t, -1, 0) /\ UNCHANGED chanVars
  BY <1>1, <1>2, UnchangedChan, ReturnStep
<1>3. CASE /\ c # Null /\ len[c] = Cap[c] /\ ~closed[c]
           /\ notFull' = [notFull EXCEPT ![c] = @ \cup {t}]
           /\ UNCHANGED <<buf, head, len, closed, notEmpty, pc, req, loc, out>>
  <2>1. c \in Chans
    BY <1>1, <1>3 DEF Handles
  <2>2. ChanOK'
    BY <1>3, <2>1 DEF Inv, ChanOK, RingOK
  <2>3. SleepInv'
    BY <1>1, <1>3, <2>1 DEF Inv, ChanOK, SleepInv
  <2>4. QED
    BY <1>3, <2>2, <2>3 DEF Inv, ThreadOK, LocalInv, Shape, SnapInv, Gone
<1>4. CASE /\ c # Null /\ len[c] # Cap[c] /\ ~closed[c]
           /\ Enqueue(c, req[t].v)
           /\ Return(t, 0, 0)
  <2>1. c \in Chans
    BY <1>1, <1>4 DEF Handles
  <2>2. ChanOK' /\ GoneStays /\ NobodyFallsAsleep(t)
    BY <1>1, <1>4, <2>1, EnqueueStep
  <2>3. QED
    BY <1>1, <1>4, <2>2, ReturnStep
<1>5. QED
  BY <1>2, <1>3, <1>4 DEF ChanSend

(* chan_recv, chan_recv2 and chan_recv_timeout.                            *)
LEMMA RecvInv == ASSUME Inv, NEW t \in Threads, ChanRecv(t) PROVE Inv'
<1> DEFINE c == req[t].c0
<1>1. pc[t] \in {"recv", "timed"} /\ ~Asleep(t) /\ c \in Handles
  BY ReqType DEF ChanRecv
<1>2. CASE Return(t, EofCode(req[t].op), 0) /\ UNCHANGED chanVars
  BY <1>1, <1>2, UnchangedChan, ReturnStep DEF EofCode
<1>3. CASE /\ c # Null /\ len[c] = 0 /\ ~closed[c]
           /\ notEmpty' = [notEmpty EXCEPT ![c] = @ \cup {t}]
           /\ Goto(t, IF req[t].op = "recv_timeout" THEN "timed" ELSE "recv")
           /\ UNCHANGED <<buf, head, len, closed, notFull, req, loc, out>>
  <2>1. c \in Chans
    BY <1>1, <1>3 DEF Handles
  <2>2. ChanOK'
    BY <1>3, <2>1 DEF Inv, ChanOK, RingOK
  <2>3. Others(t) /\ pc'[t] \in {"recv", "timed"} /\ GoneStays
    BY <1>3 DEF Inv, ThreadOK, Goto, Others, GoneStays, Gone
  <2>4. SleepInv'
    BY <1>1, <1>3, <2>1, <2>3 DEF Inv, ChanOK, SleepInv, Others
  <2>5. ThreadOK' /\ LocalInv'
    BY <1>1, <1>3, <2>1 DEF Inv, ThreadOK, LocalInv, Shape, Goto, Labels, RecvOps, SelLabels
  <2>6. SnapInv'
    BY <2>3, SnapKept
  <2>7. QED
    BY <2>2, <2>4, <2>5, <2>6 DEF Inv
<1>4. CASE /\ c # Null /\ len[c] > 0
           /\ Dequeue(c)
           /\ Return(t, OkCode(req[t].op), buf[c][head[c]])
  <2>1. c \in Chans
    BY <1>1, <1>4 DEF Handles
  <2>2. ChanOK' /\ GoneStays /\ NobodyFallsAsleep(t) /\ buf[c][head[c]] \in Vals
    BY <1>1, <1>4, <2>1, DequeueStep
  <2>3. OkCode(req[t].op) \in Int
    BY DEF OkCode
  <2>4. QED
    BY <1>1, <1>4, <2>2, <2>3, ReturnStep
<1>5. QED
  BY <1>2, <1>3, <1>4 DEF ChanRecv

(* The timeout of chan_recv_timeout.                                       *)
LEMMA RecvExpiresInv == ASSUME Inv, NEW t \in Threads, RecvExpires(t) PROVE Inv'
<1> DEFINE c == req[t].c0
<1>1. pc[t] = "timed" /\ c \in Chans
  BY DEF RecvExpires, Inv, LocalInv, Shape
<1>2. ChanOK' /\ GoneStays
  BY <1>1 DEF RecvExpires, Inv, ChanOK, RingOK, GoneStays, Gone
<1>3. NobodyFallsAsleep(t)
  BY <1>1 DEF RecvExpires, Inv, ChanOK, SleepInv, NobodyFallsAsleep
<1>4. QED
  BY <1>1, <1>2, <1>3, ReturnStep DEF RecvExpires

(* chan_try_recv.                                                          *)
LEMMA TryRecvInv == ASSUME Inv, NEW t \in Threads, ChanTryRecv(t) PROVE Inv'
<1> DEFINE c == req[t].c0
<1>1. pc[t] = "try_recv" /\ ~Asleep(t) /\ c \in Handles
  BY ReqType, AwakeElsewhere DEF ChanTryRecv
<1>2. CASE /\ Return(t, IF c = Null THEN 2 ELSE IF closed[c] THEN 2 ELSE 0, 0)
           /\ UNCHANGED chanVars
  BY <1>1, <1>2, UnchangedChan, ReturnStep
<1>3. CASE /\ c # Null /\ len[c] > 0
           /\ Dequeue(c)
           /\ Return(t, 1, buf[c][head[c]])
  <2>1. c \in Chans
    BY <1>1, <1>3 DEF Handles
  <2>2. ChanOK' /\ GoneStays /\ NobodyFallsAsleep(t) /\ buf[c][head[c]] \in Vals
    BY <1>1, <1>3, <2>1, DequeueStep
  <2>3. QED
    BY <1>1, <1>3, <2>2, ReturnStep
<1>4. QED
  BY <1>2, <1>3 DEF ChanTryRecv

(* chan_close.                                                             *)
LEMMA CloseInv == ASSUME Inv, NEW t \in Threads, ChanClose(t) PROVE Inv'
<1> DEFINE c == req[t].c0
<1>1. pc[t] = "close" /\ ~Asleep(t) /\ c \in Handles
  BY ReqType, AwakeElsewhere DEF ChanClose
<1>2. CASE Return(t, -1, 0) /\ UNCHANGED chanVars
  BY <1>1, <1>2, UnchangedChan, ReturnStep
<1>3. CASE /\ c # Null
           /\ closed' = [closed EXCEPT ![c] = TRUE]
           /\ notEmpty' = [notEmpty EXCEPT ![c] = {}]
           /\ notFull' = [notFull EXCEPT ![c] = {}]
           /\ Return(t, 0, 0)
           /\ UNCHANGED <<buf, head, len>>
  <2>1. ChanOK' /\ GoneStays
    BY <1>3 DEF Inv, ChanOK, RingOK, GoneStays, Gone, Handles
  <2>2. NobodyFallsAsleep(t)
    BY <1>1, <1>3 DEF Inv, ChanOK, NobodyFallsAsleep, Asleep
  <2>3. QED
    BY <1>1, <1>3, <2>1, <2>2, ReturnStep
<1>4. QED
  BY <1>2, <1>3 DEF ChanClose

(* chan_len.                                                               *)
LEMMA LenInv == ASSUME Inv, NEW t \in Threads, ChanLen(t) PROVE Inv'
<1>1. pc[t] = "len" /\ ~Asleep(t) /\ req[t].c0 \in Handles
  BY ReqType, AwakeElsewhere DEF ChanLen
<1>2. (IF req[t].c0 = Null THEN 0 ELSE len[req[t].c0]) \in Int
  BY <1>1 DEF Inv, ChanOK, Handles
<1>3. QED
  BY <1>1, <1>2, UnchangedChan, ReturnStep DEF ChanLen

-----------------------------------------------------------------------------
(* The steps of chan_select2 and of its waiting forms.                     *)

LocType == [la : Nat, ca : BOOLEAN, lb : Nat, cb : BOOLEAN, flip : BOOLEAN]

\* A step in which thread t moves inside its call and touches no channel.
Moves(t) == /\ UNCHANGED <<chanVars, req, out>>
            /\ pc' = [pc EXCEPT ![t] = pc'[t]] /\ pc'[t] \in Labels
            /\ loc' = [loc EXCEPT ![t] = loc'[t]] /\ loc'[t] \in LocType

(* A move inside a call keeps what is said of the other threads.           *)
LEMMA MoveStep ==
    ASSUME Inv, NEW t \in Threads, ~Asleep(t), Moves(t), Shape(t)',
           pc'[t] \in {"snap1", "decide"} /\ loc'[t].la = 0 /\ loc'[t].ca => Gone(req[t].c0),
           pc'[t] = "decide" /\ loc'[t].lb = 0 /\ loc'[t].cb => Gone(req[t].c1)
    PROVE  Inv'
<1>1. ChanOK' /\ GoneStays /\ NobodyFallsAsleep(t)
  BY UnchangedChan DEF Moves
<1>2. Others(t) /\ ThreadOK'
  BY DEF Moves, Others, Inv, ThreadOK, LocType
<1>3. LocalInv'
  BY <1>2 DEF LocalInv, Shape, Others, Inv
<1>4. SnapInv'
  <2>1. ASSUME NEW u \in Threads
        PROVE  /\ pc'[u] \in {"snap1", "decide"} /\ loc'[u].la = 0 /\ loc'[u].ca => Gone(req[u].c0)
               /\ pc'[u] = "decide" /\ loc'[u].lb = 0 /\ loc'[u].cb => Gone(req[u].c1)
    <3>1. CASE u = t
      BY <3>1
    <3>2. CASE u # t
      BY <1>2, <3>2 DEF Inv, SnapInv, Others
    <3>3. QED
      BY <3>1, <3>2
  <2>2. QED
    BY <2>1 DEF SnapInv, Moves, Gone, chanVars
<1>5. QED
  BY <1>1, <1>2, <1>3, <1>4, SleepKept DEF Inv

(* The first snapshot.                                                     *)
LEMMA Snap0Inv == ASSUME Inv, NEW t \in Threads, Snap0(t) PROVE Inv'
<1> DEFINE a == req[t].c0
<1>1. /\ pc[t] = "snap0" /\ ~Asleep(t) /\ a \in Handles /\ req[t] \in Requests
      /\ req[t].op \in SelectOps /\ loc[t] \in LocType
      /\ loc[t].lb > 0 => req[t].c1 \in Chans
  BY ReqType, AwakeElsewhere DEF Snap0, Inv, ThreadOK, LocType, LocalInv, Shape, SelLabels
<1>2. CASE Return(t, 3, 0) /\ UNCHANGED chanVars
  BY <1>1, <1>2, UnchangedChan, ReturnStep
<1>3. CASE /\ ~(a = Null /\ req[t].c1 = Null)
           /\ loc' = [loc EXCEPT ![t].la = IF a = Null THEN 0 ELSE len[a],
                                 ![t].ca = IF a = Null THEN TRUE ELSE closed[a]]
           /\ Goto(t, "snap1")
           /\ UNCHANGED <<chanVars, req, out>>
  <2>1. (a # Null => a \in Chans /\ len[a] \in Nat /\ closed[a] \in BOOLEAN)
    BY <1>1 DEF Handles, Inv, ChanOK
  <2>2. /\ loc' = [loc EXCEPT ![t] = loc'[t]]
        /\ loc'[t].la = IF a = Null THEN 0 ELSE len[a]
        /\ loc'[t].ca = IF a = Null THEN TRUE ELSE closed[a]
        /\ loc'[t].lb = loc[t].lb
        /\ loc'[t] \in LocType
    BY <1>1, <1>3, <2>1 DEF Inv, ThreadOK, LocType
  <2>3. pc'[t] = "snap1" /\ Moves(t)
    BY <1>3, <2>2 DEF Moves, Goto, Labels, Inv, ThreadOK
  <2>4. Shape(t)'
    BY <1>1, <1>3, <2>1, <2>2, <2>3 DEF Shape, SelLabels
  <2>5. loc'[t].la = 0 /\ loc'[t].ca => Gone(a)
    BY <2>1, <2>2 DEF Gone
  <2>6. QED
    BY <1>1, <2>3, <2>4, <2>5, MoveStep
<1>4. QED
  BY <1>2, <1>3 DEF Snap0

(* The second snapshot.                                                    *)
LEMMA Snap1Inv == ASSUME Inv, NEW t \in Threads, Snap1(t) PROVE Inv'
<1> DEFINE b == req[t].c1
<1>1. /\ pc[t] = "snap1" /\ ~Asleep(t) /\ b \in Handles /\ req[t] \in Requests
      /\ req[t].op \in SelectOps /\ loc[t] \in LocType
      /\ loc[t].la > 0 => req[t].c0 \in Chans
      /\ ~(req[t].c0 = Null /\ b = Null)
      /\ loc[t].la = 0 /\ loc[t].ca => Gone(req[t].c0)
  BY ReqType, AwakeElsewhere DEF Snap1, Inv, ThreadOK, LocType, LocalInv, Shape, SelLabels, SnapInv
<1>2. (b # Null => b \in Chans /\ len[b] \in Nat /\ closed[b] \in BOOLEAN)
  BY <1>1 DEF Handles, Inv, ChanOK
<1>3. /\ loc' = [loc EXCEPT ![t] = loc'[t]]
      /\ loc'[t].lb = IF b = Null THEN 0 ELSE len[b]
      /\ loc'[t].cb = IF b = Null THEN TRUE ELSE closed[b]
      /\ loc'[t].la = loc[t].la /\ loc'[t].ca = loc[t].ca
      /\ loc'[t] \in LocType
  BY <1>1, <1>2 DEF Snap1, Inv, ThreadOK, LocType
<1>4. pc'[t] = "decide" /\ Moves(t)
  BY <1>3 DEF Snap1, Moves, Goto, Labels, Inv, ThreadOK
<1>5. Shape(t)'
  BY <1>1, <1>2, <1>3, <1>4 DEF Shape, SelLabels, Moves
<1>6. loc'[t].lb = 0 /\ loc'[t].cb => Gone(b)
  BY <1>2, <1>3 DEF Gone
<1>7. QED
  BY <1>1, <1>3, <1>4, <1>5, <1>6, MoveStep

(* A round that found nothing.                                             *)
LEMMA NoneReadyInv ==
    ASSUME Inv, NEW t \in Threads, pc[t] \in {"decide", "take1", "take0again"}, NoneReady(t)
    PROVE  Inv'
<1>1. /\ ~Asleep(t) /\ req[t] \in Requests /\ req[t].op \in SelectOps /\ loc[t] \in LocType
      /\ ~(req[t].c0 = Null /\ req[t].c1 = Null)
  BY AwakeElsewhere DEF Inv, ThreadOK, LocType, LocalInv, Shape, SelLabels
<1>2. CASE Return(t, 2, 0)
  BY <1>1, <1>2, UnchangedChan, ReturnStep DEF NoneReady
<1>3. CASE /\ req[t].op \in {"select2_wait", "select2_timeout"}
           /\ Goto(t, "selwait")
           /\ loc' = [loc EXCEPT ![t] = [NoLoc EXCEPT !.flip = loc[t].flip]]
           /\ UNCHANGED <<req, out>>
  <2>1. /\ loc' = [loc EXCEPT ![t] = loc'[t]] /\ loc'[t] \in LocType
        /\ loc'[t].la = 0 /\ loc'[t].lb = 0
    BY <1>1, <1>3 DEF Inv, ThreadOK, LocType, NoLoc
  <2>2. pc'[t] = "selwait" /\ Moves(t)
    BY <1>3, <2>1 DEF NoneReady, Moves, Goto, Labels, Inv, ThreadOK
  <2>3. Shape(t)'
    BY <1>1, <1>3, <2>1, <2>2 DEF Shape, SelLabels
  <2>4. QED
    BY <1>1, <2>2, <2>3, MoveStep
<1>4. QED
  BY <1>2, <1>3 DEF NoneReady

(* The decision.                                                           *)
LEMMA DecideInv == ASSUME Inv, NEW t \in Threads, Decide(t) PROVE Inv'
<1> DEFINE l == loc[t]
<1>1. /\ pc[t] = "decide" /\ ~Asleep(t) /\ req[t] \in Requests
      /\ req[t].op \in SelectOps /\ l \in LocType
      /\ ~(req[t].c0 = Null /\ req[t].c1 = Null)
      /\ l.la > 0 => req[t].c0 \in Chans
      /\ l.lb > 0 => req[t].c1 \in Chans
  BY AwakeElsewhere DEF Decide, Inv, ThreadOK, LocType, LocalInv, Shape, SelLabels
<1>2. CASE Return(t, 3, 0) /\ UNCHANGED chanVars
  BY <1>1, <1>2, UnchangedChan, ReturnStep
<1>3. CASE NoneReady(t)
  BY <1>1, <1>3, NoneReadyInv
<1>4. CASE /\ ~(l.la = 0 /\ l.lb = 0)
           /\ Goto(t, IF l.la >= l.lb THEN "take0" ELSE "take1")
           /\ UNCHANGED <<chanVars, req, loc, out>>
  <2>1. l.la \in Nat /\ l.lb \in Nat
    BY <1>1 DEF LocType
  <2>2. pc'[t] = IF l.la >= l.lb THEN "take0" ELSE "take1"
    BY <1>4 DEF Goto, Inv, ThreadOK
  <2>3. Moves(t) /\ loc'[t] = l
    BY <1>1, <1>4, <2>2 DEF Moves, Goto, Labels, Inv, ThreadOK
  <2>4. Shape(t)'
    <3>1. CASE l.la >= l.lb
      BY <1>1, <1>4, <2>1, <2>2, <2>3, <3>1 DEF Shape, SelLabels, Moves
    <3>2. CASE ~(l.la >= l.lb)
      BY <1>1, <1>4, <2>1, <2>2, <2>3, <3>2 DEF Shape, SelLabels, Moves
    <3>3. QED
      BY <3>1, <3>2
  <2>5. pc'[t] \notin {"snap1", "decide"}
    BY <2>2
  <2>6. QED
    BY <1>1, <2>3, <2>4, <2>5, MoveStep
<1>5. QED
  BY <1>2, <1>3, <1>4 DEF Decide

(* A try_recv inside chan_select2 that finds a value.                      *)
LEMMA TakeInv ==
    ASSUME Inv, NEW t \in Threads, NEW here \in {"take0", "take1", "take0again"},
           NEW which \in {0, 1}, which = 0 <=> here # "take1", TakeWhich(t, here, which)
    PROVE  Inv'
<1> DEFINE c == IF which = 0 THEN req[t].c0 ELSE req[t].c1
<1>1. pc[t] = here /\ c \in Chans /\ ~Asleep(t)
  BY AwakeElsewhere DEF TakeWhich, Inv, LocalInv, Shape
<1>2. len[c] > 0 /\ Dequeue(c) /\ Return(t, which, buf[c][head[c]])
  BY DEF TakeWhich
<1> HIDE DEF c
<1>3. ChanOK' /\ GoneStays /\ NobodyFallsAsleep(t) /\ buf[c][head[c]] \in Vals
  BY <1>1, <1>2, DequeueStep
<1>4. pc[t] # "idle" /\ which \in Int
  BY <1>1
<1>5. QED
  BY <1>2, <1>3, <1>4, ReturnStep

(* A try_recv inside chan_select2 that comes too late and tries the next.  *)
LEMMA MissInv ==
    ASSUME Inv, NEW t \in Threads, pc[t] \in {"take0", "take1"},
           NEW l \in {"take1", "take0again"}, Goto(t, l), UNCHANGED <<chanVars, req, loc, out>>,
           l = "take1" => req[t].c1 \in Chans,
           l = "take0again" => req[t].c0 \in Chans
    PROVE  Inv'
<1>1. /\ ~Asleep(t) /\ req[t] \in Requests /\ req[t].op \in SelectOps /\ loc[t] \in LocType
      /\ ~(req[t].c0 = Null /\ req[t].c1 = Null)
      /\ loc[t].la > 0 => req[t].c0 \in Chans
      /\ loc[t].lb > 0 => req[t].c1 \in Chans
  BY AwakeElsewhere DEF Inv, ThreadOK, LocType, LocalInv, Shape, SelLabels
<1>2. pc'[t] = l /\ Moves(t)
  BY <1>1 DEF Moves, Goto, Labels, Inv, ThreadOK
<1>3. Shape(t)'
  BY <1>1, <1>2 DEF Shape, SelLabels
<1>4. QED
  BY <1>1, <1>2, <1>3, MoveStep

(* The first of the three try_recv calls.                                  *)
LEMMA TakePreferredInv == ASSUME Inv, NEW t \in Threads, TakePreferred(t) PROVE Inv'
<1>1. CASE TakeWhich(t, "take0", 0)
  BY <1>1, TakeInv
<1>2. CASE /\ Missed(t, "take0", req[t].c0)
           /\ Goto(t, IF loc[t].lb > 0 THEN "take1" ELSE "take0again")
           /\ UNCHANGED <<chanVars, req, loc, out>>
  <2>1. pc[t] = "take0" /\ req[t].c0 \in Chans /\ (loc[t].lb > 0 => req[t].c1 \in Chans)
    BY <1>2 DEF Missed, Inv, LocalInv, Shape, SelLabels
  <2>2. CASE loc[t].lb > 0
    BY <1>2, <2>1, <2>2, MissInv
  <2>3. CASE ~(loc[t].lb > 0)
    BY <1>2, <2>1, <2>3, MissInv
  <2>4. QED
    BY <2>2, <2>3
<1>3. QED
  BY <1>1, <1>2 DEF TakePreferred

(* The second.                                                             *)
LEMMA TakeOtherInv == ASSUME Inv, NEW t \in Threads, TakeOther(t) PROVE Inv'
<1>1. CASE TakeWhich(t, "take1", 1)
  BY <1>1, TakeInv
<1>2. CASE /\ Missed(t, "take1", req[t].c1)
           /\ loc[t].la > 0
           /\ Goto(t, "take0again")
           /\ UNCHANGED <<chanVars, req, loc, out>>
  <2>1. pc[t] = "take1" /\ req[t].c0 \in Chans
    BY <1>2 DEF Missed, Inv, LocalInv, Shape, SelLabels
  <2>2. QED
    BY <1>2, <2>1, MissInv
<1>3. CASE Missed(t, "take1", req[t].c1) /\ NoneReady(t)
  BY <1>3, NoneReadyInv DEF Missed
<1>4. QED
  BY <1>1, <1>2, <1>3 DEF TakeOther

(* The third.                                                              *)
LEMMA TakeAgainInv == ASSUME Inv, NEW t \in Threads, TakeAgain(t) PROVE Inv'
<1>1. CASE TakeWhich(t, "take0again", 0)
  BY <1>1, TakeInv
<1>2. CASE Missed(t, "take0again", req[t].c0) /\ NoneReady(t)
  BY <1>2, NoneReadyInv DEF Missed
<1>3. QED
  BY <1>1, <1>2 DEF TakeAgain

(* The channel a waiting form sleeps on is one of its own.                 *)
LEMMA WaitChanType ==
    ASSUME Inv, NEW t \in Threads, pc[t] = "selwait"
    PROVE  WaitChan(t) \in Chans /\ WaitChan(t) \in {req[t].c0, req[t].c1}
<1>1. /\ req[t].c0 \in Handles /\ req[t].c1 \in Handles
      /\ ~(req[t].c0 = Null /\ req[t].c1 = Null)
  BY ReqType DEF Inv, LocalInv, Shape, SelLabels
<1>2. QED
  BY <1>1 DEF WaitChan, Handles

(* Falling asleep in a waiting form.                                       *)
LEMMA SelWaitInv == ASSUME Inv, NEW t \in Threads, SelWait(t) PROVE Inv'
<1> DEFINE c == WaitChan(t)
<1>1. /\ pc[t] = "selwait" /\ ~Asleep(t) /\ c \in Chans /\ c \in {req[t].c0, req[t].c1}
      /\ req[t] \in Requests /\ req[t].op \in SelectOps /\ req[t].op # "select2"
      /\ loc[t] \in LocType /\ ~(req[t].c0 = Null /\ req[t].c1 = Null)
      /\ loc[t].la > 0 => req[t].c0 \in Chans
      /\ loc[t].lb > 0 => req[t].c1 \in Chans
  BY AwakeElsewhere, WaitChanType DEF SelWait, Inv, ThreadOK, LocType, LocalInv, Shape, SelLabels
<1>2. /\ loc' = [loc EXCEPT ![t].flip = ~@]
      /\ UNCHANGED <<buf, head, len, closed, notFull, req, out>>
  BY DEF SelWait
<1> HIDE DEF c
<1>3. /\ loc' = [loc EXCEPT ![t] = loc'[t]] /\ loc'[t] \in LocType
      /\ loc'[t].la = loc[t].la /\ loc'[t].lb = loc[t].lb
  BY <1>1, <1>2 DEF Inv, ThreadOK, LocType
<1>4. CASE Goto(t, "snap0") /\ UNCHANGED notEmpty
  <2>1. pc'[t] = "snap0" /\ Moves(t)
    BY <1>2, <1>3, <1>4 DEF Moves, Goto, Labels, Inv, ThreadOK, chanVars
  <2>2. Shape(t)'
    BY <1>1, <1>3, <2>1 DEF Shape, SelLabels, Moves
  <2>3. QED
    BY <1>1, <2>1, <2>2, MoveStep
<1>5. CASE /\ notEmpty' = [notEmpty EXCEPT ![c] = @ \cup {t}]
           /\ Goto(t, "selasleep")
  <2>1. ChanOK' /\ GoneStays
    BY <1>1, <1>2, <1>5 DEF Inv, ChanOK, RingOK, GoneStays, Gone
  <2>2. Others(t) /\ pc'[t] = "selasleep" /\ ThreadOK'
    BY <1>2, <1>3, <1>5 DEF Inv, ThreadOK, Goto, Others, Labels, LocType
  <2>3. SleepInv'
    BY <1>1, <1>2, <1>5, <2>2 DEF Inv, ChanOK, SleepInv, Others
  <2>4. Shape(t)'
    BY <1>1, <1>2, <1>3, <2>2 DEF Shape, SelLabels
  <2>5. LocalInv'
    BY <2>2, <2>4 DEF LocalInv, Shape, Others, Inv
  <2>6. QED
    BY <2>1, <2>2, <2>3, <2>5, SnapKept DEF Inv
<1>6. QED
  BY <1>4, <1>5 DEF SelWait, c

(* The end of that sleep, by a signal or by the clock: the loop again.     *)
LEMMA SelResumes ==
    ASSUME Inv, NEW t \in Threads, pc[t] = "selasleep", Goto(t, "snap0"),
           notEmpty' = [c \in Chans |-> notEmpty[c] \ {t}],
           UNCHANGED <<buf, head, len, closed, notFull, req, loc, out>>
    PROVE  Inv'
<1>1. ChanOK' /\ GoneStays
  BY DEF Inv, ChanOK, RingOK, GoneStays, Gone
<1>2. NobodyFallsAsleep(t)
  BY DEF NobodyFallsAsleep, Inv, ChanOK, SleepInv
<1>3. Others(t) /\ pc'[t] = "snap0" /\ ThreadOK'
  BY DEF Inv, ThreadOK, Goto, Others, Labels
<1>4. LocalInv'
  BY <1>3 DEF LocalInv, Shape, SelLabels, Others, Inv
<1>5. QED
  BY <1>1, <1>2, <1>3, <1>4, SnapKept, SleepKept DEF Inv

(* Woken up.                                                               *)
LEMMA SelWakeInv == ASSUME Inv, NEW t \in Threads, SelWake(t) PROVE Inv'
<1>1. notEmpty' = [c \in Chans |-> notEmpty[c] \ {t}]
  BY DEF SelWake, Asleep, chanVars, Inv, ChanOK
<1>2. QED
  BY <1>1, SelResumes DEF SelWake, chanVars

(* Timed out.                                                              *)
LEMMA SelExpiresInv == ASSUME Inv, NEW t \in Threads, SelExpires(t) PROVE Inv'
  BY SelResumes DEF SelExpires

(* A spurious wakeup.                                                      *)
LEMMA SpuriousInv == ASSUME Inv, NEW t \in Threads, SpuriousWakeup(t) PROVE Inv'
<1>1. ChanOK'
  BY DEF SpuriousWakeup, Inv, ChanOK, RingOK
<1>2. SleepInv'
  BY DEF SpuriousWakeup, Inv, ChanOK, SleepInv
<1>3. QED
  BY <1>1, <1>2 DEF SpuriousWakeup, Inv, ThreadOK, LocalInv, Shape, SnapInv, Gone

(* Every step of the runtime keeps the invariant.                          *)
LEMMA InvNext == Inv /\ [Next]_vars => Inv'
<1> SUFFICES ASSUME Inv, [Next]_vars PROVE Inv'
  OBVIOUS
<1>1. CASE UNCHANGED vars
  BY <1>1 DEF vars, Inv, ChanOK, RingOK, ThreadOK, LocalInv, Shape, SnapInv, Gone, SleepInv
<1>2. ASSUME NEW t \in Threads, Invoke(t) \/ Run(t) \/ Expires(t) \/ SpuriousWakeup(t)
      PROVE  Inv'
  <2>1. CASE Invoke(t)
    BY <2>1, InvokeInv
  <2>2. CASE Run(t)
    BY <2>2, SendInv, RecvInv, TryRecvInv, CloseInv, LenInv, Snap0Inv, Snap1Inv, DecideInv,
       TakePreferredInv, TakeOtherInv, TakeAgainInv, SelWaitInv, SelWakeInv DEF Run, Select
  <2>3. CASE Expires(t)
    BY <2>3, RecvExpiresInv, SelExpiresInv DEF Expires
  <2>4. CASE SpuriousWakeup(t)
    BY <2>4, SpuriousInv
  <2>5. QED
    BY <1>2, <2>1, <2>2, <2>3, <2>4
<1>3. QED
  BY <1>1, <1>2 DEF Next

(* The ring buffer of a channel stays sound whatever the threads do: the   *)
(* indices stay in the buffer, and no receive can ever see a slot that     *)
(* chan_send has not written (malloc leaves it uninitialized).             *)
THEOREM ChanTypes == Spec => []TypeOK
<1>1. Inv => TypeOK
  BY InvTypes DEF Inv
<1>2. QED
  BY <1>1, InvInit, InvNext, PTL DEF Spec

-----------------------------------------------------------------------------
(* Nobody sleeps on a closed channel.                                      *)

\* What a step may do to the sleepers: a thread falls asleep only on an open channel, and
\* a channel that is being closed is emptied of sleepers.
SleepsOpen == \A c \in Chans :
    \/ closed'[c] = closed[c] /\ notEmpty'[c] \subseteq notEmpty[c] /\ notFull'[c] \subseteq notFull[c]
    \/ closed'[c] = closed[c] /\ ~closed[c]
    \/ notEmpty'[c] = {} /\ notFull'[c] = {}

(* The steps of one thread.                                                *)
LEMMA SleepsOpenStep ==
    ASSUME Inv, NEW t \in Threads, Invoke(t) \/ Run(t) \/ Expires(t) \/ SpuriousWakeup(t)
    PROVE  SleepsOpen
<1>1. CASE UNCHANGED chanVars
  BY <1>1 DEF SleepsOpen, chanVars
<1>2. ASSUME NEW c \in Chans, NEW v \in Vals, Enqueue(c, v) PROVE SleepsOpen
  BY <1>2, SignalWakes DEF Enqueue, SleepsOpen, Inv, ChanOK
<1>3. ASSUME NEW c \in Chans, Dequeue(c) PROVE SleepsOpen
  BY <1>3, SignalWakes DEF Dequeue, SleepsOpen, Inv, ChanOK
<1>4. req[t].c0 \in Handles /\ req[t].c1 \in Handles
  BY ReqType
<1>5. CASE ChanSend(t)
  <2>1. pc[t] = "send" /\ req[t].v \in Vals
    BY <1>5 DEF ChanSend, Inv, LocalInv, Shape
  <2>2. QED
    BY <1>1, <1>2, <1>4, <1>5, <2>1 DEF ChanSend, Handles, SleepsOpen, Inv, ChanOK
<1>6. CASE ChanRecv(t)
  BY <1>1, <1>3, <1>4, <1>6 DEF ChanRecv, Handles, SleepsOpen, Inv, ChanOK
<1>7. CASE ChanTryRecv(t)
  BY <1>1, <1>3, <1>4, <1>7 DEF ChanTryRecv, Handles
<1>8. CASE ChanClose(t)
  BY <1>1, <1>4, <1>8 DEF ChanClose, Handles, SleepsOpen, Inv, ChanOK
<1>9. CASE Invoke(t) \/ ChanLen(t) \/ Snap0(t) \/ Snap1(t) \/ Decide(t) \/ SelWake(t)
  BY <1>1, <1>9 DEF Invoke, ChanLen, Snap0, Snap1, Decide, NoneReady, SelWake
<1>10. CASE TakePreferred(t) \/ TakeOther(t) \/ TakeAgain(t)
  <2>1. ASSUME NEW here \in {"take0", "take1", "take0again"}, NEW which \in {0, 1},
               which = 0 <=> here # "take1", TakeWhich(t, here, which)
        PROVE  SleepsOpen
    BY <1>3, <2>1 DEF TakeWhich, Inv, LocalInv, Shape
  <2>2. QED
    BY <1>1, <1>10, <2>1 DEF TakePreferred, TakeOther, TakeAgain, NoneReady
<1>11. CASE SelWait(t)
  BY <1>11 DEF SelWait, SleepsOpen, Inv, ChanOK
<1>12. CASE RecvExpires(t)
  BY <1>12 DEF RecvExpires, SleepsOpen, Inv, ChanOK, LocalInv, Shape
<1>13. CASE SelExpires(t) \/ SpuriousWakeup(t)
  BY <1>13 DEF SelExpires, SpuriousWakeup, SleepsOpen
<1>14. QED
  BY <1>5, <1>6, <1>7, <1>8, <1>9, <1>10, <1>11, <1>12, <1>13 DEF Run, Select, Expires

(* A chan_send, chan_recv or chan_select2_wait that sleeps, sleeps on an   *)
(* open channel: no close leaves a thread behind, in any interleaving of   *)
(* the tests of closed, the sleeps and the broadcasts.                     *)
THEOREM ClosedHasNoSleepers == Spec => []NobodySleepsOnClosed
<1>1. Init => NobodySleepsOnClosed
  BY DEF Init, NobodySleepsOnClosed
<1>2. Inv /\ NobodySleepsOnClosed /\ [Next]_vars => NobodySleepsOnClosed'
  <2> SUFFICES ASSUME Inv, NobodySleepsOnClosed, [Next]_vars PROVE NobodySleepsOnClosed'
    OBVIOUS
  <2>1. CASE UNCHANGED vars
    BY <2>1 DEF vars, NobodySleepsOnClosed
  <2>2. CASE Next
    <3>1. SleepsOpen
      BY <2>2, SleepsOpenStep DEF Next
    <3>2. QED
      BY <3>1 DEF SleepsOpen, NobodySleepsOnClosed
  <2>3. QED
    BY <2>1, <2>2
<1>3. QED
  BY <1>1, <1>2, InvInit, InvNext, PTL DEF Spec

-----------------------------------------------------------------------------
(* Wakeups.  Whoever sleeps although it could go on is outnumbered by the  *)
(* threads that have been woken, or have just arrived, and still have to   *)
(* win the mutex.                                                          *)

Stays(t) == pc'[t] = pc[t] /\ req'[t] = req[t]

\* The call of t waits for nothing any more.
Dead(t) == req[t].c0 = Null \/ closed[req[t].c0]

\* The kinds of step, as the counts of values and of awake threads see them.
Takes(t, c) == /\ len[c] > 0 /\ Dequeue(c) /\ pc[t] # "send"
               /\ pc[t] \in {"recv", "timed"} => req[t].c0 = c
Puts(t, c) == /\ len[c] # Cap[c] /\ (\E x \in Vals : Enqueue(c, x))
              /\ pc[t] = "send" /\ req[t].c0 = c
SenderSleeps(t, c) == /\ len[c] = Cap[c] /\ len' = len /\ notEmpty' = notEmpty
                      /\ notFull' = [notFull EXCEPT ![c] = @ \cup {t}]
                      /\ req[t].c0 = c /\ Stays(t)
ReceiverSleeps(t, c) == /\ len[c] = 0 /\ len' = len /\ notFull' = notFull
                        /\ notEmpty' = [notEmpty EXCEPT ![c] = @ \cup {t}]
                        /\ \/ pc[t] = "recv" /\ pc'[t] = "recv" /\ req[t].c0 = c /\ req'[t] = req[t]
                           \/ pc[t] \in {"recv", "timed"} /\ req[t].op = "recv_timeout"
                           \/ pc[t] = "selwait"
Calm(t) == /\ len' = len
           /\ \A c \in Chans : notFull'[c] \subseteq notFull[c] /\ notEmpty'[c] \subseteq notEmpty[c]
           /\ pc[t] \in {"send", "recv"} => Stays(t) \/ Dead(t)

StepKind(t) == \/ Calm(t)
               \/ \E c \in Chans : \/ Takes(t, c) \/ Puts(t, c)
                                   \/ SenderSleeps(t, c) \/ ReceiverSleeps(t, c)

(* Every step of a thread is of one of these kinds and leaves the other    *)
(* threads where they are.                                                 *)
LEMMA StepKinds ==
    ASSUME Inv, NEW t \in Threads, Invoke(t) \/ Run(t) \/ Expires(t) \/ SpuriousWakeup(t)
    PROVE  Others(t) /\ StepKind(t)
<1>1. /\ req[t].c0 \in Handles /\ req[t].c1 \in Handles
      /\ pc \in [Threads -> Labels] /\ len \in [Chans -> Nat]
      /\ notFull \in [Chans -> SUBSET Threads] /\ notEmpty \in [Chans -> SUBSET Threads]
  BY ReqType DEF Inv, ThreadOK, ChanOK
<1>2. ASSUME UNCHANGED chanVars, pc[t] \in {"send", "recv"} => Stays(t) \/ Dead(t)
      PROVE  StepKind(t)
  BY <1>2 DEF chanVars, StepKind, Calm
<1>3. ASSUME NEW l, Goto(t, l), UNCHANGED req, \A u \in Threads \ {t} : loc'[u] = loc[u]
      PROVE  Others(t)
  BY <1>1, <1>3 DEF Goto, Others
<1>4. ASSUME NEW code, NEW v, Return(t, code, v) PROVE Others(t)
  BY <1>1, <1>4 DEF Return, Goto, Others, Inv, ThreadOK
<1>5. CASE Invoke(t)
  BY <1>1, <1>2, <1>5 DEF Invoke, Goto, Others, Inv, ThreadOK
<1>6. CASE ChanSend(t)
  <2>1. pc[t] = "send" /\ req[t].v \in Vals
    BY <1>6 DEF ChanSend, Inv, LocalInv, Shape
  <2>2. Others(t)
    BY <1>4, <1>6 DEF ChanSend, Others
  <2>3. StepKind(t)
    BY <1>1, <1>2, <1>6, <2>1
       DEF ChanSend, Handles, StepKind, Stays, Dead, Puts, SenderSleeps
  <2>4. QED
    BY <2>2, <2>3
<1>7. CASE ChanRecv(t)
  <2>1. Others(t)
    BY <1>1, <1>4, <1>7 DEF ChanRecv, Others, Goto
  <2>2. pc[t] \in {"recv", "timed"} /\ (pc[t] = "timed" => req[t].op = "recv_timeout")
    BY <1>7 DEF ChanRecv, Inv, LocalInv, Shape
  <2>3. StepKind(t)
    BY <1>1, <1>2, <1>7, <2>2
       DEF ChanRecv, Goto, Handles, StepKind, Stays, Dead, Takes, ReceiverSleeps
  <2>4. QED
    BY <2>1, <2>3
<1>8. CASE ChanTryRecv(t)
  BY <1>1, <1>2, <1>4, <1>8 DEF ChanTryRecv, Handles, StepKind, Takes
<1>9. CASE ChanClose(t)
  BY <1>1, <1>2, <1>4, <1>9 DEF ChanClose, Handles, StepKind, Calm
<1>10. CASE ChanLen(t)
  BY <1>2, <1>4, <1>10 DEF ChanLen
<1>11. CASE Snap0(t) \/ Snap1(t) \/ Decide(t) \/ SelWake(t)
  <2>1. Others(t)
    BY <1>1, <1>4, <1>11 DEF Snap0, Snap1, Decide, SelWake, NoneReady, Goto, Others, Inv, ThreadOK
  <2>2. QED
    BY <1>2, <1>11, <2>1 DEF Snap0, Snap1, Decide, NoneReady, SelWake
<1>12. CASE TakePreferred(t) \/ TakeOther(t) \/ TakeAgain(t)
  <2>1. ASSUME NEW here \in {"take0", "take1", "take0again"}, NEW which \in {0, 1},
               which = 0 <=> here # "take1", TakeWhich(t, here, which)
        PROVE  Others(t) /\ StepKind(t)
    BY <1>4, <2>1 DEF TakeWhich, Inv, LocalInv, Shape, StepKind, Takes
  <2>2. ASSUME pc[t] \in {"take0", "take1", "take0again"}, NoneReady(t)
        PROVE  Others(t) /\ StepKind(t)
    BY <1>1, <1>2, <1>4, <2>2 DEF NoneReady, Goto, Others, Inv, ThreadOK
  <2>3. ASSUME pc[t] \in {"take0", "take1", "take0again"}, NEW l, Goto(t, l),
               UNCHANGED <<chanVars, req, loc, out>>
        PROVE  Others(t) /\ StepKind(t)
    BY <1>2, <1>3, <2>3
  <2>4. QED
    BY <1>12, <2>1, <2>2, <2>3 DEF TakePreferred, TakeOther, TakeAgain, Missed
<1>13. CASE SelWait(t)
  <2>1. WaitChan(t) \in Chans
    BY <1>13, WaitChanType DEF SelWait
  <2>2. Others(t)
    BY <1>1, <1>13 DEF SelWait, Goto, Others, Inv, ThreadOK
  <2>3. StepKind(t)
    BY <1>1, <1>13, <2>1 DEF SelWait, StepKind, Calm, ReceiverSleeps
  <2>4. QED
    BY <2>2, <2>3
<1>14. CASE RecvExpires(t)
  BY <1>1, <1>4, <1>14 DEF RecvExpires, StepKind, Calm
<1>15. CASE SelExpires(t)
  BY <1>1, <1>3, <1>15 DEF SelExpires, StepKind, Calm
<1>16. CASE SpuriousWakeup(t)
  BY <1>1, <1>16 DEF SpuriousWakeup, StepKind, Calm, Stays, Others
<1>17. QED
  BY <1>5, <1>6, <1>7, <1>8, <1>9, <1>10, <1>11, <1>12, <1>13, <1>14, <1>15, <1>16
     DEF Run, Select, Expires

(* A bound by a number of threads survives when the bound does not grow,   *)
(* when one thread leaves and the bound drops, and when one thread joins   *)
(* and the bound grows by one.                                             *)
LEMMA Headcount ==
    ASSUME NEW A \in SUBSET Threads, NEW B \in SUBSET Threads, NEW x \in Threads,
           NEW n \in Int, NEW m \in Int, n <= Cardinality(A),
           \/ m <= n /\ A \subseteq B
           \/ m < n /\ A \ {x} \subseteq B
           \/ m <= n + 1 /\ A \cup {x} \subseteq B /\ x \notin A
    PROVE  m <= Cardinality(B)
<1>1. IsFiniteSet(A) /\ IsFiniteSet(B)
  BY ChanAssumption, FS_Subset DEF ChanAssumption
<1>2. Cardinality(A) \in Nat /\ Cardinality(B) \in Nat
  BY <1>1, FS_CardinalityType
<1>3. CASE m <= n /\ A \subseteq B
  BY <1>1, <1>2, <1>3, FS_Subset
<1>4. CASE m < n /\ A \ {x} \subseteq B
  <2>1. Cardinality(A \ {x}) >= Cardinality(A) - 1
    <3>1. Cardinality(A \ {x}) = IF x \in A THEN Cardinality(A) - 1 ELSE Cardinality(A)
      BY <1>1, FS_RemoveElement, Zenon
    <3>2. QED
      BY <1>2, <3>1
  <2>2. Cardinality(A \ {x}) <= Cardinality(B)
    BY <1>1, <1>4, FS_Subset
  <2>3. Cardinality(A \ {x}) \in Nat
    BY <1>1, FS_RemoveElement, FS_CardinalityType
  <2>4. QED
    BY <1>2, <1>4, <2>1, <2>2, <2>3
<1>5. CASE m <= n + 1 /\ A \cup {x} \subseteq B /\ x \notin A
  <2>1. Cardinality(A \cup {x}) = Cardinality(A) + 1
    BY <1>1, <1>5, FS_AddElement
  <2>2. Cardinality(A \cup {x}) <= Cardinality(B)
    BY <1>1, <1>5, FS_Subset
  <2>3. QED
    BY <1>2, <1>5, <2>1, <2>2
<1>6. QED
  BY <1>3, <1>4, <1>5

(* A step keeps the count of senders: a taken value comes with a signal,   *)
(* and a sender that leaves has filled a slot or found the channel closed. *)
LEMMA SendersCounted ==
    ASSUME Inv, NobodySleepsOnClosed, NoLostSender, NEW t \in Threads, Others(t), StepKind(t)
    PROVE  NoLostSender'
<1> SUFFICES ASSUME NEW c \in Chans, notFull'[c] # {}
             PROVE  Cap[c] - len'[c] <= Cardinality(AwakeSenders(c)')
  BY DEF NoLostSender
<1> DEFINE A == AwakeSenders(c)
           B == AwakeSenders(c)'
<1>1. A \in SUBSET Threads /\ B \in SUBSET Threads
  BY DEF AwakeSenders
<1>2. /\ len \in [Chans -> Nat] /\ notFull \in [Chans -> SUBSET Threads] /\ Cap[c] \in Nat
      /\ notEmpty \in [Chans -> SUBSET Threads]
  BY CapType DEF Inv, ChanOK
<1>3. notFull[c] # {} => Cap[c] - len[c] <= Cardinality(A)
  BY DEF NoLostSender
<1>4. ASSUME NEW d \in Chans, Takes(t, d) PROVE Cap[c] - len'[c] <= Cardinality(B)
  <2>1. /\ len' = [len EXCEPT ![d] = @ - 1] /\ notFull' \in Signal(notFull, d)
        /\ len[d] > 0 /\ pc[t] # "send"
    BY <1>4 DEF Takes, Dequeue
  <2>2. /\ notFull'[c] \subseteq notFull[c] /\ (d # c => notFull'[c] = notFull[c])
        /\ notFull[d] # {} => \E w \in notFull[d] : notFull'[d] = notFull[d] \ {w}
    BY <1>2, <2>1, SignalWakes
  <2>3. A \subseteq B
    BY <2>1, <2>2 DEF AwakeSenders, Others
  <2>4. CASE d # c
    BY <1>1, <1>2, <1>3, <2>1, <2>2, <2>3, <2>4, Headcount
  <2>5. CASE d = c
    <3>1. PICK w \in notFull[c] : notFull'[c] = notFull[c] \ {w}
      BY <2>2, <2>5
    <3>2. w \in Threads /\ pc[w] = "send" /\ req[w].c0 = c
      BY <1>2, <3>1 DEF Inv, SleepInv
    <3>3. w \notin A /\ w \in B
      BY <2>1, <3>1, <3>2 DEF AwakeSenders, Others
    <3>4. Cap[c] - len'[c] = Cap[c] - len[c] + 1
      BY <1>2, <2>1, <2>5
    <3>5. QED
      BY <1>1, <1>2, <1>3, <2>3, <3>1, <3>2, <3>3, <3>4, Headcount
  <2>6. QED
    BY <2>4, <2>5
<1>5. ASSUME NEW d \in Chans, Puts(t, d) PROVE Cap[c] - len'[c] <= Cardinality(B)
  <2>1. /\ len' = [len EXCEPT ![d] = @ + 1] /\ notFull' = notFull /\ req[t].c0 = d
    BY <1>5 DEF Puts, Enqueue
  <2>2. A \ {t} \subseteq B /\ (d # c => A \subseteq B)
    BY <2>1 DEF AwakeSenders, Others
  <2>3. len'[c] = IF d = c THEN len[c] + 1 ELSE len[c]
    BY <1>2, <2>1
  <2>4. QED
    BY <1>1, <1>2, <1>3, <2>1, <2>2, <2>3, Headcount
<1>6. ASSUME NEW d \in Chans, SenderSleeps(t, d) PROVE Cap[c] - len'[c] <= Cardinality(B)
  <2>1. CASE d = c
    <3>1. Cap[c] - len'[c] = 0
      BY <1>2, <1>6, <2>1 DEF SenderSleeps
    <3>2. IsFiniteSet(B)
      BY <1>1, ChanAssumption, FS_Subset DEF ChanAssumption
    <3>3. QED
      BY <3>1, <3>2, FS_CardinalityType
  <2>2. CASE d # c
    <3>1. A \subseteq B /\ len' = len /\ notFull'[c] = notFull[c]
      BY <1>2, <1>6, <2>2 DEF SenderSleeps, AwakeSenders, Others, Stays
    <3>2. QED
      BY <1>1, <1>2, <1>3, <3>1, Headcount
  <2>3. QED
    BY <2>1, <2>2
<1>7. ASSUME NEW d \in Chans, ReceiverSleeps(t, d) PROVE Cap[c] - len'[c] <= Cardinality(B)
  <2>1. A \subseteq B /\ len' = len /\ notFull' = notFull
    BY <1>7 DEF ReceiverSleeps, AwakeSenders, Others
  <2>2. QED
    BY <1>1, <1>2, <1>3, <2>1, Headcount
<1>8. ASSUME Calm(t) PROVE Cap[c] - len'[c] <= Cardinality(B)
  <2>1. len' = len /\ notFull'[c] \subseteq notFull[c]
    BY <1>8 DEF Calm
  <2>2. pc[t] = "send" /\ req[t].c0 = c => Stays(t)
    <3>1. c # Null
      BY ChanAssumption DEF ChanAssumption, Null
    <3>2. ~closed[c]
      BY <2>1 DEF NobodySleepsOnClosed
    <3>3. QED
      BY <1>8, <3>1, <3>2 DEF Calm, Dead
  <2>3. A \subseteq B
    BY <2>1, <2>2 DEF AwakeSenders, Others, Stays
  <2>4. QED
    BY <1>1, <1>2, <1>3, <2>1, <2>3, Headcount
<1>9. QED
  BY <1>4, <1>5, <1>6, <1>7, <1>8 DEF StepKind

(* No thread sleeps in chan_send while there is room that nobody awake is  *)
(* about to fill: every receive, also those of chan_select2, signals, and  *)
(* a signal can only go to a sender.  No assumption on the program.        *)
THEOREM SendersAreWoken == Spec => []NoLostSender
<1>1. Init => NobodySleepsOnClosed /\ NoLostSender
  BY DEF Init, NobodySleepsOnClosed, NoLostSender
<1>2. Inv /\ NobodySleepsOnClosed /\ NoLostSender /\ [Next]_vars => NoLostSender'
  <2> SUFFICES ASSUME Inv, NobodySleepsOnClosed, NoLostSender, [Next]_vars
               PROVE  NoLostSender'
    OBVIOUS
  <2>1. CASE UNCHANGED vars
    BY <2>1 DEF vars, NoLostSender, AwakeSenders
  <2>2. CASE Next
    BY <2>2, StepKinds, SendersCounted DEF Next
  <2>3. QED
    BY <2>1, <2>2
<1>3. QED
  BY <1>1, <1>2, InvInit, InvNext, ClosedHasNoSleepers, PTL DEF Spec

\* The waits that end by the clock: they may swallow a signal.
TimedOps == {"recv_timeout", "select2_wait", "select2_timeout"}
NoTimedWaits == \A t \in Threads : \A r \in Prog[t] : r.op \notin TimedOps

\* No thread is inside such a call.
UntimedInv == \A t \in Threads : req[t].op \notin TimedOps

(* A program without timed waits makes none.                               *)
LEMMA UntimedStep ==
    ASSUME NoTimedWaits, Inv, UntimedInv, [Next]_vars PROVE UntimedInv'
<1>1. CASE UNCHANGED vars
  BY <1>1 DEF vars, UntimedInv
<1>2. ASSUME NEW t \in Threads, Invoke(t) PROVE UntimedInv'
  BY <1>2 DEF Invoke, NoTimedWaits, UntimedInv, Inv, ThreadOK
<1>3. ASSUME NEW t \in Threads, Run(t) \/ Expires(t) \/ SpuriousWakeup(t) PROVE UntimedInv'
  <2>1. ASSUME NEW code, NEW v, Return(t, code, v) PROVE UntimedInv'
    BY <2>1 DEF Return, NoReq, UntimedInv, TimedOps, Inv, ThreadOK
  <2>2. CASE UNCHANGED req
    BY <2>2 DEF UntimedInv
  <2>3. QED
    BY <1>3, <2>1, <2>2 DEF Run, Expires, Select, SpuriousWakeup, ChanSend, ChanRecv, ChanTryRecv,
       ChanClose, ChanLen, Snap0, Snap1, Decide, NoneReady, TakePreferred, TakeOther, TakeAgain,
       TakeWhich, SelWait, SelWake, RecvExpires, SelExpires
<1>4. QED
  BY <1>1, <1>2, <1>3 DEF Next

(* A step keeps the count of receivers: a value sent comes with a signal,  *)
(* which goes to a thread that will take a value.                          *)
LEMMA ReceiversCounted ==
    ASSUME Inv, UntimedInv, NobodySleepsOnClosed, NoLostReceiver, NEW t \in Threads,
           Others(t), StepKind(t)
    PROVE  NoLostReceiver'
<1> SUFFICES ASSUME NEW c \in Chans, notEmpty'[c] # {}
             PROVE  len'[c] <= Cardinality(AwakeReceivers(c)')
  BY DEF NoLostReceiver
<1> DEFINE A == AwakeReceivers(c)
           B == AwakeReceivers(c)'
<1>1. A \in SUBSET Threads /\ B \in SUBSET Threads
  BY DEF AwakeReceivers
<1>2. /\ len \in [Chans -> Nat] /\ notFull \in [Chans -> SUBSET Threads]
      /\ notEmpty \in [Chans -> SUBSET Threads]
  BY DEF Inv, ChanOK
<1>3. notEmpty[c] # {} => len[c] <= Cardinality(A)
  BY DEF NoLostReceiver
<1>4. \A u \in Threads : pc[u] \notin {"timed", "selwait", "selasleep"}
  BY DEF Inv, LocalInv, Shape, SelLabels, SelectOps, UntimedInv, TimedOps
<1>5. ASSUME NEW d \in Chans, Takes(t, d) PROVE len'[c] <= Cardinality(B)
  <2>1. /\ len' = [len EXCEPT ![d] = @ - 1] /\ notEmpty' = notEmpty
        /\ pc[t] \in {"recv", "timed"} => req[t].c0 = d
    BY <1>5 DEF Takes, Dequeue
  <2>2. A \ {t} \subseteq B /\ (d # c => A \subseteq B)
    BY <2>1 DEF AwakeReceivers, Others
  <2>3. len'[c] = IF d = c THEN len[c] - 1 ELSE len[c]
    BY <1>2, <2>1
  <2>4. QED
    BY <1>1, <1>2, <1>3, <2>1, <2>2, <2>3, Headcount
<1>6. ASSUME NEW d \in Chans, Puts(t, d) PROVE len'[c] <= Cardinality(B)
  <2>1. /\ len' = [len EXCEPT ![d] = @ + 1] /\ notEmpty' \in Signal(notEmpty, d)
        /\ pc[t] = "send"
    BY <1>6 DEF Puts, Enqueue
  <2>2. /\ notEmpty'[c] \subseteq notEmpty[c] /\ (d # c => notEmpty'[c] = notEmpty[c])
        /\ notEmpty[d] # {} => \E w \in notEmpty[d] : notEmpty'[d] = notEmpty[d] \ {w}
    BY <1>2, <2>1, SignalWakes
  <2>3. A \subseteq B
    BY <2>1, <2>2 DEF AwakeReceivers, Others
  <2>4. CASE d # c
    BY <1>1, <1>2, <1>3, <2>1, <2>2, <2>3, <2>4, Headcount
  <2>5. CASE d = c
    <3>1. PICK w \in notEmpty[c] : notEmpty'[c] = notEmpty[c] \ {w}
      BY <2>2, <2>5
    <3>2. w \in Threads /\ pc[w] = "recv" /\ req[w].c0 = c
      BY <1>2, <1>4, <3>1 DEF Inv, SleepInv
    <3>3. w \notin A /\ w \in B
      BY <2>1, <3>1, <3>2 DEF AwakeReceivers, Others
    <3>4. len'[c] = len[c] + 1
      BY <1>2, <2>1, <2>5
    <3>5. QED
      BY <1>1, <1>2, <1>3, <2>3, <3>1, <3>2, <3>3, <3>4, Headcount
  <2>6. QED
    BY <2>4, <2>5
<1>7. ASSUME NEW d \in Chans, ReceiverSleeps(t, d) PROVE len'[c] <= Cardinality(B)
  <2>1. CASE d = c
    <3>1. len'[c] = 0
      BY <1>7, <2>1 DEF ReceiverSleeps
    <3>2. IsFiniteSet(B)
      BY <1>1, ChanAssumption, FS_Subset DEF ChanAssumption
    <3>3. QED
      BY <3>1, <3>2, FS_CardinalityType
  <2>2. CASE d # c
    <3>1. pc[t] = "recv" => pc'[t] = "recv" /\ req'[t] = req[t]
      BY <1>4, <1>7 DEF ReceiverSleeps, UntimedInv, TimedOps
    <3>2. A \subseteq B /\ len' = len /\ notEmpty'[c] = notEmpty[c]
      BY <1>2, <1>4, <1>7, <2>2, <3>1 DEF ReceiverSleeps, AwakeReceivers, Others
    <3>3. QED
      BY <1>1, <1>2, <1>3, <3>2, Headcount
  <2>3. QED
    BY <2>1, <2>2
<1>8. ASSUME NEW d \in Chans, SenderSleeps(t, d) PROVE len'[c] <= Cardinality(B)
  <2>1. A \subseteq B /\ len' = len /\ notEmpty' = notEmpty
    BY <1>8 DEF SenderSleeps, AwakeReceivers, Others, Stays
  <2>2. QED
    BY <1>1, <1>2, <1>3, <2>1, Headcount
<1>9. ASSUME Calm(t) PROVE len'[c] <= Cardinality(B)
  <2>1. len' = len /\ notEmpty'[c] \subseteq notEmpty[c]
    BY <1>9 DEF Calm
  <2>2. pc[t] = "recv" /\ req[t].c0 = c => Stays(t)
    <3>1. c # Null
      BY ChanAssumption DEF ChanAssumption, Null
    <3>2. ~closed[c]
      BY <2>1 DEF NobodySleepsOnClosed
    <3>3. QED
      BY <1>9, <3>1, <3>2 DEF Calm, Dead
  <2>3. A \subseteq B
    BY <1>4, <2>1, <2>2 DEF AwakeReceivers, Others, Stays
  <2>4. QED
    BY <1>1, <1>2, <1>3, <2>1, <2>3, Headcount
<1>10. QED
  BY <1>5, <1>6, <1>7, <1>8, <1>9 DEF StepKind

(* Without timed waits no signal goes astray in either direction: whenever *)
(* a call sleeps on a channel it could use, enough threads are awake to    *)
(* use up what is there.  With them a receiver can be left behind, as the  *)
(* run MCChanSteal shows.                                                  *)
THEOREM NoWakeupIsLost == ASSUME NoTimedWaits PROVE Spec => []NoLostWakeup
<1>1. Init => NobodySleepsOnClosed /\ UntimedInv /\ NoLostReceiver
  BY DEF Init, NobodySleepsOnClosed, UntimedInv, TimedOps, NoReq, NoLostReceiver
<1>2. Inv /\ UntimedInv /\ NobodySleepsOnClosed /\ NoLostReceiver /\ [Next]_vars => NoLostReceiver'
  <2> SUFFICES ASSUME Inv, UntimedInv, NobodySleepsOnClosed, NoLostReceiver, [Next]_vars
               PROVE  NoLostReceiver'
    OBVIOUS
  <2>1. CASE UNCHANGED vars
    BY <2>1 DEF vars, NoLostReceiver, AwakeReceivers
  <2>2. CASE Next
    BY <2>2, StepKinds, ReceiversCounted DEF Next
  <2>3. QED
    BY <2>1, <2>2
<1>3. Inv /\ UntimedInv /\ [Next]_vars => UntimedInv'
  BY UntimedStep
<1>4. NoLostReceiver /\ NoLostSender => NoLostWakeup
  BY DEF NoLostWakeup
<1>5. QED
  BY <1>1, <1>2, <1>3, <1>4, InvInit, InvNext, ClosedHasNoSleepers, SendersAreWoken, PTL DEF Spec


-----------------------------------------------------------------------------
(* The ring buffer as a sequence.                                          *)

(* The queue a ring stands for: as long as len says, oldest value first.   *)
QueueIs(c) ==
    /\ Queue(c) \in Seq(Vals)
    /\ Len(Queue(c)) = len[c]
    /\ \A i \in 1 .. len[c] : Queue(c)[i] = buf[c][(head[c] + (i - 1)) % Cap[c]]

(* A sound ring stands for such a queue.                                   *)
LEMMA QueueSeq == ChanOK => \A c \in Chans : QueueIs(c)
<1> SUFFICES ASSUME ChanOK, NEW c \in Chans PROVE QueueIs(c)
  OBVIOUS
<1>1. len[c] \in Nat /\ head[c] \in Nat
  BY DEF ChanOK
<1>2. ASSUME NEW i \in 1 .. len[c] PROVE buf[c][(head[c] + i - 1) % Cap[c]] \in Vals
  <2>1. i - 1 \in 0 .. len[c] - 1 /\ head[c] + (i - 1) = head[c] + i - 1
    BY <1>1
  <2>2. buf[c][(head[c] + (i - 1)) % Cap[c]] \in Vals
    BY <2>1 DEF ChanOK, RingOK
  <2>3. QED
    BY <2>1, <2>2
<1>3. Queue(c) \in [1 .. len[c] -> Vals]
  BY <1>2 DEF Queue
<1>4. Queue(c) \in Seq(Vals) /\ Len(Queue(c)) = len[c]
  BY <1>1, <1>3
<1>5. ASSUME NEW i \in 1 .. len[c] PROVE head[c] + i - 1 = head[c] + (i - 1)
  BY <1>1
<1>6. QED
  BY <1>4, <1>5 DEF Queue, QueueIs

(* The same of the state a step leads to.                                  *)
LEMMA QueueSeqPrime == ChanOK' => (\A c \in Chans : QueueIs(c))'
  BY QueueSeq, PTL

(* Only an empty ring is an empty queue.                                   *)
LEMMA QueueEmpty ==
    ASSUME ChanOK, NEW c \in Chans
    PROVE  Queue(c) = << >> <=> len[c] = 0
  BY QueueSeq, EmptySeq DEF ChanOK, QueueIs

(* chan_send appends.                                                      *)
LEMMA QueueAppend ==
    ASSUME ChanOK, NEW c \in Chans, NEW v \in Vals, len[c] # Cap[c], Enqueue(c, v)
    PROVE  /\ Queue(c)' = Append(Queue(c), v)
           /\ \A d \in Chans \ {c} : Queue(d)' = Queue(d)
<1> DEFINE n == Cap[c]
           h == head[c]
           l == len[c]
           old == Queue(c)
           new == Queue(c)'
<1>1. n \in Nat \ {0} /\ h \in 0 .. n - 1 /\ l \in 0 .. n - 1
  BY CapType DEF ChanOK, RingOK
<1>2. ChanOK'
  BY EnqueueRing
<1>3. /\ buf'[c] = [buf[c] EXCEPT ![(h + l) % n] = v]
      /\ len'[c] = l + 1 /\ head'[c] = h
      /\ buf[c] \in [0 .. n - 1 -> Int]
  BY <1>1 DEF Enqueue, ChanOK, RingOK
<1>4. /\ old \in Seq(Vals) /\ Len(old) = l
      /\ \A i \in 1 .. l : old[i] = buf[c][(h + (i - 1)) % n]
  BY QueueSeq DEF QueueIs
<1>5. /\ new \in Seq(Vals) /\ Len(new) = l + 1
      /\ \A i \in 1 .. l + 1 : new[i] = buf'[c][(h + (i - 1)) % n]
  <2>1. /\ new \in Seq(Vals) /\ Len(new) = len'[c]
        /\ \A i \in 1 .. len'[c] : new[i] = buf'[c][(head'[c] + (i - 1)) % n]
    BY <1>2, QueueSeqPrime DEF QueueIs
  <2>2. QED
    BY <1>3, <2>1
<1> HIDE DEF n, h, l, old, new
<1>6. ASSUME NEW i \in 1 .. l PROVE new[i] = old[i]
  <2>1. i - 1 \in 0 .. l - 1 /\ i \in 1 .. l + 1
    BY <1>1
  <2>2. (h + (i - 1)) % n \in 0 .. n - 1 /\ (h + (i - 1)) % n # (h + l) % n
    BY <1>1, <2>1, FreshSlot
  <2>3. QED
    BY <1>3, <1>4, <1>5, <2>1, <2>2
<1>7. new[l + 1] = v
  <2>1. l \in 0 .. n /\ l + 1 \in 1 .. l + 1 /\ (l + 1) - 1 = l
    BY <1>1
  <2>2. (h + l) % n = IF h + l < n THEN h + l ELSE h + l - n
    BY <1>1, <2>1, SlotValue
  <2>3. (h + l) % n \in 0 .. n - 1
    BY <1>1, <2>2
  <2>4. new[l + 1] = buf'[c][(h + l) % n]
    BY <1>5, <2>1
  <2>5. QED
    BY <1>3, <2>3, <2>4
<1>8. new = Append(old, v)
  <2>1. /\ Append(old, v) \in Seq(Vals) /\ Len(Append(old, v)) = l + 1
        /\ \A i \in 1 .. l : Append(old, v)[i] = old[i]
        /\ Append(old, v)[l + 1] = v
    BY <1>4, AppendProperties
  <2>2. ASSUME NEW i \in 1 .. l + 1 PROVE new[i] = Append(old, v)[i]
    <3>1. CASE i = l + 1
      BY <1>7, <2>1, <3>1
    <3>2. CASE i \in 1 .. l
      BY <1>6, <2>1, <3>2
    <3>3. i = l + 1 \/ i \in 1 .. l
      BY <1>1
    <3>4. QED
      BY <3>1, <3>2, <3>3
  <2>3. QED
    BY <1>5, <2>1, <2>2, SeqEqual
<1>9. \A d \in Chans \ {c} : Queue(d)' = Queue(d)
  BY DEF Enqueue, ChanOK, Queue
<1>10. QED
  BY <1>8, <1>9 DEF old, new

(* A receive takes the head.                                               *)
LEMMA QueueTail ==
    ASSUME ChanOK, NEW c \in Chans, len[c] > 0, Dequeue(c)
    PROVE  /\ Queue(c) # << >>
           /\ Queue(c)' = Tail(Queue(c))
           /\ buf[c][head[c]] = Head(Queue(c))
           /\ \A d \in Chans \ {c} : Queue(d)' = Queue(d)
<1> DEFINE n == Cap[c]
           h == head[c]
           l == len[c]
           old == Queue(c)
           new == Queue(c)'
<1>1. n \in Nat \ {0} /\ h \in 0 .. n - 1 /\ l \in 1 .. n
  BY CapType DEF ChanOK, RingOK
<1>2. ChanOK'
  BY DequeueRing
<1>3. buf'[c] = buf[c] /\ len'[c] = l - 1 /\ head'[c] = (h + 1) % n
  BY <1>1 DEF Dequeue, ChanOK, RingOK
<1>4. /\ old \in Seq(Vals) /\ Len(old) = l
      /\ \A i \in 1 .. l : old[i] = buf[c][(h + (i - 1)) % n]
  BY QueueSeq DEF QueueIs
<1>5. /\ new \in Seq(Vals) /\ Len(new) = l - 1
      /\ \A i \in 1 .. l - 1 : new[i] = buf[c][(((h + 1) % n) + (i - 1)) % n]
  <2>1. /\ new \in Seq(Vals) /\ Len(new) = len'[c]
        /\ \A i \in 1 .. len'[c] : new[i] = buf'[c][(head'[c] + (i - 1)) % n]
    BY <1>2, QueueSeqPrime DEF QueueIs
  <2>2. QED
    BY <1>3, <2>1
<1> HIDE DEF n, h, l, old, new
<1>6. old # << >>
  BY <1>1, <1>4, EmptySeq
<1>7. buf[c][h] = Head(old)
  <2>1. old[1] = buf[c][(h + (1 - 1)) % n]
    BY <1>1, <1>4
  <2>2. (h + (1 - 1)) % n = h
    BY <1>1, ModSmall
  <2>3. QED
    BY <2>1, <2>2, <1>4, <1>6
<1>8. new = Tail(old)
  <2>1. /\ Tail(old) \in Seq(Vals) /\ Len(Tail(old)) = l - 1
        /\ \A i \in 1 .. l - 1 : Tail(old)[i] = old[i + 1]
    BY <1>4, <1>6, HeadTailProperties
  <2>2. ASSUME NEW i \in 1 .. l - 1 PROVE new[i] = Tail(old)[i]
    <3>1. i - 1 \in 0 .. n - 1 /\ i + 1 \in 1 .. l /\ (i + 1) - 1 = (i - 1) + 1
      BY <1>1
    <3>2. (((h + 1) % n) + (i - 1)) % n = (h + ((i - 1) + 1)) % n
      BY <1>1, <3>1, RingDequeue
    <3>3. old[i + 1] = buf[c][(h + ((i + 1) - 1)) % n]
      BY <1>4, <3>1
    <3>4. QED
      BY <1>5, <2>1, <3>1, <3>2, <3>3
  <2>3. QED
    BY <1>5, <2>1, <2>2, SeqEqual
<1>9. \A d \in Chans \ {c} : Queue(d)' = Queue(d)
  BY DEF Dequeue, ChanOK, Queue
<1>10. QED
  BY <1>6, <1>7, <1>8, <1>9 DEF old, new, h

-----------------------------------------------------------------------------
(* Every step is a step of AbsChan or changes nothing a caller can see.    *)

AbsQ == [c \in Chans |-> Queue(c)]
AStep == Abs!Next \/ UNCHANGED Abs!vars

(* A call returns and the channels are left alone.                         *)
LEMMA Hidden ==
    ASSUME UNCHANGED <<buf, head, len, closed>>
    PROVE  AbsQ' = AbsQ /\ UNCHANGED closed
  BY DEF AbsQ, Queue

(* What happens inside a call is not seen.                                 *)
LEMMA Inside ==
    ASSUME UNCHANGED <<buf, head, len, closed, req, out>>
    PROVE  AStep
  BY Hidden DEF AbsQ, AStep, Abs!vars

(* A return is an answer.                                                  *)
LEMMA ReturnIsAnswer ==
    ASSUME NEW t, NEW code, NEW v, Return(t, code, v)
    PROVE  Abs!Answer(t, code, v)
  BY DEF Return, Abs!Answer, NoReq, Abs!NoReq, Null, Abs!Null

(* The refinement of a send that found room.                               *)
LEMMA EnqueueRefines ==
    ASSUME Inv, NEW t \in Threads, NEW c \in Chans, NEW v \in Vals, req[t].op = "send",
           req[t].c0 = c, req[t].v = v, c # Null, len[c] # Cap[c], ~closed[c],
           Enqueue(c, v), Return(t, 0, 0)
    PROVE  AStep
<1>1. ChanOK
  BY DEF Inv
<1>2. Queue(c)' = Append(Queue(c), v) /\ \A d \in Chans \ {c} : Queue(d)' = Queue(d)
  BY <1>1, QueueAppend
<1>3. AbsQ' = [AbsQ EXCEPT ![c] = Append(@, v)]
  BY <1>2 DEF AbsQ
<1>4. Len(AbsQ[c]) < Cap[c]
  BY <1>1, QueueSeq, CapType DEF AbsQ, QueueIs, ChanOK, RingOK
<1>5. Abs!Answer(t, 0, 0) /\ UNCHANGED closed
  BY ReturnIsAnswer DEF Enqueue
<1>6. Abs!Send(t)
  BY <1>3, <1>4, <1>5 DEF Abs!Send, AbsQ, Null, Abs!Null
<1>7. QED
  BY <1>6 DEF AStep, Abs!Next

(* The refinement of chan_send.                                            *)
LEMMA SendRefines == ASSUME Inv, NEW t \in Threads, ChanSend(t) PROVE AStep
<1> DEFINE c == req[t].c0
<1>1. pc[t] = "send" /\ req[t].op = "send" /\ c \in Handles /\ req[t].v \in Vals /\ ChanOK
  BY ReqType DEF ChanSend, Inv, LocalInv, Shape
<1>2. CASE (c # Null => closed[c]) /\ Return(t, -1, 0) /\ UNCHANGED chanVars
  <2>1. AbsQ' = AbsQ /\ UNCHANGED closed /\ Abs!Answer(t, -1, 0)
    BY <1>2, Hidden, ReturnIsAnswer DEF chanVars
  <2>2. Abs!Send(t)
    BY <1>1, <1>2, <2>1 DEF Abs!Send, AbsQ, Null, Abs!Null
  <2>3. QED
    BY <2>2 DEF AStep, Abs!Next
<1>3. CASE UNCHANGED <<buf, head, len, closed, notEmpty, pc, req, loc, out>>
  BY <1>3, Inside
<1>4. CASE /\ c # Null /\ len[c] # Cap[c] /\ ~closed[c]
           /\ Enqueue(c, req[t].v)
           /\ Return(t, 0, 0)
  <2>1. c \in Chans
    BY <1>1, <1>4 DEF Handles
  <2>2. QED
    BY <1>1, <1>4, <2>1, EnqueueRefines
<1>5. QED
  BY <1>2, <1>3, <1>4 DEF ChanSend

(* The refinement of a receive that found a value.                         *)
LEMMA DequeueRefines ==
    ASSUME Inv, NEW t \in Threads, NEW c \in Abs!Receives(req[t]), c \in Chans, len[c] > 0,
           Dequeue(c), NEW code \in Abs!OkCode(req[t], c), Return(t, code, buf[c][head[c]])
    PROVE  AStep
<1>1. ChanOK
  BY DEF Inv
<1>2. /\ Queue(c) # << >> /\ Queue(c)' = Tail(Queue(c)) /\ buf[c][head[c]] = Head(Queue(c))
      /\ \A d \in Chans \ {c} : Queue(d)' = Queue(d)
  BY <1>1, QueueTail
<1>3. AbsQ' = [AbsQ EXCEPT ![c] = Tail(@)] /\ AbsQ[c] = Queue(c)
  BY <1>2 DEF AbsQ
<1>4. Abs!Answer(t, code, Head(Queue(c))) /\ UNCHANGED closed
  BY <1>2, ReturnIsAnswer DEF Dequeue
<1>5. Abs!Receive(t)
  BY <1>2, <1>3, <1>4 DEF Abs!Receive, AbsQ
<1>6. QED
  BY <1>5 DEF AStep, Abs!Next

(* A channel that a call found closed and drained is drained.              *)
LEMMA GoneIsDrained ==
    ASSUME Inv, NEW c \in Handles, Gone(c) PROVE Abs!Drained(c)
<1>1. CASE c = Null
  BY <1>1 DEF Abs!Drained, Null, Abs!Null
<1>2. CASE c # Null
  <2>1. c \in Chans /\ closed[c] /\ Queue(c) = << >>
    BY <1>2, QueueEmpty DEF Gone, Handles, Inv
  <2>2. QED
    BY <2>1 DEF Abs!Drained
<1>3. QED
  BY <1>1, <1>2

(* The refinement of chan_recv, chan_recv2 and chan_recv_timeout.          *)
LEMMA RecvRefines == ASSUME Inv, NEW t \in Threads, ChanRecv(t) PROVE AStep
<1> DEFINE c == req[t].c0
<1>1. pc[t] \in {"recv", "timed"} /\ req[t].op \in RecvOps /\ c \in Handles
  BY ReqType DEF ChanRecv, Inv, LocalInv, Shape
<1>2. CASE /\ c # Null => len[c] = 0 /\ closed[c]
           /\ Return(t, EofCode(req[t].op), 0)
           /\ UNCHANGED chanVars
  <2>1. Abs!Drained(c)
    BY <1>1, <1>2, GoneIsDrained DEF Gone
  <2>2. AbsQ' = AbsQ /\ UNCHANGED closed /\ Abs!Answer(t, EofCode(req[t].op), 0)
    BY <1>2, Hidden, ReturnIsAnswer DEF chanVars
  <2>3. Abs!EndOfStream(t)
    BY <1>1, <2>1, <2>2 DEF Abs!EndOfStream, AbsQ, EofCode, RecvOps
  <2>4. QED
    BY <2>3 DEF AStep, Abs!Next
<1>3. CASE UNCHANGED <<buf, head, len, closed, notFull, req, loc, out>>
  BY <1>3, Inside
<1>4. CASE /\ c # Null /\ len[c] > 0
           /\ Dequeue(c)
           /\ Return(t, OkCode(req[t].op), buf[c][head[c]])
  <2>1. c \in Chans
    BY <1>1, <1>4 DEF Handles
  <2>2. c \in Abs!Receives(req[t]) /\ OkCode(req[t].op) \in Abs!OkCode(req[t], c)
    BY <1>1, <1>4 DEF Abs!Receives, Abs!OkCode, OkCode, RecvOps, Abs!SelectOps, Null, Abs!Null
  <2>3. QED
    BY <1>4, <2>1, <2>2, DequeueRefines
<1>5. QED
  BY <1>2, <1>3, <1>4 DEF ChanRecv

(* The refinement of the timeout.                                          *)
LEMMA RecvExpiresRefines == ASSUME Inv, NEW t \in Threads, RecvExpires(t) PROVE AStep
<1>1. req[t].op = "recv_timeout"
  BY DEF RecvExpires, Inv, LocalInv, Shape
<1>2. AbsQ' = AbsQ /\ UNCHANGED closed /\ Abs!Answer(t, 0, 0)
  BY Hidden, ReturnIsAnswer DEF RecvExpires
<1>3. Abs!NotNow(t)
  BY <1>1, <1>2 DEF Abs!NotNow, AbsQ
<1>4. QED
  BY <1>3 DEF AStep, Abs!Next

(* The refinement of chan_try_recv.                                        *)
LEMMA TryRecvRefines == ASSUME Inv, NEW t \in Threads, ChanTryRecv(t) PROVE AStep
<1> DEFINE c == req[t].c0
<1>1. req[t].op = "try_recv" /\ c \in Handles
  BY ReqType DEF ChanTryRecv, Inv, LocalInv, Shape
<1>2. CASE /\ c # Null => len[c] = 0
           /\ Return(t, IF c = Null THEN 2 ELSE IF closed[c] THEN 2 ELSE 0, 0)
           /\ UNCHANGED chanVars
  <2>1. AbsQ' = AbsQ /\ UNCHANGED closed
    BY <1>2, Hidden DEF chanVars
  <2>2. CASE Gone(c)
    <3>1. Abs!Answer(t, 2, 0)
      BY <1>2, <2>2, ReturnIsAnswer DEF Gone
    <3>2. Abs!EndOfStream(t)
      BY <1>1, <2>1, <2>2, <3>1, GoneIsDrained DEF Abs!EndOfStream, AbsQ
    <3>3. QED
      BY <3>2 DEF AStep, Abs!Next
  <2>3. CASE ~Gone(c)
    <3>1. c \in Chans /\ ~closed[c] /\ c # Null /\ Queue(c) = << >>
      BY <1>1, <1>2, <2>3, QueueEmpty DEF Gone, Handles, Inv
    <3>2. Abs!Answer(t, 0, 0)
      BY <1>2, <3>1, ReturnIsAnswer
    <3>3. Abs!NotNow(t)
      BY <1>1, <2>1, <3>1, <3>2 DEF Abs!NotNow, AbsQ, Null, Abs!Null
    <3>4. QED
      BY <3>3 DEF AStep, Abs!Next
  <2>4. QED
    BY <2>2, <2>3
<1>3. CASE /\ c # Null /\ len[c] > 0
           /\ Dequeue(c)
           /\ Return(t, 1, buf[c][head[c]])
  <2>1. c \in Chans
    BY <1>1, <1>3 DEF Handles
  <2>2. c \in Abs!Receives(req[t]) /\ 1 \in Abs!OkCode(req[t], c)
    BY <1>1, <1>3 DEF Abs!Receives, Abs!OkCode, Abs!SelectOps, Null, Abs!Null
  <2>3. QED
    BY <1>3, <2>1, <2>2, DequeueRefines
<1>4. QED
  BY <1>2, <1>3 DEF ChanTryRecv

(* The refinement of chan_close.                                           *)
LEMMA CloseRefines == ASSUME Inv, NEW t \in Threads, ChanClose(t) PROVE AStep
<1> DEFINE c == req[t].c0
<1>1. req[t].op = "close" /\ c \in Handles /\ closed \in [Chans -> BOOLEAN]
  BY ReqType DEF ChanClose, Inv, LocalInv, Shape, ChanOK
<1>2. UNCHANGED <<buf, head, len>>
  BY DEF ChanClose, chanVars
<1>3. AbsQ' = AbsQ
  BY <1>2 DEF AbsQ, Queue
<1>4. closed' = [k \in Chans |-> closed[k] \/ k = c]
  <2>1. Null \notin Chans
    BY ChanAssumption DEF ChanAssumption, Null
  <2>2. QED
    BY <1>1, <2>1 DEF ChanClose, Handles, chanVars
<1>5. Abs!Answer(t, IF c = Null THEN -1 ELSE 0, 0)
  BY ReturnIsAnswer DEF ChanClose
<1>6. Abs!Close(t)
  BY <1>1, <1>3, <1>4, <1>5 DEF Abs!Close, AbsQ, Null, Abs!Null
<1>7. QED
  BY <1>6 DEF AStep, Abs!Next

(* The refinement of chan_len.                                             *)
LEMMA LenRefines == ASSUME Inv, NEW t \in Threads, ChanLen(t) PROVE AStep
<1> DEFINE c == req[t].c0
<1>1. req[t].op = "len" /\ c \in Handles
  BY ReqType DEF ChanLen, Inv, LocalInv, Shape
<1>2. AbsQ' = AbsQ /\ UNCHANGED closed
  BY Hidden DEF ChanLen, chanVars
<1>3. (IF c = Null THEN 0 ELSE len[c]) = (IF c = Null THEN 0 ELSE Len(AbsQ[c]))
  BY <1>1, QueueSeq DEF Handles, Inv, AbsQ, QueueIs
<1>4. Abs!Answer(t, IF c = Null THEN 0 ELSE Len(AbsQ[c]), 0)
  BY <1>3, ReturnIsAnswer DEF ChanLen
<1>5. Abs!Length(t)
  BY <1>1, <1>2, <1>4 DEF Abs!Length, AbsQ, Null, Abs!Null
<1>6. QED
  BY <1>5 DEF AStep, Abs!Next

(* A round of chan_select2 that found nothing: no answer, or "not now".    *)
LEMMA NoneReadyRefines ==
    ASSUME Inv, NEW t \in Threads, NoneReady(t) PROVE AStep
<1>1. CASE req[t].op \in {"select2", "select2_timeout"} /\ Return(t, 2, 0)
  <2>1. AbsQ' = AbsQ /\ UNCHANGED closed /\ Abs!Answer(t, 2, 0)
    BY <1>1, Hidden, ReturnIsAnswer DEF NoneReady, chanVars
  <2>2. Abs!NotNow(t)
    BY <1>1, <2>1 DEF Abs!NotNow, AbsQ
  <2>3. QED
    BY <2>2 DEF AStep, Abs!Next
<1>2. CASE UNCHANGED <<req, out>>
  BY <1>2, Inside DEF NoneReady, chanVars
<1>3. QED
  BY <1>1, <1>2 DEF NoneReady

(* The answer 3 of chan_select2: both channels are drained NOW, although   *)
(* they were looked at one after the other and both locks were released.   *)
LEMMA BothGoneRefines ==
    ASSUME Inv, NEW t \in Threads, req[t].op \in SelectOps, Gone(req[t].c0), Gone(req[t].c1),
           Return(t, 3, 0), UNCHANGED chanVars
    PROVE  AStep
<1>1. Abs!Drained(req[t].c0) /\ Abs!Drained(req[t].c1)
  BY ReqType, GoneIsDrained
<1>2. AbsQ' = AbsQ /\ UNCHANGED closed /\ Abs!Answer(t, 3, 0)
  BY Hidden, ReturnIsAnswer DEF chanVars
<1>3. Abs!EndOfStream(t)
  BY <1>1, <1>2 DEF Abs!EndOfStream, AbsQ, SelectOps, Abs!SelectOps
<1>4. QED
  BY <1>3 DEF AStep, Abs!Next

(* The refinement of the snapshots and the decision.                       *)
LEMMA DecideRefines == ASSUME Inv, NEW t \in Threads, Snap0(t) \/ Snap1(t) \/ Decide(t) PROVE AStep
<1>1. CASE Snap0(t)
  <2>1. req[t].op \in SelectOps
    BY <1>1 DEF Snap0, Inv, LocalInv, Shape, SelLabels
  <2>2. QED
    BY <1>1, <2>1, BothGoneRefines, Inside DEF Snap0, Gone, chanVars
<1>2. CASE Snap1(t)
  BY <1>2, Inside DEF Snap1, chanVars
<1>3. CASE Decide(t)
  <2>1. /\ req[t].op \in SelectOps
        /\ loc[t].la = 0 /\ loc[t].ca => Gone(req[t].c0)
        /\ loc[t].lb = 0 /\ loc[t].cb => Gone(req[t].c1)
    BY <1>3 DEF Decide, Inv, LocalInv, Shape, SelLabels, SnapInv
  <2>2. QED
    BY <1>3, <2>1, BothGoneRefines, NoneReadyRefines, Inside DEF Decide, chanVars
<1>4. QED
  BY <1>1, <1>2, <1>3

(* The refinement of the three try_recv calls inside chan_select2.         *)
LEMMA TakeRefines ==
    ASSUME Inv, NEW t \in Threads, TakePreferred(t) \/ TakeOther(t) \/ TakeAgain(t) PROVE AStep
<1>1. ASSUME NEW here \in {"take0", "take1", "take0again"}, NEW which \in {0, 1},
             which = 0 <=> here # "take1", TakeWhich(t, here, which)
      PROVE  AStep
  <2> DEFINE d == IF which = 0 THEN req[t].c0 ELSE req[t].c1
  <2>1. pc[t] = here /\ len[d] > 0 /\ Dequeue(d) /\ Return(t, which, buf[d][head[d]])
    BY <1>1 DEF TakeWhich
  <2>2. d \in Chans /\ req[t].op \in SelectOps
    BY <1>1, <2>1 DEF Inv, LocalInv, Shape, SelLabels
  <2>3. d # Null
    BY <2>2, ChanAssumption DEF ChanAssumption, Null
  <2>4. d \in Abs!Receives(req[t]) /\ which \in Abs!OkCode(req[t], d)
    BY <1>1, <2>2, <2>3 DEF Abs!Receives, Abs!OkCode, SelectOps, Abs!SelectOps, Null, Abs!Null
  <2>5. QED
    BY <2>1, <2>2, <2>4, DequeueRefines
<1>2. CASE UNCHANGED <<chanVars, req, loc, out>>
  BY <1>2, Inside DEF chanVars
<1>3. CASE NoneReady(t)
  BY <1>3, NoneReadyRefines
<1>4. QED
  BY <1>1, <1>2, <1>3 DEF TakePreferred, TakeOther, TakeAgain

(* The refinement of a call's beginning.                                   *)
LEMMA InvokeRefines == ASSUME Inv, NEW t \in Threads, Invoke(t) PROVE AStep
<1>1. PICK r \in Prog[t] : /\ pc[t] = "idle"
                           /\ req' = [req EXCEPT ![t] = r]
                           /\ out' = [out EXCEPT ![t] = NoOut]
                           /\ UNCHANGED <<chanVars, loc>>
  BY DEF Invoke
<1>2. req[t] = NoReq
  BY <1>1 DEF Inv, LocalInv, Shape
<1>3. AbsQ' = AbsQ /\ UNCHANGED closed
  BY <1>1, Hidden DEF chanVars
<1>4. Abs!Request(t, r)
  BY <1>1, <1>2, <1>3 DEF Abs!Request, AbsQ, NoReq, Abs!NoReq, NoOut, Abs!NoOut, Null, Abs!Null
<1>5. QED
  BY <1>4 DEF AStep, Abs!Next, Abs!Invoke

(* Every step of the runtime is a step of AbsChan or a stutter.            *)
LEMMA StepRefines == Inv /\ [Next]_vars => [Abs!Next]_(Abs!vars)
<1> SUFFICES ASSUME Inv, [Next]_vars PROVE AStep
  BY DEF AStep
<1>1. CASE UNCHANGED vars
  BY <1>1, Inside DEF vars
<1>2. ASSUME NEW t \in Threads, Invoke(t) \/ Run(t) \/ Expires(t) \/ SpuriousWakeup(t)
      PROVE  AStep
  <2>1. CASE Invoke(t)
    BY <2>1, InvokeRefines
  <2>2. CASE SelWait(t) \/ SelWake(t) \/ SelExpires(t) \/ SpuriousWakeup(t)
    BY <2>2, Inside DEF SelWait, SelWake, SelExpires, SpuriousWakeup, chanVars
  <2>3. CASE Run(t)
    BY <2>2, <2>3, SendRefines, RecvRefines, TryRecvRefines, CloseRefines, LenRefines,
       DecideRefines, TakeRefines DEF Run, Select
  <2>4. CASE Expires(t)
    BY <2>2, <2>4, RecvExpiresRefines DEF Expires
  <2>5. QED
    BY <1>2, <2>1, <2>2, <2>3, <2>4
<1>3. QED
  BY <1>1, <1>2 DEF Next

(* The state after every chan_new is the initial state of AbsChan.         *)
LEMMA InitRefines == Init => Abs!Init
<1> SUFFICES ASSUME Init PROVE Abs!Init
  OBVIOUS
<1>1. AbsQ = [c \in Chans |-> << >>]
  <2>1. ChanOK
    BY InvInit DEF Inv
  <2>2. \A c \in Chans : Queue(c) = << >>
    BY <2>1, QueueEmpty DEF Init
  <2>3. QED
    BY <2>2 DEF AbsQ
<1>2. Cap \in [Chans -> Nat \ {0}]
  BY CapType DEF Cap
<1>3. QED
  BY <1>1, <1>2 DEF Init, Abs!Init, AbsQ, NoReq, Abs!NoReq, NoOut, Abs!NoOut, Null, Abs!Null

(* Every channel builtin is atomic, for any number of threads, channels,   *)
(* any capacities and any program: the answers of chan_send, the receives, *)
(* chan_select2 (with its two snapshots under two separate locks and three *)
(* try_recv calls), chan_close and chan_len are those of indivisible calls *)
(* on bounded FIFO queues.                                                 *)
THEOREM ChanIsAtomic == Spec => Linearizable
<1>1. Spec => []Inv
  BY InvInit, InvNext, PTL DEF Spec
<1>2. QED
  BY <1>1, InitRefines, StepRefines, PTL DEF Spec, Linearizable, Abs!Spec
=============================================================================

------------------------------ MODULE AbsChan ------------------------------
(***************************************************************************)
(* What the !Par channel API promises its callers: every call takes effect *)
(* at one instant between its invocation and its return, on channels that  *)
(* are bounded FIFO queues with a one-way `closed' flag.                   *)
(*                                                                         *)
(* req[t] is the call thread t is inside ("none" between calls) and out[t] *)
(* the answer of its last call, until the next one.  A code is the first   *)
(* component of the cell2 pair that the builtin returns (std/par/README.md,*)
(* table "API").                                                           *)
(***************************************************************************)
EXTENDS Integers, Sequences

CONSTANTS Threads, Chans,
          Prog      \* Prog[t]: the calls thread t may make

VARIABLES cap,      \* the capacity each channel was created with
          q, closed, req, out

vars == <<cap, q, closed, req, out>>

\* The handle 0 is the NULL channel: every builtin answers it at once.
Null == 0

NoReq == [op |-> "none", c0 |-> Null, c1 |-> Null, v |-> 0]

NoOut == [op |-> "none", code |-> 0, v |-> 0]

SelectOps == {"select2", "select2_wait", "select2_timeout"}

Init == /\ cap \in [Chans -> Nat \ {0}]
        /\ q = [c \in Chans |-> << >>]
        /\ closed = [c \in Chans |-> FALSE]
        /\ req = [t \in Threads |-> NoReq]
        /\ out = [t \in Threads |-> NoOut]

Request(t, r) == /\ req[t] = NoReq
                 /\ req' = [req EXCEPT ![t] = r]
                 /\ out' = [out EXCEPT ![t] = NoOut]
                 /\ UNCHANGED <<q, closed>>

Invoke(t) == \E r \in Prog[t] : Request(t, r)

Answer(t, code, v) ==
    /\ out' = [out EXCEPT ![t] = [op |-> req[t].op, code |-> code, v |-> v]]
    /\ req' = [req EXCEPT ![t] = NoReq]

Drained(c) == c = Null \/ (closed[c] /\ q[c] = << >>)

(* A send is accepted by an open channel with room, or refused by a closed *)
(* (or NULL) one.                                                          *)
Send(t) == LET c == req[t].c0 IN
    /\ req[t].op = "send"
    /\ UNCHANGED closed
    /\ \/ /\ c # Null
          /\ ~closed[c]
          /\ Len(q[c]) < cap[c]
          /\ q' = [q EXCEPT ![c] = Append(@, req[t].v)]
          /\ Answer(t, 0, 0)
       \/ /\ c # Null => closed[c]
          /\ Answer(t, -1, 0)
          /\ UNCHANGED q

(* The code a successful receive answers: chan_recv has no status, a       *)
(* select says which of its two channels the value came from.              *)
OkCode(r, c) ==
    IF r.op \in SelectOps THEN {k \in {0, 1} : c = IF k = 0 THEN r.c0 ELSE r.c1}
    ELSE {IF r.op = "recv" THEN 0 ELSE 1}

Receives(r) == CASE r.op \in SelectOps -> {r.c0, r.c1} \ {Null}
                 [] r.op \in {"recv", "recv2", "try_recv", "recv_timeout"} -> {r.c0} \ {Null}
                 [] OTHER -> {}

(* A receive takes the OLDEST value of a channel it was asked about.       *)
Receive(t) == \E c \in Receives(req[t]) :
    /\ q[c] # << >>
    /\ q' = [q EXCEPT ![c] = Tail(@)]
    /\ \E code \in OkCode(req[t], c) : Answer(t, code, Head(q[c]))
    /\ UNCHANGED closed

(* "Closed" is only answered when every channel asked about is closed and  *)
(* drained at that instant, so no value can be missed by believing it.     *)
EndOfStream(t) ==
    /\ \/ /\ req[t].op \in {"recv", "recv2"}
          /\ Drained(req[t].c0)
          /\ Answer(t, 0, 0)
       \/ /\ req[t].op \in {"try_recv", "recv_timeout"}
          /\ Drained(req[t].c0)
          /\ Answer(t, 2, 0)
       \/ /\ req[t].op \in SelectOps
          /\ Drained(req[t].c0) /\ Drained(req[t].c1)
          /\ Answer(t, 3, 0)
    /\ UNCHANGED <<q, closed>>

(* "Not now" is a licence of the calls that do not wait forever, and of    *)
(* them only; try_recv may say it only when the channel is empty and open. *)
NotNow(t) ==
    /\ \/ /\ req[t].op \in {"select2", "select2_timeout"}
          /\ Answer(t, 2, 0)
       \/ /\ req[t].op = "recv_timeout"
          /\ Answer(t, 0, 0)
       \/ /\ req[t].op = "try_recv"
          /\ req[t].c0 # Null
          /\ q[req[t].c0] = << >> /\ ~closed[req[t].c0]
          /\ Answer(t, 0, 0)
    /\ UNCHANGED <<q, closed>>

Close(t) == LET c == req[t].c0 IN
    /\ req[t].op = "close"
    /\ closed' = [k \in Chans |-> closed[k] \/ k = c]
    /\ Answer(t, IF c = Null THEN -1 ELSE 0, 0)
    /\ UNCHANGED q

Length(t) == LET c == req[t].c0 IN
    /\ req[t].op = "len"
    /\ Answer(t, IF c = Null THEN 0 ELSE Len(q[c]), 0)
    /\ UNCHANGED <<q, closed>>

Next == /\ \E t \in Threads :
              \/ Invoke(t) \/ Send(t) \/ Receive(t) \/ EndOfStream(t) \/ NotNow(t)
              \/ Close(t) \/ Length(t)
        /\ UNCHANGED cap

Spec == Init /\ [][Next]_vars
=============================================================================

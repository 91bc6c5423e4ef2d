------------------------------- MODULE MCChan -------------------------------
(***************************************************************************)
(* Instances of Chan for TLC.  A program says which calls each thread may  *)
(* make, over and over.                                                    *)
(***************************************************************************)
EXTENDS Chan

\* One channel of capacity 2, whose ring wraps around.
MCReqCap == [c \in Chans |-> 2]

\* Two channels of capacity 1 (chan_new raises the 0), full or empty after every step.
TightReqCap == [c \in Chans |-> c - 1]

On(op, c) == [op |-> op, c0 |-> c, c1 |-> Null, v |-> 0]
Sends(c) == {[op |-> "send", c0 |-> c, c1 |-> Null, v |-> v] : v \in Vals}
Selects(op, c0, c1) == [op |-> op, c0 |-> c0, c1 |-> c1, v |-> 0]

CONSTANTS Selector, Feeder, Thief

\* Two threads send and receive in both directions and one of them closes the
\* channel; the third receives and makes calls with the NULL handle.
NullCalls == Sends(Null) \cup {On(op, Null) : op \in {"recv", "try_recv", "select2", "close", "len"}}
CoreProg == [t \in Threads |->
    CASE t = Selector -> {On("recv2", 2), On("len", 2)} \cup NullCalls
      [] t = Feeder -> Sends(2) \cup {On("recv", 2), On("close", 2)}
      [] t = Thief -> Sends(2) \cup {On("recv", 2), On("try_recv", 2)}]

\* One thread selects over both channels while another feeds and closes them
\* and a third one steals from them between the snapshot and the take.  The
\* value sent is the channel's own number, so an answer shows its origin.
FeedSelf == {[op |-> "send", c0 |-> c, c1 |-> Null, v |-> c] : c \in {1, 2}}
SelectProg == [t \in Threads |->
    CASE t = Selector -> {Selects("select2", 1, 2), Selects("select2_wait", 2, 1),
                          Selects("select2_timeout", Null, 2)}
      [] t = Feeder -> FeedSelf \cup {On("close", 1), On("close", 2)}
      [] t = Thief -> {On("recv2", 1), On("recv_timeout", 2)}]

\* A blocking select beside a plain receive on the same channel.
StealProg == [t \in Threads |->
    CASE t = Selector -> {Selects("select2_wait", 2, 1)}
      [] t = Feeder -> Sends(1) \cup Sends(2)
      [] t = Thief -> {On("recv", 1)}]
=============================================================================

------------------------------ MODULE PoolMap ------------------------------
(***************************************************************************)
(* pool_map(fn, in, nw): the caller starts nw workers, sends the index of  *)
(* every element down the channel `jobs', closes it, collects one pair     *)
(* (index, result) per element from the channel `results' and joins the    *)
(* workers.  The channels are those of AbsChan, which Chan implements: a   *)
(* builtin is one request and one atomic answer.                           *)
(***************************************************************************)
EXTENDS Integers, Sequences, FiniteSets

CONSTANTS Inputs,    \* the vectors `in' a program may pass
          Widths,    \* the worker counts nw it may ask for
          fn(_),     \* the worker function
          MaxWorkers \* a bound on the workers of the instance

\* What the constants are assumed to be: the vectors are of i64, and none is
\* longer than MaxWorkers.
PoolAssumption == /\ MaxWorkers \in Nat /\ Widths \subseteq Int
                  /\ \A s \in Inputs : s \in Seq(Int) /\ Len(s) <= MaxWorkers

Main == 0
Workers == 1 .. MaxWorkers
Crew == Workers \cup {Main}
Jobs == 1
Results == 2

VARIABLES cap, q, closed, req, out,   \* the two channels
          in, nw,                     \* the arguments
          ppc, i,                     \* the caller and its loop counter
          vec,                        \* the vector it fills
          wpc, idx                    \* each worker and the job it holds

C == INSTANCE AbsChan WITH Chans <- {Jobs, Results}, Threads <- Crew, Prog <- [t \in Crew |-> {}]

chans == <<cap, q, closed, req, out>>
poolVars == <<cap, q, closed, req, out, in, nw, ppc, i, vec, wpc, idx>>

n == Len(in)

\* The pool never starts more workers than there are jobs, nor fewer than 1.
Clamp(w) == IF w < 1 THEN 1 ELSE IF w > n THEN n ELSE w

PoolInit == /\ in \in Inputs /\ nw \in Widths
            /\ cap = [c \in {Jobs, Results} |-> IF n < 1 THEN 1 ELSE n]
            /\ q = [c \in {Jobs, Results} |-> << >>]
            /\ closed = [c \in {Jobs, Results} |-> FALSE]
            /\ req = [t \in Crew |-> C!NoReq]
            /\ out = [t \in Crew |-> C!NoOut]
            /\ ppc = "start" /\ i = 0
            /\ vec = << >>
            /\ wpc = [w \in Workers |-> "none"]
            /\ idx = [w \in Workers |-> -1]

Req(op, c, v) == [op |-> op, c0 |-> c, c1 |-> C!Null, v |-> v]

-----------------------------------------------------------------------------
(* The caller.                                                             *)

\* An empty vector is answered at once; otherwise `out' is n zeros.
Start == /\ ppc = "start"
         /\ vec' = [k \in 1 .. n |-> 0]
         /\ nw' = Clamp(nw)
         /\ ppc' = IF n = 0 THEN "done" ELSE "spawn"
         /\ UNCHANGED <<chans, in, i, wpc, idx>>

Spawn == /\ ppc = "spawn"
         /\ wpc' = [wpc EXCEPT ![i + 1] = "ask"]
         /\ IF i + 1 = nw THEN i' = 0 /\ ppc' = "send" ELSE i' = i + 1 /\ UNCHANGED ppc
         /\ UNCHANGED <<chans, in, nw, vec, idx>>

SendJob == /\ ppc = "send"
           /\ C!Request(Main, Req("send", Jobs, i))
           /\ ppc' = "sending"
           /\ UNCHANGED <<cap, in, nw, i, vec, wpc, idx>>

JobSent == /\ ppc = "sending"
           /\ C!Send(Main)
           /\ IF i + 1 = n THEN i' = 0 /\ ppc' = "close" ELSE i' = i + 1 /\ ppc' = "send"
           /\ UNCHANGED <<cap, in, nw, vec, wpc, idx>>

CloseJobs == /\ ppc = "close"
             /\ C!Request(Main, Req("close", Jobs, 0))
             /\ ppc' = "closing"
             /\ UNCHANGED <<cap, in, nw, i, vec, wpc, idx>>

JobsClosed == /\ ppc = "closing"
              /\ C!Close(Main)
              /\ ppc' = "collect"
              /\ UNCHANGED <<cap, in, nw, i, vec, wpc, idx>>

Collect == /\ ppc = "collect"
           /\ C!Request(Main, Req("recv", Results, 0))
           /\ ppc' = "collecting"
           /\ UNCHANGED <<cap, in, nw, i, vec, wpc, idx>>

\* Mutant: results are stored in the order in which they arrive.
CollectedInOrder ==
    /\ ppc = "collecting"
    /\ C!Receive(Main)
    /\ vec' = [vec EXCEPT ![i + 1] = out'[Main].v[2]]
    /\ IF i + 1 = n THEN i' = 1 /\ ppc' = "join" ELSE i' = i + 1 /\ ppc' = "collect"
    /\ UNCHANGED <<cap, in, nw, wpc, idx>>

\* The pair's index says where its result goes.
Collected == /\ ppc = "collecting"
             /\ C!Receive(Main)
             /\ LET pair == out'[Main].v
                IN vec' = IF pair[1] \in 0 .. n - 1 THEN [vec EXCEPT ![pair[1] + 1] = pair[2]] ELSE vec
             /\ IF i + 1 = n THEN i' = 1 /\ ppc' = "join" ELSE i' = i + 1 /\ ppc' = "collect"
             /\ UNCHANGED <<cap, in, nw, wpc, idx>>

\* Mutant: the workers are not waited for.
JoinSkipped == /\ ppc = "join"
               /\ ppc' = "done"
               /\ UNCHANGED <<chans, in, nw, i, vec, wpc, idx>>

\* join(hs[i]) for every worker, then the context is freed.
Join == /\ ppc = "join"
        /\ wpc[i] = "exited"
        /\ IF i = nw THEN ppc' = "done" /\ UNCHANGED i ELSE i' = i + 1 /\ UNCHANGED ppc
        /\ UNCHANGED <<chans, in, nw, vec, wpc, idx>>

-----------------------------------------------------------------------------
(* A worker: recv2 jobs until they are closed and drained.                 *)

Ask(w) == /\ wpc[w] = "ask"
          /\ C!Request(w, Req("recv2", Jobs, 0))
          /\ wpc' = [wpc EXCEPT ![w] = "asking"]
          /\ UNCHANGED <<cap, in, nw, ppc, i, vec, idx>>

GotJob(w) == /\ wpc[w] = "asking"
             /\ C!Receive(w)
             /\ idx' = [idx EXCEPT ![w] = out'[w].v]
             /\ wpc' = [wpc EXCEPT ![w] = "work"]
             /\ UNCHANGED <<cap, in, nw, ppc, i, vec>>

NoMoreJobs(w) == /\ wpc[w] = "asking"
                 /\ C!EndOfStream(w)
                 /\ wpc' = [wpc EXCEPT ![w] = "exited"]
                 /\ UNCHANGED <<cap, in, nw, ppc, i, vec, idx>>

Work(w) == /\ wpc[w] = "work"
           /\ C!Request(w, Req("send", Results, <<idx[w], fn(in[idx[w] + 1])>>))
           /\ wpc' = [wpc EXCEPT ![w] = "reporting"]
           /\ UNCHANGED <<cap, in, nw, ppc, i, vec, idx>>

\* Mutant: the worker stops after one job.
ReportedOnce(w) == /\ wpc[w] = "reporting"
                   /\ C!Send(w)
                   /\ wpc' = [wpc EXCEPT ![w] = "exited"]
                   /\ idx' = [idx EXCEPT ![w] = -1]
                   /\ UNCHANGED <<cap, in, nw, ppc, i, vec>>

Reported(w) == /\ wpc[w] = "reporting"
               /\ C!Send(w)
               /\ wpc' = [wpc EXCEPT ![w] = "ask"]
               /\ idx' = [idx EXCEPT ![w] = -1]
               /\ UNCHANGED <<cap, in, nw, ppc, i, vec>>

Caller == Start \/ Spawn \/ SendJob \/ JobSent \/ CloseJobs \/ JobsClosed \/ Collect
             \/ Collected \/ Join
Worker(w) == Ask(w) \/ GotJob(w) \/ NoMoreJobs(w) \/ Work(w) \/ Reported(w)

PoolNext == Caller \/ \E w \in Workers : Worker(w)

PoolSpec == PoolInit /\ [][PoolNext]_poolVars

(* The kernel runs every thread and fn terminates.  A blocked channel call *)
(* that becomes possible is woken: pool_map uses send, recv, recv2 and     *)
(* close only, for which Chan has no lost wakeup.                          *)
PoolFairness == WF_poolVars(Caller) /\ \A w \in Workers : WF_poolVars(Worker(w))

PoolFairSpec == PoolSpec /\ PoolFairness

-----------------------------------------------------------------------------
(* Properties.                                                             *)

Queued(c, P(_)) == Cardinality({k \in 1 .. Len(q[c]) : P(q[c][k])})
Holding(j) == Cardinality({w \in Workers : idx[w] = j})

(* No job is lost, done twice or reported twice: once sent, an index is in *)
(* exactly one place - the jobs, a worker, the results - or collected.     *)
EachJobOnce == \A j \in 0 .. n - 1 :
    LET places == Queued(Jobs, LAMBDA v : v = j) + Holding(j) + Queued(Results, LAMBDA v : v[1] = j)
    IN /\ places <= 1
       /\ ppc \in {"close", "closing"} => places = 1
       /\ ppc \in {"join", "done"} => places = 0

(* Workers never block on the results channel: it has room for every pair. *)
ResultsHaveRoom == \A w \in Workers : wpc[w] = "reporting" => Len(q[Results]) < cap[Results]

(* "order preserved": what pool_map returns is fn of each element, at that *)
(* element's place, whatever order the workers finish in.                  *)
OrderPreserved == ppc = "done" => vec = [k \in 1 .. n |-> fn(in[k])]

(* The context that the workers use is freed after their last use of it.   *)
NoWorkerLeft == ppc = "done" => \A w \in Workers : wpc[w] \in {"none", "exited"}

(* Every job is in one place, none waits for room, no worker is left.      *)
JobsAccounted == EachJobOnce /\ ResultsHaveRoom /\ NoWorkerLeft

(* pool_map returns.                                                       *)
Terminates == <>(ppc = "done")
=============================================================================

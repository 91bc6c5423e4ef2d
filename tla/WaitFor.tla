------------------------------- MODULE WaitFor -------------------------------
(***************************************************************************)
(* The wait-for analysis of the verifier (verify_waitfor.c) beside the     *)
(* program that it analyses.  The analysis walks a straight line parent,   *)
(* scans the body of each worker when it is spawned and says of some       *)
(* blocking statements that they go through ("ok") or that they block for  *)
(* ever ("cycle").  The model takes one statement of the parent at a time: *)
(* the analysis judges it, then the parent tries it while the workers run  *)
(* in any order.  Channels are bounded and block as in baga_par_rt.c.      *)
(*                                                                         *)
(* A worker body is a sequence of nodes [op |-> ...] on its one channel:   *)
(*   send, recv, close, try (a form with an optional effect), ret, brk,    *)
(*   if (a, b), for (k, body), while (k, i0, body: a counter from i0 below *)
(*   k), loop (body: while true), go (h, body), join (h), detach (h).      *)
(***************************************************************************)
EXTENDS Integers, Sequences, SequencesExt, FiniteSets, FiniteSetsExt

CONSTANTS Chans, Cap, Bodies, MaxStmts, MaxWorkers, Holes

VARIABLES chans, joins,           \* the analysis: its channel and join handles
          at, claim, stmts,       \* the statement of the parent and what is said of it
          buf, closed, procs      \* the program: the channels and the workers

-----------------------------------------------------------------------------
(* The scan of a worker.  "first" is saw_op with recv_first or send_first. *)

NoScan == [n_send |-> 0, n_recv |-> 0, first |-> "none", complex |-> FALSE,
           imprecise |-> FALSE, noreturn |-> FALSE, maybe_loop |-> FALSE,
           child_cons |-> 0, kids |-> <<>>]

Complex(s) == [s EXCEPT !.complex = TRUE]

\* wf_fold_leftover: a child that nobody joins still consumes.
FoldLeftover(s) ==
    LET open == SelectSeq(s.kids, LAMBDA k : ~k.folded)
        known == SelectSeq(open, LAMBDA k : ~k.sc.complex)
    IN  [s EXCEPT !.complex = @ \/ open # known,
                  !.imprecise = @ \/ \E i \in DOMAIN known : known[i].sc.imprecise,
                  !.child_cons = @ + FoldLeft(LAMBDA n, k : n + k.sc.n_recv, 0, known),
                  !.kids = [i \in DOMAIN @ |-> [@[i] EXCEPT !.folded = TRUE]]]

RECURSIVE HasExit(_)
HasExit(n) == CASE n.op \in {"ret", "brk"} -> TRUE
                [] n.op = "if" -> \E i \in DOMAIN (n.a \o n.b) : HasExit((n.a \o n.b)[i])
                [] n.op \in {"for", "while", "loop"} -> \E i \in DOMAIN n.body : HasExit(n.body[i])
                [] OTHER -> FALSE

\* A further scan b that runs after s; its first blocking statement counts if s had none.
First(s, b) == IF s.first = "none" THEN b.first ELSE s.first

Times(s, b, k) == [s EXCEPT !.n_send = @ + k * b.n_send, !.n_recv = @ + k * b.n_recv,
                            !.imprecise = @ \/ b.imprecise, !.first = First(s, b)]

\* join(h) in a worker: the child's counts become the parent's.
ScanJoin(s, h) ==
    LET hits == {i \in DOMAIN s.kids : s.kids[i].h = h}
        i == Min(hits)
        c == s.kids[i].sc
        f == [s EXCEPT !.kids[i].folded = TRUE]
    IN  IF hits = {} \/ s.kids[i].folded THEN Complex(s)
        ELSE IF c.noreturn THEN [Complex(f) EXCEPT !.noreturn = TRUE]
        ELSE IF c.complex THEN Complex(f)
        ELSE [Times(f, c, 1) EXCEPT !.maybe_loop = @ \/ c.maybe_loop]

\* Mutant: the greater count of the two branches.
ScanIfMax(s, a, b) ==
    IF a.complex \/ b.complex THEN Complex(s)
    ELSE [s EXCEPT !.n_send = @ + Max({a.n_send, b.n_send}),
                   !.n_recv = @ + Max({a.n_recv, b.n_recv}),
                   !.first = IF a.first # "none" THEN First(s, a) ELSE First(s, b)]

\* The two branches of an if: the guaranteed minimum of both.
ScanIf(s, a, b) ==
    LET differ == a.n_send # b.n_send \/ a.n_recv # b.n_recv
        m == [s EXCEPT !.n_send = @ + Min({a.n_send, b.n_send}),
                       !.n_recv = @ + Min({a.n_recv, b.n_recv}),
                       !.imprecise = @ \/ differ \/ a.imprecise \/ b.imprecise,
                       !.maybe_loop = @ \/ a.maybe_loop \/ b.maybe_loop]
    IN  IF a.kids # <<>> \/ b.kids # <<>> \/ a.complex \/ b.complex THEN Complex(s)
        ELSE IF s.first # "none" \/ a.first = b.first THEN [m EXCEPT !.first = First(s, a)]
        ELSE Complex(m)

RECURSIVE ScanNode(_, _)

\* The statements of a block; behind a loop that may spin nothing is guaranteed.
ScanBlock(s, ns) ==
    FoldLeft(LAMBDA t, n : IF t.complex \/ t.maybe_loop THEN t ELSE ScanNode(t, n), s, ns)

\* The guaranteed part of a loop body: up to the first statement that may leave it.
ScanPrefix(s, ns) ==
    LET exits == {i \in DOMAIN ns : HasExit(ns[i])}
    IN  ScanBlock(s, SubSeq(ns, 1, IF exits = {} THEN Len(ns) ELSE Min(exits)))

ScanLoop(s, body) ==
    LET b == ScanPrefix(NoScan, body)
    IN  IF \A i \in DOMAIN body : ~HasExit(body[i]) THEN [Complex(s) EXCEPT !.noreturn = TRUE]
        ELSE IF b.complex \/ b.kids # <<>> \/ b.first = "none" THEN Complex(s)
        ELSE [Times(s, b, 1) EXCEPT !.maybe_loop = TRUE]

\* for over a constant range, and while with a counter, whose start is not looked at.
ScanCounted(s, n) ==
    LET b == ScanBlock(NoScan, n.body)
    IN  IF n.k <= 0 THEN s
        ELSE IF b.complex \/ b.maybe_loop \/ b.kids # <<>> THEN Complex(s)
        ELSE [Times(s, b, n.k) EXCEPT !.imprecise = @ \/ n.op = "while"]

ScanNode(s, n) ==
    CASE n.op = "recv" -> [s EXCEPT !.n_recv = @ + 1, !.first = First(s, [first |-> "recv"])]
      [] n.op = "send" -> [s EXCEPT !.n_send = @ + 1, !.first = First(s, [first |-> "send"])]
      [] n.op \in {"close", "ret", "brk"} -> s
      [] n.op = "go" ->
            LET c == FoldLeftover(ScanBlock(NoScan, n.body))
            IN  [s EXCEPT !.kids = Append(@, [h |-> n.h, sc |-> c, folded |-> FALSE])]
      [] n.op = "join" -> ScanJoin(s, n.h)
      [] n.op = "detach" ->
            IF \E i \in DOMAIN s.kids : s.kids[i].h = n.h /\ ~s.kids[i].folded THEN s ELSE Complex(s)
      [] n.op = "if" -> ScanIf(s, ScanBlock(NoScan, n.a), ScanBlock(NoScan, n.b))
      [] n.op = "loop" -> ScanLoop(s, n.body)
      [] n.op \in {"for", "while"} -> ScanCounted(s, n)
      [] OTHER -> Complex(s)

ScanWorker(body) == FoldLeftover(ScanBlock(NoScan, body))

-----------------------------------------------------------------------------
(* The judgement on each blocking statement of the parent.                 *)

NewChan(c) == [open |-> TRUE, n_send |-> 0, n_recv |-> 0, n_bg_prod |-> 0, n_bg_cons |-> 0,
               unknown |-> FALSE, sel_unknown |-> FALSE, cap |-> Cap[c]]

On(c) == {i \in DOMAIN joins : joins[i].ch = c}
Total(S, f(_)) == MapThenSumSet(f, S)

\* wf_producer_capacity
Producers(c) == chans[c].n_bg_prod
    + Total({i \in On(c) : joins[i].first = "send"}, LAMBDA i : joins[i].n_send)
ProducersUnknown(c) ==
    \/ chans[c].unknown
    \/ \E i \in On(c) : joins[i].complex \/ joins[i].imprecise
                           \/ (joins[i].maybe_loop /\ joins[i].first = "send")

\* What workers will take from the channel, and whether some may take more.
Takers(c) == Total({i \in On(c) : joins[i].first = "recv"}, LAMBDA i : joins[i].n_recv)
Credits(c) == chans[c].n_bg_cons + Takers(c) + Total(On(c), LAMBDA i : joins[i].child_cons)
CreditsUnknown(S, side) ==
    \E i \in S : joins[i].complex \/ joins[i].imprecise
                    \/ (joins[i].maybe_loop /\ joins[i].first = side)

\* wf_check_recv: the count includes the statement itself.
CheckRecv(c) ==
    LET unmatched == chans[c].n_recv + 1 - chans[c].n_send
    IN  IF ~chans[c].open THEN "none"
        ELSE IF unmatched <= 0 \/ unmatched <= Producers(c) THEN "ok"
        ELSE IF ~ProducersUnknown(c) THEN "cycle" ELSE "none"

CheckSend(c) ==
    LET ch == chans[c]
        unknown == ch.unknown \/ CreditsUnknown(On(c), "recv")
    IN  IF ~ch.open THEN "none"
        ELSE IF ch.n_send - ch.n_recv - Credits(c) >= ch.cap
        THEN IF unknown THEN "none" ELSE "cycle"
        ELSE IF ch.sel_unknown THEN "none" ELSE "ok"

\* The worker of a join receives first: somebody must have sent or be sending.
CheckJoinRecv(c, j) ==
    IF chans[c].n_send > 0 \/ Producers(c) > 0
    THEN IF j.maybe_loop THEN "none" ELSE "ok"
    ELSE IF ProducersUnknown(c) THEN "none" ELSE "cycle"

\* The worker of a join only sends: what it sends must fit.
CheckJoinSend(c, x) ==
    LET ch == chans[c]
        j == joins[x]
        others == On(c) \ {x}
        credits == ch.n_bg_cons + j.child_cons
                   + Total({i \in others : joins[i].first = "recv"}, LAMBDA i : joins[i].n_recv)
        unknown == ch.unknown \/ CreditsUnknown(others, "recv")
        rivals == \E i \in others : ~joins[i].complex /\ joins[i].first = "send"
    IN  IF \/ j.n_recv # 0 \/ j.maybe_loop \/ ~ch.open \/ rivals
           \/ ch.n_send # 0 \/ ch.n_bg_prod # 0 THEN "none"
        ELSE IF j.n_send > ch.cap + ch.n_recv + credits
        THEN IF unknown THEN "none" ELSE "cycle"
        ELSE IF ch.sel_unknown \/ j.imprecise THEN "none" ELSE "ok"

CheckJoin(x) ==
    LET j == joins[x]
    IN  IF j.noreturn THEN "cycle"
        ELSE IF j.complex THEN "none"
        ELSE IF j.first = "recv" THEN CheckJoinRecv(j.ch, j)
        ELSE IF j.first = "send" THEN CheckJoinSend(j.ch, x)
        ELSE "none"

\* wf_chan_eventual: what the channel will hold for a fresh taker.
Eventual(c) == chans[c].n_send - chans[c].n_recv
               + (IF chans[c].open THEN Producers(c) ELSE 0) - Credits(c)
EventualUnknown(c) == CreditsUnknown(On(c), "send") \/ (chans[c].open /\ ProducersUnknown(c))

CheckSelect(c, d) ==
    LET unknown == EventualUnknown(c) \/ EventualUnknown(d)
    IN  IF ~chans[c].open /\ ~chans[d].open THEN "ok"
        ELSE IF unknown THEN "none"
        ELSE IF Eventual(c) > 0 \/ Eventual(d) > 0 THEN "ok" ELSE "cycle"

-----------------------------------------------------------------------------
(* The running program.                                                    *)

\* The first statement with an effect in each way a body may go on.
RECURSIVE Unfold(_)
Unfold(t) ==
    IF t = <<>> THEN {<<>>}
    ELSE LET n == Head(t)
             loops == {i \in DOMAIN t : t[i].op = "loop"}
         IN  CASE n.op = "if" -> Unfold(n.a \o Tail(t)) \cup Unfold(n.b \o Tail(t))
               [] n.op = "for" -> Unfold(FlattenSeq([i \in 1..n.k |-> n.body]) \o Tail(t))
               [] n.op = "while" -> Unfold(FlattenSeq([i \in 1..(n.k - n.i0) |-> n.body]) \o Tail(t))
               [] n.op = "loop" /\ n.body # <<>> -> Unfold(n.body \o t)
               [] n.op = "brk" -> Unfold(SubSeq(t, Min(loops) + 1, Len(t)))
               [] n.op = "ret" -> {<<>>}
               [] OTHER -> {t}

CanSend(c) == closed[c] \/ buf[c] < Cap[c]
CanRecv(c) == closed[c] \/ buf[c] > 0
Finished(i) == procs[i].todo = <<>>

CanStep(p) ==
    LET n == Head(p.todo)
    IN  /\ p.todo # <<>>
        /\ CASE n.op = "send" -> CanSend(p.ch)
             [] n.op = "recv" -> CanRecv(p.ch)
             [] n.op = "join" -> Finished(p.kids[n.h])
             [] n.op = "loop" -> FALSE          \* it spins: nothing comes of it
             [] OTHER -> TRUE

Put(c) == buf' = [buf EXCEPT ![c] = IF closed[c] THEN @ ELSE @ + 1]
Take(c) == buf' = [buf EXCEPT ![c] = IF @ > 0 THEN @ - 1 ELSE @]

\* The parent's statement: at = [op, c, d, x]; only blocking statements stay in at.
CanPass == CASE at.op = "send" -> CanSend(at.c)
             [] at.op = "recv" -> CanRecv(at.c)
             [] at.op = "join" -> Finished(joins[at.x].proc)
             [] at.op = "select" -> \/ buf[at.c] > 0 \/ buf[at.d] > 0
                                    \/ (closed[at.c] /\ closed[at.d])
             [] OTHER -> TRUE

Idle == [op |-> "idle"]

WaitForInit ==
    /\ chans = [c \in Chans |-> NewChan(c)] /\ joins = <<>>
    /\ at = Idle /\ claim = "none" /\ stmts = 0
    /\ buf = [c \in Chans |-> 0] /\ closed = [c \in Chans |-> FALSE] /\ procs = <<>>

Statement == at = Idle /\ stmts < MaxStmts /\ stmts' = stmts + 1

Blocks(op, say) ==
    /\ at' = op /\ claim' = say
    /\ UNCHANGED <<buf, closed, procs>>

Send(c) ==
    /\ Statement
    /\ Blocks([op |-> "send", c |-> c], CheckSend(c))
    /\ chans' = [chans EXCEPT ![c].n_send = @ + 1]
    /\ UNCHANGED joins

Recv(c) ==
    /\ Statement
    /\ Blocks([op |-> "recv", c |-> c], CheckRecv(c))
    /\ chans' = [chans EXCEPT ![c].n_recv = @ + 1]
    /\ UNCHANGED joins

Join(x) ==
    /\ Statement /\ joins[x].state = "live"
    /\ Blocks([op |-> "join", x |-> x], CheckJoin(x))
    /\ joins' = [joins EXCEPT ![x].state = "joined"]
    /\ UNCHANGED chans

\* select2_wait takes from either side: both are taxed and later claims are silenced.
Select(c, d) ==
    /\ Statement
    /\ Blocks([op |-> "select", c |-> c, d |-> d], CheckSelect(c, d))
    /\ chans' = [e \in Chans |-> IF e \in {c, d}
                                 THEN [chans[e] EXCEPT !.n_recv = @ + 1, !.unknown = TRUE,
                                                       !.sel_unknown = TRUE]
                                 ELSE chans[e]]
    /\ UNCHANGED joins

Quiet == Statement /\ claim' = "none" /\ UNCHANGED at

Close(c) ==
    /\ Quiet
    /\ closed' = [closed EXCEPT ![c] = TRUE]
    /\ chans' = [chans EXCEPT ![c].open = FALSE]
    /\ UNCHANGED <<joins, buf, procs>>

Detach(x) ==
    /\ Quiet /\ joins[x].state = "live"
    /\ joins' = [joins EXCEPT ![x].state = "detached"]
    /\ UNCHANGED <<chans, buf, closed, procs>>

Spawn(w, c) ==
    /\ Cardinality({i \in DOMAIN procs : procs[i].top}) < MaxWorkers
    /\ \E t \in Unfold(w) : procs' = Append(procs, [ch |-> c, todo |-> t, kids |-> <<>>, body |-> w, top |-> TRUE])
    /\ UNCHANGED <<buf, closed>>

\* go(w, c): a handle that carries what the scan found.
Go(w, c) ==
    LET s == ScanWorker(w)
        count(n) == IF s.complex THEN 0 ELSE n
        flag(b) == ~s.complex /\ b
    IN  /\ Quiet /\ Spawn(w, c)
        /\ joins' = Append(joins, [state |-> "live", ch |-> c, proc |-> Len(procs) + 1,
               first |-> IF s.complex THEN "none" ELSE s.first, complex |-> s.complex,
               n_send |-> count(s.n_send), n_recv |-> count(s.n_recv),
               child_cons |-> count(s.child_cons), imprecise |-> flag(s.imprecise),
               noreturn |-> s.noreturn, maybe_loop |-> flag(s.maybe_loop)])
        /\ chans' = [chans EXCEPT ![c].unknown = @ \/ s.complex]

\* go_bg(w, c): no handle; what is known of it is added to the channel.
GoBg(w, c) ==
    LET s == ScanWorker(w)
        known == ~s.complex /\ ~s.imprecise
    IN  /\ Quiet /\ Spawn(w, c)
        /\ chans' = [chans EXCEPT
               ![c].unknown = @ \/ ~known \/ s.maybe_loop,
               ![c].n_bg_prod = @ + (IF known /\ s.first = "send" THEN s.n_send ELSE 0),
               ![c].n_bg_cons = @ + (IF known THEN s.n_recv + s.child_cons ELSE 0)]
        /\ UNCHANGED joins

\* The statement in at goes through.
Pass ==
    /\ at # Idle /\ CanPass
    /\ at' = Idle /\ claim' = "none"
    /\ \/ at.op = "send" /\ Put(at.c)
       \/ at.op = "recv" /\ Take(at.c)
       \/ at.op = "join" /\ UNCHANGED buf
       \/ at.op = "select" /\ (\/ buf[at.c] > 0 /\ Take(at.c)
                               \/ buf[at.d] > 0 /\ Take(at.d)
                               \/ buf[at.c] = 0 /\ buf[at.d] = 0 /\ UNCHANGED buf)
    /\ UNCHANGED <<chans, joins, stmts, closed, procs>>

\* A worker takes its next step.
Work(i) ==
    LET p == procs[i]
        n == Head(p.todo)
    IN  /\ CanStep(p)
        /\ \E t \in Unfold(Tail(p.todo)) :
              LET q == [p EXCEPT !.todo = t]
              IN  IF n.op = "go"
                  THEN \E u \in Unfold(n.body) :
                            procs' = Append([procs EXCEPT ![i] = [q EXCEPT !.kids = (n.h :> Len(procs) + 1) @@ @]],
                                            [ch |-> p.ch, todo |-> u, kids |-> <<>>, body |-> n.body, top |-> FALSE])
                  ELSE procs' = [procs EXCEPT ![i] = q]
        /\ CASE n.op = "send" -> Put(p.ch) /\ UNCHANGED closed
             [] n.op \in {"recv", "try"} -> Take(p.ch) /\ UNCHANGED closed
             [] n.op = "close" -> closed' = [closed EXCEPT ![p.ch] = TRUE] /\ UNCHANGED buf
             [] OTHER -> UNCHANGED <<buf, closed>>
        /\ UNCHANGED <<chans, joins, at, claim, stmts>>

-----------------------------------------------------------------------------
(* The programs that the claims are known to be wrong about, by what they  *)
(* overlook; a member of Holes is not set apart.                           *)

\* How often a body may do op; a loop does it without bound.
Many == 9
RECURSIVE Counts(_, _)
Counts(body, op) ==
    LET Node(n) ==
            CASE n.op = "if" -> Counts(n.a, op) \cup Counts(n.b, op)
              [] n.op = "for" -> {n.k * m : m \in Counts(n.body, op)}
              [] n.op = "while" -> {(n.k - n.i0) * m : m \in Counts(n.body, op)}
              [] n.op = "loop" -> {IF m = 0 THEN 0 ELSE Many : m \in Counts(n.body, op)}
              [] n.op = "go" -> Counts(n.body, op)
              [] n.op = "try" /\ op = "recv" -> {0, 1}
              [] OTHER -> {IF n.op = op THEN 1 ELSE 0}
    IN  FoldLeft(LAMBDA S, n : {x + y : x \in S, y \in Node(n)}, {0}, body)

Spawned(c) == {i \in DOMAIN procs : procs[i].ch = c /\ procs[i].top}
Most(c, op) == Total(Spawned(c), LAMBDA i : Max(Counts(procs[i].body, op)))

\* What workers that wait for nothing put into the channel.
Supply(c) == Total({i \in Spawned(c) : Counts(procs[i].body, "recv") = {0}},
                   LAMBDA i : Min(Counts(procs[i].body, "send")))

\* Another taker may get the item that a recv or a select counts on.
Stolen == \/ at.op = "recv" /\ Most(at.c, "recv") > 0
          \/ at.op = "select" /\ Most(at.c, "recv") + Most(at.d, "recv") > 0

\* Another producer may fill the slot that a send, or the worker of a join, counts on.
Rival == \/ at.op = "send" /\ Most(at.c, "send") > 0
         \/ /\ at.op = "join"
            /\ LET j == joins[at.x] IN Most(j.ch, "send") > Max(Counts(procs[j.proc].body, "send"))

\* One item, ever sent or still to come, counts as enough for the worker of a join.
Hungry == /\ at.op = "join"
          /\ LET c == joins[at.x].ch
             IN  chans[c].n_send - chans[c].n_recv + Supply(c) < Most(c, "recv")

\* A receiver does not block on a closed channel, and a send to one leaves nothing.
Shut == \/ at.op = "join" /\ ~chans[joins[at.x].ch].open
        \/ at.op = "select" /\ chans[at.c].open # chans[at.d].open

\* A worker that both sends and receives is judged by what it does first.
Both(c) == \E i \in Spawned(c) : Max(Counts(procs[i].body, "recv")) > 0
                                  /\ Max(Counts(procs[i].body, "send")) > 0
Mixed == \/ at.op \in {"recv", "send"} /\ Both(at.c)
         \/ at.op = "select" /\ (Both(at.c) \/ Both(at.d))
         \/ at.op = "join" /\ Both(joins[at.x].ch)

\* A child that another worker leaves behind takes from the channel, which the
\* judgement on a join does not count.
Orphan == /\ at.op = "join"
          /\ \E i \in On(joins[at.x].ch) \ {at.x} : joins[i].child_cons > 0

Apart(hole, cond) == hole \notin Holes /\ cond
AnyApart == Apart("closed", Shut) \/ Apart("mixed", Mixed)
OkApart == AnyApart \/ Apart("stolen", Stolen) \/ Apart("rival", Rival) \/ Apart("hungry", Hungry)
CycleApart == AnyApart \/ Apart("stolen", at.op = "select" /\ Stolen) \/ Apart("orphan", Orphan)

WaitForNext ==
    \/ \E c \in Chans : Send(c) \/ Recv(c) \/ Close(c) \/ \E w \in Bodies[c] : Go(w, c) \/ GoBg(w, c)
    \/ \E c, d \in Chans : c # d /\ Select(c, d)
    \/ \E x \in DOMAIN joins : Join(x) \/ Detach(x)
    \/ Pass
    \/ \E i \in DOMAIN procs : Work(i)

Stuck == at # Idle /\ ~CanPass /\ \A i \in DOMAIN procs : ~CanStep(procs[i])

\* What the analysis says of a statement is so: a statement said to go through is never
\* left blocked with nobody to release it, and one said to block for ever cannot go through.
ClaimsTrue ==
    /\ claim = "ok" /\ Stuck => OkApart
    /\ claim = "cycle" /\ CanPass => CycleApart
=============================================================================

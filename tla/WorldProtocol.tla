---------------------------- MODULE WorldProtocol ----------------------------
(***************************************************************************)
(* The protocol of worlds as the verifier checks it.  A body is verified   *)
(* on its own: the handles of its worlds have ghost states, a parameter    *)
(* has the contract of the body's specification, and a channel has the     *)
(* axiom that the body declares or requires.  Here the bodies run: a task  *)
(* executes a statement only when the verifier makes no accusation there,  *)
(* so a behaviour is a run of a program that it accepts.  The question is  *)
(* whether the ghost states tell the truth about the worlds.               *)
(*                                                                         *)
(* Handles whose world the verifier does not track are left out, as are    *)
(* receives from a closed and empty channel.                               *)
(***************************************************************************)
EXTENDS Naturals, Sequences, FiniteSets

CONSTANTS
    WorldIds,    \* worlds
    LocalNames,  \* the locals of one body
    Tasks,       \* 1 is the body that makes the channel; the others are called or spawned
    ChanCap,     \* capacity of the channel
    Setups,      \* sets of instances: the worlds and tasks there are, and whether a channel is made
    MaxShares,   \* bound on the shares of a world that one handle counts
    WorldHoles   \* the shapes of programs, wrongly accepted, that may occur

VARIABLES
    hs,          \* [Tasks -> [LocalNames -> handle]]: the ghost states of a body
    tasks,       \* how a task was started and whether it was joined
    ax,          \* [Tasks -> kind]: the axiom on the channel that a body holds
    ch,          \* the channel: ghost state, leak and expiry, and whether it is closed
    queue,       \* the worlds in the channel
    real,        \* [WorldIds -> [st, links]]: the worlds themselves
    refused      \* the run time has refused an operation that the verifier accepts

pvars == <<hs, tasks, ax, ch, queue, real, refused>>

Main == 1

\* What the constants are assumed to be: a task is spawned later than its parent, and the
\* first local of a body is its world parameter.
ProtocolAssumption ==
    /\ Tasks \subseteq Nat \ {0} /\ IsFiniteSet(Tasks) /\ Main \in Tasks
    /\ LocalNames \subseteq Nat \ {0} /\ 1 \in LocalNames
    /\ WorldIds \subseteq Nat

Contracts == {"frozen", "mutable", "owned"}

NoHandle == [st |-> "none", con |-> "none", shared |-> 0, chs |-> 0, links |-> {}, from |-> FALSE, w |-> 0]
NoTask == [st |-> "unused", by |-> 0, how |-> "none", world |-> 0, carrier |-> FALSE,
           handle |-> "open", out |-> "none"]

\* A handle as a contract registers it.
Fresh(st, con, w) == [NoHandle EXCEPT !.st = st, !.con = con, !.w = w]
StateOf(kind) == IF kind = "frozen" THEN "frozen" ELSE "mutable"

\* Tasks and worlds that an instance lacks are used up, and its channel is never made.
ProtocolInit == \E s \in Setups :
    /\ hs = [t \in Tasks |-> [n \in LocalNames |-> NoHandle]]
    /\ tasks = [t \in Tasks |-> [NoTask EXCEPT !.st = IF t = Main THEN "run"
                                                     ELSE IF t \in s.tasks THEN "unused" ELSE "done"]]
    /\ ax = [t \in Tasks |-> "none"]
    /\ ch = [ghost |-> IF s.chan THEN "none" ELSE "never", leak |-> FALSE, expired |-> FALSE, closed |-> FALSE]
    /\ queue = <<>>
    /\ real = [w \in WorldIds |-> [st |-> IF w \in s.worlds THEN "unused" ELSE "freed", links |-> {}]]
    /\ refused = FALSE

-----------------------------------------------------------------------------
(* What the verifier looks at.                                             *)

Usable(e) == e.st \in {"mutable", "frozen"}
Borrowed(e) == e.con = "frozen"
Linked(t, n) == \E m \in LocalNames : n \in hs[t][m].links

LinkSteps(t) == {s \in LocalNames \X LocalNames : s[2] \in hs[t][s[1]].links}
LinkPath(t, n, m) == \E s \in UNION {[1..k -> LocalNames] : k \in 2..Cardinality(LocalNames)} :
                       /\ s[1] = n /\ s[Len(s)] = m
                       /\ \A i \in 1..(Len(s) - 1) : <<s[i], s[i + 1]>> \in LinkSteps(t)

\* May the handle be handed to another executor?
HandoffOk(t, n, joinable, delegate) ==
    LET e == hs[t][n] IN /\ Usable(e) /\ e.con # "mutable" /\ ~Linked(t, n)
                         /\ Borrowed(e) => joinable /\ delegate
                         /\ e.shared < MaxShares

\* A frozen world is shared, a mutable one is moved.
HandedOff(e, overChan) ==
    IF e.st = "frozen" THEN [e EXCEPT !.shared = @ + 1, !.chs = IF overChan THEN @ + 1 ELSE @]
                       ELSE [e EXCEPT !.st = "moved"]

\* Does the argument satisfy the contract of the parameter?
Discharge(t, n, kind) ==
    LET e == hs[t][n] IN
      IF kind = "frozen" THEN e.st = "frozen"
      ELSE /\ ~Borrowed(e) /\ e.st = "mutable" /\ e.shared = 0
           /\ kind = "owned" => ~Linked(t, n)

\* Does the payload satisfy the axiom of the channel?
AxiomHolds(t, n, kind) ==
    LET e == hs[t][n] IN
      CASE kind = "frozen" -> e.st = "frozen"
        [] kind = "owned" -> e.st = "mutable" /\ ~Borrowed(e) /\ e.shared = 0 /\ ~Linked(t, n)
        [] OTHER -> FALSE

\* Mutant: a carrier that was detached does not count.
ExpiresDetached(t) == /\ t = Main /\ ch.ghost = "closed" /\ ~ch.leak
                      /\ \A c \in Tasks : tasks[c].by = t /\ tasks[c].carrier => tasks[c].handle # "open"
                      /\ \A n \in LocalNames : Usable(hs[t][n]) => ~hs[t][n].from

\* Do the shares over the channel expire?  It is closed and did not escape, every
\* carrier is joined, and no live world was received from it.
Expires(t) == /\ t = Main /\ ch.ghost = "closed" /\ ~ch.leak
              /\ \A c \in Tasks : tasks[c].by = t /\ tasks[c].carrier => tasks[c].handle = "joined"
              /\ \A n \in LocalNames : Usable(hs[t][n]) => ~hs[t][n].from
SharedAtFree(t, n) == hs[t][n].shared - (IF Expires(t) THEN hs[t][n].chs ELSE 0)

FreeOk(t, n) == LET e == hs[t][n] IN /\ Usable(e) /\ ~Borrowed(e) /\ e.con # "mutable"
                                     /\ SharedAtFree(t, n) = 0 /\ ~Linked(t, n)

-----------------------------------------------------------------------------
(* Running tasks.                                                          *)

Waits(t) == \E c \in Tasks : tasks[c].by = t /\ tasks[c].how = "call" /\ tasks[c].st = "run"
CanStep(t) == tasks[t].st = "run" /\ ~Waits(t)
HasChan(t) == IF t = Main THEN ch.ghost \in {"open", "closed"} ELSE ax[t] # "none"
Children(t) == {c \in Tasks : tasks[c].by = t}

\* The next task and the next local are the first free ones.
NextTask == CHOOSE c \in Tasks : /\ tasks[c].st = "unused"
                                 /\ \A d \in Tasks : d < c => tasks[d].st # "unused"
SomeTask == \E c \in Tasks : tasks[c].st = "unused"
NextName(t) == CHOOSE n \in LocalNames : /\ hs[t][n].st = "none"
                                    /\ \A m \in LocalNames : m < n => hs[t][m].st # "none"
SomeName(t) == \E n \in LocalNames : hs[t][n].st = "none"

LinkedBy(w) == \E o \in WorldIds : w \in real[o].links

-----------------------------------------------------------------------------
(* Statements on worlds.                                                   *)

New(t) == \E w \in WorldIds :
    /\ SomeName(t)
    /\ real[w].st = "unused" /\ \A v \in WorldIds : v < w => real[v].st # "unused"
    /\ hs' = [hs EXCEPT ![t][NextName(t)] = Fresh("mutable", "none", w)]
    /\ real' = [real EXCEPT ![w].st = "mutable"]
    /\ UNCHANGED <<tasks, ax, ch, queue, refused>>

Freeze(t, n) ==
    /\ hs[t][n].st = "mutable" /\ hs[t][n].con # "mutable"
    /\ hs' = [hs EXCEPT ![t][n].st = "frozen"]
    /\ real' = [real EXCEPT ![hs[t][n].w].st = "frozen"]
    /\ refused' = (refused \/ real[hs[t][n].w].st # "mutable")
    /\ UNCHANGED <<tasks, ax, ch, queue>>

\* The run time ends the program rather than free a linked world.
Free(t, n) ==
    LET w == hs[t][n].w IN
    /\ FreeOk(t, n)
    /\ hs' = [hs EXCEPT ![t][n].st = "freed", ![t][n].links = {},
                        ![t][n].shared = SharedAtFree(t, n), ![t][n].chs = IF Expires(t) THEN 0 ELSE @]
    /\ ch' = [ch EXCEPT !.expired = @ \/ (hs[t][n].chs > 0 /\ Expires(t))]
    /\ IF LinkedBy(w) THEN refused' = TRUE /\ UNCHANGED real
                      ELSE real' = [real EXCEPT ![w] = [st |-> "freed", links |-> {}]] /\ UNCHANGED refused
    /\ UNCHANGED <<tasks, ax, queue>>

\* Hole "capability": the target belongs to a caller, which may free it after the call.
Link(t, n, m) ==
    LET e == hs[t][n]  tg == hs[t][m] IN
    /\ e.st = "mutable" /\ e.con # "mutable" /\ Usable(tg)
    /\ n # m /\ ~LinkPath(t, m, n)
    /\ tg.con \in {"frozen", "mutable"} => "capability" \in WorldHoles
    /\ hs' = [hs EXCEPT ![t][n].links = @ \cup {m}]
    /\ real' = [real EXCEPT ![e.w].links = @ \cup {tg.w}]
    /\ UNCHANGED <<tasks, ax, ch, queue, refused>>

Unlink(t, n, m) ==
    /\ hs[t][n].st = "mutable" /\ hs[t][n].con # "mutable" /\ m \in hs[t][n].links
    /\ hs' = [hs EXCEPT ![t][n].links = @ \ {m}]
    /\ real' = [real EXCEPT ![hs[t][n].w].links = @ \ {hs[t][m].w}]
    /\ UNCHANGED <<tasks, ax, ch, queue, refused>>

-----------------------------------------------------------------------------
(* Calls and spawned tasks.                                                *)

\* Hole "linked": what a world links to is still written by the body that hands it over.
TargetsQuiet(t, n) == \A m \in LocalNames : /\ hs[t][m].st = "mutable"
                                       /\ hs[t][m].w \in real[hs[t][n].w].links
                                       => "linked" \in WorldHoles

\* The handle of the caller after its world went to a parameter with the contract.
AfterCall(e, kind) == IF kind = "owned" THEN [e EXCEPT !.st = "moved"] ELSE e
AfterGo(e, kind) == IF kind = "owned" THEN [e EXCEPT !.st = "moved"] ELSE HandedOff(e, FALSE)

\* Hole "given": a body that may only write the world gives it away.
Pass(t, n, kind, how, out) ==
    LET e == hs[t][n]  c == NextTask IN
    /\ SomeTask
    /\ Discharge(t, n, kind)
    /\ how # "call" /\ kind # "owned" => HandoffOk(t, n, how = "go", kind = "frozen")
    /\ how # "call" \/ kind = "owned" => TargetsQuiet(t, n)
    /\ kind = "owned" /\ e.con = "mutable" => "given" \in WorldHoles
    /\ hs' = [hs EXCEPT ![t][n] = IF how = "call" THEN AfterCall(e, kind) ELSE AfterGo(e, kind),
                        ![c][1] = Fresh(StateOf(kind), kind, e.w)]
    /\ tasks' = [tasks EXCEPT ![c] = [NoTask EXCEPT !.st = "run", !.by = t, !.how = how, !.out = out,
                                        !.world = IF how = "go" /\ kind = "frozen" THEN n ELSE 0]]
    /\ UNCHANGED <<ax, ch, queue, real, refused>>

\* A function without a world parameter that returns a world.
CallMaker(t, out) ==
    /\ SomeTask /\ out # "none"
    /\ tasks' = [tasks EXCEPT ![NextTask] = [NoTask EXCEPT !.st = "run", !.by = t, !.how = "call", !.out = out]]
    /\ UNCHANGED <<hs, ax, ch, queue, real, refused>>

\* A body that requires the axiom gets the channel; only the maker of the channel
\* tracks its carriers, and a channel that goes anywhere but to a carrier escapes.
\* Hole "late": a world that the channel still holds was freed.
PassChan(t, how) ==
    /\ SomeTask /\ HasChan(t) /\ ax[t] # "none"
    /\ ch.expired => "late" \in WorldHoles
    /\ tasks' = [tasks EXCEPT ![NextTask] = [NoTask EXCEPT !.st = "run", !.by = t, !.how = how, !.carrier = TRUE]]
    /\ ax' = [ax EXCEPT ![NextTask] = ax[t]]
    /\ ch' = [ch EXCEPT !.leak = @ \/ (t = Main /\ how # "go")]
    /\ UNCHANGED <<hs, queue, real, refused>>

Join(t, c) ==
    LET n == tasks[c].world IN
    /\ tasks[c].by = t /\ tasks[c].how = "go" /\ tasks[c].handle = "open" /\ tasks[c].st = "done"
    /\ tasks' = [tasks EXCEPT ![c].handle = "joined"]
    /\ hs' = IF n # 0 /\ hs[t][n].shared > 0 THEN [hs EXCEPT ![t][n].shared = @ - 1] ELSE hs
    /\ UNCHANGED <<ax, ch, queue, real, refused>>

Detach(t, c) ==
    /\ tasks[c].by = t /\ tasks[c].how = "go" /\ tasks[c].handle = "open"
    /\ tasks' = [tasks EXCEPT ![c].handle = "detached"]
    /\ UNCHANGED <<hs, ax, ch, queue, real, refused>>

\* The promise of a returned world.  Hole "returned": a borrowed right to write comes
\* back as ownership; hole "thawed": a frozen world comes back as a mutable one; hole
\* "capability": the world that comes back is still linked.
Guarantee(t, n) ==
    LET e == hs[t][n] IN
    /\ Usable(e) /\ ~Borrowed(e) /\ e.shared = 0
    /\ tasks[t].out = "frozen" => e.st = "frozen"
    /\ e.con = "mutable" => "returned" \in WorldHoles
    /\ tasks[t].out = "owned" /\ e.st = "frozen" => "thawed" \in WorldHoles
    /\ Linked(t, n) => "capability" \in WorldHoles

\* Hole "carriers": a body that was joined leaves a task that has the channel.
CarriersJoined(t) == \A c \in Children(t) :
                        tasks[c].carrier /\ tasks[c].how # "call" /\ tasks[c].handle # "joined"
                        => "carriers" \in WorldHoles

\* Every delegated world is joined before the body ends.
Undelegated(t) == \A n \in LocalNames : Borrowed(hs[t][n]) => hs[t][n].shared = 0

End(t) ==
    LET p == tasks[t].by  done == [tasks EXCEPT ![t].st = "done"]
        gone == [hs EXCEPT ![t] = [n \in LocalNames |-> NoHandle]] IN
    /\ t # Main /\ Undelegated(t) /\ CarriersJoined(t)
    /\ tasks' = done
    /\ ax' = [ax EXCEPT ![t] = "none"]
    /\ IF tasks[t].out = "none" THEN hs' = gone
       ELSE /\ SomeName(p)
            /\ \E n \in LocalNames : /\ Guarantee(t, n)
                                /\ hs' = [gone EXCEPT ![p][NextName(p)] =
                                              Fresh(StateOf(tasks[t].out), "none", hs[t][n].w)]
    /\ UNCHANGED <<ch, queue, real, refused>>

-----------------------------------------------------------------------------
(* The channel.                                                            *)

NewChan(kind) ==
    /\ ch.ghost = "none"
    /\ ch' = [ch EXCEPT !.ghost = "open"]
    /\ ax' = [ax EXCEPT ![Main] = kind]
    /\ UNCHANGED <<hs, tasks, queue, real, refused>>

\* The axiom is dropped when the payload does not satisfy it, in this body only.  Hole
\* "dropped": another body goes on believing it.
SendWorld(t, n) ==
    /\ HasChan(t) /\ HandoffOk(t, n, FALSE, FALSE) /\ TargetsQuiet(t, n)
    /\ ch.closed \/ Len(queue) < ChanCap
    /\ ax[t] # "none" /\ ~AxiomHolds(t, n, ax[t]) =>
          "dropped" \in WorldHoles \/ \A u \in Tasks \ {t} : ax[u] = "none"
    /\ ax' = [ax EXCEPT ![t] = IF AxiomHolds(t, n, @) THEN @ ELSE "none"]
    /\ hs' = [hs EXCEPT ![t][n] = HandedOff(@, t = Main)]
    /\ queue' = IF ch.closed THEN queue ELSE Append(queue, hs[t][n].w)
    /\ UNCHANGED <<tasks, ch, real, refused>>

\* Hole "late" again, when the maker itself receives.
RecvWorld(t) ==
    /\ HasChan(t) /\ ax[t] # "none" /\ SomeName(t) /\ queue # <<>>
    /\ ch.expired => "late" \in WorldHoles
    /\ hs' = [hs EXCEPT ![t][NextName(t)] = [Fresh(StateOf(ax[t]), ax[t], Head(queue)) EXCEPT !.from = TRUE]]
    /\ queue' = Tail(queue)
    /\ UNCHANGED <<tasks, ax, ch, real, refused>>

CloseChan(t) ==
    /\ HasChan(t) /\ ~ch.closed
    /\ ch' = [ch EXCEPT !.closed = TRUE, !.ghost = IF t = Main THEN "closed" ELSE @]
    /\ UNCHANGED <<hs, tasks, ax, queue, real, refused>>

WorldOp(t) == \/ New(t)
              \/ \E n \in LocalNames : Freeze(t, n) \/ Free(t, n)
              \/ \E n, m \in LocalNames : Link(t, n, m) \/ Unlink(t, n, m)

TaskOp(t) ==
    \/ \E n \in LocalNames, kind \in Contracts, how \in {"go", "bg"} : Pass(t, n, kind, how, "none")
    \/ \E n \in LocalNames, kind \in Contracts, out \in {"none", "frozen", "owned"} : Pass(t, n, kind, "call", out)
    \/ \E out \in {"frozen", "owned"} : CallMaker(t, out)
    \/ \E how \in {"go", "bg", "call"} : PassChan(t, how)
    \/ \E c \in Tasks : Join(t, c) \/ Detach(t, c)
    \/ End(t)

ChanOp(t) == \/ t = Main /\ \E kind \in {"frozen", "owned"} : NewChan(kind)
             \/ \E n \in LocalNames : SendWorld(t, n)
             \/ RecvWorld(t)
             \/ CloseChan(t)

ProtocolNext == ~refused /\ \E t \in {u \in Tasks : CanStep(u)} : WorldOp(t) \/ TaskOp(t) \/ ChanOp(t)

ProtocolSpec == ProtocolInit /\ [][ProtocolNext]_pvars

-----------------------------------------------------------------------------

Held == {h \in Tasks \X LocalNames : tasks[h[1]].st = "run" /\ Usable(hs[h[1]][h[2]])}
Acting == {h \in Held : ~Waits(h[1])}
HandleOf(h) == hs[h[1]][h[2]]

\* What the ghost state of a live handle says is so: the world is alive and is frozen
\* exactly when the handle says so, and so are alive the worlds it links to.
GhostsTrue == \A h \in Held : LET w == HandleOf(h).w IN
                 /\ real[w].st = HandleOf(h).st
                 /\ \A x \in real[w].links : real[x].st \in {"mutable", "frozen"}

\* Who may write a world is alone with it: no other handle that may be used now reads
\* it, be it directly or through a link.
Sees(h) == {HandleOf(h).w} \cup real[HandleOf(h).w].links
WriterAlone == \A h, k \in Acting :
                  h # k /\ HandleOf(h).st = "mutable" =>
                     /\ HandleOf(k).w # HandleOf(h).w
                     /\ h[1] # k[1] => HandleOf(h).w \notin Sees(k)

\* A program that the verifier accepts uses no world after it is freed, does not write
\* one that another task may read, and has no operation on a world refused.
WorldsSafe == GhostsTrue /\ WriterAlone /\ ~refused
=============================================================================

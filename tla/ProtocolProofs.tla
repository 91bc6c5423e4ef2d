--------------------------- MODULE ProtocolProofs ---------------------------
(***************************************************************************)
(* What the verifier's ghost states say of worlds is true: for any number  *)
(* of tasks, locals and worlds, a program that it accepts and that has     *)
(* none of the shapes in WorldHoles uses its worlds safely.                *)
(***************************************************************************)
EXTENDS WorldProtocol, FoldLemmas

-----------------------------------------------------------------------------
(* The inductive invariant.                                                *)

Handles == [st : {"none", "mutable", "frozen", "moved", "freed"},
            con : {"none"} \cup Contracts, shared : Nat, chs : Nat,
            links : SUBSET LocalNames, from : BOOLEAN, w : WorldIds \cup {0}]

Starts == [st : {"unused", "run", "done"}, by : Tasks \cup {0},
           how : {"none", "call", "go", "bg"}, world : LocalNames \cup {0}, carrier : BOOLEAN,
           handle : {"open", "joined", "detached"}, out : {"none", "frozen", "owned"}]

ProtocolTypes ==
    /\ hs \in [Tasks -> [LocalNames -> Handles]]
    /\ tasks \in [Tasks -> Starts]
    /\ ax \in [Tasks -> {"none", "frozen", "owned"}]
    /\ ch \in [ghost : {"none", "never", "open", "closed"}, leak : BOOLEAN, expired : BOOLEAN,
               closed : BOOLEAN]
    /\ queue \in Seq(WorldIds)
    /\ real \in [WorldIds -> [st : {"unused", "mutable", "frozen", "freed"},
                              links : SUBSET WorldIds]]

Runs(t) == tasks[t].st = "run"

\* c is a call that t waits for.
CallOf(c, t) == tasks[c].by = t /\ tasks[c].how = "call" /\ Runs(c)

\* The tree of tasks: a parent is older than its children and outlives its calls and
\* the tasks that carry the channel.
TaskOk(c) ==
    /\ tasks[c].by \in Tasks => tasks[c].by < c /\ tasks[tasks[c].by].st # "unused"
    /\ tasks[c].by \notin Tasks => tasks[c].how = "none" /\ ~tasks[c].carrier
    /\ tasks[c].st = "unused" => tasks[c].by = 0
    /\ Runs(c) /\ c # Main => tasks[c].by \in Tasks /\ tasks[c].how # "none"
    /\ tasks[c].handle = "joined" => tasks[c].st = "done"
    /\ tasks[c].world # 0 => tasks[c].how = "go"
    /\ tasks[c].out # "none" => tasks[c].how = "call"
    /\ Runs(c) /\ tasks[c].how = "call" => Runs(tasks[c].by)
    /\ Runs(c) /\ tasks[c].carrier =>
          Runs(tasks[c].by) /\ (tasks[c].by = Main \/ tasks[tasks[c].by].carrier)

TaskInv ==
    /\ Runs(Main) /\ tasks[Main].by = 0
    /\ \A c \in Tasks : TaskOk(c)
    /\ \A t, c \in Tasks : Runs(t) /\ tasks[c].st = "unused" => t < c
    /\ \A t, c, d \in Tasks : CallOf(c, t) /\ CallOf(d, t) => c = d

\* The handles that own their world.
Owns(t, n) == Usable(hs[t][n]) /\ hs[t][n].con \in {"none", "owned"}

On(t, n, w) == Usable(hs[t][n]) /\ hs[t][n].w = w

\* The tasks that a handle was delegated to and that were not joined.
Delegates(t, n) == {c \in Tasks : /\ tasks[c].by = t /\ tasks[c].world = n
                                  /\ tasks[c].handle # "joined"}

HandleOk(t, n) ==
    LET e == hs[t][n] IN
    /\ ~Runs(t) \/ e.st = "none" => e = NoHandle
    /\ e.st # "none" => e.w \in WorldIds
    /\ e.st = "mutable" => e.shared = 0
    /\ e.con = "frozen" => e.st = "frozen"
    /\ e.con = "mutable" => e.st = "mutable" /\ ~e.from
    /\ t # Main => e.chs = 0
    /\ e.from => t = Main \/ tasks[t].carrier
    /\ (Borrowed(e) /\ ~e.from) \/ e.con = "mutable" => n = 1 /\ t # Main

HandleInv == \A t \in Tasks, n \in LocalNames : HandleOk(t, n)

\* A linked local owns its world and is still linked; when the linking world was handed
\* over, it is frozen.
LinkOk(t, n, m) ==
    LET e == hs[t][n] IN
    /\ e.st \in {"mutable", "frozen", "moved"} /\ e.con \in {"none", "owned"} /\ m # n
    /\ Owns(t, m)
    /\ e.st = "moved" \/ e.shared > 0 => hs[t][m].st = "frozen"
    /\ Usable(e) => hs[t][m].w \in real[e.w].links

GhostLinks == \A t \in Tasks, n, m \in LocalNames : m \in hs[t][n].links => LinkOk(t, n, m)

\* A handle counts its delegates and what it sent over the channel.
Counted == \A t \in Tasks, n \in LocalNames :
              Runs(t) => hs[t][n].shared >= hs[t][n].chs + Cardinality(Delegates(t, n))

\* The owner of w, if there is one, knows that it is shared with a task it cannot join, or
\* over a channel.
SharedForGood(w) == \A t \in Tasks, n \in LocalNames : Owns(t, n) /\ hs[t][n].w = w =>
                       hs[t][n].shared > hs[t][n].chs + Cardinality(Delegates(t, n))
SharedByChan(w) == \A t \in Tasks, n \in LocalNames : Owns(t, n) /\ hs[t][n].w = w =>
                      hs[t][n].shared > Cardinality(Delegates(t, n))
NoOwner(w) == \A t \in Tasks, n \in LocalNames : ~(Owns(t, n) /\ hs[t][n].w = w)

\* Where a borrowed frozen world comes from.
SourceOk(u, k) ==
    LET w == hs[u][k].w  p == tasks[u].by IN
    IF hs[u][k].from THEN SharedByChan(w)
    ELSE /\ tasks[u].how = "call" => \E n \in LocalNames : On(p, n, w)
         /\ tasks[u].how = "go" => \/ tasks[u].world \in LocalNames /\ On(p, tasks[u].world, w)
                                   \/ NoOwner(w)
         /\ tasks[u].how = "bg" => SharedForGood(w)

Sources == \A u \in Tasks, k \in LocalNames : Borrowed(hs[u][k]) => SourceOk(u, k)

\* The holders of a mutable world are a chain of calls.
Above(t, u, w) == \E c \in Tasks : /\ CallOf(c, t) /\ c <= u /\ On(c, 1, w)
                                   /\ hs[c][1].con = "mutable"
ChainOk(t, n, u, m) ==
    LET w == hs[t][n].w IN
    /\ t = u => n = m
    /\ t < u => hs[u][m].con = "mutable" /\ tasks[u].how = "call" /\ Above(t, u, w)

Chains == \A t, u \in Tasks, n, m \in LocalNames :
             hs[t][n].st = "mutable" /\ On(u, m, hs[t][n].w) => ChainOk(t, n, u, m)

Passed == \A u \in Tasks, k \in LocalNames :
             hs[u][k].con = "mutable" /\ tasks[u].how = "call" =>
                \E n \in LocalNames : On(tasks[u].by, n, hs[u][k].w)

OneOwner == \A t, u \in Tasks, n, m \in LocalNames :
               Owns(t, n) /\ Owns(u, m) /\ hs[t][n].w = hs[u][m].w => t = u /\ n = m

\* The worlds themselves.
RealOk(w) ==
    /\ real[w].links # {} => real[w].st \in {"mutable", "frozen"}
    /\ \A x \in real[w].links :
          /\ x # w /\ real[x].st \in {"mutable", "frozen"}
          /\ \A t \in Tasks, m \in LocalNames : On(t, m, x) =>
                /\ hs[t][m].con = "mutable" => tasks[t].how = "call"
                /\ Owns(t, m) => \E n \in LocalNames : m \in hs[t][n].links /\ hs[t][n].w = w

Reality == /\ \A w \in WorldIds : RealOk(w)
           /\ \A t \in Tasks, n \in LocalNames : Usable(hs[t][n]) => real[hs[t][n].w].st = hs[t][n].st

\* Bodies that have an axiom on the channel have the same one, and the worlds in the
\* channel satisfy it.
Nobody(w) == \A t \in Tasks, n \in LocalNames : ~On(t, n, w)
QueueOk(i) ==
    LET w == queue[i] IN
    /\ real[w].st # "unused"
    /\ SharedByChan(w)
    /\ \A t \in Tasks : ax[t] = "frozen" /\ ~ch.expired => real[w].st = "frozen"
    /\ \A t \in Tasks : ax[t] = "owned" =>
          /\ real[w].st = "mutable" /\ Nobody(w)
          /\ \A v \in WorldIds : w \notin real[v].links
          /\ \A j \in DOMAIN queue : j # i => queue[j] # w

Channel ==
    /\ \A t \in Tasks : ax[t] # "none" => Runs(t) /\ (t = Main \/ tasks[t].carrier)
    /\ \A t, u \in Tasks : ax[t] # "none" /\ ax[u] # "none" => ax[t] = ax[u]
    /\ \A t \in Tasks : ax[t] # "none" => ax[Main] # "none"
    /\ ch.ghost \in {"none", "never"} => (\A t \in Tasks : ax[t] = "none") /\ queue = <<>> /\ ~ch.expired
    /\ \A i \in DOMAIN queue : QueueOk(i)

ProtocolInv ==
    /\ ProtocolTypes /\ TaskInv /\ HandleInv /\ GhostLinks /\ Counted /\ Sources
    /\ Chains /\ Passed /\ OneOwner /\ Reality /\ Channel /\ ~refused

-----------------------------------------------------------------------------
(* Picking tasks and locals.                                               *)

(* A set of naturals that is not empty has a least element.                *)
LEMMA Least ==
    ASSUME NEW S \in SUBSET Nat, S # {}
    PROVE  \E n \in S : \A m \in S : ~(m < n)
<1> DEFINE R == OpToRel(<, Nat)
<1>1. IsWellFoundedOn(R, Nat)
  BY NatLessThanWellFounded
<1>2. PICK n \in S : \A m \in S : <<m, n>> \notin R
  <2> HIDE DEF R
  <2>1. QED
    BY <1>1, WFMin
<1>3. QED
  BY <1>2 DEF OpToRel

(* The next task is an unused one, and the next local one without a handle. *)
LEMMA NextTaskIs ==
    ASSUME ProtocolAssumption, SomeTask
    PROVE  /\ NextTask \in Tasks /\ tasks[NextTask].st = "unused"
           /\ \A d \in Tasks : d < NextTask => tasks[d].st # "unused"
<1> DEFINE S == {c \in Tasks : tasks[c].st = "unused"}
<1>1. S \in SUBSET Nat /\ S # {}
  BY DEF ProtocolAssumption, SomeTask
<1>2. PICK c \in S : \A d \in S : ~(d < c)
  <2> HIDE DEF S
  <2>1. QED
    BY <1>1, Least
<1>3. \E x \in Tasks : tasks[x].st = "unused" /\ \A d \in Tasks : d < x => tasks[d].st # "unused"
  BY <1>2
<1>4. QED
  BY <1>3 DEF NextTask

(* The local that a new handle takes is one without a handle.              *)
LEMMA NextNameIs ==
    ASSUME ProtocolAssumption, NEW t, SomeName(t)
    PROVE  NextName(t) \in LocalNames /\ hs[t][NextName(t)].st = "none"
<1> DEFINE S == {n \in LocalNames : hs[t][n].st = "none"}
<1>1. S \in SUBSET Nat /\ S # {}
  BY DEF ProtocolAssumption, SomeName
<1>2. PICK c \in S : \A d \in S : ~(d < c)
  <2> HIDE DEF S
  <2>1. QED
    BY <1>1, Least
<1>3. \E x \in LocalNames : hs[t][x].st = "none" /\ \A m \in LocalNames : m < x => hs[t][m].st # "none"
  BY <1>2
<1>4. QED
  BY <1>3 DEF NextName

(* Delegates are finitely many.                                            *)
LEMMA DelegatesFinite ==
    ASSUME ProtocolAssumption, NEW t, NEW n
    PROVE  IsFiniteSet(Delegates(t, n)) /\ Cardinality(Delegates(t, n)) \in Nat
  BY FS_Subset, FS_CardinalityType DEF ProtocolAssumption, Delegates

-----------------------------------------------------------------------------
(* What the invariant says of one state.                                   *)

(* Who owns a mutable world and does not wait is the only one to hold it.  *)
LEMMA SoleWriter ==
    ASSUME ProtocolAssumption, ProtocolInv, NEW t \in Tasks, NEW n \in LocalNames, ~Waits(t),
           Owns(t, n), hs[t][n].st = "mutable",
           NEW u \in Tasks, NEW m \in LocalNames, On(u, m, hs[t][n].w)
    PROVE  u = t /\ m = n
<1>1. hs[u][m].st = "mutable" /\ hs[u][m].w = hs[t][n].w /\ On(t, n, hs[u][m].w)
  BY DEF ProtocolInv, Reality, Owns, On
<1>2. ChainOk(t, n, u, m) /\ ChainOk(u, m, t, n)
  BY <1>1 DEF ProtocolInv, Chains
<1>3. ~(t < u)
  BY <1>2 DEF ChainOk, Above, CallOf, Runs, Waits
<1>4. ~(u < t)
  BY <1>2 DEF ChainOk, Owns
<1>5. u = t
  BY <1>3, <1>4 DEF ProtocolAssumption
<1>6. QED
  BY <1>2, <1>5 DEF ChainOk

(* No world links to one whose owner does not see a link to it.            *)
LEMMA UnlinkedIs ==
    ASSUME ProtocolInv, NEW t \in Tasks, NEW n \in LocalNames, Owns(t, n), ~Linked(t, n)
    PROVE  \A v \in WorldIds : hs[t][n].w \notin real[v].links
  BY DEF ProtocolInv, Reality, RealOk, Linked, Owns, On

(* What a world links to is frozen when it may be handed over.             *)
LEMMA QuietIs ==
    ASSUME ProtocolInv, WorldHoles = {}, NEW t \in Tasks, NEW n \in LocalNames, Usable(hs[t][n]),
           TargetsQuiet(t, n), NEW m \in LocalNames, m \in hs[t][n].links
    PROVE  hs[t][m].st = "frozen"
<1>1. LinkOk(t, n, m)
  BY DEF ProtocolInv, GhostLinks
<1>2. QED
  BY <1>1 DEF LinkOk, TargetsQuiet, Owns, Usable

(* Expired shares: no task has the channel any more.                       *)
LEMMA NoCarriers ==
    ASSUME ProtocolAssumption, ProtocolInv, Expires(Main), NEW u \in Tasks, Runs(u)
    PROVE  ~tasks[u].carrier
<1> DEFINE S == {c \in Tasks : Runs(c) /\ tasks[c].carrier}
<1> SUFFICES ASSUME S # {} PROVE FALSE
  OBVIOUS
<1>1. S \in SUBSET Nat
  BY DEF ProtocolAssumption
<1>2. PICK c \in S : \A d \in S : ~(d < c)
  <2> HIDE DEF S
  <2>1. QED
    BY <1>1, Least
<1>3. TaskOk(c) /\ tasks[c].by \in Tasks \cup {0}
  BY <1>2 DEF ProtocolInv, TaskInv, ProtocolTypes, Starts
<1>4. /\ tasks[c].by \in Tasks /\ tasks[c].by < c /\ Runs(tasks[c].by)
      /\ tasks[c].by = Main \/ tasks[tasks[c].by].carrier
      /\ tasks[c].handle # "joined"
  BY <1>2, <1>3 DEF TaskOk, Runs
<1>5. tasks[c].by # Main
  BY <1>2, <1>4 DEF Expires
<1>6. QED
  BY <1>2, <1>4, <1>5

(* Of those that borrow a frozen world from its owner, one is nearest.     *)
LEMMA Nearest ==
    ASSUME ProtocolAssumption, ProtocolInv, NEW t \in Tasks, NEW n \in LocalNames,
           Owns(t, n), hs[t][n].st = "frozen",
           NEW u \in Tasks, NEW m \in LocalNames, On(u, m, hs[t][n].w), ~(u = t /\ m = n)
    PROVE  \E c \in Tasks, k \in LocalNames :
              /\ Runs(c) /\ Borrowed(hs[c][k]) /\ On(c, k, hs[t][n].w)
              /\ \/ hs[c][k].from /\ SharedByChan(hs[t][n].w)
                 \/ k = 1 /\ CallOf(c, t)
                 \/ c \in Delegates(t, n)
                 \/ SharedForGood(hs[t][n].w)
<1> DEFINE w == hs[t][n].w
           S == {c \in Tasks : \E k \in LocalNames : On(c, k, w) /\ ~(c = t /\ k = n)}
<1>1. S \in SUBSET Nat /\ S # {}
  BY DEF ProtocolAssumption
<1>2. PICK c \in S : \A d \in S : ~(d < c)
  <2> HIDE DEF S
  <2>1. QED
    BY <1>1, Least
<1>3. PICK k \in LocalNames : On(c, k, w) /\ ~(c = t /\ k = n)
  BY <1>2
<1>4. hs[c][k].st = "frozen"
  BY <1>2, <1>3 DEF ProtocolInv, Reality, On, Owns
<1>5. Borrowed(hs[c][k])
  <2>1. ~Owns(c, k)
    BY <1>2, <1>3 DEF ProtocolInv, OneOwner, On
  <2>2. hs[c][k] \in Handles /\ HandleOk(c, k)
    BY <1>2 DEF ProtocolInv, ProtocolTypes, HandleInv
  <2>3. QED
    BY <1>3, <1>4, <2>1, <2>2 DEF Owns, On, Borrowed, Handles, Contracts, HandleOk
<1>6. SourceOk(c, k) /\ hs[c][k].w = w /\ TaskOk(c) /\ HandleOk(c, k) /\ tasks[c] \in Starts
  BY <1>2, <1>3, <1>5 DEF ProtocolInv, Sources, TaskInv, On, HandleInv, ProtocolTypes
<1>7. Runs(c)
  BY <1>3, <1>6 DEF HandleOk, On, Usable, NoHandle
<1>8. CASE hs[c][k].from
  BY <1>2, <1>3, <1>5, <1>6, <1>7, <1>8 DEF SourceOk
<1>9. CASE ~hs[c][k].from /\ tasks[c].how = "call"
  <2>1. PICK k2 \in LocalNames : On(tasks[c].by, k2, w)
    BY <1>6, <1>9 DEF SourceOk
  <2>2. tasks[c].by \in Tasks /\ tasks[c].by < c /\ k = 1
    BY <1>5, <1>6, <1>7, <1>9 DEF TaskOk, HandleOk
  <2>3. tasks[c].by = t
    BY <1>2, <2>1, <2>2
  <2>4. QED
    BY <1>2, <1>3, <1>5, <1>7, <1>9, <2>2, <2>3 DEF CallOf
<1>10. CASE ~hs[c][k].from /\ tasks[c].how = "go"
  <2>1. ~NoOwner(w)
    BY DEF NoOwner
  <2>2. tasks[c].world \in LocalNames /\ On(tasks[c].by, tasks[c].world, w)
    BY <1>6, <1>10, <2>1 DEF SourceOk
  <2>3. tasks[c].by \in Tasks /\ tasks[c].by < c
    BY <1>6, <1>10 DEF TaskOk
  <2>4. tasks[c].by = t /\ tasks[c].world = n
    BY <1>2, <2>2, <2>3
  <2>5. c \in Delegates(t, n)
    BY <1>2, <1>6, <1>7, <2>4 DEF Delegates, TaskOk, Runs
  <2>6. QED
    BY <1>2, <1>3, <1>5, <1>7, <2>5
<1>11. CASE ~hs[c][k].from /\ tasks[c].how = "bg"
  BY <1>2, <1>3, <1>5, <1>6, <1>7, <1>11 DEF SourceOk
<1>12. tasks[c].how # "none" \/ hs[c][k].from
  BY <1>5, <1>6, <1>7 DEF TaskOk, HandleOk
<1>13. QED
  BY <1>6, <1>8, <1>9, <1>10, <1>11, <1>12 DEF Starts

(* What an owner knows of its shares.                                      *)
LEMMA SharesAre ==
    ASSUME ProtocolAssumption, ProtocolInv, NEW t \in Tasks, NEW n \in LocalNames, Owns(t, n)
    PROVE  /\ Runs(t) /\ hs[t][n] \in Handles /\ hs[t][n].w \in WorldIds
           /\ hs[t][n].shared \in Nat /\ hs[t][n].chs \in Nat
           /\ Cardinality(Delegates(t, n)) \in Nat
           /\ hs[t][n].shared >= hs[t][n].chs + Cardinality(Delegates(t, n))
           /\ \A c \in Delegates(t, n) : hs[t][n].shared > hs[t][n].chs
           /\ SharedForGood(hs[t][n].w) => hs[t][n].shared > hs[t][n].chs
           /\ SharedByChan(hs[t][n].w) => hs[t][n].shared > 0
<1>1. Runs(t) /\ hs[t][n] \in Handles /\ hs[t][n].w \in WorldIds
  BY DEF ProtocolInv, ProtocolTypes, Owns, Usable, HandleInv, HandleOk, NoHandle
<1>2. /\ hs[t][n].shared \in Nat /\ hs[t][n].chs \in Nat
      /\ Cardinality(Delegates(t, n)) \in Nat
      /\ hs[t][n].shared >= hs[t][n].chs + Cardinality(Delegates(t, n))
  BY <1>1, DelegatesFinite DEF ProtocolInv, Counted, Handles
<1>3. \A c \in Delegates(t, n) : Cardinality(Delegates(t, n)) # 0
  BY DelegatesFinite, FS_EmptySet
<1>4. \A c \in Delegates(t, n) : hs[t][n].shared > hs[t][n].chs
  BY <1>2, <1>3
<1>5. SharedForGood(hs[t][n].w) => hs[t][n].shared > hs[t][n].chs
  BY <1>2 DEF SharedForGood
<1>6. SharedByChan(hs[t][n].w) => hs[t][n].shared > 0
  BY <1>2 DEF SharedByChan
<1>7. QED
  BY <1>1, <1>2, <1>4, <1>5, <1>6

(* A world that may be freed is held by its owner only.                    *)
LEMMA FreeSole ==
    ASSUME ProtocolAssumption, ProtocolInv, NEW t \in Tasks, NEW n \in LocalNames, ~Waits(t),
           FreeOk(t, n), NEW u \in Tasks, NEW m \in LocalNames, On(u, m, hs[t][n].w)
    PROVE  u = t /\ m = n
<1>1. Owns(t, n)
  BY DEF ProtocolInv, ProtocolTypes, FreeOk, Owns, Borrowed, Handles, Contracts
<1>2. CASE hs[t][n].st = "mutable"
  BY <1>1, <1>2, SoleWriter
<1>3. CASE hs[t][n].st # "mutable"
  <2> SUFFICES ASSUME ~(u = t /\ m = n) PROVE FALSE
    OBVIOUS
  <2>1. PICK c \in Tasks, k \in LocalNames :
              /\ Runs(c) /\ Borrowed(hs[c][k]) /\ On(c, k, hs[t][n].w)
              /\ \/ hs[c][k].from /\ SharedByChan(hs[t][n].w)
                 \/ k = 1 /\ CallOf(c, t)
                 \/ c \in Delegates(t, n)
                 \/ SharedForGood(hs[t][n].w)
    BY <1>1, <1>3, Nearest DEF Owns, Usable
  <2>2. /\ hs[t][n].shared \in Nat /\ hs[t][n].chs \in Nat
        /\ \A d \in Delegates(t, n) : hs[t][n].shared > hs[t][n].chs
        /\ SharedForGood(hs[t][n].w) => hs[t][n].shared > hs[t][n].chs
        /\ SharedByChan(hs[t][n].w) => hs[t][n].shared > 0
    BY <1>1, SharesAre
  <2>3. SharedAtFree(t, n) = 0
    BY DEF FreeOk
  <2>4. hs[t][n].shared - hs[t][n].chs <= 0 /\ (~Expires(t) => hs[t][n].shared = 0)
    BY <2>2, <2>3 DEF SharedAtFree
  <2>5. ~CallOf(c, t)
    BY DEF CallOf, Waits, Runs
  <2>6. hs[c][k].from /\ SharedByChan(hs[t][n].w)
    BY <2>1, <2>2, <2>4, <2>5
  <2>7. Expires(t) /\ t = Main
    BY <2>2, <2>4, <2>6 DEF Expires
  <2>8. c = Main \/ tasks[c].carrier
    BY <2>6 DEF ProtocolInv, HandleInv, HandleOk
  <2>9. c # Main
    BY <2>1, <2>6, <2>7 DEF Expires, On
  <2>10. QED
    BY <2>1, <2>7, <2>8, <2>9, NoCarriers
<1>4. QED
  BY <1>2, <1>3


(* The owner of a mutable world at the head of the chain of its holders.   *)
LEMMA HeadOwns ==
    ASSUME ProtocolAssumption, ProtocolInv, NEW v \in WorldIds,
           NEW t \in Tasks, NEW n \in LocalNames, hs[t][n].st = "mutable",
           hs[t][n].w \in real[v].links
    PROVE  \E r \in Tasks, j \in LocalNames :
              /\ Owns(r, j) /\ hs[r][j].w = hs[t][n].w /\ hs[r][j].st = "mutable"
              /\ r = t \/ (r < t /\ Above(r, t, hs[t][n].w))
              /\ \E i \in LocalNames : /\ j \in hs[r][i].links /\ hs[r][i].w = v
                                       /\ Owns(r, i) /\ hs[r][i].shared = 0
<1> DEFINE w == hs[t][n].w
           S == {c \in Tasks : \E k \in LocalNames : On(c, k, w)}
<1>1. S \in SUBSET Nat /\ t \in S
  BY DEF ProtocolAssumption, On, Usable
<1>2. PICK r \in S : \A d \in S : ~(d < r)
  <2> HIDE DEF S
  <2>1. QED
    BY <1>1, Least
<1>3. PICK j \in LocalNames : On(r, j, w)
  BY <1>2
<1>4. hs[r][j].st = "mutable" /\ hs[r][j].w = w
  BY <1>2, <1>3 DEF ProtocolInv, Reality, On, Usable
<1>5. HandleOk(r, j) /\ TaskOk(r) /\ RealOk(v) /\ hs[r][j] \in Handles /\ tasks[r] \in Starts
  BY <1>2 DEF ProtocolInv, HandleInv, TaskInv, Reality, ProtocolTypes
<1>6. hs[r][j].con # "mutable"
  <2> SUFFICES ASSUME hs[r][j].con = "mutable" PROVE FALSE
    OBVIOUS
  <2>1. tasks[r].how = "call"
    BY <1>2, <1>3, <1>5 DEF RealOk
  <2>2. PICK k \in LocalNames : On(tasks[r].by, k, w)
    BY <1>2, <1>4, <2>1 DEF ProtocolInv, Passed
  <2>3. tasks[r].by \in Tasks /\ tasks[r].by < r
    BY <1>5, <2>1 DEF TaskOk
  <2>4. QED
    BY <1>2, <2>2, <2>3
<1>7. Owns(r, j)
  BY <1>4, <1>5, <1>6 DEF Owns, Usable, HandleOk, Handles, Contracts
<1>8. PICK i \in LocalNames : j \in hs[r][i].links /\ hs[r][i].w = v
  BY <1>2, <1>3, <1>5, <1>7 DEF RealOk
<1>9. LinkOk(r, i, j) /\ hs[r][i] \in Handles
  BY <1>2, <1>8 DEF ProtocolInv, GhostLinks, ProtocolTypes
<1>10. Owns(r, i) /\ hs[r][i].shared = 0
  BY <1>4, <1>9 DEF LinkOk, Owns, Usable, Handles
<1>11. r = t \/ (r < t /\ Above(r, t, w))
  <2>1. ~(t < r)
    BY <1>1, <1>2
  <2>2. ChainOk(r, j, t, n)
    BY <1>2, <1>4 DEF ProtocolInv, Chains, On, Usable
  <2>3. QED
    BY <1>1, <1>2, <1>4, <2>1, <2>2 DEF ChainOk
<1>12. QED
  BY <1>2, <1>4, <1>7, <1>8, <1>10, <1>11

(* Who may write a world is alone with it.                                 *)
LEMMA WritersAreAlone ==
    ASSUME ProtocolAssumption, ProtocolInv,
           NEW t \in Tasks, NEW n \in LocalNames, NEW u \in Tasks, NEW m \in LocalNames,
           ~Waits(t), ~Waits(u), hs[t][n].st = "mutable", Usable(hs[u][m]), ~(t = u /\ n = m)
    PROVE  /\ hs[u][m].w # hs[t][n].w
           /\ t # u => hs[t][n].w \notin real[hs[u][m].w].links
<1> DEFINE w == hs[t][n].w
           v == hs[u][m].w
<1>1. v \in WorldIds /\ w \in WorldIds /\ hs[u][m] \in Handles
  BY DEF ProtocolInv, HandleInv, HandleOk, ProtocolTypes, Usable
<1>2. v # w
  <2> SUFFICES ASSUME v = w PROVE FALSE
    OBVIOUS
  <2>1. hs[u][m].st = "mutable" /\ On(u, m, w) /\ On(t, n, v)
    BY DEF ProtocolInv, Reality, On, Usable
  <2>2. ChainOk(t, n, u, m) /\ ChainOk(u, m, t, n)
    BY <2>1 DEF ProtocolInv, Chains
  <2>3. ~(t < u) /\ ~(u < t)
    BY <2>2 DEF ChainOk, Above, CallOf, Runs, Waits
  <2>4. t = u
    BY <2>3 DEF ProtocolAssumption
  <2>5. QED
    BY <2>2, <2>4 DEF ChainOk
<1>3. ASSUME t # u, w \in real[v].links PROVE FALSE
  <2>1. PICK r \in Tasks, j \in LocalNames, i \in LocalNames :
              /\ Owns(r, j) /\ hs[r][j].w = w /\ hs[r][j].st = "mutable"
              /\ r = t \/ (r < t /\ Above(r, t, w))
              /\ j \in hs[r][i].links /\ hs[r][i].w = v
              /\ Owns(r, i) /\ hs[r][i].shared = 0
    BY <1>1, <1>3, HeadOwns
  <2>2. r # u
    BY <1>3, <2>1 DEF Above, CallOf, Runs, Waits
  <2>3. \A c \in Tasks : CallOf(c, r) => ~On(c, 1, v)
    <3> SUFFICES ASSUME NEW c \in Tasks, CallOf(c, r), On(c, 1, v) PROVE FALSE
      OBVIOUS
    <3>1. r # t
      BY DEF CallOf, Waits, Runs
    <3>2. PICK d \in Tasks : CallOf(d, r) /\ On(d, 1, w)
      BY <2>1, <3>1 DEF Above
    <3>3. c = d
      BY <3>2 DEF ProtocolInv, TaskInv
    <3>4. QED
      BY <1>2, <3>2, <3>3 DEF On
  <2>4. CASE hs[u][m].st = "mutable"
    <3>1. hs[r][i].st = "mutable" /\ On(r, i, v) /\ On(u, m, hs[r][i].w)
      BY <2>1, <2>4 DEF ProtocolInv, Reality, Owns, On
    <3>2. ChainOk(r, i, u, m) /\ ChainOk(u, m, r, i)
      BY <2>4, <3>1 DEF ProtocolInv, Chains
    <3>3. ~(u < r)
      BY <2>1, <3>2 DEF ChainOk, Owns
    <3>4. ~(r < u)
      BY <2>1, <2>3, <3>2 DEF ChainOk, Above
    <3>5. QED
      BY <2>2, <3>3, <3>4 DEF ProtocolAssumption
  <2>5. CASE hs[u][m].st # "mutable"
    <3>1. hs[r][i].st = "frozen" /\ On(u, m, hs[r][i].w)
      BY <2>1, <2>5 DEF ProtocolInv, Reality, Owns, On, Usable
    <3>2. PICK c \in Tasks, k \in LocalNames :
                /\ Runs(c) /\ Borrowed(hs[c][k]) /\ On(c, k, v)
                /\ \/ hs[c][k].from /\ SharedByChan(v)
                   \/ k = 1 /\ CallOf(c, r)
                   \/ c \in Delegates(r, i)
                   \/ SharedForGood(v)
      BY <2>1, <2>2, <3>1, Nearest
    <3>3. /\ hs[r][i].shared \in Nat /\ hs[r][i].chs \in Nat
          /\ \A d \in Delegates(r, i) : hs[r][i].shared > hs[r][i].chs
          /\ SharedForGood(v) => hs[r][i].shared > hs[r][i].chs
          /\ SharedByChan(v) => hs[r][i].shared > 0
      BY <2>1, SharesAre
    <3>4. k = 1 /\ CallOf(c, r)
      BY <2>1, <3>2, <3>3
    <3>5. QED
      BY <2>3, <3>2, <3>4
  <2>6. QED
    BY <2>4, <2>5
<1>4. QED
  BY <1>2, <1>3

(* A state of the invariant is safe.                                       *)
LEMMA InvIsSafe ==
    ASSUME ProtocolAssumption, ProtocolInv
    PROVE  WorldsSafe
<1>1. \A h \in Held : h[1] \in Tasks /\ h[2] \in LocalNames /\ h = <<h[1], h[2]>>
                      /\ Usable(hs[h[1]][h[2]])
  BY DEF Held
<1>2. GhostsTrue
  <2> SUFFICES ASSUME NEW h \in Held
               PROVE  /\ real[HandleOf(h).w].st = HandleOf(h).st
                      /\ \A x \in real[HandleOf(h).w].links : real[x].st \in {"mutable", "frozen"}
    BY DEF GhostsTrue
  <2>1. HandleOf(h).w \in WorldIds
    BY <1>1 DEF ProtocolInv, HandleInv, HandleOk, Usable, HandleOf
  <2>2. QED
    BY <1>1, <2>1 DEF ProtocolInv, Reality, RealOk, HandleOf
<1>3. WriterAlone
  <2> SUFFICES ASSUME NEW h \in Acting, NEW k \in Acting, h # k, HandleOf(h).st = "mutable"
               PROVE  /\ HandleOf(k).w # HandleOf(h).w
                      /\ h[1] # k[1] => HandleOf(h).w \notin Sees(k)
    BY DEF WriterAlone
  <2>1. h \in Held /\ k \in Held /\ ~Waits(h[1]) /\ ~Waits(k[1])
    BY DEF Acting
  <2>2. ~(h[1] = k[1] /\ h[2] = k[2])
    BY <1>1, <2>1
  <2>3. /\ HandleOf(k).w # HandleOf(h).w
        /\ h[1] # k[1] => HandleOf(h).w \notin real[HandleOf(k).w].links
    BY <1>1, <2>1, <2>2, WritersAreAlone DEF HandleOf
  <2>4. QED
    BY <2>3 DEF Sees
<1>4. QED
  BY <1>2, <1>3 DEF WorldsSafe, ProtocolInv

(* The invariant holds when the program starts: only the main body runs,   *)
(* and no body has a handle.                                               *)
LEMMA InitInv ==
    ASSUME ProtocolAssumption, ProtocolInit
    PROVE  ProtocolInv
<1>1. PICK s \in Setups :
         /\ tasks = [t \in Tasks |-> [NoTask EXCEPT !.st = IF t = Main THEN "run"
                                                     ELSE IF t \in s.tasks THEN "unused" ELSE "done"]]
         /\ ch = [ghost |-> IF s.chan THEN "none" ELSE "never", leak |-> FALSE, expired |-> FALSE, closed |-> FALSE]
         /\ real = [w \in WorldIds |-> [st |-> IF w \in s.worlds THEN "unused" ELSE "freed", links |-> {}]]
  BY DEF ProtocolInit
<1>2. /\ \A t \in Tasks, n \in LocalNames : hs[t][n] = NoHandle
      /\ \A t \in Tasks : ax[t] = "none"
      /\ queue = <<>> /\ ~refused
      /\ hs = [t \in Tasks |-> [n \in LocalNames |-> NoHandle]]
      /\ ax = [t \in Tasks |-> "none"]
  BY DEF ProtocolInit
<1>3. \A t \in Tasks : /\ tasks[t] \in Starts /\ tasks[t].by = 0 /\ tasks[t].how = "none"
                       /\ ~tasks[t].carrier /\ tasks[t].handle = "open" /\ tasks[t].world = 0
                       /\ tasks[t].out = "none"
                       /\ tasks[t].st = "run" <=> t = Main
  BY <1>1 DEF NoTask, Starts
<1>4. NoHandle \in Handles
  BY DEF NoHandle, Handles, Contracts
<1>5. ProtocolTypes
  <2>1. tasks \in [Tasks -> Starts]
    BY <1>1, <1>3
  <2>2. ax \in [Tasks -> {"none", "frozen", "owned"}] /\ queue \in Seq(WorldIds)
    BY <1>2
  <2>3. ch \in [ghost : {"none", "never", "open", "closed"}, leak : BOOLEAN, expired : BOOLEAN,
               closed : BOOLEAN]
    BY <1>1
  <2>4. real \in [WorldIds -> [st : {"unused", "mutable", "frozen", "freed"},
                              links : SUBSET WorldIds]]
    BY <1>1
  <2>5. hs \in [Tasks -> [LocalNames -> Handles]]
    BY <1>2, <1>4
  <2>6. QED
    BY <2>1, <2>2, <2>3, <2>4, <2>5 DEF ProtocolTypes
<1>6. \A t, c \in Tasks : ~CallOf(c, t)
  BY <1>3 DEF CallOf
<1>7. TaskInv
  <2>1. Main \in Tasks /\ \A t \in Tasks : t # 0 /\ ~(t < Main) /\ (t # Main => Main < t)
    BY DEF ProtocolAssumption, Main
  <2>2. \A t, c \in Tasks : Runs(t) /\ tasks[c].st = "unused" => t < c
    BY <1>3, <2>1 DEF Runs
  <2>3. \A c \in Tasks : TaskOk(c)
    BY <1>3, <2>1 DEF TaskOk, Runs
  <2>4. QED
    BY <1>3, <1>6, <2>1, <2>2, <2>3 DEF TaskInv, Runs
<1>8. \A t \in Tasks, n \in LocalNames :
         /\ hs[t][n].st = "none" /\ hs[t][n].links = {} /\ ~Usable(hs[t][n]) /\ hs[t][n].con = "none"
         /\ hs[t][n].shared = 0 /\ hs[t][n].chs = 0 /\ ~hs[t][n].from
         /\ Delegates(t, n) = {}
  <2> SUFFICES ASSUME NEW t \in Tasks, NEW n \in LocalNames
               PROVE  /\ hs[t][n] = NoHandle /\ Delegates(t, n) = {}
    BY DEF NoHandle, Usable
  <2>1. t # 0
    BY DEF ProtocolAssumption
  <2>2. QED
    BY <1>2, <1>3, <2>1 DEF Delegates
<1>9. HandleInv /\ GhostLinks
  BY <1>2, <1>8 DEF HandleInv, HandleOk, GhostLinks, Borrowed
<1>10. Counted
  <2>1. Cardinality({}) = 0
    BY FS_EmptySet
  <2> SUFFICES ASSUME NEW t \in Tasks, NEW n \in LocalNames
               PROVE  hs[t][n].shared >= hs[t][n].chs + Cardinality(Delegates(t, n))
    BY DEF Counted
  <2>2. hs[t][n].shared = 0 /\ hs[t][n].chs = 0 /\ Cardinality(Delegates(t, n)) = 0
    BY <1>8, <2>1
  <2>3. QED
    BY <2>2
<1>11. Sources /\ Chains /\ Passed /\ OneOwner
  BY <1>8 DEF Sources, Chains, Passed, OneOwner, Owns, Borrowed
<1>12. Reality
  BY <1>1, <1>8 DEF Reality, RealOk
<1>13. Channel
  BY <1>1, <1>2 DEF Channel
<1>14. QED
  BY <1>2, <1>5, <1>7, <1>9, <1>10, <1>11, <1>12, <1>13 DEF ProtocolInv


-----------------------------------------------------------------------------
(* Steps that leave the handles and the worlds alone.                      *)

\* Running tasks go on, and handles have the same delegates.
Calm ==
    /\ hs' = hs /\ real' = real
    /\ \A u \in Tasks : Runs(u) => /\ Runs(u)' /\ tasks'[u].by = tasks[u].by
                                   /\ tasks'[u].how = tasks[u].how
                                   /\ tasks'[u].world = tasks[u].world
                                   /\ tasks'[u].carrier = tasks[u].carrier
    /\ \A t \in Tasks, n \in LocalNames : Delegates(t, n)' = Delegates(t, n)
    /\ \A t \in Tasks, n \in LocalNames : Runs(t)' /\ ~Runs(t) => Delegates(t, n) = {}

(* A step that leaves handles, worlds and delegations alone keeps what     *)
(* the invariant says of handles.                                          *)
LEMMA CalmKeeps ==
    ASSUME ProtocolAssumption, ProtocolInv, Calm
    PROVE  /\ HandleInv' /\ GhostLinks' /\ Counted' /\ Sources' /\ Chains' /\ Passed'
           /\ OneOwner' /\ Reality'
           /\ \A w : SharedByChan(w) => SharedByChan(w)'
           /\ \A w : Nobody(w) => Nobody(w)'
<1>1. hs' = hs /\ real' = real
  BY DEF Calm
<1>2. \A u \in Tasks, n \in LocalNames : Usable(hs[u][n]) => Runs(u)
  BY DEF ProtocolInv, HandleInv, HandleOk, Usable, NoHandle
<1>3. HandleInv'
  <2> SUFFICES ASSUME NEW t \in Tasks, NEW n \in LocalNames PROVE HandleOk(t, n)'
    BY DEF HandleInv
  <2>1. HandleOk(t, n)
    BY DEF ProtocolInv, HandleInv
  <2>2. CASE Runs(t)
    BY <1>1, <2>1, <2>2 DEF HandleOk, Calm, Borrowed
  <2>3. CASE ~Runs(t)
    BY <1>1, <2>1, <2>3 DEF HandleOk, NoHandle, Borrowed
  <2>4. QED
    BY <2>2, <2>3
<1>4. GhostLinks'
  BY <1>1 DEF ProtocolInv, GhostLinks, LinkOk, Owns
<1>5. Counted'
  <2> SUFFICES ASSUME NEW t \in Tasks, NEW n \in LocalNames, Runs(t)'
               PROVE  hs[t][n].shared >= hs[t][n].chs + Cardinality(Delegates(t, n))
    BY <1>1 DEF Counted, Calm
  <2>1. CASE Runs(t)
    BY <2>1 DEF ProtocolInv, Counted
  <2>2. CASE ~Runs(t)
    <3>1. hs[t][n] = NoHandle /\ Delegates(t, n) = {}
      BY <2>2 DEF ProtocolInv, HandleInv, HandleOk, Calm
    <3>2. Cardinality({}) = 0
      BY FS_EmptySet
    <3>3. hs[t][n].shared = 0 /\ hs[t][n].chs = 0 /\ Cardinality(Delegates(t, n)) = 0
      BY <3>1, <3>2 DEF NoHandle
    <3>4. QED
      BY <3>3
  <2>3. QED
    BY <2>1, <2>2
<1>6. \A w : /\ SharedForGood(w) => SharedForGood(w)'
             /\ SharedByChan(w) => SharedByChan(w)'
             /\ NoOwner(w) => NoOwner(w)'
             /\ Nobody(w) => Nobody(w)'
  BY <1>1 DEF SharedForGood, SharedByChan, NoOwner, Nobody, Owns, On, Calm
<1>7. \A u \in Tasks, k \in LocalNames :
         Borrowed(hs[u][k]) \/ hs[u][k].con = "mutable" => Runs(u)
  BY <1>2 DEF ProtocolInv, HandleInv, HandleOk, Borrowed, Usable
<1>8. Sources'
  <2> SUFFICES ASSUME NEW u \in Tasks, NEW k \in LocalNames, Borrowed(hs[u][k])
               PROVE  SourceOk(u, k)'
    BY <1>1 DEF Sources
  <2>1. SourceOk(u, k) /\ Runs(u)
    BY <1>7 DEF ProtocolInv, Sources
  <2>2. QED
    BY <1>1, <1>6, <2>1 DEF SourceOk, Calm, On
<1>9. Chains'
  <2> SUFFICES ASSUME NEW t \in Tasks, NEW u \in Tasks, NEW n \in LocalNames, NEW m \in LocalNames,
                      hs[t][n].st = "mutable", On(u, m, hs[t][n].w)
               PROVE  ChainOk(t, n, u, m)'
    BY <1>1 DEF Chains, On
  <2>1. ChainOk(t, n, u, m) /\ Runs(u)
    BY <1>2 DEF ProtocolInv, Chains, On
  <2>2. \A c \in Tasks : CallOf(c, t) => CallOf(c, t)'
    BY DEF CallOf, Calm
  <2>3. Above(t, u, hs[t][n].w) => Above(t, u, hs[t][n].w)'
    BY <1>1, <2>2 DEF Above, On
  <2>4. QED
    BY <1>1, <2>1, <2>3 DEF ChainOk, Calm
<1>10. Passed'
  BY <1>1, <1>7 DEF ProtocolInv, Passed, Calm, On
<1>11. OneOwner'
  BY <1>1 DEF ProtocolInv, OneOwner, Owns
<1>12. Reality'
  <2>1. \A w \in WorldIds : RealOk(w)'
    <3> SUFFICES ASSUME NEW w \in WorldIds PROVE RealOk(w)'
      OBVIOUS
    <3>1. RealOk(w)
      BY DEF ProtocolInv, Reality
    <3>2. QED
      BY <1>1, <1>2, <3>1 DEF RealOk, On, Owns, Calm
  <2>2. QED
    BY <1>1, <2>1 DEF ProtocolInv, Reality
<1>13. QED
  BY <1>3, <1>4, <1>5, <1>6, <1>8, <1>9, <1>10, <1>11, <1>12

-----------------------------------------------------------------------------
(* Starting a task.                                                        *)

\* The parent is t and the new task c starts as r says.
Started(t, c, r) ==
    /\ tasks' = [tasks EXCEPT ![c] = r]
    /\ r \in Starts /\ r.st = "run" /\ r.by = t /\ r.how # "none" /\ r.handle = "open"
    /\ r.world # 0 => r.how = "go"
    /\ r.out # "none" => r.how = "call"
    /\ r.carrier => t = Main \/ tasks[t].carrier

(* Starting a task keeps the tree of tasks; only the handle that is        *)
(* delegated to the task gets a delegate.                                  *)
LEMMA StartKeeps ==
    ASSUME ProtocolAssumption, ProtocolInv, NEW t \in Tasks, CanStep(t), SomeTask,
           NEW r, NEW c, c = NextTask, Started(t, c, r)
    PROVE  /\ TaskInv' /\ tasks' \in [Tasks -> Starts]
           /\ c \in Tasks /\ ~Runs(c) /\ Runs(t) /\ t < c
           /\ tasks'[c] = r
           /\ \A u \in Tasks : u # c => tasks'[u] = tasks[u]
           /\ \A n \in LocalNames : Delegates(c, n) = {} /\ Delegates(c, n)' = {}
           /\ \A u \in Tasks, n \in LocalNames : ~(u = t /\ n = r.world) =>
                 Delegates(u, n)' = Delegates(u, n)
           /\ \A n \in LocalNames : n = r.world =>
                 Delegates(t, n)' = Delegates(t, n) \cup {c} /\ c \notin Delegates(t, n)
<1>1. /\ c \in Tasks /\ tasks[c].st = "unused"
      /\ \A d \in Tasks : d < c => tasks[d].st # "unused"
  BY NextTaskIs
<1>2. Started(t, c, r)
  OBVIOUS
<1>3. tasks \in [Tasks -> Starts] /\ \A d \in Tasks : TaskOk(d)
  BY DEF ProtocolInv, ProtocolTypes, TaskInv
<1>4. /\ tasks' \in [Tasks -> Starts] /\ tasks'[c] = r
      /\ \A u \in Tasks : u # c => tasks'[u] = tasks[u]
  BY <1>1, <1>2, <1>3 DEF Started
<1>5. Runs(t) /\ t # c /\ t < c /\ ~Runs(c)
  BY <1>1 DEF CanStep, Runs, ProtocolInv, TaskInv
<1>6. \A d \in Tasks : tasks[d].by # c
  BY <1>1, <1>3 DEF TaskOk
<1>7. tasks[c].by = 0
  BY <1>1, <1>3 DEF TaskOk
<1>8. \A u \in Tasks : u # 0 /\ u \in Nat
  BY DEF ProtocolAssumption
<1>9. \A d \in Tasks : TaskOk(d)'
  <2> SUFFICES ASSUME NEW d \in Tasks PROVE TaskOk(d)'
    OBVIOUS
  <2>1. CASE d = c
    BY <1>2, <1>4, <1>5, <2>1 DEF TaskOk, Started, Runs
  <2>2. CASE d # c
    <3>1. TaskOk(d) /\ tasks'[d] = tasks[d]
      BY <1>3, <1>4, <2>2
    <3>2. tasks[d].by \in Tasks => tasks'[tasks[d].by] = tasks[tasks[d].by]
      BY <1>4, <1>6
    <3>3. d # Main /\ Runs(d) => tasks[d].by \in Tasks
      BY <3>1 DEF TaskOk
    <3>4. CASE tasks[d].by \in Tasks
      BY <3>1, <3>2, <3>4 DEF TaskOk, Runs
    <3>5. CASE tasks[d].by \notin Tasks
      BY <3>1, <3>5 DEF TaskOk, Runs
    <3>6. QED
      BY <3>4, <3>5
  <2>3. QED
    BY <2>1, <2>2
<1>10. \A u, d \in Tasks : Runs(u)' /\ tasks'[d].st = "unused" => u < d
  <2> SUFFICES ASSUME NEW u \in Tasks, NEW d \in Tasks, Runs(u)', tasks'[d].st = "unused"
               PROVE  u < d
    OBVIOUS
  <2>1. d # c /\ tasks[d].st = "unused"
    BY <1>2, <1>4 DEF Started
  <2>2. CASE u = c
    BY <1>1, <1>8, <2>1, <2>2
  <2>3. CASE u # c
    BY <1>4, <2>1, <2>3 DEF ProtocolInv, TaskInv, Runs
  <2>4. QED
    BY <2>2, <2>3
<1>11. \A u, d, e \in Tasks : CallOf(d, u)' /\ CallOf(e, u)' => d = e
  <2> SUFFICES ASSUME NEW u \in Tasks, NEW d \in Tasks, NEW e \in Tasks,
                      CallOf(d, u)', CallOf(e, u)'
               PROVE  d = e
    OBVIOUS
  <2>1. \A x \in Tasks : x # c /\ CallOf(x, u)' => CallOf(x, u)
    BY <1>4 DEF CallOf, Runs
  <2>2. \A x \in Tasks : ~CallOf(x, t)
    BY DEF CanStep, Waits, CallOf, Runs
  <2>3. tasks'[c].by = t
    BY <1>2, <1>4 DEF Started
  <2>4. CallOf(c, u)' => u = t
    BY <2>3 DEF CallOf
  <2>5. CASE u = t
    BY <2>1, <2>2, <2>5
  <2>6. CASE u # t
    <3>1. CallOf(d, u) /\ CallOf(e, u)
      BY <2>1, <2>4, <2>6
    <3>2. QED
      BY <3>1 DEF ProtocolInv, TaskInv
  <2>7. QED
    BY <2>5, <2>6
<1>12. TaskInv'
  <2>1. Runs(Main)' /\ tasks'[Main].by = 0
    BY <1>1, <1>4 DEF ProtocolInv, TaskInv, Runs, ProtocolAssumption
  <2>2. QED
    BY <1>9, <1>10, <1>11, <2>1 DEF TaskInv
<1>13. \A n \in LocalNames : Delegates(c, n) = {} /\ Delegates(c, n)' = {}
  BY <1>1, <1>2, <1>4, <1>5, <1>6 DEF Delegates, Started
<1>14. \A u \in Tasks, n \in LocalNames : ~(u = t /\ n = r.world) =>
          Delegates(u, n)' = Delegates(u, n)
  BY <1>1, <1>2, <1>4, <1>7, <1>8 DEF Delegates, Started
<1>15. \A n \in LocalNames : n = r.world =>
          Delegates(t, n)' = Delegates(t, n) \cup {c} /\ c \notin Delegates(t, n)
  BY <1>1, <1>2, <1>4, <1>7, <1>8 DEF Delegates, Started
<1>16. QED
  BY <1>1, <1>4, <1>5, <1>12, <1>13, <1>14, <1>15


\* A task that starts without a world.
LEMMA StartIsCalm ==
    ASSUME ProtocolAssumption, ProtocolInv, NEW t \in Tasks, CanStep(t), SomeTask,
           NEW r, NEW c, c = NextTask, Started(t, c, r), r.world = 0, hs' = hs, real' = real
    PROVE  Calm
<1>1. /\ c \in Tasks /\ ~Runs(c)
      /\ \A u \in Tasks : u # c => tasks'[u] = tasks[u]
      /\ \A n \in LocalNames : Delegates(c, n) = {}
      /\ \A u \in Tasks, n \in LocalNames : ~(u = t /\ n = r.world) =>
                 Delegates(u, n)' = Delegates(u, n)
  BY StartKeeps
<1>2. \A n \in LocalNames : n # 0
  BY DEF ProtocolAssumption
<1>3. \A u \in Tasks : Runs(u) => u # c /\ tasks'[u] = tasks[u]
  BY <1>1
<1>4. \A u \in Tasks, n \in LocalNames : Runs(u)' /\ ~Runs(u) => Delegates(u, n) = {}
  BY <1>1 DEF Runs
<1>5. QED
  BY <1>1, <1>2, <1>3, <1>4 DEF Calm, Runs

(* Calling a function that makes a world keeps the invariant.              *)
LEMMA CallMakerStep ==
    ASSUME ProtocolAssumption, ProtocolInv, NEW t \in Tasks, CanStep(t),
           NEW out \in {"frozen", "owned"}, CallMaker(t, out)
    PROVE  ProtocolInv'
<1>1. PICK c : c = NextTask
  OBVIOUS
<1>2. PICK r : r = [NoTask EXCEPT !.st = "run", !.by = t, !.how = "call", !.out = out]
  OBVIOUS
<1>3. SomeTask /\ tasks' = [tasks EXCEPT ![c] = r] /\ UNCHANGED <<hs, ax, ch, queue, real, refused>>
  BY <1>1, <1>2 DEF CallMaker
<1>4. /\ r.st = "run" /\ r.by = t /\ r.how = "call" /\ r.out = out /\ r.handle = "open"
      /\ r.world = 0 /\ ~r.carrier /\ r \in Starts
  BY <1>2 DEF NoTask, Starts
<1>5. Started(t, c, r)
  BY <1>3, <1>4 DEF Started
<1>6. TaskInv' /\ tasks' \in [Tasks -> Starts] /\ c \in Tasks /\ tasks'[c] = r
      /\ ~Runs(c) /\ \A u \in Tasks : u # c => tasks'[u] = tasks[u]
  BY <1>1, <1>3, <1>5, StartKeeps
<1>7. Calm
  BY <1>1, <1>3, <1>4, <1>5, StartIsCalm
<1>8. /\ HandleInv' /\ GhostLinks' /\ Counted' /\ Sources' /\ Chains' /\ Passed'
      /\ OneOwner' /\ Reality'
      /\ \A w : SharedByChan(w) => SharedByChan(w)'
      /\ \A w : Nobody(w) => Nobody(w)'
  BY <1>7, CalmKeeps
<1>9. ProtocolTypes'
  BY <1>3, <1>6 DEF ProtocolInv, ProtocolTypes
<1>10. Channel'
  <2>1. \A i \in DOMAIN queue : QueueOk(i)'
    BY <1>3, <1>8 DEF ProtocolInv, Channel, QueueOk
  <2>2. \A u \in Tasks : ax[u] # "none" => Runs(u)' /\ (u = Main \/ tasks'[u].carrier)
    BY <1>6 DEF ProtocolInv, Channel, Runs
  <2>3. QED
    BY <1>3, <2>1, <2>2 DEF ProtocolInv, Channel
<1>11. QED
  BY <1>3, <1>6, <1>8, <1>9, <1>10 DEF ProtocolInv

(* Handing the channel to a new body keeps the invariant: it gets the      *)
(* axiom of the body that hands it over.                                   *)
LEMMA PassChanStep ==
    ASSUME ProtocolAssumption, ProtocolInv, NEW t \in Tasks, CanStep(t),
           NEW how \in {"go", "bg", "call"}, PassChan(t, how)
    PROVE  ProtocolInv'
<1>1. PICK c : c = NextTask
  OBVIOUS
<1>2. PICK r : r = [NoTask EXCEPT !.st = "run", !.by = t, !.how = how, !.carrier = TRUE]
  OBVIOUS
<1>3. /\ SomeTask /\ tasks' = [tasks EXCEPT ![c] = r] /\ UNCHANGED <<hs, queue, real, refused>>
      /\ ax' = [ax EXCEPT ![c] = ax[t]] /\ ax[t] # "none"
      /\ ch' = [ch EXCEPT !.leak = @ \/ (t = Main /\ how # "go")]
  BY <1>1, <1>2 DEF PassChan
<1>4. /\ r.st = "run" /\ r.by = t /\ r.how = how /\ r.out = "none" /\ r.handle = "open"
      /\ r.world = 0 /\ r.carrier /\ r \in Starts
  BY <1>2 DEF NoTask, Starts
<1>5. Started(t, c, r)
  BY <1>3, <1>4 DEF Started, ProtocolInv, Channel
<1>6. TaskInv' /\ tasks' \in [Tasks -> Starts] /\ c \in Tasks /\ tasks'[c] = r
      /\ ~Runs(c) /\ \A u \in Tasks : u # c => tasks'[u] = tasks[u]
  BY <1>1, <1>3, <1>5, StartKeeps
<1>7. Calm
  BY <1>1, <1>3, <1>4, <1>5, StartIsCalm
<1>8. /\ HandleInv' /\ GhostLinks' /\ Counted' /\ Sources' /\ Chains' /\ Passed'
      /\ OneOwner' /\ Reality'
      /\ \A w : SharedByChan(w) => SharedByChan(w)'
      /\ \A w : Nobody(w) => Nobody(w)'
  BY <1>7, CalmKeeps
<1>9. /\ ch' \in [ghost : {"none", "never", "open", "closed"}, leak : BOOLEAN, expired : BOOLEAN,
                  closed : BOOLEAN]
      /\ ch'.ghost = ch.ghost /\ ch'.expired = ch.expired
      /\ ax' \in [Tasks -> {"none", "frozen", "owned"}]
      /\ ax'[c] = ax[t] /\ \A u \in Tasks : u # c => ax'[u] = ax[u]
  BY <1>3, <1>6 DEF ProtocolInv, ProtocolTypes
<1>10. ProtocolTypes'
  BY <1>3, <1>6, <1>9 DEF ProtocolInv, ProtocolTypes
<1>11. Channel'
  <2>1. ASSUME NEW i \in DOMAIN queue PROVE QueueOk(i)'
    <3>1. QueueOk(i)
      BY DEF ProtocolInv, Channel
    <3>2. QED
      BY <1>3, <1>8, <1>9, <3>1 DEF QueueOk
  <2>2. \A u \in Tasks : ax'[u] # "none" => Runs(u)' /\ (u = Main \/ tasks'[u].carrier)
    BY <1>4, <1>6, <1>9 DEF ProtocolInv, Channel, Runs
  <2>3. \A u, v \in Tasks : ax'[u] # "none" /\ ax'[v] # "none" => ax'[u] = ax'[v]
    BY <1>3, <1>9 DEF ProtocolInv, Channel
  <2>4. ch.ghost \notin {"none", "never"}
    BY <1>3 DEF ProtocolInv, Channel
  <2>5. ax'[Main] # "none"
    BY <1>3, <1>6, <1>9 DEF ProtocolInv, Channel, TaskInv, ProtocolAssumption
  <2>6. QED
    BY <1>3, <1>9, <2>1, <2>2, <2>3, <2>4, <2>5 DEF Channel
<1>12. QED
  BY <1>3, <1>6, <1>8, <1>10, <1>11 DEF ProtocolInv

\* A step on the channel or on an open task handle.
LEMMA IdleIsCalm ==
    ASSUME hs' = hs, real' = real, tasks' = tasks
    PROVE  Calm
  BY DEF Calm, Runs, Delegates

(* Making the channel keeps the invariant: it is empty, so its axiom       *)
(* holds.                                                                  *)
LEMMA NewChanStep ==
    ASSUME ProtocolAssumption, ProtocolInv, NEW kind \in {"frozen", "owned"}, NewChan(kind)
    PROVE  ProtocolInv'
<1>1. /\ UNCHANGED <<hs, tasks, queue, real, refused>> /\ ch.ghost = "none"
      /\ ch' = [ch EXCEPT !.ghost = "open"] /\ ax' = [ax EXCEPT ![Main] = kind]
      /\ Main \in Tasks
  BY DEF NewChan, ProtocolAssumption
<1>2. Calm
  BY <1>1, IdleIsCalm
<1>3. /\ HandleInv' /\ GhostLinks' /\ Counted' /\ Sources' /\ Chains' /\ Passed'
      /\ OneOwner' /\ Reality'
  BY <1>2, CalmKeeps
<1>4. queue = <<>> /\ \A u \in Tasks : ax[u] = "none"
  BY <1>1 DEF ProtocolInv, Channel
<1>5. /\ ch' \in [ghost : {"none", "never", "open", "closed"}, leak : BOOLEAN, expired : BOOLEAN,
                  closed : BOOLEAN]
      /\ ch'.ghost = "open"
      /\ ax' \in [Tasks -> {"none", "frozen", "owned"}]
      /\ ax'[Main] = kind /\ \A u \in Tasks : u # Main => ax'[u] = "none"
  BY <1>1, <1>4 DEF ProtocolInv, ProtocolTypes
<1>6. ProtocolTypes'
  BY <1>1, <1>5 DEF ProtocolInv, ProtocolTypes
<1>7. Channel'
  BY <1>1, <1>4, <1>5 DEF Channel, ProtocolInv, TaskInv, Runs
<1>8. TaskInv'
  BY <1>1 DEF ProtocolInv, TaskInv, TaskOk, CallOf, Runs
<1>9. QED
  BY <1>1, <1>3, <1>6, <1>7, <1>8 DEF ProtocolInv

(* Closing the channel keeps the invariant.                                *)
LEMMA CloseChanStep ==
    ASSUME ProtocolAssumption, ProtocolInv, NEW t \in Tasks, CloseChan(t)
    PROVE  ProtocolInv'
<1>1. /\ UNCHANGED <<hs, tasks, ax, queue, real, refused>> /\ HasChan(t)
      /\ ch' = [ch EXCEPT !.closed = TRUE, !.ghost = IF t = Main THEN "closed" ELSE @]
  BY DEF CloseChan
<1>2. Calm
  BY <1>1, IdleIsCalm
<1>3. /\ HandleInv' /\ GhostLinks' /\ Counted' /\ Sources' /\ Chains' /\ Passed'
      /\ OneOwner' /\ Reality'
      /\ \A w : SharedByChan(w) => SharedByChan(w)'
      /\ \A w : Nobody(w) => Nobody(w)'
  BY <1>2, CalmKeeps
<1>4. ch.ghost \notin {"none", "never"}
  BY <1>1 DEF ProtocolInv, Channel, HasChan
<1>5. /\ ch' \in [ghost : {"none", "never", "open", "closed"}, leak : BOOLEAN, expired : BOOLEAN,
                  closed : BOOLEAN]
      /\ ch'.ghost \notin {"none", "never"} /\ ch'.expired = ch.expired
  BY <1>1, <1>4 DEF ProtocolInv, ProtocolTypes
<1>6. ProtocolTypes'
  BY <1>1, <1>5 DEF ProtocolInv, ProtocolTypes
<1>7. Channel'
  <2>1. ASSUME NEW i \in DOMAIN queue PROVE QueueOk(i)'
    <3>1. QueueOk(i)
      BY DEF ProtocolInv, Channel
    <3>2. QED
      BY <1>1, <1>3, <1>5, <3>1 DEF QueueOk
  <2>2. QED
    BY <1>1, <1>5, <2>1 DEF ProtocolInv, Channel, Runs
<1>8. TaskInv'
  BY <1>1 DEF ProtocolInv, TaskInv, TaskOk, CallOf, Runs
<1>9. QED
  BY <1>1, <1>3, <1>6, <1>7, <1>8 DEF ProtocolInv

(* Detaching a task keeps the invariant: its delegation is never given     *)
(* back.                                                                   *)
LEMMA DetachStep ==
    ASSUME ProtocolAssumption, ProtocolInv, NEW t \in Tasks, NEW c \in Tasks, Detach(t, c)
    PROVE  ProtocolInv'
<1>1. /\ tasks[c].by = t /\ tasks[c].how = "go" /\ tasks[c].handle = "open"
      /\ tasks' = [tasks EXCEPT ![c].handle = "detached"]
      /\ UNCHANGED <<hs, ax, ch, queue, real, refused>>
  BY DEF Detach
<1>2. tasks \in [Tasks -> Starts] /\ \A d \in Tasks : TaskOk(d)
  BY DEF ProtocolInv, ProtocolTypes, TaskInv
<1>3. /\ tasks' \in [Tasks -> Starts]
      /\ \A d \in Tasks : /\ tasks'[d].st = tasks[d].st /\ tasks'[d].by = tasks[d].by
                          /\ tasks'[d].how = tasks[d].how /\ tasks'[d].world = tasks[d].world
                          /\ tasks'[d].carrier = tasks[d].carrier /\ tasks'[d].out = tasks[d].out
                          /\ tasks'[d].handle = "joined" <=> tasks[d].handle = "joined"
  BY <1>1, <1>2 DEF Starts
<1>4. \A d, u \in Tasks : (Runs(d)' <=> Runs(d)) /\ (CallOf(d, u)' <=> CallOf(d, u))
  BY <1>3 DEF Runs, CallOf
<1>5. \A u \in Tasks, n \in LocalNames : Delegates(u, n)' = Delegates(u, n)
  BY <1>3 DEF Delegates
<1>6. Calm
  BY <1>1, <1>3, <1>4, <1>5 DEF Calm
<1>7. /\ HandleInv' /\ GhostLinks' /\ Counted' /\ Sources' /\ Chains' /\ Passed'
      /\ OneOwner' /\ Reality'
      /\ \A w : SharedByChan(w) => SharedByChan(w)'
      /\ \A w : Nobody(w) => Nobody(w)'
  BY <1>6, CalmKeeps
<1>8. \A d \in Tasks : TaskOk(d)'
  <2> SUFFICES ASSUME NEW d \in Tasks PROVE TaskOk(d)'
    OBVIOUS
  <2>1. TaskOk(d) /\ tasks[d] \in Starts
    BY <1>2
  <2>2. CASE tasks[d].by \in Tasks
    BY <1>3, <2>1, <2>2 DEF TaskOk, Runs
  <2>3. CASE tasks[d].by \notin Tasks
    BY <1>3, <2>1, <2>3 DEF TaskOk, Runs
  <2>4. QED
    BY <2>2, <2>3
<1>9. TaskInv'
  <2>1. Runs(Main)' /\ tasks'[Main].by = 0
    BY <1>3, <1>4 DEF ProtocolInv, TaskInv, ProtocolAssumption
  <2>2. QED
    BY <1>3, <1>4, <1>8, <2>1 DEF ProtocolInv, TaskInv
<1>10. ProtocolTypes'
  BY <1>1, <1>3 DEF ProtocolInv, ProtocolTypes
<1>11. Channel'
  <2>1. ASSUME NEW i \in DOMAIN queue PROVE QueueOk(i)'
    <3>1. QueueOk(i)
      BY DEF ProtocolInv, Channel
    <3>2. QED
      BY <1>1, <1>7, <3>1 DEF QueueOk
  <2>2. QED
    BY <1>1, <1>3, <1>4, <2>1 DEF ProtocolInv, Channel
<1>12. QED
  BY <1>1, <1>7, <1>9, <1>10, <1>11 DEF ProtocolInv


-----------------------------------------------------------------------------
(* Steps on one handle.                                                    *)

(* What the handles are when one of them is replaced.                      *)
LEMMA OneHandle ==
    ASSUME ProtocolTypes, NEW t \in Tasks, NEW n \in LocalNames, NEW e \in Handles,
           hs' = [hs EXCEPT ![t][n] = e]
    PROVE  /\ hs' \in [Tasks -> [LocalNames -> Handles]] /\ hs'[t][n] = e
           /\ \A u \in Tasks, k \in LocalNames : ~(u = t /\ k = n) => hs'[u][k] = hs[u][k]
<1>1. hs \in [Tasks -> [LocalNames -> Handles]]
  BY DEF ProtocolTypes
<1>2. hs'[t] = [hs[t] EXCEPT ![n] = e] /\ \A u \in Tasks : u # t => hs'[u] = hs[u]
  BY <1>1
<1>3. QED
  BY <1>1, <1>2

(* A step that leaves the tasks alone keeps the tree of tasks and the      *)
(* delegates.                                                              *)
LEMMA SameTasks ==
    ASSUME ProtocolInv, tasks' = tasks
    PROVE  /\ TaskInv'
           /\ \A u \in Tasks : Runs(u)' <=> Runs(u)
           /\ \A c, u \in Tasks : CallOf(c, u)' <=> CallOf(c, u)
           /\ \A u \in Tasks, n \in LocalNames : Delegates(u, n)' = Delegates(u, n)
  BY DEF ProtocolInv, TaskInv, TaskOk, CallOf, Runs, Delegates

(* A usable handle belongs to a running body and is in the state of its    *)
(* world; borrowed handles are usable.                                     *)
LEMMA UsableRuns ==
    ASSUME ProtocolInv, NEW t \in Tasks, NEW n \in LocalNames
    PROVE  /\ Usable(hs[t][n]) => Runs(t) /\ hs[t][n].w \in WorldIds
           /\ Usable(hs[t][n]) => real[hs[t][n].w].st = hs[t][n].st
           /\ Borrowed(hs[t][n]) => Usable(hs[t][n]) /\ hs[t][n].st = "frozen"
           /\ hs[t][n].con = "mutable" => Usable(hs[t][n]) /\ hs[t][n].st = "mutable"
           /\ hs[t][n].st = "mutable" => Usable(hs[t][n])
  BY DEF ProtocolInv, HandleInv, HandleOk, Usable, NoHandle, Borrowed, Reality

(* Making a world keeps the invariant: no handle was on the world, and     *)
(* nothing links to it.                                                    *)
LEMMA NewStep ==
    ASSUME ProtocolAssumption, ProtocolInv, NEW t \in Tasks, CanStep(t), New(t)
    PROVE  ProtocolInv'
<1>1. PICK n : n = NextName(t)
  OBVIOUS
<1>2. PICK w \in WorldIds : /\ real[w].st = "unused"
                            /\ hs' = [hs EXCEPT ![t][n] = Fresh("mutable", "none", w)]
                            /\ real' = [real EXCEPT ![w].st = "mutable"]
  BY <1>1 DEF New
<1>3. SomeName(t) /\ UNCHANGED <<tasks, ax, ch, queue, refused>>
  BY DEF New
<1>4. n \in LocalNames /\ hs[t][n].st = "none" /\ hs[t][n] = NoHandle
  BY <1>1, <1>3, NextNameIs DEF ProtocolInv, HandleInv, HandleOk
<1>5. PICK e : e = Fresh("mutable", "none", w)
  OBVIOUS
<1>6. /\ e \in Handles /\ e.st = "mutable" /\ e.con = "none" /\ e.w = w /\ e.shared = 0
      /\ e.chs = 0 /\ e.links = {} /\ ~e.from
  BY <1>5 DEF Fresh, NoHandle, Handles, Contracts
<1>7. /\ hs' \in [Tasks -> [LocalNames -> Handles]] /\ hs'[t][n] = e
      /\ \A u \in Tasks, k \in LocalNames : ~(u = t /\ k = n) => hs'[u][k] = hs[u][k]
  <2>1. hs' = [hs EXCEPT ![t][n] = e] /\ ProtocolTypes
    BY <1>2, <1>5 DEF ProtocolInv
  <2>2. QED
    BY <1>4, <1>6, <2>1, OneHandle
<1>8. /\ TaskInv'
      /\ \A u \in Tasks : Runs(u)' <=> Runs(u)
      /\ \A c, u \in Tasks : CallOf(c, u)' <=> CallOf(c, u)
      /\ \A u \in Tasks, k \in LocalNames : Delegates(u, k)' = Delegates(u, k)
  BY <1>3, SameTasks
<1>9. /\ real' \in [WorldIds -> [st : {"unused", "mutable", "frozen", "freed"},
                                 links : SUBSET WorldIds]]
      /\ real'[w].st = "mutable" /\ real'[w].links = real[w].links
      /\ \A v \in WorldIds : v # w => real'[v] = real[v]
  BY <1>2 DEF ProtocolInv, ProtocolTypes
<1>10. \A u \in Tasks, k \in LocalNames : Usable(hs[u][k]) => hs[u][k].w # w
  BY <1>2 DEF ProtocolInv, Reality, Usable
<1>11. real[w].links = {} /\ \A v \in WorldIds : w \notin real[v].links
  BY <1>2 DEF ProtocolInv, Reality, RealOk
<1>12. \A u \in Tasks, k \in LocalNames : n \in hs[u][k].links => u # t
  BY <1>4 DEF ProtocolInv, GhostLinks, LinkOk, Owns, Usable
<1>13. Runs(t)
  BY DEF CanStep, Runs
<1>14. ProtocolTypes'
  BY <1>3, <1>7, <1>9 DEF ProtocolInv, ProtocolTypes
<1>15. HandleInv'
  <2> SUFFICES ASSUME NEW u \in Tasks, NEW k \in LocalNames PROVE HandleOk(u, k)'
    BY DEF HandleInv
  <2>1. CASE u = t /\ k = n
    BY <1>6, <1>7, <1>8, <1>13, <2>1 DEF HandleOk, Borrowed
  <2>2. CASE ~(u = t /\ k = n)
    BY <1>3, <1>7, <1>8, <2>2 DEF HandleOk, ProtocolInv, HandleInv
  <2>3. QED
    BY <2>1, <2>2
<1>16. GhostLinks'
  <2> SUFFICES ASSUME NEW u \in Tasks, NEW k \in LocalNames, NEW m \in LocalNames,
                      m \in hs'[u][k].links
               PROVE  LinkOk(u, k, m)'
    BY DEF GhostLinks
  <2>1. ~(u = t /\ k = n) /\ hs'[u][k] = hs[u][k]
    BY <1>6, <1>7
  <2>2. LinkOk(u, k, m)
    BY <2>1 DEF ProtocolInv, GhostLinks
  <2>3. hs'[u][m] = hs[u][m]
    BY <1>7, <1>12, <2>1
  <2>4. Usable(hs[u][k]) => real'[hs[u][k].w] = real[hs[u][k].w]
    BY <1>9, <1>10, UsableRuns
  <2>5. QED
    BY <2>1, <2>2, <2>3, <2>4 DEF LinkOk, Owns
<1>17. Counted'
  <2> SUFFICES ASSUME NEW u \in Tasks, NEW k \in LocalNames, Runs(u)
               PROVE  hs'[u][k].shared >= hs'[u][k].chs + Cardinality(Delegates(u, k))
    BY <1>8 DEF Counted
  <2>1. hs[u][k].shared >= hs[u][k].chs + Cardinality(Delegates(u, k))
    BY DEF ProtocolInv, Counted
  <2>2. hs[t][n].shared = 0 /\ hs[t][n].chs = 0
    BY <1>4 DEF NoHandle
  <2>3. hs'[u][k].shared = hs[u][k].shared /\ hs'[u][k].chs = hs[u][k].chs
    BY <1>6, <1>7, <2>2
  <2>4. QED
    BY <2>1, <2>3
<1>18. \A v : v # w => /\ SharedForGood(v) => SharedForGood(v)'
                       /\ SharedByChan(v) => SharedByChan(v)'
                       /\ NoOwner(v) => NoOwner(v)'
                       /\ Nobody(v) => Nobody(v)'
  <2> SUFFICES ASSUME NEW v, v # w
               PROVE  /\ SharedForGood(v) => SharedForGood(v)'
                      /\ SharedByChan(v) => SharedByChan(v)'
                      /\ NoOwner(v) => NoOwner(v)'
                      /\ Nobody(v) => Nobody(v)'
    OBVIOUS
  <2>1. \A u \in Tasks, k \in LocalNames : hs'[u][k].w = v => hs'[u][k] = hs[u][k]
    BY <1>6, <1>7
  <2>2. QED
    BY <1>8, <2>1 DEF SharedForGood, SharedByChan, NoOwner, Nobody, Owns, On
<1>19. \A v : \A u \in Tasks, k \in LocalNames : On(u, k, v) => On(u, k, v)' /\ hs'[u][k] = hs[u][k] /\ v # w
  BY <1>4, <1>7, <1>10 DEF On, Usable
<1>20. Sources'
  <2> SUFFICES ASSUME NEW u \in Tasks, NEW k \in LocalNames, Borrowed(hs'[u][k])
               PROVE  SourceOk(u, k)'
    BY DEF Sources
  <2>1. hs'[u][k] = hs[u][k] /\ SourceOk(u, k) /\ hs[u][k].w # w
    BY <1>6, <1>7, <1>10, UsableRuns DEF ProtocolInv, Sources, Borrowed
  <2>2. TaskOk(u)
    BY DEF ProtocolInv, TaskInv
  <2>3. QED
    BY <1>3, <1>18, <1>19, <2>1, <2>2 DEF SourceOk, TaskOk
<1>21. Chains'
  <2> SUFFICES ASSUME NEW u \in Tasks, NEW v \in Tasks, NEW k \in LocalNames, NEW m \in LocalNames,
                      hs'[u][k].st = "mutable", On(v, m, hs[u][k].w)'
               PROVE  ChainOk(u, k, v, m)'
    BY DEF Chains
  <2>1. CASE u = t /\ k = n
    BY <1>6, <1>7, <1>10, <2>1 DEF On, ChainOk, ProtocolAssumption
  <2>2. CASE ~(u = t /\ k = n)
    <3>1. hs'[u][k] = hs[u][k] /\ hs[u][k].w # w
      BY <1>7, <1>10, <2>2, UsableRuns
    <3>2. ~(v = t /\ m = n) /\ hs'[v][m] = hs[v][m]
      BY <1>6, <1>7, <3>1 DEF On
    <3>3. ChainOk(u, k, v, m)
      BY <3>1, <3>2 DEF ProtocolInv, Chains, On
    <3>4. PICK x : x = hs[u][k].w
      OBVIOUS
    <3>5. Above(u, v, x) => Above(u, v, x)'
      BY <1>8, <1>19 DEF Above, ProtocolAssumption
    <3>6. QED
      BY <1>3, <3>1, <3>2, <3>3, <3>4, <3>5 DEF ChainOk
  <2>3. QED
    BY <2>1, <2>2
<1>22. Passed'
  <2> SUFFICES ASSUME NEW u \in Tasks, NEW k \in LocalNames, hs'[u][k].con = "mutable",
                      tasks[u].how = "call"
               PROVE  \E m \in LocalNames : On(tasks[u].by, m, hs[u][k].w)'
    BY <1>3 DEF Passed
  <2>1. hs'[u][k] = hs[u][k]
    BY <1>6, <1>7
  <2>2. PICK m \in LocalNames : On(tasks[u].by, m, hs[u][k].w)
    BY <2>1 DEF ProtocolInv, Passed
  <2>3. tasks[u].by \in Tasks
    BY DEF ProtocolInv, TaskInv, TaskOk
  <2>4. QED
    BY <1>3, <1>19, <2>1, <2>2, <2>3
<1>23. OneOwner'
  <2>1. \A u \in Tasks, k \in LocalNames : Owns(u, k)' /\ ~(u = t /\ k = n) =>
           Owns(u, k) /\ hs'[u][k].w = hs[u][k].w /\ hs[u][k].w # w
    BY <1>7, <1>10 DEF Owns
  <2>2. QED
    BY <1>6, <1>7, <2>1 DEF ProtocolInv, OneOwner
<1>24. Reality'
  <2>1. ASSUME NEW v \in WorldIds PROVE RealOk(v)'
    <3>1. RealOk(v) /\ real'[v].links = real[v].links
      BY <1>9 DEF ProtocolInv, Reality
    <3>2. ASSUME NEW x \in real[v].links
          PROVE  x # v /\ x # w /\ real'[x] = real[x] /\ real[x].st \in {"mutable", "frozen"}
      BY <1>9, <1>11, <3>1, <3>2 DEF RealOk, ProtocolInv, ProtocolTypes
    <3>3. ASSUME NEW x \in real[v].links, NEW u \in Tasks, NEW m \in LocalNames, On(u, m, x)'
          PROVE  /\ hs'[u][m].con = "mutable" => tasks'[u].how = "call"
                 /\ Owns(u, m)' => \E k \in LocalNames : m \in hs'[u][k].links /\ hs'[u][k].w = v
      <4>1. hs'[u][m] = hs[u][m]
        BY <1>6, <1>7, <3>2, <3>3 DEF On
      <4>2. On(u, m, x)
        BY <3>3, <4>1 DEF On
      <4>3. Owns(u, m) => \E k \in LocalNames : m \in hs[u][k].links /\ hs[u][k].w = v
        BY <3>1, <4>2 DEF RealOk
      <4>4. \A k \in LocalNames : m \in hs[u][k].links => hs'[u][k] = hs[u][k]
        BY <1>4, <1>7 DEF NoHandle
      <4>5. QED
        BY <1>3, <3>1, <4>1, <4>2, <4>3, <4>4 DEF RealOk, Owns
    <3>4. real'[v].links # {} => real'[v].st \in {"mutable", "frozen"}
      BY <1>9, <3>1 DEF RealOk
    <3>5. QED
      BY <3>1, <3>2, <3>3, <3>4 DEF RealOk
  <2>2. ASSUME NEW u \in Tasks, NEW k \in LocalNames, Usable(hs'[u][k])
        PROVE  real'[hs'[u][k].w].st = hs'[u][k].st
    BY <1>6, <1>7, <1>9, <1>10, <2>2, UsableRuns
  <2>3. QED
    BY <2>1, <2>2 DEF Reality
<1>25. Channel'
  <2>1. ASSUME NEW i \in DOMAIN queue PROVE QueueOk(i)'
    <3>1. QueueOk(i) /\ queue[i] # w /\ queue[i] \in WorldIds
      BY <1>2 DEF ProtocolInv, Channel, QueueOk, ProtocolTypes
    <3>2. \A v \in WorldIds : real'[v].links = real[v].links
      BY <1>9
    <3>3. QED
      BY <1>3, <1>9, <1>18, <3>1, <3>2 DEF QueueOk
  <2>2. QED
    BY <1>3, <1>8, <2>1 DEF ProtocolInv, Channel
<1>26. QED
  BY <1>3, <1>8, <1>14, <1>15, <1>16, <1>17, <1>20, <1>21, <1>22, <1>23, <1>24, <1>25 DEF ProtocolInv


\* The step changes handles that stay where they are; the handle of t that it may end
\* is the only one on its world.
Keeps(t, n) ==
    /\ \A u \in Tasks : /\ tasks'[u].st = tasks[u].st /\ tasks'[u].by = tasks[u].by
                        /\ tasks'[u].how = tasks[u].how /\ tasks'[u].world = tasks[u].world
    /\ \A u \in Tasks, k \in LocalNames :
          /\ hs'[u][k].con = hs[u][k].con /\ hs'[u][k].w = hs[u][k].w
          /\ hs'[u][k].from = hs[u][k].from
          /\ hs'[u][k].st = "mutable" => hs[u][k].st = "mutable"
          /\ Usable(hs'[u][k]) => Usable(hs[u][k])
          /\ Usable(hs[u][k]) /\ ~Usable(hs'[u][k]) => u = t /\ k = n
    /\ \A u \in Tasks, k \in LocalNames : Usable(hs'[u][k]) =>
          /\ hs[u][k].shared > hs[u][k].chs + Cardinality(Delegates(u, k)) =>
                hs'[u][k].shared > hs'[u][k].chs + Cardinality(Delegates(u, k)')
          /\ hs[u][k].shared > Cardinality(Delegates(u, k)) =>
                hs'[u][k].shared > Cardinality(Delegates(u, k)')
    /\ \/ \A u \in Tasks, k \in LocalNames : Usable(hs[u][k]) => Usable(hs'[u][k])
       \/ /\ Owns(t, n)
          /\ \A v \in Tasks, m \in LocalNames : On(v, m, hs[t][n].w) => v = t /\ m = n

(* When handles stay on their worlds, so do the sources of borrowed        *)
(* worlds and the chains of their writers.                                 *)
LEMMA KeepsHolders ==
    ASSUME ProtocolAssumption, ProtocolInv, NEW t \in Tasks, NEW n \in LocalNames, Keeps(t, n)
    PROVE  /\ Sources' /\ Chains' /\ Passed' /\ OneOwner'
           /\ \A w : \A u \in Tasks, k \in LocalNames : On(u, k, w)' => On(u, k, w)
           /\ \A u \in Tasks, k \in LocalNames : Owns(u, k)' => Owns(u, k)
           /\ \A w : SharedByChan(w) => SharedByChan(w)'
           /\ \A w : Nobody(w) => Nobody(w)'
<1>1. \A u \in Tasks : /\ tasks'[u].st = tasks[u].st /\ tasks'[u].by = tasks[u].by
                       /\ tasks'[u].how = tasks[u].how /\ tasks'[u].world = tasks[u].world
  BY DEF Keeps
<1>2. \A u \in Tasks, k \in LocalNames :
          /\ hs'[u][k].con = hs[u][k].con /\ hs'[u][k].w = hs[u][k].w
          /\ hs'[u][k].from = hs[u][k].from
          /\ hs'[u][k].st = "mutable" => hs[u][k].st = "mutable"
          /\ Usable(hs'[u][k]) => Usable(hs[u][k])
          /\ Usable(hs[u][k]) /\ ~Usable(hs'[u][k]) => u = t /\ k = n
  BY DEF Keeps
<1>3. \A w : \A u \in Tasks, k \in LocalNames : On(u, k, w)' => On(u, k, w)
  BY <1>2 DEF On
<1>4. \A u \in Tasks, k \in LocalNames : Owns(u, k)' => Owns(u, k)
  BY <1>2 DEF Owns
<1>5. ASSUME NEW u \in Tasks, NEW k \in LocalNames, NEW v \in Tasks, NEW m \in LocalNames, NEW w,
             On(u, k, w), On(v, m, w), ~(u = v /\ k = m)
      PROVE  On(u, k, w)' /\ On(v, m, w)'
  <2>1. CASE \A x \in Tasks, y \in LocalNames : Usable(hs[x][y]) => Usable(hs'[x][y])
    BY <1>2, <1>5, <2>1 DEF On
  <2>2. CASE ~\A x \in Tasks, y \in LocalNames : Usable(hs[x][y]) => Usable(hs'[x][y])
    <3>1. \A x \in Tasks, y \in LocalNames : On(x, y, hs[t][n].w) => x = t /\ y = n
      BY <2>2 DEF Keeps
    <3>2. w # hs[t][n].w
      BY <1>5, <3>1
    <3>3. QED
      BY <1>2, <1>5, <3>2 DEF On
  <2>3. QED
    BY <2>1, <2>2
<1>6. \A w : /\ SharedForGood(w) => SharedForGood(w)'
             /\ SharedByChan(w) => SharedByChan(w)'
             /\ NoOwner(w) => NoOwner(w)'
             /\ Nobody(w) => Nobody(w)'
  <2> SUFFICES ASSUME NEW w
               PROVE  /\ SharedForGood(w) => SharedForGood(w)'
                      /\ SharedByChan(w) => SharedByChan(w)'
                      /\ NoOwner(w) => NoOwner(w)'
                      /\ Nobody(w) => Nobody(w)'
    OBVIOUS
  <2>1. \A u \in Tasks, k \in LocalNames : Usable(hs'[u][k]) =>
          /\ hs[u][k].shared > hs[u][k].chs + Cardinality(Delegates(u, k)) =>
                hs'[u][k].shared > hs'[u][k].chs + Cardinality(Delegates(u, k)')
          /\ hs[u][k].shared > Cardinality(Delegates(u, k)) =>
                hs'[u][k].shared > Cardinality(Delegates(u, k)')
    BY DEF Keeps
  <2>2. SharedForGood(w) => SharedForGood(w)'
    BY <1>2, <2>1 DEF SharedForGood, Owns
  <2>3. SharedByChan(w) => SharedByChan(w)'
    BY <1>2, <2>1 DEF SharedByChan, Owns
  <2>4. NoOwner(w) => NoOwner(w)'
    BY <1>2, <1>4 DEF NoOwner
  <2>5. Nobody(w) => Nobody(w)'
    BY <1>3 DEF Nobody
  <2>6. QED
    BY <2>2, <2>3, <2>4, <2>5
<1>7. Sources'
  <2> SUFFICES ASSUME NEW u \in Tasks, NEW k \in LocalNames, Borrowed(hs[u][k])
               PROVE  SourceOk(u, k)'
    BY <1>2 DEF Sources, Borrowed
  <2>1. SourceOk(u, k) /\ TaskOk(u)
    BY DEF ProtocolInv, Sources, TaskInv
  <2>2. PICK w : w = hs[u][k].w
    OBVIOUS
  <2>3. On(u, k, w)
    BY <2>2, UsableRuns DEF On
  <2>4. ASSUME NEW p \in Tasks, p < u, NEW m \in LocalNames, On(p, m, w) PROVE On(p, m, w)'
    BY <1>5, <2>3, <2>4 DEF ProtocolAssumption
  <2>5. tasks[u].how \in {"call", "go"} => tasks[u].by \in Tasks /\ tasks[u].by < u
    BY <2>1 DEF TaskOk
  <2>6. CASE hs[u][k].from
    BY <1>2, <1>6, <2>1, <2>2, <2>6 DEF SourceOk
  <2>7. CASE ~hs[u][k].from
    <3>1. PICK p, d : p = tasks[u].by /\ d = tasks[u].world
      OBVIOUS
    <3>2. tasks[u].how = "call" => \E m \in LocalNames : On(p, m, w)'
      BY <2>1, <2>2, <2>4, <2>5, <2>7, <3>1 DEF SourceOk
    <3>3. tasks[u].how = "go" => (d \in LocalNames /\ On(p, d, w)') \/ NoOwner(w)'
      BY <1>6, <2>1, <2>2, <2>4, <2>5, <2>7, <3>1 DEF SourceOk
    <3>4. tasks[u].how = "bg" => SharedForGood(w)'
      BY <1>6, <2>1, <2>2, <2>7 DEF SourceOk
    <3>5. /\ tasks'[u].by = p /\ tasks'[u].world = d /\ tasks'[u].how = tasks[u].how
          /\ hs'[u][k].w = w /\ ~hs'[u][k].from
      BY <1>1, <1>2, <2>2, <2>7, <3>1
    <3>6. QED
      BY <3>2, <3>3, <3>4, <3>5 DEF SourceOk
  <2>8. QED
    BY <2>6, <2>7
<1>8. Chains'
  <2> SUFFICES ASSUME NEW u \in Tasks, NEW v \in Tasks, NEW k \in LocalNames, NEW m \in LocalNames,
                      hs'[u][k].st = "mutable", On(v, m, hs[u][k].w)'
               PROVE  ChainOk(u, k, v, m)'
    BY DEF Chains
  <2>1. PICK w : w = hs[u][k].w
    OBVIOUS
  <2>2. hs[u][k].st = "mutable" /\ hs'[u][k].w = w /\ On(v, m, w)' /\ On(v, m, w) /\ On(u, k, w)
    BY <1>2, <1>3, <2>1 DEF On, Usable
  <2>3. ChainOk(u, k, v, m)
    BY <2>1, <2>2 DEF ProtocolInv, Chains
  <2>4. Above(u, v, w) => Above(u, v, w)'
    <3> SUFFICES ASSUME NEW c \in Tasks, CallOf(c, u), c <= v, On(c, 1, w), hs[c][1].con = "mutable"
                 PROVE  CallOf(c, u)' /\ On(c, 1, w)' /\ hs'[c][1].con = "mutable"
      BY DEF Above
    <3>1. CallOf(c, u)' /\ 1 \in LocalNames
      BY <1>1 DEF CallOf, Runs, ProtocolAssumption
    <3>2. c # u
      BY DEF CallOf, ProtocolInv, TaskInv, TaskOk, ProtocolAssumption
    <3>3. On(c, 1, w)'
      BY <1>5, <2>2, <3>1, <3>2
    <3>4. QED
      BY <1>2, <3>1, <3>3
  <2>5. QED
    BY <1>1, <1>2, <2>1, <2>2, <2>3, <2>4 DEF ChainOk
<1>9. Passed'
  <2> SUFFICES ASSUME NEW u \in Tasks, NEW k \in LocalNames, hs[u][k].con = "mutable",
                      tasks[u].how = "call"
               PROVE  \E m \in LocalNames : On(tasks[u].by, m, hs[u][k].w)'
    BY <1>1, <1>2 DEF Passed
  <2>1. PICK w : w = hs[u][k].w
    OBVIOUS
  <2>2. PICK m \in LocalNames : On(tasks[u].by, m, w)
    BY <2>1 DEF ProtocolInv, Passed
  <2>3. tasks[u].by \in Tasks /\ tasks[u].by # u
    <3>1. TaskOk(u) /\ u \in Nat
      BY DEF ProtocolInv, TaskInv, ProtocolAssumption
    <3>2. tasks[u].by \in Tasks /\ tasks[u].by < u
      BY <3>1 DEF TaskOk
    <3>3. QED
      BY <3>1, <3>2
  <2>4. On(u, k, w)
    BY <2>1, UsableRuns DEF On
  <2>5. PICK p \in Tasks : p = tasks[u].by
    BY <2>3
  <2>6. On(p, m, w)'
    BY <1>5, <2>2, <2>3, <2>4, <2>5
  <2>7. tasks'[u].by = p /\ hs'[u][k].w = w
    BY <1>1, <1>2, <2>1, <2>5
  <2>8. QED
    BY <2>6, <2>7
<1>10. OneOwner'
  BY <1>2, <1>4 DEF ProtocolInv, OneOwner
<1>11. QED
  BY <1>3, <1>4, <1>6, <1>7, <1>8, <1>9, <1>10


\* e takes the place of a handle of t: it stays on its world or, being alone there, leaves it.
Replaces(t, n, e) ==
    /\ hs' = [hs EXCEPT ![t][n] = e] /\ tasks' = tasks /\ e \in Handles /\ Runs(t)
    /\ e.con = hs[t][n].con /\ e.w = hs[t][n].w /\ e.from = hs[t][n].from
    /\ e.st # "none" /\ hs[t][n].st # "none"
    /\ e.st = "mutable" => hs[t][n].st = "mutable" /\ e.shared = 0
    /\ e.con = "frozen" => e.st = "frozen"
    /\ e.con = "mutable" => e.st = "mutable"
    /\ t # Main => e.chs = 0
    /\ Usable(e) => Usable(hs[t][n])
    /\ e.shared >= e.chs + Cardinality(Delegates(t, n))
    /\ \/ /\ Usable(e) /\ e.shared >= hs[t][n].shared
          /\ e.shared + hs[t][n].chs >= hs[t][n].shared + e.chs
       \/ /\ ~Usable(e) /\ Owns(t, n)
          /\ \A v \in Tasks, m \in LocalNames : On(v, m, hs[t][n].w) => v = t /\ m = n

(* Replacing a handle by one on the same world, or by one that left it,    *)
(* keeps what is said of holders.                                          *)
LEMMA ReplacesKeeps ==
    ASSUME ProtocolAssumption, ProtocolInv, NEW t \in Tasks, NEW n \in LocalNames, NEW e,
           Replaces(t, n, e)
    PROVE  /\ hs' \in [Tasks -> [LocalNames -> Handles]] /\ hs'[t][n] = e
           /\ \A u \in Tasks, k \in LocalNames : ~(u = t /\ k = n) => hs'[u][k] = hs[u][k]
           /\ TaskInv' /\ HandleInv' /\ Counted' /\ Sources' /\ Chains' /\ Passed' /\ OneOwner'
           /\ \A w : \A u \in Tasks, k \in LocalNames : On(u, k, w)' => On(u, k, w)
           /\ \A u \in Tasks, k \in LocalNames : Owns(u, k)' => Owns(u, k)
           /\ \A w : SharedByChan(w) => SharedByChan(w)'
           /\ \A w : Nobody(w) => Nobody(w)'
<1>1. /\ hs' \in [Tasks -> [LocalNames -> Handles]] /\ hs'[t][n] = e
      /\ \A u \in Tasks, k \in LocalNames : ~(u = t /\ k = n) => hs'[u][k] = hs[u][k]
  <2>1. hs' = [hs EXCEPT ![t][n] = e] /\ ProtocolTypes /\ e \in Handles
    BY DEF ProtocolInv, Replaces
  <2>2. QED
    BY <2>1, OneHandle, ZenonT(30)
<1>2. tasks' = tasks
  BY DEF Replaces
<1>3. /\ TaskInv'
      /\ \A u \in Tasks : Runs(u)' <=> Runs(u)
      /\ \A c, u \in Tasks : CallOf(c, u)' <=> CallOf(c, u)
      /\ \A u \in Tasks, k \in LocalNames : Delegates(u, k)' = Delegates(u, k)
  BY <1>2, SameTasks
<1>4. HandleInv'
  <2> SUFFICES ASSUME NEW u \in Tasks, NEW k \in LocalNames PROVE HandleOk(u, k)'
    BY DEF HandleInv
  <2>1. HandleOk(u, k)
    BY DEF ProtocolInv, HandleInv
  <2>2. CASE u = t /\ k = n
    BY <1>1, <1>2, <1>3, <2>1, <2>2 DEF HandleOk, Borrowed, Replaces, Handles
  <2>3. CASE ~(u = t /\ k = n)
    BY <1>1, <1>2, <1>3, <2>1, <2>3 DEF HandleOk
  <2>4. QED
    BY <2>2, <2>3
<1>5. Counted'
  <2> SUFFICES ASSUME NEW u \in Tasks, NEW k \in LocalNames, Runs(u)
               PROVE  hs'[u][k].shared >= hs'[u][k].chs + Cardinality(Delegates(u, k))
    BY <1>3 DEF Counted
  <2>1. CASE u = t /\ k = n
    BY <1>1, <2>1 DEF Replaces
  <2>2. CASE ~(u = t /\ k = n)
    BY <1>1, <2>2 DEF ProtocolInv, Counted
  <2>3. QED
    BY <2>1, <2>2
<1>6. ASSUME NEW u \in Tasks, NEW k \in LocalNames, Usable(hs'[u][k])
      PROVE  /\ hs[u][k].shared > hs[u][k].chs + Cardinality(Delegates(u, k)) =>
                   hs'[u][k].shared > hs'[u][k].chs + Cardinality(Delegates(u, k)')
             /\ hs[u][k].shared > Cardinality(Delegates(u, k)) =>
                   hs'[u][k].shared > Cardinality(Delegates(u, k)')
  <2>1. CASE u = t /\ k = n /\ Usable(e) /\ e.shared >= hs[t][n].shared
             /\ e.shared + hs[t][n].chs >= hs[t][n].shared + e.chs
    <3>1. PICK d \in Nat : d = Cardinality(Delegates(u, k)) /\ d = Cardinality(Delegates(u, k)')
      BY <1>3, DelegatesFinite
    <3>2. hs[t][n] \in Handles /\ e \in Handles
      BY DEF ProtocolInv, ProtocolTypes, Replaces
    <3>3. PICK a \in Nat, b \in Nat, x \in Nat, y \in Nat :
             a = e.shared /\ b = e.chs /\ x = hs[t][n].shared /\ y = hs[t][n].chs
      BY <3>2 DEF Handles
    <3>4. (x > y + d => a > b + d) /\ (x > d => a > d)
      <4>1. a >= x /\ a + y >= x + b
        BY <2>1, <3>3
      <4>2. QED
        BY <4>1
    <3>5. QED
      BY <1>1, <2>1, <3>1, <3>3, <3>4
  <2>2. CASE u = t /\ k = n /\ ~Usable(e)
    BY <1>1, <1>6, <2>2
  <2>3. CASE ~(u = t /\ k = n)
    BY <1>1, <1>3, <2>3
  <2>4. QED
    BY <1>1, <1>6, <2>1, <2>2, <2>3 DEF Replaces
<1>7. Keeps(t, n)
  <2>1. \A u \in Tasks, k \in LocalNames :
          /\ hs'[u][k].con = hs[u][k].con /\ hs'[u][k].w = hs[u][k].w
          /\ hs'[u][k].from = hs[u][k].from
          /\ hs'[u][k].st = "mutable" => hs[u][k].st = "mutable"
          /\ Usable(hs'[u][k]) => Usable(hs[u][k])
          /\ Usable(hs[u][k]) /\ ~Usable(hs'[u][k]) => u = t /\ k = n
    BY <1>1 DEF Replaces
  <2>2. \/ \A u \in Tasks, k \in LocalNames : Usable(hs[u][k]) => Usable(hs'[u][k])
        \/ /\ Owns(t, n)
           /\ \A v \in Tasks, m \in LocalNames : On(v, m, hs[t][n].w) => v = t /\ m = n
    BY <1>1 DEF Replaces
  <2>3. QED
    BY <1>2, <1>6, <2>1, <2>2 DEF Keeps
<1>8. QED
  BY <1>1, <1>3, <1>4, <1>5, <1>7, KeepsHolders

\* What a step may do to the worlds and what a channel holds.
Quiet ==
    /\ ax' = ax /\ queue' = queue /\ ch'.ghost = ch.ghost
    /\ ch.expired => ch'.expired
    /\ ch.ghost \in {"none", "never"} => ch'.expired = ch.expired
    /\ \A w \in WorldIds :
          /\ real[w].st # "unused" => real'[w].st # "unused"
          /\ Nobody(w) => real'[w].st = real[w].st
          /\ SharedByChan(w) /\ real[w].st = "frozen" => real'[w].st = "frozen" \/ ch'.expired
          /\ \A x \in real'[w].links : x \in real[w].links \/ ~Nobody(x)

(* When no world thaws or becomes linked, what the channel holds goes on   *)
(* satisfying its axiom.                                                   *)
LEMMA QuietKeeps ==
    ASSUME ProtocolAssumption, ProtocolInv, Quiet,
           \A w : SharedByChan(w) => SharedByChan(w)',
           \A w : Nobody(w) => Nobody(w)',
           \A u \in Tasks : ax[u] # "none" => Runs(u)' /\ (u = Main \/ tasks'[u].carrier)
    PROVE  Channel'
<1>1. ASSUME NEW i \in DOMAIN queue PROVE QueueOk(i)'
  <2>1. PICK w \in WorldIds : w = queue[i]
    BY DEF ProtocolInv, ProtocolTypes
  <2>2. QueueOk(i)
    BY DEF ProtocolInv, Channel
  <2>3. queue'[i] = w /\ ax' = ax /\ DOMAIN queue' = DOMAIN queue
    BY <2>1 DEF Quiet
  <2>4. real[w].st # "unused" /\ SharedByChan(w)
    BY <2>1, <2>2 DEF QueueOk
  <2>5. real'[w].st # "unused" /\ SharedByChan(w)'
    BY <2>4 DEF Quiet
  <2>6. ASSUME NEW u \in Tasks, ax[u] = "frozen", ~ch'.expired PROVE real'[w].st = "frozen"
    BY <2>1, <2>2, <2>4, <2>6 DEF Quiet, QueueOk
  <2>7. ASSUME NEW u \in Tasks, ax[u] = "owned"
        PROVE  /\ real'[w].st = "mutable" /\ Nobody(w)'
               /\ \A v \in WorldIds : w \notin real'[v].links
               /\ \A j \in DOMAIN queue : j # i => queue[j] # w
    <3>1. /\ real[w].st = "mutable" /\ Nobody(w)
          /\ \A v \in WorldIds : w \notin real[v].links
          /\ \A j \in DOMAIN queue : j # i => queue[j] # w
      BY <2>1, <2>2, <2>7 DEF QueueOk
    <3>2. QED
      BY <3>1 DEF Quiet
  <2>8. QED
    BY <2>3, <2>5, <2>6, <2>7 DEF QueueOk, Quiet
<1>2. QED
  BY <1>1 DEF Quiet, ProtocolInv, Channel

-----------------------------------------------------------------------------
(* Freezing and freeing a world.                                           *)

(* Freezing a world keeps the invariant: the body that freezes it is       *)
(* alone with it.                                                          *)
LEMMA FreezeStep ==
    ASSUME ProtocolAssumption, ProtocolInv, NEW t \in Tasks, CanStep(t), NEW n \in LocalNames, Freeze(t, n)
    PROVE  ProtocolInv'
<1>1. PICK w, e : w = hs[t][n].w /\ e = [hs[t][n] EXCEPT !.st = "frozen"]
  OBVIOUS
<1>2. /\ hs[t][n].st = "mutable" /\ hs[t][n].con # "mutable"
      /\ hs' = [hs EXCEPT ![t][n] = e] /\ real' = [real EXCEPT ![w].st = "frozen"]
      /\ refused' = (refused \/ real[w].st # "mutable")
      /\ UNCHANGED <<tasks, ax, ch, queue>>
  <2>1. hs' = [hs EXCEPT ![t][n] = e]
    BY <1>1 DEF Freeze, ProtocolInv, ProtocolTypes
  <2>2. QED
    BY <1>1, <2>1 DEF Freeze
<1>3. /\ hs[t][n] \in Handles /\ Runs(t) /\ w \in WorldIds /\ real[w].st = "mutable" /\ ~Waits(t)
      /\ ~Borrowed(hs[t][n]) /\ Usable(hs[t][n])
  BY <1>1, <1>2, UsableRuns DEF ProtocolInv, ProtocolTypes, CanStep
<1>4. /\ e \in Handles /\ e.st = "frozen" /\ e.con = hs[t][n].con /\ e.w = w
      /\ e.from = hs[t][n].from /\ e.shared = hs[t][n].shared /\ e.chs = hs[t][n].chs
      /\ e.links = hs[t][n].links
  BY <1>1, <1>3 DEF Handles
<1>5. Owns(t, n)
  BY <1>2, <1>3 DEF Owns, Handles, Borrowed, Contracts
<1>6. \A u \in Tasks, k \in LocalNames : On(u, k, w) => u = t /\ k = n
  BY <1>1, <1>2, <1>3, <1>5, SoleWriter
<1>7. Replaces(t, n, e)
  <2>1. hs[t][n].shared >= hs[t][n].chs + Cardinality(Delegates(t, n))
    BY <1>5, SharesAre
  <2>2. t # Main => hs[t][n].chs = 0
    BY DEF ProtocolInv, HandleInv, HandleOk
  <2>3. e.shared >= hs[t][n].shared /\ e.shared + hs[t][n].chs >= hs[t][n].shared + e.chs
    BY <1>3, <1>4 DEF Handles
  <2>4. QED
    BY <1>1, <1>2, <1>3, <1>4, <2>1, <2>2, <2>3 DEF Replaces, Usable
<1>8. /\ hs' \in [Tasks -> [LocalNames -> Handles]] /\ hs'[t][n] = e
      /\ \A u \in Tasks, k \in LocalNames : ~(u = t /\ k = n) => hs'[u][k] = hs[u][k]
      /\ TaskInv' /\ HandleInv' /\ Counted' /\ Sources' /\ Chains' /\ Passed' /\ OneOwner'
      /\ \A x : \A u \in Tasks, k \in LocalNames : On(u, k, x)' => On(u, k, x)
      /\ \A u \in Tasks, k \in LocalNames : Owns(u, k)' => Owns(u, k)
      /\ \A x : SharedByChan(x) => SharedByChan(x)'
      /\ \A x : Nobody(x) => Nobody(x)'
  BY <1>7, ReplacesKeeps
<1>9. /\ real' \in [WorldIds -> [st : {"unused", "mutable", "frozen", "freed"},
                                 links : SUBSET WorldIds]]
      /\ real'[w].st = "frozen"
      /\ \A v \in WorldIds : real'[v].links = real[v].links /\ (v # w => real'[v] = real[v])
  BY <1>2, <1>3 DEF ProtocolInv, ProtocolTypes
<1>10. ProtocolTypes' /\ ~refused'
  BY <1>2, <1>3, <1>8, <1>9 DEF ProtocolInv, ProtocolTypes
<1>11. \A u \in Tasks, k \in LocalNames :
          /\ hs'[u][k].links = hs[u][k].links /\ hs'[u][k].w = hs[u][k].w
          /\ hs'[u][k].con = hs[u][k].con /\ hs'[u][k].shared = hs[u][k].shared
          /\ Usable(hs'[u][k]) <=> Usable(hs[u][k])
          /\ hs'[u][k].st = "moved" <=> hs[u][k].st = "moved"
          /\ hs[u][k].st = "frozen" => hs'[u][k].st = "frozen"
  BY <1>1, <1>2, <1>4, <1>8 DEF Usable
<1>12. GhostLinks'
  <2> SUFFICES ASSUME NEW u \in Tasks, NEW k \in LocalNames, NEW m \in LocalNames,
                      m \in hs'[u][k].links
               PROVE  LinkOk(u, k, m)'
    BY DEF GhostLinks
  <2>1. LinkOk(u, k, m)
    BY <1>11 DEF ProtocolInv, GhostLinks
  <2>2. Usable(hs[u][k]) => real'[hs[u][k].w].links = real[hs[u][k].w].links
    BY <1>9, UsableRuns
  <2>3. QED
    BY <1>11, <2>1, <2>2 DEF LinkOk, Owns, Usable
<1>13. Reality'
  <2>1. ASSUME NEW v \in WorldIds PROVE RealOk(v)'
    <3>1. RealOk(v)
      BY DEF ProtocolInv, Reality
    <3>2. real'[v].links = real[v].links /\ (real'[v].st = real[v].st \/ real'[v].st = "frozen")
      BY <1>9
    <3>3. ASSUME NEW x \in real[v].links PROVE x # v /\ real'[x].st \in {"mutable", "frozen"}
      BY <1>9, <3>1, <3>3 DEF RealOk, ProtocolInv, ProtocolTypes
    <3>4. ASSUME NEW x \in real[v].links, NEW u \in Tasks, NEW m \in LocalNames, On(u, m, x)'
          PROVE  /\ hs'[u][m].con = "mutable" => tasks'[u].how = "call"
                 /\ Owns(u, m)' => \E k \in LocalNames : m \in hs'[u][k].links /\ hs'[u][k].w = v
      BY <1>2, <1>8, <1>11, <3>1, <3>4 DEF RealOk
    <3>5. QED
      BY <3>1, <3>2, <3>3, <3>4 DEF RealOk
  <2>2. ASSUME NEW u \in Tasks, NEW k \in LocalNames, Usable(hs'[u][k])
        PROVE  real'[hs'[u][k].w].st = hs'[u][k].st
    <3>1. CASE u = t /\ k = n
      BY <1>4, <1>8, <1>9, <3>1
    <3>2. CASE ~(u = t /\ k = n)
      BY <1>6, <1>8, <1>9, <2>2, <3>2, UsableRuns DEF On
    <3>3. QED
      BY <3>1, <3>2
  <2>3. QED
    BY <2>1, <2>2 DEF Reality
<1>14. Channel'
  <2>1. ~Nobody(w)
    BY <1>1, <1>3 DEF Nobody, On
  <2>2. Quiet
    BY <1>2, <1>9, <2>1 DEF Quiet
  <2>3. \A u \in Tasks : ax[u] # "none" => Runs(u)' /\ (u = Main \/ tasks'[u].carrier)
    BY <1>2 DEF ProtocolInv, Channel, Runs
  <2>4. QED
    BY <1>8, <2>2, <2>3, QuietKeeps
<1>15. QED
  BY <1>8, <1>10, <1>12, <1>13, <1>14 DEF ProtocolInv


(* Freeing a world keeps the invariant: no other handle is on it, and no   *)
(* world links to it.                                                      *)
LEMMA FreeStep ==
    ASSUME ProtocolAssumption, ProtocolInv, NEW t \in Tasks, CanStep(t), NEW n \in LocalNames, Free(t, n)
    PROVE  ProtocolInv'
<1> DEFINE X == Expires(t)
<1>1. PICK w, e : /\ w = hs[t][n].w
                  /\ e = [hs[t][n] EXCEPT !.st = "freed", !.links = {}, !.shared = SharedAtFree(t, n),
                                          !.chs = IF X THEN 0 ELSE @]
  OBVIOUS
<1>2. FreeOk(t, n) /\ ~Waits(t) /\ Runs(t)
  BY DEF Free, CanStep, Runs
<1>3. Owns(t, n) /\ hs[t][n] \in Handles
  BY <1>2 DEF ProtocolInv, ProtocolTypes, FreeOk, Owns, Borrowed, Handles, Contracts
<1>4. w \in WorldIds /\ \A v \in WorldIds : w \notin real[v].links
  BY <1>1, <1>2, <1>3, SharesAre, UnlinkedIs DEF FreeOk
<1>5. /\ hs' = [hs EXCEPT ![t][n] = e]
      /\ ch' = [ch EXCEPT !.expired = @ \/ (hs[t][n].chs > 0 /\ X)]
      /\ real' = [real EXCEPT ![w] = [st |-> "freed", links |-> {}]]
      /\ UNCHANGED <<tasks, ax, queue, refused>>
  <2>1. ~LinkedBy(w)
    BY <1>4 DEF LinkedBy
  <2>2. hs' = [hs EXCEPT ![t][n].st = "freed", ![t][n].links = {},
                        ![t][n].shared = SharedAtFree(t, n), ![t][n].chs = IF X THEN 0 ELSE @]
    BY DEF Free
  <2>3. hs' = [hs EXCEPT ![t][n] = e]
    <3> HIDE DEF X
    <3>1. hs \in [Tasks -> [LocalNames -> Handles]]
      BY DEF ProtocolInv, ProtocolTypes
    <3>2. PICK z : z = SharedAtFree(t, n)
      OBVIOUS
    <3>3. e = [hs[t][n] EXCEPT !.st = "freed", !.links = {}, !.shared = z,
                               !.chs = IF X THEN 0 ELSE @]
      BY <1>1, <3>2
    <3>4. hs' = [hs EXCEPT ![t][n].st = "freed", ![t][n].links = {}, ![t][n].shared = z,
                          ![t][n].chs = IF X THEN 0 ELSE @]
      BY <2>2, <3>2
    <3>5. QED
      BY <3>1, <3>3, <3>4, ZenonT(30)
  <2>4. QED
    BY <1>1, <2>1, <2>3 DEF Free
<1>6. /\ hs[t][n].shared \in Nat /\ hs[t][n].chs \in Nat /\ Cardinality(Delegates(t, n)) \in Nat
      /\ hs[t][n].shared >= hs[t][n].chs + Cardinality(Delegates(t, n))
  BY <1>3, SharesAre
<1>7. /\ e.st = "freed" /\ e.links = {} /\ e.con = hs[t][n].con /\ e.w = w /\ e.from = hs[t][n].from
      /\ e.shared = SharedAtFree(t, n) /\ e.chs = (IF X THEN 0 ELSE hs[t][n].chs)
  BY <1>1, <1>3 DEF Handles
<1>8. /\ SharedAtFree(t, n) = 0
      /\ SharedAtFree(t, n) = hs[t][n].shared - (IF X THEN hs[t][n].chs ELSE 0)
  BY <1>2 DEF FreeOk, SharedAtFree
<1> HIDE DEF X
<1>9. /\ e.shared = 0 /\ e.chs = 0 /\ Cardinality(Delegates(t, n)) = 0
      /\ hs[t][n].shared > 0 => X /\ hs[t][n].chs > 0
  <2>1. CASE X
    <3>1. PICK a \in Nat, b \in Nat, d \in Nat :
             a = hs[t][n].shared /\ b = hs[t][n].chs /\ d = Cardinality(Delegates(t, n))
      BY <1>6
    <3>2. a >= b + d /\ a - b = 0
      BY <1>6, <1>8, <2>1, <3>1
    <3>3. d = 0 /\ a = b
      BY <3>2
    <3>4. QED
      BY <1>7, <1>8, <2>1, <3>1, <3>3
  <2>2. CASE ~X
    <3>1. PICK a \in Nat, b \in Nat, d \in Nat :
             a = hs[t][n].shared /\ b = hs[t][n].chs /\ d = Cardinality(Delegates(t, n))
      BY <1>6
    <3>2. a >= b + d /\ a - 0 = 0
      BY <1>6, <1>8, <2>2, <3>1
    <3>3. a = 0 /\ b = 0 /\ d = 0
      BY <3>2
    <3>4. QED
      BY <1>7, <1>8, <2>2, <3>1, <3>3
  <2>3. QED
    BY <2>1, <2>2
<1>10. e \in Handles
  <2>1. SharedAtFree(t, n) = 0 /\ (IF X THEN 0 ELSE hs[t][n].chs) = 0
    BY <1>7, <1>8, <1>9
  <2>2. e = [hs[t][n] EXCEPT !.st = "freed", !.links = {}, !.shared = 0, !.chs = 0]
    <3>1. PICK z : z = SharedAtFree(t, n)
      OBVIOUS
    <3>2. e = [hs[t][n] EXCEPT !.st = "freed", !.links = {}, !.shared = z,
                               !.chs = IF X THEN 0 ELSE hs[t][n].chs]
      BY <1>1, <1>3, <3>1 DEF Handles
    <3>3. QED
      BY <2>1, <3>1, <3>2
  <2>3. QED
    BY <1>3, <2>2 DEF Handles
<1>11. \A u \in Tasks, k \in LocalNames : On(u, k, w) => u = t /\ k = n
  BY <1>1, <1>2, FreeSole
<1>12. Replaces(t, n, e)
  <2>1. e.con \notin {"frozen", "mutable"} /\ hs[t][n].st # "none"
    BY <1>3, <1>7 DEF Owns, Usable
  <2>2. e.shared >= e.chs + Cardinality(Delegates(t, n))
    BY <1>9
  <2>3. ~Usable(e)
    BY <1>7 DEF Usable
  <2>4. QED
    BY <1>1, <1>2, <1>3, <1>5, <1>7, <1>9, <1>10, <1>11, <2>1, <2>2, <2>3 DEF Replaces
<1>13. /\ hs' \in [Tasks -> [LocalNames -> Handles]] /\ hs'[t][n] = e
       /\ \A u \in Tasks, k \in LocalNames : ~(u = t /\ k = n) => hs'[u][k] = hs[u][k]
       /\ TaskInv' /\ HandleInv' /\ Counted' /\ Sources' /\ Chains' /\ Passed' /\ OneOwner'
       /\ \A x : \A u \in Tasks, k \in LocalNames : On(u, k, x)' => On(u, k, x)
       /\ \A u \in Tasks, k \in LocalNames : Owns(u, k)' => Owns(u, k)
       /\ \A x : SharedByChan(x) => SharedByChan(x)'
       /\ \A x : Nobody(x) => Nobody(x)'
  BY <1>12, ReplacesKeeps
<1>14. /\ real' \in [WorldIds -> [st : {"unused", "mutable", "frozen", "freed"},
                                  links : SUBSET WorldIds]]
       /\ real'[w].st = "freed" /\ real'[w].links = {}
       /\ \A v \in WorldIds : v # w => real'[v] = real[v]
  BY <1>4, <1>5 DEF ProtocolInv, ProtocolTypes
<1>15. /\ ch' \in [ghost : {"none", "never", "open", "closed"}, leak : BOOLEAN, expired : BOOLEAN,
                   closed : BOOLEAN]
       /\ ch'.ghost = ch.ghost /\ ch'.expired = (ch.expired \/ (hs[t][n].chs > 0 /\ X))
  BY <1>5 DEF ProtocolInv, ProtocolTypes
<1>16. ProtocolTypes' /\ ~refused'
  BY <1>5, <1>13, <1>14, <1>15 DEF ProtocolInv, ProtocolTypes
<1>17. GhostLinks'
  <2> SUFFICES ASSUME NEW u \in Tasks, NEW k \in LocalNames, NEW m \in LocalNames,
                      m \in hs'[u][k].links
               PROVE  LinkOk(u, k, m)'
    BY DEF GhostLinks
  <2>1. ~(u = t /\ k = n) /\ hs'[u][k] = hs[u][k]
    BY <1>7, <1>13
  <2>2. LinkOk(u, k, m)
    BY <2>1 DEF ProtocolInv, GhostLinks
  <2>3. hs'[u][m] = hs[u][m]
    <3>1. ~(u = t /\ m = n)
      BY <1>2, <2>1 DEF FreeOk, Linked
    <3>2. QED
      BY <1>13, <3>1
  <2>4. Usable(hs[u][k]) => real'[hs[u][k].w] = real[hs[u][k].w]
    BY <1>11, <1>14, <2>1, UsableRuns DEF On
  <2>5. QED
    BY <2>1, <2>2, <2>3, <2>4 DEF LinkOk, Owns, Usable
<1>18. Reality'
  <2>1. ASSUME NEW v \in WorldIds PROVE RealOk(v)'
    <3>1. CASE v = w
      BY <1>14, <3>1 DEF RealOk
    <3>2. CASE v # w
      <4>1. RealOk(v) /\ real'[v] = real[v]
        BY <1>14, <3>2 DEF ProtocolInv, Reality
      <4>2. ASSUME NEW x \in real[v].links
            PROVE  x # v /\ x # w /\ x \in WorldIds /\ real'[x].st \in {"mutable", "frozen"}
        BY <1>4, <1>14, <4>1, <4>2 DEF RealOk, ProtocolInv, ProtocolTypes
      <4>3. ASSUME NEW x \in real[v].links, NEW u \in Tasks, NEW m \in LocalNames, On(u, m, x)'
            PROVE  /\ hs'[u][m].con = "mutable" => tasks'[u].how = "call"
                   /\ Owns(u, m)' => \E k \in LocalNames : m \in hs'[u][k].links /\ hs'[u][k].w = v
        <5>1. On(u, m, x) /\ x # w /\ hs'[u][m] = hs[u][m]
          <6>1. On(u, m, x)
            BY <1>13, <4>3
          <6>2. x # w
            BY <4>2
          <6>3. ~(u = t /\ m = n)
            BY <1>1, <6>1, <6>2 DEF On
          <6>4. QED
            BY <1>13, <6>1, <6>2, <6>3
        <5>2. \A k \in LocalNames : hs[u][k].w = v => hs'[u][k] = hs[u][k]
          BY <1>1, <1>13, <3>2
        <5>3. QED
          BY <1>5, <1>13, <4>1, <4>3, <5>1, <5>2 DEF RealOk
      <4>4. QED
        BY <4>1, <4>2, <4>3 DEF RealOk
    <3>3. QED
      BY <3>1, <3>2
  <2>2. ASSUME NEW u \in Tasks, NEW k \in LocalNames, Usable(hs'[u][k])
        PROVE  real'[hs'[u][k].w].st = hs'[u][k].st
    <3>1. ~(u = t /\ k = n)
      BY <1>7, <1>13, <2>2 DEF Usable
    <3>2. hs'[u][k] = hs[u][k] /\ hs[u][k].w # w
      BY <1>11, <1>13, <2>2, <3>1 DEF On
    <3>3. QED
      BY <1>14, <2>2, <3>2, UsableRuns
  <2>3. QED
    BY <2>1, <2>2 DEF Reality
<1>19. Channel'
  <2>1. ~Nobody(w)
    BY <1>1, <1>3 DEF Nobody, On, Owns
  <2>2. SharedByChan(w) => ch'.expired
    BY <1>1, <1>3, <1>9, <1>15, SharesAre
  <2>3. ch.ghost \in {"none", "never"} => ~X
    BY DEF X, Expires
  <2>4. Quiet
    BY <1>5, <1>14, <1>15, <2>1, <2>2, <2>3 DEF Quiet, ProtocolInv, ProtocolTypes
  <2>5. \A u \in Tasks : ax[u] # "none" => Runs(u)' /\ (u = Main \/ tasks'[u].carrier)
    BY <1>5 DEF ProtocolInv, Channel, Runs
  <2>6. QED
    BY <1>13, <2>4, <2>5, QuietKeeps
<1>20. QED
  BY <1>13, <1>16, <1>17, <1>18, <1>19 DEF ProtocolInv

-----------------------------------------------------------------------------
(* Links.                                                                  *)

\* A mutable world of a body that does not wait gets other links.
Relinks(t, n, L, w) ==
    /\ hs[t][n].st = "mutable" /\ hs[t][n].con # "mutable" /\ w = hs[t][n].w
    /\ hs' = [hs EXCEPT ![t][n].links = L] /\ tasks' = tasks

(* Changing the links of a world keeps what the invariant says of          *)
(* handles.                                                                *)
LEMMA RelinkKeeps ==
    ASSUME ProtocolAssumption, ProtocolInv, NEW t \in Tasks, CanStep(t), NEW n \in LocalNames,
           NEW L \in SUBSET LocalNames, NEW w, Relinks(t, n, L, w)
    PROVE  /\ Owns(t, n) /\ hs[t][n].shared = 0 /\ w \in WorldIds
           /\ real[w].st = "mutable"
           /\ \A u \in Tasks, k \in LocalNames : On(u, k, w) => u = t /\ k = n
           /\ hs' \in [Tasks -> [LocalNames -> Handles]] /\ hs'[t][n].links = L
           /\ \A u \in Tasks, k \in LocalNames :
                 /\ hs'[u][k].st = hs[u][k].st /\ hs'[u][k].con = hs[u][k].con
                 /\ hs'[u][k].w = hs[u][k].w /\ hs'[u][k].shared = hs[u][k].shared
                 /\ ~(u = t /\ k = n) => hs'[u][k].links = hs[u][k].links
           /\ TaskInv' /\ HandleInv' /\ Counted' /\ Sources' /\ Chains' /\ Passed' /\ OneOwner'
           /\ \A v : SharedByChan(v) => SharedByChan(v)'
           /\ \A v : Nobody(v) => Nobody(v)'
           /\ \A u \in Tasks : ax[u] # "none" => Runs(u)' /\ (u = Main \/ tasks'[u].carrier)
<1>0. /\ hs[t][n].st = "mutable" /\ hs[t][n].con # "mutable" /\ w = hs[t][n].w
      /\ hs' = [hs EXCEPT ![t][n].links = L] /\ tasks' = tasks
  BY DEF Relinks
<1>1. PICK e : e = [hs[t][n] EXCEPT !.links = L]
  OBVIOUS
<1>2. hs' = [hs EXCEPT ![t][n] = e]
  BY <1>0, <1>1 DEF ProtocolInv, ProtocolTypes
<1>3. /\ hs[t][n] \in Handles /\ Runs(t) /\ w \in WorldIds /\ real[w].st = "mutable" /\ ~Waits(t)
      /\ ~Borrowed(hs[t][n]) /\ Usable(hs[t][n])
  BY <1>0, <1>1, UsableRuns DEF ProtocolInv, ProtocolTypes, CanStep
<1>4. /\ e \in Handles /\ e.st = "mutable" /\ e.con = hs[t][n].con /\ e.w = w
      /\ e.from = hs[t][n].from /\ e.shared = hs[t][n].shared /\ e.chs = hs[t][n].chs
      /\ e.links = L
  BY <1>0, <1>1, <1>3 DEF Handles
<1>5. Owns(t, n) /\ hs[t][n].shared = 0
  BY <1>0, <1>3 DEF Owns, Handles, Borrowed, Contracts, ProtocolInv, HandleInv, HandleOk
<1>6. \A u \in Tasks, k \in LocalNames : On(u, k, w) => u = t /\ k = n
  BY <1>0, <1>1, <1>3, <1>5, SoleWriter
<1>7. Replaces(t, n, e)
  <2>1. hs[t][n].shared >= hs[t][n].chs + Cardinality(Delegates(t, n))
    BY <1>5, SharesAre
  <2>2. t # Main => hs[t][n].chs = 0
    BY DEF ProtocolInv, HandleInv, HandleOk
  <2>3. e.shared >= hs[t][n].shared /\ e.shared + hs[t][n].chs >= hs[t][n].shared + e.chs
    BY <1>3, <1>4 DEF Handles
  <2>4. e.con # "frozen" /\ e.con # "mutable"
    BY <1>0, <1>3, <1>4 DEF Borrowed
  <2>5. QED
    BY <1>0, <1>1, <1>2, <1>3, <1>4, <1>5, <2>1, <2>2, <2>3, <2>4 DEF Replaces, Usable
<1>8. /\ hs' \in [Tasks -> [LocalNames -> Handles]] /\ hs'[t][n] = e
      /\ \A u \in Tasks, k \in LocalNames : ~(u = t /\ k = n) => hs'[u][k] = hs[u][k]
      /\ TaskInv' /\ HandleInv' /\ Counted' /\ Sources' /\ Chains' /\ Passed' /\ OneOwner'
      /\ \A x : \A u \in Tasks, k \in LocalNames : On(u, k, x)' => On(u, k, x)
      /\ \A u \in Tasks, k \in LocalNames : Owns(u, k)' => Owns(u, k)
      /\ \A x : SharedByChan(x) => SharedByChan(x)'
      /\ \A x : Nobody(x) => Nobody(x)'
  BY <1>7, ReplacesKeeps
<1>9. \A u \in Tasks, k \in LocalNames :
                 /\ hs'[u][k].st = hs[u][k].st /\ hs'[u][k].con = hs[u][k].con
                 /\ hs'[u][k].w = hs[u][k].w /\ hs'[u][k].shared = hs[u][k].shared
                 /\ ~(u = t /\ k = n) => hs'[u][k].links = hs[u][k].links
  BY <1>0, <1>1, <1>4, <1>8
<1>10. \A u \in Tasks : ax[u] # "none" => Runs(u)' /\ (u = Main \/ tasks'[u].carrier)
  <2>1. \A u \in Tasks : ax[u] # "none" => Runs(u) /\ (u = Main \/ tasks[u].carrier)
    BY DEF ProtocolInv, Channel
  <2>2. QED
    BY <1>0, <2>1 DEF Runs
<1>11. QED
  BY <1>0, <1>1, <1>3, <1>4, <1>5, <1>6, <1>8, <1>9, <1>10


(* Linking a world keeps the invariant: the target is owned by the body    *)
(* that links it.                                                          *)
LEMMA LinkStep ==
    ASSUME ProtocolAssumption, ProtocolInv, WorldHoles = {}, NEW t \in Tasks, CanStep(t),
           NEW n \in LocalNames, NEW m \in LocalNames, Link(t, n, m)
    PROVE  ProtocolInv'
<1>1. PICK w, x, L : w = hs[t][n].w /\ x = hs[t][m].w /\ L = hs[t][n].links \cup {m}
  OBVIOUS
<1>2. /\ hs[t][n].st = "mutable" /\ hs[t][n].con # "mutable" /\ Usable(hs[t][m]) /\ n # m
      /\ hs[t][m].con \notin {"frozen", "mutable"}
      /\ hs' = [hs EXCEPT ![t][n].links = L]
      /\ real' = [real EXCEPT ![w].links = @ \cup {x}]
      /\ UNCHANGED <<tasks, ax, ch, queue, refused>>
  <2>1. hs' = [hs EXCEPT ![t][n].links = L]
    BY <1>1 DEF Link, ProtocolInv, ProtocolTypes
  <2>2. QED
    BY <1>1, <2>1 DEF Link
<1>3. L \in SUBSET LocalNames /\ hs[t][m] \in Handles
  BY <1>1 DEF ProtocolInv, ProtocolTypes, Handles
<1>4. /\ Owns(t, n) /\ hs[t][n].shared = 0 /\ w \in WorldIds
      /\ real[w].st = "mutable"
      /\ \A u \in Tasks, k \in LocalNames : On(u, k, w) => u = t /\ k = n
      /\ hs' \in [Tasks -> [LocalNames -> Handles]] /\ hs'[t][n].links = L
      /\ \A u \in Tasks, k \in LocalNames :
                 /\ hs'[u][k].st = hs[u][k].st /\ hs'[u][k].con = hs[u][k].con
                 /\ hs'[u][k].w = hs[u][k].w /\ hs'[u][k].shared = hs[u][k].shared
                 /\ ~(u = t /\ k = n) => hs'[u][k].links = hs[u][k].links
      /\ TaskInv' /\ HandleInv' /\ Counted' /\ Sources' /\ Chains' /\ Passed' /\ OneOwner'
      /\ \A v : SharedByChan(v) => SharedByChan(v)'
      /\ \A v : Nobody(v) => Nobody(v)'
      /\ \A u \in Tasks : ax[u] # "none" => Runs(u)' /\ (u = Main \/ tasks'[u].carrier)
  <2>1. Relinks(t, n, L, w)
    BY <1>1, <1>2 DEF Relinks
  <2>2. QED
    BY <1>3, <2>1, RelinkKeeps
<1>5. Owns(t, m) /\ x \in WorldIds /\ x # w /\ real[x].st \in {"mutable", "frozen"} /\ On(t, m, x)
  <2>1. Owns(t, m)
    BY <1>2, <1>3 DEF Owns, Handles, Contracts
  <2>2. QED
    BY <1>1, <1>2, <1>4, <2>1, UsableRuns DEF Usable, On
<1>6. \A u \in Tasks, k \in LocalNames : On(u, k, x) => hs[u][k].con # "mutable"
  <2> SUFFICES ASSUME NEW u \in Tasks, NEW k \in LocalNames, On(u, k, x), hs[u][k].con = "mutable"
               PROVE  FALSE
    OBVIOUS
  <2>1. hs[u][k].st = "mutable" /\ hs[t][m].st = "mutable" /\ ~Waits(t)
    BY <1>1, <1>2, UsableRuns DEF On, CanStep
  <2>2. u = t /\ k = m
    BY <1>1, <1>5, <2>1, SoleWriter
  <2>3. QED
    BY <1>2, <2>2
<1>7. /\ real' \in [WorldIds -> [st : {"unused", "mutable", "frozen", "freed"},
                                 links : SUBSET WorldIds]]
      /\ real'[w].links = real[w].links \cup {x}
      /\ \A v \in WorldIds : real'[v].st = real[v].st /\ (v # w => real'[v] = real[v])
  BY <1>2, <1>4, <1>5 DEF ProtocolInv, ProtocolTypes
<1>8. ProtocolTypes' /\ ~refused'
  BY <1>2, <1>4, <1>7 DEF ProtocolInv, ProtocolTypes
<1>9. \A v \in WorldIds, y \in WorldIds : y \in real[v].links => y \in real'[v].links
  BY <1>7
<1>10. \A v : \A u \in Tasks, k \in LocalNames : On(u, k, v)' <=> On(u, k, v)
  BY <1>4 DEF On, Usable
<1>11. \A u \in Tasks, k \in LocalNames : Owns(u, k)' <=> Owns(u, k)
  BY <1>4 DEF Owns, Usable
<1>12. GhostLinks'
  <2> SUFFICES ASSUME NEW u \in Tasks, NEW k \in LocalNames, NEW j \in LocalNames,
                      j \in hs'[u][k].links
               PROVE  LinkOk(u, k, j)'
    BY DEF GhostLinks
  <2>1. CASE j \in hs[u][k].links
    <3>1. LinkOk(u, k, j)
      BY <2>1 DEF ProtocolInv, GhostLinks
    <3>2. Usable(hs[u][k]) => hs[u][j].w \in real'[hs[u][k].w].links
      <4> SUFFICES ASSUME Usable(hs[u][k]) PROVE hs[u][j].w \in real'[hs[u][k].w].links
        OBVIOUS
      <4>1. hs[u][j].w \in WorldIds /\ hs[u][k].w \in WorldIds /\ hs[u][j].w \in real[hs[u][k].w].links
        BY <3>1, UsableRuns DEF LinkOk, Owns
      <4>2. QED
        BY <1>9, <4>1
    <3>3. QED
      BY <1>4, <1>11, <3>1, <3>2 DEF LinkOk, Usable
  <2>2. CASE u = t /\ k = n /\ j = m
    <3>1. /\ hs'[t][n].st = "mutable" /\ hs'[t][n].con \in {"none", "owned"}
          /\ hs'[t][n].shared = 0 /\ hs'[t][n].w = w /\ hs'[t][m].w = x
      BY <1>1, <1>2, <1>4 DEF Owns
    <3>2. Owns(t, m)' /\ x \in real'[w].links
      BY <1>5, <1>7, <1>11
    <3>3. QED
      BY <1>2, <2>2, <3>1, <3>2 DEF LinkOk
  <2>3. QED
    BY <1>1, <1>4, <2>1, <2>2
<1>13. Reality'
  <2>1. ASSUME NEW v \in WorldIds PROVE RealOk(v)'
    <3>1. RealOk(v)
      BY DEF ProtocolInv, Reality
    <3>2. real'[v].links # {} => real'[v].st \in {"mutable", "frozen"}
      <4>1. CASE v = w
        BY <1>4, <1>7, <4>1
      <4>2. CASE v # w
        BY <1>7, <3>1, <4>2 DEF RealOk
      <4>3. QED
        BY <4>1, <4>2
    <3>3. ASSUME NEW y \in real'[v].links
          PROVE  /\ y # v /\ real'[y].st \in {"mutable", "frozen"}
                 /\ \A u \in Tasks, k \in LocalNames : On(u, k, y)' =>
                      /\ hs'[u][k].con = "mutable" => tasks'[u].how = "call"
                      /\ Owns(u, k)' => \E j \in LocalNames : k \in hs'[u][j].links /\ hs'[u][j].w = v
      <4>1. CASE y \in real[v].links
        <5>1. /\ y # v /\ y \in WorldIds /\ real[y].st \in {"mutable", "frozen"}
          BY <3>1, <4>1 DEF RealOk, ProtocolInv, ProtocolTypes
        <5>2. ASSUME NEW u \in Tasks, NEW k \in LocalNames, On(u, k, y)
              PROVE  /\ hs[u][k].con = "mutable" => tasks[u].how = "call"
                     /\ Owns(u, k) => \E j \in LocalNames : k \in hs[u][j].links /\ hs[u][j].w = v
          BY <3>1, <4>1, <5>2 DEF RealOk
        <5>3. \A u \in Tasks, j \in LocalNames : hs[u][j].links \subseteq hs'[u][j].links
          BY <1>1, <1>4
        <5>4. QED
          BY <1>2, <1>4, <1>7, <1>10, <1>11, <5>1, <5>2, <5>3
      <4>2. CASE v = w /\ y = x
        <5>1. ASSUME NEW u \in Tasks, NEW k \in LocalNames, On(u, k, x), Owns(u, k)
              PROVE  u = t /\ k = m
          BY <1>1, <1>5, <5>1 DEF ProtocolInv, OneOwner, On
        <5>2. m \in hs'[t][n].links /\ hs'[t][n].w = w
          BY <1>1, <1>4
        <5>3. QED
          BY <1>2, <1>4, <1>5, <1>6, <1>7, <1>10, <1>11, <4>2, <5>1, <5>2
      <4>3. QED
        BY <1>7, <3>3, <4>1, <4>2
    <3>4. QED
      BY <3>2, <3>3 DEF RealOk
  <2>2. ASSUME NEW u \in Tasks, NEW k \in LocalNames, Usable(hs'[u][k])
        PROVE  real'[hs'[u][k].w].st = hs'[u][k].st
    BY <1>4, <1>7, <2>2, UsableRuns, SMTT(30) DEF Usable
  <2>3. QED
    BY <2>1, <2>2 DEF Reality
<1>14. Channel'
  <2>1. ~Nobody(x)
    BY <1>5 DEF Nobody
  <2>2. Quiet
    BY <1>2, <1>7, <2>1 DEF Quiet
  <2>3. QED
    BY <1>4, <2>2, QuietKeeps
<1>15. QED
  BY <1>4, <1>8, <1>12, <1>13, <1>14 DEF ProtocolInv

(* Unlinking a world keeps the invariant: the handle and the world lose    *)
(* the same link.                                                          *)
LEMMA UnlinkStep ==
    ASSUME ProtocolAssumption, ProtocolInv, NEW t \in Tasks, CanStep(t),
           NEW n \in LocalNames, NEW m \in LocalNames, Unlink(t, n, m)
    PROVE  ProtocolInv'
<1>1. PICK w, x, L : w = hs[t][n].w /\ x = hs[t][m].w /\ L = hs[t][n].links \ {m}
  OBVIOUS
<1>2. /\ hs[t][n].st = "mutable" /\ hs[t][n].con # "mutable" /\ m \in hs[t][n].links
      /\ hs' = [hs EXCEPT ![t][n].links = L]
      /\ real' = [real EXCEPT ![w].links = @ \ {x}]
      /\ UNCHANGED <<tasks, ax, ch, queue, refused>>
  <2>1. hs' = [hs EXCEPT ![t][n].links = L]
    BY <1>1 DEF Unlink, ProtocolInv, ProtocolTypes
  <2>2. QED
    BY <1>1, <2>1 DEF Unlink
<1>3. L \in SUBSET LocalNames
  BY <1>1 DEF ProtocolInv, ProtocolTypes, Handles
<1>4. /\ Owns(t, n) /\ hs[t][n].shared = 0 /\ w \in WorldIds
      /\ real[w].st = "mutable"
      /\ \A u \in Tasks, k \in LocalNames : On(u, k, w) => u = t /\ k = n
      /\ hs' \in [Tasks -> [LocalNames -> Handles]] /\ hs'[t][n].links = L
      /\ \A u \in Tasks, k \in LocalNames :
                 /\ hs'[u][k].st = hs[u][k].st /\ hs'[u][k].con = hs[u][k].con
                 /\ hs'[u][k].w = hs[u][k].w /\ hs'[u][k].shared = hs[u][k].shared
                 /\ ~(u = t /\ k = n) => hs'[u][k].links = hs[u][k].links
      /\ TaskInv' /\ HandleInv' /\ Counted' /\ Sources' /\ Chains' /\ Passed' /\ OneOwner'
      /\ \A v : SharedByChan(v) => SharedByChan(v)'
      /\ \A v : Nobody(v) => Nobody(v)'
      /\ \A u \in Tasks : ax[u] # "none" => Runs(u)' /\ (u = Main \/ tasks'[u].carrier)
  <2>1. Relinks(t, n, L, w)
    BY <1>1, <1>2 DEF Relinks
  <2>2. QED
    BY <1>3, <2>1, RelinkKeeps
<1>5. /\ real' \in [WorldIds -> [st : {"unused", "mutable", "frozen", "freed"},
                                 links : SUBSET WorldIds]]
      /\ real'[w].links = real[w].links \ {x}
      /\ \A v \in WorldIds : real'[v].st = real[v].st /\ (v # w => real'[v] = real[v])
  BY <1>2, <1>4 DEF ProtocolInv, ProtocolTypes
<1>6. ProtocolTypes' /\ ~refused'
  BY <1>2, <1>4, <1>5 DEF ProtocolInv, ProtocolTypes
<1>7. Owns(t, m)
  BY <1>2 DEF ProtocolInv, GhostLinks, LinkOk
<1>8. \A v : \A u \in Tasks, k \in LocalNames : On(u, k, v)' <=> On(u, k, v)
  BY <1>4 DEF On, Usable
<1>9. \A u \in Tasks, k \in LocalNames : Owns(u, k)' <=> Owns(u, k)
  BY <1>4 DEF Owns, Usable
<1>10. GhostLinks'
  <2> SUFFICES ASSUME NEW u \in Tasks, NEW k \in LocalNames, NEW j \in LocalNames,
                      j \in hs'[u][k].links
               PROVE  LinkOk(u, k, j)'
    BY DEF GhostLinks
  <2>1. LinkOk(u, k, j)
    BY <1>1, <1>4 DEF ProtocolInv, GhostLinks
  <2>2. Usable(hs[u][k]) => hs[u][j].w \in real'[hs[u][k].w].links
    <3> SUFFICES ASSUME Usable(hs[u][k]) PROVE hs[u][j].w \in real'[hs[u][k].w].links
      OBVIOUS
    <3>1. CASE u = t /\ k = n
      <4>1. j # m /\ Owns(t, j) /\ hs[t][j].w \in real[w].links
        BY <1>1, <1>4, <2>1, <3>1 DEF LinkOk
      <4>2. hs[t][j].w # x
        BY <1>1, <1>7, <4>1 DEF ProtocolInv, OneOwner
      <4>3. QED
        BY <1>1, <1>5, <3>1, <4>1, <4>2
    <3>2. CASE ~(u = t /\ k = n)
      BY <1>4, <1>5, <2>1, <3>2, UsableRuns DEF LinkOk, On
    <3>3. QED
      BY <3>1, <3>2
  <2>3. QED
    BY <1>4, <1>9, <2>1, <2>2 DEF LinkOk, Usable
<1>11. Reality'
  <2>1. ASSUME NEW v \in WorldIds PROVE RealOk(v)'
    <3>1. RealOk(v)
      BY DEF ProtocolInv, Reality
    <3>2. real'[v].links # {} => real'[v].st \in {"mutable", "frozen"}
      <4>1. real'[v].links \subseteq real[v].links /\ real'[v].st = real[v].st
        BY <1>5
      <4>2. QED
        BY <3>1, <4>1 DEF RealOk
    <3>3. ASSUME NEW y \in real'[v].links
          PROVE  /\ y # v /\ real'[y].st \in {"mutable", "frozen"}
                 /\ \A u \in Tasks, k \in LocalNames : On(u, k, y)' =>
                      /\ hs'[u][k].con = "mutable" => tasks'[u].how = "call"
                      /\ Owns(u, k)' => \E j \in LocalNames : k \in hs'[u][j].links /\ hs'[u][j].w = v
      <4>1. y \in real[v].links /\ (v = w => y # x)
        BY <1>5, <3>3
      <4>2. /\ y # v /\ y \in WorldIds /\ real[y].st \in {"mutable", "frozen"}
        BY <3>1, <4>1 DEF RealOk, ProtocolInv, ProtocolTypes
      <4>3. ASSUME NEW u \in Tasks, NEW k \in LocalNames, On(u, k, y)
            PROVE  /\ hs[u][k].con = "mutable" => tasks[u].how = "call"
                   /\ Owns(u, k) => \E j \in LocalNames : k \in hs'[u][j].links /\ hs'[u][j].w = v
        <5>1. /\ hs[u][k].con = "mutable" => tasks[u].how = "call"
              /\ Owns(u, k) => \E j \in LocalNames : k \in hs[u][j].links /\ hs[u][j].w = v
          BY <3>1, <4>1, <4>3 DEF RealOk
        <5>2. ASSUME NEW j \in LocalNames, k \in hs[u][j].links, hs[u][j].w = v
              PROVE  k \in hs'[u][j].links /\ hs'[u][j].w = v
          <6>1. CASE u = t /\ j = n
            BY <1>1, <1>4, <4>1, <4>3, <5>2, <6>1 DEF On
          <6>2. CASE ~(u = t /\ j = n)
            BY <1>4, <5>2, <6>2
          <6>3. QED
            BY <6>1, <6>2
        <5>3. QED
          BY <5>1, <5>2
      <4>4. QED
        BY <1>2, <1>4, <1>5, <1>8, <1>9, <4>2, <4>3
    <3>4. QED
      BY <3>2, <3>3 DEF RealOk
  <2>2. ASSUME NEW u \in Tasks, NEW k \in LocalNames, Usable(hs'[u][k])
        PROVE  real'[hs'[u][k].w].st = hs'[u][k].st
    BY <1>4, <1>5, <2>2, UsableRuns, SMTT(30) DEF Usable
  <2>3. QED
    BY <2>1, <2>2 DEF Reality
<1>12. Channel'
  <2>1. Quiet
    BY <1>2, <1>5 DEF Quiet
  <2>2. QED
    BY <1>4, <2>1, QuietKeeps
<1>13. QED
  BY <1>4, <1>6, <1>10, <1>11, <1>12 DEF ProtocolInv


-----------------------------------------------------------------------------
(* Joining a task.                                                         *)

(* Joining a task keeps the invariant: the task has ended, and one share   *)
(* and one delegate are gone.                                              *)
LEMMA JoinStep ==
    ASSUME ProtocolAssumption, ProtocolInv, NEW t \in Tasks, CanStep(t), NEW c \in Tasks, Join(t, c)
    PROVE  ProtocolInv'
<1>1. PICK n : n = tasks[c].world
  OBVIOUS
<1>2. /\ tasks[c].by = t /\ tasks[c].how = "go" /\ tasks[c].handle = "open" /\ tasks[c].st = "done"
      /\ tasks' = [tasks EXCEPT ![c].handle = "joined"]
      /\ hs' = IF n # 0 /\ hs[t][n].shared > 0 THEN [hs EXCEPT ![t][n].shared = @ - 1] ELSE hs
      /\ UNCHANGED <<ax, ch, queue, real, refused>>
  BY <1>1 DEF Join
<1>3. /\ tasks \in [Tasks -> Starts] /\ hs \in [Tasks -> [LocalNames -> Handles]]
      /\ \A d \in Tasks : TaskOk(d)
      /\ Runs(t)
  BY DEF ProtocolInv, ProtocolTypes, TaskInv, CanStep, Runs
<1>4. /\ tasks' \in [Tasks -> Starts] /\ tasks'[c].handle = "joined"
      /\ \A d \in Tasks : /\ tasks'[d].st = tasks[d].st /\ tasks'[d].by = tasks[d].by
                          /\ tasks'[d].how = tasks[d].how /\ tasks'[d].world = tasks[d].world
                          /\ tasks'[d].carrier = tasks[d].carrier /\ tasks'[d].out = tasks[d].out
                          /\ d # c => tasks'[d].handle = tasks[d].handle
  BY <1>2, <1>3 DEF Starts
<1>5. \A d, u \in Tasks : (Runs(d)' <=> Runs(d)) /\ (CallOf(d, u)' <=> CallOf(d, u))
  BY <1>4 DEF Runs, CallOf
<1>6. \A u \in Tasks, k \in LocalNames :
         Delegates(u, k)' = IF u = t /\ k = n THEN Delegates(u, k) \ {c} ELSE Delegates(u, k)
  BY <1>1, <1>2, <1>4 DEF Delegates
<1>7. ASSUME n \in LocalNames
      PROVE  /\ hs[t][n].shared \in Nat \ {0} /\ hs[t][n].chs \in Nat
             /\ Cardinality(Delegates(t, n)) \in Nat \ {0}
             /\ Cardinality(Delegates(t, n)') = Cardinality(Delegates(t, n)) - 1
             /\ hs[t][n].shared >= hs[t][n].chs + Cardinality(Delegates(t, n))
             /\ hs[t][n].st \notin {"none", "mutable"}
  <2>1. c \in Delegates(t, n) /\ IsFiniteSet(Delegates(t, n))
    <3>1. c \in Delegates(t, n)
      BY <1>1, <1>2 DEF Delegates
    <3>2. IsFiniteSet(Delegates(t, n))
      BY DelegatesFinite
    <3>3. QED
      BY <3>1, <3>2
  <2>2. Cardinality(Delegates(t, n)) \in Nat /\ Cardinality(Delegates(t, n)) # 0
    BY <2>1, FS_EmptySet, FS_CardinalityType
  <2>3. Cardinality(Delegates(t, n) \ {c}) = Cardinality(Delegates(t, n)) - 1
    BY <2>1, FS_RemoveElement
  <2>4. hs[t][n].shared >= hs[t][n].chs + Cardinality(Delegates(t, n))
    BY <1>3, <1>7 DEF ProtocolInv, Counted
  <2>5. hs[t][n] \in Handles /\ HandleOk(t, n)
    BY <1>3, <1>7 DEF ProtocolInv, HandleInv
  <2>6. hs[t][n].shared \in Nat /\ hs[t][n].chs \in Nat
    BY <2>5 DEF Handles
  <2>7. PICK x \in Nat, y \in Nat, d \in Nat :
           x = hs[t][n].shared /\ y = hs[t][n].chs /\ d = Cardinality(Delegates(t, n))
    BY <2>2, <2>6
  <2>8. x # 0
    <3>1. x >= y + d /\ d # 0
      BY <2>2, <2>4, <2>7
    <3>2. QED
      BY <3>1
  <2>9. hs[t][n].st \notin {"none", "mutable"}
    BY <2>5, <2>7, <2>8 DEF HandleOk, NoHandle
  <2>10. QED
    BY <1>6, <1>7, <2>2, <2>3, <2>4, <2>6, <2>7, <2>8, <2>9
<1>8. \A u \in Tasks, k \in LocalNames :
         /\ hs'[u][k].st = hs[u][k].st /\ hs'[u][k].con = hs[u][k].con /\ hs'[u][k].chs = hs[u][k].chs
         /\ hs'[u][k].links = hs[u][k].links /\ hs'[u][k].from = hs[u][k].from
         /\ hs'[u][k].w = hs[u][k].w
         /\ u = t /\ k = n => hs'[u][k].shared = hs[u][k].shared - 1
         /\ ~(u = t /\ k = n) => hs'[u][k] = hs[u][k]
  <2>1. CASE n \in LocalNames
    <3>1. hs' = [hs EXCEPT ![t][n].shared = @ - 1]
      BY <1>2, <1>7, <2>1 DEF ProtocolAssumption
    <3>2. PICK e : e = [hs[t][n] EXCEPT !.shared = @ - 1]
      OBVIOUS
    <3>3. /\ e.st = hs[t][n].st /\ e.con = hs[t][n].con /\ e.chs = hs[t][n].chs
          /\ e.links = hs[t][n].links /\ e.from = hs[t][n].from /\ e.w = hs[t][n].w
          /\ e.shared = hs[t][n].shared - 1
      <4>1. hs[t][n] \in Handles
        BY <1>3, <2>1
      <4>2. QED
        BY <3>2, <4>1 DEF Handles
    <3>4. hs' = [hs EXCEPT ![t][n] = e]
      BY <1>3, <3>1, <3>2
    <3>5. hs'[t][n] = e /\ \A u \in Tasks, k \in LocalNames : ~(u = t /\ k = n) => hs'[u][k] = hs[u][k]
      BY <1>3, <2>1, <3>4
    <3>6. QED
      BY <3>3, <3>5
  <2>2. CASE n \notin LocalNames
    <3>1. n = 0
      BY <1>1, <1>3, <2>2 DEF Starts
    <3>2. hs' = hs
      BY <1>2, <3>1
    <3>3. QED
      BY <2>2, <3>2
  <2>3. QED
    BY <2>1, <2>2
<1>9. hs' \in [Tasks -> [LocalNames -> Handles]]
  <2>1. CASE n \in LocalNames
    <3>1. PICK e : e = [hs[t][n] EXCEPT !.shared = @ - 1]
      OBVIOUS
    <3>2. PICK y \in Nat : y = hs[t][n].shared - 1
      BY <1>7, <2>1
    <3>3. e \in Handles
      <4>1. hs[t][n] \in Handles /\ e = [hs[t][n] EXCEPT !.shared = y]
        BY <1>3, <2>1, <3>1, <3>2
      <4>2. QED
        BY <4>1 DEF Handles
    <3>4. hs' = [hs EXCEPT ![t][n] = e]
      BY <1>2, <1>3, <1>7, <2>1, <3>1 DEF ProtocolAssumption
    <3>5. QED
      BY <1>3, <2>1, <3>3, <3>4
  <2>2. CASE n \notin LocalNames
    BY <1>1, <1>2, <1>3, <2>2 DEF Starts
  <2>3. QED
    BY <2>1, <2>2
<1>10. ProtocolTypes' /\ ~refused'
  BY <1>2, <1>4, <1>9 DEF ProtocolInv, ProtocolTypes
<1>11. TaskInv'
  <2>1. ASSUME NEW d \in Tasks PROVE TaskOk(d)'
    <3>1. TaskOk(d) /\ tasks[d].by \in Tasks \cup {0}
      BY <1>3 DEF Starts
    <3>2. tasks'[d].handle = "joined" => tasks'[d].st = "done"
      BY <1>2, <1>4, <3>1 DEF TaskOk
    <3>3. CASE tasks[d].by \in Tasks
      BY <1>4, <3>1, <3>2, <3>3 DEF TaskOk, Runs
    <3>4. CASE tasks[d].by \notin Tasks
      BY <1>4, <3>1, <3>2, <3>4 DEF TaskOk, Runs
    <3>5. QED
      BY <3>3, <3>4
  <2>2. Runs(Main)' /\ tasks'[Main].by = 0
    BY <1>4, <1>5 DEF ProtocolInv, TaskInv, ProtocolAssumption
  <2>3. QED
    BY <1>4, <1>5, <2>1, <2>2 DEF ProtocolInv, TaskInv
<1>12. ASSUME NEW u \in Tasks, NEW k \in LocalNames
       PROVE  /\ hs[u][k].shared >= hs[u][k].chs + Cardinality(Delegates(u, k)) =>
                    hs'[u][k].shared >= hs'[u][k].chs + Cardinality(Delegates(u, k)')
              /\ hs[u][k].shared > hs[u][k].chs + Cardinality(Delegates(u, k)) =>
                    hs'[u][k].shared > hs'[u][k].chs + Cardinality(Delegates(u, k)')
              /\ hs[u][k].shared > Cardinality(Delegates(u, k)) =>
                    hs'[u][k].shared > Cardinality(Delegates(u, k)')
              /\ hs'[u][k].shared > 0 => hs[u][k].shared > 0
              /\ hs[u][k].shared = 0 => hs'[u][k].shared = 0
  <2>1. CASE u = t /\ k = n
    <3>1. PICK x \in Nat \ {0}, y \in Nat, d \in Nat \ {0} :
             x = hs[t][n].shared /\ y = hs[t][n].chs /\ d = Cardinality(Delegates(t, n))
      BY <1>7, <2>1
    <3>2. Cardinality(Delegates(t, n)') = d - 1 /\ hs'[t][n].shared = x - 1 /\ hs'[t][n].chs = y
      BY <1>7, <1>8, <2>1, <3>1
    <3>3. /\ x >= y + d => x - 1 >= y + (d - 1)
          /\ x > y + d => x - 1 > y + (d - 1)
          /\ x > d => x - 1 > d - 1
          /\ x > 0 /\ x # 0
      OBVIOUS
    <3>4. QED
      BY <2>1, <3>1, <3>2, <3>3
  <2>2. CASE ~(u = t /\ k = n)
    <3>1. hs'[u][k] = hs[u][k] /\ Delegates(u, k)' = Delegates(u, k)
      BY <1>6, <1>8, <2>2
    <3>2. QED
      BY <3>1
  <2>3. QED
    BY <2>1, <2>2
<1>13. HandleInv'
  <2> SUFFICES ASSUME NEW u \in Tasks, NEW k \in LocalNames PROVE HandleOk(u, k)'
    BY DEF HandleInv
  <2>1. HandleOk(u, k)
    BY DEF ProtocolInv, HandleInv
  <2>2. CASE u = t /\ k = n
    BY <1>3, <1>4, <1>5, <1>7, <1>8, <2>1, <2>2 DEF HandleOk, Borrowed
  <2>3. CASE ~(u = t /\ k = n)
    BY <1>4, <1>5, <1>8, <2>1, <2>3 DEF HandleOk
  <2>4. QED
    BY <2>2, <2>3
<1>14. Counted'
  BY <1>5, <1>12 DEF ProtocolInv, Counted
<1>15. Keeps(t, 1)
  <2>1. \A u \in Tasks : /\ tasks'[u].st = tasks[u].st /\ tasks'[u].by = tasks[u].by
                         /\ tasks'[u].how = tasks[u].how /\ tasks'[u].world = tasks[u].world
    BY <1>4
  <2>2. \A u \in Tasks, k \in LocalNames :
          /\ hs'[u][k].con = hs[u][k].con /\ hs'[u][k].w = hs[u][k].w
          /\ hs'[u][k].from = hs[u][k].from
          /\ hs'[u][k].st = "mutable" => hs[u][k].st = "mutable"
          /\ Usable(hs'[u][k]) <=> Usable(hs[u][k])
    BY <1>8 DEF Usable
  <2>3. QED
    BY <1>12, <2>1, <2>2 DEF Keeps
<1>16. 1 \in LocalNames
  BY DEF ProtocolAssumption
<1>17. /\ Sources' /\ Chains' /\ Passed' /\ OneOwner'
       /\ \A w : \A u \in Tasks, k \in LocalNames : On(u, k, w)' => On(u, k, w)
       /\ \A u \in Tasks, k \in LocalNames : Owns(u, k)' => Owns(u, k)
       /\ \A w : SharedByChan(w) => SharedByChan(w)'
       /\ \A w : Nobody(w) => Nobody(w)'
  BY <1>15, <1>16, KeepsHolders
<1>18. GhostLinks'
  <2> SUFFICES ASSUME NEW u \in Tasks, NEW k \in LocalNames, NEW m \in LocalNames,
                      m \in hs[u][k].links
               PROVE  LinkOk(u, k, m)'
    BY <1>8 DEF GhostLinks
  <2>1. LinkOk(u, k, m)
    BY DEF ProtocolInv, GhostLinks
  <2>2. hs'[u][k].shared > 0 => hs[u][k].shared > 0
    BY <1>12
  <2>3. /\ hs'[u][k].st = hs[u][k].st /\ hs'[u][k].con = hs[u][k].con /\ hs'[u][k].w = hs[u][k].w
        /\ hs'[u][m].st = hs[u][m].st /\ hs'[u][m].con = hs[u][m].con /\ hs'[u][m].w = hs[u][m].w
    BY <1>8
  <2>4. real' = real
    BY <1>2
  <2>5. QED
    BY <2>1, <2>2, <2>3, <2>4 DEF LinkOk, Owns, Usable
<1>19. Reality'
  <2>1. ASSUME NEW v \in WorldIds PROVE RealOk(v)'
    <3>1. RealOk(v)
      BY DEF ProtocolInv, Reality
    <3>2. ASSUME NEW x \in real[v].links, NEW u \in Tasks, NEW m \in LocalNames, On(u, m, x)'
          PROVE  /\ hs'[u][m].con = "mutable" => tasks'[u].how = "call"
                 /\ Owns(u, m)' => \E k \in LocalNames : m \in hs'[u][k].links /\ hs'[u][k].w = v
      <4>1. On(u, m, x) /\ (Owns(u, m)' => Owns(u, m))
        BY <1>17, <3>2
      <4>2. QED
        BY <1>4, <1>8, <3>1, <4>1 DEF RealOk
    <3>3. QED
      BY <1>2, <3>1, <3>2 DEF RealOk
  <2>2. QED
    BY <1>2, <1>8, <2>1 DEF ProtocolInv, Reality, Usable
<1>20. Channel'
  <2>1. Quiet
    BY <1>2 DEF Quiet
  <2>2. \A u \in Tasks : ax[u] # "none" => Runs(u)' /\ (u = Main \/ tasks'[u].carrier)
    BY <1>4, <1>5 DEF ProtocolInv, Channel
  <2>3. QED
    BY <1>17, <2>1, <2>2, QuietKeeps
<1>21. QED
  BY <1>10, <1>11, <1>13, <1>14, <1>17, <1>18, <1>19, <1>20 DEF ProtocolInv


-----------------------------------------------------------------------------
(* Worlds over the channel.                                                *)

(* Sending a world keeps the invariant: it satisfies the axiom, or nobody  *)
(* goes on believing the axiom.                                            *)
LEMMA SendWorldStep ==
    ASSUME ProtocolAssumption, ProtocolInv, WorldHoles = {}, NEW t \in Tasks, CanStep(t),
           NEW n \in LocalNames, SendWorld(t, n)
    PROVE  ProtocolInv'
<1>1. PICK w, e : w = hs[t][n].w /\ e = HandedOff(hs[t][n], t = Main)
  OBVIOUS
<1>2. /\ HasChan(t) /\ HandoffOk(t, n, FALSE, FALSE) /\ TargetsQuiet(t, n) /\ ~Waits(t) /\ Runs(t)
      /\ ax[t] # "none" /\ ~AxiomHolds(t, n, ax[t]) => \A u \in Tasks \ {t} : ax[u] = "none"
      /\ ax' = [ax EXCEPT ![t] = IF AxiomHolds(t, n, @) THEN @ ELSE "none"]
      /\ hs' = [hs EXCEPT ![t][n] = e]
      /\ queue' = IF ch.closed THEN queue ELSE Append(queue, w)
      /\ UNCHANGED <<tasks, ch, real, refused>>
  <2>1. hs' = [hs EXCEPT ![t][n] = e]
    BY <1>1 DEF SendWorld, ProtocolInv, ProtocolTypes
  <2>2. QED
    BY <1>1, <2>1 DEF SendWorld, CanStep, Runs
<1>3. /\ Owns(t, n) /\ hs[t][n] \in Handles /\ ~Linked(t, n) /\ w \in WorldIds
      /\ real[w].st = hs[t][n].st /\ On(t, n, w) /\ HandleOk(t, n)
  <2>1. hs[t][n] \in Handles /\ HandleOk(t, n)
    BY DEF ProtocolInv, ProtocolTypes, HandleInv
  <2>2. Usable(hs[t][n]) /\ ~Linked(t, n) /\ hs[t][n].con \notin {"frozen", "mutable"}
    BY <1>2 DEF HandoffOk, Borrowed
  <2>3. QED
    BY <1>1, <2>1, <2>2, UsableRuns DEF Owns, Handles, Contracts, On
<1>4. PICK a \in Nat, b \in Nat, d \in Nat :
           /\ a = hs[t][n].shared /\ b = hs[t][n].chs /\ d = Cardinality(Delegates(t, n))
           /\ a >= b + d
  BY <1>3, SharesAre
<1>5. hs[t][n].st = "mutable" => a = 0 /\ \A u \in Tasks, k \in LocalNames : On(u, k, w) => u = t /\ k = n
  BY <1>1, <1>2, <1>3, <1>4, SoleWriter DEF HandleOk
<1>6. /\ e \in Handles /\ e.con = hs[t][n].con /\ e.w = w /\ e.from = hs[t][n].from
      /\ e.links = hs[t][n].links
      /\ hs[t][n].st = "frozen" => e.st = "frozen" /\ e.shared = a + 1
                                   /\ e.chs = IF t = Main THEN b + 1 ELSE b
      /\ hs[t][n].st = "mutable" => e.st = "moved" /\ e.shared = a /\ e.chs = b
  <2>1. CASE hs[t][n].st = "frozen"
    <3>1. PICK x \in Nat, y \in Nat : x = a + 1 /\ y = IF t = Main THEN b + 1 ELSE b
      OBVIOUS
    <3>2. e = [hs[t][n] EXCEPT !.shared = x, !.chs = y]
      BY <1>1, <1>3, <1>4, <2>1, <3>1 DEF HandedOff, Handles
    <3>3. QED
      BY <1>1, <1>3, <2>1, <3>1, <3>2 DEF Handles
  <2>2. CASE hs[t][n].st = "mutable"
    <3>1. e = [hs[t][n] EXCEPT !.st = "moved"]
      BY <1>1, <2>2 DEF HandedOff
    <3>2. QED
      BY <1>1, <1>3, <1>4, <2>2, <3>1 DEF Handles
  <2>3. QED
    BY <1>3, <2>1, <2>2 DEF Owns, Usable
<1>7. Replaces(t, n, e)
  <2>1. e.con \notin {"frozen", "mutable"} /\ hs[t][n].st # "none" /\ Usable(hs[t][n])
    BY <1>3, <1>6 DEF Owns, Usable
  <2>2. t # Main => b = 0
    BY <1>3, <1>4 DEF HandleOk
  <2>3. CASE hs[t][n].st = "frozen"
    <3>1. PICK y \in Nat : y = e.chs /\ (y = b + 1 \/ y = b) /\ (t # Main => y = 0)
      BY <1>6, <2>2, <2>3
    <3>2. /\ a + 1 >= y + d /\ a + 1 >= a /\ (a + 1) + b >= a + y
      BY <1>4, <3>1
    <3>3. e.shared >= e.chs + Cardinality(Delegates(t, n))
          /\ e.shared >= hs[t][n].shared /\ e.shared + hs[t][n].chs >= hs[t][n].shared + e.chs
      BY <1>4, <1>6, <2>3, <3>1, <3>2
    <3>4. QED
      BY <1>1, <1>2, <1>6, <2>1, <2>3, <3>1, <3>3 DEF Replaces, Usable
  <2>4. CASE hs[t][n].st = "mutable"
    <3>1. e.shared >= e.chs + Cardinality(Delegates(t, n)) /\ (t # Main => e.chs = 0)
      BY <1>4, <1>6, <2>2, <2>4
    <3>2. QED
      BY <1>1, <1>2, <1>3, <1>5, <1>6, <2>1, <2>4, <3>1 DEF Replaces, Usable
  <2>5. QED
    BY <2>1, <2>3, <2>4 DEF Usable
<1>8. /\ hs' \in [Tasks -> [LocalNames -> Handles]] /\ hs'[t][n] = e
      /\ \A u \in Tasks, k \in LocalNames : ~(u = t /\ k = n) => hs'[u][k] = hs[u][k]
      /\ TaskInv' /\ HandleInv' /\ Counted' /\ Sources' /\ Chains' /\ Passed' /\ OneOwner'
      /\ \A x : \A u \in Tasks, k \in LocalNames : On(u, k, x)' => On(u, k, x)
      /\ \A u \in Tasks, k \in LocalNames : Owns(u, k)' => Owns(u, k)
      /\ \A x : SharedByChan(x) => SharedByChan(x)'
      /\ \A x : Nobody(x) => Nobody(x)'
  BY <1>7, ReplacesKeeps
<1>9. /\ ax' \in [Tasks -> {"none", "frozen", "owned"}]
      /\ ax'[t] = IF AxiomHolds(t, n, ax[t]) THEN ax[t] ELSE "none"
      /\ \A u \in Tasks : u # t => ax'[u] = ax[u]
  BY <1>2 DEF ProtocolInv, ProtocolTypes
<1>10. queue \in Seq(WorldIds) /\ queue' \in Seq(WorldIds)
  <2>1. queue \in Seq(WorldIds) /\ Append(queue, w) \in Seq(WorldIds)
    BY <1>3 DEF ProtocolInv, ProtocolTypes
  <2>2. QED
    BY <1>2, <2>1
<1>11. ProtocolTypes' /\ ~refused'
  BY <1>2, <1>8, <1>9, <1>10 DEF ProtocolInv, ProtocolTypes
<1>12. GhostLinks'
  <2> SUFFICES ASSUME NEW u \in Tasks, NEW k \in LocalNames, NEW m \in LocalNames,
                      m \in hs'[u][k].links
               PROVE  LinkOk(u, k, m)'
    BY DEF GhostLinks
  <2>1. m \in hs[u][k].links
    BY <1>6, <1>8
  <2>2. LinkOk(u, k, m)
    BY <2>1 DEF ProtocolInv, GhostLinks
  <2>3. hs'[u][m] = hs[u][m]
    BY <1>3, <1>8, <2>1 DEF Linked
  <2>4. CASE u = t /\ k = n
    <3>1. hs[t][m].st = "frozen"
      BY <1>2, <1>3, <2>1, <2>4, QuietIs DEF Owns
    <3>2. e.st \in {"frozen", "moved"} /\ Usable(hs[t][n])
      BY <1>3, <1>6 DEF Owns, Usable
    <3>3. QED
      BY <1>1, <1>2, <1>6, <1>8, <2>2, <2>3, <2>4, <3>1, <3>2 DEF LinkOk, Owns
  <2>5. CASE ~(u = t /\ k = n)
    BY <1>2, <1>8, <2>2, <2>3, <2>5 DEF LinkOk, Owns
  <2>6. QED
    BY <2>4, <2>5
<1>13. Reality'
  <2>1. ASSUME NEW v \in WorldIds PROVE RealOk(v)'
    <3>1. RealOk(v)
      BY DEF ProtocolInv, Reality
    <3>2. \A u \in Tasks, k \in LocalNames :
             hs'[u][k].links = hs[u][k].links /\ hs'[u][k].w = hs[u][k].w /\ hs'[u][k].con = hs[u][k].con
      BY <1>1, <1>6, <1>8
    <3>3. ASSUME NEW x \in real[v].links, NEW u \in Tasks, NEW m \in LocalNames, On(u, m, x)'
          PROVE  /\ hs'[u][m].con = "mutable" => tasks'[u].how = "call"
                 /\ Owns(u, m)' => \E k \in LocalNames : m \in hs'[u][k].links /\ hs'[u][k].w = v
      <4>1. On(u, m, x) /\ (Owns(u, m)' => Owns(u, m))
        BY <1>8, <3>3
      <4>2. QED
        BY <1>2, <3>1, <3>2, <4>1 DEF RealOk
    <3>4. QED
      BY <1>2, <3>1, <3>3 DEF RealOk
  <2>2. ASSUME NEW u \in Tasks, NEW k \in LocalNames, Usable(hs'[u][k])
        PROVE  real[hs'[u][k].w].st = hs'[u][k].st
    <3>1. CASE u = t /\ k = n
      <4>1. e.st = "frozen" /\ hs[t][n].st = "frozen"
        BY <1>3, <1>6, <1>8, <2>2, <3>1 DEF Owns, Usable
      <4>2. QED
        BY <1>3, <1>6, <1>8, <3>1, <4>1
    <3>2. CASE ~(u = t /\ k = n)
      BY <1>8, <2>2, <3>2, UsableRuns
    <3>3. QED
      BY <3>1, <3>2
  <2>3. QED
    BY <1>2, <2>1, <2>2 DEF Reality
<1>14. \A u, v \in Tasks : ax'[u] # "none" => ax'[u] = ax[u] /\ (v = t => ax[v] # "none")
  <2> SUFFICES ASSUME NEW u \in Tasks, ax'[u] # "none" PROVE ax'[u] = ax[u] /\ ax[t] # "none"
    OBVIOUS
  <2>1. ax'[u] = ax[u]
    BY <1>9
  <2>2. ax[t] # "none"
    BY <1>2, <2>1 DEF HasChan, ProtocolInv, Channel
  <2>3. QED
    BY <2>1, <2>2
<1>15. ASSUME NEW u \in Tasks, ax'[u] # "none"
       PROVE  ax'[u] = ax[u] /\ ax[u] = ax[t] /\ ax'[t] = ax[t] /\ AxiomHolds(t, n, ax[u])
  <2>1. ax'[u] = ax[u] /\ ax[t] # "none" /\ ax[u] # "none"
    BY <1>14, <1>15
  <2>2. ax[u] = ax[t]
    BY <2>1 DEF ProtocolInv, Channel
  <2>3. CASE u = t
    BY <1>9, <1>15, <2>1, <2>3
  <2>4. CASE u # t
    BY <1>2, <1>9, <2>1, <2>2, <2>4
  <2>5. QED
    BY <2>1, <2>2, <2>3, <2>4
<1>16. Channel'
  <2>1. ASSUME NEW i \in DOMAIN queue PROVE QueueOk(i) /\ ((\E u \in Tasks : ax[u] = "owned") => queue[i] # w)
    BY <1>3 DEF ProtocolInv, Channel, QueueOk, Nobody
  <2>2. ASSUME NEW i \in DOMAIN queue', queue'[i] = w,
               \A j \in DOMAIN queue' : j # i => j \in DOMAIN queue /\ queue'[j] = queue[j]
        PROVE  QueueOk(i)'
    <3>1. real[w].st # "unused"
      BY <1>3 DEF Owns, Usable
    <3>2. SharedByChan(w)'
      <4> SUFFICES ASSUME NEW u \in Tasks, NEW k \in LocalNames, Owns(u, k)', hs'[u][k].w = w
                   PROVE  hs'[u][k].shared > Cardinality(Delegates(u, k)')
        BY DEF SharedByChan
      <4>1. Owns(u, k) /\ hs[u][k].w = w
        BY <1>1, <1>6, <1>8
      <4>2. u = t /\ k = n
        BY <1>1, <1>3, <4>1 DEF ProtocolInv, OneOwner
      <4>3. hs[t][n].st = "frozen" /\ e.shared = a + 1
        BY <1>3, <1>6, <1>8, <4>2 DEF Owns, Usable
      <4>4. Delegates(u, k)' = Delegates(u, k)
        BY <1>2 DEF Delegates
      <4>5. a + 1 > d
        BY <1>4
      <4>6. QED
        BY <1>4, <1>8, <4>2, <4>3, <4>4, <4>5
    <3>3. ASSUME NEW u \in Tasks, ax'[u] = "frozen" PROVE real[w].st = "frozen"
      BY <1>3, <1>15, <3>3 DEF AxiomHolds
    <3>4. ASSUME NEW u \in Tasks, ax'[u] = "owned"
          PROVE  /\ real[w].st = "mutable" /\ Nobody(w)'
                 /\ \A v \in WorldIds : w \notin real[v].links
                 /\ \A j \in DOMAIN queue' : j # i => queue'[j] # w
      <4>1. hs[t][n].st = "mutable" /\ ax[u] = "owned"
        BY <1>15, <3>4 DEF AxiomHolds
      <4>2. Nobody(w)'
        BY <1>5, <1>6, <1>8, <4>1 DEF Nobody, On, Usable
      <4>3. \A v \in WorldIds : w \notin real[v].links
        <5>1. \A v \in WorldIds : hs[t][n].w \notin real[v].links
          BY <1>3, UnlinkedIs
        <5>2. QED
          BY <1>1, <5>1
      <4>4. \A j \in DOMAIN queue' : j # i => queue'[j] # w
        BY <2>1, <2>2, <4>1
      <4>5. QED
        BY <1>3, <4>1, <4>2, <4>3, <4>4
    <3>5. QED
      BY <1>2, <2>2, <3>1, <3>2, <3>3, <3>4 DEF QueueOk
  <2>3. ASSUME NEW i \in DOMAIN queue', i \in DOMAIN queue, queue'[i] = queue[i],
               \A j \in DOMAIN queue' : (j \in DOMAIN queue /\ queue'[j] = queue[j]) \/ queue'[j] = w
        PROVE  QueueOk(i)'
    <3>1. PICK x : x = queue[i]
      OBVIOUS
    <3>2. QueueOk(i)
      BY <2>1, <2>3 DEF ProtocolInv, Channel
    <3>3. real[x].st # "unused" /\ SharedByChan(x)'
      BY <1>8, <3>1, <3>2 DEF QueueOk
    <3>4. ASSUME NEW u \in Tasks, ax'[u] = "frozen", ~ch.expired PROVE real[x].st = "frozen"
      BY <1>15, <3>1, <3>2, <3>4 DEF QueueOk
    <3>5. ASSUME NEW u \in Tasks, ax'[u] = "owned"
          PROVE  /\ real[x].st = "mutable" /\ Nobody(x)'
                 /\ \A v \in WorldIds : x \notin real[v].links
                 /\ \A j \in DOMAIN queue' : j # i => queue'[j] # x
      <4>1. /\ real[x].st = "mutable" /\ Nobody(x)
            /\ \A v \in WorldIds : x \notin real[v].links
            /\ \A j \in DOMAIN queue : j # i => queue[j] # x
        BY <1>15, <3>1, <3>2, <3>5 DEF QueueOk
      <4>2. x # w
        BY <1>3, <4>1 DEF Nobody
      <4>3. QED
        BY <1>8, <2>3, <4>1, <4>2
    <3>6. QED
      BY <1>2, <2>3, <3>1, <3>3, <3>4, <3>5 DEF QueueOk
  <2>4. \A i \in DOMAIN queue' : QueueOk(i)'
    <3>1. CASE ch.closed
      BY <1>2, <2>3, <3>1
    <3>2. CASE ~ch.closed
      <4>1. queue' = Append(queue, w)
        BY <1>2, <3>2
      <4>2. /\ DOMAIN queue' = DOMAIN queue \cup {Len(queue) + 1} /\ Len(queue) + 1 \notin DOMAIN queue
            /\ queue'[Len(queue) + 1] = w /\ \A j \in DOMAIN queue : queue'[j] = queue[j]
        BY <1>3, <1>10, <4>1
      <4>3. QED
        BY <2>2, <2>3, <4>2
    <3>3. QED
      BY <3>1, <3>2
  <2>5. \A u \in Tasks : ax'[u] # "none" => Runs(u)' /\ (u = Main \/ tasks'[u].carrier)
    <3>1. \A u \in Tasks : ax[u] # "none" => Runs(u) /\ (u = Main \/ tasks[u].carrier)
      BY DEF ProtocolInv, Channel
    <3>2. QED
      BY <1>2, <1>15, <3>1 DEF Runs
  <2>6. \A u, v \in Tasks : ax'[u] # "none" /\ ax'[v] # "none" => ax'[u] = ax'[v]
    BY <1>15
  <2>7. \A u \in Tasks : ax'[u] # "none" => ax'[Main] # "none"
    <3>1. Main \in Tasks
      BY DEF ProtocolAssumption
    <3>2. ASSUME NEW u \in Tasks, ax'[u] # "none" PROVE ax'[Main] # "none"
      <4>1. ax[u] # "none" /\ ax[t] # "none" /\ ax'[t] = ax[t]
        BY <1>15, <3>2
      <4>2. ax[Main] # "none"
        BY <4>1 DEF ProtocolInv, Channel
      <4>3. QED
        BY <1>9, <3>1, <4>1, <4>2
    <3>3. QED
      BY <3>2
  <2>8. ch.ghost \notin {"none", "never"}
    BY <1>2 DEF HasChan, ProtocolInv, Channel
  <2>9. QED
    BY <1>2, <2>4, <2>5, <2>6, <2>7, <2>8 DEF Channel
<1>17. QED
  BY <1>8, <1>11, <1>12, <1>13, <1>16 DEF ProtocolInv


(* Receiving a world keeps the invariant: the new handle is in the state   *)
(* of the world, as the axiom says.                                        *)
LEMMA RecvWorldStep ==
    ASSUME ProtocolAssumption, ProtocolInv, WorldHoles = {}, NEW t \in Tasks, CanStep(t), RecvWorld(t)
    PROVE  ProtocolInv'
<1>1. PICK n, w, e : /\ n = NextName(t) /\ w = Head(queue)
                     /\ e = [Fresh(StateOf(ax[t]), ax[t], w) EXCEPT !.from = TRUE]
  OBVIOUS
<1>2. /\ ax[t] # "none" /\ SomeName(t) /\ queue # <<>> /\ ~ch.expired
      /\ hs' = [hs EXCEPT ![t][n] = e] /\ queue' = Tail(queue)
      /\ UNCHANGED <<tasks, ax, ch, real, refused>>
  BY <1>1 DEF RecvWorld
<1>3. n \in LocalNames /\ hs[t][n].st = "none" /\ hs[t][n] = NoHandle /\ Runs(t)
  BY <1>1, <1>2, NextNameIs DEF ProtocolInv, HandleInv, HandleOk, CanStep, Runs
<1>4. /\ queue \in Seq(WorldIds) /\ queue' \in Seq(WorldIds) /\ w \in WorldIds
      /\ 1 \in DOMAIN queue /\ queue[1] = w
      /\ \A i \in DOMAIN queue' : i + 1 \in DOMAIN queue /\ i + 1 # 1 /\ queue'[i] = queue[i + 1]
      /\ \A i, j \in DOMAIN queue' : i # j => i + 1 # j + 1
  BY <1>1, <1>2 DEF ProtocolInv, ProtocolTypes
<1>5. ax[t] \in {"frozen", "owned"}
  BY <1>2 DEF ProtocolInv, ProtocolTypes
<1>6. /\ e \in Handles /\ e.w = w /\ e.shared = 0 /\ e.chs = 0 /\ e.links = {} /\ e.from
      /\ e.con = ax[t] /\ e.st = StateOf(ax[t])
  BY <1>1, <1>4, <1>5 DEF Fresh, NoHandle, Handles, Contracts, StateOf
<1>7. /\ SharedByChan(w) /\ real[w].st = e.st
      /\ e.con = "frozen" => e.st = "frozen" /\ e.con = "frozen"
      /\ e.con = "owned" => e.st = "mutable" /\ Nobody(w) /\ \A v \in WorldIds : w \notin real[v].links
  <2>1. QueueOk(1)
    BY <1>4 DEF ProtocolInv, Channel
  <2>2. QED
    BY <1>2, <1>4, <1>5, <1>6, <2>1 DEF QueueOk, StateOf
<1>8. /\ hs' \in [Tasks -> [LocalNames -> Handles]] /\ hs'[t][n] = e
      /\ \A u \in Tasks, k \in LocalNames : ~(u = t /\ k = n) => hs'[u][k] = hs[u][k]
  <2>1. /\ hs' = [hs EXCEPT ![t][n] = e] /\ ProtocolTypes
        /\ e \in Handles /\ n \in LocalNames
    BY <1>2, <1>3, <1>6 DEF ProtocolInv
  <2>2. QED
    BY <2>1, OneHandle, ZenonT(30)
<1>9. /\ TaskInv'
      /\ \A u \in Tasks : Runs(u)' <=> Runs(u)
      /\ \A c, u \in Tasks : CallOf(c, u)' <=> CallOf(c, u)
      /\ \A u \in Tasks, k \in LocalNames : Delegates(u, k)' = Delegates(u, k)
  BY <1>2, SameTasks
<1>10. e.st \in {"mutable", "frozen"} /\ e.con \in {"frozen", "owned"}
  BY <1>5, <1>6 DEF StateOf
<1>11. \A u \in Tasks, k \in LocalNames : n \in hs[u][k].links => u # t
  BY <1>3 DEF ProtocolInv, GhostLinks, LinkOk, Owns, Usable
<1>12. ProtocolTypes' /\ ~refused'
  BY <1>2, <1>4, <1>8 DEF ProtocolInv, ProtocolTypes
<1>13. HandleInv'
  <2> SUFFICES ASSUME NEW u \in Tasks, NEW k \in LocalNames PROVE HandleOk(u, k)'
    BY DEF HandleInv
  <2>1. CASE u = t /\ k = n
    <3>1. t = Main \/ tasks[t].carrier
      BY <1>2 DEF ProtocolInv, Channel
    <3>2. QED
      BY <1>2, <1>3, <1>4, <1>6, <1>7, <1>8, <1>9, <1>10, <2>1, <3>1 DEF HandleOk, Borrowed
  <2>2. CASE ~(u = t /\ k = n)
    BY <1>2, <1>8, <1>9, <2>2 DEF HandleOk, ProtocolInv, HandleInv
  <2>3. QED
    BY <2>1, <2>2
<1>14. GhostLinks'
  <2> SUFFICES ASSUME NEW u \in Tasks, NEW k \in LocalNames, NEW m \in LocalNames,
                      m \in hs'[u][k].links
               PROVE  LinkOk(u, k, m)'
    BY DEF GhostLinks
  <2>1. ~(u = t /\ k = n) /\ hs'[u][k] = hs[u][k]
    BY <1>6, <1>8
  <2>2. LinkOk(u, k, m)
    BY <2>1 DEF ProtocolInv, GhostLinks
  <2>3. hs'[u][m] = hs[u][m]
    BY <1>8, <1>11, <2>1
  <2>4. QED
    BY <1>2, <2>1, <2>2, <2>3 DEF LinkOk, Owns
<1>15. Counted'
  <2> SUFFICES ASSUME NEW u \in Tasks, NEW k \in LocalNames, Runs(u)
               PROVE  hs'[u][k].shared >= hs'[u][k].chs + Cardinality(Delegates(u, k))
    BY <1>9 DEF Counted
  <2>1. hs[u][k].shared >= hs[u][k].chs + Cardinality(Delegates(u, k))
    BY DEF ProtocolInv, Counted
  <2>2. hs[t][n].shared = 0 /\ hs[t][n].chs = 0
    BY <1>3 DEF NoHandle
  <2>3. hs'[u][k].shared = hs[u][k].shared /\ hs'[u][k].chs = hs[u][k].chs
    BY <1>6, <1>8, <2>2
  <2>4. QED
    BY <2>1, <2>3
<1>16. \A v : \A u \in Tasks, k \in LocalNames : On(u, k, v) => On(u, k, v)' /\ hs'[u][k] = hs[u][k]
  BY <1>3, <1>8 DEF On, Usable
<1>17. \A v : \A u \in Tasks, k \in LocalNames : On(u, k, v)' =>
          (u = t /\ k = n /\ v = w) \/ (On(u, k, v) /\ hs'[u][k] = hs[u][k])
  BY <1>6, <1>8 DEF On
<1>18. ASSUME NEW v, v # w \/ e.con = "frozen"
       PROVE  /\ SharedForGood(v) => SharedForGood(v)'
              /\ SharedByChan(v) => SharedByChan(v)'
              /\ NoOwner(v) => NoOwner(v)'
  <2>1. \A u \in Tasks, k \in LocalNames : Owns(u, k)' /\ hs'[u][k].w = v => hs'[u][k] = hs[u][k]
    BY <1>6, <1>8, <1>18 DEF Owns
  <2>2. QED
    BY <1>9, <2>1 DEF SharedForGood, SharedByChan, NoOwner, Owns
<1>19. \A v : v # w => (Nobody(v) => Nobody(v)')
  BY <1>17 DEF Nobody
<1>20. Sources'
  <2> SUFFICES ASSUME NEW u \in Tasks, NEW k \in LocalNames, Borrowed(hs'[u][k])
               PROVE  SourceOk(u, k)'
    BY DEF Sources
  <2>1. CASE u = t /\ k = n
    <3>1. e.con = "frozen"
      BY <1>8, <2>1 DEF Borrowed
    <3>2. SharedByChan(w)'
      BY <1>7, <1>18, <3>1
    <3>3. QED
      BY <1>6, <1>8, <2>1, <3>2 DEF SourceOk
  <2>2. CASE ~(u = t /\ k = n)
    <3>1. hs'[u][k] = hs[u][k] /\ SourceOk(u, k) /\ TaskOk(u)
      BY <1>8, <2>2 DEF ProtocolInv, Sources, Borrowed, TaskInv
    <3>2. PICK x : x = hs[u][k].w
      OBVIOUS
    <3>3. x # w \/ e.con = "frozen"
      <4>1. On(u, k, x)
        BY <3>1, <3>2, UsableRuns DEF On, Borrowed
      <4>2. QED
        BY <1>7, <1>10, <4>1 DEF Nobody
    <3>4. /\ SharedForGood(x) => SharedForGood(x)'
          /\ SharedByChan(x) => SharedByChan(x)'
          /\ NoOwner(x) => NoOwner(x)'
      BY <1>18, <3>3
    <3>5. QED
      BY <1>2, <1>16, <3>1, <3>2, <3>4 DEF SourceOk, TaskOk
  <2>3. QED
    BY <2>1, <2>2
<1>21. Chains'
  <2> SUFFICES ASSUME NEW u \in Tasks, NEW v \in Tasks, NEW k \in LocalNames, NEW m \in LocalNames,
                      hs'[u][k].st = "mutable", On(v, m, hs[u][k].w)'
               PROVE  ChainOk(u, k, v, m)'
    BY DEF Chains
  <2>0. PICK x : x = hs'[u][k].w
    OBVIOUS
  <2>1. On(u, k, x)' /\ On(v, m, x)'
    BY <2>0 DEF On, Usable
  <2>2. CASE e.con = "owned" /\ x = w
    <3>1. u = t /\ k = n /\ v = t /\ m = n
      BY <1>7, <1>17, <2>1, <2>2 DEF Nobody
    <3>2. QED
      BY <3>1 DEF ChainOk, ProtocolAssumption
  <2>3. CASE ~(e.con = "owned" /\ x = w)
    <3>1. ~(u = t /\ k = n)
      BY <1>6, <1>7, <1>8, <1>10, <2>0, <2>3
    <3>2. hs'[u][k] = hs[u][k] /\ real[x].st = "mutable"
      BY <1>8, <2>0, <3>1, UsableRuns
    <3>3. ~(v = t /\ m = n) /\ hs'[v][m] = hs[v][m]
      <4>1. ~(v = t /\ m = n)
        BY <1>7, <1>8, <1>10, <2>1, <2>3, <3>2, <1>6 DEF On
      <4>2. QED
        BY <1>8, <4>1
    <3>4. ChainOk(u, k, v, m)
      BY <2>0, <2>1, <3>2, <3>3 DEF ProtocolInv, Chains, On
    <3>5. Above(u, v, x) => Above(u, v, x)'
      BY <1>9, <1>16 DEF Above, ProtocolAssumption
    <3>6. QED
      BY <1>2, <2>0, <3>2, <3>3, <3>4, <3>5 DEF ChainOk
  <2>4. QED
    BY <2>2, <2>3
<1>22. Passed'
  <2> SUFFICES ASSUME NEW u \in Tasks, NEW k \in LocalNames, hs'[u][k].con = "mutable",
                      tasks[u].how = "call"
               PROVE  \E m \in LocalNames : On(tasks[u].by, m, hs[u][k].w)'
    BY <1>2, <1>8, <1>10 DEF Passed
  <2>1. hs'[u][k] = hs[u][k]
    BY <1>8, <1>10
  <2>2. PICK m \in LocalNames : On(tasks[u].by, m, hs[u][k].w)
    BY <2>1 DEF ProtocolInv, Passed
  <2>3. tasks[u].by \in Tasks
    BY DEF ProtocolInv, TaskInv, TaskOk
  <2>4. QED
    BY <1>2, <1>16, <2>1, <2>2, <2>3
<1>23. OneOwner'
  <2>1. \A u \in Tasks, k \in LocalNames : Owns(u, k)' /\ ~(u = t /\ k = n) =>
           Owns(u, k) /\ hs'[u][k].w = hs[u][k].w
    BY <1>8 DEF Owns
  <2>2. Owns(t, n)' => \A u \in Tasks, k \in LocalNames : Owns(u, k) => hs[u][k].w # w
    BY <1>7, <1>8, <1>10 DEF Owns, Nobody, On
  <2>3. QED
    BY <1>6, <1>8, <2>1, <2>2 DEF ProtocolInv, OneOwner
<1>24. Reality'
  <2>1. ASSUME NEW v \in WorldIds PROVE RealOk(v)'
    <3>1. RealOk(v)
      BY DEF ProtocolInv, Reality
    <3>2. ASSUME NEW x \in real[v].links, NEW u \in Tasks, NEW m \in LocalNames, On(u, m, x)'
          PROVE  /\ hs'[u][m].con = "mutable" => tasks'[u].how = "call"
                 /\ Owns(u, m)' => \E k \in LocalNames : m \in hs'[u][k].links /\ hs'[u][k].w = v
      <4>1. CASE u = t /\ m = n /\ x = w
        BY <1>7, <1>8, <1>10, <3>2, <4>1 DEF Owns
      <4>2. CASE On(u, m, x) /\ hs'[u][m] = hs[u][m]
        <5>1. Owns(u, m) => \E k \in LocalNames : m \in hs[u][k].links /\ hs[u][k].w = v
          BY <3>1, <4>2 DEF RealOk
        <5>2. \A k \in LocalNames : m \in hs[u][k].links => hs'[u][k] = hs[u][k]
          BY <1>3, <1>8 DEF NoHandle
        <5>3. QED
          BY <1>2, <3>1, <4>2, <5>1, <5>2 DEF RealOk, Owns
      <4>3. QED
        BY <1>17, <3>2, <4>1, <4>2
    <3>3. QED
      BY <1>2, <3>1, <3>2 DEF RealOk
  <2>2. ASSUME NEW u \in Tasks, NEW k \in LocalNames, Usable(hs'[u][k])
        PROVE  real[hs'[u][k].w].st = hs'[u][k].st
    <3>1. CASE u = t /\ k = n
      BY <1>6, <1>7, <1>8, <3>1
    <3>2. CASE ~(u = t /\ k = n)
      BY <1>8, <2>2, <3>2, UsableRuns
    <3>3. QED
      BY <3>1, <3>2
  <2>3. QED
    BY <1>2, <2>1, <2>2 DEF Reality
<1>25. Channel'
  <2>1. ASSUME NEW i \in DOMAIN queue' PROVE QueueOk(i)'
    <3>1. PICK p : p = i + 1
      OBVIOUS
    <3>2. PICK x : x = queue'[i]
      OBVIOUS
    <3>3. p \in DOMAIN queue /\ p # 1 /\ queue[p] = x
      BY <1>4, <3>1, <3>2
    <3>4. QueueOk(p)
      BY <3>3 DEF ProtocolInv, Channel
    <3>5. x # w \/ e.con = "frozen"
      BY <1>4, <1>6, <1>10, <3>3, <3>4 DEF QueueOk
    <3>6. real[x].st # "unused" /\ SharedByChan(x)'
      BY <1>18, <3>3, <3>4, <3>5 DEF QueueOk
    <3>7. \A u \in Tasks : ax[u] = "frozen" /\ ~ch.expired => real[x].st = "frozen"
      BY <3>3, <3>4 DEF QueueOk
    <3>8. ASSUME NEW u \in Tasks, ax[u] = "owned"
          PROVE  /\ real[x].st = "mutable" /\ Nobody(x)'
                 /\ \A v \in WorldIds : x \notin real[v].links
                 /\ \A j \in DOMAIN queue' : j # i => queue'[j] # x
      <4>1. /\ real[x].st = "mutable" /\ Nobody(x)
            /\ \A v \in WorldIds : x \notin real[v].links
            /\ \A j \in DOMAIN queue : j # p => queue[j] # x
        BY <3>3, <3>4, <3>8 DEF QueueOk
      <4>2. x # w
        BY <1>4, <3>3, <4>1
      <4>3. \A j \in DOMAIN queue' : j # i => queue'[j] # x
        BY <1>4, <3>1, <4>1
      <4>4. QED
        BY <1>19, <4>1, <4>2, <4>3
    <3>9. QED
      BY <1>2, <3>2, <3>6, <3>7, <3>8 DEF QueueOk
  <2>2. ch.ghost \notin {"none", "never"}
    BY <1>2 DEF ProtocolInv, Channel
  <2>3. \A u \in Tasks : ax[u] # "none" => Runs(u)' /\ (u = Main \/ tasks'[u].carrier)
    BY <1>2 DEF ProtocolInv, Channel, Runs
  <2>4. QED
    BY <1>2, <2>1, <2>2, <2>3 DEF ProtocolInv, Channel
<1>26. QED
  BY <1>9, <1>12, <1>13, <1>14, <1>15, <1>20, <1>21, <1>22, <1>23, <1>24, <1>25 DEF ProtocolInv


-----------------------------------------------------------------------------
(* Passing a world to another body.                                        *)

\* A world goes from a local of t to the first local of the new task c: it is lent to a
\* call, shared with a task that runs beside t, or given away.
Passes(t, n, c, r, w, e, f, kind, how) ==
    /\ c = NextTask /\ SomeTask /\ Started(t, c, r)
    /\ r.how = how /\ r.world = (IF how = "go" /\ kind = "frozen" THEN n ELSE 0) /\ ~r.carrier
    /\ hs' = [hs EXCEPT ![t][n] = e, ![c][1] = f] /\ UNCHANGED <<ax, ch, queue, real, refused>>
    /\ w = hs[t][n].w /\ On(t, n, w)
    /\ e.con = hs[t][n].con /\ e.w = w /\ e.from = hs[t][n].from /\ e.links = hs[t][n].links
    /\ e.chs = hs[t][n].chs
    /\ f.st = StateOf(kind) /\ f.con = kind /\ f.w = w /\ f.shared = 0 /\ f.chs = 0 /\ f.links = {}
    /\ ~f.from
    /\ hs[t][n].st = StateOf(kind)
    /\ e.st = (IF kind = "owned" \/ (how # "call" /\ kind = "mutable") THEN "moved" ELSE hs[t][n].st)
    /\ e.shared = (IF how # "call" /\ kind = "frozen" THEN hs[t][n].shared + 1 ELSE hs[t][n].shared)
    /\ how # "call" \/ kind = "owned" => /\ ~Linked(t, n) /\ TargetsQuiet(t, n)
                                         /\ hs[t][n].con # "mutable"
    /\ how = "bg" \/ (how # "call" /\ kind = "mutable") \/ kind = "owned" => ~Borrowed(hs[t][n])

(* A world that is passed to a new body goes from the handle of the one    *)
(* to the parameter of the other.                                          *)
LEMMA PassIs ==
    ASSUME ProtocolAssumption, ProtocolInv, WorldHoles = {}, NEW t \in Tasks, CanStep(t),
           NEW n \in LocalNames, NEW kind \in Contracts, NEW how \in {"go", "bg", "call"}, NEW out,
           out \in {"none", "frozen", "owned"}, how # "call" => out = "none",
           Pass(t, n, kind, how, out)
    PROVE  \E c, r, w, e, f : Passes(t, n, c, r, w, e, f, kind, how) /\ e \in Handles /\ f \in Handles
<1>1. PICK c : c = NextTask
  OBVIOUS
<1>2. PICK w : w = hs[t][n].w
  OBVIOUS
<1>3. PICK e : e = IF how = "call" THEN AfterCall(hs[t][n], kind) ELSE AfterGo(hs[t][n], kind)
  OBVIOUS
<1>4. PICK f : f = Fresh(StateOf(kind), kind, w)
  OBVIOUS
<1>5. PICK d : d = IF how = "go" /\ kind = "frozen" THEN n ELSE 0
  OBVIOUS
<1>6. PICK r : r = [NoTask EXCEPT !.st = "run", !.by = t, !.how = how, !.out = out, !.world = d]
  OBVIOUS
<1>7. /\ SomeTask /\ Discharge(t, n, kind)
      /\ how # "call" /\ kind # "owned" => HandoffOk(t, n, how = "go", kind = "frozen")
      /\ how # "call" \/ kind = "owned" => TargetsQuiet(t, n)
      /\ kind = "owned" => hs[t][n].con # "mutable"
      /\ hs' = [hs EXCEPT ![t][n] = e, ![c][1] = f]
      /\ tasks' = [tasks EXCEPT ![c] = r]
      /\ UNCHANGED <<ax, ch, queue, real, refused>>
  <2>1. hs' = [hs EXCEPT ![t][n] = e, ![c][1] = f]
    BY <1>1, <1>2, <1>3, <1>4 DEF Pass
  <2>2. tasks' = [tasks EXCEPT ![c] = r]
    BY <1>1, <1>5, <1>6 DEF Pass
  <2>3. QED
    BY <2>1, <2>2 DEF Pass
<1>8. /\ r.st = "run" /\ r.by = t /\ r.how = how /\ r.handle = "open" /\ r.out = out /\ ~r.carrier
      /\ r.world = d /\ r \in Starts
  BY <1>5, <1>6 DEF NoTask, Starts
<1>9. d # 0 => how = "go"
  BY <1>5
<1>10. Started(t, c, r)
  BY <1>7, <1>8, <1>9 DEF Started
<1>11. hs[t][n] \in Handles /\ HandleOk(t, n)
  BY DEF ProtocolInv, ProtocolTypes, HandleInv
<1>12. hs[t][n].st = StateOf(kind) /\ (kind # "frozen" => ~Borrowed(hs[t][n]))
  BY <1>7 DEF Discharge, StateOf, Contracts
<1>13. Usable(hs[t][n]) /\ w \in WorldIds /\ On(t, n, w)
  BY <1>2, <1>12, UsableRuns DEF Usable, StateOf, On
<1>14. /\ f \in Handles /\ f.st = StateOf(kind) /\ f.con = kind /\ f.w = w /\ f.shared = 0 /\ f.chs = 0
       /\ f.links = {} /\ ~f.from
  BY <1>4, <1>13 DEF Fresh, NoHandle, Handles, Contracts, StateOf
<1>15. /\ e \in Handles /\ e.con = hs[t][n].con /\ e.w = w /\ e.from = hs[t][n].from
       /\ e.links = hs[t][n].links /\ e.chs = hs[t][n].chs
       /\ e.st = (IF kind = "owned" \/ (how # "call" /\ kind = "mutable") THEN "moved" ELSE hs[t][n].st)
       /\ e.shared = (IF how # "call" /\ kind = "frozen" THEN hs[t][n].shared + 1 ELSE hs[t][n].shared)
  <2>1. CASE kind = "owned" \/ (how # "call" /\ kind = "mutable")
    <3>1. e = [hs[t][n] EXCEPT !.st = "moved"]
      BY <1>3, <1>12, <2>1 DEF AfterCall, AfterGo, HandedOff, StateOf
    <3>2. QED
      BY <1>2, <1>11, <2>1, <3>1 DEF Handles
  <2>2. CASE how # "call" /\ kind = "frozen"
    <3>1. PICK a \in Nat, b \in Nat : a = hs[t][n].shared + 1 /\ b = hs[t][n].chs
      <4>1. hs[t][n].shared \in Nat /\ hs[t][n].chs \in Nat
        BY <1>11 DEF Handles
      <4>2. hs[t][n].shared + 1 \in Nat
        BY <4>1
      <4>3. QED
        BY <4>1, <4>2
    <3>2. e = [hs[t][n] EXCEPT !.shared = a, !.chs = b]
      BY <1>3, <1>11, <1>12, <2>2, <3>1 DEF AfterGo, HandedOff, StateOf, Handles
    <3>3. QED
      BY <1>2, <1>11, <2>2, <3>1, <3>2 DEF Handles
  <2>3. CASE how = "call" /\ kind # "owned"
    BY <1>2, <1>3, <1>11, <2>3 DEF AfterCall
  <2>4. QED
    BY <2>1, <2>2, <2>3 DEF Contracts
<1>16. /\ how # "call" \/ kind = "owned" => /\ ~Linked(t, n) /\ TargetsQuiet(t, n)
                                            /\ hs[t][n].con # "mutable"
       /\ how = "bg" \/ (how # "call" /\ kind = "mutable") \/ kind = "owned" => ~Borrowed(hs[t][n])
  BY <1>7, <1>12 DEF Discharge, HandoffOk
<1>17. Passes(t, n, c, r, w, e, f, kind, how)
  BY <1>1, <1>2, <1>5, <1>7, <1>8, <1>10, <1>12, <1>13, <1>14, <1>15, <1>16 DEF Passes
<1>18. QED
  BY <1>14, <1>15, <1>17

\* The handles and the holders after a world was passed.
Handover(t, n, c, w, e, f, kind) ==
    /\ hs' \in [Tasks -> [LocalNames -> Handles]] /\ hs'[t][n] = e /\ hs'[c][1] = f
    /\ \A u \in Tasks, k \in LocalNames :
          ~(u = t /\ k = n) /\ ~(u = c /\ k = 1) => hs'[u][k] = hs[u][k]
    /\ \A k \in LocalNames : hs[c][k] = NoHandle
    /\ w \in WorldIds /\ real[w].st = hs[t][n].st /\ Usable(hs[t][n])
    /\ e.st = "moved" => /\ Owns(t, n) /\ hs[t][n].st = "mutable" /\ hs[t][n].shared = 0
                         /\ \A u \in Tasks, k \in LocalNames : On(u, k, w) => u = t /\ k = n
    /\ \A v : \A u \in Tasks, k \in LocalNames : On(u, k, v)' =>
          (u = c /\ k = 1 /\ v = w) \/ (On(u, k, v) /\ u # c)
    /\ \A v : \A u \in Tasks, k \in LocalNames : On(u, k, v) =>
          u # c /\ (On(u, k, v)' \/ (e.st = "moved" /\ u = t /\ k = n /\ v = w))
    /\ \A u \in Tasks, k \in LocalNames : u # c =>
          /\ hs'[u][k].con = hs[u][k].con /\ hs'[u][k].w = hs[u][k].w
          /\ hs'[u][k].from = hs[u][k].from /\ hs'[u][k].links = hs[u][k].links
          /\ hs'[u][k].chs = hs[u][k].chs
          /\ hs'[u][k].st = hs[u][k].st \/ (u = t /\ k = n /\ hs'[u][k].st = "moved")
    /\ \A u \in Tasks, k \in LocalNames : Owns(u, k)' =>
          (Owns(u, k) /\ u # c) \/ (u = c /\ k = 1 /\ kind = "owned")

(* Who holds what after a world was passed.                                *)
LEMMA PassHolders ==
    ASSUME ProtocolAssumption, ProtocolInv, NEW t \in Tasks, CanStep(t), NEW n \in LocalNames,
           NEW c, NEW r, NEW w, NEW e \in Handles, NEW f \in Handles, NEW kind \in Contracts,
           NEW how \in {"go", "bg", "call"}, Passes(t, n, c, r, w, e, f, kind, how)
    PROVE  Handover(t, n, c, w, e, f, kind)
<1>1. /\ c \in Tasks /\ ~Runs(c) /\ t < c /\ c # Main
  <2>1. c = NextTask /\ SomeTask /\ Started(t, c, r)
    BY DEF Passes
  <2>2. /\ c \in Tasks /\ ~Runs(c) /\ t < c
    BY <2>1, StartKeeps
  <2>3. QED
    BY <2>2 DEF ProtocolInv, TaskInv
<1>2. t # c /\ 1 \in LocalNames
  BY <1>1 DEF ProtocolAssumption
<1>3. /\ hs' = [hs EXCEPT ![t][n] = e, ![c][1] = f] /\ w = hs[t][n].w /\ On(t, n, w)
      /\ hs \in [Tasks -> [LocalNames -> Handles]]
  BY DEF Passes, ProtocolInv, ProtocolTypes
<1>4. /\ hs' \in [Tasks -> [LocalNames -> Handles]] /\ hs'[t][n] = e /\ hs'[c][1] = f
      /\ \A u \in Tasks, k \in LocalNames :
            ~(u = t /\ k = n) /\ ~(u = c /\ k = 1) => hs'[u][k] = hs[u][k]
  <2>1. /\ hs'[t] = [hs[t] EXCEPT ![n] = e] /\ hs'[c] = [hs[c] EXCEPT ![1] = f]
        /\ \A u \in Tasks : u # t /\ u # c => hs'[u] = hs[u]
    BY <1>1, <1>2, <1>3
  <2>2. hs' \in [Tasks -> [LocalNames -> Handles]]
    BY <1>1, <1>2, <1>3
  <2>3. QED
    BY <1>1, <1>2, <1>3, <2>1, <2>2
<1>5. \A k \in LocalNames : hs[c][k] = NoHandle
  BY <1>1 DEF ProtocolInv, HandleInv, HandleOk
<1>6. w \in WorldIds /\ real[w].st = hs[t][n].st /\ Usable(hs[t][n])
  BY <1>3, UsableRuns DEF On
<1>7. /\ e.con = hs[t][n].con /\ e.w = w /\ e.from = hs[t][n].from /\ e.links = hs[t][n].links
      /\ e.chs = hs[t][n].chs
      /\ e.st = "moved" \/ e.st = hs[t][n].st
      /\ f.con = kind /\ f.w = w
      /\ e.st = "moved" => hs[t][n].st = "mutable" /\ ~Borrowed(hs[t][n]) /\ hs[t][n].con # "mutable"
  <2>1. e.st = "moved" => kind = "owned" \/ (how # "call" /\ kind = "mutable")
    BY <1>6 DEF Passes, Usable
  <2>2. QED
    BY <2>1 DEF Passes, StateOf
<1>8. e.st = "moved" => /\ Owns(t, n) /\ hs[t][n].st = "mutable" /\ hs[t][n].shared = 0
                        /\ \A u \in Tasks, k \in LocalNames : On(u, k, w) => u = t /\ k = n
  <2> SUFFICES ASSUME e.st = "moved"
               PROVE  /\ Owns(t, n) /\ hs[t][n].st = "mutable" /\ hs[t][n].shared = 0
                      /\ \A u \in Tasks, k \in LocalNames : On(u, k, w) => u = t /\ k = n
    OBVIOUS
  <2>1. hs[t][n] \in Handles /\ HandleOk(t, n)
    BY <1>3 DEF ProtocolInv, HandleInv
  <2>2. Owns(t, n) /\ hs[t][n].st = "mutable" /\ hs[t][n].shared = 0
    BY <1>6, <1>7, <2>1 DEF Owns, Handles, Contracts, Borrowed, HandleOk
  <2>3. ~Waits(t)
    BY DEF CanStep
  <2>4. QED
    BY <1>3, <2>2, <2>3, SoleWriter
<1>9. \A u \in Tasks, k \in LocalNames : u # c =>
         /\ hs'[u][k].con = hs[u][k].con /\ hs'[u][k].w = hs[u][k].w
         /\ hs'[u][k].from = hs[u][k].from /\ hs'[u][k].links = hs[u][k].links
         /\ hs'[u][k].chs = hs[u][k].chs
         /\ hs'[u][k].st = hs[u][k].st \/ (u = t /\ k = n /\ hs'[u][k].st = "moved")
  BY <1>3, <1>4, <1>7
<1>10. \A k \in LocalNames : ~Usable(hs[c][k]) /\ (k # 1 => ~Usable(hs'[c][k]))
  BY <1>1, <1>2, <1>4, <1>5 DEF NoHandle, Usable
<1>11. \A v : \A u \in Tasks, k \in LocalNames : On(u, k, v)' =>
          (u = c /\ k = 1 /\ v = w) \/ (On(u, k, v) /\ u # c)
  BY <1>4, <1>7, <1>9, <1>10 DEF On, Usable
<1>12. \A v : \A u \in Tasks, k \in LocalNames : On(u, k, v) =>
          u # c /\ (On(u, k, v)' \/ (e.st = "moved" /\ u = t /\ k = n /\ v = w))
  <2> SUFFICES ASSUME NEW u \in Tasks, NEW k \in LocalNames, NEW v, On(u, k, v)
               PROVE  u # c /\ (On(u, k, v)' \/ (e.st = "moved" /\ u = t /\ k = n /\ v = w))
    OBVIOUS
  <2>1. Usable(hs[u][k]) /\ hs[u][k].w = v
    BY DEF On
  <2>2. u # c
    BY <1>10, <2>1
  <2>3. hs'[u][k].w = v /\ (hs'[u][k].st = hs[u][k].st \/ (u = t /\ k = n /\ hs'[u][k].st = "moved"))
    BY <1>9, <2>1, <2>2
  <2>4. CASE hs'[u][k].st = hs[u][k].st
    BY <2>1, <2>2, <2>3, <2>4 DEF On, Usable
  <2>5. CASE u = t /\ k = n /\ hs'[u][k].st = "moved"
    BY <1>3, <1>4, <2>1, <2>2, <2>5
  <2>6. QED
    BY <2>3, <2>4, <2>5
<1>13. \A u \in Tasks, k \in LocalNames : Owns(u, k)' =>
          (Owns(u, k) /\ u # c) \/ (u = c /\ k = 1 /\ kind = "owned")
  BY <1>4, <1>7, <1>9, <1>10 DEF Owns, Usable, Contracts
<1>14. QED
  BY <1>4, <1>5, <1>6, <1>8, <1>9, <1>11, <1>12, <1>13 DEF Handover


(* Passing a world keeps the invariant: a frozen one is shared, a mutable  *)
(* one is lent to a call or moved.                                         *)
LEMMA PassesKeeps ==
    ASSUME ProtocolAssumption, ProtocolInv, WorldHoles = {}, NEW t \in Tasks, CanStep(t),
           NEW n \in LocalNames,
           NEW c, NEW r, NEW w, NEW e \in Handles, NEW f \in Handles, NEW kind \in Contracts,
           NEW how \in {"go", "bg", "call"}, Passes(t, n, c, r, w, e, f, kind, how)
    PROVE  ProtocolInv'
<1>0. Handover(t, n, c, w, e, f, kind)
  BY PassHolders
<1>1. /\ hs' \in [Tasks -> [LocalNames -> Handles]] /\ hs'[t][n] = e /\ hs'[c][1] = f
      /\ \A u \in Tasks, k \in LocalNames :
            ~(u = t /\ k = n) /\ ~(u = c /\ k = 1) => hs'[u][k] = hs[u][k]
      /\ \A k \in LocalNames : hs[c][k] = NoHandle
      /\ w \in WorldIds /\ real[w].st = hs[t][n].st /\ Usable(hs[t][n])
      /\ e.st = "moved" => /\ Owns(t, n) /\ hs[t][n].st = "mutable" /\ hs[t][n].shared = 0
                           /\ \A u \in Tasks, k \in LocalNames : On(u, k, w) => u = t /\ k = n
  BY <1>0 DEF Handover
<1>2. /\ \A v : \A u \in Tasks, k \in LocalNames : On(u, k, v)' =>
            (u = c /\ k = 1 /\ v = w) \/ (On(u, k, v) /\ u # c)
      /\ \A v : \A u \in Tasks, k \in LocalNames : On(u, k, v) =>
            u # c /\ (On(u, k, v)' \/ (e.st = "moved" /\ u = t /\ k = n /\ v = w))
      /\ \A u \in Tasks, k \in LocalNames : Owns(u, k)' =>
            (Owns(u, k) /\ u # c) \/ (u = c /\ k = 1 /\ kind = "owned")
  BY <1>0 DEF Handover
<1>3. \A u \in Tasks, k \in LocalNames : u # c =>
            /\ hs'[u][k].con = hs[u][k].con /\ hs'[u][k].w = hs[u][k].w
            /\ hs'[u][k].from = hs[u][k].from /\ hs'[u][k].links = hs[u][k].links
            /\ hs'[u][k].chs = hs[u][k].chs
            /\ hs'[u][k].st = hs[u][k].st \/ (u = t /\ k = n /\ hs'[u][k].st = "moved")
  BY <1>0 DEF Handover
<1>4. /\ c = NextTask /\ SomeTask /\ Started(t, c, r)
      /\ r.how = how /\ r.world = (IF how = "go" /\ kind = "frozen" THEN n ELSE 0) /\ ~r.carrier
      /\ UNCHANGED <<ax, ch, queue, real, refused>> /\ w = hs[t][n].w /\ On(t, n, w)
      /\ f.st = StateOf(kind) /\ f.con = kind /\ f.w = w /\ f.shared = 0 /\ f.chs = 0 /\ f.links = {}
      /\ ~f.from /\ hs[t][n].st = StateOf(kind)
  BY DEF Passes
<1>5. /\ e.con = hs[t][n].con /\ e.w = w /\ e.from = hs[t][n].from /\ e.links = hs[t][n].links
      /\ e.chs = hs[t][n].chs
      /\ e.st = (IF kind = "owned" \/ (how # "call" /\ kind = "mutable") THEN "moved" ELSE hs[t][n].st)
      /\ e.shared = (IF how # "call" /\ kind = "frozen" THEN hs[t][n].shared + 1 ELSE hs[t][n].shared)
      /\ how # "call" \/ kind = "owned" => /\ ~Linked(t, n) /\ TargetsQuiet(t, n)
                                           /\ hs[t][n].con # "mutable"
      /\ how = "bg" \/ (how # "call" /\ kind = "mutable") \/ kind = "owned" => ~Borrowed(hs[t][n])
  BY DEF Passes
<1>6. /\ TaskInv' /\ tasks' \in [Tasks -> Starts]
      /\ c \in Tasks /\ ~Runs(c) /\ Runs(t) /\ t < c
      /\ tasks'[c] = r
      /\ \A u \in Tasks : u # c => tasks'[u] = tasks[u]
      /\ \A k \in LocalNames : Delegates(c, k) = {} /\ Delegates(c, k)' = {}
      /\ \A u \in Tasks, k \in LocalNames : ~(u = t /\ k = r.world) =>
            Delegates(u, k)' = Delegates(u, k)
      /\ \A k \in LocalNames : k = r.world =>
            Delegates(t, k)' = Delegates(t, k) \cup {c} /\ c \notin Delegates(t, k)
  BY <1>4, StartKeeps
<1>7. /\ t # c /\ c # Main /\ 1 \in LocalNames /\ 0 \notin LocalNames
      /\ Tasks \subseteq Nat \ {0} /\ LocalNames \subseteq Nat \ {0}
  BY <1>6 DEF ProtocolAssumption, ProtocolInv, TaskInv
<1>8. r.by = t /\ r.st = "run" /\ r.how = how /\ ~Waits(t)
  BY <1>4 DEF Started, CanStep
<1>9. \A u \in Tasks : Runs(u) => u # c /\ Runs(u)' /\ u < c
  BY <1>4, <1>6, NextTaskIs DEF Runs, ProtocolInv, TaskInv
<1>10. ProtocolTypes' /\ ~refused'
  BY <1>1, <1>4, <1>6 DEF ProtocolInv, ProtocolTypes
<1>11. HandleInv'
  <2> SUFFICES ASSUME NEW u \in Tasks, NEW k \in LocalNames PROVE HandleOk(u, k)'
    BY DEF HandleInv
  <2>1. HandleOk(u, k)
    BY DEF ProtocolInv, HandleInv
  <2>2. CASE u = c /\ k = 1
    BY <1>1, <1>4, <1>6, <1>7, <1>8, <2>2 DEF HandleOk, Borrowed, StateOf, Contracts, Runs
  <2>3. CASE u = t /\ k = n
    <3>1. e.st # "none" /\ (e.st = "moved" => ~Borrowed(hs[t][n]) /\ hs[t][n].con # "mutable")
      BY <1>1, <1>4, <1>5 DEF StateOf, Contracts, Usable
    <3>2. e.st = "mutable" => hs[t][n].st = "mutable" /\ e.shared = hs[t][n].shared
      BY <1>4, <1>5 DEF StateOf, Contracts
    <3>3. e.st = hs[t][n].st \/ e.st = "moved"
      BY <1>5
    <3>4. QED
      BY <1>1, <1>4, <1>5, <1>6, <1>7, <1>9, <2>1, <2>3, <3>1, <3>2, <3>3 DEF HandleOk, Borrowed
  <2>4. CASE ~(u = t /\ k = n) /\ ~(u = c /\ k = 1) /\ u # c
    BY <1>1, <1>6, <2>1, <2>4 DEF HandleOk, Runs
  <2>5. CASE u = c /\ k # 1
    BY <1>1, <1>7, <2>5 DEF HandleOk, NoHandle, Borrowed
  <2>6. QED
    BY <1>7, <2>2, <2>3, <2>4, <2>5
<1>12. GhostLinks'
  <2> SUFFICES ASSUME NEW u \in Tasks, NEW k \in LocalNames, NEW m \in LocalNames,
                      m \in hs'[u][k].links
               PROVE  LinkOk(u, k, m)'
    BY DEF GhostLinks
  <2>1. u # c /\ m \in hs[u][k].links
    BY <1>1, <1>3, <1>4, <1>7 DEF NoHandle
  <2>2. LinkOk(u, k, m)
    BY <2>1 DEF ProtocolInv, GhostLinks
  <2>3. hs'[u][m] = hs[u][m]
    <3>1. CASE how = "call" /\ kind # "owned" /\ u = t /\ m = n
      <4>1. e.st = hs[t][n].st /\ e.shared = hs[t][n].shared
        BY <1>5, <3>1
      <4>2. hs[t][n] \in Handles /\ e.w = hs[t][n].w
        BY <1>4, <1>5 DEF ProtocolInv, ProtocolTypes
      <4>3. e = hs[t][n]
        BY <1>5, <4>1, <4>2 DEF Handles
      <4>4. QED
        BY <1>1, <3>1, <4>3
    <3>2. CASE ~(u = t /\ m = n)
      BY <1>1, <2>1, <3>2
    <3>3. CASE (how # "call" \/ kind = "owned") /\ u = t /\ m = n
      BY <1>5, <2>1, <3>3 DEF Linked
    <3>4. QED
      BY <3>1, <3>2, <3>3
  <2>4. CASE u = t /\ k = n
    <3>1. how # "call" \/ kind = "owned" => hs[t][m].st = "frozen"
      BY <1>1, <1>5, <2>1, <2>4, QuietIs
    <3>2. how = "call" /\ kind # "owned" => e.st = hs[t][n].st /\ e.shared = hs[t][n].shared
      BY <1>5
    <3>3. /\ e.st = hs[t][n].st \/ e.st = "moved"
          /\ Usable(e) => Usable(hs[t][n])
      BY <1>5 DEF Usable
    <3>4. QED
      BY <1>1, <1>4, <1>5, <2>2, <2>3, <2>4, <3>1, <3>2, <3>3 DEF LinkOk, Owns
  <2>5. CASE ~(u = t /\ k = n)
    <3>1. hs'[u][k] = hs[u][k]
      BY <1>1, <2>1, <2>5
    <3>2. QED
      BY <1>4, <2>2, <2>3, <3>1 DEF LinkOk, Owns
  <2>6. QED
    BY <2>4, <2>5
<1>13. ASSUME NEW u \in Tasks, NEW k \in LocalNames, u # c
       PROVE  /\ hs[u][k].shared >= hs[u][k].chs + Cardinality(Delegates(u, k)) =>
                    hs'[u][k].shared >= hs'[u][k].chs + Cardinality(Delegates(u, k)')
              /\ hs[u][k].shared > hs[u][k].chs + Cardinality(Delegates(u, k)) =>
                    hs'[u][k].shared > hs'[u][k].chs + Cardinality(Delegates(u, k)')
              /\ hs[u][k].shared > Cardinality(Delegates(u, k)) =>
                    hs'[u][k].shared > Cardinality(Delegates(u, k)')
  <2>1. CASE u = t /\ k = n /\ how # "call" /\ kind = "frozen"
    <3>1. hs[t][n] \in Handles
      BY DEF ProtocolInv, ProtocolTypes
    <3>2. IsFiniteSet(Delegates(t, n)) /\ Cardinality(Delegates(t, n)) \in Nat
      BY DelegatesFinite
    <3>3. PICK a \in Nat, b \in Nat, d \in Nat :
             a = hs[t][n].shared /\ b = hs[t][n].chs /\ d = Cardinality(Delegates(t, n))
      BY <3>1, <3>2 DEF Handles
    <3>4. Cardinality(Delegates(t, n) \cup {c}) = d + 1 \/ c \in Delegates(t, n)
      BY <3>2, <3>3, FS_AddElement
    <3>5. PICK x \in Nat : x = Cardinality(Delegates(t, n)') /\ (x = d \/ x = d + 1)
      <4>1. CASE how = "go"
        <5>1. r.world = n
          BY <1>4, <2>1, <4>1
        <5>2. Delegates(t, n)' = Delegates(t, n) \cup {c} /\ c \notin Delegates(t, n)
          BY <1>6, <5>1
        <5>3. QED
          BY <3>3, <3>4, <5>2
      <4>2. CASE how # "go"
        <5>1. r.world # n
          BY <1>4, <1>7, <4>2
        <5>2. Delegates(t, n)' = Delegates(t, n)
          BY <1>6, <5>1
        <5>3. QED
          BY <3>3, <5>2
      <4>3. QED
        BY <4>1, <4>2
    <3>6. hs'[t][n].shared = a + 1 /\ hs'[t][n].chs = b
      BY <1>1, <1>5, <2>1, <3>3
    <3>7. (a >= b + d => a + 1 >= b + x) /\ (a > b + d => a + 1 > b + x) /\ (a > d => a + 1 > x)
      BY <3>5
    <3>8. QED
      BY <2>1, <3>3, <3>5, <3>6, <3>7
  <2>2. CASE ~(u = t /\ k = n /\ how # "call" /\ kind = "frozen")
    <3>1. hs'[u][k].shared = hs[u][k].shared /\ hs'[u][k].chs = hs[u][k].chs
      BY <1>1, <1>3, <1>5, <1>13, <2>2
    <3>2. Delegates(u, k)' = Delegates(u, k)
      BY <1>4, <1>6, <1>7, <2>2
    <3>3. QED
      BY <3>1, <3>2
  <2>3. QED
    BY <2>1, <2>2
<1>14. Counted'
  <2> SUFFICES ASSUME NEW u \in Tasks, NEW k \in LocalNames, Runs(u)'
               PROVE  hs'[u][k].shared >= hs'[u][k].chs + Cardinality(Delegates(u, k)')
    BY DEF Counted
  <2>1. CASE u = c
    <3>1. hs'[c][k].shared = 0 /\ hs'[c][k].chs = 0
      <4>1. CASE k = 1
        BY <1>1, <1>4, <4>1
      <4>2. CASE k # 1
        <5>1. hs'[c][k] = NoHandle
          BY <1>1, <1>6, <1>7, <4>2
        <5>2. QED
          BY <5>1 DEF NoHandle
      <4>3. QED
        BY <4>1, <4>2
    <3>2. Cardinality({}) = 0
      BY FS_EmptySet
    <3>3. Cardinality(Delegates(c, k)') = 0
      BY <1>6, <3>2
    <3>4. QED
      BY <2>1, <3>1, <3>3
  <2>2. CASE u # c
    BY <1>6, <1>13, <2>2 DEF ProtocolInv, Counted, Runs
  <2>3. QED
    BY <2>1, <2>2
<1>15. kind = "owned" => e.st = "moved"
  BY <1>5
<1>16. \A v : /\ SharedForGood(v) => SharedForGood(v)'
              /\ SharedByChan(v) => SharedByChan(v)'
              /\ NoOwner(v) => NoOwner(v)'
              /\ Nobody(v) => Nobody(v)'
  <2> SUFFICES ASSUME NEW v
               PROVE  /\ SharedForGood(v) => SharedForGood(v)'
                      /\ SharedByChan(v) => SharedByChan(v)'
                      /\ NoOwner(v) => NoOwner(v)'
                      /\ Nobody(v) => Nobody(v)'
    OBVIOUS
  <2>1. Nobody(v) => Nobody(v)'
    BY <1>2, <1>4 DEF Nobody
  <2>2. CASE v = w /\ kind = "owned"
    <3>1. /\ Owns(t, n) /\ hs[t][n].shared = 0 /\ hs[t][n].w = v
      BY <1>1, <1>4, <1>15, <2>2
    <3>2. PICK b \in Nat, d \in Nat : b = hs[t][n].chs /\ d = Cardinality(Delegates(t, n))
      BY <3>1, SharesAre
    <3>3. ~(0 > b + d) /\ ~(0 > d)
      OBVIOUS
    <3>4. ~SharedForGood(v) /\ ~SharedByChan(v) /\ ~NoOwner(v)
      BY <3>1, <3>2, <3>3 DEF SharedForGood, SharedByChan, NoOwner
    <3>5. QED
      BY <2>1, <3>4
  <2>3. CASE ~(v = w /\ kind = "owned")
    <3>1. \A u \in Tasks, k \in LocalNames : Owns(u, k)' /\ hs'[u][k].w = v =>
             Owns(u, k) /\ hs[u][k].w = v /\ u # c
      BY <1>1, <1>2, <1>3, <1>4, <2>3
    <3>2. SharedForGood(v) => SharedForGood(v)'
      BY <1>13, <3>1 DEF SharedForGood
    <3>3. SharedByChan(v) => SharedByChan(v)'
      BY <1>13, <3>1 DEF SharedByChan
    <3>4. NoOwner(v) => NoOwner(v)'
      BY <3>1 DEF NoOwner
    <3>5. QED
      BY <2>1, <3>2, <3>3, <3>4
  <2>4. QED
    BY <2>2, <2>3
<1>17. ASSUME NEW u \in Tasks, NEW k \in LocalNames, NEW v \in Tasks, NEW m \in LocalNames, NEW x,
              On(u, k, x), On(v, m, x), ~(u = v /\ k = m)
       PROVE  On(u, k, x)' /\ On(v, m, x)'
  BY <1>1, <1>2, <1>17
<1>18. Sources'
  <2> SUFFICES ASSUME NEW u \in Tasks, NEW k \in LocalNames, Borrowed(hs'[u][k])
               PROVE  SourceOk(u, k)'
    BY DEF Sources
  <2>1. CASE u = c
    <3>1. k = 1 /\ kind = "frozen"
      BY <1>1, <1>4, <1>7, <2>1 DEF Borrowed, NoHandle
    <3>2. e.st = "frozen" /\ On(t, n, w)'
      BY <1>1, <1>4, <1>5, <3>1 DEF StateOf, On, Usable
    <3>3. hs'[c][1].w = w /\ ~hs'[c][1].from /\ tasks'[c].how = how /\ tasks'[c].by = t
      BY <1>1, <1>4, <1>6, <1>8
    <3>4. CASE how = "call"
      BY <2>1, <3>1, <3>2, <3>3, <3>4 DEF SourceOk
    <3>5. CASE how = "go"
      <4>1. tasks'[c].world = n
        BY <1>4, <1>6, <3>1, <3>5
      <4>2. QED
        BY <2>1, <3>1, <3>2, <3>3, <3>5, <4>1 DEF SourceOk
    <3>6. CASE how = "bg"
      <4>1. Owns(t, n)
        <5>1. hs[t][n] \in Handles
          BY DEF ProtocolInv, ProtocolTypes
        <5>2. QED
          BY <1>1, <1>5, <3>6, <5>1 DEF Owns, Handles, Contracts, Borrowed
      <4>2. PICK a \in Nat, b \in Nat, d \in Nat :
               /\ a = hs[t][n].shared /\ b = hs[t][n].chs /\ d = Cardinality(Delegates(t, n))
               /\ a >= b + d
        BY <4>1, SharesAre
      <4>3. Delegates(t, n)' = Delegates(t, n)
        BY <1>4, <1>6, <1>7, <3>6
      <4>4. e.shared > e.chs + Cardinality(Delegates(t, n)')
        <5>1. a + 1 > b + d
          BY <4>2
        <5>2. QED
          BY <1>5, <3>1, <3>6, <4>2, <4>3, <5>1
      <4>5. ASSUME NEW v \in Tasks, NEW m \in LocalNames, Owns(v, m)', hs'[v][m].w = w
            PROVE  v = t /\ m = n
        <5>1. Owns(v, m) /\ hs[v][m].w = w
          BY <1>2, <1>3, <3>1, <4>5
        <5>2. QED
          BY <1>4, <4>1, <5>1 DEF ProtocolInv, OneOwner
      <4>6. SharedForGood(w)'
        BY <1>1, <4>4, <4>5 DEF SharedForGood
      <4>7. QED
        BY <2>1, <3>1, <3>3, <3>6, <4>6 DEF SourceOk
    <3>7. QED
      BY <3>4, <3>5, <3>6
  <2>2. CASE u # c
    <3>1. Borrowed(hs[u][k]) /\ hs'[u][k].from = hs[u][k].from /\ tasks'[u] = tasks[u]
      BY <1>3, <1>6, <2>2 DEF Borrowed
    <3>2. SourceOk(u, k) /\ TaskOk(u)
      BY <3>1 DEF ProtocolInv, Sources, TaskInv
    <3>3. PICK x, p, d : x = hs[u][k].w /\ p = tasks[u].by /\ d = tasks[u].world
      OBVIOUS
    <3>4. On(u, k, x)
      BY <3>1, <3>3, UsableRuns DEF On
    <3>5. ASSUME NEW q \in Tasks, q < u, NEW m \in LocalNames, On(q, m, x) PROVE On(q, m, x)'
      BY <1>7, <1>17, <3>4, <3>5
    <3>6. tasks[u].how \in {"call", "go"} => p \in Tasks /\ p < u
      BY <3>2, <3>3 DEF TaskOk
    <3>7. hs[u][k].from => SharedByChan(x)'
      BY <1>16, <3>2, <3>3 DEF SourceOk
    <3>8. ~hs[u][k].from /\ tasks[u].how = "call" => \E m \in LocalNames : On(p, m, x)'
      BY <3>2, <3>3, <3>5, <3>6 DEF SourceOk
    <3>9. ~hs[u][k].from /\ tasks[u].how = "go" => (d \in LocalNames /\ On(p, d, x)') \/ NoOwner(x)'
      BY <1>16, <3>2, <3>3, <3>5, <3>6 DEF SourceOk
    <3>10. ~hs[u][k].from /\ tasks[u].how = "bg" => SharedForGood(x)'
      BY <1>16, <3>2, <3>3 DEF SourceOk
    <3>11. hs'[u][k].w = x /\ tasks'[u].by = p /\ tasks'[u].world = d
      BY <1>3, <2>2, <3>1, <3>3
    <3>12. QED
      BY <3>1, <3>7, <3>8, <3>9, <3>10, <3>11 DEF SourceOk
  <2>3. QED
    BY <2>1, <2>2
<1>19. \A x, d \in Tasks : CallOf(d, x) => CallOf(d, x)'
  BY <1>6, <1>9 DEF CallOf, Runs
<1>20. \A x : \A u \in Tasks, k \in LocalNames : On(u, k, x) => Runs(u)
  BY UsableRuns DEF On
<1>21. Chains'
  <2> SUFFICES ASSUME NEW u \in Tasks, NEW v \in Tasks, NEW k \in LocalNames, NEW m \in LocalNames,
                      hs'[u][k].st = "mutable", On(v, m, hs[u][k].w)'
               PROVE  ChainOk(u, k, v, m)'
    BY DEF Chains
  <2>0. PICK x : x = hs'[u][k].w
    OBVIOUS
  <2>1. On(u, k, x)' /\ On(v, m, x)'
    BY <2>0 DEF On, Usable
  <2>2. ASSUME u # c, v # c PROVE ChainOk(u, k, v, m)'
    <3>1. On(u, k, x) /\ On(v, m, x) /\ hs[u][k].w = x /\ hs[u][k].st = "mutable"
      BY <1>2, <1>3, <2>0, <2>1, <2>2
    <3>2. ChainOk(u, k, v, m)
      BY <3>1 DEF ProtocolInv, Chains
    <3>3. Above(u, v, x) => Above(u, v, x)'
      <4> SUFFICES ASSUME NEW d \in Tasks, CallOf(d, u), d <= v, On(d, 1, x), hs[d][1].con = "mutable"
                   PROVE  CallOf(d, u)' /\ On(d, 1, x)' /\ hs'[d][1].con = "mutable"
        BY DEF Above
      <4>1. d # u /\ d # c
        <5>1. TaskOk(d) /\ d \in Nat
          BY <1>7 DEF ProtocolInv, TaskInv
        <5>2. QED
          BY <1>2, <1>7, <5>1 DEF CallOf, TaskOk
      <4>2. QED
        BY <1>3, <1>7, <1>17, <1>19, <3>1, <4>1
    <3>4. QED
      BY <1>3, <1>6, <2>0, <2>2, <3>1, <3>2, <3>3 DEF ChainOk
  <2>3. ASSUME u = c \/ v = c, ~(u = c /\ v = c) PROVE ChainOk(u, k, v, m)'
    <3>1. x = w /\ (u = c => k = 1) /\ (v = c => m = 1)
      BY <1>2, <2>1, <2>3
    <3>2. PICK p \in Tasks, j \in LocalNames :
             /\ p # c /\ On(p, j, w) /\ On(p, j, w)'
             /\ u = c => p = v /\ j = m
             /\ v = c => p = u /\ j = k
      BY <1>2, <2>1, <2>3, <3>1
    <3>3. e.st # "moved"
      BY <1>1, <1>7, <3>2 DEF On, Usable
    <3>4. hs[p][j].st = real[w].st /\ hs'[p][j].st = hs[p][j].st
      BY <1>1, <1>3, <3>2, <3>3, UsableRuns DEF On
    <3>5. f.st = real[w].st
      BY <1>1, <1>4
    <3>6. f.st = "mutable"
      BY <1>1, <2>3, <3>1, <3>2, <3>4, <3>5
    <3>7. kind = "mutable" /\ how = "call"
      BY <1>4, <1>5, <3>3, <3>6 DEF StateOf, Contracts
    <3>8. p < c
      BY <1>9, <1>20, <3>2
    <3>9. CASE u = c
      BY <1>7, <2>3, <3>2, <3>8, <3>9 DEF ChainOk
    <3>10. CASE v = c
      <4>1. Above(p, c, w)'
        <5>1. CASE p = t
          <6>1. CallOf(c, t)' /\ On(c, 1, w)' /\ hs'[c][1].con = "mutable"
            BY <1>1, <1>4, <1>6, <1>8, <2>1, <3>1, <3>7, <3>10 DEF CallOf, Runs
          <6>2. c <= c
            BY <1>6, <1>7
          <6>3. QED
            BY <1>6, <5>1, <6>1, <6>2 DEF Above
        <5>2. CASE p # t
          <6>1. hs[t][n].st = "mutable" /\ hs[p][j].st = "mutable" /\ hs[p][j].w = w
            BY <1>1, <3>2, <3>4, <3>5, <3>6 DEF On
          <6>2. ChainOk(p, j, t, n) /\ ChainOk(t, n, p, j)
            BY <1>4, <3>2, <6>1 DEF ProtocolInv, Chains
          <6>3. ~(t < p)
            BY <1>8, <6>2 DEF ChainOk, Above, CallOf, Waits, Runs
          <6>4. p < t
            BY <1>7, <5>2, <6>3
          <6>5. PICK d \in Tasks : CallOf(d, p) /\ d <= t /\ On(d, 1, w) /\ hs[d][1].con = "mutable"
            BY <6>1, <6>2, <6>4 DEF ChainOk, Above
          <6>6. d <= c /\ d # c
            BY <1>6, <1>7, <1>2, <6>5
          <6>7. On(d, 1, w)'
            BY <1>2, <1>7, <3>3, <6>5
          <6>8. QED
            BY <1>3, <1>7, <1>19, <6>5, <6>6, <6>7 DEF Above
        <5>3. QED
          BY <5>1, <5>2
      <4>2. hs'[c][1].con = "mutable" /\ tasks'[c].how = "call" /\ hs'[p][j].w = w
        BY <1>1, <1>4, <1>6, <3>2, <3>7 DEF On
      <4>3. u = p /\ k = j /\ m = 1 /\ p # c
        BY <3>1, <3>2, <3>10
      <4>4. QED
        BY <3>10, <4>1, <4>2, <4>3 DEF ChainOk
    <3>11. QED
      BY <2>3, <3>9, <3>10
  <2>4. ASSUME u = c, v = c PROVE ChainOk(u, k, v, m)'
    <3>1. k = 1 /\ m = 1
      BY <1>2, <2>1, <2>4
    <3>2. QED
      BY <1>7, <2>4, <3>1 DEF ChainOk
  <2>5. QED
    BY <2>2, <2>3, <2>4
<1>22. Passed'
  <2> SUFFICES ASSUME NEW u \in Tasks, NEW k \in LocalNames, hs'[u][k].con = "mutable",
                      tasks'[u].how = "call"
               PROVE  \E m \in LocalNames : On(tasks[u].by, m, hs[u][k].w)'
    BY DEF Passed
  <2>1. PICK x, p : x = hs'[u][k].w /\ p = tasks'[u].by
    OBVIOUS
  <2>2. CASE u = c
    <3>1. k = 1 /\ kind = "mutable" /\ how = "call" /\ x = w /\ p = t
      <4>1. k = 1
        <5> SUFFICES ASSUME k # 1 PROVE FALSE
          OBVIOUS
        <5>1. hs'[c][k] = NoHandle
          BY <1>1, <1>6, <1>7
        <5>2. QED
          BY <2>2, <5>1 DEF NoHandle
      <4>2. hs'[c][1] = f /\ tasks'[c] = r
        BY <1>1, <1>6
      <4>3. QED
        BY <1>4, <1>8, <2>1, <2>2, <4>1, <4>2
    <3>2. On(t, n, w)'
      BY <1>1, <1>4, <1>5, <3>1 DEF On, Usable
    <3>3. QED
      BY <2>1, <2>2, <3>1, <3>2
  <2>3. CASE u # c
    <3>1. hs[u][k].con = "mutable" /\ hs[u][k].w = x /\ tasks[u].how = "call" /\ tasks[u].by = p
      BY <1>3, <1>6, <2>1, <2>3
    <3>2. PICK m \in LocalNames : On(p, m, x)
      BY <3>1 DEF ProtocolInv, Passed
    <3>3. p \in Tasks /\ p # u
      <4>1. TaskOk(u) /\ u \in Nat
        BY <1>7 DEF ProtocolInv, TaskInv
      <4>2. QED
        BY <3>1, <4>1 DEF TaskOk
    <3>4. On(u, k, x)
      BY <3>1, UsableRuns DEF On
    <3>5. On(p, m, x)'
      BY <1>17, <3>2, <3>3, <3>4
    <3>6. QED
      BY <2>1, <3>5
  <2>4. QED
    BY <2>2, <2>3
<1>23. OneOwner'
  <2> SUFFICES ASSUME NEW u \in Tasks, NEW v \in Tasks, NEW k \in LocalNames, NEW m \in LocalNames,
                      Owns(u, k)', Owns(v, m)', hs'[u][k].w = hs'[v][m].w
               PROVE  u = v /\ k = m
    BY DEF OneOwner
  <2>1. CASE u # c /\ v # c
    BY <1>2, <1>3, <2>1 DEF ProtocolInv, OneOwner
  <2>2. ASSUME NEW p \in Tasks, NEW j \in LocalNames, p # c, Owns(p, j)', hs'[p][j].w = w, kind = "owned"
        PROVE  FALSE
    <3>1. On(p, j, w) /\ On(p, j, w)'
      BY <1>2, <1>3, <2>2 DEF Owns, On
    <3>2. QED
      BY <1>1, <1>15, <2>2, <3>1 DEF On, Usable
  <2>3. u = c => k = 1 /\ kind = "owned" /\ hs'[u][k].w = w
    BY <1>1, <1>2, <1>4
  <2>4. v = c => m = 1 /\ kind = "owned" /\ hs'[v][m].w = w
    BY <1>1, <1>2, <1>4
  <2>5. QED
    BY <2>1, <2>2, <2>3, <2>4
<1>24. Reality'
  <2>1. ASSUME NEW v \in WorldIds PROVE RealOk(v)'
    <3>1. RealOk(v)
      BY DEF ProtocolInv, Reality
    <3>2. ASSUME NEW x \in real[v].links, NEW u \in Tasks, NEW m \in LocalNames, On(u, m, x)'
          PROVE  /\ hs'[u][m].con = "mutable" => tasks'[u].how = "call"
                 /\ Owns(u, m)' => \E k \in LocalNames : m \in hs'[u][k].links /\ hs'[u][k].w = v
      <4>1. CASE u = c
        <5>1. m = 1 /\ x = w
          BY <1>2, <3>2, <4>1
        <5>2. (how = "call" /\ kind # "owned") \/ kind = "frozen"
          <6>1. ~(kind = "owned" \/ (how # "call" /\ kind = "mutable"))
            <7> SUFFICES ASSUME kind = "owned" \/ (how # "call" /\ kind = "mutable") PROVE FALSE
              OBVIOUS
            <7>1. Owns(t, n) /\ ~Linked(t, n)
              BY <1>1, <1>5
            <7>2. hs[t][n].w \notin real[v].links
              BY <7>1, UnlinkedIs
            <7>3. QED
              BY <1>4, <3>2, <5>1, <7>2
          <6>2. QED
            BY <6>1 DEF Contracts
        <5>3. QED
          BY <1>1, <1>2, <1>4, <1>6, <1>8, <4>1, <5>1, <5>2
      <4>2. CASE u # c
        <5>1. On(u, m, x) /\ (Owns(u, m)' => Owns(u, m))
          BY <1>2, <3>2, <4>2
        <5>2. /\ hs[u][m].con = "mutable" => tasks[u].how = "call"
              /\ Owns(u, m) => \E k \in LocalNames : m \in hs[u][k].links /\ hs[u][k].w = v
          BY <3>1, <3>2, <5>1 DEF RealOk
        <5>3. QED
          BY <1>3, <1>6, <4>2, <5>1, <5>2
      <4>3. QED
        BY <4>1, <4>2
    <3>3. QED
      BY <1>4, <3>1, <3>2 DEF RealOk
  <2>2. ASSUME NEW u \in Tasks, NEW k \in LocalNames, Usable(hs'[u][k])
        PROVE  real[hs'[u][k].w].st = hs'[u][k].st
    <3>1. PICK x : x = hs'[u][k].w
      OBVIOUS
    <3>2. On(u, k, x)'
      BY <2>2, <3>1 DEF On
    <3>3. CASE u = c
      BY <1>1, <1>2, <1>4, <3>1, <3>2, <3>3
    <3>4. CASE u # c
      <4>1. On(u, k, x) /\ hs'[u][k].st = hs[u][k].st
        BY <1>2, <1>3, <2>2, <3>2, <3>4 DEF Usable
      <4>2. QED
        BY <3>1, <4>1, UsableRuns DEF On
    <3>5. QED
      BY <3>3, <3>4
  <2>3. QED
    BY <1>4, <2>1, <2>2 DEF Reality
<1>25. Channel'
  <2>1. Quiet
    BY <1>4 DEF Quiet
  <2>2. \A u \in Tasks : ax[u] # "none" => Runs(u)' /\ (u = Main \/ tasks'[u].carrier)
    <3>1. \A u \in Tasks : ax[u] # "none" => Runs(u) /\ (u = Main \/ tasks[u].carrier)
      BY DEF ProtocolInv, Channel
    <3>2. QED
      BY <1>6, <1>9, <3>1
  <2>3. QED
    BY <1>16, <2>1, <2>2, QuietKeeps
<1>26. QED
  BY <1>6, <1>10, <1>11, <1>12, <1>14, <1>18, <1>21, <1>22, <1>23, <1>24, <1>25 DEF ProtocolInv

(* A call, a spawned task or a background task with a world parameter      *)
(* keeps the invariant.                                                    *)
LEMMA PassStep ==
    ASSUME ProtocolAssumption, ProtocolInv, WorldHoles = {}, NEW t \in Tasks, CanStep(t),
           NEW n \in LocalNames, NEW kind \in Contracts, NEW how \in {"go", "bg", "call"}, NEW out,
           out \in {"none", "frozen", "owned"}, how # "call" => out = "none",
           Pass(t, n, kind, how, out)
    PROVE  ProtocolInv'
<1>1. PICK c, r, w, e, f : Passes(t, n, c, r, w, e, f, kind, how) /\ e \in Handles /\ f \in Handles
  BY PassIs
<1>2. QED
  BY <1>1, PassesKeeps


-----------------------------------------------------------------------------
(* The end of a body.                                                      *)

\* t ends; when b, its local n goes back and becomes g, the local q of the caller p.
Ends(t, p, b, n, q, w, g) ==
    /\ p = tasks[t].by /\ t # Main /\ Runs(t) /\ ~Waits(t) /\ Undelegated(t)
    /\ \A c \in Tasks : tasks[c].by = t /\ tasks[c].carrier /\ tasks[c].how # "call"
                        => tasks[c].handle = "joined"
    /\ tasks' = [tasks EXCEPT ![t].st = "done"] /\ ax' = [ax EXCEPT ![t] = "none"]
    /\ UNCHANGED <<ch, queue, real, refused>>
    /\ hs' \in [Tasks -> [LocalNames -> Handles]]
    /\ \A k \in LocalNames : hs'[t][k] = NoHandle
    /\ \A u \in Tasks, k \in LocalNames : u # t /\ ~(b /\ u = p /\ k = q) => hs'[u][k] = hs[u][k]
    /\ b => /\ p \in Tasks /\ p # t /\ Runs(p) /\ q \in LocalNames /\ hs[p][q] = NoHandle
            /\ hs'[p][q] = g /\ n \in LocalNames /\ Owns(t, n) /\ hs[t][n].w = w
            /\ hs[t][n].shared = 0 /\ ~Linked(t, n)
            /\ g.st = hs[t][n].st /\ g.con = "none" /\ g.shared = 0 /\ g.chs = 0
            /\ g.links = {} /\ ~g.from /\ g.w = w

(* A body that ends returns nothing, or one world that it owns, does not   *)
(* share and did not link to.                                              *)
LEMMA EndIs ==
    ASSUME ProtocolAssumption, ProtocolInv, WorldHoles = {}, NEW t \in Tasks, CanStep(t), End(t)
    PROVE  \E p, b, n, q, w, g : Ends(t, p, b, n, q, w, g)
<1>1. PICK p : p = tasks[t].by
  OBVIOUS
<1>2. PICK G : G = [hs EXCEPT ![t] = [k \in LocalNames |-> NoHandle]]
  OBVIOUS
<1>3. /\ t # Main /\ Undelegated(t) /\ CarriersJoined(t)
      /\ tasks' = [tasks EXCEPT ![t].st = "done"] /\ ax' = [ax EXCEPT ![t] = "none"]
      /\ UNCHANGED <<ch, queue, real, refused>>
      /\ tasks[t].out = "none" => hs' = G
      /\ tasks[t].out # "none" =>
            /\ SomeName(p)
            /\ \E n \in LocalNames : /\ Guarantee(t, n)
                                     /\ hs' = [G EXCEPT ![p][NextName(p)] =
                                                   Fresh(StateOf(tasks[t].out), "none", hs[t][n].w)]
  BY <1>1, <1>2 DEF End
<1>4. Runs(t) /\ ~Waits(t) /\ tasks[t] \in Starts /\ TaskOk(t)
  BY DEF CanStep, Runs, ProtocolInv, ProtocolTypes, TaskInv
<1>5. \A c \in Tasks : tasks[c].by = t /\ tasks[c].carrier /\ tasks[c].how # "call"
                       => tasks[c].handle = "joined"
  BY <1>3 DEF CarriersJoined, Children
<1>6. hs \in [Tasks -> [LocalNames -> Handles]]
  BY DEF ProtocolInv, ProtocolTypes
<1>7. NoHandle \in Handles
  BY DEF NoHandle, Handles
<1>8. /\ G \in [Tasks -> [LocalNames -> Handles]]
      /\ \A k \in LocalNames : G[t][k] = NoHandle
      /\ \A u \in Tasks : u # t => G[u] = hs[u]
  BY <1>2, <1>6, <1>7
<1>9. CASE tasks[t].out = "none"
  <2>1. Ends(t, p, FALSE, 0, 0, 0, 0)
    BY <1>1, <1>3, <1>4, <1>5, <1>8, <1>9 DEF Ends
  <2>2. QED
    BY <2>1
<1>10. CASE tasks[t].out # "none"
  <2>1. PICK n \in LocalNames : /\ Guarantee(t, n)
                                /\ hs' = [G EXCEPT ![p][NextName(p)] =
                                                   Fresh(StateOf(tasks[t].out), "none", hs[t][n].w)]
    BY <1>3, <1>10
  <2>2. PICK q, w : q = NextName(p) /\ w = hs[t][n].w
    OBVIOUS
  <2>3. PICK g : g = Fresh(StateOf(tasks[t].out), "none", w)
    OBVIOUS
  <2>4. p \in Tasks /\ p # t /\ Runs(p)
    <3>1. tasks[t].how = "call" /\ p \in Tasks /\ p < t /\ Runs(p)
      BY <1>1, <1>3, <1>4, <1>10 DEF TaskOk
    <3>2. QED
      BY <3>1 DEF ProtocolAssumption
  <2>5. q \in LocalNames /\ hs[p][q] = NoHandle
    BY <1>3, <1>10, <2>2, <2>4, NextNameIs DEF ProtocolInv, HandleInv, HandleOk
  <2>6. hs[t][n] \in Handles
    BY <1>6
  <2>7. /\ Usable(hs[t][n]) /\ ~Borrowed(hs[t][n]) /\ hs[t][n].shared = 0
        /\ hs[t][n].con # "mutable" /\ ~Linked(t, n)
        /\ hs[t][n].st = StateOf(tasks[t].out)
    BY <1>4, <1>10, <2>1 DEF Guarantee, StateOf, Usable, Starts
  <2>8. Owns(t, n)
    BY <2>6, <2>7 DEF Owns, Handles, Contracts, Borrowed
  <2>9. w \in WorldIds
    BY <2>2, <2>7, UsableRuns
  <2>10. /\ g \in Handles /\ g.st = hs[t][n].st /\ g.con = "none" /\ g.shared = 0 /\ g.chs = 0
         /\ g.links = {} /\ ~g.from /\ g.w = w
    <3>1. PICK s \in {"mutable", "frozen"} : s = StateOf(tasks[t].out)
      BY DEF StateOf
    <3>2. g = Fresh(s, "none", w)
      BY <2>3, <3>1
    <3>3. QED
      BY <2>7, <2>9, <3>1, <3>2 DEF Fresh, NoHandle, Handles
  <2>11. hs' = [G EXCEPT ![p][q] = g]
    BY <2>1, <2>2, <2>3
  <2>12. /\ hs' \in [Tasks -> [LocalNames -> Handles]] /\ hs'[p][q] = g
         /\ \A u \in Tasks, k \in LocalNames : ~(u = p /\ k = q) => hs'[u][k] = G[u][k]
    <3>1. hs'[p] = [G[p] EXCEPT ![q] = g] /\ \A u \in Tasks : u # p => hs'[u] = G[u]
      BY <1>8, <2>4, <2>11
    <3>2. hs' \in [Tasks -> [LocalNames -> Handles]]
      BY <1>8, <2>4, <2>5, <2>10, <2>11
    <3>3. G[p] \in [LocalNames -> Handles]
      BY <1>8, <2>4
    <3>4. QED
      BY <2>4, <2>5, <3>1, <3>2, <3>3
  <2>13. \A k \in LocalNames : hs'[t][k] = NoHandle
    BY <1>8, <2>4, <2>12
  <2>14. \A u \in Tasks, k \in LocalNames : u # t /\ ~(u = p /\ k = q) => hs'[u][k] = hs[u][k]
    BY <1>8, <2>12
  <2>15. Ends(t, p, TRUE, n, q, w, g)
    BY <1>1, <1>3, <1>4, <1>5, <2>2, <2>4, <2>5, <2>7, <2>8, <2>10, <2>12, <2>13, <2>14 DEF Ends
  <2>16. QED
    BY <2>15
<1>11. QED
  BY <1>9, <1>10

(* The end of a body keeps the tree of tasks: nobody waits for it, and it  *)
(* waits for nobody.                                                       *)
LEMMA EndsTasks ==
    ASSUME ProtocolAssumption, ProtocolInv, NEW t \in Tasks, NEW p, NEW b, NEW n, NEW q, NEW w, NEW g,
           Ends(t, p, b, n, q, w, g)
    PROVE  /\ TaskInv' /\ tasks' \in [Tasks -> Starts] /\ ~Runs(t)'
           /\ \A u \in Tasks : u # t => tasks'[u] = tasks[u] /\ (Runs(u)' <=> Runs(u))
           /\ \A u, d \in Tasks : CallOf(d, u)' => CallOf(d, u)
           /\ \A u, d \in Tasks : CallOf(d, u) => u # t /\ (d # t => CallOf(d, u)')
           /\ \A u \in Tasks, k \in LocalNames : Delegates(u, k)' = Delegates(u, k)
<1>1. /\ t # Main /\ Runs(t) /\ ~Waits(t) /\ tasks' = [tasks EXCEPT ![t].st = "done"]
      /\ \A c \in Tasks : tasks[c].by = t /\ tasks[c].carrier /\ tasks[c].how # "call"
                        => tasks[c].handle = "joined"
  BY DEF Ends
<1>2. tasks \in [Tasks -> Starts] /\ \A d \in Tasks : TaskOk(d)
  BY DEF ProtocolInv, ProtocolTypes, TaskInv
<1>3. /\ tasks' \in [Tasks -> Starts] /\ tasks'[t].st = "done"
      /\ \A d \in Tasks : /\ tasks'[d].by = tasks[d].by /\ tasks'[d].how = tasks[d].how
                          /\ tasks'[d].world = tasks[d].world /\ tasks'[d].carrier = tasks[d].carrier
                          /\ tasks'[d].handle = tasks[d].handle /\ tasks'[d].out = tasks[d].out
                          /\ d # t => tasks'[d] = tasks[d]
  BY <1>1, <1>2 DEF Starts
<1>4. ~Runs(t)' /\ \A u \in Tasks : u # t => (Runs(u)' <=> Runs(u))
  BY <1>3 DEF Runs
<1>5. \A u, d \in Tasks : CallOf(d, u)' => CallOf(d, u)
  BY <1>1, <1>3, <1>4 DEF CallOf
<1>6. \A u, d \in Tasks : CallOf(d, u) => u # t /\ (d # t => CallOf(d, u)')
  BY <1>1, <1>3, <1>4 DEF CallOf, Waits, Runs
<1>7. \A u \in Tasks, k \in LocalNames : Delegates(u, k)' = Delegates(u, k)
  BY <1>3 DEF Delegates
<1>8. ASSUME NEW d \in Tasks PROVE TaskOk(d)'
  <2>1. TaskOk(d)
    BY <1>2
  <2>2. CASE tasks[d].by \in Tasks
    <3>1. PICK a \in Tasks : a = tasks[d].by
      BY <2>2
    <3>2. tasks'[a].st # "unused" /\ (a # t => tasks'[a] = tasks[a])
      BY <1>3, <2>1, <3>1 DEF TaskOk
    <3>3. Runs(d) /\ a = t => tasks[d].how # "call" /\ ~tasks[d].carrier
      <4> SUFFICES ASSUME Runs(d), a = t PROVE tasks[d].how # "call" /\ ~tasks[d].carrier
        OBVIOUS
      <4>1. tasks[d].how # "call"
        BY <1>6, <3>1 DEF CallOf
      <4>2. ~tasks[d].carrier
        BY <1>1, <2>1, <3>1, <4>1 DEF TaskOk, Runs
      <4>3. QED
        BY <4>1, <4>2
    <3>4. CASE d = t
      <4>1. tasks[t].by = a /\ a < t /\ a # t
        BY <2>1, <3>1, <3>4 DEF TaskOk, ProtocolAssumption
      <4>2. QED
        BY <1>3, <1>4, <2>1, <3>1, <3>2, <3>4, <4>1 DEF TaskOk
    <3>5. CASE d # t
      BY <1>3, <1>4, <2>1, <3>1, <3>2, <3>3, <3>5 DEF TaskOk, Runs
    <3>6. QED
      BY <3>4, <3>5
  <2>3. CASE tasks[d].by \notin Tasks
    BY <1>1, <1>3, <1>4, <2>1, <2>3 DEF TaskOk, Runs
  <2>4. QED
    BY <2>2, <2>3
<1>9. TaskInv'
  <2>1. Runs(Main)' /\ tasks'[Main].by = 0
    BY <1>1, <1>3, <1>4 DEF ProtocolInv, TaskInv, ProtocolAssumption
  <2>2. \A u, d \in Tasks : Runs(u)' /\ tasks'[d].st = "unused" => u < d
    BY <1>3, <1>4 DEF ProtocolInv, TaskInv
  <2>3. \A u, d, e \in Tasks : CallOf(d, u)' /\ CallOf(e, u)' => d = e
    BY <1>5 DEF ProtocolInv, TaskInv
  <2>4. QED
    BY <1>8, <2>1, <2>2, <2>3 DEF TaskInv
<1>10. QED
  BY <1>3, <1>4, <1>5, <1>6, <1>7, <1>9


\* The handles and the holders after t ended.
Departed(t, p, b, n, q, w, g) ==
    /\ t # Main /\ Runs(t) /\ ~Waits(t) /\ Undelegated(t)
    /\ \A k \in LocalNames : hs'[t][k] = NoHandle
    /\ \A u \in Tasks, k \in LocalNames : u # t /\ ~(b /\ u = p /\ k = q) => hs'[u][k] = hs[u][k]
    /\ b => /\ p \in Tasks /\ p # t /\ Runs(p) /\ q \in LocalNames /\ hs[p][q] = NoHandle
            /\ hs'[p][q] = g /\ n \in LocalNames /\ Owns(t, n) /\ hs[t][n].w = w /\ w \in WorldIds
            /\ hs[t][n].shared = 0 /\ ~Linked(t, n)
            /\ g.st = hs[t][n].st /\ g.con = "none" /\ g.shared = 0 /\ g.chs = 0
            /\ g.links = {} /\ ~g.from /\ g.w = w /\ Usable(g)
    /\ \A v : \A u \in Tasks, k \in LocalNames : On(u, k, v)' =>
          (b /\ u = p /\ k = q /\ v = w) \/ (On(u, k, v) /\ u # t /\ hs'[u][k] = hs[u][k])
    /\ \A v : \A u \in Tasks, k \in LocalNames : On(u, k, v) /\ u # t =>
          On(u, k, v)' /\ hs'[u][k] = hs[u][k]
    /\ \A u \in Tasks, k \in LocalNames : Owns(u, k)' =>
          (b /\ u = p /\ k = q) \/ (Owns(u, k) /\ u # t /\ hs'[u][k] = hs[u][k])
    /\ \A v : /\ SharedForGood(v) => SharedForGood(v)'
              /\ SharedByChan(v) => SharedByChan(v)'
              /\ NoOwner(v) => NoOwner(v)'
              /\ Nobody(v) => Nobody(v)'

(* Who holds what after a body has ended.                                  *)
LEMMA EndsHolders ==
    ASSUME ProtocolAssumption, ProtocolInv, NEW t \in Tasks, NEW p, NEW b, NEW n, NEW q, NEW w, NEW g,
           Ends(t, p, b, n, q, w, g)
    PROVE  Departed(t, p, b, n, q, w, g)
<1>1. /\ t # Main /\ Runs(t) /\ ~Waits(t) /\ Undelegated(t)
      /\ \A k \in LocalNames : hs'[t][k] = NoHandle
      /\ \A u \in Tasks, k \in LocalNames : u # t /\ ~(b /\ u = p /\ k = q) => hs'[u][k] = hs[u][k]
  BY DEF Ends
<1>2. b => /\ p \in Tasks /\ p # t /\ Runs(p) /\ q \in LocalNames /\ hs[p][q] = NoHandle
           /\ hs'[p][q] = g /\ n \in LocalNames /\ Owns(t, n) /\ hs[t][n].w = w /\ w \in WorldIds
           /\ hs[t][n].shared = 0 /\ ~Linked(t, n)
           /\ g.st = hs[t][n].st /\ g.con = "none" /\ g.shared = 0 /\ g.chs = 0
           /\ g.links = {} /\ ~g.from /\ g.w = w /\ Usable(g)
  <2> SUFFICES ASSUME b PROVE w \in WorldIds /\ Usable(g)
    BY DEF Ends
  <2>1. n \in LocalNames /\ Owns(t, n) /\ hs[t][n].w = w /\ g.st = hs[t][n].st
    BY DEF Ends
  <2>2. QED
    BY <2>1, UsableRuns DEF Owns, Usable
<1>3. ~Usable(NoHandle)
  BY DEF NoHandle, Usable
<1>4. \A v : \A u \in Tasks, k \in LocalNames : On(u, k, v)' =>
         (b /\ u = p /\ k = q /\ v = w) \/ (On(u, k, v) /\ u # t /\ hs'[u][k] = hs[u][k])
  <2> SUFFICES ASSUME NEW u \in Tasks, NEW k \in LocalNames, NEW v, On(u, k, v)'
               PROVE  (b /\ u = p /\ k = q /\ v = w) \/ (On(u, k, v) /\ u # t /\ hs'[u][k] = hs[u][k])
    OBVIOUS
  <2>1. Usable(hs'[u][k]) /\ hs'[u][k].w = v
    BY DEF On
  <2>2. u # t
    BY <1>1, <1>3, <2>1
  <2>3. QED
    BY <1>1, <1>2, <2>1, <2>2 DEF On
<1>5. \A v : \A u \in Tasks, k \in LocalNames : On(u, k, v) /\ u # t =>
         On(u, k, v)' /\ hs'[u][k] = hs[u][k]
  BY <1>1, <1>2, <1>3 DEF On
<1>6. \A u \in Tasks, k \in LocalNames : Owns(u, k)' =>
         (b /\ u = p /\ k = q) \/ (Owns(u, k) /\ u # t /\ hs'[u][k] = hs[u][k])
  BY <1>1, <1>3 DEF Owns
<1>7. \A u \in Tasks, k \in LocalNames : Delegates(u, k)' = Delegates(u, k)
  BY EndsTasks
<1>8. b => ~SharedForGood(w) /\ ~SharedByChan(w) /\ ~NoOwner(w) /\ ~Nobody(w)
  <2> SUFFICES ASSUME b
               PROVE  ~SharedForGood(w) /\ ~SharedByChan(w) /\ ~NoOwner(w) /\ ~Nobody(w)
    OBVIOUS
  <2>1. n \in LocalNames /\ Owns(t, n) /\ hs[t][n].w = w /\ hs[t][n].shared = 0
    BY <1>2
  <2>2. /\ hs[t][n].chs \in Nat
        /\ SharedForGood(hs[t][n].w) => hs[t][n].shared > hs[t][n].chs
        /\ SharedByChan(hs[t][n].w) => hs[t][n].shared > 0
    BY <2>1, SharesAre
  <2>3. ~SharedForGood(w) /\ ~SharedByChan(w)
    BY <2>1, <2>2
  <2>4. QED
    BY <2>1, <2>3 DEF NoOwner, Nobody, Owns, On
<1>9. \A v : /\ SharedForGood(v) => SharedForGood(v)'
             /\ SharedByChan(v) => SharedByChan(v)'
             /\ NoOwner(v) => NoOwner(v)'
             /\ Nobody(v) => Nobody(v)'
  <2> SUFFICES ASSUME NEW v
               PROVE  /\ SharedForGood(v) => SharedForGood(v)'
                      /\ SharedByChan(v) => SharedByChan(v)'
                      /\ NoOwner(v) => NoOwner(v)'
                      /\ Nobody(v) => Nobody(v)'
    OBVIOUS
  <2>1. CASE b /\ v = w
    BY <1>8, <2>1
  <2>2. CASE ~(b /\ v = w)
    <3>1. \A u \in Tasks, k \in LocalNames : Owns(u, k)' /\ hs'[u][k].w = v =>
             Owns(u, k) /\ hs'[u][k] = hs[u][k]
      BY <1>2, <1>6, <2>2
    <3>2. \A u \in Tasks, k \in LocalNames : On(u, k, v)' => On(u, k, v)
      BY <1>4, <2>2
    <3>3. QED
      BY <1>7, <3>1, <3>2 DEF SharedForGood, SharedByChan, NoOwner, Nobody
  <2>3. QED
    BY <2>1, <2>2
<1>10. QED
  BY <1>1, <1>2, <1>4, <1>5, <1>6, <1>9 DEF Departed

\* The part of the invariant that is about handles alone.
LEMMA EndsHandles ==
    ASSUME ProtocolAssumption, ProtocolInv, NEW t \in Tasks, NEW p, NEW b, NEW n, NEW q, NEW w, NEW g,
           Ends(t, p, b, n, q, w, g)
    PROVE  HandleInv' /\ GhostLinks' /\ Counted' /\ OneOwner' /\ Reality'
<1>0. Departed(t, p, b, n, q, w, g)
  BY EndsHolders
<1>1. /\ t # Main /\ Runs(t) /\ ~Waits(t) /\ Undelegated(t)
      /\ \A k \in LocalNames : hs'[t][k] = NoHandle
      /\ \A u \in Tasks, k \in LocalNames : u # t /\ ~(b /\ u = p /\ k = q) => hs'[u][k] = hs[u][k]
  BY <1>0 DEF Departed
<1>2. b => /\ p \in Tasks /\ p # t /\ Runs(p) /\ q \in LocalNames /\ hs[p][q] = NoHandle
           /\ hs'[p][q] = g /\ n \in LocalNames /\ Owns(t, n) /\ hs[t][n].w = w /\ w \in WorldIds
           /\ hs[t][n].shared = 0 /\ ~Linked(t, n)
           /\ g.st = hs[t][n].st /\ g.con = "none" /\ g.shared = 0 /\ g.chs = 0
           /\ g.links = {} /\ ~g.from /\ g.w = w /\ Usable(g)
  BY <1>0 DEF Departed
<1>3. \A v : \A u \in Tasks, k \in LocalNames : On(u, k, v)' =>
         (b /\ u = p /\ k = q /\ v = w) \/ (On(u, k, v) /\ u # t /\ hs'[u][k] = hs[u][k])
  BY <1>0 DEF Departed
<1>4. \A u \in Tasks, k \in LocalNames : Owns(u, k)' =>
         (b /\ u = p /\ k = q) \/ (Owns(u, k) /\ u # t /\ hs'[u][k] = hs[u][k])
  BY <1>0 DEF Departed
<1>5. /\ ~Runs(t)' /\ tasks' \in [Tasks -> Starts]
      /\ \A u \in Tasks : u # t => tasks'[u] = tasks[u] /\ (Runs(u)' <=> Runs(u))
      /\ \A u \in Tasks, k \in LocalNames : Delegates(u, k)' = Delegates(u, k)
  BY EndsTasks
<1>6. real' = real
  BY DEF Ends
<1>7. \A u \in Tasks, k \in LocalNames : /\ hs[u][k] = NoHandle => hs[u][k].links = {} /\ ~Usable(hs[u][k])
                                         /\ hs'[u][k] = NoHandle => hs'[u][k].links = {} /\ ~Usable(hs'[u][k])
  BY DEF NoHandle, Usable
<1>8. HandleInv'
  <2> SUFFICES ASSUME NEW u \in Tasks, NEW k \in LocalNames PROVE HandleOk(u, k)'
    BY DEF HandleInv
  <2>1. CASE u = t
    <3>1. hs'[u][k] = NoHandle
      BY <1>1, <2>1
    <3>2. QED
      BY <3>1 DEF HandleOk, NoHandle, Borrowed
  <2>2. CASE b /\ u = p /\ k = q
    BY <1>2, <1>5, <2>2 DEF HandleOk, Borrowed, Usable
  <2>3. CASE u # t /\ ~(b /\ u = p /\ k = q)
    BY <1>1, <1>5, <2>3 DEF HandleOk, ProtocolInv, HandleInv
  <2>4. QED
    BY <2>1, <2>2, <2>3
<1>9. GhostLinks'
  <2> SUFFICES ASSUME NEW u \in Tasks, NEW k \in LocalNames, NEW m \in LocalNames,
                      m \in hs'[u][k].links
               PROVE  LinkOk(u, k, m)'
    BY DEF GhostLinks
  <2>1. u # t /\ hs'[u][k] = hs[u][k]
    BY <1>1, <1>2, <1>7
  <2>2. LinkOk(u, k, m)
    BY <2>1 DEF ProtocolInv, GhostLinks
  <2>3. hs'[u][m] = hs[u][m]
    BY <1>1, <1>2, <1>7, <2>1, <2>2 DEF LinkOk, Owns
  <2>4. QED
    BY <1>6, <2>1, <2>2, <2>3 DEF LinkOk, Owns
<1>10. Counted'
  <2> SUFFICES ASSUME NEW u \in Tasks, NEW k \in LocalNames, Runs(u)'
               PROVE  hs'[u][k].shared >= hs'[u][k].chs + Cardinality(Delegates(u, k))
    BY <1>5 DEF Counted
  <2>1. u # t /\ Runs(u)
    BY <1>5
  <2>2. hs[u][k].shared >= hs[u][k].chs + Cardinality(Delegates(u, k))
    BY <2>1 DEF ProtocolInv, Counted
  <2>3. CASE b /\ u = p /\ k = q
    <3>1. hs[u][k].shared = 0 /\ hs[u][k].chs = 0
      BY <1>2, <2>3 DEF NoHandle
    <3>2. hs'[u][k].shared = 0 /\ hs'[u][k].chs = 0
      BY <1>2, <2>3
    <3>3. QED
      BY <2>2, <3>1, <3>2
  <2>4. CASE ~(b /\ u = p /\ k = q)
    BY <1>1, <2>1, <2>2, <2>4
  <2>5. QED
    BY <2>3, <2>4
<1>11. OneOwner'
  <2> SUFFICES ASSUME NEW u \in Tasks, NEW v \in Tasks, NEW k \in LocalNames, NEW m \in LocalNames,
                      Owns(u, k)', Owns(v, m)', hs'[u][k].w = hs'[v][m].w
               PROVE  u = v /\ k = m
    BY DEF OneOwner
  <2>1. CASE b /\ u = p /\ k = q
    BY <1>2, <1>4, <2>1 DEF ProtocolInv, OneOwner
  <2>2. CASE b /\ v = p /\ m = q
    BY <1>2, <1>4, <2>2 DEF ProtocolInv, OneOwner
  <2>3. CASE ~(b /\ u = p /\ k = q) /\ ~(b /\ v = p /\ m = q)
    BY <1>4, <2>3 DEF ProtocolInv, OneOwner
  <2>4. QED
    BY <2>1, <2>2, <2>3
<1>12. b => \A v \in WorldIds : w \notin real[v].links
  <2> SUFFICES ASSUME b PROVE \A v \in WorldIds : w \notin real[v].links
    OBVIOUS
  <2>1. n \in LocalNames /\ Owns(t, n) /\ ~Linked(t, n) /\ hs[t][n].w = w
    BY <1>2
  <2>2. \A v \in WorldIds : hs[t][n].w \notin real[v].links
    BY <2>1, UnlinkedIs
  <2>3. QED
    BY <2>1, <2>2
<1>13. ASSUME NEW v \in WorldIds PROVE RealOk(v)'
  <2>1. RealOk(v)
    BY DEF ProtocolInv, Reality
  <2> SUFFICES ASSUME NEW x \in real[v].links, NEW u \in Tasks, NEW m \in LocalNames, On(u, m, x)'
               PROVE  /\ hs'[u][m].con = "mutable" => tasks'[u].how = "call"
                      /\ Owns(u, m)' => \E k \in LocalNames : m \in hs'[u][k].links /\ hs'[u][k].w = v
    BY <1>6, <2>1 DEF RealOk
  <2>2. On(u, m, x) /\ u # t /\ hs'[u][m] = hs[u][m] /\ tasks'[u] = tasks[u]
    BY <1>3, <1>5, <1>12
  <2>3. hs'[u][m].con = "mutable" => tasks'[u].how = "call"
    BY <2>1, <2>2 DEF RealOk
  <2>4. ASSUME Owns(u, m)' PROVE \E k \in LocalNames : m \in hs'[u][k].links /\ hs'[u][k].w = v
    <3>1. Owns(u, m)
      BY <2>2, <2>4 DEF Owns
    <3>2. PICK k \in LocalNames : m \in hs[u][k].links /\ hs[u][k].w = v
      BY <2>1, <2>2, <3>1 DEF RealOk
    <3>3. hs'[u][k] = hs[u][k]
      BY <1>1, <1>2, <1>7, <2>2, <3>2
    <3>4. QED
      BY <3>2, <3>3
  <2>5. QED
    BY <2>3, <2>4
<1>14. ASSUME NEW u \in Tasks, NEW k \in LocalNames, Usable(hs'[u][k])
       PROVE  real[hs'[u][k].w].st = hs'[u][k].st
  <2>1. CASE b /\ u = p /\ k = q
    <3>1. n \in LocalNames /\ Usable(hs[t][n])
      BY <1>2, <2>1 DEF Owns
    <3>2. real[hs[t][n].w].st = hs[t][n].st
      BY <3>1, UsableRuns
    <3>3. QED
      BY <1>2, <2>1, <3>2
  <2>2. CASE ~(b /\ u = p /\ k = q)
    <3>1. u # t
      BY <1>1, <1>7, <1>14
    <3>2. hs'[u][k] = hs[u][k]
      BY <1>1, <2>2, <3>1
    <3>3. QED
      BY <1>14, <3>2, UsableRuns
  <2>3. QED
    BY <2>1, <2>2
<1>15. Reality'
  BY <1>6, <1>13, <1>14 DEF Reality
<1>16. QED
  BY <1>8, <1>9, <1>10, <1>11, <1>15


\* The part of the invariant that is about where worlds were borrowed from.
LEMMA EndsSources ==
    ASSUME ProtocolAssumption, ProtocolInv, NEW t \in Tasks, NEW p, NEW b, NEW n, NEW q, NEW w, NEW g,
           Ends(t, p, b, n, q, w, g)
    PROVE  Sources' /\ Chains' /\ Passed'
<1>0. Departed(t, p, b, n, q, w, g)
  BY EndsHolders
<1>1. /\ t # Main /\ Runs(t) /\ ~Waits(t) /\ Undelegated(t)
      /\ \A k \in LocalNames : hs'[t][k] = NoHandle
      /\ \A u \in Tasks, k \in LocalNames : u # t /\ ~(b /\ u = p /\ k = q) => hs'[u][k] = hs[u][k]
  BY <1>0 DEF Departed
<1>2. b => /\ p \in Tasks /\ p # t /\ Runs(p) /\ q \in LocalNames /\ hs[p][q] = NoHandle
           /\ hs'[p][q] = g /\ n \in LocalNames /\ Owns(t, n) /\ hs[t][n].w = w /\ w \in WorldIds
           /\ hs[t][n].shared = 0
           /\ g.st = hs[t][n].st /\ g.con = "none" /\ g.w = w
  BY <1>0 DEF Departed
<1>3. \A v : \A u \in Tasks, k \in LocalNames : On(u, k, v)' =>
         (b /\ u = p /\ k = q /\ v = w) \/ (On(u, k, v) /\ u # t /\ hs'[u][k] = hs[u][k])
  BY <1>0 DEF Departed
<1>4. \A v : \A u \in Tasks, k \in LocalNames : On(u, k, v) /\ u # t =>
         On(u, k, v)' /\ hs'[u][k] = hs[u][k]
  BY <1>0 DEF Departed
<1>5. \A u \in Tasks, k \in LocalNames : Owns(u, k)' =>
         (b /\ u = p /\ k = q) \/ (Owns(u, k) /\ u # t /\ hs'[u][k] = hs[u][k])
  BY <1>0 DEF Departed
<1>6. \A v : /\ SharedForGood(v) => SharedForGood(v)'
             /\ SharedByChan(v) => SharedByChan(v)'
             /\ NoOwner(v) => NoOwner(v)'
  BY <1>0 DEF Departed
<1>7. /\ \A u \in Tasks : u # t => tasks'[u] = tasks[u]
      /\ \A u, d \in Tasks : CallOf(d, u) => u # t /\ (d # t => CallOf(d, u)')
  BY EndsTasks
<1>8. NoHandle.con = "none" /\ NoHandle.st = "none"
  BY DEF NoHandle
<1>9. \A u \in Tasks : TaskOk(u)
  BY DEF ProtocolInv, TaskInv
<1>10. \A u \in Tasks, k \in LocalNames : hs'[u][k].con \in {"frozen", "mutable"} =>
          u # t /\ hs'[u][k] = hs[u][k] /\ Runs(u) /\ Usable(hs[u][k])
  <2> SUFFICES ASSUME NEW u \in Tasks, NEW k \in LocalNames, hs'[u][k].con \in {"frozen", "mutable"}
               PROVE  u # t /\ hs'[u][k] = hs[u][k] /\ Runs(u) /\ Usable(hs[u][k])
    OBVIOUS
  <2>1. u # t /\ hs'[u][k] = hs[u][k]
    BY <1>1, <1>2, <1>8
  <2>2. QED
    BY <2>1, UsableRuns DEF Borrowed
<1>11. \A u \in Tasks : Runs(u) /\ tasks[u].how = "call" => tasks[u].by \in Tasks /\ tasks[u].by # t
  BY <1>7, <1>9 DEF TaskOk, CallOf
<1>12. Sources'
  <2> SUFFICES ASSUME NEW u \in Tasks, NEW k \in LocalNames, Borrowed(hs'[u][k])
               PROVE  SourceOk(u, k)'
    BY DEF Sources
  <2>1. u # t /\ hs'[u][k] = hs[u][k] /\ tasks'[u] = tasks[u] /\ Runs(u)
    BY <1>7, <1>10 DEF Borrowed
  <2>2. PICK x, r : x = hs[u][k].w /\ r = tasks[u].by
    OBVIOUS
  <2>3. SourceOk(u, k)
    BY <2>1 DEF ProtocolInv, Sources
  <2>4. CASE hs[u][k].from
    BY <1>6, <2>1, <2>3, <2>4 DEF SourceOk
  <2>5. CASE ~hs[u][k].from
    <3>1. tasks[u].how = "call" => \E m \in LocalNames : On(r, m, x)'
      BY <1>4, <1>11, <2>1, <2>2, <2>3, <2>5 DEF SourceOk
    <3>2. tasks[u].how = "bg" => SharedForGood(x)'
      BY <1>6, <2>2, <2>3, <2>5 DEF SourceOk
    <3>3. ASSUME tasks[u].how = "go"
          PROVE  \/ tasks[u].world \in LocalNames /\ On(r, tasks[u].world, x)'
                 \/ NoOwner(x)'
      <4>1. r \in Tasks
        BY <1>9, <2>2, <3>3 DEF TaskOk
      <4>2. CASE NoOwner(x)
        BY <1>6, <4>2
      <4>3. CASE ~NoOwner(x)
        <5>1. PICK d \in LocalNames : d = tasks[u].world /\ On(r, d, x)
          BY <2>2, <2>3, <2>5, <3>3, <4>3 DEF SourceOk
        <5>2. CASE r # t
          BY <1>4, <2>1, <4>1, <5>1, <5>2
        <5>3. CASE r = t
          <6>1. u \in Delegates(t, d)
            BY <1>9, <2>1, <2>2, <5>1, <5>3 DEF Delegates, TaskOk, Runs
          <6>2. real[x].st = "frozen" /\ hs[t][d].st = "frozen" /\ hs[t][d].w = x /\ Usable(hs[t][d])
            BY <2>1, <2>2, <5>1, <5>3, UsableRuns DEF On
          <6>3. hs[t][d] \in Handles
            BY DEF ProtocolInv, ProtocolTypes
          <6>4. ~Borrowed(hs[t][d])
            <7> SUFFICES ASSUME Borrowed(hs[t][d]) PROVE FALSE
              OBVIOUS
            <7>1. hs[t][d].shared = 0 /\ hs[t][d].chs \in Nat
              BY <1>1, <6>3 DEF Undelegated, Handles
            <7>2. PICK a \in Nat : a = Cardinality(Delegates(t, d))
              BY DelegatesFinite
            <7>3. a # 0
              BY <6>1, <7>2, DelegatesFinite, FS_EmptySet
            <7>4. hs[t][d].shared >= hs[t][d].chs + a
              BY <1>1, <7>2 DEF ProtocolInv, Counted
            <7>5. QED
              BY <7>1, <7>3, <7>4
          <6>5. Owns(t, d)
            BY <6>2, <6>3, <6>4, UsableRuns DEF Owns, Handles, Contracts, Borrowed
          <6>6. hs[t][d].shared > hs[t][d].chs /\ hs[t][d].shared \in Nat /\ hs[t][d].chs \in Nat
            BY <6>1, <6>5, SharesAre
          <6>7. ASSUME NEW v \in Tasks, NEW m \in LocalNames, Owns(v, m)', hs'[v][m].w = x PROVE FALSE
            <7>1. CASE b /\ v = p /\ m = q
              <8>1. n \in LocalNames /\ Owns(t, n) /\ hs[t][n].w = x /\ hs[t][n].shared = 0
                BY <1>2, <6>7, <7>1
              <8>2. n = d
                BY <6>2, <6>5, <8>1 DEF ProtocolInv, OneOwner
              <8>3. QED
                BY <6>6, <8>1, <8>2
            <7>2. CASE ~(b /\ v = p /\ m = q)
              <8>1. Owns(v, m) /\ v # t /\ hs[v][m].w = x
                BY <1>5, <6>7, <7>2
              <8>2. QED
                BY <6>2, <6>5, <8>1 DEF ProtocolInv, OneOwner
            <7>3. QED
              BY <7>1, <7>2
          <6>8. QED
            BY <6>7 DEF NoOwner
        <5>4. QED
          BY <5>2, <5>3
      <4>4. QED
        BY <4>2, <4>3
    <3>4. QED
      BY <2>1, <2>2, <2>5, <3>1, <3>2, <3>3 DEF SourceOk
  <2>6. QED
    BY <2>4, <2>5
<1>13. ASSUME NEW u \in Tasks, NEW v \in Tasks, NEW k \in LocalNames, NEW m \in LocalNames,
              hs'[u][k].st = "mutable", On(v, m, hs[u][k].w)'
       PROVE  ChainOk(u, k, v, m)'
  <2>1. CASE b /\ u = p /\ k = q
    <3>1. Owns(t, n) /\ hs[t][n].st = "mutable" /\ hs[t][n].w = w /\ n \in LocalNames /\ hs'[u][k].w = w
      BY <1>2, <1>13, <2>1
    <3>3. Usable(hs'[v][m]) /\ hs'[v][m].w = w
      BY <1>13, <3>1 DEF On
    <3>4. On(v, m, w)'
      BY <3>3 DEF On
    <3>5. ~(On(v, m, w) /\ v # t)
      BY <1>1, <3>1, SoleWriter
    <3>6. v = u /\ m = k
      BY <1>3, <2>1, <3>4, <3>5
    <3>7. ~(u < v)
      BY <3>6 DEF ProtocolAssumption
    <3>8. QED
      BY <3>6, <3>7 DEF ChainOk
  <2>2. CASE ~(b /\ u = p /\ k = q)
    <3>1. u # t /\ hs'[u][k] = hs[u][k]
      BY <1>1, <1>8, <1>13, <2>2
    <3>2. PICK x : x = hs[u][k].w
      OBVIOUS
    <3>3. On(u, k, x) /\ real[x].st = "mutable" /\ hs[u][k].st = "mutable"
      BY <1>13, <3>1, <3>2, UsableRuns DEF On
    <3>4. On(v, m, x)'
      BY <1>13, <3>1, <3>2 DEF On
    <3>5. On(v, m, x) /\ v # t /\ hs'[v][m] = hs[v][m]
      <4>1. CASE b /\ v = p /\ m = q /\ x = w
        <5>1. Owns(t, n) /\ n \in LocalNames /\ hs[t][n].w = x
          BY <1>2, <4>1
        <5>2. hs[t][n].st = "mutable"
          BY <3>3, <5>1, UsableRuns DEF Owns
        <5>3. u = t
          BY <1>1, <3>3, <5>1, <5>2, SoleWriter
        <5>4. QED
          BY <3>1, <5>3
      <4>2. QED
        BY <1>3, <3>4, <4>1
    <3>6. ChainOk(u, k, v, m)
      BY <3>2, <3>3, <3>5 DEF ProtocolInv, Chains
    <3>7. Above(u, v, x) => Above(u, v, x)'
      <4> SUFFICES ASSUME Above(u, v, x) PROVE Above(u, v, x)'
        OBVIOUS
      <4>1. PICK c \in Tasks : /\ CallOf(c, u) /\ c <= v /\ On(c, 1, x) /\ hs[c][1].con = "mutable"
        BY DEF Above
      <4>2. 1 \in LocalNames
        BY DEF ProtocolAssumption
      <4>3. c # t
        <5> SUFFICES ASSUME c = t PROVE FALSE
          OBVIOUS
        <5>1. t < v
          <6>1. t \in Nat /\ v \in Nat
            BY DEF ProtocolAssumption
          <6>2. t <= v /\ t # v
            BY <3>5, <4>1
          <6>3. QED
            BY <6>1, <6>2
        <5>2. hs[t][1].st = "mutable" /\ hs[t][1].w = x
          BY <4>1, <4>2, UsableRuns DEF On
        <5>3. ChainOk(t, 1, v, m)
          BY <3>5, <4>2, <5>2 DEF ProtocolInv, Chains
        <5>4. QED
          BY <1>7, <5>1, <5>3 DEF ChainOk, Above
      <4>4. CallOf(c, u)' /\ On(c, 1, x)' /\ hs'[c][1].con = "mutable"
        BY <1>4, <1>7, <4>1, <4>2, <4>3
      <4>5. QED
        BY <4>1, <4>4 DEF Above
    <3>8. QED
      BY <1>7, <3>1, <3>2, <3>5, <3>6, <3>7 DEF ChainOk
  <2>3. QED
    BY <2>1, <2>2
<1>14. Chains'
  BY <1>13 DEF Chains, On
<1>15. Passed'
  <2> SUFFICES ASSUME NEW u \in Tasks, NEW k \in LocalNames,
                      hs'[u][k].con = "mutable", tasks'[u].how = "call"
               PROVE  \E m \in LocalNames : On(tasks[u].by, m, hs[u][k].w)'
    BY DEF Passed
  <2>1. u # t /\ hs'[u][k] = hs[u][k] /\ tasks'[u] = tasks[u] /\ Runs(u)
    BY <1>7, <1>10
  <2>2. PICK x, r : x = hs[u][k].w /\ r = tasks[u].by
    OBVIOUS
  <2>3. r \in Tasks /\ r # t
    BY <1>11, <2>1, <2>2
  <2>4. PICK m \in LocalNames : On(r, m, x)
    BY <2>1, <2>2 DEF ProtocolInv, Passed
  <2>5. On(r, m, x)'
    BY <1>4, <2>3, <2>4
  <2>6. QED
    BY <2>1, <2>2, <2>5 DEF On
<1>16. QED
  BY <1>12, <1>14, <1>15

(* The end of a body keeps the invariant: the delegations of its borrowed  *)
(* worlds have been given back.                                            *)
LEMMA EndStep ==
    ASSUME ProtocolAssumption, ProtocolInv, WorldHoles = {}, NEW t \in Tasks, CanStep(t), End(t)
    PROVE  ProtocolInv'
<1>1. PICK p, b, n, q, w, g : Ends(t, p, b, n, q, w, g)
  BY EndIs
<1>2. Departed(t, p, b, n, q, w, g)
  BY <1>1, EndsHolders
<1>3. /\ t # Main /\ ax' = [ax EXCEPT ![t] = "none"]
      /\ UNCHANGED <<ch, queue, real, refused>>
      /\ hs' \in [Tasks -> [LocalNames -> Handles]]
  BY <1>1 DEF Ends
<1>4. HandleInv' /\ GhostLinks' /\ Counted' /\ OneOwner' /\ Reality'
  BY <1>1, EndsHandles
<1>5. Sources' /\ Chains' /\ Passed'
  BY <1>1, EndsSources
<1>6. /\ TaskInv' /\ tasks' \in [Tasks -> Starts]
      /\ \A u \in Tasks : u # t => tasks'[u] = tasks[u] /\ (Runs(u)' <=> Runs(u))
  BY <1>1, EndsTasks
<1>7. ax' \in [Tasks -> {"none", "frozen", "owned"}] /\ ax'[t] = "none"
      /\ \A u \in Tasks : u # t => ax'[u] = ax[u]
  BY <1>3 DEF ProtocolInv, ProtocolTypes
<1>8. ProtocolTypes'
  BY <1>3, <1>6, <1>7 DEF ProtocolInv, ProtocolTypes
<1>9. \A u \in Tasks : ax'[u] # "none" => u # t /\ ax'[u] = ax[u]
  BY <1>7
<1>10. \A v : (SharedByChan(v) => SharedByChan(v)') /\ (Nobody(v) => Nobody(v)')
  BY <1>2 DEF Departed
<1>11. ASSUME NEW i \in DOMAIN queue PROVE QueueOk(i)'
  <2>1. QueueOk(i)
    BY DEF ProtocolInv, Channel
  <2>2. PICK x : x = queue[i]
    OBVIOUS
  <2>3. SharedByChan(x)' /\ (Nobody(x) => Nobody(x)')
    BY <1>10, <2>1, <2>2 DEF QueueOk
  <2>4. QED
    BY <1>3, <1>9, <2>1, <2>2, <2>3 DEF QueueOk
<1>12. Channel'
  <2>1. Main \in Tasks
    BY DEF ProtocolAssumption
  <2>2. Channel
    BY DEF ProtocolInv
  <2>3. \A u \in Tasks : ax'[u] # "none" => Runs(u)' /\ (u = Main \/ tasks'[u].carrier)
    BY <1>6, <1>9, <2>2 DEF Channel
  <2>4. /\ \A u, v \in Tasks : ax'[u] # "none" /\ ax'[v] # "none" => ax'[u] = ax'[v]
        /\ \A u \in Tasks : ax'[u] # "none" => ax'[Main] # "none"
    BY <1>3, <1>7, <1>9, <2>1, <2>2 DEF Channel
  <2>5. ch'.ghost \in {"none", "never"} =>
           (\A u \in Tasks : ax'[u] = "none") /\ queue' = <<>> /\ ~ch'.expired
    BY <1>3, <1>9, <2>2 DEF Channel
  <2>6. QED
    BY <1>3, <1>11, <2>3, <2>4, <2>5 DEF Channel
<1>13. QED
  BY <1>3, <1>4, <1>5, <1>6, <1>8, <1>12 DEF ProtocolInv


(* Every statement that the verifier accepts keeps the invariant.          *)
LEMMA ProtocolStep ==
    ASSUME ProtocolAssumption, ProtocolInv, WorldHoles = {}, [ProtocolNext]_pvars
    PROVE  ProtocolInv'
<1>1. CASE UNCHANGED pvars
  <2>1. /\ hs' = hs /\ tasks' = tasks /\ ax' = ax /\ ch' = ch /\ queue' = queue /\ real' = real
        /\ refused' = refused
    BY <1>1 DEF pvars
  <2>2. Calm
    BY <2>1, IdleIsCalm
  <2>3. /\ HandleInv' /\ GhostLinks' /\ Counted' /\ Sources' /\ Chains' /\ Passed'
        /\ OneOwner' /\ Reality'
        /\ \A w : SharedByChan(w) => SharedByChan(w)'
        /\ \A w : Nobody(w) => Nobody(w)'
    BY <2>2, CalmKeeps
  <2>4. TaskInv' /\ \A u \in Tasks : Runs(u)' <=> Runs(u)
    BY <2>1, SameTasks
  <2>5. Channel'
    BY <2>1, <2>3, <2>4 DEF ProtocolInv, Channel, QueueOk
  <2>6. ProtocolTypes'
    BY <2>1 DEF ProtocolInv, ProtocolTypes
  <2>7. QED
    BY <2>1, <2>3, <2>4, <2>5, <2>6 DEF ProtocolInv
<1>2. CASE ProtocolNext
  <2>1. PICK t \in Tasks : CanStep(t) /\ (WorldOp(t) \/ TaskOp(t) \/ ChanOp(t))
    BY <1>2 DEF ProtocolNext
  <2>2. CASE WorldOp(t)
    <3>1. CASE New(t)
      BY <2>1, <3>1, NewStep
    <3>2. CASE \E n \in LocalNames : Freeze(t, n) \/ Free(t, n)
      <4>1. PICK n \in LocalNames : Freeze(t, n) \/ Free(t, n)
        BY <3>2
      <4>2. CASE Freeze(t, n)
        BY <2>1, <4>2, FreezeStep
      <4>3. CASE Free(t, n)
        BY <2>1, <4>3, FreeStep
      <4>4. QED
        BY <4>1, <4>2, <4>3
    <3>3. CASE \E n, m \in LocalNames : Link(t, n, m) \/ Unlink(t, n, m)
      <4>1. PICK n \in LocalNames, m \in LocalNames : Link(t, n, m) \/ Unlink(t, n, m)
        BY <3>3
      <4>2. CASE Link(t, n, m)
        BY <2>1, <4>2, LinkStep
      <4>3. CASE Unlink(t, n, m)
        BY <2>1, <4>3, UnlinkStep
      <4>4. QED
        BY <4>1, <4>2, <4>3
    <3>4. QED
      BY <2>2, <3>1, <3>2, <3>3 DEF WorldOp
  <2>3. CASE TaskOp(t)
    <3>1. CASE \E n \in LocalNames, kind \in Contracts, how \in {"go", "bg"} : Pass(t, n, kind, how, "none")
      <4>1. PICK n \in LocalNames, kind \in Contracts, how \in {"go", "bg"} : Pass(t, n, kind, how, "none")
        BY <3>1
      <4>2. how \in {"go", "bg", "call"} /\ how # "call" /\ "none" \in {"none", "frozen", "owned"}
        OBVIOUS
      <4>3. QED
        BY <2>1, <4>1, <4>2, PassStep
    <3>2. CASE \E n \in LocalNames, kind \in Contracts, out \in {"none", "frozen", "owned"} :
                  Pass(t, n, kind, "call", out)
      <4>1. PICK n \in LocalNames, kind \in Contracts, out \in {"none", "frozen", "owned"} :
                  Pass(t, n, kind, "call", out)
        BY <3>2
      <4>2. QED
        BY <2>1, <4>1, PassStep
    <3>3. CASE \E out \in {"frozen", "owned"} : CallMaker(t, out)
      <4>1. PICK out \in {"frozen", "owned"} : CallMaker(t, out)
        BY <3>3
      <4>2. QED
        BY <2>1, <4>1, CallMakerStep
    <3>4. CASE \E how \in {"go", "bg", "call"} : PassChan(t, how)
      <4>1. PICK how \in {"go", "bg", "call"} : PassChan(t, how)
        BY <3>4
      <4>2. QED
        BY <2>1, <4>1, PassChanStep
    <3>5. CASE \E c \in Tasks : Join(t, c) \/ Detach(t, c)
      <4>1. PICK c \in Tasks : Join(t, c) \/ Detach(t, c)
        BY <3>5
      <4>2. CASE Join(t, c)
        BY <2>1, <4>2, JoinStep
      <4>3. CASE Detach(t, c)
        BY <2>1, <4>3, DetachStep
      <4>4. QED
        BY <4>1, <4>2, <4>3
    <3>6. CASE End(t)
      BY <2>1, <3>6, EndStep
    <3>7. QED
      BY <2>3, <3>1, <3>2, <3>3, <3>4, <3>5, <3>6 DEF TaskOp
  <2>4. CASE ChanOp(t)
    <3>1. CASE \E kind \in {"frozen", "owned"} : NewChan(kind)
      BY <3>1, NewChanStep
    <3>2. CASE \E n \in LocalNames : SendWorld(t, n)
      BY <2>1, <3>2, SendWorldStep
    <3>3. CASE RecvWorld(t)
      BY <2>1, <3>3, RecvWorldStep
    <3>4. CASE CloseChan(t)
      BY <2>1, <3>4, CloseChanStep
    <3>5. QED
      BY <2>4, <3>1, <3>2, <3>3, <3>4 DEF ChanOp
  <2>5. QED
    BY <2>1, <2>2, <2>3, <2>4
<1>3. QED
  BY <1>1, <1>2

-----------------------------------------------------------------------------
(* What the ghost states say is true in every program that the verifier    *)
(* accepts: no world is used after it is freed, none is written while      *)
(* another body may read it, and the run time refuses no operation         *)
(* (WorldsSafe). It is for any number of bodies, locals and worlds and     *)
(* any capacity of the channel, and for programs without the shapes in     *)
(* WorldHoles.                                                             *)
THEOREM AcceptedProgramsAreSafe ==
    ASSUME ProtocolAssumption, WorldHoles = {}
    PROVE  ProtocolSpec => []WorldsSafe
<1>1. ProtocolInit => ProtocolInv
  BY InitInv
<1>2. ProtocolInv /\ [ProtocolNext]_pvars => ProtocolInv'
  BY ProtocolStep
<1>3. ProtocolInv => WorldsSafe
  BY InvIsSafe
<1>4. QED
  BY <1>1, <1>2, <1>3, PTL DEF ProtocolSpec
=============================================================================

---------------------------- MODULE WorldLinks ----------------------------
(***************************************************************************)
(* Links between worlds (world_link, world_unlink, world_free): a directed *)
(* graph that must stay acyclic, with a counter linked_by in every target  *)
(* so that a linked world is not freed.  A world belongs to the thread     *)
(* that made it until it is frozen; a frozen world may be the target of    *)
(* any thread's links.  Nothing here is locked: linked_by++ and            *)
(* linked_by-- are plain reads and writes, and world_reaches walks through *)
(* the tables of other threads' worlds while they may change.              *)
(***************************************************************************)
EXTENDS Integers, Sequences, FiniteSets

CONSTANTS Worlds, LinkThreads,
          MaxDepth, MaxSteps,   \* the budget of world_reaches (64, 10000)
          MaxRaces              \* bound of the model: how many worlds are raced for

\* What the constants are assumed to be; the words for a thread's job name no world.
LinksAssumption ==
    /\ IsFiniteSet(Worlds) /\ IsFiniteSet(LinkThreads)
    /\ Worlds \cap {"idle", "walk", "stale", "count"} = {}
    /\ MaxDepth \in Nat /\ MaxSteps \in Nat

VARIABLES owner,      \* the thread that made the world
          wstate,     \* "none", "open", "frozen", "freed"
          links, linked_by,
          calls,      \* what the thread's call has still to do
          raced       \* the worlds that two calls have raced for

linksVars == <<owner, wstate, links, linked_by, calls, raced>>

\* A call walks from the world in ws for a link out of from, and then adds d to
\* the counters of ws one by one; got is what it has read of one.
Idle == [job |-> "idle", from |-> "idle", ws |-> {}, d |-> 0, got |-> -1]
Walking(o, w) == [job |-> "walk", from |-> o, ws |-> {w}, d |-> 1, got |-> -1]
Counting(ws, d) == IF ws = {} THEN Idle
                   ELSE [job |-> "count", from |-> "idle", ws |-> ws, d |-> d, got |-> -1]

LinksInit == /\ owner \in [Worlds -> LinkThreads]
             /\ wstate = [w \in Worlds |-> "none"]
             /\ links = [w \in Worlds |-> {}]
             /\ linked_by = [w \in Worlds |-> 0]
             /\ calls = [t \in LinkThreads |-> Idle]
             /\ raced = {}

Alive(w) == wstate[w] \in {"open", "frozen"}

\* The calls that world_reaches makes from a before it gives up on depth.
Walks(a) == {p \in UNION {[1..n -> Worlds] : n \in 1..(MaxDepth + 2)} :
                /\ p[1] = a
                /\ \A i \in 1..(Len(p) - 1) : p[i + 1] \in links[p[i]]}

\* Mutant: only direct links of the target are looked at.
ReachesDirect(a, t) == t \in links[a]

\* world_reaches: a walk to t, or a search that runs out of budget.
Reaches(a, t) ==
    \/ \E p \in Walks(a) : t \in links[p[Len(p)]] \/ Len(p) > MaxDepth + 1
    \/ Cardinality(Walks(a)) > MaxSteps

\* The table of o changes under the walks of other threads that pass it.
Disturbed(t, o) ==
    [u \in LinkThreads |->
        IF u # t /\ calls[u].job = "walk" /\ \E w \in calls[u].ws : \E p \in Walks(w) : p[Len(p)] = o
        THEN [calls[u] EXCEPT !.job = "stale"] ELSE calls[u]]

WorldNew(t, w) == /\ calls[t] = Idle /\ owner[w] = t
                  /\ wstate[w] = "none"
                  /\ wstate' = [wstate EXCEPT ![w] = "open"]
                  /\ UNCHANGED <<owner, links, linked_by, calls, raced>>

FreezeWorld(t, w) == /\ calls[t] = Idle /\ owner[w] = t
                     /\ wstate[w] = "open"
                     /\ wstate' = [wstate EXCEPT ![w] = "frozen"]
                     /\ UNCHANGED <<owner, links, linked_by, calls, raced>>

CanTarget(t, w) == Alive(w) /\ (owner[w] = t \/ wstate[w] = "frozen")

\* world_link, up to the search for a cycle.  The error exits are steps the
\* program does not take; a link that is there already is left alone.
WorldLink(t, o, w) ==
    /\ calls[t] = Idle /\ owner[o] = t
    /\ wstate[o] = "open" /\ CanTarget(t, w)
    /\ o # w /\ w \notin links[o]
    /\ calls' = [calls EXCEPT ![t] = Walking(o, w)]
    /\ UNCHANGED <<owner, wstate, links, linked_by, raced>>

\* The search has found no cycle and the link is stored.  A search through a
\* table that has changed meanwhile may have missed a link or seen one that is
\* gone; one through freed memory is not followed.
LinkStore(t, o, w) ==
    /\ calls[t] \in {Walking(o, w), [Walking(o, w) EXCEPT !.job = "stale"]}
    /\ \A p \in Walks(w) : Alive(p[Len(p)])
    /\ calls[t].job = "walk" => ~Reaches(w, o)
    /\ links' = [links EXCEPT ![o] = @ \cup {w}]
    /\ raced' = IF Reaches(w, o) THEN raced \cup {o} ELSE raced
    /\ calls' = [Disturbed(t, o) EXCEPT ![t] = Counting({w}, 1)]
    /\ UNCHANGED <<owner, wstate, linked_by>>

WorldUnlink(t, o, w) ==
    /\ calls[t] = Idle /\ owner[o] = t
    /\ wstate[o] = "open"
    /\ w \in links[o]
    /\ links' = [links EXCEPT ![o] = @ \ {w}]
    /\ calls' = [Disturbed(t, o) EXCEPT ![t] = Counting({w}, -1)]
    /\ UNCHANGED <<owner, wstate, linked_by, raced>>

MayFree(w) == linked_by[w] <= 0

\* world_free: refused while linked_by > 0.  The program has no name for the
\* world from here on, and is in no world_link to it; its targets are then
\* counted down one by one.
WorldFree(t, w) ==
    /\ calls[t] = Idle /\ owner[w] = t
    /\ \A u \in LinkThreads : calls[u].d = 1 => w \notin calls[u].ws
    /\ Alive(w) /\ MayFree(w)
    /\ wstate' = [wstate EXCEPT ![w] = "freed"]
    /\ links' = [links EXCEPT ![w] = {}]
    /\ calls' = [Disturbed(t, w) EXCEPT ![t] = Counting(links[w], -1)]
    /\ UNCHANGED <<owner, linked_by, raced>>

\* Some thread has read the counter and not written it back.
InUpdate(w) == \E t \in LinkThreads : calls[t].job = w

\* linked_by is read, which is a race while it is in update ...
CountRead(t, w) ==
    /\ calls[t].job = "count" /\ w \in calls[t].ws /\ Alive(w)
    /\ calls' = [calls EXCEPT ![t] = [@ EXCEPT !.job = w, !.got = linked_by[w]]]
    /\ InUpdate(w) => w \notin raced /\ Cardinality(raced) < MaxRaces
    /\ raced' = IF InUpdate(w) THEN raced \cup {w} ELSE raced
    /\ UNCHANGED <<owner, wstate, links, linked_by>>

\* Mutant: linked_by is not counted down.
CountWriteUp(t, w) ==
    /\ calls[t].job = w /\ Alive(w)
    /\ linked_by' = [linked_by EXCEPT ![w] = IF calls[t].d > 0 THEN calls[t].got + 1 ELSE @]
    /\ calls' = [calls EXCEPT ![t] = Counting(@.ws \ {w}, @.d)]
    /\ UNCHANGED <<owner, wstate, links, raced>>

\* ... and written back.
CountWrite(t, w) ==
    /\ calls[t].job = w /\ Alive(w)
    /\ linked_by' = [linked_by EXCEPT ![w] = calls[t].got + calls[t].d]
    /\ calls' = [calls EXCEPT ![t] = Counting(@.ws \ {w}, @.d)]
    /\ UNCHANGED <<owner, wstate, links, raced>>

LinksNext == \E t \in LinkThreads, w \in Worlds :
    \/ WorldNew(t, w) \/ FreezeWorld(t, w) \/ WorldFree(t, w)
    \/ CountRead(t, w) \/ CountWrite(t, w)
    \/ \E o \in Worlds : WorldLink(t, o, w) \/ LinkStore(t, o, w) \/ WorldUnlink(t, o, w)

LinksSpec == LinksInit /\ [][LinksNext]_linksVars

-----------------------------------------------------------------------------

NoCall == \A t \in LinkThreads : calls[t] = Idle

Linkers(w) == {o \in Worlds : w \in links[o]}

\* The target of a link outlives it: no world links to one that was freed
\* (rule 1 of docs/worlds-bg.md on links).
TargetsAlive == \A o, w \in Worlds : w \in links[o] => Alive(w)

\* However the calls of the threads interleave, a world that they have not raced
\* for outlives the links to it, and whenever no thread is in a call linked_by
\* counts them.
LinksSound == \A w \in Worlds \ raced :
                  /\ Linkers(w) # {} => Alive(w)
                  /\ NoCall => linked_by[w] = Cardinality(Linkers(w))

\* Whenever no thread is in a call and none has raced, some world that is alive
\* can be freed: the cycle test leaves no group of worlds that hold each other.
SomeFreeable == NoCall /\ raced = {} /\ (\E w \in Worlds : Alive(w)) =>
                    \E w \in Worlds : Alive(w) /\ MayFree(w)
=============================================================================

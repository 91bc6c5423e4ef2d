---------------------------- MODULE WorldProofs ----------------------------
(***************************************************************************)
(* Theorems about worlds.  The links between worlds, for any number of     *)
(* worlds and threads, any search budget and any interleaving of the       *)
(* threads' calls.  The cache of a world, for any keys, hash function,     *)
(* values and first capacity, with every probe order, tombstone and        *)
(* growth.  The region of a world, for any keys, hash function, values,    *)
(* first capacities and bounds: what its containers hold through growth,   *)
(* compaction, images and loads, whatever a freed header is found to hold. *)
(***************************************************************************)
EXTENDS WorldLinks, WorldCache, WorldRegion, FoldLemmas

-----------------------------------------------------------------------------
(* Links: the inductive invariant.                                         *)

LinkTypes ==
    /\ owner \in [Worlds -> LinkThreads]
    /\ wstate \in [Worlds -> {"none", "open", "frozen", "freed"}]
    /\ links \in [Worlds -> SUBSET Worlds]
    /\ linked_by \in [Worlds -> Int]
    /\ calls \in [LinkThreads -> [job : {"idle", "walk", "stale", "count"} \cup Worlds,
                             from : {"idle"} \cup Worlds, ws : SUBSET Worlds,
                             d : {-1, 0, 1}, got : Int]]
    /\ raced \in SUBSET Worlds

\* A thread is in world_link, and its link is not stored yet.
Linking(t) == calls[t].job \in {"walk", "stale"}

\* A link that is to be stored leads from a living world of the thread's own and is new.
LinkSound(t) == /\ calls[t].from \in Worlds /\ owner[calls[t].from] = t /\ Alive(calls[t].from)
                /\ calls[t].from \notin calls[t].ws /\ calls[t].ws \cap links[calls[t].from] = {}

\* What a thread has read of a counter that nobody races for is still there.
UpdateSound(t) == /\ calls[t].job \in calls[t].ws
                  /\ calls[t].job \notin raced => calls[t].got = linked_by[calls[t].job]

CallSound(t) ==
    /\ calls[t].job = "idle" \/ calls[t].d = 0 => calls[t] = Idle
    /\ Linking(t) => LinkSound(t)
    /\ calls[t].d = 1 => \A w \in calls[t].ws : Alive(w)
    /\ calls[t].job \in Worlds => UpdateSound(t)

CallsSound == \A t \in LinkThreads : CallSound(t)

\* A counter that nobody races for is updated by one thread at a time.
OneUpdate == \A t, u \in LinkThreads :
    calls[t].job \in Worlds \ raced /\ calls[u].job = calls[t].job => t = u

LinksLive == \A o, w \in Worlds : w \in links[o] => Alive(o) /\ (w \in raced \/ Alive(w))

\* The threads that have still to add d to the counter of w.
IsDue(t, w, d) == ~Linking(t) /\ w \in calls[t].ws /\ calls[t].d = d
Due(w, d) == {t \in LinkThreads : IsDue(t, w, d)}

CountInv == \A w \in Worlds \ raced :
    linked_by[w] + Cardinality(Due(w, 1)) = Cardinality(Linkers(w)) + Cardinality(Due(w, -1))

\* No group of worlds in which each one is linked to from inside the group.
Acyclic == \A S \in SUBSET Worlds : S # {} => \E w \in S : \A o \in S : w \notin links[o]

LinksInv == /\ LinkTypes /\ CallsSound /\ OneUpdate /\ LinksLive /\ CountInv
            /\ raced = {} => Acyclic

-----------------------------------------------------------------------------

(* The worlds that link to one and the threads that count it are finitely  *)
(* many.                                                                   *)
LEMMA LinkersFinite ==
    ASSUME LinksAssumption, NEW w \in Worlds
    PROVE  IsFiniteSet(Linkers(w)) /\ Cardinality(Linkers(w)) \in Nat
  BY FS_Subset, FS_CardinalityType DEF LinksAssumption, Linkers

LEMMA DueFinite ==
    ASSUME LinksAssumption, NEW w, NEW d
    PROVE  IsFiniteSet(Due(w, d)) /\ Cardinality(Due(w, d)) \in Nat
  BY FS_Subset, FS_CardinalityType DEF LinksAssumption, Due

(* A finished search has seen everything that can be reached: the set of   *)
(* the ends of its walks is closed under links and does not contain o.     *)
LEMMA SearchIsClosed ==
    ASSUME LinksAssumption, LinkTypes, NEW w \in Worlds, NEW o \in Worlds,
           o # w, ~Reaches(w, o)
    PROVE  \E D \in SUBSET Worlds : w \in D /\ o \notin D /\ \A x \in D : links[x] \subseteq D
<1> DEFINE D == {p[Len(p)] : p \in Walks(w)}
<1>1. \A p \in Walks(w) : /\ Len(p) \in 1 .. (MaxDepth + 1) /\ p \in [1 .. Len(p) -> Worlds]
                          /\ p[1] = w
                          /\ \A i \in 1 .. (Len(p) - 1) : p[i + 1] \in links[p[i]]
                          /\ o \notin links[p[Len(p)]]
  BY DEF Walks, Reaches, LinksAssumption
<1>2. ASSUME NEW n \in 1 .. (MaxDepth + 2), NEW p \in [1 .. n -> Worlds], p[1] = w,
             \A i \in 1 .. (n - 1) : p[i + 1] \in links[p[i]]
      PROVE  p \in Walks(w) /\ Len(p) = n
  BY <1>2 DEF Walks, LinksAssumption
<1> HIDE DEF Walks
<1>3. D \in SUBSET Worlds
  BY <1>1
<1>4. w \in D
  <2> DEFINE p == [i \in 1 .. 1 |-> w]
  <2>1. /\ 1 \in 1 .. (MaxDepth + 2) /\ p \in [1 .. 1 -> Worlds] /\ p[1] = w
        /\ \A i \in 1 .. (1 - 1) : p[i + 1] \in links[p[i]]
    BY DEF LinksAssumption
  <2> HIDE DEF p
  <2>2. p \in Walks(w) /\ Len(p) = 1
    BY <1>2, <2>1
  <2>3. QED
    BY <2>1, <2>2
<1>5. ASSUME NEW p \in Walks(w), NEW y \in links[p[Len(p)]] PROVE y \in D
  <2> DEFINE n == Len(p)
             e == [i \in 1 .. (n + 1) |-> IF i <= n THEN p[i] ELSE y]
  <2>1. n \in 1 .. (MaxDepth + 1) /\ p \in [1 .. n -> Worlds] /\ p[1] = w
    BY <1>1
  <2>2. y \in Worlds
    BY <2>1, <1>5 DEF LinkTypes, LinksAssumption
  <2>3. n + 1 \in 1 .. (MaxDepth + 2) /\ e \in [1 .. (n + 1) -> Worlds] /\ e[1] = w /\ e[n + 1] = y
    BY <2>1, <2>2 DEF LinksAssumption
  <2>4. \A i \in 1 .. n : e[i + 1] \in links[e[i]]
    BY <1>1, <1>5, <2>1
  <2>5. e \in Walks(w) /\ Len(e) = n + 1
    <3>1. \A i \in 1 .. ((n + 1) - 1) : e[i + 1] \in links[e[i]]
      BY <2>1, <2>4
    <3> HIDE DEF e, n
    <3>2. QED
      BY <1>2, <2>3, <3>1
  <2>6. QED
    BY <2>3, <2>5
<1>6. o \notin D
  <2> SUFFICES ASSUME NEW p \in Walks(w), p[Len(p)] = o PROVE FALSE
    OBVIOUS
  <2> DEFINE n == Len(p) - 1
             e == [i \in 1 .. n |-> p[i]]
  <2>1. Len(p) \in 1 .. (MaxDepth + 1) /\ p \in [1 .. Len(p) -> Worlds] /\ p[1] = w
    BY <1>1
  <2>2. n \in 1 .. (MaxDepth + 2) /\ o \in links[p[n]]
    BY <1>1, <2>1 DEF LinksAssumption
  <2>3. e \in [1 .. n -> Worlds] /\ e[1] = w /\ e[n] = p[n] /\ \A i \in 1 .. (n - 1) : e[i + 1] \in links[e[i]]
    <3>1. \A i \in 1 .. (n - 1) : i \in 1 .. (Len(p) - 1) /\ i \in 1 .. n /\ i + 1 \in 1 .. n
      BY <2>1, <2>2 DEF LinksAssumption
    <3>2. \A i \in 1 .. (n - 1) : p[i + 1] \in links[p[i]]
      BY <1>1, <3>1
    <3>3. \A i \in 1 .. n : p[i] \in Worlds
      BY <2>1 DEF LinksAssumption
    <3> HIDE DEF n
    <3>4. QED
      BY <2>1, <2>2, <3>1, <3>2, <3>3
  <2>4. e \in Walks(w) /\ Len(e) = n
    <3> HIDE DEF e, n
    <3>1. QED
      BY <1>2, <2>2, <2>3
  <2>5. QED
    BY <1>1, <2>2, <2>3, <2>4
<1>7. QED
  BY <1>3, <1>4, <1>5, <1>6

(* A link that passes the cycle test closes no group.                      *)
LEMMA LinkKeepsAcyclic ==
    ASSUME LinksAssumption, LinkTypes, Acyclic, NEW o \in Worlds, NEW w \in Worlds,
           o # w, ~Reaches(w, o), links' = [links EXCEPT ![o] = @ \cup {w}]
    PROVE  Acyclic'
<1>1. PICK D \in SUBSET Worlds : w \in D /\ o \notin D /\ \A x \in D : links[x] \subseteq D
  BY SearchIsClosed
<1>2. \A x \in Worlds : links'[x] = IF x = o THEN links[x] \cup {w} ELSE links[x]
  BY DEF LinkTypes
<1>3. ASSUME NEW S \in SUBSET Worlds, S # {}
      PROVE  \E x \in S : \A y \in S : x \notin links'[y]
  <2>1. CASE S \subseteq D
    <3>1. PICK x \in S : \A y \in S : x \notin links[y]
      BY <1>3 DEF Acyclic
    <3>2. QED
      BY <1>1, <1>2, <2>1, <3>1
  <2>2. CASE S \ D # {}
    <3>1. PICK x \in S \ D : \A y \in S \ D : x \notin links[y]
      BY <2>2 DEF Acyclic
    <3>2. QED
      BY <1>1, <1>2, <3>1
  <2>3. QED
    BY <2>1, <2>2
<1>4. QED
  BY <1>3 DEF Acyclic

(* Taking links away closes no group either.                               *)
LEMMA FewerLinksAcyclic ==
    ASSUME Acyclic, \A x \in Worlds : links'[x] \subseteq links[x]
    PROVE  Acyclic'
<1>1. ASSUME NEW S \in SUBSET Worlds, S # {}
      PROVE  \E x \in S : \A y \in S : x \notin links'[y]
  <2>1. PICK x \in S : \A y \in S : x \notin links[y]
    BY <1>1 DEF Acyclic
  <2>2. QED
    BY <2>1
<1>2. QED
  BY <1>1 DEF Acyclic

(* One more, and one fewer, world links to w.                              *)
LEMMA LinkersGrow ==
    ASSUME LinksAssumption, LinkTypes, NEW o \in Worlds, NEW w \in Worlds, w \notin links[o],
           links' = [links EXCEPT ![o] = @ \cup {w}]
    PROVE  /\ Cardinality(Linkers(w)') = Cardinality(Linkers(w)) + 1
           /\ \A x \in Worlds \ {w} : Linkers(x)' = Linkers(x)
<1>1. Linkers(w)' = Linkers(w) \cup {o} /\ o \notin Linkers(w)
  BY DEF LinkTypes, Linkers
<1>2. Cardinality(Linkers(w)') = Cardinality(Linkers(w)) + 1
  BY <1>1, LinkersFinite, FS_AddElement
<1>3. \A x \in Worlds \ {w} : Linkers(x)' = Linkers(x)
  BY DEF LinkTypes, Linkers
<1>4. QED
  BY <1>2, <1>3

(* Taking a link out takes one from its target's linkers.                  *)
LEMMA LinkersShrink ==
    ASSUME LinksAssumption, LinkTypes, NEW o \in Worlds, NEW gone \in SUBSET links[o],
           links' = [links EXCEPT ![o] = @ \ gone]
    PROVE  \A x \in Worlds : Cardinality(Linkers(x)') =
               IF x \in gone THEN Cardinality(Linkers(x)) - 1 ELSE Cardinality(Linkers(x))
<1> TAKE x \in Worlds
<1>1. CASE x \in gone
  <2>1. Linkers(x)' = Linkers(x) \ {o} /\ o \in Linkers(x)
    BY <1>1 DEF LinkTypes, Linkers
  <2>2. QED
    BY <1>1, <2>1, LinkersFinite, FS_RemoveElement
<1>2. CASE x \notin gone
  <2>1. Linkers(x)' = Linkers(x)
    BY <1>2 DEF LinkTypes, Linkers
  <2>2. QED
    BY <1>2, <2>1
<1>3. QED
  BY <1>1, <1>2

-----------------------------------------------------------------------------
(* What a step of one thread leaves of the calls of the others.            *)

\* The call of u goes on; its walk may have become stale.
GoesOn(u) == \/ calls'[u] = calls[u]
             \/ calls[u].job = "walk" /\ calls'[u] = [calls[u] EXCEPT !.job = "stale"]

\* t turns to c and every other call goes on.
Turns(t, c) == /\ calls' \in [LinkThreads -> {calls'[u] : u \in LinkThreads}]
               /\ calls'[t] = c
               /\ \A u \in LinkThreads \ {t} : GoesOn(u)

LEMMA DisturbedTurns ==
    ASSUME LinkTypes, NEW t \in LinkThreads, NEW o, NEW c,
           calls' = [Disturbed(t, o) EXCEPT ![t] = c]
    PROVE  Turns(t, c)
  BY DEF LinkTypes, Turns, GoesOn, Disturbed

LEMMA PlainTurns ==
    ASSUME LinkTypes, NEW t \in LinkThreads, NEW c, calls' = [calls EXCEPT ![t] = c]
    PROVE  Turns(t, c)
  BY DEF LinkTypes, Turns, GoesOn

CallType == [job : {"idle", "walk", "stale", "count"} \cup Worlds,
             from : {"idle"} \cup Worlds, ws : SUBSET Worlds, d : {-1, 0, 1}, got : Int]

LEMMA TurnsType ==
    ASSUME LinkTypes, NEW t \in LinkThreads, NEW c \in CallType, Turns(t, c)
    PROVE  calls' \in [LinkThreads -> CallType]
<1>1. ASSUME NEW u \in LinkThreads PROVE calls'[u] \in CallType
  <2>1. calls[u] \in CallType
    BY DEF LinkTypes, CallType
  <2>2. CASE u = t
    BY <2>2 DEF Turns
  <2>3. CASE u # t
    BY <2>1, <2>3 DEF Turns, GoesOn, CallType
  <2>4. QED
    BY <2>2, <2>3
<1>2. QED
  BY <1>1 DEF Turns

(* The threads that have to count a world change by the one that steps.    *)
LEMMA DueChanges ==
    ASSUME LinksAssumption, LinkTypes, NEW t \in LinkThreads, NEW c, Turns(t, c),
           NEW w \in Worlds, NEW d \in {-1, 1}
    PROVE  /\ IsDue(t, w, d) /\ ~IsDue(t, w, d)' =>
                 Cardinality(Due(w, d)') = Cardinality(Due(w, d)) - 1
           /\ ~IsDue(t, w, d) /\ IsDue(t, w, d)' =>
                 Cardinality(Due(w, d)') = Cardinality(Due(w, d)) + 1
           /\ (IsDue(t, w, d) <=> IsDue(t, w, d)') => Due(w, d)' = Due(w, d)
<1>1. ASSUME NEW u \in LinkThreads \ {t} PROVE IsDue(u, w, d)' <=> IsDue(u, w, d)
  <2>1. CASE calls'[u] = calls[u]
    BY <2>1 DEF IsDue, Linking
  <2>2. CASE calls[u].job = "walk" /\ calls'[u] = [calls[u] EXCEPT !.job = "stale"]
    <3>1. calls'[u].job = "stale"
      BY <2>2 DEF LinkTypes
    <3>2. QED
      BY <2>2, <3>1 DEF IsDue, Linking
  <2>3. QED
    BY <2>1, <2>2 DEF Turns, GoesOn
<1>2. CASE IsDue(t, w, d) /\ ~IsDue(t, w, d)'
  <2>1. Due(w, d)' = Due(w, d) \ {t} /\ t \in Due(w, d)
    BY <1>1, <1>2 DEF Due
  <2>2. QED
    BY <1>2, <2>1, DueFinite, FS_RemoveElement
<1>3. CASE ~IsDue(t, w, d) /\ IsDue(t, w, d)'
  <2>1. Due(w, d)' = Due(w, d) \cup {t} /\ t \notin Due(w, d)
    BY <1>1, <1>3 DEF Due
  <2>2. QED
    BY <1>3, <2>1, DueFinite, FS_AddElement
<1>4. CASE IsDue(t, w, d) <=> IsDue(t, w, d)'
  <2>1. Due(w, d)' = Due(w, d)
    BY <1>1, <1>4 DEF Due
  <2>2. QED
    BY <1>4, <2>1
<1>5. QED
  BY <1>2, <1>3, <1>4

(* The calls that go on stay sound when no world that matters to them      *)
(* changes.                                                                *)
LEMMA GoesOnSound ==
    ASSUME LinksAssumption, LinkTypes, NEW u \in LinkThreads, CallSound(u), GoesOn(u),
           owner' = owner,
           \A x \in Worlds : owner[x] = u => links'[x] = links[x] /\ (Alive(x) => Alive(x)'),
           \A x \in calls[u].ws : calls[u].d = 1 /\ Alive(x) => Alive(x)',
           calls[u].job \in Worlds \ raced' => linked_by'[calls[u].job] = linked_by[calls[u].job],
           raced \subseteq raced'
    PROVE  CallSound(u)'
<1>1. calls'[u].from = calls[u].from /\ calls'[u].ws = calls[u].ws /\ calls'[u].d = calls[u].d
      /\ calls'[u].got = calls[u].got
  BY DEF GoesOn, LinkTypes
<1>2. Linking(u)' <=> Linking(u)
  BY DEF GoesOn, LinkTypes, Linking
<1>3. calls'[u].job \notin {"walk", "stale"} => calls'[u] = calls[u]
  BY DEF GoesOn, LinkTypes
<1>4. Linking(u)' => LinkSound(u)'
  BY <1>1, <1>2 DEF CallSound, LinkSound
<1>5. calls'[u].d = 1 => \A w \in calls'[u].ws : Alive(w)'
  BY <1>1 DEF CallSound
<1>6. calls'[u].job \in Worlds => UpdateSound(u)'
  <2>1. SUFFICES ASSUME calls'[u].job \in Worlds PROVE UpdateSound(u)'
    OBVIOUS
  <2>2. calls'[u] = calls[u]
    BY <1>3, <2>1 DEF LinksAssumption
  <2>3. QED
    BY <2>1, <2>2 DEF CallSound, UpdateSound
<1>7. calls'[u].job = "idle" \/ calls'[u].d = 0 => calls'[u] = Idle
  <2>1. CASE calls'[u] = calls[u]
    BY <2>1 DEF CallSound
  <2>2. CASE calls[u].job = "walk" /\ calls'[u] = [calls[u] EXCEPT !.job = "stale"]
    <3>1. calls'[u].job = "stale" /\ calls[u].d # 0
      BY <2>2 DEF LinkTypes, CallSound, Idle
    <3>2. QED
      BY <1>1, <3>1
  <2>3. QED
    BY <2>1, <2>2 DEF GoesOn
<1>8. QED
  BY <1>4, <1>5, <1>6, <1>7 DEF CallSound

(* Who is not updating a counter does not disturb those who are.           *)
LEMMA OneUpdateStays ==
    ASSUME LinksAssumption, LinkTypes, OneUpdate, NEW t \in LinkThreads, NEW c, Turns(t, c),
           c.job \notin Worlds, raced \subseteq raced'
    PROVE  OneUpdate'
<1>1. \A u \in LinkThreads : calls'[u].job \in Worlds => u # t /\ calls'[u].job = calls[u].job
  BY DEF Turns, GoesOn, LinkTypes, LinksAssumption
<1>2. QED
  BY <1>1 DEF OneUpdate

-----------------------------------------------------------------------------
(* The invariant holds.                                                    *)

(* No world is linked before the first world_link.                         *)
LEMMA LinksInvInit == ASSUME LinksAssumption PROVE LinksInit => LinksInv
<1> SUFFICES ASSUME LinksInit PROVE LinksInv
  OBVIOUS
<1> USE DEF LinksInit
<1>1. LinkTypes /\ LinksLive /\ Acyclic
  BY DEF LinkTypes, LinksLive, Acyclic, Idle
<1>2. CallsSound /\ OneUpdate
  BY DEF CallsSound, CallSound, OneUpdate, Linking, Idle, LinksAssumption
<1>3. CountInv
  <2>1. ASSUME NEW w \in Worlds
        PROVE  linked_by[w] + Cardinality(Due(w, 1)) = Cardinality(Linkers(w)) + Cardinality(Due(w, -1))
    <3>1. Linkers(w) = {} /\ Due(w, 1) = {} /\ Due(w, -1) = {}
      BY DEF Linkers, Due, IsDue, Idle
    <3>2. QED
      BY <3>1, FS_EmptySet
  <2>2. QED
    BY <2>1 DEF CountInv
<1>4. QED
  BY <1>1, <1>2, <1>3 DEF LinksInv

(* world_new and world_freeze touch neither links nor counters.            *)
LEMMA StateStep ==
    ASSUME LinksInv, NEW t \in LinkThreads, NEW w \in Worlds, WorldNew(t, w) \/ FreezeWorld(t, w)
    PROVE  LinksInv'
<1>1. /\ wstate' \in [Worlds -> {"none", "open", "frozen", "freed"}]
      /\ \A x \in Worlds : Alive(x) => Alive(x)'
      /\ UNCHANGED <<owner, links, linked_by, calls, raced>>
  BY SMTT(40) DEF LinksInv, LinkTypes, WorldNew, FreezeWorld, Alive
<1>2. LinkTypes' /\ OneUpdate' /\ LinksLive' /\ (raced' = {} => Acyclic')
  BY <1>1 DEF LinksInv, LinkTypes, OneUpdate, LinksLive, Acyclic
<1>3. CallsSound'
  <2>1. ASSUME NEW u \in LinkThreads PROVE CallSound(u)'
    <3>1. CallSound(u) /\ calls[u].ws \in SUBSET Worlds
      BY DEF LinksInv, CallsSound, LinkTypes
    <3>2. QED
      BY <1>1, <3>1 DEF CallSound, LinkSound, UpdateSound, Linking
  <2>2. QED
    BY <2>1 DEF CallsSound
<1>4. CountInv'
  BY <1>1 DEF LinksInv, CountInv, Due, IsDue, Linking, Linkers
<1>5. QED
  BY <1>2, <1>3, <1>4 DEF LinksInv

(* world_link begins to look for a cycle.                                  *)
LEMMA LinkStep ==
    ASSUME LinksAssumption, LinksInv, NEW t \in LinkThreads,
           NEW o \in Worlds, NEW w \in Worlds, WorldLink(t, o, w)
    PROVE  LinksInv'
<1>1. /\ LinkTypes /\ calls[t] = Idle /\ owner[o] = t /\ Alive(o) /\ Alive(w) /\ o # w /\ w \notin links[o]
      /\ calls' = [calls EXCEPT ![t] = Walking(o, w)]
      /\ UNCHANGED <<owner, wstate, links, linked_by, raced>>
  BY DEF LinksInv, WorldLink, CanTarget, Alive
<1>2. Turns(t, Walking(o, w)) /\ Walking(o, w) \in CallType
  <2>1. Turns(t, Walking(o, w))
    BY <1>1, PlainTurns
  <2>2. Walking(o, w) \in CallType
    BY DEF Walking, CallType
  <2>3. QED
    BY <2>1, <2>2
<1>3. LinkTypes'
  BY <1>1, <1>2, TurnsType DEF LinkTypes, CallType
<1>4. CallsSound'
  <2>1. CallSound(t)'
    <3>1. calls'[t] = Walking(o, w)
      BY <1>2 DEF Turns
    <3>2. calls'[t].job = "walk" /\ calls'[t].from = o /\ calls'[t].ws = {w} /\ calls'[t].d = 1
      BY <3>1 DEF Walking
    <3>3. "walk" \notin Worlds
      BY DEF LinksAssumption
    <3>4. QED
      BY <1>1, <3>2, <3>3 DEF CallSound, LinkSound, Alive
  <2>2. ASSUME NEW u \in LinkThreads \ {t} PROVE CallSound(u)'
    <3>1. CallSound(u) /\ GoesOn(u) /\ \A x \in Worlds : Alive(x)' <=> Alive(x)
      BY <1>1, <1>2 DEF LinksInv, CallsSound, Turns, Alive
    <3>2. calls[u].ws \in SUBSET Worlds
      BY <1>1 DEF LinkTypes
    <3>3. QED
      BY <1>1, <3>1, <3>2, GoesOnSound
  <2>3. QED
    BY <2>1, <2>2 DEF CallsSound
<1>5. OneUpdate'
  BY <1>1, <1>2, OneUpdateStays DEF LinksInv, Walking, LinksAssumption
<1>6. LinksLive' /\ (raced' = {} => Acyclic')
  BY <1>1 DEF LinksInv, LinksLive, Acyclic, Alive
<1>7. CountInv'
  <2>1. ASSUME NEW x \in Worlds, NEW d \in {-1, 1} PROVE Due(x, d)' = Due(x, d)
    <3>1. ~IsDue(t, x, d) /\ ~IsDue(t, x, d)'
      BY <1>1, <1>2 DEF IsDue, Linking, Idle, Walking, Turns
    <3>2. QED
      BY <1>1, <1>2, <3>1, DueChanges
  <2>2. QED
    BY <1>1, <2>1 DEF LinksInv, CountInv, Linkers
<1>8. QED
  BY <1>3, <1>4, <1>5, <1>6, <1>7 DEF LinksInv

(* The new link is known to the call that has still to count it.           *)
LEMMA StoreStep ==
    ASSUME LinksAssumption, LinksInv, NEW t \in LinkThreads,
           NEW o \in Worlds, NEW w \in Worlds, LinkStore(t, o, w)
    PROVE  LinksInv'
<1> DEFINE c == Counting({w}, 1)
<1>1. /\ LinkTypes /\ CallSound(t) /\ Linking(t)
      /\ calls[t].from = o /\ calls[t].ws = {w} /\ calls[t].d = 1
  BY DEF LinksInv, CallsSound, LinkStore, Linking, Walking
<1>2. owner[o] = t /\ Alive(o) /\ Alive(w) /\ w \notin links[o]
  BY <1>1 DEF CallSound, LinkSound
<1>3. /\ links' = [links EXCEPT ![o] = @ \cup {w}]
      /\ raced' = IF Reaches(w, o) THEN raced \cup {o} ELSE raced
      /\ calls' = [Disturbed(t, o) EXCEPT ![t] = c]
      /\ UNCHANGED <<owner, wstate, linked_by>>
  BY DEF LinkStore
<1>4. Turns(t, c) /\ c \in CallType /\ c.job = "count" /\ c.ws = {w} /\ c.d = 1
  <2>1. c \in CallType /\ c.job = "count" /\ c.ws = {w} /\ c.d = 1
    BY {w} # {} DEF Counting, Idle, CallType
  <2> HIDE DEF c
  <2>2. Turns(t, c)
    BY <1>1, <1>3, DisturbedTurns
  <2>3. QED
    BY <2>1, <2>2
<1> HIDE DEF c
<1>5. calls'[t] = c
  BY <1>4 DEF Turns
<1>6. raced \subseteq raced' /\ \A x \in Worlds : Alive(x)' <=> Alive(x)
  BY <1>3 DEF Alive
<1>7. LinkTypes'
  BY <1>1, <1>3, <1>4, TurnsType DEF LinkTypes, CallType
<1>8. CallsSound'
  <2>1. CallSound(t)'
    <3>1. "count" \notin Worlds
      BY DEF LinksAssumption
    <3>2. QED
      BY <1>2, <1>4, <1>5, <1>6, <3>1 DEF CallSound, Linking
  <2>2. ASSUME NEW u \in LinkThreads \ {t} PROVE CallSound(u)'
    <3>1. CallSound(u) /\ GoesOn(u) /\ calls[u].ws \in SUBSET Worlds
      BY <1>1, <1>4 DEF LinksInv, CallsSound, Turns, LinkTypes
    <3>2. \A x \in Worlds : owner[x] = u => links'[x] = links[x]
      BY <1>1, <1>2, <1>3 DEF LinkTypes
    <3>3. QED
      BY <1>1, <1>3, <1>6, <3>1, <3>2, GoesOnSound
  <2>3. QED
    BY <2>1, <2>2 DEF CallsSound
<1>9. OneUpdate'
  BY <1>1, <1>4, <1>6, OneUpdateStays DEF LinksInv, LinksAssumption
<1>10. LinksLive'
  BY <1>1, <1>2, <1>3, <1>6 DEF LinksInv, LinksLive, LinkTypes
<1>11. CountInv'
  <2>1. ASSUME NEW x \in Worlds \ raced'
        PROVE  linked_by'[x] + Cardinality(Due(x, 1)') = Cardinality(Linkers(x)') + Cardinality(Due(x, -1)')
    <3>1. linked_by[x] + Cardinality(Due(x, 1)) = Cardinality(Linkers(x)) + Cardinality(Due(x, -1))
      BY <1>6, <2>1 DEF LinksInv, CountInv
    <3>2. linked_by'[x] = linked_by[x] /\ linked_by[x] \in Int
      BY <1>1, <1>3 DEF LinkTypes
    <3>3. Cardinality(Due(x, 1)) \in Nat /\ Cardinality(Due(x, -1)) \in Nat /\ Cardinality(Linkers(x)) \in Nat
      BY DueFinite, LinkersFinite
    <3>4. \A d \in {-1, 1} : ~IsDue(t, x, d) /\ (IsDue(t, x, d)' <=> x = w /\ d = 1)
      BY <1>1, <1>4, <1>5 DEF IsDue, Linking
    <3>5. Cardinality(Due(x, -1)') = Cardinality(Due(x, -1))
      <4>1. (-1) \in {-1, 1} /\ (IsDue(t, x, -1) <=> IsDue(t, x, -1)')
        BY <3>4
      <4>2. QED
        BY <1>1, <1>4, <4>1, DueChanges
    <3>6. CASE x = w
      <4>1. Cardinality(Linkers(x)') = Cardinality(Linkers(x)) + 1
        BY <1>1, <1>2, <1>3, <3>6, LinkersGrow
      <4>2. Cardinality(Due(x, 1)') = Cardinality(Due(x, 1)) + 1
        <5>1. 1 \in {-1, 1} /\ ~IsDue(t, x, 1) /\ IsDue(t, x, 1)'
          BY <3>4, <3>6
        <5>2. QED
          BY <1>1, <1>4, <5>1, DueChanges
      <4>3. QED
        BY <3>1, <3>2, <3>3, <3>5, <4>1, <4>2
    <3>7. CASE x # w
      <4>1. Linkers(x)' = Linkers(x)
        BY <1>1, <1>2, <1>3, <3>7, LinkersGrow
      <4>2. Cardinality(Due(x, 1)') = Cardinality(Due(x, 1))
        <5>1. 1 \in {-1, 1} /\ (IsDue(t, x, 1) <=> IsDue(t, x, 1)')
          BY <3>4, <3>7
        <5>2. QED
          BY <1>1, <1>4, <5>1, DueChanges
      <4>3. QED
        BY <3>1, <3>2, <3>3, <3>5, <4>1, <4>2
    <3>8. QED
      BY <3>6, <3>7
  <2>2. QED
    BY <2>1 DEF CountInv
<1>12. ASSUME raced' = {} PROVE Acyclic'
  <2>1. raced = {} /\ ~Reaches(w, o)
    BY <1>3, <1>12
  <2>2. Acyclic /\ o # w
    <3>1. w \in Worlds /\ LinksInv
      OBVIOUS
    <3>2. o # w
      BY <1>1 DEF CallSound, LinkSound
    <3>3. QED
      BY <2>1, <3>1, <3>2 DEF LinksInv
  <2>3. QED
    BY <1>1, <1>3, <2>1, <2>2, LinkKeepsAcyclic
<1>13. QED
  BY <1>7, <1>8, <1>9, <1>10, <1>11, <1>12 DEF LinksInv

(* Links that go away together, with their counts to be made: the common   *)
(* part of world_unlink and world_free.                                    *)
LEMMA CutCounted ==
    ASSUME LinksAssumption, LinksInv, NEW t \in LinkThreads, NEW o \in Worlds,
           NEW gone \in SUBSET links[o],
           calls[t] = Idle, owner[o] = t,
           links' = [links EXCEPT ![o] = @ \ gone],
           calls' = [Disturbed(t, o) EXCEPT ![t] = Counting(gone, -1)],
           \A x \in Worlds : Alive(x) => Alive(x)' \/ (owner[x] = t /\ \A u \in LinkThreads : calls[u].d = 1 => x \notin calls[u].ws),
           UNCHANGED <<owner, linked_by, raced>>
    PROVE  /\ calls' \in [LinkThreads -> CallType]
           /\ CallsSound' /\ OneUpdate' /\ CountInv' /\ (raced' = {} => Acyclic')
<1> DEFINE c == Counting(gone, -1)
<1>1. LinkTypes /\ gone \in SUBSET Worlds
  BY DEF LinksInv, LinkTypes
<1>2. /\ c \in CallType /\ c.ws = gone /\ c.job \in {"idle", "count"}
      /\ c = Idle \/ (c.job = "count" /\ c.d = -1)
      /\ gone # {} => c.d = -1 /\ c.job = "count"
  BY <1>1 DEF Counting, Idle, CallType
<1>3. Turns(t, c)
  BY <1>1, DisturbedTurns
<1> HIDE DEF c
<1>4. calls'[t] = c
  BY <1>3 DEF Turns
<1>5. calls' \in [LinkThreads -> CallType]
  BY <1>1, <1>2, <1>3, TurnsType
<1>6. c.job \notin Worlds /\ c.job \notin {"walk", "stale"}
  BY <1>2 DEF LinksAssumption
<1>7. CallsSound'
  <2>1. CallSound(t)'
    <3>1. ~Linking(t)'
      BY <1>4, <1>6 DEF Linking
    <3>2. c.job = "idle" \/ c.d = 0 => c = Idle
      BY <1>2
    <3>3. c.d # 1
      BY <1>2 DEF Idle
    <3>4. QED
      BY <1>4, <1>6, <3>1, <3>2, <3>3 DEF CallSound
  <2>2. ASSUME NEW u \in LinkThreads \ {t} PROVE CallSound(u)'
    <3>1. CallSound(u) /\ GoesOn(u) /\ calls[u].ws \in SUBSET Worlds
      BY <1>1, <1>3 DEF LinksInv, CallsSound, Turns, LinkTypes
    <3>2. \A x \in Worlds : owner[x] = u => links'[x] = links[x] /\ (Alive(x) => Alive(x)')
      BY <1>1 DEF LinkTypes
    <3>3. \A x \in calls[u].ws : calls[u].d = 1 /\ Alive(x) => Alive(x)'
      BY <3>1
    <3>4. QED
      BY <1>1, <3>1, <3>2, <3>3, GoesOnSound
  <2>3. QED
    BY <2>1, <2>2 DEF CallsSound
<1>8. OneUpdate'
  BY <1>1, <1>3, <1>6, OneUpdateStays DEF LinksInv
<1>9. CountInv'
  <2>1. ASSUME NEW x \in Worlds \ raced
        PROVE  linked_by'[x] + Cardinality(Due(x, 1)') = Cardinality(Linkers(x)') + Cardinality(Due(x, -1)')
    <3>1. linked_by[x] + Cardinality(Due(x, 1)) = Cardinality(Linkers(x)) + Cardinality(Due(x, -1))
      BY <2>1 DEF LinksInv, CountInv
    <3>2. linked_by'[x] = linked_by[x] /\ linked_by[x] \in Int
      BY <1>1 DEF LinkTypes
    <3>3. Cardinality(Due(x, 1)) \in Nat /\ Cardinality(Due(x, -1)) \in Nat /\ Cardinality(Linkers(x)) \in Nat
      BY DueFinite, LinkersFinite
    <3>4. \A d \in {-1, 1} : ~IsDue(t, x, d) /\ (IsDue(t, x, d)' <=> x \in gone /\ d = -1)
      BY <1>2, <1>4, <1>6 DEF IsDue, Linking, Idle
    <3>5. Cardinality(Due(x, 1)') = Cardinality(Due(x, 1))
      <4>1. 1 \in {-1, 1} /\ (IsDue(t, x, 1) <=> IsDue(t, x, 1)')
        BY <3>4
      <4>2. QED
        BY <1>1, <1>3, <4>1, DueChanges
    <3>6. Cardinality(Linkers(x)') =
            IF x \in gone THEN Cardinality(Linkers(x)) - 1 ELSE Cardinality(Linkers(x))
      BY <1>1, LinkersShrink
    <3>7. Cardinality(Due(x, -1)') =
            IF x \in gone THEN Cardinality(Due(x, -1)) + 1 ELSE Cardinality(Due(x, -1))
      <4>1. (-1) \in {-1, 1} /\ ~IsDue(t, x, -1) /\ (IsDue(t, x, -1)' <=> x \in gone)
        BY <3>4
      <4>2. QED
        BY <1>1, <1>3, <4>1, DueChanges
    <3>8. QED
      BY <3>1, <3>2, <3>3, <3>5, <3>6, <3>7
  <2>2. QED
    BY <2>1 DEF CountInv
<1>10. raced' = {} => Acyclic'
  BY FewerLinksAcyclic DEF LinksInv, LinkTypes
<1>11. QED
  BY <1>5, <1>7, <1>8, <1>9, <1>10

(* world_unlink.                                                           *)
LEMMA UnlinkStep ==
    ASSUME LinksAssumption, LinksInv, NEW t \in LinkThreads,
           NEW o \in Worlds, NEW w \in Worlds, WorldUnlink(t, o, w)
    PROVE  LinksInv'
<1>1. /\ calls[t] = Idle /\ owner[o] = t /\ {w} \in SUBSET links[o]
      /\ links' = [links EXCEPT ![o] = @ \ {w}]
      /\ calls' = [Disturbed(t, o) EXCEPT ![t] = Counting({w}, -1)]
      /\ UNCHANGED <<owner, wstate, linked_by, raced>>
  BY DEF WorldUnlink
<1>2. \A x \in Worlds : Alive(x)' <=> Alive(x)
  BY <1>1 DEF Alive
<1>3. calls' \in [LinkThreads -> CallType] /\ CallsSound' /\ OneUpdate' /\ CountInv' /\ (raced' = {} => Acyclic')
  BY <1>1, <1>2, CutCounted
<1>4. LinkTypes' /\ LinksLive'
  BY <1>1, <1>2, <1>3 DEF LinksInv, LinkTypes, CallType, LinksLive
<1>5. QED
  BY <1>3, <1>4 DEF LinksInv

(* world_free: when nobody races for a world, a counter of zero means that *)
(* nobody links to it.                                                     *)
LEMMA FreeStep ==
    ASSUME LinksAssumption, LinksInv, NEW t \in LinkThreads, NEW w \in Worlds, WorldFree(t, w)
    PROVE  LinksInv'
<1>1. /\ LinkTypes /\ calls[t] = Idle /\ owner[w] = t /\ linked_by[w] <= 0
      /\ \A u \in LinkThreads : calls[u].d = 1 => w \notin calls[u].ws
      /\ wstate' = [wstate EXCEPT ![w] = "freed"]
      /\ links' = [links EXCEPT ![w] = {}]
      /\ calls' = [Disturbed(t, w) EXCEPT ![t] = Counting(links[w], -1)]
      /\ UNCHANGED <<owner, linked_by, raced>>
  BY DEF WorldFree, MayFree, LinksInv
<1>2. links' = [links EXCEPT ![w] = @ \ links[w]] /\ links[w] \in SUBSET links[w]
  BY <1>1 DEF LinkTypes
<1>3. /\ wstate' \in [Worlds -> {"none", "open", "frozen", "freed"}]
      /\ \A x \in Worlds \ {w} : Alive(x)' <=> Alive(x)
  BY <1>1 DEF LinkTypes, Alive
<1>4. calls' \in [LinkThreads -> CallType] /\ CallsSound' /\ OneUpdate' /\ CountInv' /\ (raced' = {} => Acyclic')
  <2>1. \A x \in Worlds : Alive(x) => Alive(x)' \/
            (owner[x] = t /\ \A u \in LinkThreads : calls[u].d = 1 => x \notin calls[u].ws)
    BY <1>1, <1>3
  <2>2. QED
    BY <1>1, <1>2, <2>1, CutCounted
<1>5. w \in raced \/ \A o \in Worlds : w \notin links[o]
  <2>1. SUFFICES ASSUME w \notin raced PROVE \A o \in Worlds : w \notin links[o]
    OBVIOUS
  <2>2. linked_by[w] + Cardinality(Due(w, 1)) = Cardinality(Linkers(w)) + Cardinality(Due(w, -1))
    BY <2>1 DEF LinksInv, CountInv
  <2>3. Due(w, 1) = {}
    BY <1>1 DEF Due, IsDue
  <2>4. Cardinality(Due(w, -1)) \in Nat /\ Cardinality(Linkers(w)) \in Nat /\ linked_by[w] \in Int
    BY <1>1, DueFinite, LinkersFinite DEF LinkTypes
  <2>5. Cardinality(Linkers(w)) = 0
    <3>1. Cardinality(Due(w, 1)) = 0
      BY <2>3, FS_EmptySet
    <3>2. QED
      BY <1>1, <2>2, <2>4, <3>1
  <2>6. Linkers(w) = {}
    BY <2>5, LinkersFinite, FS_EmptySet
  <2>7. QED
    BY <2>6 DEF Linkers
<1>6. LinkTypes'
  BY <1>1, <1>3, <1>4 DEF LinkTypes, CallType
<1>7. LinksLive'
  <2>1. ASSUME NEW o \in Worlds, NEW x \in Worlds, x \in links'[o]
        PROVE  Alive(o)' /\ (x \in raced \/ Alive(x)')
    <3>1. o # w /\ x \in links[o]
      BY <1>1, <2>1 DEF LinkTypes
    <3>2. Alive(o) /\ (x \in raced \/ Alive(x))
      BY <3>1 DEF LinksInv, LinksLive
    <3>3. x = w => x \in raced
      BY <1>5, <3>1
    <3>4. QED
      BY <1>3, <3>1, <3>2, <3>3
  <2>2. QED
    BY <1>1, <2>1 DEF LinksLive
<1>8. QED
  BY <1>4, <1>6, <1>7 DEF LinksInv

(* Reading a counter: from now on it is raced for, or this thread is the   *)
(* only one that updates it.                                               *)
LEMMA ReadStep ==
    ASSUME LinksAssumption, LinksInv, NEW t \in LinkThreads, NEW w \in Worlds, CountRead(t, w)
    PROVE  LinksInv'
<1> DEFINE c == [calls[t] EXCEPT !.job = w, !.got = linked_by[w]]
<1>1. /\ LinkTypes /\ CallSound(t) /\ calls[t].job = "count" /\ w \in calls[t].ws
      /\ calls' = [calls EXCEPT ![t] = c]
      /\ raced' = IF InUpdate(w) THEN raced \cup {w} ELSE raced
      /\ UNCHANGED <<owner, wstate, links, linked_by>>
  BY DEF LinksInv, CallsSound, CountRead
<1>2. /\ Turns(t, c) /\ c \in CallType /\ c.job = w /\ c.got = linked_by[w]
      /\ c.ws = calls[t].ws /\ c.d = calls[t].d
  BY <1>1, PlainTurns DEF LinkTypes, CallType
<1> HIDE DEF c
<1>3. calls'[t] = c /\ \A u \in LinkThreads \ {t} : calls'[u] = calls[u]
  BY <1>1, <1>2 DEF LinkTypes, Turns
<1>4. /\ raced \subseteq raced' /\ raced' \in SUBSET Worlds
      /\ w \notin {"idle", "walk", "stale", "count"}
      /\ \A x \in Worlds : Alive(x)' <=> Alive(x)
  BY <1>1 DEF LinkTypes, LinksAssumption, Alive
<1>5. LinkTypes'
  BY <1>1, <1>2, <1>4, TurnsType DEF LinkTypes, CallType
<1>6. CallsSound'
  <2>1. CallSound(t)'
    <3>1. calls[t].ws \in SUBSET Worlds /\ calls[t].d # 0
      BY <1>1 DEF LinkTypes, CallSound, Idle
    <3>2. QED
      BY <1>1, <1>2, <1>3, <1>4, <3>1 DEF CallSound, Linking, UpdateSound
  <2>2. ASSUME NEW u \in LinkThreads \ {t} PROVE CallSound(u)'
    <3>1. CallSound(u) /\ GoesOn(u) /\ calls[u].ws \in SUBSET Worlds
      BY <1>1, <1>2 DEF LinksInv, CallsSound, Turns, LinkTypes
    <3>2. QED
      BY <1>1, <1>4, <3>1, GoesOnSound
  <2>3. QED
    BY <2>1, <2>2 DEF CallsSound
<1>7. OneUpdate'
  <2>1. ASSUME NEW u \in LinkThreads, NEW v \in LinkThreads,
               calls'[u].job \in Worlds \ raced', calls'[v].job = calls'[u].job
        PROVE  u = v
    <3>1. \A y \in LinkThreads \ {t} : calls'[y].job = w => w \in raced'
      BY <1>1, <1>3 DEF InUpdate
    <3>2. CASE u = t \/ v = t
      BY <1>2, <1>3, <2>1, <3>1, <3>2
    <3>3. CASE u # t /\ v # t
      BY <1>3, <1>4, <2>1, <3>3 DEF LinksInv, OneUpdate
    <3>4. QED
      BY <3>2, <3>3
  <2>2. QED
    BY <2>1 DEF OneUpdate
<1>8. LinksLive'
  BY <1>1, <1>4 DEF LinksInv, LinksLive
<1>9. CountInv'
  <2>1. ASSUME NEW x \in Worlds, NEW d \in {-1, 1} PROVE Due(x, d)' = Due(x, d)
    <3>1. IsDue(t, x, d) <=> IsDue(t, x, d)'
      BY <1>1, <1>2, <1>3, <1>4 DEF IsDue, Linking
    <3>2. QED
      BY <1>1, <1>2, <3>1, DueChanges
  <2>2. \A x \in Worlds : Linkers(x)' = Linkers(x)
    BY <1>1 DEF Linkers
  <2>3. \A x \in Worlds \ raced' : x \in Worlds \ raced
    BY <1>4
  <2>4. QED
    BY <1>1, <2>1, <2>2, <2>3 DEF LinksInv, CountInv
<1>10. raced' = {} => Acyclic'
  BY <1>1, <1>4 DEF LinksInv, Acyclic
<1>11. QED
  BY <1>5, <1>6, <1>7, <1>8, <1>9, <1>10 DEF LinksInv

(* Writing it back.                                                        *)
LEMMA WriteStep ==
    ASSUME LinksAssumption, LinksInv, NEW t \in LinkThreads, NEW w \in Worlds, CountWrite(t, w)
    PROVE  LinksInv'
<1> DEFINE c == Counting(calls[t].ws \ {w}, calls[t].d)
<1>1. /\ LinkTypes /\ CallSound(t) /\ calls[t].job = w
      /\ linked_by' = [linked_by EXCEPT ![w] = calls[t].got + calls[t].d]
      /\ calls' = [calls EXCEPT ![t] = c]
      /\ UNCHANGED <<owner, wstate, links, raced>>
  BY DEF LinksInv, CallsSound, CountWrite
<1>2. /\ w \notin {"idle", "walk", "stale", "count"}
      /\ \A x \in Worlds : Alive(x)' <=> Alive(x)
  BY <1>1 DEF LinksAssumption, Alive
<1>3. w \in calls[t].ws /\ (w \notin raced => calls[t].got = linked_by[w])
  BY <1>1 DEF CallSound, UpdateSound
<1>4. calls[t].d \in {-1, 1} /\ calls[t].ws \in SUBSET Worlds
  BY <1>1, <1>2 DEF LinkTypes, CallSound, Idle
<1>5. /\ c \in CallType /\ c.ws = calls[t].ws \ {w} /\ c.job \in {"idle", "count"}
      /\ c = Idle \/ (c.job = "count" /\ c.d = calls[t].d)
      /\ c.ws # {} => c.d = calls[t].d
  BY <1>1, <1>4 DEF Counting, Idle, CallType
<1>6. Turns(t, c)
  BY <1>1, PlainTurns
<1> HIDE DEF c
<1>7. calls'[t] = c /\ \A u \in LinkThreads \ {t} : calls'[u] = calls[u]
  BY <1>1, <1>6 DEF LinkTypes, Turns
<1>8. LinkTypes'
  <2>1. calls[t].got + calls[t].d \in Int
    BY <1>1, <1>4 DEF LinkTypes
  <2>2. linked_by' \in [Worlds -> Int]
    BY <1>1, <2>1 DEF LinkTypes
  <2>3. QED
    BY <1>1, <1>5, <1>6, <2>2, TurnsType DEF LinkTypes, CallType
<1>9. c.job \notin Worlds /\ c.job \notin {"walk", "stale"}
  BY <1>5 DEF LinksAssumption
<1>10. \A u \in LinkThreads \ {t} : calls[u].job \in Worlds \ raced => calls[u].job # w
  BY <1>1 DEF LinksInv, OneUpdate
<1>11. CallsSound'
  <2>1. CallSound(t)'
    BY <1>1, <1>2, <1>4, <1>5, <1>7, <1>9 DEF CallSound, Linking, Idle
  <2>2. ASSUME NEW u \in LinkThreads \ {t} PROVE CallSound(u)'
    <3>1. CallSound(u) /\ GoesOn(u) /\ calls[u].ws \in SUBSET Worlds
      BY <1>1, <1>6 DEF LinksInv, CallsSound, Turns, LinkTypes
    <3>2. calls[u].job \in Worlds \ raced' => linked_by'[calls[u].job] = linked_by[calls[u].job]
      BY <1>1, <1>10 DEF LinkTypes
    <3>3. QED
      BY <1>1, <1>2, <3>1, <3>2, GoesOnSound
  <2>3. QED
    BY <2>1, <2>2 DEF CallsSound
<1>12. OneUpdate'
  BY <1>1, <1>6, <1>9, OneUpdateStays DEF LinksInv
<1>13. LinksLive' /\ (raced' = {} => Acyclic')
  BY <1>1, <1>2 DEF LinksInv, LinksLive, Acyclic
<1>14. CountInv'
  <2>1. ASSUME NEW x \in Worlds \ raced
        PROVE  linked_by'[x] + Cardinality(Due(x, 1)') = Cardinality(Linkers(x)') + Cardinality(Due(x, -1)')
    <3>1. linked_by[x] + Cardinality(Due(x, 1)) = Cardinality(Linkers(x)) + Cardinality(Due(x, -1))
      BY <2>1 DEF LinksInv, CountInv
    <3>2. linked_by'[x] = (IF x = w THEN linked_by[x] + calls[t].d ELSE linked_by[x]) /\ linked_by[x] \in Int
      BY <1>1, <1>3, <2>1 DEF LinkTypes
    <3>3. Cardinality(Due(x, 1)) \in Nat /\ Cardinality(Due(x, -1)) \in Nat /\ Cardinality(Linkers(x)) \in Nat
      BY DueFinite, LinkersFinite
    <3>4. Linkers(x)' = Linkers(x)
      BY <1>1 DEF Linkers
    <3>5. \A d \in {-1, 1} : /\ IsDue(t, x, d) <=> x \in calls[t].ws /\ d = calls[t].d
                             /\ IsDue(t, x, d)' <=> x \in calls[t].ws /\ x # w /\ d = calls[t].d
      BY <1>1, <1>2, <1>5, <1>7, <1>9 DEF IsDue, Linking
    <3>6. ASSUME NEW d \in {-1, 1}
          PROVE  Cardinality(Due(x, d)') =
                   IF x = w /\ d = calls[t].d THEN Cardinality(Due(x, d)) - 1 ELSE Cardinality(Due(x, d))
      <4>1. CASE x = w /\ d = calls[t].d
        <5>1. IsDue(t, x, d) /\ ~IsDue(t, x, d)'
          BY <1>3, <3>5, <4>1
        <5>2. QED
          BY <1>1, <1>6, <4>1, <5>1, DueChanges
      <4>2. CASE ~(x = w /\ d = calls[t].d)
        <5>1. IsDue(t, x, d) <=> IsDue(t, x, d)'
          BY <3>5, <4>2
        <5>2. QED
          BY <1>1, <1>6, <4>2, <5>1, DueChanges
      <4>3. QED
        BY <4>1, <4>2
    <3>7. QED
      BY <1>4, <3>1, <3>2, <3>3, <3>4, <3>6
  <2>2. QED
    BY <1>1, <2>1 DEF CountInv
<1>15. QED
  BY <1>8, <1>11, <1>12, <1>13, <1>14 DEF LinksInv

(* Every step keeps the invariant.                                         *)
LEMMA LinksInvNext ==
    ASSUME LinksAssumption PROVE LinksInv /\ [LinksNext]_linksVars => LinksInv'
<1> SUFFICES ASSUME LinksInv, [LinksNext]_linksVars PROVE LinksInv'
  OBVIOUS
<1>1. CASE UNCHANGED linksVars
  BY <1>1 DEF linksVars, LinksInv, LinkTypes, CallsSound, CallSound, LinkSound, UpdateSound, Linking,
              OneUpdate, LinksLive, CountInv, Due, IsDue, Acyclic, Alive, Linkers
<1>2. CASE LinksNext
  BY <1>2, StateStep, LinkStep, StoreStep, UnlinkStep, FreeStep, ReadStep, WriteStep DEF LinksNext
<1>3. QED
  BY <1>1, <1>2

-----------------------------------------------------------------------------

(* Whatever worlds the threads make, freeze, link, unlink and free, and    *)
(* however their unlocked calls interleave: a world that two calls have    *)
(* not raced for is alive while another one links to it, and linked_by     *)
(* counts those whenever no thread is in a call.                           *)
THEOREM LinkedWorldsAlive == ASSUME LinksAssumption PROVE LinksSpec => []LinksSound
<1>1. LinksInv => LinksSound
  <2> SUFFICES ASSUME LinksInv, NEW w \in Worlds \ raced
               PROVE  /\ Linkers(w) # {} => Alive(w)
                      /\ NoCall => linked_by[w] = Cardinality(Linkers(w))
    BY DEF LinksSound
  <2>1. Linkers(w) # {} => Alive(w)
    BY DEF LinksInv, LinksLive, Linkers
  <2>2. ASSUME NoCall PROVE linked_by[w] = Cardinality(Linkers(w))
    <3>1. Due(w, 1) = {} /\ Due(w, -1) = {}
      BY <2>2 DEF NoCall, Due, IsDue, Idle
    <3>2. linked_by[w] + Cardinality(Due(w, 1)) = Cardinality(Linkers(w)) + Cardinality(Due(w, -1))
      BY DEF LinksInv, CountInv
    <3>3. linked_by[w] \in Int /\ Cardinality(Linkers(w)) \in Nat
      BY LinkersFinite DEF LinksInv, LinkTypes
    <3>4. QED
      BY <3>1, <3>2, <3>3, FS_EmptySet
  <2>3. QED
    BY <2>1, <2>2
<1>2. QED
  BY LinksInvInit, LinksInvNext, <1>1, PTL DEF LinksSpec

(* While no two calls have raced, the bounded search of world_link lets no *)
(* cycle in, so that some living world can always be freed.                *)
THEOREM NoWorldsHoldEachOther == ASSUME LinksAssumption PROVE LinksSpec => []SomeFreeable
<1>1. LinksInv => SomeFreeable
  <2> SUFFICES ASSUME LinksInv, NoCall, raced = {}, \E w \in Worlds : Alive(w)
               PROVE  \E w \in Worlds : Alive(w) /\ MayFree(w)
    BY DEF SomeFreeable
  <2> DEFINE S == {w \in Worlds : Alive(w)}
  <2>1. PICK w \in S : \A o \in S : w \notin links[o]
    BY DEF LinksInv, Acyclic
  <2>2. Linkers(w) = {}
    BY <2>1 DEF LinksInv, LinksLive, Linkers
  <2>3. Due(w, 1) = {} /\ Due(w, -1) = {}
    BY DEF NoCall, Due, IsDue, Idle
  <2>4. linked_by[w] + Cardinality(Due(w, 1)) = Cardinality(Linkers(w)) + Cardinality(Due(w, -1))
    BY <2>1 DEF LinksInv, CountInv
  <2>5. linked_by[w] = 0
    <3>1. linked_by[w] \in Int
      BY <2>1 DEF LinksInv, LinkTypes
    <3>2. QED
      BY <2>2, <2>3, <2>4, <3>1, FS_EmptySet
  <2>6. QED
    BY <2>1, <2>5 DEF MayFree
<1>2. QED
  BY LinksInvInit, LinksInvNext, <1>1, PTL DEF LinksSpec

-----------------------------------------------------------------------------
(* The cache: tables.                                                      *)

\* What a slot holds: a value of the cache, or a number or an offset of a region.
CacheVals == [kd : Kinds, x : Ints]
Vals == CacheVals \cup Int
Slots == [st : {0, 1, 2}, k : Keys \cup {0}, v : Vals \cup {0}]

TableType(t) ==
    /\ t = [n |-> t.n, cap |-> t.cap, s |-> t.s]
    /\ t.n \in Nat /\ t.cap \in Nat \ {0} /\ t.s \in [0..(t.cap - 1) -> Slots]
    /\ \A i \in 0..(t.cap - 1) : t.s[i].st = 1 => t.s[i].k \in Keys /\ t.s[i].v \in Vals

KeysOf(t) == {t.s[i].k : i \in Live(t)}

\* The table answers v for k.
Holds(t, k, v) == \E i \in Live(t) : t.s[i].k = k /\ t.s[i].v = v

\* The probe for k comes to slot i before it comes to an empty one.
Reached(t, k, i) == \E j \in 0..(t.cap - 1) :
    Spot(t, k, j) = i /\ \A h \in 0..(j - 1) : t.s[Spot(t, k, h)].st # 0

\* A key is in one slot, and its probe comes to that slot.
TableInv(t) ==
    /\ TableType(t)
    /\ \A i, j \in Live(t) : t.s[i].k = t.s[j].k => i = j
    /\ \A i \in Live(t) : Reached(t, t.s[i].k, i)
    /\ t.n = Cardinality(KeysOf(t))

(* The least of some numbers.                                              *)
LEMMA LeastIs ==
    ASSUME NEW S, S \subseteq Nat, S # {}
    PROVE  Min(S) \in S /\ \A y \in S : Min(S) <= y
<1> DEFINE R == OpToRel(<, Nat)
<1>1. \E x \in S : \A y \in S : x <= y
  <2>1. IsWellFoundedOn(R, Nat)
    BY NatLessThanWellFounded
  <2>2. PICK x \in S : \A y \in S : ~(<<y, x>> \in R)
    BY <2>1, WFMin
  <2>3. \A y \in S : ~(y < x)
    BY <2>2 DEF OpToRel
  <2>4. QED
    BY <2>3
<1>2. QED
  BY <1>1 DEF Min

(* Remainders: every remainder is met by c consecutive numbers.            *)
LEMMA RemainderIs ==
    ASSUME NEW c \in Nat \ {0}, NEW x \in Int
    PROVE  /\ x % c \in 0 .. c - 1
           /\ \A i \in 0 .. c - 1 : \E j \in 0 .. c - 1 : (x + j) % c = i
<1>1. x % c \in 0 .. c - 1
  OBVIOUS
<1>2. \A q \in Int : \A i \in 0 .. c - 1 : (c * q + i) % c = i
  OBVIOUS
<1>3. x = c * (x \div c) + (x % c) /\ x \div c \in Int
  OBVIOUS
<1>4. ASSUME NEW i \in 0 .. c - 1 PROVE \E j \in 0 .. c - 1 : (x + j) % c = i
  <2>1. PICK q \in Int, r \in 0 .. c - 1 : x = c * q + r
    BY <1>1, <1>3
  <2>2. CASE i >= r
    <3>1. i - r \in 0 .. c - 1 /\ x + (i - r) = c * q + i
      BY <2>1, <2>2
    <3>2. QED
      BY <1>2, <3>1
  <2>3. CASE ~(i >= r)
    <3>1. c * (q + 1) = c * q + c
      OBVIOUS
    <3>2. (i - r) + c \in 0 .. c - 1 /\ x + ((i - r) + c) = c * (q + 1) + i /\ q + 1 \in Int
      BY <2>1, <2>3, <3>1
    <3>3. QED
      BY <1>2, <3>2
  <2>4. QED
    BY <2>2, <2>3
<1>5. QED
  BY <1>1, <1>4

(* Where a probe looks: at places of the table, and in the end at all.     *)
LEMMA SpotIs ==
    ASSUME HashAssumption, NEW t, TableType(t), NEW k \in Keys
    PROVE  /\ \A j \in Nat : Spot(t, k, j) \in 0..(t.cap - 1)
           /\ \A i \in 0..(t.cap - 1) : \E j \in 0..(t.cap - 1) : Spot(t, k, j) = i
<1>1. Hash[k] \in Int /\ t.cap \in Nat \ {0}
  BY DEF HashAssumption, TableType
<1>2. PICK c \in Nat \ {0}, x \in Int : c = t.cap /\ x = Hash[k]
  BY <1>1
<1>3. \A j \in Nat : (x + j) % c \in 0 .. c - 1
  BY RemainderIs
<1>4. \A i \in 0 .. c - 1 : \E j \in 0 .. c - 1 : (x + j) % c = i
  BY RemainderIs
<1>5. QED
  BY <1>2, <1>3, <1>4 DEF Spot

(* What is at the end of a probe that ends.                                *)
LEMMA ProbeStops ==
    ASSUME HashAssumption, NEW t, TableInv(t), NEW k \in Keys, ProbeEnds(t, k),
           NEW j, j = Min(Halts(t, k)), NEW i, i = Spot(t, k, j)
    PROVE  /\ j \in 0..(t.cap - 1) /\ i \in 0..(t.cap - 1)
           /\ \A h \in 0..(j - 1) : t.s[Spot(t, k, h)].st # 0
           /\ t.s[i].st = 0 \/ t.s[i].st = 1
           /\ t.s[i].st = 1 => i \in Live(t) /\ t.s[i].k = k
           /\ t.s[i].st = 0 => k \notin KeysOf(t)
<1>1. Halts(t, k) \subseteq Nat /\ Halts(t, k) # {} /\ t.cap \in Nat \ {0} /\ TableType(t)
  BY DEF Halts, ProbeEnds, TableInv, TableType
<1>2. j \in Halts(t, k) /\ \A h \in Halts(t, k) : j <= h
  BY <1>1, LeastIs
<1>3. /\ j \in 0..(t.cap - 1)
      /\ t.s[i].st = 0 \/ (t.s[i].st = 1 /\ t.s[i].k = k)
  BY <1>2 DEF Halts
<1>4. i \in 0..(t.cap - 1)
  BY <1>1, <1>3, SpotIs
<1>5. ASSUME NEW h \in 0..(t.cap - 1), h \notin Halts(t, k)
      PROVE  t.s[Spot(t, k, h)].st # 0 /\ ~(t.s[Spot(t, k, h)].st = 1 /\ t.s[Spot(t, k, h)].k = k)
  BY <1>5 DEF Halts
<1>6. ASSUME NEW h \in 0..(j - 1)
      PROVE  t.s[Spot(t, k, h)].st # 0 /\ ~(t.s[Spot(t, k, h)].st = 1 /\ t.s[Spot(t, k, h)].k = k)
  <2>1. h \in 0..(t.cap - 1) /\ ~(j <= h)
    BY <1>1, <1>3
  <2>2. h \notin Halts(t, k)
    BY <1>2, <2>1
  <2>3. QED
    BY <1>5, <2>1, <2>2
<1>7. ASSUME t.s[i].st = 0, k \in KeysOf(t) PROVE FALSE
  <2>1. PICK l \in Live(t) : t.s[l].k = k
    BY <1>7 DEF KeysOf
  <2>2. Reached(t, k, l)
    BY <2>1 DEF TableInv
  <2>3. PICK m \in 0..(t.cap - 1) : Spot(t, k, m) = l /\ \A h \in 0..(m - 1) : t.s[Spot(t, k, h)].st # 0
    BY <2>2 DEF Reached
  <2>4. t.s[l].st = 1
    BY <2>1 DEF Live
  <2>5. CASE m < j
    <3>1. m \in 0..(j - 1)
      BY <1>1, <1>3, <2>5
    <3>2. QED
      BY <1>6, <2>1, <2>3, <2>4, <3>1
  <2>6. CASE m = j
    BY <1>7, <2>3, <2>4, <2>6
  <2>7. CASE m > j
    <3>1. j \in 0..(m - 1)
      BY <1>1, <1>3, <2>7
    <3>2. QED
      BY <1>7, <2>3, <3>1
  <2>8. QED
    BY <1>1, <1>3, <2>5, <2>6, <2>7
<1>8. QED
  BY <1>3, <1>4, <1>6, <1>7 DEF Live

(* The live slots and the keys of a table are finitely many.               *)
LEMMA TableFinite ==
    ASSUME NEW t, TableType(t)
    PROVE  /\ IsFiniteSet(Live(t)) /\ IsFiniteSet(KeysOf(t)) /\ KeysOf(t) \subseteq Keys
           /\ Live(t) \subseteq 0..(t.cap - 1)
<1>1. IsFiniteSet(0..(t.cap - 1))
  <2>1. t.cap - 1 \in Int
    BY DEF TableType
  <2>2. QED
    BY <2>1, FS_Interval
<1>2. IsFiniteSet(Live(t)) /\ Live(t) \subseteq 0..(t.cap - 1)
  BY <1>1, FS_Subset DEF Live
<1>3. IsFiniteSet(KeysOf(t))
  <2> DEFINE f == [i \in Live(t) |-> t.s[i].k]
  <2>1. f \in Surjection(Live(t), KeysOf(t))
    BY DEF KeysOf, Surjection
  <2>2. QED
    BY <1>2, <2>1, FS_Surjection
<1>4. KeysOf(t) \subseteq Keys
  BY DEF KeysOf, Live, TableType
<1>5. QED
  BY <1>2, <1>3, <1>4

(* Where a key is.                                                         *)
LEMMA SlotIs ==
    ASSUME HashAssumption, NEW t, TableInv(t), NEW k \in Keys, t.n = 0 \/ ProbeEnds(t, k)
    PROVE  \/ Slot(t, k) = -1 /\ k \notin KeysOf(t)
           \/ Slot(t, k) \in Live(t) /\ t.s[Slot(t, k)].k = k /\ Slot(t, k) \in 0..(t.cap - 1)
<1>1. CASE t.n = 0
  <2>1. Slot(t, k) = -1
    BY <1>1 DEF Slot
  <2>2. KeysOf(t) = {}
    BY <1>1, TableFinite, FS_EmptySet DEF TableInv
  <2>3. QED
    BY <2>1, <2>2
<1>2. CASE t.n # 0
  <2>1. PICK i : i = Spot(t, k, Min(Halts(t, k)))
    OBVIOUS
  <2>2. Slot(t, k) = IF t.s[i].st = 1 THEN i ELSE -1
    BY <1>2, <2>1 DEF Slot
  <2>3. /\ i \in 0..(t.cap - 1) /\ (t.s[i].st = 0 \/ t.s[i].st = 1)
        /\ t.s[i].st = 1 => i \in Live(t) /\ t.s[i].k = k
        /\ t.s[i].st = 0 => k \notin KeysOf(t)
    BY <1>2, <2>1, ProbeStops
  <2>4. QED
    BY <2>2, <2>3
<1>3. QED
  BY <1>1, <1>2

\* What is at slot i of u is new, and u is t otherwise.
Written(t, u, i, new, n) ==
    /\ i \in 0..(t.cap - 1)
    /\ u = [n |-> n, cap |-> t.cap, s |-> [t.s EXCEPT ![i] = new]]

(* An entry is written where its key is, or at a place on the way of its   *)
(* probe when it is nowhere.                                               *)
LEMMA Inserted ==
    ASSUME HashAssumption, NEW t, TableInv(t), NEW k \in Keys, NEW v \in Vals, ProbeEnds(t, k)
    PROVE  \E i, n : /\ Written(t, Insert(t, k, v), i, [st |-> 1, k |-> k, v |-> v], n)
                     /\ \/ i \in Live(t) /\ t.s[i].k = k /\ n = t.n
                        \/ /\ t.s[i].st # 1 /\ k \notin KeysOf(t) /\ n = t.n + 1
                           /\ Reached(t, k, i)
<1> DEFINE j == Min(Halts(t, k))
           holes == {h \in 0..(j - 1) : t.s[Spot(t, k, h)].st = 2}
           new == [st |-> 1, k |-> k, v |-> v]
           p == IF holes = {} THEN j ELSE Min(holes)
<1>1. PICK i : i = Spot(t, k, j)
  OBVIOUS
<1>2. /\ j \in 0..(t.cap - 1) /\ i \in 0..(t.cap - 1)
      /\ \A h \in 0..(j - 1) : t.s[Spot(t, k, h)].st # 0
      /\ t.s[i].st = 0 \/ t.s[i].st = 1
      /\ t.s[i].st = 1 => i \in Live(t) /\ t.s[i].k = k
      /\ t.s[i].st = 0 => k \notin KeysOf(t)
  BY <1>1, ProbeStops
<1>3. TableType(t) /\ t = [n |-> t.n, cap |-> t.cap, s |-> t.s] /\ t.cap \in Nat \ {0}
  BY DEF TableInv, TableType
<1>4. Insert(t, k, v) = IF t.s[i].st = 1 THEN Store(t, i, new)
                        ELSE [Store(t, Spot(t, k, p), new) EXCEPT !.n = t.n + 1]
  BY <1>1 DEF Insert
<1>5. \A l : Store(t, l, new) = [n |-> t.n, cap |-> t.cap, s |-> [t.s EXCEPT ![l] = new]]
  BY <1>3 DEF Store
<1>6. CASE t.s[i].st = 1
  <2>1. Insert(t, k, v) = Store(t, i, new)
    BY <1>4, <1>6
  <2>2. Written(t, Insert(t, k, v), i, new, t.n)
    BY <1>2, <1>5, <2>1 DEF Written
  <2>3. QED
    BY <1>2, <1>6, <2>2
<1>7. CASE t.s[i].st = 0
  <2>1. p \in 0..j /\ t.s[Spot(t, k, p)].st # 1
    <3>1. CASE holes = {}
      BY <1>1, <1>2, <1>7, <3>1
    <3>2. CASE holes # {}
      <4>1. holes \subseteq Nat
        BY <1>2
      <4>2. Min(holes) \in holes
        BY <3>2, <4>1, LeastIs
      <4>3. QED
        BY <1>2, <3>2, <4>2
    <3>3. QED
      BY <3>1, <3>2
  <2>2. PICK l : l = Spot(t, k, p)
    OBVIOUS
  <2> HIDE DEF p, j
  <2>3. l \in 0..(t.cap - 1) /\ p \in 0..(t.cap - 1) /\ t.s[l].st # 1
    <3>1. p \in Nat /\ p \in 0..(t.cap - 1)
      BY <1>2, <1>3, <2>1
    <3>2. QED
      BY <1>3, <2>1, <2>2, <3>1, SpotIs
  <2>4. \A h \in 0..(p - 1) : h \in 0..(j - 1)
    BY <1>2, <2>1
  <2>5. Reached(t, k, l)
    BY <1>2, <2>2, <2>3, <2>4 DEF Reached
  <2>6. Insert(t, k, v) = [n |-> t.n + 1, cap |-> t.cap, s |-> [t.s EXCEPT ![l] = new]]
    <3>1. Insert(t, k, v) = [Store(t, l, new) EXCEPT !.n = t.n + 1]
      BY <1>4, <1>7, <2>2
    <3>2. PICK f : f = [t.s EXCEPT ![l] = new]
      OBVIOUS
    <3>3. Store(t, l, new) = [n |-> t.n, cap |-> t.cap, s |-> f]
      BY <1>5, <3>2
    <3>4. Insert(t, k, v) = [n |-> t.n + 1, cap |-> t.cap, s |-> f]
      BY <3>1, <3>3
    <3>5. QED
      BY <3>2, <3>4
  <2>7. Written(t, Insert(t, k, v), l, new, t.n + 1)
    BY <2>3, <2>6 DEF Written
  <2>8. QED
    BY <1>2, <1>7, <2>3, <2>5, <2>7
<1>8. QED
  BY <1>2, <1>6, <1>7

(* A table after an entry was written.                                     *)
LEMMA WrittenKeeps ==
    ASSUME HashAssumption, NEW t, TableInv(t), NEW k \in Keys, NEW v \in Vals, NEW u, NEW i, NEW n,
           Written(t, u, i, [st |-> 1, k |-> k, v |-> v], n),
           \/ i \in Live(t) /\ t.s[i].k = k /\ n = t.n
           \/ t.s[i].st # 1 /\ k \notin KeysOf(t) /\ n = t.n + 1 /\ Reached(t, k, i)
    PROVE  /\ TableInv(u) /\ u.cap = t.cap /\ u.n = n
           /\ Live(u) = Live(t) \cup {i} /\ KeysOf(u) = KeysOf(t) \cup {k}
           /\ \A q, w : Holds(u, q, w) <=> (q = k /\ w = v) \/ (q # k /\ Holds(t, q, w))
<1> DEFINE new == [st |-> 1, k |-> k, v |-> v]
<1>1. /\ TableType(t) /\ t.n \in Nat /\ t.cap \in Nat \ {0} /\ t.s \in [0..(t.cap - 1) -> Slots]
      /\ i \in 0..(t.cap - 1) /\ u = [n |-> n, cap |-> t.cap, s |-> [t.s EXCEPT ![i] = new]]
  BY DEF Written, TableInv, TableType
<1>2. /\ u.n = n /\ u.cap = t.cap /\ u.s = [t.s EXCEPT ![i] = new]
      /\ u = [n |-> u.n, cap |-> u.cap, s |-> u.s]
  BY <1>1
<1>3. new \in Slots /\ new.st = 1 /\ new.k = k /\ new.v = v
  BY DEF Slots
<1> HIDE DEF new
<1>4. /\ u.s \in [0..(t.cap - 1) -> Slots] /\ u.s[i] = new
      /\ \A l \in 0..(t.cap - 1) : l # i => u.s[l] = t.s[l]
  BY <1>1, <1>2, <1>3
<1>5. TableType(u)
  <2>1. u.n \in Nat
    BY <1>1, <1>2
  <2>2. QED
    BY <1>1, <1>2, <1>3, <1>4, <2>1 DEF TableType
<1>6. Live(u) = Live(t) \cup {i}
  BY <1>1, <1>2, <1>3, <1>4 DEF Live
<1>7. \A l \in Live(t) : l \in 0..(t.cap - 1) /\ (t.s[l].k = k <=> l = i)
  <2>1. \A l \in Live(t) : t.s[l].k \in KeysOf(t) /\ l \in 0..(t.cap - 1) /\ t.s[l].st = 1
    BY DEF KeysOf, Live
  <2>2. QED
    BY <2>1 DEF TableInv
<1>8. KeysOf(u) = KeysOf(t) \cup {k}
  <2>1. \A l \in Live(t) : u.s[l].k = t.s[l].k
    BY <1>3, <1>4, <1>7
  <2>2. u.s[i].k = k
    BY <1>3, <1>4
  <2>3. QED
    BY <1>6, <2>1, <2>2 DEF KeysOf
<1>9. ASSUME NEW l \in Live(u), NEW m \in Live(u), u.s[l].k = u.s[m].k PROVE l = m
  BY <1>3, <1>4, <1>6, <1>7, <1>9 DEF TableInv
<1>10. ASSUME NEW l \in Live(u) PROVE Reached(u, u.s[l].k, l)
  <2>1. Reached(t, u.s[l].k, l) /\ u.s[l].k \in Keys
    <3>1. CASE l = i
      BY <1>3, <1>4, <3>1 DEF TableInv
    <3>2. CASE l # i
      BY <1>4, <1>6, <1>7, <3>2 DEF TableInv, TableType, Live
    <3>3. QED
      BY <3>1, <3>2
  <2>2. PICK q \in Keys : q = u.s[l].k
    BY <2>1
  <2>3. PICK j \in 0..(t.cap - 1) : Spot(t, q, j) = l /\ \A h \in 0..(j - 1) : t.s[Spot(t, q, h)].st # 0
    BY <2>1, <2>2 DEF Reached
  <2>4. \A h : Spot(u, q, h) = Spot(t, q, h)
    BY <1>2 DEF Spot
  <2>5. ASSUME NEW h \in 0..(j - 1) PROVE u.s[Spot(t, q, h)].st # 0
    <3>1. h \in Nat
      BY <1>1
    <3>2. Spot(t, q, h) \in 0..(t.cap - 1)
      BY <1>1, <3>1, SpotIs
    <3>3. t.s[Spot(t, q, h)].st # 0
      BY <2>3
    <3>4. QED
      BY <1>3, <1>4, <3>2, <3>3
  <2>6. QED
    BY <1>2, <2>2, <2>3, <2>4, <2>5 DEF Reached
<1>11. u.n = Cardinality(KeysOf(u))
  <2>1. IsFiniteSet(KeysOf(t)) /\ t.n = Cardinality(KeysOf(t))
    BY <1>1, TableFinite DEF TableInv
  <2>2. CASE i \in Live(t) /\ t.s[i].k = k /\ n = t.n
    <3>1. KeysOf(u) = KeysOf(t)
      BY <1>8, <2>2 DEF KeysOf
    <3>2. QED
      BY <1>2, <2>1, <2>2, <3>1
  <2>3. CASE k \notin KeysOf(t) /\ n = t.n + 1
    BY <1>2, <1>8, <2>1, <2>3, FS_AddElement
  <2>4. QED
    BY <2>2, <2>3
<1>12. ASSUME NEW q, NEW w PROVE Holds(u, q, w) <=> (q = k /\ w = v) \/ (q # k /\ Holds(t, q, w))
  <2>1. \A l \in Live(u) : \/ l = i /\ u.s[l].k = k /\ u.s[l].v = v
                           \/ l \in Live(t) /\ u.s[l] = t.s[l] /\ t.s[l].k # k
    BY <1>3, <1>4, <1>6, <1>7
  <2>2. \A l \in Live(t) : t.s[l].k # k => l \in Live(u) /\ u.s[l] = t.s[l]
    BY <1>4, <1>6, <1>7
  <2>3. i \in Live(u) /\ u.s[i].k = k /\ u.s[i].v = v
    BY <1>3, <1>4, <1>6
  <2>4. QED
    BY <2>1, <2>2, <2>3 DEF Holds
<1>13. QED
  BY <1>2, <1>5, <1>6, <1>8, <1>9, <1>10, <1>11, <1>12 DEF TableInv

(* A table after a key was deleted, or was looked for in vain.             *)
LEMMA DeletedKeeps ==
    ASSUME HashAssumption, NEW t, TableInv(t), NEW k \in Keys, t.n = 0 \/ ProbeEnds(t, k),
           NEW u, u = Delete(t, k)
    PROVE  /\ TableInv(u) /\ KeysOf(u) = KeysOf(t) \ {k}
           /\ \A q, w : Holds(u, q, w) <=> q # k /\ Holds(t, q, w)
<1>1. /\ TableType(t) /\ t.n \in Nat /\ t.cap \in Nat \ {0} /\ t.s \in [0..(t.cap - 1) -> Slots]
      /\ t = [n |-> t.n, cap |-> t.cap, s |-> t.s]
  BY DEF TableInv, TableType
<1>2. \A q, w : Holds(t, q, w) => q \in KeysOf(t)
  BY DEF Holds, KeysOf
<1>3. PICK i : i = Slot(t, k)
  OBVIOUS
<1>4. CASE i = -1 /\ k \notin KeysOf(t)
  <2>1. u = t
    BY <1>3, <1>4 DEF Delete
  <2>2. QED
    BY <1>2, <1>4, <2>1
<1>5. CASE i \in Live(t) /\ t.s[i].k = k /\ i \in 0..(t.cap - 1)
  <2>1. PICK f : f = [t.s EXCEPT ![i].st = 2]
    OBVIOUS
  <2>2. u = [n |-> t.n - 1, cap |-> t.cap, s |-> f]
    <3>1. ~(i < 0)
      BY <1>1, <1>5
    <3>2. u = [t EXCEPT !.s[i].st = 2, !.n = t.n - 1]
      BY <1>3, <3>1 DEF Delete
    <3>3. QED
      BY <1>1, <2>1, <3>2
  <2>3. u.n = t.n - 1 /\ u.cap = t.cap /\ u.s = f /\ u = [n |-> u.n, cap |-> u.cap, s |-> u.s]
    BY <2>2
  <2>4. t.s[i] \in Slots
    BY <1>1, <1>5
  <2>5. /\ u.s \in [0..(t.cap - 1) -> Slots] /\ u.s[i].st = 2
        /\ \A l \in 0..(t.cap - 1) : l # i => u.s[l] = t.s[l]
    <3>1. PICK e : e = [t.s[i] EXCEPT !.st = 2]
      OBVIOUS
    <3>2. e \in Slots /\ e.st = 2
      BY <2>4, <3>1 DEF Slots
    <3>3. f = [t.s EXCEPT ![i] = e]
      BY <2>1, <3>1
    <3>4. QED
      BY <1>1, <1>5, <2>3, <3>2, <3>3
  <2>6. \A l \in Live(t) : l \in 0..(t.cap - 1) /\ t.s[l].k \in KeysOf(t) /\ (t.s[l].k = k <=> l = i)
    <3>1. \A l \in Live(t) : l \in 0..(t.cap - 1) /\ t.s[l].k \in KeysOf(t)
      BY DEF Live, KeysOf
    <3>2. QED
      BY <1>5, <3>1 DEF TableInv
  <2>7. Live(u) = Live(t) \ {i}
    BY <1>1, <2>3, <2>5 DEF Live
  <2>8. \A l \in Live(u) : l \in Live(t) /\ u.s[l] = t.s[l] /\ t.s[l].k # k
    BY <2>5, <2>6, <2>7
  <2>9. \A l \in Live(t) : t.s[l].k # k => l \in Live(u) /\ u.s[l] = t.s[l]
    BY <2>5, <2>6, <2>7
  <2>10. KeysOf(u) = KeysOf(t) \ {k} /\ k \in KeysOf(t)
    BY <1>5, <2>8, <2>9 DEF KeysOf
  <2>11. u.n = Cardinality(KeysOf(u)) /\ u.n \in Nat
    <3>1. IsFiniteSet(KeysOf(t)) /\ t.n = Cardinality(KeysOf(t))
      BY <1>1, TableFinite DEF TableInv
    <3>2. IsFiniteSet(KeysOf(u)) /\ Cardinality(KeysOf(u)) = t.n - 1
      BY <2>10, <3>1, FS_RemoveElement
    <3>3. QED
      BY <2>3, <3>2, FS_CardinalityType
  <2>12. TableType(u)
    <3>1. ASSUME NEW l \in 0..(t.cap - 1), u.s[l].st = 1 PROVE u.s[l].k \in Keys /\ u.s[l].v \in Vals
      <4>1. l # i
        BY <2>5, <3>1
      <4>2. u.s[l] = t.s[l]
        BY <2>5, <4>1
      <4>3. QED
        BY <1>1, <3>1, <4>2 DEF TableType
    <3>2. QED
      BY <1>1, <2>3, <2>5, <2>11, <3>1 DEF TableType
  <2>13. ASSUME NEW l \in Live(u) PROVE Reached(u, u.s[l].k, l)
    <3>1. Reached(t, t.s[l].k, l) /\ t.s[l].k \in Keys
      BY <1>1, <2>8 DEF TableInv, TableType, Live
    <3>2. PICK q \in Keys : q = t.s[l].k
      BY <3>1
    <3>3. PICK j \in 0..(t.cap - 1) : Spot(t, q, j) = l /\ \A h \in 0..(j - 1) : t.s[Spot(t, q, h)].st # 0
      BY <3>1, <3>2 DEF Reached
    <3>4. \A h : Spot(u, q, h) = Spot(t, q, h)
      BY <2>3 DEF Spot
    <3>5. ASSUME NEW h \in 0..(j - 1) PROVE u.s[Spot(t, q, h)].st # 0
      <4>1. h \in Nat
        BY <1>1
      <4>2. Spot(t, q, h) \in 0..(t.cap - 1)
        BY <1>1, <4>1, SpotIs
      <4>3. QED
        BY <2>5, <3>3, <4>2
    <3>6. u.s[l].k = q
      BY <2>8, <3>2
    <3>7. QED
      BY <2>3, <3>3, <3>4, <3>5, <3>6 DEF Reached
  <2>14. \A l, m \in Live(u) : u.s[l].k = u.s[m].k => l = m
    BY <2>8 DEF TableInv
  <2>15. \A q, w : Holds(u, q, w) <=> q # k /\ Holds(t, q, w)
    BY <2>8, <2>9 DEF Holds
  <2>16. QED
    BY <2>10, <2>11, <2>12, <2>13, <2>14, <2>15 DEF TableInv
<1>6. QED
  BY <1>3, <1>4, <1>5, SlotIs

(* A table without an entry.                                               *)
LEMMA NewTableIs ==
    ASSUME NEW cap \in Nat \ {0}, NEW u, u = NewTable(cap)
    PROVE  /\ TableInv(u) /\ u.cap = cap /\ Live(u) = {} /\ KeysOf(u) = {}
           /\ \A i \in 0..(cap - 1) : u.s[i].st = 0
           /\ \A q, w : ~Holds(u, q, w)
<1>1. Vacant \in Slots /\ Vacant.st = 0
  BY DEF Vacant, Slots
<1>2. /\ u = [n |-> u.n, cap |-> u.cap, s |-> u.s]
      /\ u.n = 0 /\ u.cap = cap /\ u.s = [i \in 0..(cap - 1) |-> Vacant]
  BY DEF NewTable
<1>3. u.s \in [0..(cap - 1) -> Slots] /\ \A i \in 0..(cap - 1) : u.s[i].st = 0
  BY <1>1, <1>2
<1>4. Live(u) = {}
  BY <1>2, <1>3 DEF Live
<1>5. KeysOf(u) = {} /\ \A q, w : ~Holds(u, q, w)
  BY <1>4 DEF KeysOf, Holds
<1>6. u.n = Cardinality(KeysOf(u))
  BY <1>2, <1>5, FS_EmptySet
<1>7. TableType(u)
  BY <1>2, <1>3 DEF TableType
<1>8. QED
  BY <1>2, <1>3, <1>4, <1>5, <1>6, <1>7 DEF TableInv

(* A probe ends in a table that has an empty slot.                         *)
LEMMA EmptySlotEnds ==
    ASSUME HashAssumption, NEW t, TableInv(t), NEW k \in Keys,
           NEW i \in 0..(t.cap - 1), t.s[i].st = 0
    PROVE  ProbeEnds(t, k)
<1>1. PICK j \in 0..(t.cap - 1) : Spot(t, k, j) = i
  BY SpotIs DEF TableInv
<1>2. j \in Halts(t, k)
  BY <1>1 DEF Halts
<1>3. QED
  BY <1>2 DEF ProbeEnds

\* u holds the live entries of the first m slots of t, and nothing else.
Filled(t, u, cap, m) ==
    /\ TableInv(u) /\ u.cap = cap
    /\ \A i \in 0..(cap - 1) : u.s[i].st # 2
    /\ Cardinality(Live(u)) <= m
    /\ \A q, w : Holds(u, q, w) <=> \E i \in 0..(m - 1) : i \in Live(t) /\ t.s[i].k = q /\ t.s[i].v = w

(* Growth moves one slot: the larger table has an empty slot left for it.  *)
LEMMA OneMoved ==
    ASSUME HashAssumption, NEW t, TableInv(t), NEW cap \in Nat, cap > t.cap,
           NEW m \in 0..(t.cap - 1), NEW u, Filled(t, u, cap, m),
           NEW u2, u2 = IF t.s[m].st = 1 THEN Insert(u, t.s[m].k, t.s[m].v) ELSE u
    PROVE  Filled(t, u2, cap, m + 1)
<1>1. /\ TableType(t) /\ TableInv(u) /\ TableType(u) /\ u.cap = cap /\ m \in Nat /\ m < cap
      /\ t.cap \in Nat \ {0}
  BY DEF TableInv, TableType, Filled
<1>2. /\ IsFiniteSet(Live(u)) /\ Cardinality(Live(u)) \in Nat /\ Cardinality(Live(u)) <= m
      /\ Live(u) \subseteq 0..(cap - 1)
  BY <1>1, TableFinite, FS_CardinalityType DEF Filled
<1>3. \A i : i \in 0..((m + 1) - 1) <=> i = m \/ i \in 0..(m - 1)
  BY <1>1
<1>4. CASE t.s[m].st # 1
  <2>1. u2 = u /\ m \notin Live(t)
    BY <1>4 DEF Live
  <2>2. Cardinality(Live(u2)) <= m + 1
    BY <1>1, <1>2, <2>1
  <2>3. QED
    BY <1>3, <2>1, <2>2 DEF Filled
<1>5. CASE t.s[m].st = 1
  <2>1. PICK k \in Keys, v \in Vals : k = t.s[m].k /\ v = t.s[m].v
    BY <1>1, <1>5 DEF TableType
  <2>2. m \in Live(t) /\ u2 = Insert(u, k, v)
    BY <1>5, <2>1 DEF Live
  <2>3. PICK e \in 0..(cap - 1) : e \notin Live(u)
    <3>1. SUFFICES ASSUME 0..(cap - 1) \subseteq Live(u) PROVE FALSE
      OBVIOUS
    <3>2. Live(u) = 0..(cap - 1)
      BY <1>2, <3>1
    <3>3. cap - 1 \in Int /\ 0 \in Int /\ (cap - 1) - 0 + 1 = cap /\ 0 <= cap - 1
      BY <1>1
    <3>4. Cardinality(0..(cap - 1)) = cap
      BY <3>3, FS_Interval
    <3>5. QED
      BY <1>1, <1>2, <3>2, <3>4
  <2>4. u.s[e].st = 0
    BY <1>1, <2>3 DEF Live, Filled, TableType, Slots
  <2>5. ProbeEnds(u, k)
    BY <1>1, <2>3, <2>4, EmptySlotEnds
  <2>6. \A w : ~Holds(u, k, w)
    <3>1. \A i \in Live(t) : t.s[i].k = k => i = m
      BY <2>1, <2>2 DEF TableInv
    <3>2. m \notin 0..(m - 1)
      BY <1>1
    <3>3. QED
      BY <3>1, <3>2 DEF Filled
  <2>7. k \notin KeysOf(u)
    BY <2>6 DEF KeysOf, Holds
  <2>8. PICK i, n : /\ Written(u, u2, i, [st |-> 1, k |-> k, v |-> v], n)
                    /\ u.s[i].st # 1 /\ n = u.n + 1 /\ Reached(u, k, i)
    <3>1. \A i \in Live(u) : u.s[i].k # k
      BY <2>7 DEF KeysOf
    <3>2. \E i, n : /\ Written(u, Insert(u, k, v), i, [st |-> 1, k |-> k, v |-> v], n)
                    /\ \/ i \in Live(u) /\ u.s[i].k = k /\ n = u.n
                       \/ /\ u.s[i].st # 1 /\ k \notin KeysOf(u) /\ n = u.n + 1
                          /\ Reached(u, k, i)
      BY <1>1, <2>1, <2>5, Inserted
    <3>3. QED
      BY <2>2, <3>1, <3>2
  <2>9. /\ TableInv(u2) /\ u2.cap = u.cap /\ Live(u2) = Live(u) \cup {i}
        /\ \A q, w : Holds(u2, q, w) <=> (q = k /\ w = v) \/ (q # k /\ Holds(u, q, w))
    BY <1>1, <2>7, <2>8, WrittenKeeps
  <2>10. \A l \in 0..(cap - 1) : u2.s[l].st # 2
    <3>1. u2.s = [u.s EXCEPT ![i] = [st |-> 1, k |-> k, v |-> v]]
      BY <2>8 DEF Written
    <3>2. \A l \in 0..(cap - 1) : l = i \/ u2.s[l] = u.s[l]
      BY <1>1, <3>1 DEF TableType
    <3>3. i \in 0..(cap - 1) => u2.s[i].st = 1
      BY <1>1, <3>1 DEF TableType
    <3>4. QED
      BY <3>2, <3>3 DEF Filled
  <2>11. Cardinality(Live(u2)) <= m + 1
    <3>1. i \notin Live(u)
      BY <2>8 DEF Live
    <3>2. Cardinality(Live(u2)) = Cardinality(Live(u)) + 1
      BY <1>2, <2>9, <3>1, FS_AddElement
    <3>3. QED
      BY <1>1, <1>2, <3>2
  <2>12. ASSUME NEW q, NEW w
         PROVE  Holds(u2, q, w) <=>
                \E l \in 0..((m + 1) - 1) : l \in Live(t) /\ t.s[l].k = q /\ t.s[l].v = w
    <3>1. Holds(u2, q, w) <=> (q = k /\ w = v) \/ Holds(u, q, w)
      BY <2>6, <2>9
    <3>2. Holds(u, q, w) <=> \E l \in 0..(m - 1) : l \in Live(t) /\ t.s[l].k = q /\ t.s[l].v = w
      BY DEF Filled
    <3>3. QED
      BY <1>3, <2>1, <2>2, <3>1, <3>2
  <2>13. QED
    BY <1>1, <2>9, <2>10, <2>11, <2>12 DEF Filled
<1>6. QED
  BY <1>4, <1>5

MovedFrom(t, cap, f, i) ==
    IF i = 0 THEN NewTable(cap)
    ELSE IF t.s[i - 1].st = 1 THEN Insert(f[i - 1], t.s[i - 1].k, t.s[i - 1].v)
    ELSE f[i - 1]

\* f[i] is the new table after the first i slots of t.
Moves(t, cap, f) == f = [i \in 0..t.cap |-> MovedFrom(t, cap, f, i)]

(* Growth is such a function, if there is one.                             *)
LEMMA RehashIs ==
    ASSUME NEW t, NEW cap
    PROVE  Rehash(t, cap) = (CHOOSE f : Moves(t, cap, f))[t.cap]
  BY DEF Rehash, Moves, MovedFrom

(* There is one: by induction on how many slots have been moved.           *)
LEMMA MovesExists ==
    ASSUME NEW t, t.cap \in Nat, NEW cap
    PROVE  \E f : Moves(t, cap, f)
<1> DEFINE Partial(m, f) == f = [i \in 0..m |-> MovedFrom(t, cap, f, i)]
           T == {m \in Nat : \E f : Partial(m, f)}
<1>1. 0 \in T
  <2> DEFINE f == [i \in 0..0 |-> NewTable(cap)]
  <2>1. Partial(0, f)
    BY DEF MovedFrom
  <2>2. QED
    BY <2>1
<1>2. ASSUME NEW m \in Nat, m \in T PROVE m + 1 \in T
  <2>1. PICK f : Partial(m, f)
    BY <1>2
  <2> DEFINE new == [i \in 0..(m + 1) |-> MovedFrom(t, cap, f, i)]
  <2>2. \A i \in 0..m : new[i] = f[i]
    <3>1. \A i \in 0..m : i \in 0..(m + 1)
      OBVIOUS
    <3>2. QED
      BY <2>1, <3>1
  <2>3. ASSUME NEW i \in 0..(m + 1) PROVE MovedFrom(t, cap, f, i) = MovedFrom(t, cap, new, i)
    <3>1. i = 0 \/ i - 1 \in 0..m
      OBVIOUS
    <3> HIDE DEF new
    <3>2. i = 0 \/ new[i - 1] = f[i - 1]
      BY <2>2, <3>1
    <3>3. QED
      BY <3>2 DEF MovedFrom
  <2>4. Partial(m + 1, new)
    <3>1. new = [i \in 0..(m + 1) |-> MovedFrom(t, cap, new, i)]
      BY <2>3, Zenon
    <3>2. QED
      BY <3>1
  <2>5. QED
    <3> HIDE DEF new, Partial
    <3>1. QED
      BY <2>4
<1>3. t.cap \in T
  <2> HIDE DEF T
  <2>1. QED
    BY <1>1, <1>2, NumberInduction
<1>4. QED
  BY <1>3 DEF Moves

(* Growth keeps the entries.                                               *)
LEMMA RehashKeeps ==
    ASSUME HashAssumption, NEW t, TableInv(t), NEW cap \in Nat, cap > t.cap, NEW u, u = Rehash(t, cap)
    PROVE  /\ TableInv(u) /\ u.cap = cap /\ KeysOf(u) = KeysOf(t) /\ u.n = t.n
           /\ \A q, w : Holds(u, q, w) <=> Holds(t, q, w)
<1>1. TableType(t) /\ t.cap \in Nat \ {0} /\ cap \in Nat \ {0}
  BY DEF TableInv, TableType
<1>2. PICK f : Moves(t, cap, f) /\ u = f[t.cap]
  BY <1>1, RehashIs, MovesExists
<1>3. \A i \in 0..t.cap : f[i] = MovedFrom(t, cap, f, i)
  BY <1>2 DEF Moves
<1> DEFINE T == {m \in Nat : m <= t.cap => Filled(t, f[m], cap, m)}
<1>4. 0 \in T
  <2>1. f[0] = NewTable(cap)
    BY <1>1, <1>3 DEF MovedFrom
  <2>2. PICK new : new = f[0]
    OBVIOUS
  <2>3. /\ TableInv(new) /\ new.cap = cap /\ Live(new) = {}
        /\ \A i \in 0..(cap - 1) : new.s[i].st = 0
        /\ \A q, w : ~Holds(new, q, w)
    BY <1>1, <2>1, <2>2, NewTableIs
  <2>4. Cardinality(Live(new)) <= 0
    BY <2>3, FS_EmptySet
  <2>5. Filled(t, new, cap, 0)
    BY <2>3, <2>4 DEF Filled
  <2>6. QED
    BY <2>2, <2>5
<1>5. ASSUME NEW m \in Nat, m \in T PROVE m + 1 \in T
  <2>1. SUFFICES ASSUME m + 1 <= t.cap PROVE Filled(t, f[m + 1], cap, m + 1)
    OBVIOUS
  <2>2. m + 1 \in 0..t.cap /\ m \in 0..(t.cap - 1) /\ (m + 1) - 1 = m /\ m + 1 # 0 /\ m <= t.cap
    BY <1>1, <2>1
  <2>3. Filled(t, f[m], cap, m)
    BY <1>5, <2>2
  <2>4. f[m + 1] = IF t.s[m].st = 1 THEN Insert(f[m], t.s[m].k, t.s[m].v) ELSE f[m]
    BY <1>3, <2>2 DEF MovedFrom
  <2>5. PICK a, b : a = f[m] /\ b = f[m + 1]
    OBVIOUS
  <2>6. QED
    BY <2>2, <2>3, <2>4, <2>5, OneMoved
<1>6. Filled(t, u, cap, t.cap)
  <2> HIDE DEF T
  <2>1. t.cap \in T
    BY <1>1, <1>4, <1>5, NumberInduction
  <2>2. QED
    BY <1>1, <1>2, <2>1 DEF T
<1>7. TableInv(u) /\ u.cap = cap
  BY <1>6 DEF Filled
<1>8. \A q, w : Holds(u, q, w) <=> Holds(t, q, w)
  BY <1>6 DEF Filled, Holds, Live
<1>9. \A x : \A q : q \in KeysOf(x) <=> \E w : Holds(x, q, w)
  BY DEF KeysOf, Holds
<1>10. KeysOf(u) = KeysOf(t)
  BY <1>8, <1>9
<1>11. u.n = t.n
  BY <1>7, <1>10 DEF TableInv
<1>12. QED
  BY <1>7, <1>8, <1>10, <1>11

(* So does making room.                                                    *)
LEMMA RoomyKeeps ==
    ASSUME HashAssumption, NEW t, TableInv(t), NEW u, u = Roomy(t)
    PROVE  /\ TableInv(u) /\ KeysOf(u) = KeysOf(t)
           /\ \A q, w : Holds(u, q, w) <=> Holds(t, q, w)
<1>1. t.cap * 2 \in Nat /\ t.cap * 2 > t.cap
  BY DEF TableInv, TableType
<1>2. u = t \/ u = Rehash(t, t.cap * 2)
  BY DEF Roomy
<1>3. CASE u = Rehash(t, t.cap * 2)
  BY <1>1, <1>3, RehashKeeps
<1>4. QED
  BY <1>2, <1>3

-----------------------------------------------------------------------------
(* The inductive invariant of the cache.                                   *)

\* d is the dictionary that t stores.
Stores(t, d) == /\ d \in [KeysOf(t) -> CacheVals]
                /\ \A q, w : Holds(t, q, w) => d[q] = w

\* The keys of d whose value is a payload on the heap.
Payloads(d) == {k \in DOMAIN d : d[k].kd # 1}

\* Zero or one: is the value of k a payload.
Freed(d, k) == IF k \in Payloads(d) THEN 1 ELSE 0

\* The table is sound, stores the dictionary, and its payloads are those on the heap.
CacheInv ==
    /\ cache = << >> \/ cache = <<Table>>
    /\ TableInv(Table)
    /\ Stores(Table, dict)
    /\ copies = Cardinality(Payloads(dict))

(* A dictionary that a table stores is finite.                             *)
LEMMA PayloadsFinite ==
    ASSUME NEW t, TableInv(t), NEW d, Stores(t, d)
    PROVE  IsFiniteSet(DOMAIN d) /\ IsFiniteSet(Payloads(d)) /\ Cardinality(Payloads(d)) \in Nat
           /\ DOMAIN d = KeysOf(t)
<1>1. DOMAIN d = KeysOf(t) /\ IsFiniteSet(KeysOf(t))
  BY TableFinite DEF Stores, TableInv
<1>2. Payloads(d) \subseteq DOMAIN d
  BY DEF Payloads
<1>3. QED
  BY <1>1, <1>2, FS_Subset, FS_CardinalityType

(* An entry replaced: the payload it had is one less, the one it gets one  *)
(* more.                                                                   *)
LEMMA PayloadsPut ==
    ASSUME NEW d, IsFiniteSet(Payloads(d)), NEW k, NEW v \in CacheVals, NEW e,
           e = WithKey(d, k, v)
    PROVE  Cardinality(Payloads(e)) = Cardinality(Payloads(d)) + Owned(v.kd) - Freed(d, k)
<1>1. /\ e[k] = v /\ k \in DOMAIN e
      /\ \A q : q # k => (q \in DOMAIN e <=> q \in DOMAIN d)
      /\ \A q \in DOMAIN d : q # k => e[q] = d[q]
  BY DEF WithKey
<1>2. \A q : q # k => (q \in Payloads(e) <=> q \in Payloads(d))
  BY <1>1 DEF Payloads
<1>3. k \in Payloads(e) <=> v.kd # 1
  BY <1>1 DEF Payloads
<1>4. Cardinality(Payloads(d)) \in Nat
  BY FS_CardinalityType
<1>5. CASE k \in Payloads(d) /\ v.kd # 1
  <2>1. Payloads(e) = Payloads(d)
    BY <1>2, <1>3, <1>5
  <2>2. QED
    BY <1>4, <1>5, <2>1 DEF Owned, Freed
<1>6. CASE k \in Payloads(d) /\ v.kd = 1
  <2>1. Payloads(e) = Payloads(d) \ {k}
    BY <1>2, <1>3, <1>6
  <2>2. Cardinality(Payloads(e)) = Cardinality(Payloads(d)) - 1
    BY <1>6, <2>1, FS_RemoveElement
  <2>3. QED
    BY <1>4, <1>6, <2>2 DEF Owned, Freed
<1>7. CASE k \notin Payloads(d) /\ v.kd # 1
  <2>1. Payloads(e) = Payloads(d) \cup {k}
    BY <1>2, <1>3, <1>7
  <2>2. Cardinality(Payloads(e)) = Cardinality(Payloads(d)) + 1
    BY <1>7, <2>1, FS_AddElement
  <2>3. QED
    BY <1>4, <1>7, <2>2 DEF Owned, Freed
<1>8. CASE k \notin Payloads(d) /\ v.kd = 1
  <2>1. Payloads(e) = Payloads(d)
    BY <1>2, <1>3, <1>8
  <2>2. QED
    BY <1>4, <1>8, <2>1 DEF Owned, Freed
<1>9. QED
  BY <1>5, <1>6, <1>7, <1>8

(* What an operation on k frees is the payload of k.                       *)
LEMMA FreedIs ==
    ASSUME HashAssumption, NEW t, TableInv(t), NEW d, Stores(t, d), NEW k \in Keys,
           t.n = 0 \/ ProbeEnds(t, k)
    PROVE  FreedAt(t, k) = Freed(d, k)
<1>1. PICK i : i = Slot(t, k)
  OBVIOUS
<1>2. FreedAt(t, k) = IF i < 0 THEN 0 ELSE Owned(t.s[i].v.kd)
  BY <1>1 DEF FreedAt
<1>3. CASE i = -1 /\ k \notin KeysOf(t)
  <2>1. k \notin Payloads(d)
    BY <1>3 DEF Payloads, Stores
  <2>2. FreedAt(t, k) = 0
    BY <1>2, <1>3
  <2>3. QED
    BY <2>1, <2>2 DEF Freed
<1>4. CASE i \in Live(t) /\ t.s[i].k = k /\ i \in 0..(t.cap - 1)
  <2>1. ~(i < 0)
    BY <1>4 DEF TableInv, TableType
  <2>2. d[k] = t.s[i].v /\ k \in DOMAIN d
    BY <1>4 DEF Stores, Holds, KeysOf
  <2>3. FreedAt(t, k) = Owned(d[k].kd)
    BY <1>2, <2>1, <2>2
  <2>4. QED
    BY <2>2, <2>3 DEF Freed, Owned, Payloads
<1>5. QED
  BY <1>1, <1>3, <1>4, SlotIs

(* A table and its dictionary after an entry was put.                      *)
LEMMA StoresPut ==
    ASSUME HashAssumption, NEW t, TableInv(t), NEW d, Stores(t, d), NEW k \in Keys, NEW v \in CacheVals,
           NEW u, TableInv(u), KeysOf(u) = KeysOf(t) \cup {k},
           \A q, w : Holds(u, q, w) <=> (q = k /\ w = v) \/ (q # k /\ Holds(t, q, w)),
           NEW e, e = WithKey(d, k, v)
    PROVE  Stores(u, e)
<1>1. d \in [KeysOf(t) -> CacheVals] /\ DOMAIN d = KeysOf(t)
  BY DEF Stores
<1>2. e \in [KeysOf(u) -> CacheVals]
  BY <1>1 DEF WithKey
<1>3. ASSUME NEW q, NEW w, Holds(u, q, w) PROVE e[q] = w
  <2>1. Holds(t, q, w) => q \in KeysOf(t)
    BY DEF Holds, KeysOf
  <2>2. Holds(t, q, w) => d[q] = w
    BY DEF Stores
  <2>3. QED
    BY <1>1, <1>3, <2>1, <2>2 DEF WithKey
<1>4. QED
  BY <1>2, <1>3 DEF Stores

-----------------------------------------------------------------------------

(* The invariant holds of a world without a cache.                         *)
LEMMA CacheInvInit == ASSUME CacheAssumption PROVE CacheInit => CacheInv
<1> SUFFICES ASSUME CacheInit PROVE CacheInv
  OBVIOUS
<1>1. PICK t : t = Table
  OBVIOUS
<1>2. t = NewTable(CacheCap) /\ CacheCap \in Nat \ {0} /\ cache = << >> /\ dict = << >> /\ copies = 0
  BY <1>1 DEF CacheInit, Table, CacheAssumption
<1>3. TableInv(t) /\ KeysOf(t) = {} /\ \A q, w : ~Holds(t, q, w)
  BY <1>2, NewTableIs
<1>4. dict \in [{} -> CacheVals] /\ DOMAIN dict = {}
  BY <1>2
<1>5. Stores(t, dict)
  BY <1>3, <1>4 DEF Stores
<1>6. copies = Cardinality(Payloads(dict))
  BY <1>2, <1>4, FS_EmptySet DEF Payloads
<1>7. QED
  BY <1>1, <1>2, <1>3, <1>5, <1>6 DEF CacheInv

(* wcache_set: a grown table holds what it held before, and the key is put *)
(* into that one.                                                          *)
LEMMA SetStep ==
    ASSUME CacheAssumption, HashAssumption, CacheInv, NEW k \in Keys, NEW kind \in Kinds, NEW x \in Ints,
           WcacheSet(k, kind, x)
    PROVE  CacheInv'
<1> DEFINE v == [kd |-> kind, x |-> x]
<1>1. v \in CacheVals /\ v \in Vals /\ v.kd = kind
  BY DEF CacheVals, Vals
<1> HIDE DEF v
<1>2. CASE ~PutEnds(k)
  BY <1>2 DEF WcacheSet, Hang, CacheInv, Table
<1>3. CASE PutEnds(k)
  <2>1. PICK t, r, u, e : t = Table /\ r = Roomy(t) /\ u = Insert(r, k, v) /\ e = dict'
    OBVIOUS
  <2>2. /\ cache' = <<u>> /\ e = WithKey(dict, k, v)
        /\ copies' = copies + Owned(kind) - FreedAt(r, k) /\ ProbeEnds(r, k)
    BY <1>3, <2>1 DEF WcacheSet, Put, PutEnds, v
  <2>3. TableInv(t) /\ Stores(t, dict) /\ copies = Cardinality(Payloads(dict))
    BY <2>1 DEF CacheInv
  <2>4. /\ TableInv(r) /\ KeysOf(r) = KeysOf(t)
        /\ \A q, w : Holds(r, q, w) <=> Holds(t, q, w)
    BY <2>1, <2>3, RoomyKeeps
  <2>5. Stores(r, dict)
    BY <2>3, <2>4 DEF Stores
  <2>6. /\ TableInv(u) /\ KeysOf(u) = KeysOf(r) \cup {k}
        /\ \A q, w : Holds(u, q, w) <=> (q = k /\ w = v) \/ (q # k /\ Holds(r, q, w))
    <3>1. PICK i, n : /\ Written(r, u, i, [st |-> 1, k |-> k, v |-> v], n)
                      /\ \/ i \in Live(r) /\ r.s[i].k = k /\ n = r.n
                         \/ /\ r.s[i].st # 1 /\ k \notin KeysOf(r) /\ n = r.n + 1
                            /\ Reached(r, k, i)
      BY <1>1, <2>1, <2>2, <2>4, Inserted
    <3>2. QED
      BY <1>1, <2>4, <3>1, WrittenKeeps
  <2>7. e = WithKey(dict, k, v)
    BY <2>2
  <2>8. Stores(u, e)
    BY <1>1, <2>4, <2>5, <2>6, <2>7, StoresPut
  <2>9. copies' = Cardinality(Payloads(e))
    <3>1. FreedAt(r, k) = Freed(dict, k)
      BY <2>2, <2>4, <2>5, FreedIs
    <3>2. IsFiniteSet(Payloads(dict))
      BY <2>3, PayloadsFinite
    <3>3. Cardinality(Payloads(e)) = Cardinality(Payloads(dict)) + Owned(v.kd) - Freed(dict, k)
      BY <1>1, <2>7, <3>2, PayloadsPut
    <3>4. QED
      BY <1>1, <2>2, <2>3, <3>1, <3>3
  <2>10. Table' = u /\ (cache = <<Table>>)'
    BY <2>2 DEF Table
  <2>11. QED
    BY <2>1, <2>6, <2>8, <2>9, <2>10 DEF CacheInv
<1>4. QED
  BY <1>2, <1>3

(* A probe that does not end leaves the cache as it is.                    *)
LEMMA SameCache == ASSUME CacheInv, UNCHANGED <<cache, dict, copies>> PROVE CacheInv'
<1>1. Table' = Table
  BY DEF Table
<1>2. QED
  BY <1>1 DEF CacheInv

(* wcache_add on a counter writes the slot of its key.                     *)
LEMMA AddStep ==
    ASSUME CacheAssumption, HashAssumption, CacheInv, NEW k \in Keys, NEW d \in Ints, FindEnds(Table, k),
           Slot(Table, k) >= 0, AddTo(k, Slot(Table, k), d)
    PROVE  CacheInv'
<1>1. PICK t, i, u, e : t = Table /\ i = Slot(t, k) /\ e = dict' /\ u = [t EXCEPT !.s[i].v.x = @ + d]
  OBVIOUS
<1>2. /\ t.s[i].v.kd = 1 /\ t.s[i].v.x + d \in Ints /\ cache' = <<u>>
      /\ e = [dict EXCEPT ![k].x = @ + d] /\ copies' = copies
  BY <1>1 DEF AddTo
<1>3. TableInv(t) /\ Stores(t, dict) /\ copies = Cardinality(Payloads(dict))
  BY <1>1 DEF CacheInv
<1>4. /\ TableType(t) /\ t.cap \in Nat \ {0} /\ t.s \in [0..(t.cap - 1) -> Slots]
      /\ t = [n |-> t.n, cap |-> t.cap, s |-> t.s]
  BY <1>3 DEF TableInv, TableType
<1>5. i \in Live(t) /\ t.s[i].k = k /\ i \in 0..(t.cap - 1)
  <2>1. t.n = 0 \/ ProbeEnds(t, k)
    BY <1>1 DEF FindEnds
  <2>2. i # -1
    BY <1>1
  <2>3. QED
    BY <1>1, <1>3, <2>1, <2>2, SlotIs
<1>6. t.s[i].st = 1 /\ t.s[i] \in Slots /\ t.s[i].v \in CacheVals
  BY <1>3, <1>4, <1>5 DEF Live, TableType, Stores, Holds, KeysOf
<1>7. PICK v : v = [kd |-> 1, x |-> t.s[i].v.x + d]
  OBVIOUS
<1>8. v \in CacheVals /\ v \in Vals /\ v.kd = 1
  BY <1>2, <1>7 DEF CacheVals, Vals, Kinds
<1>9. [t.s[i].v EXCEPT !.x = @ + d] = v
  BY <1>2, <1>6, <1>7 DEF CacheVals
<1>10. [t.s[i] EXCEPT !.v.x = @ + d] = [st |-> 1, k |-> k, v |-> v]
  <2>1. [t.s[i] EXCEPT !.v = v] = [st |-> 1, k |-> k, v |-> v]
    BY <1>5, <1>6 DEF Slots
  <2>2. [t.s[i] EXCEPT !.v.x = @ + d] = [t.s[i] EXCEPT !.v = v]
    BY <1>9
  <2>3. QED
    BY <2>1, <2>2
<1>11. Written(t, u, i, [st |-> 1, k |-> k, v |-> v], t.n)
  <2>1. PICK f : f = [t.s EXCEPT ![i] = [st |-> 1, k |-> k, v |-> v]]
    OBVIOUS
  <2>2. [t.s EXCEPT ![i].v.x = @ + d] = f
    BY <1>10, <2>1
  <2>3. u = [n |-> t.n, cap |-> t.cap, s |-> f]
    BY <1>1, <1>4, <2>2
  <2>4. QED
    BY <1>5, <2>1, <2>3 DEF Written
<1>12. /\ TableInv(u) /\ KeysOf(u) = KeysOf(t) \cup {k}
       /\ \A q, w : Holds(u, q, w) <=> (q = k /\ w = v) \/ (q # k /\ Holds(t, q, w))
  BY <1>3, <1>5, <1>8, <1>11, WrittenKeeps
<1>13. dict[k] = t.s[i].v /\ k \in DOMAIN dict
  BY <1>3, <1>5 DEF Stores, Holds, KeysOf
<1>14. e = WithKey(dict, k, v)
  <2>1. [dict[k] EXCEPT !.x = @ + d] = v
    BY <1>9, <1>13
  <2>2. e = [dict EXCEPT ![k] = v]
    BY <1>2, <2>1
  <2>3. DOMAIN dict \cup {k} = DOMAIN dict
    BY <1>13
  <2>4. dict = [q \in DOMAIN dict |-> dict[q]]
    BY <1>3 DEF Stores
  <2>5. QED
    BY <2>2, <2>3, <2>4 DEF WithKey
<1>15. Stores(u, e)
  BY <1>3, <1>8, <1>12, <1>14, StoresPut
<1>16. copies' = Cardinality(Payloads(e))
  <2>1. Freed(dict, k) = 0
    BY <1>2, <1>13 DEF Freed, Payloads
  <2>2. IsFiniteSet(Payloads(dict)) /\ Cardinality(Payloads(dict)) \in Nat
    BY <1>3, PayloadsFinite
  <2>3. Cardinality(Payloads(e)) = Cardinality(Payloads(dict)) + Owned(v.kd) - Freed(dict, k)
    BY <1>8, <1>14, <2>2, PayloadsPut
  <2>4. QED
    BY <1>2, <1>3, <1>8, <2>1, <2>2, <2>3 DEF Owned
<1>17. Table' = u /\ (cache = <<Table>>)'
  BY <1>2 DEF Table
<1>18. QED
  BY <1>1, <1>12, <1>15, <1>16, <1>17 DEF CacheInv

(* wcache_del leaves a tombstone.                                          *)
LEMMA DelStep ==
    ASSUME CacheAssumption, HashAssumption, CacheInv, NEW k \in Keys, WcacheDel(k)
    PROVE  CacheInv'
<1>1. CASE ~FindEnds(Table, k)
  BY <1>1, SameCache DEF WcacheDel, Hang
<1>2. CASE FindEnds(Table, k)
  <2>1. PICK t, u, e : t = Table /\ u = Delete(t, k) /\ e = dict'
    OBVIOUS
  <2>2. /\ cache' = <<u>> /\ e = Restrict(dict, DOMAIN dict \ {k})
        /\ copies' = copies - FreedAt(t, k) /\ (t.n = 0 \/ ProbeEnds(t, k))
    BY <1>2, <2>1 DEF WcacheDel, FindEnds
  <2>3. TableInv(t) /\ Stores(t, dict) /\ copies = Cardinality(Payloads(dict))
    BY <2>1 DEF CacheInv
  <2>4. /\ TableInv(u) /\ KeysOf(u) = KeysOf(t) \ {k}
        /\ \A q, w : Holds(u, q, w) <=> q # k /\ Holds(t, q, w)
    BY <2>1, <2>2, <2>3, DeletedKeeps
  <2>5. DOMAIN dict = KeysOf(t) /\ \A q \in KeysOf(t) : dict[q] \in CacheVals
    BY <2>3 DEF Stores
  <2>6. e = [q \in KeysOf(u) |-> dict[q]]
    BY <2>2, <2>4, <2>5 DEF Restrict
  <2>7. Stores(u, e)
    <3>1. e \in [KeysOf(u) -> CacheVals]
      BY <2>4, <2>5, <2>6
    <3>2. ASSUME NEW q, NEW w, Holds(u, q, w) PROVE e[q] = w
      <4>1. Holds(t, q, w) /\ q \in KeysOf(u)
        BY <2>4, <3>2 DEF Holds, KeysOf
      <4>2. QED
        BY <2>3, <2>6, <4>1 DEF Stores
    <3>3. QED
      BY <3>1, <3>2 DEF Stores
  <2>8. copies' = Cardinality(Payloads(e))
    <3>1. FreedAt(t, k) = Freed(dict, k)
      BY <2>2, <2>3, FreedIs
    <3>2. IsFiniteSet(Payloads(dict)) /\ Cardinality(Payloads(dict)) \in Nat
      BY <2>3, PayloadsFinite
    <3>3. Payloads(e) = Payloads(dict) \ {k}
      BY <2>4, <2>5, <2>6 DEF Payloads
    <3>4. CASE k \in Payloads(dict)
      <4>1. Cardinality(Payloads(e)) = Cardinality(Payloads(dict)) - 1
        BY <3>2, <3>3, <3>4, FS_RemoveElement
      <4>2. QED
        BY <2>2, <2>3, <3>1, <3>4, <4>1 DEF Freed
    <3>5. CASE k \notin Payloads(dict)
      <4>1. Payloads(e) = Payloads(dict)
        BY <3>3, <3>5
      <4>2. QED
        BY <2>2, <2>3, <3>1, <3>2, <3>5, <4>1 DEF Freed
    <3>6. QED
      BY <3>4, <3>5
  <2>9. Table' = u /\ (cache = <<Table>>)'
    BY <2>2 DEF Table
  <2>10. QED
    BY <2>1, <2>4, <2>7, <2>8, <2>9 DEF CacheInv
<1>3. QED
  BY <1>1, <1>2

(* Clearing frees as many payloads as there are: the slots of the payloads *)
(* and their keys are one to one.                                          *)
LEMMA ClearedAll ==
    ASSUME NEW t, TableInv(t), NEW d, Stores(t, d)
    PROVE  Cardinality({i \in Live(t) : t.s[i].v.kd # 1}) = Cardinality(Payloads(d))
<1> DEFINE S == {i \in Live(t) : t.s[i].v.kd # 1}
           f == [i \in S |-> t.s[i].k]
<1>1. \A i \in Live(t) : t.s[i].k \in KeysOf(t) /\ d[t.s[i].k] = t.s[i].v
  <2>1. \A i \in Live(t) : t.s[i].k \in KeysOf(t) /\ Holds(t, t.s[i].k, t.s[i].v)
    BY DEF Holds, KeysOf
  <2>2. QED
    BY <2>1 DEF Stores
<1>2. DOMAIN d = KeysOf(t)
  BY DEF Stores
<1>3. \A i \in S : t.s[i].k \in Payloads(d)
  BY <1>1, <1>2 DEF Payloads
<1>4. \A k \in Payloads(d) : \E i \in S : t.s[i].k = k
  BY <1>1, <1>2 DEF Payloads, KeysOf
<1>5. f \in Bijection(S, Payloads(d))
  <2>1. \A i, j \in S : f[i] = f[j] => i = j
    BY DEF TableInv
  <2>2. f \in Injection(S, Payloads(d))
    BY <1>3, <2>1 DEF Injection, IsInjective
  <2>3. f \in Surjection(S, Payloads(d))
    BY <1>3, <1>4 DEF Surjection
  <2>4. QED
    BY <2>2, <2>3 DEF Bijection
<1>6. IsFiniteSet(S)
  BY TableFinite, FS_Subset DEF TableInv
<1>7. Cardinality(S) = Cardinality(Payloads(d))
  <2> HIDE DEF S
  <2>1. QED
    BY <1>5, <1>6, FS_Bijection DEF ExistsBijection
<1>8. QED
  BY <1>7

(* wcache_clear.                                                           *)
LEMMA ClearStep == ASSUME CacheAssumption, HashAssumption, CacheInv, WcacheClear PROVE CacheInv'
<1>1. PICK t, e, u : t = Table /\ e = dict' /\ u = NewTable(CacheCap)
  OBVIOUS
<1>2. TableInv(t) /\ Stores(t, dict) /\ copies = Cardinality(Payloads(dict))
  BY <1>1 DEF CacheInv
<1>3. cache' = << >> /\ e = << >> /\ copies' = copies - Cardinality({i \in Live(t) : t.s[i].v.kd # 1})
  BY <1>1 DEF WcacheClear
<1>4. copies' = 0
  <2>1. Cardinality({i \in Live(t) : t.s[i].v.kd # 1}) = copies
    BY <1>2, ClearedAll
  <2>2. copies \in Nat
    BY <1>2, PayloadsFinite
  <2>3. QED
    BY <1>3, <2>1, <2>2
<1>5. TableInv(u) /\ KeysOf(u) = {} /\ \A q, w : ~Holds(u, q, w)
  BY <1>1, NewTableIs DEF CacheAssumption
<1>6. e \in [{} -> CacheVals] /\ DOMAIN e = {}
  BY <1>3
<1>7. Stores(u, e)
  BY <1>5, <1>6 DEF Stores
<1>8. copies' = Cardinality(Payloads(e))
  BY <1>4, <1>6, FS_EmptySet DEF Payloads
<1>9. Table' = u
  BY <1>1, <1>3 DEF Table
<1>10. QED
  BY <1>1, <1>3, <1>5, <1>7, <1>8, <1>9 DEF CacheInv

(* Every operation keeps the invariant.                                    *)
LEMMA CacheInvNext == ASSUME CacheAssumption PROVE CacheInv /\ [CacheNext]_cacheVars => CacheInv'
<1> SUFFICES ASSUME CacheInv, [CacheNext]_cacheVars PROVE CacheInv'
  OBVIOUS
<1> HashAssumption
  BY DEF CacheAssumption
<1>1. ASSUME NEW k \in Keys, NEW kind \in Kinds, NEW x \in Ints, WcacheSet(k, kind, x) PROVE CacheInv'
  BY <1>1, SetStep
<1>2. ASSUME NEW k \in Keys, NEW d \in Ints, WcacheAdd(k, d) PROVE CacheInv'
  <2>1. CASE ~FindEnds(Table, k)
    BY <1>2, <2>1, SameCache DEF WcacheAdd, Hang
  <2>2. CASE FindEnds(Table, k) /\ Slot(Table, k) < 0
    <3>1. WcacheSet(k, 1, d) /\ 1 \in Kinds
      BY <1>2, <2>2 DEF WcacheAdd, Kinds
    <3>2. QED
      BY <3>1, SetStep
  <2>3. CASE FindEnds(Table, k) /\ ~(Slot(Table, k) < 0)
    <3>1. AddTo(k, Slot(Table, k), d)
      BY <1>2, <2>3 DEF WcacheAdd
    <3>2. Slot(Table, k) >= 0
      <4>1. PICK t, i : t = Table /\ i = Slot(t, k)
        OBVIOUS
      <4>2. TableInv(t) /\ (t.n = 0 \/ ProbeEnds(t, k))
        BY <2>3, <4>1 DEF CacheInv, FindEnds
      <4>3. i \in Int
        BY <4>1, <4>2, SlotIs DEF TableInv, TableType
      <4>4. QED
        BY <2>3, <4>1, <4>3
    <3>3. QED
      BY <2>3, <3>1, <3>2, AddStep
  <2>4. QED
    BY <2>1, <2>2, <2>3
<1>3. ASSUME NEW k \in Keys, WcacheDel(k) PROVE CacheInv'
  BY <1>3, DelStep
<1>4. ASSUME WcacheClear PROVE CacheInv'
  BY <1>4, ClearStep
<1>5. ASSUME UNCHANGED cacheVars PROVE CacheInv'
  BY <1>5, SameCache DEF cacheVars
<1>6. QED
  BY <1>1, <1>2, <1>3, <1>4, <1>5 DEF CacheNext

(* What a lookup that ends answers.                                        *)
LEMMA GetIs ==
    ASSUME CacheAssumption, HashAssumption, CacheInv, NEW k \in Keys, FindEnds(Table, k)
    PROVE  WcacheGet(k) = IF k \in DOMAIN dict THEN dict[k] ELSE Null
<1>1. PICK t, i : t = Table /\ i = Slot(t, k)
  OBVIOUS
<1>2. TableInv(t) /\ Stores(t, dict) /\ (t.n = 0 \/ ProbeEnds(t, k))
  BY <1>1 DEF CacheInv, FindEnds
<1>3. WcacheGet(k) = IF i < 0 THEN Null ELSE t.s[i].v
  BY <1>1 DEF WcacheGet
<1>4. DOMAIN dict = KeysOf(t)
  BY <1>2 DEF Stores
<1>5. CASE i = -1 /\ k \notin KeysOf(t)
  BY <1>3, <1>4, <1>5
<1>6. CASE i \in Live(t) /\ t.s[i].k = k /\ i \in 0..(t.cap - 1)
  <2>1. ~(i < 0)
    BY <1>2, <1>6 DEF TableInv, TableType
  <2>2. dict[k] = t.s[i].v /\ k \in DOMAIN dict
    BY <1>2, <1>4, <1>6 DEF Stores, Holds, KeysOf
  <2>3. QED
    BY <1>3, <2>1, <2>2
<1>7. QED
  BY <1>1, <1>2, <1>5, <1>6, SlotIs

(* The cache of a world answers every lookup that ends as a dictionary     *)
(* would, counts its keys, and owns exactly the payloads it holds:         *)
(* wcache_set, wcache_add, wcache_del and wcache_clear, for any keys and   *)
(* any hash.                                                               *)
THEOREM CacheIsADictionary == ASSUME CacheAssumption PROVE CacheSpec => []CacheSound
<1>1. CacheInit => CacheInv
  BY CacheInvInit
<1>2. CacheInv /\ [CacheNext]_cacheVars => CacheInv'
  BY CacheInvNext
<1>3. CacheInv => CacheSound
  <2> SUFFICES ASSUME CacheInv PROVE CacheSound
    OBVIOUS
  <2>1. \A k \in Keys : FindEnds(Table, k) => WcacheGet(k) = IF k \in DOMAIN dict THEN dict[k] ELSE Null
    BY GetIs DEF CacheAssumption
  <2>2. WcacheLen = Cardinality(DOMAIN dict)
    BY DEF CacheInv, TableInv, Stores, WcacheLen
  <2>3. PayloadsOwned
    BY DEF CacheInv, Payloads, PayloadsOwned
  <2>4. QED
    BY <2>1, <2>2, <2>3 DEF CacheSound, CacheIsDict
<1>4. QED
  BY <1>1, <1>2, <1>3, PTL DEF CacheSpec

-----------------------------------------------------------------------------
(* The region of a world: what is where.                                   *)

Things == Nums \cup Texts \cup Blobs

\* What a program can have put into a container.
Contents == UNION {[D -> Things] : D \in SUBSET (Keys \cup Nat)}

Entries == [off : Nat, kind : 1 .. 3]

\* own says of every block of r whose it is: a container's, by its id, the
\* table's (0), or nobody's that will ever change (-1), which are the payloads.
\* The block at o is that of id.
Block(r, own, id, o, size) ==
    o \in DOMAIN r.mem /\ own[o] = id /\ o + size <= r.used

\* The region without its containers.
Base(r, own) ==
    /\ r = [used |-> r.used, cap |-> r.cap, mem |-> r.mem,
            tbl_off |-> r.tbl_off, tbl_len |-> r.tbl_len, tbl_cap |-> r.tbl_cap, stale |-> r.stale]
    /\ r.used \in Nat /\ DOMAIN r.mem \subseteq 0 .. r.used - 1
    /\ r.mem = [o \in DOMAIN r.mem |-> r.mem[o]]
    /\ own \in [DOMAIN r.mem -> Int]
    /\ r.tbl_off \in Nat /\ r.tbl_cap \in Nat /\ r.tbl_len \in 0 .. r.tbl_cap
    /\ r.tbl_cap # 0 => /\ Block(r, own, 0, r.tbl_off, 2 * r.tbl_cap)
                        /\ r.mem[r.tbl_off] \in Seq(Entries)
                        /\ Len(r.mem[r.tbl_off]) = r.tbl_len

\* The word w of a kind stands for x: a number for itself, an offset for the
\* payload that is there.
Word(r, own, kind, w, x) ==
    /\ w \in Int
    /\ IF kind \in {0, 1} THEN w = x
       ELSE w \in DOMAIN r.mem /\ own[w] = -1 /\ r.mem[w] = x

VecWords(r, own, d, kind, x) ==
    /\ d \in Seq(Int) /\ x \in Seq(Things) /\ Len(x) = Len(d)
    /\ kind = 0 => Len(d) = 0
    /\ \A i \in 1 .. Len(d) : Word(r, own, kind, d[i], x[i])

VecHeader(h) ==
    /\ h = [len |-> h.len, cap |-> h.cap, data |-> h.data, ekind |-> h.ekind]
    /\ h.cap \in Nat \ {0} /\ h.len \in 0 .. h.cap /\ h.ekind \in 0 .. 3

\* The vector id, whose header is at o, holds x.
VecKept(r, own, id, o, x) ==
    /\ Block(r, own, id, o, 4) /\ VecHeader(r.mem[o])
    /\ r.mem[o].data # o /\ Block(r, own, id, r.mem[o].data, r.mem[o].cap)
    /\ Len(r.mem[r.mem[o].data]) = r.mem[o].len
    /\ VecWords(r, own, r.mem[r.mem[o].data], r.mem[o].ekind, x)

MapWords(r, own, t, kind, x) ==
    /\ TableInv(t) /\ x \in [KeysOf(t) -> Things]
    /\ kind = 0 => KeysOf(t) = {}
    /\ \A q, w : Holds(t, q, w) => Word(r, own, kind, w, x[q])

MapHeader(h) == h = [slots |-> h.slots, vkind |-> h.vkind] /\ h.vkind \in 0 .. 2

MapKept(r, own, id, o, x) ==
    /\ Block(r, own, id, o, 4) /\ MapHeader(r.mem[o])
    /\ r.mem[o].slots # o
    /\ Block(r, own, id, r.mem[o].slots, 3 * r.mem[r.mem[o].slots].cap)
    /\ MapWords(r, own, r.mem[r.mem[o].slots], r.mem[o].vkind, x)

SetFields(n, ks) == {i \in 1 .. n : ks[i] # 0}

RecWords(r, own, n, d, ks, x) ==
    /\ d \in [1 .. n -> Int] /\ ks \in [1 .. n -> 0 .. 3] /\ x \in [SetFields(n, ks) -> Things]
    /\ \A i \in SetFields(n, ks) : Word(r, own, ks[i], d[i], x[i])

RecHeader(h) == h = [n |-> h.n, data |-> h.data, kinds |-> h.kinds] /\ h.n \in Nat \ {0}

RecKept(r, own, id, o, x) ==
    /\ Block(r, own, id, o, 3) /\ RecHeader(r.mem[o])
    /\ r.mem[o].data # o /\ r.mem[o].kinds # o /\ r.mem[o].data # r.mem[o].kinds
    /\ Block(r, own, id, r.mem[o].data, r.mem[o].n)
    /\ Block(r, own, id, r.mem[o].kinds, r.mem[o].n)
    /\ RecWords(r, own, r.mem[o].n, r.mem[r.mem[o].data], r.mem[r.mem[o].kinds], x)

\* The container id, of which e is the entry, holds x.
Kept(r, own, id, e, x) == \/ e.kind = 1 /\ VecKept(r, own, id, e.off, x)
                          \/ e.kind = 2 /\ MapKept(r, own, id, e.off, x)
                          \/ e.kind = 3 /\ RecKept(r, own, id, e.off, x)

\* The first n containers hold what st says.
Sound(r, own, st, n) ==
    /\ Base(r, own) /\ r.tbl_len = n
    /\ \A id \in 1 .. n : Kept(r, own, id, Entry(r, id), st[id])

\* The region holds what the program stored.
Held == /\ store \in Seq(Contents)
        /\ \E own : Sound(region, own, store, Len(store))

\* It does until a freed header is read and holds something else.
RegionInv == lost \/ Held

-----------------------------------------------------------------------------
(* What a step leaves.                                                     *)

\* From r to s blocks are added, and of those that were there only blocks
\* of C are written.
Keeps(r, own, s, own2, C) ==
    /\ r.used <= s.used /\ DOMAIN r.mem \subseteq DOMAIN s.mem
    /\ \A o \in DOMAIN r.mem : own2[o] = own[o] /\ (own[o] \notin C => s.mem[o] = r.mem[o])

SameTable(r, s) == s.tbl_off = r.tbl_off /\ s.tbl_len = r.tbl_len /\ s.tbl_cap = r.tbl_cap

\* s is r with more blocks.
Grown(r, own, s, own2) ==
    Base(s, own2) /\ SameTable(r, s) /\ r.used \in Nat /\ \A C : Keeps(r, own, s, own2, C)

\* From r to s blocks are added, and blocks of id are written.
Changed(r, own, s, own2, id) ==
    Base(s, own2) /\ SameTable(r, s) /\ Keeps(r, own, s, own2, {id})

\* b is the block of id at o.
Placed(s, own, id, o, size, b) == Block(s, own, id, o, size) /\ s.mem[o] = b

(* Steps one after the other.                                              *)
LEMMA KeepsOn ==
    ASSUME NEW r, NEW o1, Base(r, o1), NEW s, NEW o2, Base(s, o2), NEW u, NEW o3, Base(u, o3),
           NEW C, NEW D, Keeps(r, o1, s, o2, C), Keeps(s, o2, u, o3, D)
    PROVE  Keeps(r, o1, u, o3, C \cup D)
  BY DEF Keeps, Base

(* A word stands for what it stood for: payloads do not change.            *)
LEMMA WordStays ==
    ASSUME NEW r, NEW own, NEW s, NEW own2, NEW C, -1 \notin C, Keeps(r, own, s, own2, C),
           NEW kind, NEW w, NEW x, Word(r, own, kind, w, x)
    PROVE  Word(s, own2, kind, w, x)
  BY DEF Keeps, Word

(* A block stays a block.                                                  *)
LEMMA BlockStays ==
    ASSUME NEW r, NEW own, NEW s, NEW own2, NEW C, Base(r, own), Base(s, own2), Keeps(r, own, s, own2, C),
           NEW id, NEW o, NEW size \in Nat, Block(r, own, id, o, size)
    PROVE  Block(s, own2, id, o, size) /\ (id \notin C => s.mem[o] = r.mem[o])
<1>1. o \in Nat /\ r.used \in Nat /\ s.used \in Nat /\ r.used <= s.used /\ o + size <= r.used
  BY DEF Base, Keeps, Block
<1>2. o + size <= s.used
  BY <1>1
<1>3. QED
  BY <1>2 DEF Keeps, Block

(* A container that is not written holds what it held.                     *)
LEMMA KeptStays ==
    ASSUME NEW r, NEW own, NEW s, NEW own2, NEW C, -1 \notin C, Base(r, own), Base(s, own2),
           Keeps(r, own, s, own2, C), NEW id, id \notin C, NEW e, NEW x, Kept(r, own, id, e, x)
    PROVE  Kept(s, own2, id, e, x)
<1>1. PICK o : o = e.off
  OBVIOUS
<1>2. \A kind, w, y : Word(r, own, kind, w, y) => Word(s, own2, kind, w, y)
  BY WordStays
<1>3. \A p : \A size \in Nat : Block(r, own, id, p, size) => Block(s, own2, id, p, size) /\ s.mem[p] = r.mem[p]
  BY BlockStays
<1>4. CASE e.kind = 1 /\ VecKept(r, own, id, o, x)
  <2>1. PICK h : h = r.mem[o]
    OBVIOUS
  <2>2. VecHeader(h) /\ h.cap \in Nat /\ Block(r, own, id, o, 4) /\ Block(r, own, id, h.data, h.cap)
    BY <1>4, <2>1 DEF VecKept, VecHeader
  <2>3. Block(s, own2, id, o, 4) /\ s.mem[o] = h /\ Block(s, own2, id, h.data, h.cap) /\ s.mem[h.data] = r.mem[h.data]
    BY <1>3, <2>1, <2>2
  <2>4. VecWords(s, own2, r.mem[h.data], h.ekind, x)
    BY <1>2, <1>4, <2>1 DEF VecKept, VecWords
  <2>5. VecKept(s, own2, id, o, x)
    BY <1>4, <2>1, <2>2, <2>3, <2>4 DEF VecKept
  <2>6. QED
    BY <1>1, <1>4, <2>5 DEF Kept
<1>5. CASE e.kind = 2 /\ MapKept(r, own, id, o, x)
  <2>1. PICK h, t : h = r.mem[o] /\ t = r.mem[h.slots]
    OBVIOUS
  <2>2. MapHeader(h) /\ Block(r, own, id, o, 4) /\ Block(r, own, id, h.slots, 3 * t.cap) /\ TableInv(t)
    BY <1>5, <2>1 DEF MapKept, MapWords
  <2>3. 3 * t.cap \in Nat
    BY <2>2 DEF TableInv, TableType
  <2>4. Block(s, own2, id, o, 4) /\ s.mem[o] = h /\ Block(s, own2, id, h.slots, 3 * t.cap) /\ s.mem[h.slots] = t
    BY <1>3, <2>1, <2>2, <2>3
  <2>5. MapWords(s, own2, t, h.vkind, x)
    BY <1>2, <1>5, <2>1 DEF MapKept, MapWords
  <2>6. MapKept(s, own2, id, o, x)
    BY <1>5, <2>1, <2>2, <2>4, <2>5 DEF MapKept
  <2>7. QED
    BY <1>1, <1>5, <2>6 DEF Kept
<1>6. CASE e.kind = 3 /\ RecKept(r, own, id, o, x)
  <2>1. PICK h : h = r.mem[o]
    OBVIOUS
  <2>2. /\ RecHeader(h) /\ h.n \in Nat /\ Block(r, own, id, o, 3)
        /\ Block(r, own, id, h.data, h.n) /\ Block(r, own, id, h.kinds, h.n)
    BY <1>6, <2>1 DEF RecKept, RecHeader
  <2>3. /\ Block(s, own2, id, o, 3) /\ s.mem[o] = h
        /\ Block(s, own2, id, h.data, h.n) /\ s.mem[h.data] = r.mem[h.data]
        /\ Block(s, own2, id, h.kinds, h.n) /\ s.mem[h.kinds] = r.mem[h.kinds]
    BY <1>3, <2>1, <2>2
  <2>4. RecWords(s, own2, h.n, r.mem[h.data], r.mem[h.kinds], x)
    BY <1>2, <1>6, <2>1 DEF RecKept, RecWords
  <2>5. RecKept(s, own2, id, o, x)
    BY <1>6, <2>1, <2>2, <2>3, <2>4 DEF RecKept
  <2>6. QED
    BY <1>1, <1>6, <2>5 DEF Kept
<1>7. QED
  BY <1>1, <1>4, <1>5, <1>6 DEF Kept

-----------------------------------------------------------------------------
(* What the operations on regions do.                                      *)

\* Whose the blocks are when the next one is c's.
Given(r, own, c) == [o \in DOMAIN r.mem \cup {r.used} |-> IF o = r.used THEN c ELSE own[o]]

(* A block more.                                                           *)
LEMMA AllocIs ==
    ASSUME NEW r, NEW own, Base(r, own), NEW size \in Nat \ {0}, NEW b, NEW c \in Int,
           NEW s, s = ArenaAlloc(r, size, b), NEW own2, own2 = Given(r, own, c)
    PROVE  /\ Base(s, own2) /\ SameTable(r, s) /\ s.used = r.used + size
           /\ \A C : Keeps(r, own, s, own2, C)
           /\ Block(s, own2, c, r.used, size) /\ s.mem[r.used] = b
           /\ r.used \in Nat /\ r.used \notin DOMAIN r.mem
<1>1. /\ r = [used |-> r.used, cap |-> r.cap, mem |-> r.mem,
              tbl_off |-> r.tbl_off, tbl_len |-> r.tbl_len, tbl_cap |-> r.tbl_cap, stale |-> r.stale]
      /\ r.used \in Nat /\ DOMAIN r.mem \subseteq 0 .. r.used - 1
      /\ r.mem = [o \in DOMAIN r.mem |-> r.mem[o]] /\ own \in [DOMAIN r.mem -> Int]
  BY DEF Base
<1>2. PICK f : f = WithKey(r.mem, r.used, b)
  OBVIOUS
<1>3. PICK cap : s = [r EXCEPT !.used = r.used + size, !.cap = cap, !.mem = f]
  BY <1>2 DEF ArenaAlloc
<1>4. s = [used |-> r.used + size, cap |-> cap, mem |-> f,
           tbl_off |-> r.tbl_off, tbl_len |-> r.tbl_len, tbl_cap |-> r.tbl_cap, stale |-> r.stale]
  BY <1>1, <1>3
<1>5. r.used \notin DOMAIN r.mem
  BY <1>1
<1>6. /\ DOMAIN f = DOMAIN r.mem \cup {r.used} /\ f[r.used] = b
      /\ \A o \in DOMAIN r.mem : f[o] = r.mem[o]
      /\ f = [o \in DOMAIN f |-> f[o]]
  BY <1>2, <1>5 DEF WithKey
<1>7. /\ own2 \in [DOMAIN f -> Int] /\ own2[r.used] = c
      /\ \A o \in DOMAIN r.mem : own2[o] = own[o]
  BY <1>1, <1>5, <1>6 DEF Given
<1>8. /\ s.used = r.used + size /\ s.mem = f /\ s.tbl_off = r.tbl_off
      /\ s.tbl_len = r.tbl_len /\ s.tbl_cap = r.tbl_cap
      /\ s = [used |-> s.used, cap |-> s.cap, mem |-> s.mem,
              tbl_off |-> s.tbl_off, tbl_len |-> s.tbl_len, tbl_cap |-> s.tbl_cap, stale |-> s.stale]
  BY <1>4
<1>9. s.used \in Nat /\ r.used <= s.used /\ DOMAIN s.mem \subseteq 0 .. s.used - 1
  BY <1>1, <1>6, <1>8
<1>10. \A C : Keeps(r, own, s, own2, C)
  BY <1>6, <1>7, <1>8, <1>9 DEF Keeps
<1>11. /\ r.tbl_off \in Nat /\ r.tbl_cap \in Nat /\ r.tbl_len \in 0 .. r.tbl_cap
       /\ r.tbl_cap # 0 => /\ Block(r, own, 0, r.tbl_off, 2 * r.tbl_cap)
                           /\ r.mem[r.tbl_off] \in Seq(Entries)
                           /\ Len(r.mem[r.tbl_off]) = r.tbl_len
  BY DEF Base
<1>12. r.tbl_cap # 0 => /\ Block(s, own2, 0, r.tbl_off, 2 * r.tbl_cap) /\ s.mem[r.tbl_off] = r.mem[r.tbl_off]
  <2> SUFFICES ASSUME r.tbl_cap # 0
               PROVE  Block(s, own2, 0, r.tbl_off, 2 * r.tbl_cap) /\ s.mem[r.tbl_off] = r.mem[r.tbl_off]
    OBVIOUS
  <2>1. r.tbl_off \in DOMAIN r.mem /\ own[r.tbl_off] = 0 /\ r.tbl_off + 2 * r.tbl_cap <= r.used
    BY <1>11 DEF Block
  <2>2. r.tbl_off + 2 * r.tbl_cap <= s.used
    BY <1>1, <1>8, <1>11, <2>1
  <2>3. QED
    BY <1>6, <1>7, <1>8, <2>1, <2>2 DEF Block
<1>13. Base(s, own2)
  BY <1>6, <1>7, <1>8, <1>9, <1>11, <1>12 DEF Base
<1>14. Block(s, own2, c, r.used, size)
  BY <1>1, <1>6, <1>7, <1>8 DEF Block
<1>15. QED
  BY <1>1, <1>5, <1>6, <1>8, <1>10, <1>13, <1>14 DEF SameTable

\* b written over what is at o.
Wrote(r, o, b) == [r EXCEPT !.mem = [r.mem EXCEPT ![o] = b]]

(* A block that is not the table's is written.                             *)
LEMMA WroteIs ==
    ASSUME NEW r, NEW own, Base(r, own), NEW o \in DOMAIN r.mem, NEW c, own[o] = c, c # 0, NEW b,
           NEW s, s = Wrote(r, o, b)
    PROVE  /\ Base(s, own) /\ SameTable(r, s) /\ s.used = r.used
           /\ Keeps(r, own, s, own, {c})
           /\ DOMAIN s.mem = DOMAIN r.mem /\ s.mem[o] = b
           /\ \A p \in DOMAIN r.mem : p # o => s.mem[p] = r.mem[p]
           /\ \A id, p, size : Block(r, own, id, p, size) => Block(s, own, id, p, size)
<1>1. /\ r = [used |-> r.used, cap |-> r.cap, mem |-> r.mem,
              tbl_off |-> r.tbl_off, tbl_len |-> r.tbl_len, tbl_cap |-> r.tbl_cap, stale |-> r.stale]
      /\ r.used \in Nat
  BY DEF Base
<1>2. PICK f : f = [r.mem EXCEPT ![o] = b]
  OBVIOUS
<1>3. s = [used |-> r.used, cap |-> r.cap, mem |-> f,
           tbl_off |-> r.tbl_off, tbl_len |-> r.tbl_len, tbl_cap |-> r.tbl_cap, stale |-> r.stale]
  BY <1>1, <1>2 DEF Wrote
<1>4. /\ s.used = r.used /\ s.mem = f /\ s.tbl_off = r.tbl_off
      /\ s.tbl_len = r.tbl_len /\ s.tbl_cap = r.tbl_cap
      /\ s = [used |-> s.used, cap |-> s.cap, mem |-> s.mem,
              tbl_off |-> s.tbl_off, tbl_len |-> s.tbl_len, tbl_cap |-> s.tbl_cap, stale |-> s.stale]
  BY <1>3
<1>5. /\ DOMAIN f = DOMAIN r.mem /\ f[o] = b /\ f = [p \in DOMAIN f |-> f[p]]
      /\ \A p \in DOMAIN r.mem : p # o => f[p] = r.mem[p]
  BY <1>2
<1>6. Keeps(r, own, s, own, {c})
  BY <1>1, <1>4, <1>5 DEF Keeps
<1>7. \A id, p, size : Block(r, own, id, p, size) => Block(s, own, id, p, size)
  BY <1>4, <1>5 DEF Block
<1>8. r.tbl_cap # 0 => s.mem[r.tbl_off] = r.mem[r.tbl_off]
  BY <1>4, <1>5 DEF Base, Block
<1>9. Base(s, own)
  BY <1>4, <1>5, <1>7, <1>8 DEF Base
<1>10. QED
  BY <1>4, <1>5, <1>6, <1>7, <1>9 DEF SameTable

(* The table has room for one entry more.                                  *)
LEMMA RoomIs ==
    ASSUME RegionAssumption, NEW r, NEW own, Base(r, own),
           NEW s, s = IF r.tbl_len = r.tbl_cap THEN TblGrow(r) ELSE r
    PROVE  \E own2 : /\ Base(s, own2) /\ Keeps(r, own, s, own2, {0})
                     /\ s.tbl_len = r.tbl_len /\ s.tbl_len < s.tbl_cap
                     /\ \A i \in 1 .. r.tbl_len : s.mem[s.tbl_off][i] = r.mem[r.tbl_off][i]
<1>1. CASE r.tbl_len # r.tbl_cap
  <2>1. s = r
    BY <1>1
  <2>2. Keeps(r, own, s, own, {0})
    BY <2>1 DEF Keeps, Base
  <2>3. r.tbl_len < r.tbl_cap
    BY <1>1 DEF Base
  <2>4. QED
    BY <2>1, <2>2, <2>3
<1>2. CASE r.tbl_len = r.tbl_cap
  <2>1. PICK ncap, old, t :
            /\ ncap = IF r.tbl_cap = 0 THEN TblCap ELSE r.tbl_cap * 2
            /\ t = ArenaAlloc(r, 2 * ncap, << >>)
            /\ old = IF r.tbl_cap = 0 THEN << >> ELSE r.mem[r.tbl_off]
    OBVIOUS
  <2>2. PICK b : s = [t EXCEPT !.tbl_off = r.used, !.tbl_cap = ncap, !.mem[r.used] = old, !.stale = b]
    BY <1>2, <2>1 DEF TblGrow
  <2>3. r.tbl_cap \in Nat /\ r.tbl_len \in Nat /\ r.used \in Nat
    BY DEF Base
  <2>4. ncap \in Nat \ {0} /\ 2 * ncap \in Nat \ {0} /\ r.tbl_cap < ncap
    BY <2>1, <2>3 DEF RegionAssumption
  <2>5. PICK own2 : own2 = Given(r, own, 0)
    OBVIOUS
  <2>6. /\ Base(t, own2) /\ SameTable(r, t) /\ \A C : Keeps(r, own, t, own2, C)
        /\ Block(t, own2, 0, r.used, 2 * ncap) /\ r.used \notin DOMAIN r.mem
    BY <2>1, <2>4, <2>5, AllocIs
  <2>7. PICK f : f = [t.mem EXCEPT ![r.used] = old]
    OBVIOUS
  <2>8. /\ t = [used |-> t.used, cap |-> t.cap, mem |-> t.mem,
                tbl_off |-> t.tbl_off, tbl_len |-> t.tbl_len, tbl_cap |-> t.tbl_cap, stale |-> t.stale]
        /\ t.used \in Nat
    BY <2>6 DEF Base
  <2>9. s = [used |-> t.used, cap |-> t.cap, mem |-> f,
             tbl_off |-> r.used, tbl_len |-> t.tbl_len, tbl_cap |-> ncap, stale |-> b]
    BY <2>2, <2>7, <2>8
  <2>10. /\ s.used = t.used /\ s.mem = f /\ s.tbl_off = r.used
         /\ s.tbl_len = r.tbl_len /\ s.tbl_cap = ncap
         /\ s = [used |-> s.used, cap |-> s.cap, mem |-> s.mem,
                 tbl_off |-> s.tbl_off, tbl_len |-> s.tbl_len, tbl_cap |-> s.tbl_cap, stale |-> s.stale]
    BY <2>6, <2>9 DEF SameTable
  <2>11. /\ DOMAIN f = DOMAIN t.mem /\ f[r.used] = old /\ f = [p \in DOMAIN f |-> f[p]]
         /\ \A p \in DOMAIN t.mem : p # r.used => f[p] = t.mem[p]
    BY <2>6, <2>7 DEF Block
  <2>12. Block(s, own2, 0, s.tbl_off, 2 * s.tbl_cap)
    BY <2>6, <2>10, <2>11 DEF Block
  <2>13. old \in Seq(Entries) /\ Len(old) = r.tbl_len
    <3>1. CASE r.tbl_cap = 0
      BY <1>2, <2>1, <3>1
    <3>2. CASE r.tbl_cap # 0
      BY <2>1, <3>2 DEF Base
    <3>3. QED
      BY <3>1, <3>2
  <2>14. DOMAIN s.mem \subseteq 0 .. s.used - 1 /\ own2 \in [DOMAIN s.mem -> Int]
    BY <2>6, <2>10, <2>11 DEF Base
  <2>15. Base(s, own2)
    <3>1. s.tbl_len \in 0 .. s.tbl_cap /\ s.tbl_off \in Nat /\ s.tbl_cap \in Nat /\ s.used \in Nat
      BY <1>2, <2>3, <2>4, <2>8, <2>10
    <3>2. s.mem[s.tbl_off] \in Seq(Entries) /\ Len(s.mem[s.tbl_off]) = s.tbl_len
      BY <2>10, <2>11, <2>13
    <3>3. QED
      BY <2>10, <2>11, <2>12, <2>14, <3>1, <3>2 DEF Base
  <2>16. Keeps(r, own, s, own2, {0})
    <3>1. Keeps(r, own, t, own2, {0})
      BY <2>6
    <3>2. \A o \in DOMAIN r.mem : o # r.used
      BY <2>6
    <3>3. QED
      BY <2>10, <2>11, <3>1, <3>2 DEF Keeps
  <2>17. \A i \in 1 .. r.tbl_len : s.mem[s.tbl_off][i] = r.mem[r.tbl_off][i]
    <3>1. CASE r.tbl_cap = 0
      BY <1>2, <3>1
    <3>2. CASE r.tbl_cap # 0
      BY <2>1, <2>10, <2>11, <3>2
    <3>3. QED
      BY <3>1, <3>2
  <2>18. QED
    BY <1>2, <2>3, <2>4, <2>10, <2>15, <2>16, <2>17
<1>3. QED
  BY <1>1, <1>2

\* s is r with the entry e in the table.
Entered(r, own, s, own2, e) ==
    /\ Base(s, own2) /\ Keeps(r, own, s, own2, {0})
    /\ s.tbl_len = r.tbl_len + 1
    /\ \A i \in 1 .. r.tbl_len : Entry(s, i) = Entry(r, i)
    /\ Entry(s, s.tbl_len) = e

(* An entry more in the table.                                             *)
LEMMA TblAddIs ==
    ASSUME RegionAssumption, NEW r, NEW own, Base(r, own),
           NEW e, e \in Entries, NEW s, s = TblAdd(r, e.off, e.kind)
    PROVE  \E own2 : Entered(r, own, s, own2, e)
<1>1. PICK t : t = IF r.tbl_len = r.tbl_cap THEN TblGrow(r) ELSE r
  OBVIOUS
<1>2. PICK own2 : /\ Base(t, own2) /\ Keeps(r, own, t, own2, {0})
                  /\ t.tbl_len = r.tbl_len /\ t.tbl_len < t.tbl_cap
                  /\ \A i \in 1 .. r.tbl_len : t.mem[t.tbl_off][i] = r.mem[r.tbl_off][i]
  BY <1>1, RoomIs
<1>3. PICK q, f : q = Append(t.mem[t.tbl_off], e) /\ f = [t.mem EXCEPT ![t.tbl_off] = q]
  OBVIOUS
<1>4. s = [t EXCEPT !.mem = f, !.tbl_len = t.tbl_len + 1]
  <2>1. e = [off |-> e.off, kind |-> e.kind]
    BY DEF Entries
  <2>2. QED
    BY <1>1, <1>3, <2>1 DEF TblAdd
<1>5. /\ t = [used |-> t.used, cap |-> t.cap, mem |-> t.mem,
              tbl_off |-> t.tbl_off, tbl_len |-> t.tbl_len, tbl_cap |-> t.tbl_cap, stale |-> t.stale]
      /\ t.used \in Nat /\ t.tbl_cap \in Nat \ {0} /\ t.tbl_len \in Nat /\ t.tbl_off \in Nat
      /\ Block(t, own2, 0, t.tbl_off, 2 * t.tbl_cap)
      /\ t.mem[t.tbl_off] \in Seq(Entries) /\ Len(t.mem[t.tbl_off]) = t.tbl_len
      /\ DOMAIN t.mem \subseteq 0 .. t.used - 1 /\ own2 \in [DOMAIN t.mem -> Int]
  BY <1>2 DEF Base
<1>6. s = [used |-> t.used, cap |-> t.cap, mem |-> f,
           tbl_off |-> t.tbl_off, tbl_len |-> t.tbl_len + 1, tbl_cap |-> t.tbl_cap, stale |-> t.stale]
  BY <1>4, <1>5
<1>7. /\ s.used = t.used /\ s.mem = f /\ s.tbl_off = t.tbl_off
      /\ s.tbl_len = t.tbl_len + 1 /\ s.tbl_cap = t.tbl_cap
      /\ s = [used |-> s.used, cap |-> s.cap, mem |-> s.mem,
              tbl_off |-> s.tbl_off, tbl_len |-> s.tbl_len, tbl_cap |-> s.tbl_cap, stale |-> s.stale]
  BY <1>6
<1>8. /\ DOMAIN f = DOMAIN t.mem /\ f[t.tbl_off] = q /\ f = [p \in DOMAIN f |-> f[p]]
      /\ \A p \in DOMAIN t.mem : p # t.tbl_off => f[p] = t.mem[p]
  BY <1>3, <1>5 DEF Block
<1>10. /\ q \in Seq(Entries) /\ Len(q) = t.tbl_len + 1 /\ q[t.tbl_len + 1] = e
       /\ \A i \in 1 .. t.tbl_len : q[i] = t.mem[t.tbl_off][i]
  BY <1>3, <1>5
<1>11. Base(s, own2)
  <2>1. Block(s, own2, 0, s.tbl_off, 2 * s.tbl_cap)
    BY <1>5, <1>7, <1>8 DEF Block
  <2>2. s.tbl_len \in 0 .. s.tbl_cap /\ s.tbl_off \in Nat /\ s.tbl_cap \in Nat /\ s.used \in Nat
    BY <1>2, <1>5, <1>7
  <2>3. s.mem[s.tbl_off] \in Seq(Entries) /\ Len(s.mem[s.tbl_off]) = s.tbl_len
    BY <1>7, <1>8, <1>10
  <2>4. DOMAIN s.mem \subseteq 0 .. s.used - 1 /\ own2 \in [DOMAIN s.mem -> Int]
    BY <1>5, <1>7, <1>8
  <2>5. QED
    BY <1>7, <1>8, <2>1, <2>2, <2>3, <2>4 DEF Base
<1>12. Keeps(r, own, s, own2, {0})
  <2>1. own2[t.tbl_off] = 0
    BY <1>5 DEF Block
  <2>2. Keeps(t, own2, s, own2, {0})
    BY <1>5, <1>7, <1>8, <2>1 DEF Keeps
  <2>3. Keeps(r, own, s, own2, {0} \cup {0})
    BY <1>2, <1>11, <2>2, KeepsOn
  <2>4. {0} \cup {0} = {0}
    OBVIOUS
  <2>5. QED
    BY <2>3, <2>4
<1>13. \A i \in 1 .. r.tbl_len : Entry(s, i) = Entry(r, i)
  BY <1>2, <1>7, <1>8, <1>10 DEF Entry
<1>14. Entry(s, s.tbl_len) = e
  BY <1>7, <1>8, <1>10 DEF Entry
<1>15. QED
  BY <1>2, <1>7, <1>11, <1>12, <1>13, <1>14 DEF Entered

(* A container more: it was built at the end of the region, and entered.   *)
LEMMA AddedIs ==
    ASSUME RegionAssumption, NEW r, NEW own, NEW st, NEW n, n \in Nat, Sound(r, own, st, n),
           NEW id, id = n + 1, NEW u, NEW own2, Changed(r, own, u, own2, id),
           NEW e, e \in Entries, Kept(u, own2, id, e, st[id]), NEW s, s = TblAdd(u, e.off, e.kind)
    PROVE  \E own3 : Sound(s, own3, st, id)
<1> Base(u, own2) /\ Keeps(r, own, u, own2, {n + 1}) /\ SameTable(r, u)
  BY DEF Changed
<1>1. PICK own3 : Entered(u, own2, s, own3, e)
  BY TblAddIs
<1> Base(s, own3) /\ Keeps(u, own2, s, own3, {0}) /\ Entry(s, s.tbl_len) = e
  BY <1>1 DEF Entered
<1>2. Base(r, own) /\ r.tbl_len = n /\ \A i \in 1 .. n : Kept(r, own, i, Entry(r, i), st[i])
  BY DEF Sound
<1>3. u.tbl_len = n /\ s.tbl_len = n + 1
  BY <1>1, <1>2 DEF SameTable, Entered
<1>4. Keeps(r, own, s, own3, {0, n + 1})
  <2>1. {0, n + 1} = {n + 1} \cup {0}
    OBVIOUS
  <2>2. Keeps(r, own, s, own3, {n + 1} \cup {0})
    BY <1>1, <1>2, KeepsOn
  <2>3. QED
    BY <2>1, <2>2
<1>5. ASSUME NEW i \in 1 .. n PROVE Entry(s, i) = Entry(r, i)
  <2>1. r.tbl_cap # 0
    BY <1>2, <1>5 DEF Base
  <2>2. r.tbl_off \in DOMAIN r.mem /\ own[r.tbl_off] = 0
    BY <1>2, <2>1 DEF Base, Block
  <2>3. u.mem[r.tbl_off] = r.mem[r.tbl_off]
    BY <2>2 DEF Keeps
  <2>4. Entry(u, i) = Entry(r, i)
    BY <2>3 DEF Entry, SameTable
  <2>5. QED
    BY <1>1, <1>3, <1>5, <2>4 DEF Entered
<1>6. ASSUME NEW i \in 1 .. n PROVE Kept(s, own3, i, Entry(s, i), st[i])
  <2>1. i \notin {0, n + 1} /\ -1 \notin {0, n + 1}
    OBVIOUS
  <2>2. Kept(r, own, i, Entry(r, i), st[i])
    BY <1>2
  <2>3. QED
    BY <1>1, <1>2, <1>4, <1>5, <2>1, <2>2, KeptStays
<1>7. Kept(s, own3, n + 1, Entry(s, n + 1), st[n + 1])
  <2>1. n + 1 \notin {0} /\ -1 \notin {0}
    OBVIOUS
  <2>2. Kept(s, own3, n + 1, e, st[n + 1])
    BY <1>1, <2>1, KeptStays
  <2>3. QED
    BY <1>1, <1>3, <2>2
<1>8. \A i \in 1 .. n + 1 : i \in 1 .. n \/ i = n + 1
  OBVIOUS
<1>9. Sound(s, own3, st, n + 1)
  BY <1>1, <1>3, <1>6, <1>7, <1>8 DEF Sound
<1>10. QED
  BY <1>9

(* One container is written.                                               *)
LEMMA ChangedIs ==
    ASSUME NEW r, NEW own, NEW st, NEW n, n \in Nat, Sound(r, own, st, n), NEW id, id \in 1 .. n,
           NEW s, NEW own2, Changed(r, own, s, own2, id), NEW st2, \A i \in 1 .. n : i # id => st2[i] = st[i],
           Kept(s, own2, id, Entry(r, id), st2[id])
    PROVE  Sound(s, own2, st2, n)
<1> Base(s, own2) /\ Keeps(r, own, s, own2, {id}) /\ SameTable(r, s)
  BY DEF Changed
<1>1. Base(r, own) /\ r.tbl_len = n /\ \A i \in 1 .. n : Kept(r, own, i, Entry(r, i), st[i])
  BY DEF Sound
<1>2. r.tbl_off \in DOMAIN r.mem /\ own[r.tbl_off] = 0
  BY <1>1 DEF Base, Block
<1>3. s.mem[r.tbl_off] = r.mem[r.tbl_off]
  BY <1>2 DEF Keeps
<1>4. \A i : Entry(s, i) = Entry(r, i)
  BY <1>3 DEF Entry, SameTable
<1>5. ASSUME NEW i \in 1 .. n, i # id PROVE Kept(s, own2, i, Entry(s, i), st2[i])
  <2>1. i \notin {id} /\ -1 \notin {id}
    BY <1>5
  <2>2. Kept(r, own, i, Entry(r, i), st2[i])
    BY <1>1, <1>5
  <2>3. QED
    BY <1>1, <1>4, <2>1, <2>2, KeptStays
<1>6. QED
  BY <1>1, <1>4, <1>5 DEF Sound, SameTable

(* A value, stored: the word that stands for it.                           *)
LEMMA PutIs ==
    ASSUME NEW r, NEW own, Base(r, own), NEW kind, kind \in 0 .. 3, NEW x, kind \in {0, 1} => x \in Int,
           NEW p, p = PutPayload(r, kind, x)
    PROVE  \E own2 : Grown(r, own, p.r, own2) /\ Word(p.r, own2, kind, p.v, x)
<1>1. CASE kind \in {0, 1}
  <2>1. p.r = r /\ p.v = x
    BY <1>1 DEF PutPayload
  <2>2. Grown(r, own, r, own)
    BY DEF Grown, Keeps, Base, SameTable
  <2>3. Word(r, own, kind, x, x)
    BY <1>1 DEF Word
  <2>4. QED
    BY <2>1, <2>2, <2>3
<1>2. CASE kind \notin {0, 1}
  <2>1. PICK s, own2 : s = ArenaAlloc(r, kind, x) /\ own2 = Given(r, own, -1)
    OBVIOUS
  <2>2. p.r = s /\ p.v = r.used
    BY <1>2, <2>1 DEF PutPayload
  <2>3. kind \in Nat \ {0}
    BY <1>2
  <2>4. /\ Base(s, own2) /\ SameTable(r, s) /\ \A C : Keeps(r, own, s, own2, C)
        /\ Block(s, own2, -1, r.used, kind) /\ s.mem[r.used] = x /\ r.used \in Nat
    BY <2>1, <2>3, AllocIs
  <2>5. Word(s, own2, kind, r.used, x)
    BY <1>2, <2>4 DEF Word, Block
  <2>6. QED
    BY <2>2, <2>4, <2>5 DEF Grown
<1>3. QED
  BY <1>1, <1>2

(* What was stored is read back.                                           *)
LEMMA PayloadIs ==
    ASSUME NEW r, NEW own, NEW kind, NEW w, NEW x, Word(r, own, kind, w, x)
    PROVE  Payload(r, kind, w) = x /\ (kind \in {0, 1} => x \in Int)
  BY DEF Word, Payload

-----------------------------------------------------------------------------
(* New containers.                                                         *)

(* A block more.                                                           *)
LEMMA AllocGrows ==
    ASSUME NEW r, NEW own, Base(r, own), NEW id, id \in Int, NEW size, size \in Nat \ {0}, NEW b,
           NEW s, s = ArenaAlloc(r, size, b)
    PROVE  \E own2 : /\ Grown(r, own, s, own2) /\ Placed(s, own2, id, r.used, size, b)
                     /\ s.used = r.used + size
<1>1. PICK own2 : own2 = Given(r, own, id)
  OBVIOUS
<1>2. /\ Base(s, own2) /\ SameTable(r, s) /\ s.used = r.used + size
      /\ \A C : Keeps(r, own, s, own2, C)
      /\ Block(s, own2, id, r.used, size) /\ s.mem[r.used] = b /\ r.used \in Nat
  BY <1>1, AllocIs
<1>3. QED
  BY <1>2 DEF Grown, Placed

(* Growth after growth, and what it leaves.                                *)
LEMMA GrownOn ==
    ASSUME NEW r, NEW own, Base(r, own), NEW u, NEW own1, Grown(r, own, u, own1),
           NEW s, NEW own2, Grown(u, own1, s, own2)
    PROVE  Grown(r, own, s, own2)
<1>1. Base(u, own1) /\ Base(s, own2) /\ SameTable(r, s) /\ r.used \in Nat
  BY DEF Grown, SameTable
<1>2. ASSUME NEW C PROVE Keeps(r, own, s, own2, C)
  <2>1. Keeps(r, own, u, own1, C) /\ Keeps(u, own1, s, own2, C) /\ C \cup C = C
    BY DEF Grown
  <2>2. Keeps(r, own, s, own2, C \cup C)
    BY <1>1, <2>1, KeepsOn
  <2>3. QED
    BY <2>1, <2>2
<1>3. QED
  BY <1>1, <1>2 DEF Grown

(* A block stays where it is when the region grows.                        *)
LEMMA PlacedStays ==
    ASSUME NEW u, NEW own1, Base(u, own1), NEW s, NEW own2, Grown(u, own1, s, own2),
           NEW id, NEW o, NEW size, size \in Nat, NEW b, Placed(u, own1, id, o, size, b)
    PROVE  Placed(s, own2, id, o, size, b)
<1>1. Base(s, own2) /\ Keeps(u, own1, s, own2, {}) /\ Block(u, own1, id, o, size)
  BY DEF Grown, Placed
<1>2. Block(s, own2, id, o, size) /\ s.mem[o] = u.mem[o]
  BY <1>1, BlockStays
<1>3. QED
  BY <1>2 DEF Placed

(* A header and a block.                                                   *)
LEMMA TwoAllocs ==
    ASSUME NEW r, NEW own, Base(r, own), NEW id, id \in Int, NEW h, h \in Nat \ {0}, NEW hd,
           NEW size, size \in Nat \ {0}, NEW b,
           NEW s, s = ArenaAlloc(ArenaAlloc(r, h, hd), size, b), NEW d, d = r.used + h
    PROVE  \E own2 : /\ Grown(r, own, s, own2)
                     /\ Placed(s, own2, id, r.used, h, hd) /\ Placed(s, own2, id, d, size, b)
                     /\ s.used = d + size
<1>1. PICK u : u = ArenaAlloc(r, h, hd)
  OBVIOUS
<1>2. PICK own1 : Grown(r, own, u, own1) /\ Placed(u, own1, id, r.used, h, hd) /\ u.used = d
  BY <1>1, AllocGrows
<1>3. Base(u, own1) /\ h \in Nat
  BY <1>2 DEF Grown
<1>4. PICK own2 : Grown(u, own1, s, own2) /\ Placed(s, own2, id, u.used, size, b) /\ s.used = u.used + size
  BY <1>1, <1>3, AllocGrows
<1>5. Grown(r, own, s, own2)
  BY <1>2, <1>4, GrownOn
<1>6. Placed(s, own2, id, r.used, h, hd)
  BY <1>2, <1>3, <1>4, PlacedStays
<1>7. QED
  BY <1>2, <1>4, <1>5, <1>6

(* A header and two blocks.                                                *)
LEMMA ThreeAllocs ==
    ASSUME NEW r, NEW own, Base(r, own), NEW id, id \in Int, NEW hd, NEW n, n \in Nat \ {0}, NEW a, NEW b,
           NEW s, s = ArenaAlloc(ArenaAlloc(ArenaAlloc(r, 3, hd), n, a), n, b),
           NEW d, d = r.used + 3, NEW k, k = d + n
    PROVE  \E own2 : /\ Grown(r, own, s, own2) /\ Placed(s, own2, id, r.used, 3, hd)
                     /\ Placed(s, own2, id, d, n, a) /\ Placed(s, own2, id, k, n, b)
<1>1. PICK three, u, v : /\ three = 3 /\ u = ArenaAlloc(r, three, hd) /\ v = ArenaAlloc(u, n, a)
                         /\ s = ArenaAlloc(v, n, b)
  OBVIOUS
<1>2. three \in Nat \ {0} /\ three \in Nat /\ n \in Nat
  BY <1>1
<1>3. PICK own1 : Grown(r, own, u, own1) /\ Placed(u, own1, id, r.used, three, hd) /\ u.used = r.used + three
  BY <1>1, <1>2, AllocGrows
<1>4. Base(u, own1) /\ u.used = d
  BY <1>1, <1>3 DEF Grown
<1>5. PICK own2 : Grown(u, own1, v, own2) /\ Placed(v, own2, id, u.used, n, a) /\ v.used = u.used + n
  <2>1. v = ArenaAlloc(u, n, a) /\ Base(u, own1)
    BY <1>1, <1>4
  <2>2. QED
    BY <2>1, AllocGrows
<1>6. Base(v, own2) /\ v.used = k
  BY <1>4, <1>5 DEF Grown
<1>7. PICK own3 : Grown(v, own2, s, own3) /\ Placed(s, own3, id, v.used, n, b)
  <2>1. s = ArenaAlloc(v, n, b) /\ Base(v, own2)
    BY <1>1, <1>6
  <2>2. QED
    BY <2>1, AllocGrows
<1>8. Grown(r, own, v, own2)
  BY <1>3, <1>5, GrownOn
<1>9. Grown(r, own, s, own3)
  BY <1>7, <1>8, GrownOn
<1>10. Placed(v, own2, id, r.used, three, hd)
  BY <1>2, <1>3, <1>4, <1>5, PlacedStays
<1>11. Placed(s, own3, id, r.used, three, hd) /\ Placed(s, own3, id, d, n, a)
  BY <1>2, <1>4, <1>5, <1>6, <1>7, <1>10, PlacedStays
<1>12. QED
  BY <1>1, <1>6, <1>7, <1>9, <1>11

(* A new vector.                                                           *)
LEMMA NewVecIs ==
    ASSUME RegionAssumption, NEW r, NEW own, NEW st, NEW n, n \in Nat,
           Sound(r, own, st, n), NEW id, id = n + 1, st[id] = << >>, NEW s, s = WvecNew(r)
    PROVE  \E own2 : Sound(s, own2, st, id)
<1>1. PICK o, d, h, e, v :
          /\ o = r.used /\ d = o + 4
          /\ h = [len |-> 0, cap |-> VecCap, data |-> d, ekind |-> 0]
          /\ v = ArenaAlloc(ArenaAlloc(r, 4, h), VecCap, << >>)
          /\ e = [off |-> o, kind |-> 1]
  OBVIOUS
<1>2. s = TblAdd(v, e.off, e.kind)
  BY <1>1 DEF WvecNew
<1>3. VecCap \in Nat \ {0} /\ Base(r, own) /\ id \in Int /\ 4 \in Nat \ {0}
  BY <1>1 DEF RegionAssumption, Sound
<1>4. PICK own2 : Grown(r, own, v, own2) /\ Placed(v, own2, id, o, 4, h) /\ Placed(v, own2, id, d, VecCap, << >>)
  <2>1. PICK four, q : /\ four = 4 /\ q = << >> /\ v = ArenaAlloc(ArenaAlloc(r, four, h), VecCap, q)
                       /\ d = r.used + four
    BY <1>1
  <2>2. /\ Base(r, own) /\ id \in Int /\ four \in Nat \ {0} /\ VecCap \in Nat \ {0}
        /\ v = ArenaAlloc(ArenaAlloc(r, four, h), VecCap, q) /\ d = r.used + four
    BY <1>3, <2>1
  <2>3. \E own2 : /\ Grown(r, own, v, own2) /\ Placed(v, own2, id, r.used, four, h)
                  /\ Placed(v, own2, id, d, VecCap, q)
    BY <2>2, TwoAllocs
  <2>4. QED
    BY <1>1, <2>1, <2>3
<1>5. VecHeader(h) /\ h.data = d /\ h.cap = VecCap /\ h.len = 0 /\ h.ekind = 0 /\ o \in Nat /\ d # o
  BY <1>1, <1>3, <1>4 DEF VecHeader, Grown
<1>6. VecWords(v, own2, << >>, 0, << >>)
  BY DEF VecWords
<1>7. VecKept(v, own2, id, o, << >>)
  BY <1>4, <1>5, <1>6 DEF VecKept, Placed
<1>8. Kept(v, own2, id, e, st[id]) /\ e \in Entries
  BY <1>1, <1>5, <1>7 DEF Kept, Entries
<1>9. Changed(r, own, v, own2, id)
  BY <1>4 DEF Grown, Changed
<1>10. QED
  BY <1>2, <1>8, <1>9, AddedIs

(* A new map.                                                              *)
LEMMA NewMapIs ==
    ASSUME RegionAssumption, NEW r, NEW own, NEW st, NEW n, n \in Nat,
           Sound(r, own, st, n), NEW id, id = n + 1, st[id] = << >>, NEW s, s = WmapNew(r)
    PROVE  \E own2 : Sound(s, own2, st, id)
<1>1. PICK o, d, h, t, e, v :
          /\ o = r.used /\ d = o + 4
          /\ h = [slots |-> d, vkind |-> 0] /\ t = NewTable(MapCap)
          /\ v = ArenaAlloc(ArenaAlloc(r, 4, h), 3 * MapCap, t)
          /\ e = [off |-> o, kind |-> 2]
  OBVIOUS
<1>2. s = TblAdd(v, e.off, e.kind)
  BY <1>1 DEF WmapNew
<1>3. /\ MapCap \in Nat \ {0} /\ 3 * MapCap \in Nat \ {0} /\ Base(r, own)
      /\ id \in Int /\ 4 \in Nat \ {0}
  BY <1>1 DEF RegionAssumption, Sound
<1>4. PICK own2 : Grown(r, own, v, own2) /\ Placed(v, own2, id, o, 4, h) /\ Placed(v, own2, id, d, 3 * MapCap, t)
  <2>1. v = ArenaAlloc(ArenaAlloc(r, 4, h), 3 * MapCap, t) /\ d = r.used + 4
    BY <1>1
  <2>2. \E own2 : /\ Grown(r, own, v, own2) /\ Placed(v, own2, id, r.used, 4, h)
                  /\ Placed(v, own2, id, d, 3 * MapCap, t)
    BY <1>3, <2>1, TwoAllocs
  <2>3. QED
    BY <1>1, <2>2
<1>5. MapHeader(h) /\ h.slots = d /\ h.vkind = 0 /\ o \in Nat /\ d # o
  BY <1>1, <1>4 DEF MapHeader, Grown
<1>6. TableInv(t) /\ t.cap = MapCap /\ KeysOf(t) = {} /\ \A q, w : ~Holds(t, q, w)
  BY <1>1, <1>3, NewTableIs
<1>7. MapWords(v, own2, t, 0, << >>)
  BY <1>6 DEF MapWords
<1>8. MapKept(v, own2, id, o, << >>)
  BY <1>4, <1>5, <1>6, <1>7 DEF MapKept, Placed
<1>9. Kept(v, own2, id, e, st[id]) /\ e \in Entries
  BY <1>1, <1>5, <1>8 DEF Kept, Entries
<1>10. Changed(r, own, v, own2, id)
  BY <1>4 DEF Grown, Changed
<1>11. QED
  BY <1>2, <1>9, <1>10, AddedIs

(* A new record.                                                           *)
LEMMA NewRecIs ==
    ASSUME RegionAssumption, NEW r, NEW own, NEW st, NEW n, n \in Nat,
           Sound(r, own, st, n), NEW id, id = n + 1, st[id] = << >>,
           NEW m, m \in Nat \ {0}, NEW s, s = WrecNew(r, m)
    PROVE  \E own2 : Sound(s, own2, st, id)
<1>1. PICK o, d, k, h, z, e, v :
          /\ o = r.used /\ d = o + 3 /\ k = d + m
          /\ h = [n |-> m, data |-> d, kinds |-> k] /\ z = [i \in 1 .. m |-> 0]
          /\ v = ArenaAlloc(ArenaAlloc(ArenaAlloc(r, 3, h), m, z), m, z)
          /\ e = [off |-> o, kind |-> 3]
  OBVIOUS
<1>2. s = TblAdd(v, e.off, e.kind)
  BY <1>1 DEF WrecNew
<1>3. Base(r, own) /\ id \in Int
  BY <1>1 DEF Sound
<1>4. PICK own2 : /\ Grown(r, own, v, own2) /\ Placed(v, own2, id, o, 3, h)
                  /\ Placed(v, own2, id, d, m, z) /\ Placed(v, own2, id, k, m, z)
  <2>1. v = ArenaAlloc(ArenaAlloc(ArenaAlloc(r, 3, h), m, z), m, z) /\ d = r.used + 3 /\ k = d + m
    BY <1>1
  <2>2. \E own2 : /\ Grown(r, own, v, own2) /\ Placed(v, own2, id, r.used, 3, h)
                  /\ Placed(v, own2, id, d, m, z) /\ Placed(v, own2, id, k, m, z)
    BY <1>3, <2>1, ThreeAllocs
  <2>3. QED
    BY <1>1, <2>2
<1>5. RecHeader(h) /\ h.n = m /\ h.data = d /\ h.kinds = k /\ o \in Nat /\ d # o /\ k # o /\ d # k
  BY <1>1, <1>4 DEF RecHeader, Grown
<1>6. RecWords(v, own2, m, z, z, << >>)
  <2>1. z \in [1 .. m -> Int] /\ z \in [1 .. m -> 0 .. 3]
    BY <1>1
  <2>2. SetFields(m, z) = {}
    BY <1>1 DEF SetFields
  <2>3. QED
    BY <2>1, <2>2 DEF RecWords
<1>7. RecKept(v, own2, id, o, << >>)
  <2>1. v.mem[o] = h /\ v.mem[d] = z /\ v.mem[k] = z
    BY <1>4 DEF Placed
  <2>2. Block(v, own2, id, o, 3) /\ Block(v, own2, id, d, m) /\ Block(v, own2, id, k, m)
    BY <1>4 DEF Placed
  <2>3. QED
    BY <1>5, <1>6, <2>1, <2>2 DEF RecKept
<1>8. Kept(v, own2, id, e, st[id]) /\ e \in Entries
  BY <1>1, <1>5, <1>7 DEF Kept, Entries
<1>9. Changed(r, own, v, own2, id)
  BY <1>4 DEF Grown, Changed
<1>10. QED
  BY <1>2, <1>8, <1>9, AddedIs

-----------------------------------------------------------------------------
(* Containers that change.                                                 *)

(* What growth and changes make together.                                  *)
LEMMA ChangedOn ==
    ASSUME NEW r, NEW own, Base(r, own), NEW id, NEW u, NEW own1, NEW s, NEW own2,
           Changed(r, own, u, own1, id), Changed(u, own1, s, own2, id)
    PROVE  Changed(r, own, s, own2, id)
<1>1. /\ Base(u, own1) /\ Base(s, own2) /\ {id} \cup {id} = {id}
      /\ Keeps(r, own, u, own1, {id}) /\ Keeps(u, own1, s, own2, {id})
  BY DEF Changed
<1>2. Keeps(r, own, s, own2, {id} \cup {id})
  BY <1>1, KeepsOn
<1>3. SameTable(r, s)
  BY DEF Changed, SameTable
<1>4. QED
  BY <1>1, <1>2, <1>3 DEF Changed

(* To grow is to change nothing but to add.                                *)
LEMMA GrownChanges ==
    ASSUME NEW r, NEW own, NEW s, NEW own2, Grown(r, own, s, own2), NEW id
    PROVE  Changed(r, own, s, own2, id)
  BY DEF Grown, Changed

(* A block of id is written.                                               *)
LEMMA WroteChanges ==
    ASSUME NEW r, NEW own, Base(r, own), NEW id, id # 0, NEW o, NEW size, Block(r, own, id, o, size),
           NEW b, NEW s, s = Wrote(r, o, b)
    PROVE  /\ Changed(r, own, s, own, id) /\ Placed(s, own, id, o, size, b)
           /\ \A p, z, y : p # o /\ Placed(r, own, id, p, z, y) => Placed(s, own, id, p, z, y)
<1>1. o \in DOMAIN r.mem /\ own[o] = id
  BY DEF Block
<1>2. /\ Base(s, own) /\ SameTable(r, s) /\ s.used = r.used
      /\ Keeps(r, own, s, own, {id}) /\ s.mem[o] = b
      /\ \A p \in DOMAIN r.mem : p # o => s.mem[p] = r.mem[p]
      /\ \A i, p, z : Block(r, own, i, p, z) => Block(s, own, i, p, z)
  BY <1>1, WroteIs
<1>3. ASSUME NEW p, NEW z, NEW y, p # o, Placed(r, own, id, p, z, y) PROVE Placed(s, own, id, p, z, y)
  <2>1. p \in DOMAIN r.mem /\ Block(r, own, id, p, z) /\ r.mem[p] = y
    BY <1>3 DEF Placed, Block
  <2>2. QED
    BY <1>2, <1>3, <2>1 DEF Placed
<1>4. QED
  BY <1>2, <1>3 DEF Changed, Placed

(* Words stand for what they stood for.                                    *)
LEMMA WordIn ==
    ASSUME NEW r, NEW own, NEW s, NEW own2, NEW id, id # -1, Changed(r, own, s, own2, id),
           NEW kind, NEW w, NEW x, Word(r, own, kind, w, x)
    PROVE  Word(s, own2, kind, w, x)
<1>1. -1 \notin {id} /\ Keeps(r, own, s, own2, {id})
  BY DEF Changed
<1>2. QED
  BY <1>1, WordStays

(* What a vector holds stays when blocks of a container are written.       *)
LEMMA VecWordsIn ==
    ASSUME NEW r, NEW own, NEW s, NEW own2, NEW id, id # -1, Changed(r, own, s, own2, id),
           NEW d, NEW kind, NEW x, VecWords(r, own, d, kind, x)
    PROVE  VecWords(s, own2, d, kind, x)
  BY WordIn DEF VecWords

(* What a map holds stays.                                                 *)
LEMMA MapWordsIn ==
    ASSUME NEW r, NEW own, NEW s, NEW own2, NEW id, id # -1, Changed(r, own, s, own2, id),
           NEW t, NEW kind, NEW x, MapWords(r, own, t, kind, x)
    PROVE  MapWords(s, own2, t, kind, x)
  BY WordIn DEF MapWords

(* What a record holds stays.                                              *)
LEMMA RecWordsIn ==
    ASSUME NEW r, NEW own, NEW s, NEW own2, NEW id, id # -1, Changed(r, own, s, own2, id),
           NEW n, NEW d, NEW ks, NEW x, RecWords(r, own, n, d, ks, x)
    PROVE  RecWords(s, own2, n, d, ks, x)
  BY WordIn DEF RecWords

\* The vector id has its header h at o and its elements d, and holds x.
VecAt(r, own, id, o, h, d, x) ==
    /\ Placed(r, own, id, o, 4, h) /\ Placed(r, own, id, h.data, h.cap, d)
    /\ VecHeader(h) /\ h.data # o /\ Len(d) = h.len /\ VecWords(r, own, d, h.ekind, x)

(* A vector has a header and elements.                                     *)
LEMMA VecAtIs ==
    ASSUME NEW r, NEW own, NEW id, NEW o, NEW x
    PROVE  VecKept(r, own, id, o, x) <=> \E h, d : VecAt(r, own, id, o, h, d, x)
<1>1. ASSUME VecKept(r, own, id, o, x) PROVE VecAt(r, own, id, o, r.mem[o], r.mem[r.mem[o].data], x)
  BY <1>1 DEF VecKept, VecAt, Placed
<1>2. ASSUME NEW h, NEW d, VecAt(r, own, id, o, h, d, x) PROVE VecKept(r, own, id, o, x)
  <2>1. r.mem[o] = h /\ r.mem[h.data] = d
    BY <1>2 DEF VecAt, Placed
  <2>2. QED
    BY <1>2, <2>1 DEF VecKept, VecAt, Placed
<1>3. QED
  BY <1>1, <1>2

(* A vector with twice the room.                                           *)
LEMMA VecGrowIs ==
    ASSUME NEW r, NEW own, Base(r, own), NEW id, id \in Nat \ {0}, NEW o, NEW h, NEW d, NEW x,
           VecAt(r, own, id, o, h, d, x), NEW s, s = WvecGrow(r, o)
    PROVE  \E own2, h2 : /\ Changed(r, own, s, own2, id) /\ VecAt(s, own2, id, o, h2, d, x)
                         /\ h2.len = h.len /\ h2.cap = h.cap * 2 /\ h2.ekind = h.ekind
<1>1. PICK p, t, g, h2 : /\ p = r.used /\ g = h.cap * 2 /\ t = ArenaAlloc(r, g, d)
                         /\ h2 = [h EXCEPT !.data = p, !.cap = g]
  OBVIOUS
<1>2. r.mem[o] = h /\ r.mem[h.data] = d /\ VecHeader(h) /\ o \in DOMAIN r.mem /\ Len(d) = h.len
  BY DEF VecAt, Placed, Block
<1>3. /\ h2 = [len |-> h.len, cap |-> g, data |-> p, ekind |-> h.ekind]
      /\ g \in Nat \ {0} /\ g \in Nat /\ h.len \in 0 .. g
  <2>1. h.cap \in Nat \ {0} /\ h.len \in 0 .. h.cap /\ g = h.cap * 2
    BY <1>1, <1>2 DEF VecHeader
  <2>2. g \in Nat \ {0} /\ g \in Nat /\ h.len \in 0 .. g
    BY <2>1
  <2>3. h2 = [len |-> h.len, cap |-> g, data |-> p, ekind |-> h.ekind]
    BY <1>1, <1>2 DEF VecHeader
  <2>4. QED
    BY <2>2, <2>3
<1>4. VecHeader(h2) /\ h2.len = h.len /\ h2.cap = g /\ h2.ekind = h.ekind /\ h2.data = p
  BY <1>2, <1>3 DEF VecHeader
<1>5. s = Wrote(t, o, h2)
  <2>1. s = [t EXCEPT !.mem[o] = h2]
    BY <1>1, <1>2 DEF WvecGrow
  <2>2. QED
    BY <2>1 DEF Wrote
<1>6. id \in Int /\ id # 0 /\ id # -1 /\ 4 \in Nat
  OBVIOUS
<1>7. PICK own2 : Grown(r, own, t, own2) /\ Placed(t, own2, id, p, g, d)
  <2>1. t = ArenaAlloc(r, g, d) /\ p = r.used
    BY <1>1
  <2>2. QED
    BY <1>3, <1>6, <2>1, AllocGrows
<1>8. Base(t, own2) /\ Changed(r, own, t, own2, id)
  BY <1>7, GrownChanges DEF Grown
<1>9. Placed(t, own2, id, o, 4, h)
  <2>1. Placed(r, own, id, o, 4, h)
    BY DEF VecAt
  <2>2. QED
    BY <1>6, <1>7, <2>1, PlacedStays
<1>10. Block(t, own2, id, o, 4)
  BY <1>9 DEF Placed
<1>11. p # o
  <2>1. r.used \notin DOMAIN r.mem
    BY DEF Base
  <2>2. QED
    BY <1>1, <1>2, <2>1
<1>12. Changed(t, own2, s, own2, id) /\ Placed(s, own2, id, o, 4, h2) /\ Placed(s, own2, id, p, g, d)
  BY <1>5, <1>6, <1>7, <1>8, <1>10, <1>11, WroteChanges
<1>13. Changed(r, own, s, own2, id)
  BY <1>8, <1>12, ChangedOn
<1>14. VecWords(s, own2, d, h.ekind, x)
  <2>1. VecWords(r, own, d, h.ekind, x)
    BY DEF VecAt
  <2>2. QED
    BY <1>6, <1>13, <2>1, VecWordsIn
<1>15. VecAt(s, own2, id, o, h2, d, x)
  BY <1>2, <1>4, <1>11, <1>12, <1>14 DEF VecAt
<1>16. QED
  BY <1>1, <1>4, <1>13, <1>15

(* An element more.                                                        *)
LEMMA PushedIs ==
    ASSUME NEW r, NEW own, Base(r, own), NEW id, id \in Nat \ {0}, NEW o, NEW h, NEW d, NEW x,
           VecAt(r, own, id, o, h, d, x), h.ekind # 0,
           NEW v, NEW y, y \in Things, Word(r, own, h.ekind, v, y), NEW s, s = WvecPushRaw(r, o, v)
    PROVE  \E own2 : Changed(r, own, s, own2, id) /\ VecKept(s, own2, id, o, Append(x, y))
<1>1. PICK t : t = IF h.len = h.cap THEN WvecGrow(r, o) ELSE r
  OBVIOUS
<1>2. id \in Int /\ id # 0 /\ id # -1
  OBVIOUS
<1>3. VecHeader(h) /\ r.mem[o] = h
  BY DEF VecAt, Placed
<1>4. PICK own1, g : /\ Base(t, own1) /\ Changed(r, own, t, own1, id) /\ VecAt(t, own1, id, o, g, d, x)
                     /\ g.len < g.cap /\ g.ekind = h.ekind
  <2>1. CASE h.len = h.cap
    <3>1. t = WvecGrow(r, o)
      BY <1>1, <2>1
    <3>2. PICK own1, g : /\ Changed(r, own, t, own1, id) /\ VecAt(t, own1, id, o, g, d, x)
                         /\ g.len = h.len /\ g.cap = h.cap * 2 /\ g.ekind = h.ekind
      BY <3>1, VecGrowIs
    <3>3. g.len < g.cap
      BY <1>3, <2>1, <3>2 DEF VecHeader
    <3>4. QED
      BY <3>2, <3>3 DEF Changed
  <2>2. CASE h.len # h.cap
    <3>1. h.len < h.cap /\ t = r
      BY <1>1, <1>3, <2>2 DEF VecHeader
    <3>2. Changed(r, own, r, own, id)
      BY DEF Changed, SameTable, Keeps, Base
    <3>3. QED
      BY <3>1, <3>2
  <2>3. QED
    BY <2>1, <2>2
<1>5. PICK p, d2, g2, a : /\ p = g.data /\ d2 = Append(d, v) /\ g2 = [g EXCEPT !.len = g.len + 1]
                          /\ a = Wrote(t, p, d2)
  OBVIOUS
<1>6. /\ Placed(t, own1, id, o, 4, g) /\ Placed(t, own1, id, p, g.cap, d)
      /\ Block(t, own1, id, o, 4) /\ Block(t, own1, id, p, g.cap)
      /\ t.mem[o] = g /\ t.mem[p] = d /\ p # o /\ VecHeader(g) /\ Len(d) = g.len
  BY <1>4, <1>5 DEF VecAt, Placed
<1>7. s = Wrote(a, o, g2)
  <2>1. s = [t EXCEPT !.mem[p] = Append(@, v), !.mem[o].len = @ + 1]
    BY <1>1, <1>3, <1>5, <1>6 DEF WvecPushRaw
  <2>2. t = [used |-> t.used, cap |-> t.cap, mem |-> t.mem,
             tbl_off |-> t.tbl_off, tbl_len |-> t.tbl_len, tbl_cap |-> t.tbl_cap, stale |-> t.stale]
    BY <1>4 DEF Base
  <2>3. o \in DOMAIN t.mem /\ p \in DOMAIN t.mem
    BY <1>6 DEF Block
  <2>4. s = [t EXCEPT !.mem = [[t.mem EXCEPT ![p] = d2] EXCEPT ![o] = g2]]
    BY <1>5, <1>6, <2>1, <2>2, <2>3
  <2>5. QED
    BY <1>5, <2>2, <2>4 DEF Wrote
<1>8. Changed(t, own1, a, own1, id) /\ Placed(a, own1, id, p, g.cap, d2) /\ Placed(a, own1, id, o, 4, g)
  BY <1>2, <1>4, <1>5, <1>6, WroteChanges
<1>9. Base(a, own1) /\ Block(a, own1, id, o, 4)
  BY <1>8 DEF Changed, Placed
<1>10. Changed(a, own1, s, own1, id) /\ Placed(s, own1, id, o, 4, g2) /\ Placed(s, own1, id, p, g.cap, d2)
  BY <1>2, <1>6, <1>7, <1>8, <1>9, WroteChanges
<1>11. Changed(r, own, s, own1, id)
  <2>1. Changed(r, own, a, own1, id)
    BY <1>4, <1>8, ChangedOn
  <2>2. QED
    BY <1>10, <2>1, ChangedOn
<1>12. VecHeader(g2) /\ g2.data = p /\ g2.cap = g.cap /\ g2.len = g.len + 1 /\ g2.ekind = h.ekind
  BY <1>4, <1>5, <1>6 DEF VecHeader
<1>13. VecWords(s, own1, d2, h.ekind, Append(x, y)) /\ Len(d2) = g.len + 1
  <2>1. /\ d \in Seq(Int) /\ x \in Seq(Things) /\ Len(x) = Len(d) /\ v \in Int
        /\ \A i \in 1 .. Len(d) : Word(r, own, h.ekind, d[i], x[i])
    BY DEF VecAt, VecWords, Word
  <2>2. d2 \in Seq(Int) /\ Len(d2) = Len(d) + 1 /\ d2[Len(d) + 1] = v /\ \A i \in 1 .. Len(d) : d2[i] = d[i]
    BY <1>5, <2>1
  <2>3. PICK x2 : x2 = Append(x, y)
    OBVIOUS
  <2>4. x2 \in Seq(Things) /\ Len(x2) = Len(d) + 1 /\ x2[Len(d) + 1] = y /\ \A i \in 1 .. Len(d) : x2[i] = x[i]
    <3>1. x \in Seq(Things) /\ y \in Things /\ Len(x) = Len(d)
      BY <2>1
    <3>2. x2 \in Seq(Things) /\ Len(x2) = Len(x) + 1 /\ x2[Len(x) + 1] = y /\ \A i \in 1 .. Len(x) : x2[i] = x[i]
      BY <2>3, <3>1
    <3>3. QED
      BY <3>1, <3>2
  <2>5. ASSUME NEW i, i \in 1 .. Len(d2) PROVE Word(r, own, h.ekind, d2[i], x2[i])
    <3>1. i \in 1 .. Len(d) \/ i = Len(d) + 1
      BY <2>1, <2>2, <2>5
    <3>2. CASE i \in 1 .. Len(d)
      BY <2>1, <2>2, <2>4, <3>2
    <3>3. CASE i = Len(d) + 1
      BY <2>2, <2>4, <3>3
    <3>4. QED
      BY <3>1, <3>2, <3>3
  <2>6. VecWords(r, own, d2, h.ekind, x2)
    BY <2>2, <2>4, <2>5 DEF VecWords
  <2>7. VecWords(s, own1, d2, h.ekind, x2)
    BY <1>2, <1>11, <2>6, VecWordsIn
  <2>8. QED
    BY <1>6, <2>2, <2>3, <2>7
<1>14. VecAt(s, own1, id, o, g2, d2, Append(x, y))
  BY <1>6, <1>10, <1>12, <1>13 DEF VecAt
<1>15. QED
  BY <1>11, <1>14, VecAtIs

\* st2 is st with x for id.
Now(st, st2, n, id, x) == st2[id] = x /\ \A i \in 1 .. n : i # id => st2[i] = st[i]

(* What is known of a container of a region.                               *)
LEMMA OneOf ==
    ASSUME NEW r, NEW own, NEW st, NEW n, n \in Nat, Sound(r, own, st, n), NEW id, id \in 1 .. n
    PROVE  /\ Base(r, own) /\ id \in Nat \ {0} /\ id \in Int /\ id # 0 /\ id # -1
           /\ Kept(r, own, id, Entry(r, id), st[id])
  BY DEF Sound

(* wvec_push, wvec_push_str and wvec_push_bytes.                           *)
LEMMA PushIs ==
    ASSUME NEW r, NEW own, NEW st, NEW n, n \in Nat, Sound(r, own, st, n),
           NEW id, id \in 1 .. n, Entry(r, id).kind = 1,
           NEW kind, kind \in 1 .. 3, Header(r, id).ekind \in {0, kind},
           NEW x, x \in Things, kind = 1 => x \in Int,
           NEW st2, Now(st, st2, n, id, Append(st[id], x)), NEW s, s = WvecPush(r, id, kind, x)
    PROVE  \E own2 : Sound(s, own2, st2, n)
<1>1. PICK e, o, y : e = Entry(r, id) /\ o = e.off /\ y = st[id]
  OBVIOUS
<1>2. Base(r, own) /\ id \in Nat \ {0} /\ id \in Int /\ id # 0 /\ id # -1 /\ Kept(r, own, id, e, y)
  BY <1>1, OneOf
<1>3. PICK h, d : VecAt(r, own, id, o, h, d, y)
  <2>1. VecKept(r, own, id, o, y)
    BY <1>1, <1>2 DEF Kept
  <2>2. QED
    BY <2>1, VecAtIs
<1>4. PICK h2, a, p, u : /\ h2 = [h EXCEPT !.ekind = kind] /\ a = Wrote(r, o, h2)
                         /\ p = PutPayload(a, kind, x) /\ u = p.r
  OBVIOUS
<1>5. /\ Placed(r, own, id, o, 4, h) /\ Placed(r, own, id, h.data, h.cap, d) /\ Block(r, own, id, o, 4)
      /\ r.mem[o] = h /\ VecHeader(h) /\ h.data # o /\ Len(d) = h.len
      /\ VecWords(r, own, d, h.ekind, y) /\ h.ekind \in {0, kind}
  BY <1>1, <1>3 DEF VecAt, Placed, Header
<1>6. s = WvecPushRaw(u, o, p.v)
  <2>1. [r EXCEPT !.mem[o].ekind = kind] = a
    BY <1>4, <1>5 DEF Wrote
  <2>2. QED
    BY <1>1, <1>4, <2>1 DEF WvecPush
<1>7. Changed(r, own, a, own, id) /\ Placed(a, own, id, o, 4, h2) /\ Placed(a, own, id, h.data, h.cap, d)
  <2>1. a = Wrote(r, o, h2)
    BY <1>4
  <2>2. QED
    BY <1>2, <1>5, <2>1, WroteChanges
<1>8. PICK own1 : Grown(a, own, u, own1) /\ Word(u, own1, kind, p.v, x)
  <2>1. Base(a, own) /\ kind \in 0 .. 3 /\ (kind \in {0, 1} => x \in Int)
    BY <1>7 DEF Changed
  <2>2. \E own1 : Grown(a, own, p.r, own1) /\ Word(p.r, own1, kind, p.v, x)
    BY <1>4, <2>1, PutIs
  <2>3. QED
    BY <1>4, <2>2
<1>9. VecHeader(h2) /\ h2.data = h.data /\ h2.cap = h.cap /\ h2.len = h.len /\ h2.ekind = kind /\ h.cap \in Nat
  BY <1>4, <1>5 DEF VecHeader
<1>10. Base(a, own) /\ Base(u, own1) /\ Changed(r, own, u, own1, id)
  <2>1. Changed(a, own, u, own1, id)
    BY <1>8, GrownChanges
  <2>2. QED
    BY <1>2, <1>7, <2>1, ChangedOn DEF Changed
<1>11. Placed(u, own1, id, o, 4, h2) /\ Placed(u, own1, id, h.data, h.cap, d)
  <2>1. 4 \in Nat
    OBVIOUS
  <2>2. QED
    BY <1>7, <1>8, <1>9, <1>10, <2>1, PlacedStays
<1>12. VecWords(u, own1, d, kind, y)
  <2>1. VecWords(r, own, d, kind, y)
    <3>1. CASE h.ekind = kind
      BY <1>5, <3>1
    <3>2. CASE h.ekind = 0
      BY <1>5, <3>2 DEF VecWords
    <3>3. QED
      BY <1>5, <3>1, <3>2
  <2>2. QED
    BY <1>2, <1>10, <2>1, VecWordsIn
<1>13. VecAt(u, own1, id, o, h2, d, y) /\ h2.ekind # 0 /\ Word(u, own1, h2.ekind, p.v, x)
  BY <1>5, <1>8, <1>9, <1>11, <1>12 DEF VecAt
<1>14. PICK own2 : Changed(u, own1, s, own2, id) /\ VecKept(s, own2, id, o, Append(y, x))
  BY <1>2, <1>6, <1>10, <1>13, PushedIs
<1>15. Changed(r, own, s, own2, id)
  BY <1>2, <1>10, <1>14, ChangedOn
<1>16. Kept(s, own2, id, Entry(r, id), st2[id]) /\ \A i \in 1 .. n : i # id => st2[i] = st[i]
  BY <1>1, <1>14 DEF Kept, Now
<1>17. QED
  BY <1>15, <1>16, ChangedIs

\* The map id has its header h at o and its slots t, and holds x.
MapAt(r, own, id, o, h, t, x) ==
    /\ Placed(r, own, id, o, 4, h) /\ Placed(r, own, id, h.slots, 3 * t.cap, t)
    /\ MapHeader(h) /\ h.slots # o /\ MapWords(r, own, t, h.vkind, x)

(* A map has a header and slots.                                           *)
LEMMA MapAtIs ==
    ASSUME NEW r, NEW own, NEW id, NEW o, NEW x
    PROVE  MapKept(r, own, id, o, x) <=> \E h, t : MapAt(r, own, id, o, h, t, x)
<1>1. ASSUME MapKept(r, own, id, o, x) PROVE MapAt(r, own, id, o, r.mem[o], r.mem[r.mem[o].slots], x)
  BY <1>1 DEF MapKept, MapAt, Placed
<1>2. ASSUME NEW h, NEW t, MapAt(r, own, id, o, h, t, x) PROVE MapKept(r, own, id, o, x)
  <2>1. r.mem[o] = h /\ r.mem[h.slots] = t
    BY <1>2 DEF MapAt, Placed
  <2>2. QED
    BY <1>2, <2>1 DEF MapKept, MapAt, Placed
<1>3. QED
  BY <1>1, <1>2

\* wmap_set grows the slots of the map whose header is at o.
WmapRoom(r, o, t) ==
    IF (t.n + 1) * 4 > t.cap * 3
    THEN [ArenaAlloc(r, 3 * t.cap * 2, Rehash(t, t.cap * 2)) EXCEPT !.mem[o].slots = r.used]
    ELSE r

(* A map with room for one key more.                                       *)
LEMMA MapRoomIs ==
    ASSUME HashAssumption, NEW r, NEW own, Base(r, own), NEW id, id \in Nat \ {0},
           NEW o, NEW h, NEW t, NEW x, MapAt(r, own, id, o, h, t, x), NEW s, s = WmapRoom(r, o, t)
    PROVE  \E own2, h2 : /\ Changed(r, own, s, own2, id) /\ MapAt(s, own2, id, o, h2, Roomy(t), x)
                         /\ h2.vkind = h.vkind
<1>1. id \in Int /\ id # 0 /\ id # -1
  OBVIOUS
<1>2. CASE ~((t.n + 1) * 4 > t.cap * 3)
  <2>1. s = r /\ Roomy(t) = t
    BY <1>2 DEF WmapRoom, Roomy
  <2>2. Changed(r, own, r, own, id)
    BY DEF Changed, SameTable, Keeps, Base
  <2>3. QED
    BY <2>1, <2>2
<1>3. CASE (t.n + 1) * 4 > t.cap * 3
  <2>1. PICK p, g, b, a, h2 : /\ p = r.used /\ g = 3 * t.cap * 2 /\ b = Roomy(t)
                              /\ a = ArenaAlloc(r, g, b) /\ h2 = [h EXCEPT !.slots = p]
    OBVIOUS
  <2>2. b = Rehash(t, t.cap * 2)
    BY <1>3, <2>1 DEF Roomy
  <2>3. /\ Placed(r, own, id, o, 4, h) /\ o \in DOMAIN r.mem /\ r.mem[o] = h /\ MapHeader(h)
        /\ MapWords(r, own, t, h.vkind, x) /\ TableInv(t)
    BY DEF MapAt, Placed, Block, MapWords
  <2>4. /\ TableInv(b) /\ b.cap = t.cap * 2 /\ KeysOf(b) = KeysOf(t)
        /\ \A q, w : Holds(b, q, w) <=> Holds(t, q, w)
    <3>1. t.cap * 2 \in Nat /\ t.cap * 2 > t.cap
      BY <2>3 DEF TableInv, TableType
    <3>2. QED
      BY <2>2, <2>3, <3>1, RehashKeeps
  <2>5. g \in Nat \ {0} /\ g = 3 * b.cap /\ g \in Nat /\ 4 \in Nat
    <3>1. t.cap \in Nat \ {0}
      BY <2>3 DEF TableInv, TableType
    <3>2. QED
      BY <2>1, <2>4, <3>1
  <2>6. MapHeader(h2) /\ h2.slots = p /\ h2.vkind = h.vkind
    BY <2>1, <2>3 DEF MapHeader
  <2>7. s = Wrote(a, o, h2)
    <3>1. PICK own1 : Grown(r, own, a, own1)
      <4>1. a = ArenaAlloc(r, g, b)
        BY <2>1
      <4>2. QED
        BY <1>1, <2>5, <4>1, AllocGrows
    <3>2. a.mem[o] = h
      <4>1. Keeps(r, own, a, own1, {})
        BY <3>1 DEF Grown
      <4>2. QED
        BY <2>3, <4>1 DEF Keeps
    <3>3. s = [a EXCEPT !.mem[o].slots = p]
      BY <1>3, <2>1, <2>2 DEF WmapRoom
    <3>4. QED
      BY <2>1, <3>2, <3>3 DEF Wrote
  <2>8. PICK own2 : Grown(r, own, a, own2) /\ Placed(a, own2, id, p, g, b)
    <3>1. a = ArenaAlloc(r, g, b) /\ p = r.used
      BY <2>1
    <3>2. QED
      BY <1>1, <2>5, <3>1, AllocGrows
  <2>9. Base(a, own2) /\ Changed(r, own, a, own2, id)
    BY <2>8, GrownChanges DEF Grown
  <2>10. Block(a, own2, id, o, 4)
    <3>1. Placed(a, own2, id, o, 4, h)
      BY <2>3, <2>5, <2>8, PlacedStays
    <3>2. QED
      BY <3>1 DEF Placed
  <2>11. p # o
    <3>1. r.used \notin DOMAIN r.mem
      BY DEF Base
    <3>2. QED
      BY <2>1, <2>3, <3>1
  <2>12. Changed(a, own2, s, own2, id) /\ Placed(s, own2, id, o, 4, h2) /\ Placed(s, own2, id, p, g, b)
    BY <1>1, <2>7, <2>8, <2>9, <2>10, <2>11, WroteChanges
  <2>13. Changed(r, own, s, own2, id)
    BY <2>9, <2>12, ChangedOn
  <2>14. MapWords(s, own2, b, h.vkind, x)
    <3>1. MapWords(r, own, b, h.vkind, x)
      BY <2>3, <2>4 DEF MapWords
    <3>2. QED
      BY <1>1, <2>13, <3>1, MapWordsIn
  <2>15. MapAt(s, own2, id, o, h2, b, x)
    BY <2>5, <2>6, <2>11, <2>12, <2>14 DEF MapAt
  <2>16. QED
    BY <2>1, <2>6, <2>13, <2>15
<1>4. QED
  BY <1>2, <1>3

\* u is t with v for k, in slot i.
Gained(t, u, k, v, i) ==
    /\ TableInv(u) /\ u.cap = t.cap /\ KeysOf(u) = KeysOf(t) \cup {k}
    /\ \A q, w : Holds(u, q, w) <=> (q = k /\ w = v) \/ (q # k /\ Holds(t, q, w))
    /\ Live(u) = Live(t) \cup {i} /\ \E n : Written(t, u, i, [st |-> 1, k |-> k, v |-> v], n)

(* A table with an entry more.                                             *)
LEMMA InsertIs ==
    ASSUME HashAssumption, NEW t, TableInv(t), NEW k, k \in Keys, ProbeEnds(t, k),
           NEW v, v \in Vals, NEW u, u = Insert(t, k, v)
    PROVE  \E i : Gained(t, u, k, v, i)
<1>1. PICK i, n : /\ Written(t, u, i, [st |-> 1, k |-> k, v |-> v], n)
                  /\ \/ i \in Live(t) /\ t.s[i].k = k /\ n = t.n
                     \/ /\ t.s[i].st # 1 /\ k \notin KeysOf(t) /\ n = t.n + 1
                        /\ Reached(t, k, i)
  <2>1. \E i, n : /\ Written(t, Insert(t, k, v), i, [st |-> 1, k |-> k, v |-> v], n)
                  /\ \/ i \in Live(t) /\ t.s[i].k = k /\ n = t.n
                     \/ /\ t.s[i].st # 1 /\ k \notin KeysOf(t) /\ n = t.n + 1
                        /\ Reached(t, k, i)
    BY Inserted
  <2>2. QED
    BY <2>1
<1>2. /\ TableInv(u) /\ u.cap = t.cap /\ KeysOf(u) = KeysOf(t) \cup {k} /\ Live(u) = Live(t) \cup {i}
      /\ \A q, w : Holds(u, q, w) <=> (q = k /\ w = v) \/ (q # k /\ Holds(t, q, w))
  BY <1>1, WrittenKeeps
<1>3. QED
  BY <1>1, <1>2 DEF Gained

(* Its words.                                                              *)
LEMMA MapWordsPut ==
    ASSUME HashAssumption, NEW r, NEW own, NEW t, NEW kind, kind # 0, NEW x, MapWords(r, own, t, kind, x),
           NEW k, k \in Keys, ProbeEnds(t, k), NEW v, NEW y, y \in Things, Word(r, own, kind, v, y),
           NEW u, u = Insert(t, k, v)
    PROVE  MapWords(r, own, u, kind, WithKey(x, k, y)) /\ u.cap = t.cap
<1>1. v \in Vals /\ TableInv(t) /\ x \in [KeysOf(t) -> Things]
  BY DEF Word, Vals, MapWords
<1>2. PICK i : Gained(t, u, k, v, i)
  BY <1>1, InsertIs
<1>3. /\ TableInv(u) /\ u.cap = t.cap /\ KeysOf(u) = KeysOf(t) \cup {k}
      /\ \A q, w : Holds(u, q, w) <=> (q = k /\ w = v) \/ (q # k /\ Holds(t, q, w))
  BY <1>2 DEF Gained
<1>4. PICK x2 : x2 = WithKey(x, k, y)
  OBVIOUS
<1>5. x2 \in [KeysOf(u) -> Things] /\ x2[k] = y /\ \A q \in KeysOf(t) : q # k => x2[q] = x[q]
  BY <1>1, <1>3, <1>4 DEF WithKey
<1>6. ASSUME NEW q, NEW w, Holds(u, q, w) PROVE Word(r, own, kind, w, x2[q])
  <2>1. CASE q = k /\ w = v
    BY <1>5, <2>1
  <2>2. CASE q # k /\ Holds(t, q, w)
    <3>1. q \in KeysOf(t)
      BY <2>2 DEF Holds, KeysOf
    <3>2. QED
      BY <1>5, <2>2, <3>1 DEF MapWords
  <2>3. QED
    BY <1>3, <1>6, <2>1, <2>2
<1>7. MapWords(r, own, u, kind, x2)
  BY <1>3, <1>5, <1>6 DEF MapWords
<1>8. QED
  BY <1>3, <1>4, <1>7

(* The slots of a map are written.                                         *)
LEMMA SlotsWritten ==
    ASSUME NEW r, NEW own, Base(r, own), NEW id, id \in Nat \ {0}, NEW o, NEW h, NEW t, NEW x,
           MapAt(r, own, id, o, h, t, x), NEW u, u.cap = t.cap, NEW y, MapWords(r, own, u, h.vkind, y),
           NEW s, s = Wrote(r, h.slots, u)
    PROVE  Changed(r, own, s, own, id) /\ MapAt(s, own, id, o, h, u, y)
<1>1. /\ id # 0 /\ id # -1 /\ h.slots # o
      /\ Placed(r, own, id, o, 4, h) /\ Block(r, own, id, h.slots, 3 * t.cap)
  BY DEF MapAt, Placed
<1>2. Changed(r, own, s, own, id) /\ Placed(s, own, id, o, 4, h) /\ Placed(s, own, id, h.slots, 3 * t.cap, u)
  BY <1>1, WroteChanges
<1>3. MapWords(s, own, u, h.vkind, y)
  BY <1>1, <1>2, MapWordsIn
<1>4. QED
  BY <1>2, <1>3 DEF MapAt

(* wmap_set and wmap_set_str.                                              *)
LEMMA SetIs ==
    ASSUME HashAssumption, NEW r, NEW own, NEW st, NEW n, n \in Nat, Sound(r, own, st, n),
           NEW id, id \in 1 .. n, Entry(r, id).kind = 2,
           NEW kind, kind \in 1 .. 2, Header(r, id).vkind \in {0, kind},
           NEW k, k \in Keys, SetEnds(r, id, k), NEW x, x \in Things, kind = 1 => x \in Int,
           NEW st2, Now(st, st2, n, id, WithKey(st[id], k, x)), NEW s, s = WmapSet(r, id, k, kind, x)
    PROVE  \E own2 : Sound(s, own2, st2, n)
<1>1. PICK e, o, y : e = Entry(r, id) /\ o = e.off /\ y = st[id]
  OBVIOUS
<1>2. Base(r, own) /\ id \in Nat \ {0} /\ id \in Int /\ id # 0 /\ id # -1 /\ Kept(r, own, id, e, y)
  BY <1>1, OneOf
<1>3. PICK h, t : MapAt(r, own, id, o, h, t, y)
  <2>1. MapKept(r, own, id, o, y)
    BY <1>1, <1>2 DEF Kept
  <2>2. QED
    BY <2>1, MapAtIs
<1>4. PICK h2, a, p, u, b : /\ h2 = [h EXCEPT !.vkind = kind] /\ a = Wrote(r, o, h2)
                            /\ p = PutPayload(a, kind, x) /\ u = p.r /\ b = WmapRoom(u, o, t)
  OBVIOUS
<1>5. /\ Placed(r, own, id, o, 4, h) /\ Placed(r, own, id, h.slots, 3 * t.cap, t) /\ Block(r, own, id, o, 4)
      /\ r.mem[o] = h /\ r.mem[h.slots] = t /\ MapHeader(h) /\ h.slots # o
      /\ MapWords(r, own, t, h.vkind, y) /\ h.vkind \in {0, kind}
  BY <1>1, <1>3 DEF MapAt, Placed, Header
<1>6. Changed(r, own, a, own, id) /\ Placed(a, own, id, o, 4, h2) /\ Placed(a, own, id, h.slots, 3 * t.cap, t)
  <2>1. a = Wrote(r, o, h2)
    BY <1>4
  <2>2. QED
    BY <1>2, <1>5, <2>1, WroteChanges
<1>7. PICK own1 : Grown(a, own, u, own1) /\ Word(u, own1, kind, p.v, x)
  <2>1. Base(a, own) /\ kind \in 0 .. 3 /\ (kind \in {0, 1} => x \in Int)
    BY <1>6 DEF Changed
  <2>2. \E own1 : Grown(a, own, p.r, own1) /\ Word(p.r, own1, kind, p.v, x)
    BY <1>4, <2>1, PutIs
  <2>3. QED
    BY <1>4, <2>2
<1>8. MapHeader(h2) /\ h2.slots = h.slots /\ h2.vkind = kind /\ kind # 0
  BY <1>4, <1>5 DEF MapHeader
<1>9. Base(a, own) /\ Base(u, own1) /\ Changed(r, own, u, own1, id)
  <2>1. Changed(a, own, u, own1, id)
    BY <1>7, GrownChanges
  <2>2. QED
    BY <1>2, <1>6, <2>1, ChangedOn DEF Changed
<1>10. Placed(u, own1, id, o, 4, h2) /\ Placed(u, own1, id, h.slots, 3 * t.cap, t)
  <2>1. 4 \in Nat /\ 3 * t.cap \in Nat
    BY <1>5 DEF MapWords, TableInv, TableType
  <2>2. QED
    BY <1>6, <1>7, <1>9, <2>1, PlacedStays
<1>11. MapWords(u, own1, t, kind, y)
  <2>1. MapWords(r, own, t, kind, y)
    <3>1. CASE h.vkind = kind
      BY <1>5, <3>1
    <3>2. CASE h.vkind = 0
      <4>1. \A q, w : ~Holds(t, q, w)
        BY <1>5, <3>2 DEF MapWords, Holds, KeysOf
      <4>2. QED
        BY <1>5, <1>8, <4>1 DEF MapWords
    <3>3. QED
      BY <1>5, <3>1, <3>2
  <2>2. QED
    BY <1>2, <1>9, <2>1, MapWordsIn
<1>12. MapAt(u, own1, id, o, h2, t, y)
  BY <1>5, <1>8, <1>10, <1>11 DEF MapAt
<1>13. PICK own2, g : Changed(u, own1, b, own2, id) /\ MapAt(b, own2, id, o, g, Roomy(t), y) /\ g.vkind = kind
  <2>1. b = WmapRoom(u, o, t)
    BY <1>4
  <2>2. QED
    BY <1>2, <1>8, <1>9, <1>12, <2>1, MapRoomIs
<1>14. PICK z, c, v : z = Roomy(t) /\ v = p.v /\ c = Insert(z, k, v)
  OBVIOUS
<1>15. /\ Base(b, own2) /\ MapAt(b, own2, id, o, g, z, y) /\ MapWords(b, own2, z, g.vkind, y)
       /\ b.mem[o] = g /\ b.mem[g.slots] = z
  BY <1>13, <1>14 DEF Changed, MapAt, Placed
<1>16. s = Wrote(b, g.slots, c)
  <2>1. [r EXCEPT !.mem[o].vkind = kind] = a
    BY <1>4, <1>5 DEF Wrote
  <2>2. s = WmapSetRaw(u, o, k, v)
    BY <1>1, <1>4, <1>14, <2>1 DEF WmapSet
  <2>3. u.mem[o] = h2 /\ u.mem[h2.slots] = t
    BY <1>8, <1>10 DEF Placed
  <2>4. s = [b EXCEPT !.mem[b.mem[o].slots] = WmInsert(@, k, v)]
    <3>1. \A f : f = WmapRoom(u, o, u.mem[u.mem[o].slots]) =>
                     s = [f EXCEPT !.mem[f.mem[o].slots] = WmInsert(@, k, v)]
      BY <2>2 DEF WmapSetRaw, WmapRoom
    <3>2. b = WmapRoom(u, o, u.mem[u.mem[o].slots])
      BY <1>4, <2>3
    <3>3. QED
      BY <3>1, <3>2
  <2>5. QED
    BY <1>14, <1>15, <2>4 DEF WmInsert, Wrote
<1>17. Word(b, own2, g.vkind, v, x) /\ g.vkind # 0
  BY <1>2, <1>7, <1>8, <1>13, <1>14, WordIn
<1>18. ProbeEnds(z, k)
  BY <1>1, <1>5, <1>14 DEF SetEnds, WmapTable, Header
<1>19. MapWords(b, own2, c, g.vkind, WithKey(y, k, x)) /\ c.cap = z.cap
  <2>1. c = Insert(z, k, v) /\ MapWords(b, own2, z, g.vkind, y)
    BY <1>14, <1>15
  <2>2. PICK kd : kd = g.vkind
    OBVIOUS
  <2>3. kd # 0 /\ Word(b, own2, kd, v, x) /\ MapWords(b, own2, z, kd, y)
    BY <1>17, <2>1, <2>2
  <2>4. MapWords(b, own2, c, kd, WithKey(y, k, x)) /\ c.cap = z.cap
    BY <1>18, <2>1, <2>3, MapWordsPut
  <2>5. QED
    BY <2>2, <2>4
<1>20. Changed(b, own2, s, own2, id) /\ MapAt(s, own2, id, o, g, c, WithKey(y, k, x))
  BY <1>2, <1>15, <1>16, <1>19, SlotsWritten
<1>21. Changed(r, own, s, own2, id)
  <2>1. Changed(r, own, b, own2, id)
    BY <1>2, <1>9, <1>13, ChangedOn
  <2>2. QED
    BY <1>2, <1>20, <2>1, ChangedOn
<1>22. Kept(s, own2, id, Entry(r, id), st2[id]) /\ \A i \in 1 .. n : i # id => st2[i] = st[i]
  <2>1. MapKept(s, own2, id, o, WithKey(y, k, x))
    BY <1>20, MapAtIs
  <2>2. QED
    BY <1>1, <2>1 DEF Kept, Now
<1>23. QED
  BY <1>21, <1>22, ChangedIs

(* wmap_del.                                                               *)
LEMMA DelIs ==
    ASSUME HashAssumption, NEW r, NEW own, NEW st, NEW n, n \in Nat, Sound(r, own, st, n),
           NEW id, id \in 1 .. n, Entry(r, id).kind = 2, NEW k, k \in Keys, FindEnds(WmapTable(r, id), k),
           NEW st2, Now(st, st2, n, id, Restrict(st[id], DOMAIN st[id] \ {k})), NEW s, s = WmapDel(r, id, k)
    PROVE  \E own2 : Sound(s, own2, st2, n)
<1>1. PICK e, o, y : e = Entry(r, id) /\ o = e.off /\ y = st[id]
  OBVIOUS
<1>2. Base(r, own) /\ id \in Nat \ {0} /\ Kept(r, own, id, e, y)
  BY <1>1, OneOf
<1>3. PICK h, t : MapAt(r, own, id, o, h, t, y)
  <2>1. MapKept(r, own, id, o, y)
    BY <1>1, <1>2 DEF Kept
  <2>2. QED
    BY <2>1, MapAtIs
<1>4. PICK u, y2 : u = Delete(t, k) /\ y2 = Restrict(y, DOMAIN y \ {k})
  OBVIOUS
<1>5. /\ r.mem[o] = h /\ r.mem[h.slots] = t /\ MapWords(r, own, t, h.vkind, y) /\ TableInv(t)
      /\ y \in [KeysOf(t) -> Things]
  BY <1>3 DEF MapAt, Placed, MapWords
<1>6. WmapTable(r, id) = t /\ Header(r, id) = h
  BY <1>1, <1>5 DEF WmapTable, Header
<1>7. /\ TableInv(u) /\ KeysOf(u) = KeysOf(t) \ {k}
      /\ \A q, w : Holds(u, q, w) <=> q # k /\ Holds(t, q, w)
  <2>1. t.n = 0 \/ ProbeEnds(t, k)
    BY <1>6 DEF FindEnds
  <2>2. QED
    BY <1>4, <1>5, <2>1, DeletedKeeps
<1>8. u.cap = t.cap
  BY <1>4, <1>5 DEF Delete, TableInv, TableType
<1>9. y2 \in [KeysOf(u) -> Things] /\ \A q \in KeysOf(u) : y2[q] = y[q]
  BY <1>4, <1>5, <1>7 DEF Restrict
<1>10. MapWords(r, own, u, h.vkind, y2)
  <2>1. ASSUME NEW q, NEW w, Holds(u, q, w) PROVE Word(r, own, h.vkind, w, y2[q])
    <3>1. q \in KeysOf(u) /\ Holds(t, q, w)
      BY <1>7, <2>1 DEF Holds, KeysOf
    <3>2. QED
      BY <1>5, <1>9, <3>1 DEF MapWords
  <2>2. h.vkind = 0 => KeysOf(u) = {}
    BY <1>5, <1>7 DEF MapWords
  <2>3. QED
    BY <1>7, <1>9, <2>1, <2>2 DEF MapWords
<1>11. s = Wrote(r, h.slots, u)
  BY <1>4, <1>5, <1>6 DEF WmapDel, Wrote
<1>12. Changed(r, own, s, own, id) /\ MapAt(s, own, id, o, h, u, y2)
  BY <1>2, <1>3, <1>8, <1>10, <1>11, SlotsWritten
<1>13. Kept(s, own, id, Entry(r, id), st2[id]) /\ \A i \in 1 .. n : i # id => st2[i] = st[i]
  <2>1. MapKept(s, own, id, o, y2)
    BY <1>12, MapAtIs
  <2>2. QED
    BY <1>1, <1>4, <2>1 DEF Kept, Now
<1>14. QED
  BY <1>12, <1>13, ChangedIs

\* The record id has its header h at o, its values d and kinds ks, and holds x.
RecAt(r, own, id, o, h, d, ks, x) ==
    /\ Placed(r, own, id, o, 3, h)
    /\ Placed(r, own, id, h.data, h.n, d) /\ Placed(r, own, id, h.kinds, h.n, ks)
    /\ RecHeader(h) /\ h.data # o /\ h.kinds # o /\ h.data # h.kinds
    /\ RecWords(r, own, h.n, d, ks, x)

(* A record has a header, values and kinds.                                *)
LEMMA RecAtIs ==
    ASSUME NEW r, NEW own, NEW id, NEW o, NEW x
    PROVE  RecKept(r, own, id, o, x) <=> \E h, d, ks : RecAt(r, own, id, o, h, d, ks, x)
<1>1. ASSUME RecKept(r, own, id, o, x)
      PROVE  RecAt(r, own, id, o, r.mem[o], r.mem[r.mem[o].data], r.mem[r.mem[o].kinds], x)
  BY <1>1 DEF RecKept, RecAt, Placed
<1>2. ASSUME NEW h, NEW d, NEW ks, RecAt(r, own, id, o, h, d, ks, x) PROVE RecKept(r, own, id, o, x)
  <2>1. r.mem[o] = h /\ r.mem[h.data] = d /\ r.mem[h.kinds] = ks
    BY <1>2 DEF RecAt, Placed
  <2>2. QED
    BY <1>2, <2>1 DEF RecKept, RecAt, Placed
<1>3. QED
  BY <1>1, <1>2

(* A value of a record is written.                                         *)
LEMMA RecWordsPut ==
    ASSUME NEW r, NEW own, NEW n, NEW d, NEW ks, NEW x, RecWords(r, own, n, d, ks, x),
           NEW i, i \in 1 .. n, NEW kind, kind \in 1 .. 3, NEW v, NEW y, y \in Things,
           Word(r, own, kind, v, y),
           NEW d2, d2 = [d EXCEPT ![i] = v], NEW ks2, ks2 = [ks EXCEPT ![i] = kind]
    PROVE  RecWords(r, own, n, d2, ks2, WithKey(x, i, y))
<1>1. /\ d \in [1 .. n -> Int] /\ ks \in [1 .. n -> 0 .. 3] /\ x \in [SetFields(n, ks) -> Things]
      /\ \A j \in SetFields(n, ks) : Word(r, own, ks[j], d[j], x[j])
  BY DEF RecWords
<1>2. v \in Int /\ kind \in 0 .. 3 /\ kind # 0
  BY DEF Word
<1>3. /\ d2 \in [1 .. n -> Int] /\ ks2 \in [1 .. n -> 0 .. 3] /\ d2[i] = v /\ ks2[i] = kind
      /\ \A j \in 1 .. n : j # i => d2[j] = d[j] /\ ks2[j] = ks[j]
  BY <1>1, <1>2
<1>4. SetFields(n, ks2) = SetFields(n, ks) \cup {i}
  BY <1>2, <1>3 DEF SetFields
<1>5. PICK x2 : x2 = WithKey(x, i, y)
  OBVIOUS
<1>6. x2 \in [SetFields(n, ks2) -> Things] /\ x2[i] = y /\ \A j \in SetFields(n, ks) : j # i => x2[j] = x[j]
  BY <1>1, <1>4, <1>5 DEF WithKey
<1>7. ASSUME NEW j, j \in SetFields(n, ks2) PROVE Word(r, own, ks2[j], d2[j], x2[j])
  <2>1. CASE j = i
    BY <1>3, <1>6, <2>1
  <2>2. CASE j # i
    <3>1. j \in SetFields(n, ks) /\ j \in 1 .. n
      BY <1>4, <1>7, <2>2 DEF SetFields
    <3>2. QED
      BY <1>1, <1>3, <1>6, <2>2, <3>1
  <2>3. QED
    BY <2>1, <2>2
<1>8. QED
  BY <1>3, <1>5, <1>6, <1>7 DEF RecWords

\* The container id is a record with a field i.
FieldOf(r, n, id, i) == id \in 1 .. n /\ Entry(r, id).kind = 3 /\ i \in 1 .. Header(r, id).n

\* A program can store x as a value of a kind.
ValueOf(kind, x) == kind \in 1 .. 3 /\ x \in Things /\ (kind = 1 => x \in Int)

(* wrec_set, wrec_set_str and wrec_set_bytes.                              *)
LEMMA RecSetIs ==
    ASSUME NEW r, NEW own, NEW st, NEW n, n \in Nat, Sound(r, own, st, n), NEW id, NEW i, FieldOf(r, n, id, i),
           NEW kind, NEW x, ValueOf(kind, x), NEW y0, y0 = WithKey(st[id], i, x),
           NEW st2, Now(st, st2, n, id, y0), NEW s, s = WrecSet(r, id, i, kind, x)
    PROVE  \E own2 : Sound(s, own2, st2, n)
<1> id \in 1 .. n /\ Entry(r, id).kind = 3
  BY DEF FieldOf
<1>1. PICK e, o, y : e = Entry(r, id) /\ o = e.off /\ y = st[id]
  OBVIOUS
<1>2. Base(r, own) /\ id \in Nat \ {0} /\ id \in Int /\ id # 0 /\ id # -1 /\ Kept(r, own, id, e, y)
  BY <1>1, OneOf
<1>3. PICK h, d, ks : RecAt(r, own, id, o, h, d, ks, y)
  <2>1. RecKept(r, own, id, o, y)
    BY <1>1, <1>2 DEF Kept
  <2>2. QED
    BY <2>1, RecAtIs
<1>4. /\ Placed(r, own, id, o, 3, h) /\ Placed(r, own, id, h.data, h.n, d)
      /\ Placed(r, own, id, h.kinds, h.n, ks) /\ Block(r, own, id, h.kinds, h.n)
      /\ r.mem[o] = h /\ r.mem[h.data] = d /\ r.mem[h.kinds] = ks
      /\ RecHeader(h) /\ h.data # o /\ h.kinds # o /\ h.data # h.kinds
      /\ RecWords(r, own, h.n, d, ks, y)
  BY <1>3 DEF RecAt, Placed
<1>5. Header(r, id) = h /\ i \in 1 .. h.n /\ h.n \in Nat
  BY <1>1, <1>4 DEF Header, RecHeader, FieldOf
<1> kind \in 1 .. 3 /\ x \in Things /\ (kind = 1 => x \in Int)
  BY DEF ValueOf
<1>6. PICK d2, ks2, a, p, u : /\ ks2 = [ks EXCEPT ![i] = kind] /\ a = Wrote(r, h.kinds, ks2)
                              /\ p = PutPayload(a, kind, x) /\ u = p.r /\ d2 = [d EXCEPT ![i] = p.v]
  OBVIOUS
<1>7. /\ Changed(r, own, a, own, id) /\ Placed(a, own, id, h.kinds, h.n, ks2)
      /\ Placed(a, own, id, o, 3, h) /\ Placed(a, own, id, h.data, h.n, d)
  <2>1. a = Wrote(r, h.kinds, ks2)
    BY <1>6
  <2>2. QED
    BY <1>2, <1>4, <2>1, WroteChanges
<1>8. PICK own1 : Grown(a, own, u, own1) /\ Word(u, own1, kind, p.v, x)
  <2>1. Base(a, own) /\ kind \in 0 .. 3 /\ (kind \in {0, 1} => x \in Int)
    BY <1>7 DEF Changed
  <2>2. \E own1 : Grown(a, own, p.r, own1) /\ Word(p.r, own1, kind, p.v, x)
    BY <1>6, <2>1, PutIs
  <2>3. QED
    BY <1>6, <2>2
<1>9. Base(a, own) /\ Base(u, own1) /\ Changed(r, own, u, own1, id)
  <2>1. Changed(a, own, u, own1, id)
    BY <1>8, GrownChanges
  <2>2. QED
    BY <1>2, <1>7, <2>1, ChangedOn DEF Changed
<1>10. /\ Placed(u, own1, id, h.kinds, h.n, ks2) /\ Placed(u, own1, id, o, 3, h)
       /\ Placed(u, own1, id, h.data, h.n, d)
  <2>1. 3 \in Nat
    OBVIOUS
  <2>2. QED
    BY <1>5, <1>7, <1>8, <1>9, <2>1, PlacedStays
<1>11. Block(u, own1, id, h.data, h.n) /\ u.mem[h.data] = d
  BY <1>10 DEF Placed
<1>12. s = Wrote(u, h.data, d2)
  <2>1. [r EXCEPT !.mem[h.kinds][i] = kind] = a
    BY <1>4, <1>6 DEF Wrote
  <2>2. s = [u EXCEPT !.mem[h.data][i] = p.v]
    BY <1>5, <1>6, <2>1 DEF WrecSet
  <2>3. QED
    BY <1>6, <1>11, <2>2 DEF Wrote
<1>13. /\ Changed(u, own1, s, own1, id) /\ Placed(s, own1, id, h.data, h.n, d2)
       /\ Placed(s, own1, id, o, 3, h) /\ Placed(s, own1, id, h.kinds, h.n, ks2)
  BY <1>2, <1>4, <1>9, <1>10, <1>11, <1>12, WroteChanges
<1>14. Changed(r, own, s, own1, id)
  BY <1>2, <1>9, <1>13, ChangedOn
<1>15. RecWords(s, own1, h.n, d2, ks2, WithKey(y, i, x))
  <2>1. RecWords(s, own1, h.n, d, ks, y)
    BY <1>2, <1>4, <1>14, RecWordsIn
  <2>2. Word(s, own1, kind, p.v, x)
    BY <1>2, <1>8, <1>13, WordIn
  <2>3. PICK m, v : m = h.n /\ v = p.v
    OBVIOUS
  <2>4. RecWords(s, own1, m, d, ks, y) /\ Word(s, own1, kind, v, x) /\ i \in 1 .. m
    BY <1>5, <2>1, <2>2, <2>3
  <2>5. d2 = [d EXCEPT ![i] = v] /\ ks2 = [ks EXCEPT ![i] = kind]
    BY <1>6, <2>3
  <2>6. RecWords(s, own1, m, d2, ks2, WithKey(y, i, x))
    BY <2>4, <2>5, RecWordsPut
  <2>7. QED
    BY <2>3, <2>6
<1>16. RecAt(s, own1, id, o, h, d2, ks2, WithKey(y, i, x))
  BY <1>4, <1>13, <1>15 DEF RecAt
<1>17. Kept(s, own1, id, Entry(r, id), st2[id]) /\ \A j \in 1 .. n : j # id => st2[j] = st[j]
  <2>1. RecKept(s, own1, id, o, WithKey(y, i, x))
    BY <1>16, RecAtIs
  <2>2. QED
    BY <1>1, <2>1 DEF Kept, Now
<1>18. QED
  BY <1>14, <1>17, ChangedIs

-----------------------------------------------------------------------------
(* Compaction: the loops.                                                  *)

\* One step of a loop, by the loop it is of.
StepFrom(loop, src, h, d, prev, i) ==
    CASE loop = 1 -> VecCopied(prev, src, h, d, i)
      [] loop = 2 -> MapCopied(prev, src, h, d, i)
      [] loop = 3 -> RecCopied(prev, src, h, d, i)
      [] loop = 4 -> Copy(prev, src, i)
      [] loop = 5 -> IF prev < h THEN prev * 2 ELSE prev

FromStart(loop, src, h, d, s, f, i) == IF i = 0 THEN s ELSE StepFrom(loop, src, h, d, f[i - 1], i)

\* f[i] is what there is after i steps.
Steps(loop, src, h, d, s, n, f) == f = [i \in 0..n |-> FromStart(loop, src, h, d, s, f, i)]

(* A loop has a result: by induction on its steps.                         *)
LEMMA StepsExist ==
    ASSUME NEW loop, NEW src, NEW h, NEW d, NEW s, NEW n, n \in Nat
    PROVE  \E f : Steps(loop, src, h, d, s, n, f)
<1> DEFINE T == {m \in Nat : \E f : Steps(loop, src, h, d, s, m, f)}
<1>1. 0 \in T
  <2> DEFINE f == [i \in 0..0 |-> s]
  <2>1. Steps(loop, src, h, d, s, 0, f)
    BY DEF Steps, FromStart
  <2>2. QED
    BY <2>1
<1>2. ASSUME NEW m \in Nat, m \in T PROVE m + 1 \in T
  <2>1. PICK f : Steps(loop, src, h, d, s, m, f)
    BY <1>2
  <2> DEFINE new == [i \in 0..(m + 1) |-> FromStart(loop, src, h, d, s, f, i)]
  <2>2. \A i \in 0..m : new[i] = f[i]
    <3>1. \A i \in 0..m : i \in 0..(m + 1)
      OBVIOUS
    <3>2. QED
      BY <2>1, <3>1 DEF Steps
  <2>3. ASSUME NEW i \in 0..(m + 1)
        PROVE  FromStart(loop, src, h, d, s, f, i) = FromStart(loop, src, h, d, s, new, i)
    <3>1. i = 0 \/ i - 1 \in 0..m
      OBVIOUS
    <3> HIDE DEF new
    <3>2. i = 0 \/ new[i - 1] = f[i - 1]
      BY <2>2, <3>1
    <3>3. QED
      BY <3>2 DEF FromStart
  <2>4. Steps(loop, src, h, d, s, m + 1, new)
    <3>1. new = [i \in 0..(m + 1) |-> FromStart(loop, src, h, d, s, new, i)]
      BY <2>3, Zenon
    <3>2. QED
      BY <3>1 DEF Steps
  <2>5. QED
    <3> HIDE DEF new
    <3>1. QED
      BY <2>4
<1>3. n \in T
  <2> HIDE DEF T
  <2>1. QED
    BY <1>1, <1>2, NumberInduction
<1>4. QED
  BY <1>3

(* The greater of two numbers.                                             *)
LEMMA GreaterOf ==
    ASSUME NEW a, NEW b, a \in Int, b \in Int
    PROVE  Max({a, b}) \in {a, b} /\ Max({a, b}) >= a /\ Max({a, b}) >= b
<1>1. \E x \in {a, b} : \A y \in {a, b} : x >= y
  <2>1. a >= b \/ b >= a
    OBVIOUS
  <2>2. a >= a /\ b >= b
    OBVIOUS
  <2>3. QED
    BY <2>1, <2>2
<1>2. QED
  BY <1>1 DEF Max

PowSteps(n, f) == f = [i \in 0..n |-> IF i = 0 THEN MapCap ELSE IF f[i - 1] < n THEN f[i - 1] * 2 ELSE f[i - 1]]

(* baga_pow2_at_least is what it says.                                     *)
LEMMA PowIs ==
    ASSUME RegionAssumption, NEW n, n \in Nat
    PROVE  Pow2AtLeast(n) \in Nat \ {0} /\ Pow2AtLeast(n) >= n
<1>1. PICK f : Steps(5, 0, n, 0, MapCap, n, f)
  BY StepsExist
<1>2. PowSteps(n, f)
  <2>1. ASSUME NEW i \in 0..n
        PROVE  FromStart(5, 0, n, 0, MapCap, f, i) =
                   IF i = 0 THEN MapCap ELSE IF f[i - 1] < n THEN f[i - 1] * 2 ELSE f[i - 1]
    BY DEF FromStart, StepFrom
  <2>2. f = [i \in 0..n |-> FromStart(5, 0, n, 0, MapCap, f, i)]
    BY <1>1 DEF Steps
  <2>3. f = [i \in 0..n |-> IF i = 0 THEN MapCap ELSE IF f[i - 1] < n THEN f[i - 1] * 2 ELSE f[i - 1]]
    BY <2>1, <2>2, Zenon
  <2>4. QED
    BY <2>3 DEF PowSteps
<1>3. Pow2AtLeast(n) = (CHOOSE g : PowSteps(n, g))[n]
  BY DEF Pow2AtLeast, PowSteps
<1>4. PICK g : PowSteps(n, g) /\ Pow2AtLeast(n) = g[n]
  BY <1>2, <1>3
<1>5. \A i \in 0..n : g[i] = IF i = 0 THEN MapCap ELSE IF g[i - 1] < n THEN g[i - 1] * 2 ELSE g[i - 1]
  BY <1>4 DEF PowSteps
<1> DEFINE T == {m \in Nat : m <= n => g[m] \in Nat \ {0} /\ (g[m] >= n \/ g[m] >= m + 1)}
<1>6. 0 \in T
  BY <1>5 DEF RegionAssumption
<1>7. ASSUME NEW m \in Nat, m \in T PROVE m + 1 \in T
  <2>1. SUFFICES ASSUME m + 1 <= n
                 PROVE  g[m + 1] \in Nat \ {0} /\ (g[m + 1] >= n \/ g[m + 1] >= (m + 1) + 1)
    OBVIOUS
  <2>2. g[m] \in Nat \ {0} /\ (g[m] >= n \/ g[m] >= m + 1)
    BY <1>7, <2>1
  <2>3. m + 1 \in 0..n /\ (m + 1) - 1 = m /\ m + 1 # 0
    BY <2>1
  <2>4. g[m + 1] = IF g[m] < n THEN g[m] * 2 ELSE g[m]
    BY <1>5, <2>3
  <2>5. QED
    BY <2>2, <2>4
<1>8. n \in T
  <2> HIDE DEF T
  <2>1. QED
    BY <1>6, <1>7, NumberInduction
<1>9. QED
  BY <1>4, <1>8

-----------------------------------------------------------------------------
(* Compaction: vectors.                                                    *)

VecHead(r, h) == [h EXCEPT !.cap = Max({h.len, VecCap}), !.data = r.used + 4]
VecStart(r, h) == ArenaAlloc(ArenaAlloc(r, 4, VecHead(r, h)), VecHead(r, h).cap, << >>)
VecSteps(r, src, h, f) ==
    f = [i \in 0..h.len |-> IF i = 0 THEN VecStart(r, h)
                            ELSE VecCopied(f[i - 1], src, h, VecHead(r, h).data, i)]

(* The copy of a vector, as its loop.                                      *)
LEMMA CopyVecLoop ==
    ASSUME NEW r, NEW src, NEW h, h.len \in Nat
    PROVE  \E f : VecSteps(r, src, h, f) /\ CopyVec(r, src, h) = TblAdd(f[h.len], r.used, 1)
<1>1. PICK hd, s : hd = VecHead(r, h) /\ s = VecStart(r, h)
  OBVIOUS
<1>2. PICK f : Steps(1, src, h, hd.data, s, h.len, f)
  <2>1. PICK m, d : m = h.len /\ d = hd.data
    OBVIOUS
  <2>2. \E f : Steps(1, src, h, d, s, m, f)
    BY <2>1, StepsExist
  <2>3. QED
    BY <2>1, <2>2
<1>3. VecSteps(r, src, h, f)
  <2>1. ASSUME NEW i \in 0..h.len
        PROVE  FromStart(1, src, h, hd.data, s, f, i) =
                   IF i = 0 THEN VecStart(r, h) ELSE VecCopied(f[i - 1], src, h, VecHead(r, h).data, i)
    BY <1>1 DEF FromStart, StepFrom
  <2>2. f = [i \in 0..h.len |-> FromStart(1, src, h, hd.data, s, f, i)]
    BY <1>2 DEF Steps
  <2>3. f = [i \in 0..h.len |-> IF i = 0 THEN VecStart(r, h)
                                ELSE VecCopied(f[i - 1], src, h, VecHead(r, h).data, i)]
    BY <2>1, <2>2, Zenon
  <2>4. QED
    BY <2>3 DEF VecSteps
<1>4. CopyVec(r, src, h) = TblAdd((CHOOSE g : VecSteps(r, src, h, g))[h.len], r.used, 1)
  BY DEF CopyVec, VecSteps, VecStart, VecHead
<1>5. QED
  BY <1>3, <1>4

\* u is r with a vector id of which m elements of x have been copied.
VecPart(r, own, id, o, hd, u, own2, dd, x, m) ==
    /\ Changed(r, own, u, own2, id)
    /\ Placed(u, own2, id, o, 4, hd) /\ Placed(u, own2, id, hd.data, hd.cap, dd)
    /\ dd \in Seq(Int) /\ Len(dd) = m
    /\ \A j \in 1..m : Word(u, own2, hd.ekind, dd[j], x[j])

(* An element is copied.                                                   *)
LEMMA VecPartStep ==
    ASSUME NEW r, NEW own, Base(r, own), NEW src, NEW osrc, NEW id, id \in Nat \ {0},
           NEW o, NEW h, NEW d, NEW x, NEW m, m \in Nat, m < h.len,
           src.mem[h.data] = d, Word(src, osrc, h.ekind, d[m + 1], x[m + 1]), h.ekind \in 0 .. 3,
           NEW hd, hd.ekind = h.ekind, hd.cap \in Nat, hd.data # o,
           NEW u, NEW own2, NEW dd, VecPart(r, own, id, o, hd, u, own2, dd, x, m),
           NEW s, s = VecCopied(u, src, h, hd.data, m + 1)
    PROVE  \E own3, dd3 : VecPart(r, own, id, o, hd, s, own3, dd3, x, m + 1)
<1>1. PICK p, a, y, k, v, D : /\ k = h.ekind /\ y = x[m + 1] /\ D = hd.data
                              /\ p = PutPayload(u, k, y) /\ a = p.r /\ v = p.v
  OBVIOUS
<1>2. /\ Changed(r, own, u, own2, id) /\ Base(u, own2) /\ id # 0 /\ id # -1
      /\ Placed(u, own2, id, o, 4, hd) /\ Placed(u, own2, id, D, hd.cap, dd)
      /\ dd \in Seq(Int) /\ Len(dd) = m /\ \A j \in 1..m : Word(u, own2, k, dd[j], x[j])
  BY <1>1 DEF VecPart, Changed
<1>3. Payload(src, k, d[m + 1]) = y /\ (k \in {0, 1} => y \in Int)
  BY <1>1, PayloadIs
<1>4. s = [a EXCEPT !.mem[D] = Append(@, v)]
  BY <1>1, <1>3 DEF VecCopied, CopyOf
<1>5. PICK own3 : Grown(u, own2, a, own3) /\ Word(a, own3, k, v, y)
  <2>1. k \in 0 .. 3
    BY <1>1
  <2>2. \E own3 : Grown(u, own2, p.r, own3) /\ Word(p.r, own3, k, p.v, y)
    BY <1>1, <1>2, <1>3, <2>1, PutIs
  <2>3. QED
    BY <1>1, <2>2
<1>6. Base(a, own3) /\ Changed(u, own2, a, own3, id)
  BY <1>5, GrownChanges DEF Grown
<1>7. Placed(a, own3, id, o, 4, hd) /\ Placed(a, own3, id, D, hd.cap, dd)
  <2>1. 4 \in Nat
    OBVIOUS
  <2>2. QED
    BY <1>2, <1>5, <2>1, PlacedStays
<1>8. PICK dd3 : dd3 = Append(dd, v)
  OBVIOUS
<1>9. s = Wrote(a, D, dd3) /\ Block(a, own3, id, D, hd.cap) /\ D # o
  BY <1>1, <1>4, <1>7, <1>8 DEF Placed, Wrote
<1>10. Changed(a, own3, s, own3, id) /\ Placed(s, own3, id, D, hd.cap, dd3) /\ Placed(s, own3, id, o, 4, hd)
  <2>1. Base(a, own3) /\ Placed(a, own3, id, o, 4, hd) /\ id # 0 /\ D # o
    BY <1>2, <1>6, <1>7, <1>9
  <2>2. s = Wrote(a, D, dd3) /\ Block(a, own3, id, D, hd.cap)
    BY <1>9
  <2>3. /\ Changed(a, own3, s, own3, id) /\ Placed(s, own3, id, D, hd.cap, dd3)
        /\ \A q, z, w : q # D /\ Placed(a, own3, id, q, z, w) => Placed(s, own3, id, q, z, w)
    BY <2>1, <2>2, WroteChanges
  <2>4. QED
    BY <2>1, <2>3
<1>11. Changed(u, own2, s, own3, id) /\ Changed(r, own, s, own3, id)
  <2>1. Changed(u, own2, s, own3, id)
    BY <1>2, <1>6, <1>10, ChangedOn
  <2>2. QED
    BY <1>2, <2>1, ChangedOn
<1>12. v \in Int
  BY <1>5 DEF Word
<1>13. dd3 \in Seq(Int) /\ Len(dd3) = m + 1 /\ dd3[m + 1] = v /\ \A j \in 1..m : dd3[j] = dd[j]
  BY <1>2, <1>8, <1>12
<1>14. ASSUME NEW j, j \in 1..(m + 1) PROVE Word(s, own3, k, dd3[j], x[j])
  <2>1. CASE j = m + 1
    BY <1>1, <1>2, <1>5, <1>10, <1>13, <2>1, WordIn
  <2>2. CASE j # m + 1
    <3>1. j \in 1..m
      BY <1>14, <2>2
    <3>2. Word(u, own2, k, dd3[j], x[j])
      BY <1>2, <1>13, <3>1
    <3>3. QED
      BY <1>2, <1>11, <3>2, WordIn
  <2>3. QED
    BY <2>1, <2>2
<1>15. VecPart(r, own, id, o, hd, s, own3, dd3, x, m + 1)
  BY <1>1, <1>10, <1>11, <1>13, <1>14 DEF VecPart
<1>16. QED
  BY <1>15

(* A vector is copied.                                                     *)
LEMMA CopyVecIs ==
    ASSUME RegionAssumption, NEW r, NEW own, NEW st, NEW n, n \in Nat, Sound(r, own, st, n),
           NEW id, id = n + 1, NEW src, NEW osrc, NEW osid, NEW oo, NEW h, NEW d,
           VecAt(src, osrc, osid, oo, h, d, st[id]), NEW s, s = CopyVec(r, src, h)
    PROVE  \E own2 : Sound(s, own2, st, id)
<1>1. PICK o, hd, x : o = r.used /\ hd = VecHead(r, h) /\ x = st[id]
  OBVIOUS
<1>2. /\ src.mem[h.data] = d /\ VecHeader(h) /\ Len(d) = h.len
      /\ VecWords(src, osrc, d, h.ekind, x)
  BY <1>1 DEF VecAt, Placed
<1>3. /\ h = [len |-> h.len, cap |-> h.cap, data |-> h.data, ekind |-> h.ekind]
      /\ h.len \in Nat /\ h.ekind \in 0 .. 3
  BY <1>2 DEF VecHeader
<1>4. PICK f : VecSteps(r, src, h, f) /\ s = TblAdd(f[h.len], o, 1)
  BY <1>1, <1>3, CopyVecLoop
<1>5. f[0] = VecStart(r, h) /\ \A i \in 1..h.len : f[i] = VecCopied(f[i - 1], src, h, hd.data, i)
  <2>1. PICK m, p : m = h.len /\ p = hd.data /\ p = VecHead(r, h).data
    BY <1>1
  <2>2. m \in Nat /\ f = [i \in 0..m |-> IF i = 0 THEN VecStart(r, h) ELSE VecCopied(f[i - 1], src, h, p, i)]
    BY <1>3, <1>4, <2>1 DEF VecSteps
  <2>3. f[0] = VecStart(r, h) /\ \A i \in 1..m : f[i] = VecCopied(f[i - 1], src, h, p, i)
    BY <2>2
  <2>4. QED
    BY <2>1, <2>3
<1>6. /\ Base(r, own) /\ id \in Nat \ {0} /\ id \in Int /\ o \in Nat /\ VecCap \in Nat \ {0}
      /\ 4 \in Nat \ {0}
  <2>1. Base(r, own) /\ VecCap \in Nat \ {0}
    BY DEF Sound, RegionAssumption
  <2>2. r.used \in Nat
    BY <2>1 DEF Base
  <2>3. QED
    BY <1>1, <2>1, <2>2
<1>7. PICK c : c = Max({h.len, VecCap})
  OBVIOUS
<1>8. c \in Nat \ {0} /\ h.len \in 0 .. c
  BY <1>3, <1>6, <1>7, GreaterOf
<1>9. hd = [len |-> h.len, cap |-> c, data |-> o + 4, ekind |-> h.ekind]
  BY <1>1, <1>3, <1>7 DEF VecHead
<1>10. /\ VecHeader(hd) /\ hd.len = h.len /\ hd.cap = c /\ hd.data = o + 4 /\ hd.ekind = h.ekind
       /\ hd.data # o /\ hd.cap \in Nat
  BY <1>3, <1>6, <1>8, <1>9 DEF VecHeader
<1> DEFINE T == {m \in Nat : m <= h.len => \E own2, dd : VecPart(r, own, id, o, hd, f[m], own2, dd, x, m)}
<1>11. 0 \in T
  <2>1. PICK u, q : u = f[0] /\ q = hd.data
    OBVIOUS
  <2>2. u = ArenaAlloc(ArenaAlloc(r, 4, hd), c, << >>) /\ q = r.used + 4
    BY <1>1, <1>5, <1>10, <2>1 DEF VecStart
  <2>3. PICK own2 : Grown(r, own, u, own2) /\ Placed(u, own2, id, r.used, 4, hd) /\ Placed(u, own2, id, q, c, << >>)
    BY <1>6, <1>8, <2>2, TwoAllocs
  <2>4. Changed(r, own, u, own2, id)
    BY <2>3, GrownChanges
  <2>5. VecPart(r, own, id, o, hd, u, own2, << >>, x, 0)
    BY <1>1, <1>10, <2>1, <2>3, <2>4 DEF VecPart
  <2>6. QED
    BY <2>1, <2>5
<1>12. ASSUME NEW m \in Nat, m \in T PROVE m + 1 \in T
  <2>1. SUFFICES ASSUME m + 1 <= h.len
                 PROVE  \E own2, dd : VecPart(r, own, id, o, hd, f[m + 1], own2, dd, x, m + 1)
    OBVIOUS
  <2>2. m < h.len /\ m <= h.len /\ m + 1 \in 1..h.len /\ (m + 1) - 1 = m /\ m + 1 \in 1..Len(d)
    BY <1>2, <1>3, <2>1
  <2>3. PICK u, v, own2, dd : u = f[m] /\ v = f[m + 1] /\ VecPart(r, own, id, o, hd, u, own2, dd, x, m)
    BY <1>12, <2>2
  <2>4. v = VecCopied(u, src, h, hd.data, m + 1)
    BY <1>5, <2>2, <2>3
  <2>5. Word(src, osrc, h.ekind, d[m + 1], x[m + 1])
    BY <1>2, <2>2 DEF VecWords
  <2>6. PICK own3, dd3 : VecPart(r, own, id, o, hd, v, own3, dd3, x, m + 1)
    BY <1>2, <1>3, <1>6, <1>10, <2>2, <2>3, <2>4, <2>5, VecPartStep
  <2>7. QED
    BY <2>3, <2>6
<1>13. PICK u, own2, dd : u = f[h.len] /\ VecPart(r, own, id, o, hd, u, own2, dd, x, h.len)
  <2> HIDE DEF T
  <2>1. h.len \in T
    BY <1>3, <1>11, <1>12, NumberInduction
  <2>2. QED
    BY <1>3, <2>1 DEF T
<1>14. VecWords(u, own2, dd, hd.ekind, x)
  BY <1>2, <1>10, <1>13 DEF VecPart, VecWords
<1>15. VecAt(u, own2, id, o, hd, dd, x)
  BY <1>10, <1>13, <1>14 DEF VecPart, VecAt
<1>16. PICK e : e = [off |-> o, kind |-> 1]
  OBVIOUS
<1>17. Kept(u, own2, id, e, st[id]) /\ e \in Entries
  <2>1. VecKept(u, own2, id, o, x)
    BY <1>15, VecAtIs
  <2>2. QED
    BY <1>1, <1>6, <1>16, <2>1 DEF Kept, Entries
<1>18. Changed(r, own, u, own2, id) /\ s = TblAdd(u, e.off, e.kind)
  BY <1>4, <1>13, <1>16 DEF VecPart
<1>19. QED
  BY <1>17, <1>18, AddedIs

-----------------------------------------------------------------------------
(* Compaction: records.                                                    *)

RecHead(r, h) == [h EXCEPT !.data = r.used + 3, !.kinds = r.used + 3 + h.n]
RecStart(r, src, h) ==
    ArenaAlloc(ArenaAlloc(ArenaAlloc(r, 3, RecHead(r, h)), h.n, src.mem[h.data]), h.n, src.mem[h.kinds])
RecSteps(r, src, h, f) ==
    f = [i \in 0..h.n |-> IF i = 0 THEN RecStart(r, src, h)
                          ELSE RecCopied(f[i - 1], src, h, RecHead(r, h).data, i)]

(* The copy of a record, as its loop.                                      *)
LEMMA CopyRecLoop ==
    ASSUME NEW r, NEW src, NEW h, h.n \in Nat
    PROVE  \E f : RecSteps(r, src, h, f) /\ CopyRec(r, src, h) = TblAdd(f[h.n], r.used, 3)
<1>1. PICK m, d, s : m = h.n /\ d = RecHead(r, h).data /\ s = RecStart(r, src, h)
  OBVIOUS
<1>2. PICK f : Steps(3, src, h, d, s, m, f)
  BY <1>1, StepsExist
<1>3. RecSteps(r, src, h, f)
  <2>1. ASSUME NEW i \in 0..h.n
        PROVE  FromStart(3, src, h, d, s, f, i) =
                   IF i = 0 THEN RecStart(r, src, h) ELSE RecCopied(f[i - 1], src, h, RecHead(r, h).data, i)
    BY <1>1 DEF FromStart, StepFrom
  <2>2. f = [i \in 0..h.n |-> FromStart(3, src, h, d, s, f, i)]
    BY <1>1, <1>2 DEF Steps
  <2>3. f = [i \in 0..h.n |-> IF i = 0 THEN RecStart(r, src, h)
                              ELSE RecCopied(f[i - 1], src, h, RecHead(r, h).data, i)]
    BY <2>1, <2>2, Zenon
  <2>4. QED
    BY <2>3 DEF RecSteps
<1>4. CopyRec(r, src, h) = TblAdd((CHOOSE g : RecSteps(r, src, h, g))[h.n], r.used, 3)
  BY DEF CopyRec, RecSteps, RecStart, RecHead
<1>5. QED
  BY <1>3, <1>4

\* u is r with a record id of which m fields of x have been copied.
RecPart(r, own, id, o, hd, u, own2, dd, ks, x, m) ==
    /\ Changed(r, own, u, own2, id)
    /\ Placed(u, own2, id, o, 3, hd)
    /\ Placed(u, own2, id, hd.data, hd.n, dd) /\ Placed(u, own2, id, hd.kinds, hd.n, ks)
    /\ dd \in [1..hd.n -> Int]
    /\ \A j \in 1..hd.n : dd[j] \in Int
    /\ \A j \in 1..m : ks[j] # 0 => Word(u, own2, ks[j], dd[j], x[j])

(* A field is copied.                                                      *)
LEMMA RecPartStep ==
    ASSUME NEW r, NEW own, Base(r, own), NEW src, NEW osrc, NEW id, id \in Nat \ {0},
           NEW o, NEW h, NEW d, NEW ks, NEW x, NEW m, m \in Nat, m + 1 \in 1 .. h.n,
           src.mem[h.data] = d, src.mem[h.kinds] = ks, RecWords(src, osrc, h.n, d, ks, x),
           NEW hd, hd.n = h.n, hd.n \in Nat, hd.data # o, hd.data # hd.kinds,
           NEW u, NEW own2, NEW dd, RecPart(r, own, id, o, hd, u, own2, dd, ks, x, m),
           NEW s, s = RecCopied(u, src, h, hd.data, m + 1)
    PROVE  \E own3, dd3 : RecPart(r, own, id, o, hd, s, own3, dd3, ks, x, m + 1)
<1>1. PICK i, k, y : i = m + 1 /\ k = ks[i] /\ y = Payload(src, k, d[i])
  OBVIOUS
<1>2. PICK p, a, v, D : D = hd.data /\ p = PutPayload(u, k, y) /\ a = p.r /\ v = p.v
  OBVIOUS
<1>3. /\ Changed(r, own, u, own2, id) /\ Base(u, own2) /\ id # 0 /\ id # -1
      /\ Placed(u, own2, id, o, 3, hd) /\ Placed(u, own2, id, D, hd.n, dd)
      /\ Placed(u, own2, id, hd.kinds, hd.n, ks)
      /\ dd \in [1..hd.n -> Int]
      /\ \A j \in 1..m : ks[j] # 0 => Word(u, own2, ks[j], dd[j], x[j])
  BY <1>2 DEF RecPart, Changed
<1>4. i \in 1..hd.n /\ k \in 0 .. 3 /\ d[i] \in Int
  BY <1>1 DEF RecWords
<1>5. (k # 0 => y = x[i]) /\ (k \in {0, 1} => y \in Int)
  <2>1. CASE k = 0
    <3>1. y = d[i]
      BY <1>1, <2>1 DEF Payload
    <3>2. QED
      BY <1>4, <2>1, <3>1
  <2>2. CASE k # 0
    <3>1. i \in SetFields(h.n, ks)
      BY <1>1, <2>2 DEF SetFields
    <3>2. Word(src, osrc, k, d[i], x[i])
      BY <1>1, <3>1 DEF RecWords
    <3>3. QED
      BY <1>1, <3>2, PayloadIs
  <2>3. QED
    BY <2>1, <2>2
<1>6. PICK own3 : Grown(u, own2, a, own3) /\ Word(a, own3, k, v, y)
  <2>1. \E own3 : Grown(u, own2, p.r, own3) /\ Word(p.r, own3, k, p.v, y)
    BY <1>2, <1>3, <1>4, <1>5, PutIs
  <2>2. QED
    BY <1>2, <2>1
<1>7. Base(a, own3) /\ Changed(u, own2, a, own3, id)
  BY <1>6, GrownChanges DEF Grown
<1>8. /\ Placed(a, own3, id, o, 3, hd) /\ Placed(a, own3, id, D, hd.n, dd)
      /\ Placed(a, own3, id, hd.kinds, hd.n, ks)
  <2>1. 3 \in Nat
    OBVIOUS
  <2>2. QED
    BY <1>3, <1>6, <2>1, PlacedStays
<1>9. PICK dd3 : dd3 = [dd EXCEPT ![i] = v]
  OBVIOUS
<1>10. s = Wrote(a, D, dd3) /\ Block(a, own3, id, D, hd.n) /\ D # o /\ D # hd.kinds
  <2>1. s = [a EXCEPT !.mem[D][i] = v]
    BY <1>1, <1>2 DEF RecCopied, CopyOf
  <2>2. a.mem[D] = dd
    BY <1>8 DEF Placed
  <2>3. QED
    BY <1>2, <1>8, <1>9, <2>1, <2>2 DEF Placed, Wrote
<1>11. /\ Changed(a, own3, s, own3, id) /\ Placed(s, own3, id, D, hd.n, dd3)
       /\ Placed(s, own3, id, o, 3, hd) /\ Placed(s, own3, id, hd.kinds, hd.n, ks)
  <2>1. /\ Changed(a, own3, s, own3, id) /\ Placed(s, own3, id, D, hd.n, dd3)
        /\ \A p3, z, c : p3 # D /\ Placed(a, own3, id, p3, z, c) => Placed(s, own3, id, p3, z, c)
    <3>1. Base(a, own3) /\ id # 0 /\ Block(a, own3, id, D, hd.n) /\ s = Wrote(a, D, dd3)
      BY <1>3, <1>7, <1>10
    <3>2. QED
      BY <3>1, WroteChanges
  <2>2. QED
    BY <1>8, <1>10, <2>1
<1>12. Changed(u, own2, s, own3, id) /\ Changed(r, own, s, own3, id)
  <2>1. Changed(u, own2, s, own3, id)
    BY <1>3, <1>7, <1>11, ChangedOn
  <2>2. QED
    BY <1>3, <2>1, ChangedOn
<1>13. v \in Int
  BY <1>6 DEF Word
<1>14. dd3 \in [1..hd.n -> Int] /\ dd3[i] = v /\ \A j \in 1..hd.n : j # i => dd3[j] = dd[j]
  BY <1>3, <1>4, <1>9, <1>13
<1>15. ASSUME NEW j, j \in 1..(m + 1), ks[j] # 0 PROVE Word(s, own3, ks[j], dd3[j], x[j])
  <2>1. CASE j = i
    <3>1. Word(a, own3, ks[j], dd3[j], x[j])
      BY <1>1, <1>5, <1>6, <1>14, <1>15, <2>1
    <3>2. QED
      BY <1>3, <1>11, <3>1, WordIn
  <2>2. CASE j # i
    <3>1. j \in 1..m /\ j \in 1..hd.n
      BY <1>1, <1>4, <1>15, <2>2
    <3>2. Word(u, own2, ks[j], dd3[j], x[j])
      BY <1>3, <1>14, <1>15, <2>2, <3>1
    <3>3. QED
      BY <1>3, <1>12, <3>2, WordIn
  <2>3. QED
    BY <2>1, <2>2
<1>16. RecPart(r, own, id, o, hd, s, own3, dd3, ks, x, m + 1)
  BY <1>2, <1>11, <1>12, <1>14, <1>15 DEF RecPart
<1>17. QED
  BY <1>16

(* A record is copied.                                                     *)
LEMMA CopyRecIs ==
    ASSUME RegionAssumption, NEW r, NEW own, NEW st, NEW n, n \in Nat, Sound(r, own, st, n),
           NEW id, id = n + 1, NEW src, NEW osrc, NEW osid, NEW oo, NEW h, NEW d, NEW ks,
           RecAt(src, osrc, osid, oo, h, d, ks, st[id]), NEW s, s = CopyRec(r, src, h)
    PROVE  \E own2 : Sound(s, own2, st, id)
<1>1. PICK o, hd, x : o = r.used /\ hd = RecHead(r, h) /\ x = st[id]
  OBVIOUS
<1>2. /\ src.mem[h.data] = d /\ src.mem[h.kinds] = ks /\ RecHeader(h)
      /\ RecWords(src, osrc, h.n, d, ks, x)
  BY <1>1 DEF RecAt, Placed
<1>3. h = [n |-> h.n, data |-> h.data, kinds |-> h.kinds] /\ h.n \in Nat \ {0} /\ h.n \in Nat
  BY <1>2 DEF RecHeader
<1>4. PICK f : RecSteps(r, src, h, f) /\ s = TblAdd(f[h.n], o, 3)
  BY <1>1, <1>3, CopyRecLoop
<1>5. f[0] = RecStart(r, src, h) /\ \A i \in 1..h.n : f[i] = RecCopied(f[i - 1], src, h, hd.data, i)
  <2>1. PICK D, m : D = RecHead(r, h).data /\ m = h.n
    OBVIOUS
  <2>2. f = [i \in 0..m |-> IF i = 0 THEN RecStart(r, src, h) ELSE RecCopied(f[i - 1], src, h, D, i)]
    BY <1>4, <2>1 DEF RecSteps
  <2>3. 0 \in 0..m /\ \A i \in 1..m : i \in 0..m /\ i # 0
    BY <1>3, <2>1
  <2>4. f[0] = RecStart(r, src, h) /\ \A i \in 1..m : f[i] = RecCopied(f[i - 1], src, h, D, i)
    BY <2>2, <2>3
  <2>5. QED
    BY <1>1, <2>1, <2>4
<1>6. Base(r, own) /\ id \in Nat \ {0} /\ id \in Int /\ o \in Nat
  <2>1. Base(r, own) /\ id \in Nat \ {0} /\ id \in Int
    BY DEF Sound
  <2>2. QED
    BY <1>1, <2>1 DEF Base
<1>7. hd = [n |-> h.n, data |-> o + 3, kinds |-> o + 3 + h.n]
  BY <1>1, <1>3 DEF RecHead
<1>8. /\ RecHeader(hd) /\ hd.n = h.n /\ hd.data = o + 3 /\ hd.kinds = hd.data + h.n
      /\ hd.data # o /\ hd.kinds # o /\ hd.data # hd.kinds /\ hd.n \in Nat
  BY <1>3, <1>6, <1>7 DEF RecHeader
<1> DEFINE T == {m \in Nat : m <= h.n => \E own2, dd : RecPart(r, own, id, o, hd, f[m], own2, dd, ks, x, m)}
<1>9. 0 \in T
  <2>1. PICK u, q, k, m : u = f[0] /\ q = hd.data /\ k = hd.kinds /\ m = h.n
    OBVIOUS
  <2>2. /\ u = ArenaAlloc(ArenaAlloc(ArenaAlloc(r, 3, hd), m, d), m, ks)
        /\ q = r.used + 3 /\ k = q + m /\ m \in Nat \ {0}
    BY <1>1, <1>2, <1>3, <1>5, <1>8, <2>1 DEF RecStart
  <2>3. PICK own2 : /\ Grown(r, own, u, own2) /\ Placed(u, own2, id, r.used, 3, hd)
                    /\ Placed(u, own2, id, q, m, d) /\ Placed(u, own2, id, k, m, ks)
    BY <1>6, <2>2, ThreeAllocs
  <2>4. Changed(r, own, u, own2, id)
    BY <2>3, GrownChanges
  <2>5. d \in [1..hd.n -> Int]
    BY <1>2, <1>8 DEF RecWords
  <2>6. RecPart(r, own, id, o, hd, u, own2, d, ks, x, 0)
    BY <1>1, <1>8, <2>1, <2>3, <2>4, <2>5 DEF RecPart
  <2>7. QED
    BY <2>1, <2>6
<1>10. ASSUME NEW m \in Nat, m \in T PROVE m + 1 \in T
  <2>1. SUFFICES ASSUME m + 1 <= h.n
                 PROVE  \E own2, dd : RecPart(r, own, id, o, hd, f[m + 1], own2, dd, ks, x, m + 1)
    OBVIOUS
  <2>2. m <= h.n /\ m + 1 \in 1..h.n /\ (m + 1) - 1 = m
    BY <1>3, <2>1
  <2>3. PICK u, v, own2, dd : u = f[m] /\ v = f[m + 1] /\ RecPart(r, own, id, o, hd, u, own2, dd, ks, x, m)
    BY <1>10, <2>2
  <2>4. v = RecCopied(u, src, h, hd.data, m + 1)
    BY <1>5, <2>2, <2>3
  <2>5. PICK own3, dd3 : RecPart(r, own, id, o, hd, v, own3, dd3, ks, x, m + 1)
    BY <1>2, <1>6, <1>8, <2>2, <2>3, <2>4, RecPartStep
  <2>6. QED
    BY <2>3, <2>5
<1>11. PICK u, own2, dd : u = f[h.n] /\ RecPart(r, own, id, o, hd, u, own2, dd, ks, x, h.n)
  <2> HIDE DEF T
  <2>1. h.n \in T
    BY <1>3, <1>9, <1>10, NumberInduction
  <2>2. QED
    BY <1>3, <2>1 DEF T
<1>12. RecWords(u, own2, hd.n, dd, ks, x)
  <2>1. /\ dd \in [1..hd.n -> Int]
        /\ \A j \in SetFields(hd.n, ks) : Word(u, own2, ks[j], dd[j], x[j])
    BY <1>8, <1>11 DEF RecPart, SetFields
  <2>2. ks \in [1..hd.n -> 0 .. 3] /\ x \in [SetFields(hd.n, ks) -> Things]
    BY <1>2, <1>8 DEF RecWords
  <2>3. QED
    BY <2>1, <2>2 DEF RecWords
<1>13. RecAt(u, own2, id, o, hd, dd, ks, x)
  BY <1>8, <1>11, <1>12 DEF RecPart, RecAt
<1>14. PICK e : e = [off |-> o, kind |-> 3]
  OBVIOUS
<1>15. Kept(u, own2, id, e, st[id]) /\ e \in Entries
  <2>1. RecKept(u, own2, id, o, x)
    BY <1>13, RecAtIs
  <2>2. QED
    BY <1>1, <1>6, <1>14, <2>1 DEF Kept, Entries
<1>16. Changed(r, own, u, own2, id) /\ s = TblAdd(u, e.off, e.kind)
  BY <1>4, <1>11, <1>14 DEF RecPart
<1>17. QED
  BY <1>15, <1>16, AddedIs

-----------------------------------------------------------------------------
(* Compaction: maps.                                                       *)

(* A table has no more entries than slots.                                 *)
LEMMA CountFits ==
    ASSUME NEW t, TableInv(t)
    PROVE  t.n \in Nat /\ t.n <= t.cap
<1>1. TableType(t) /\ t.n = Cardinality(KeysOf(t)) /\ t.cap \in Nat \ {0} /\ t.n \in Nat
  BY DEF TableInv, TableType
<1>2. PICK S : S = 0..(t.cap - 1)
  OBVIOUS
<1>3. IsFiniteSet(S) /\ Cardinality(S) = t.cap
  <2>1. PICK c : c = t.cap - 1
    OBVIOUS
  <2>2. c \in Int /\ 0 \in Int /\ c - 0 + 1 = t.cap /\ ~(0 > c)
    BY <1>1, <2>1
  <2>3. IsFiniteSet(0..c) /\ Cardinality(0..c) = c - 0 + 1
    BY <2>2, FS_Interval
  <2>4. QED
    BY <1>2, <2>1, <2>2, <2>3
<1>4. IsFiniteSet(Live(t)) /\ Live(t) \in SUBSET S
  BY <1>1, <1>2, TableFinite
<1>5. Cardinality(Live(t)) <= Cardinality(S) /\ Cardinality(Live(t)) \in Nat
  BY <1>3, <1>4, FS_Subset, FS_CardinalityType
<1>6. Cardinality(KeysOf(t)) <= Cardinality(Live(t))
  <2> DEFINE f == [i \in Live(t) |-> t.s[i].k]
  <2>1. f \in Surjection(Live(t), KeysOf(t))
    BY DEF KeysOf, Surjection
  <2>2. QED
    BY <1>4, <2>1, FS_Surjection
<1>7. QED
  BY <1>1, <1>3, <1>5, <1>6

(* A table that is not full and has no tombstones has an empty slot.       *)
LEMMA HasVacant ==
    ASSUME NEW b, TableInv(b), \A i \in 0..(b.cap - 1) : b.s[i].st # 2, b.n < b.cap
    PROVE  \E i \in 0..(b.cap - 1) : b.s[i].st = 0
<1>1. SUFFICES ASSUME \A i \in 0..(b.cap - 1) : b.s[i].st # 0 PROVE FALSE
  OBVIOUS
<1>2. TableType(b) /\ b.n = Cardinality(KeysOf(b)) /\ b.cap \in Nat \ {0} /\ b.n \in Nat
  BY DEF TableInv, TableType
<1>3. PICK c : c = b.cap - 1
  OBVIOUS
<1>4. \A i \in 0..c : b.s[i].st \in {0, 1, 2}
  BY <1>2, <1>3 DEF TableType, Slots
<1>5. Live(b) = 0..c
  BY <1>1, <1>3, <1>4 DEF Live
<1>6. IsFiniteSet(0..c) /\ Cardinality(0..c) = b.cap
  <2>1. c \in Int /\ 0 \in Int /\ c - 0 + 1 = b.cap /\ ~(0 > c)
    BY <1>2, <1>3
  <2>2. IsFiniteSet(0..c) /\ Cardinality(0..c) = c - 0 + 1
    BY <2>1, FS_Interval
  <2>3. QED
    BY <2>1, <2>2
<1>7. IsFiniteSet(KeysOf(b))
  BY <1>2, TableFinite
<1>8. Cardinality(Live(b)) <= Cardinality(KeysOf(b))
  <2> DEFINE f == [i \in Live(b) |-> b.s[i].k]
  <2>1. f \in Injection(Live(b), KeysOf(b))
    BY DEF KeysOf, Injection, TableInv, IsInjective
  <2>2. QED
    BY <1>7, <2>1, FS_Injection
<1>9. QED
  BY <1>2, <1>5, <1>6, <1>8

KeysBefore(t, m) == {t.s[i].k : i \in {j \in Live(t) : j < m}}

\* b has, in c slots, what the first m slots of t have.
Refilled(b, t, c, m) ==
    /\ TableInv(b) /\ b.cap = c /\ (\A i \in 0..(c - 1) : b.s[i].st # 2)
    /\ KeysOf(b) = KeysBefore(t, m)

(* A slot of the old table goes into the new one, which has room for it.   *)
LEMMA RefillStep ==
    ASSUME HashAssumption, NEW t, TableInv(t), NEW m, m \in Nat, m \in Live(t), NEW c, c \in Nat, t.n <= c,
           NEW b, Refilled(b, t, c, m), NEW k, k = t.s[m].k, NEW v, v \in Vals,
           NEW a, a = Insert(b, k, v)
    PROVE  /\ Refilled(a, t, c, m + 1) /\ k \in Keys
           /\ \A q, w : Holds(a, q, w) => (q = k /\ w = v) \/ Holds(b, q, w)
<1>1. /\ TableType(t) /\ TableInv(b) /\ TableType(b) /\ b.cap = c /\ Live(t) \subseteq Nat
      /\ t.n = Cardinality(KeysOf(t)) /\ b.n = Cardinality(KeysOf(b)) /\ b.n \in Nat /\ t.n \in Nat
  BY DEF TableInv, TableType, Refilled, Live
<1>2. k \in KeysOf(t) /\ k \in Keys
  BY <1>1 DEF KeysOf, TableType, Live
<1>3. k \notin KeysBefore(t, m)
  BY <1>1 DEF KeysBefore, TableInv
<1>4. KeysBefore(t, m) \in SUBSET (KeysOf(t) \ {k})
  BY <1>3 DEF KeysBefore, KeysOf
<1>5. IsFiniteSet(KeysOf(t))
  BY <1>1, TableFinite
<1>6. b.n < t.n
  <2>1. IsFiniteSet(KeysOf(t) \ {k}) /\ Cardinality(KeysOf(t) \ {k}) = Cardinality(KeysOf(t)) - 1
    BY <1>2, <1>5, FS_RemoveElement
  <2>2. Cardinality(KeysBefore(t, m)) <= Cardinality(KeysOf(t) \ {k})
    BY <1>4, <2>1, FS_Subset
  <2>3. b.n <= t.n - 1
    BY <1>1, <2>1, <2>2 DEF Refilled
  <2>4. QED
    BY <1>1, <2>3
<1>7. ProbeEnds(b, k)
  <2>1. b.n < b.cap /\ \A i \in 0..(b.cap - 1) : b.s[i].st # 2
    BY <1>1, <1>6 DEF Refilled
  <2>2. \E i \in 0..(b.cap - 1) : b.s[i].st = 0
    BY <1>1, <2>1, HasVacant
  <2>3. QED
    BY <1>1, <1>2, <2>2, EmptySlotEnds
<1>8. PICK i : Gained(b, a, k, v, i)
  BY <1>1, <1>2, <1>7, InsertIs
<1>9. PICK n : Written(b, a, i, [st |-> 1, k |-> k, v |-> v], n)
  BY <1>8 DEF Gained
<1>10. \A j \in 0..(c - 1) : a.s[j].st # 2
  <2>1. a.s = [b.s EXCEPT ![i] = [st |-> 1, k |-> k, v |-> v]] /\ DOMAIN b.s = 0..(c - 1)
    BY <1>1, <1>9 DEF Written, TableType
  <2>2. QED
    BY <2>1 DEF Refilled
<1>11. KeysOf(a) = KeysBefore(t, m + 1)
  <2>1. KeysOf(a) = KeysBefore(t, m) \cup {k}
    BY <1>8 DEF Gained, Refilled
  <2>2. \A j \in Live(t) : j < m + 1 <=> j < m \/ j = m
    BY <1>1
  <2>3. QED
    BY <2>1, <2>2 DEF KeysBefore
<1>12. Refilled(a, t, c, m + 1)
  BY <1>1, <1>8, <1>10, <1>11 DEF Refilled, Gained
<1>13. QED
  BY <1>2, <1>8, <1>12 DEF Gained

(* A slot that is not live adds no key.                                    *)
LEMMA RefillSkip ==
    ASSUME NEW t, NEW m, m \in Nat, m \notin Live(t), NEW c, NEW b, Refilled(b, t, c, m)
    PROVE  Refilled(b, t, c, m + 1)
<1>1. Live(t) \subseteq Int
  BY DEF Live
<1>2. \A j \in Live(t) : j < m + 1 <=> j < m
  BY <1>1
<1>3. QED
  BY <1>2 DEF Refilled, KeysBefore

MapHead(r, h) == [h EXCEPT !.slots = r.used + 4]
MapStart(r, h, c) == ArenaAlloc(ArenaAlloc(r, 4, MapHead(r, h)), 3 * c, NewTable(c))
MapSteps(r, src, h, t, c, f) ==
    f = [i \in 0..t.cap |-> IF i = 0 THEN MapStart(r, h, c)
                            ELSE MapCopied(f[i - 1], src, h, MapHead(r, h).slots, i)]

(* The copy of a map, as its loop.                                         *)
LEMMA CopyMapLoop ==
    ASSUME NEW r, NEW src, NEW h, NEW t, t = src.mem[h.slots], t.cap \in Nat,
           NEW c, c = Pow2AtLeast(2 * t.n)
    PROVE  \E f : MapSteps(r, src, h, t, c, f) /\ CopyMap(r, src, h) = TblAdd(f[t.cap], r.used, 2)
<1>1. PICK m, d, s : m = t.cap /\ d = MapHead(r, h).slots /\ s = MapStart(r, h, c)
  OBVIOUS
<1>2. PICK f : Steps(2, src, h, d, s, m, f)
  BY <1>1, StepsExist
<1>3. MapSteps(r, src, h, t, c, f)
  <2>1. ASSUME NEW i \in 0..t.cap
        PROVE  FromStart(2, src, h, d, s, f, i) =
                   IF i = 0 THEN MapStart(r, h, c) ELSE MapCopied(f[i - 1], src, h, MapHead(r, h).slots, i)
    BY <1>1 DEF FromStart, StepFrom
  <2>2. f = [i \in 0..t.cap |-> FromStart(2, src, h, d, s, f, i)]
    BY <1>1, <1>2 DEF Steps
  <2>3. f = [i \in 0..t.cap |-> IF i = 0 THEN MapStart(r, h, c)
                                ELSE MapCopied(f[i - 1], src, h, MapHead(r, h).slots, i)]
    BY <2>1, <2>2, Zenon
  <2>4. QED
    BY <2>3 DEF MapSteps
<1>4. CopyMap(r, src, h) = TblAdd((CHOOSE g : MapSteps(r, src, h, t, c, g))[t.cap], r.used, 2)
  BY DEF CopyMap, MapSteps, MapStart, MapHead
<1>5. QED
  BY <1>3, <1>4

\* u is r with a map id to which the first m slots of t have been copied.
MapPart(r, own, id, o, hd, u, own2, b, t, c, x, m) ==
    /\ Changed(r, own, u, own2, id) /\ Refilled(b, t, c, m)
    /\ Placed(u, own2, id, o, 4, hd) /\ Placed(u, own2, id, hd.slots, 3 * c, b)
    /\ \A q, w : Holds(b, q, w) => Word(u, own2, hd.vkind, w, x[q])

(* A slot is copied.                                                       *)
LEMMA MapPartStep ==
    ASSUME RegionAssumption, NEW r, NEW own, Base(r, own), NEW src, NEW osrc, NEW id, id \in Nat \ {0},
           NEW o, NEW h, NEW t, NEW x, NEW m, m \in Nat, m < t.cap,
           src.mem[h.slots] = t, MapWords(src, osrc, t, h.vkind, x), h.vkind \in 0 .. 2,
           NEW hd, hd.vkind = h.vkind, hd.slots # o, NEW c, c \in Nat, t.n <= c,
           NEW u, NEW own2, NEW b, MapPart(r, own, id, o, hd, u, own2, b, t, c, x, m),
           NEW s, s = MapCopied(u, src, h, hd.slots, m + 1)
    PROVE  \E own3, b3 : MapPart(r, own, id, o, hd, s, own3, b3, t, c, x, m + 1)
<1>1. PICK D, kind : D = hd.slots /\ kind = h.vkind
  OBVIOUS
<1>2. /\ Changed(r, own, u, own2, id) /\ Base(u, own2) /\ id # 0 /\ id # -1 /\ Refilled(b, t, c, m)
      /\ Placed(u, own2, id, o, 4, hd) /\ Placed(u, own2, id, D, 3 * c, b)
      /\ \A q, w : Holds(b, q, w) => Word(u, own2, kind, w, x[q])
  BY <1>1 DEF MapPart, Changed
<1>3. /\ TableInv(t) /\ TableType(t) /\ m \in 0..(t.cap - 1)
      /\ \A q, w : Holds(t, q, w) => Word(src, osrc, kind, w, x[q])
  BY <1>1 DEF MapWords, TableInv, TableType
<1>4. PICK e, p, a, v : e = t.s[m] /\ p = CopyOf(u, src, kind, e.v) /\ a = p.r /\ v = p.v
  OBVIOUS
<1>5. s = IF e.st = 1 THEN [a EXCEPT !.mem[D] = Insert(@, e.k, v)] ELSE u
  <2>1. (m + 1) - 1 = m
    OBVIOUS
  <2>2. QED
    BY <1>1, <1>4, <2>1 DEF MapCopied, Copied, WmInsert
<1>6. CASE e.st # 1
  <2>1. m \notin Live(t) /\ s = u
    BY <1>4, <1>5, <1>6 DEF Live
  <2>2. Refilled(b, t, c, m + 1)
    BY <1>2, <2>1, RefillSkip
  <2>3. MapPart(r, own, id, o, hd, s, own2, b, t, c, x, m + 1)
    BY <1>1, <1>2, <2>1, <2>2 DEF MapPart
  <2>4. QED
    BY <2>3
<1>7. CASE e.st = 1
  <2>1. m \in Live(t) /\ Holds(t, e.k, e.v)
    BY <1>3, <1>4, <1>7 DEF Live, Holds
  <2>2. PICK k, y : k = e.k /\ y = x[k] /\ Word(src, osrc, kind, e.v, y)
    BY <1>3, <2>1
  <2>3. Payload(src, kind, e.v) = y /\ (kind \in {0, 1} => y \in Int)
    BY <2>2, PayloadIs
  <2>4. p = PutPayload(u, kind, y)
    BY <1>4, <2>3 DEF CopyOf
  <2>5. PICK own3 : Grown(u, own2, a, own3) /\ Word(a, own3, kind, v, y)
    <3>1. kind \in 0 .. 3
      BY <1>1
    <3>2. \E own3 : Grown(u, own2, p.r, own3) /\ Word(p.r, own3, kind, p.v, y)
      BY <1>2, <2>3, <2>4, <3>1, PutIs
    <3>3. QED
      BY <1>4, <3>2
  <2>6. Base(a, own3) /\ Changed(u, own2, a, own3, id)
    BY <2>5, GrownChanges DEF Grown
  <2>7. Placed(a, own3, id, o, 4, hd) /\ Placed(a, own3, id, D, 3 * c, b)
    <3>1. PICK four, size : four = 4 /\ size = 3 * c
      OBVIOUS
    <3>2. four \in Nat /\ size \in Nat
      BY <3>1
    <3>3. Placed(u, own2, id, o, four, hd) /\ Placed(u, own2, id, D, size, b)
      BY <1>2, <3>1
    <3>4. Placed(a, own3, id, o, four, hd) /\ Placed(a, own3, id, D, size, b)
      BY <1>2, <2>5, <3>2, <3>3, PlacedStays
    <3>5. QED
      BY <3>1, <3>4
  <2>8. PICK b3 : b3 = Insert(b, k, v)
    OBVIOUS
  <2>9. v \in Vals
    BY <2>5 DEF Word, Vals
  <2>10. /\ Refilled(b3, t, c, m + 1)
         /\ \A q, w : Holds(b3, q, w) => (q = k /\ w = v) \/ Holds(b, q, w)
    <3>1. HashAssumption /\ k = t.s[m].k
      BY <1>4, <2>2 DEF RegionAssumption
    <3>2. QED
      BY <1>2, <1>3, <2>1, <2>8, <2>9, <3>1, RefillStep
  <2>11. s = Wrote(a, D, b3) /\ D # o
    BY <1>1, <1>5, <1>7, <2>2, <2>7, <2>8 DEF Placed, Wrote
  <2>12. Changed(a, own3, s, own3, id) /\ Placed(s, own3, id, D, 3 * c, b3) /\ Placed(s, own3, id, o, 4, hd)
    <3>1. Block(a, own3, id, D, 3 * c)
      BY <2>7 DEF Placed
    <3>2. /\ Changed(a, own3, s, own3, id) /\ Placed(s, own3, id, D, 3 * c, b3)
          /\ \A p3, z, g : p3 # D /\ Placed(a, own3, id, p3, z, g) => Placed(s, own3, id, p3, z, g)
      BY <1>2, <2>6, <2>11, <3>1, WroteChanges
    <3>3. QED
      BY <2>7, <2>11, <3>2
  <2>13. Changed(u, own2, s, own3, id) /\ Changed(r, own, s, own3, id)
    <3>1. Changed(u, own2, s, own3, id)
      BY <1>2, <2>6, <2>12, ChangedOn
    <3>2. QED
      BY <1>2, <3>1, ChangedOn
  <2>14. ASSUME NEW q, NEW w, Holds(b3, q, w) PROVE Word(s, own3, kind, w, x[q])
    <3>1. CASE q = k /\ w = v
      BY <1>2, <2>2, <2>5, <2>12, <3>1, WordIn
    <3>2. CASE Holds(b, q, w)
      <4>1. Word(u, own2, kind, w, x[q])
        BY <1>2, <3>2
      <4>2. QED
        BY <1>2, <2>13, <4>1, WordIn
    <3>3. QED
      BY <2>10, <2>14, <3>1, <3>2
  <2>15. MapPart(r, own, id, o, hd, s, own3, b3, t, c, x, m + 1)
    BY <1>1, <2>10, <2>12, <2>13, <2>14 DEF MapPart
  <2>16. QED
    BY <2>15
<1>8. QED
  BY <1>6, <1>7

(* A map is copied.                                                        *)
LEMMA CopyMapIs ==
    ASSUME RegionAssumption, NEW r, NEW own, NEW st, NEW n, n \in Nat, Sound(r, own, st, n),
           NEW id, id = n + 1, NEW src, NEW osrc, NEW osid, NEW oo, NEW h, NEW t,
           MapAt(src, osrc, osid, oo, h, t, st[id]), NEW s, s = CopyMap(r, src, h)
    PROVE  \E own2 : Sound(s, own2, st, id)
<1>1. PICK o, hd, x, c : o = r.used /\ hd = MapHead(r, h) /\ x = st[id] /\ c = Pow2AtLeast(2 * t.n)
  OBVIOUS
<1>2. src.mem[h.slots] = t /\ MapHeader(h) /\ MapWords(src, osrc, t, h.vkind, x)
  BY <1>1 DEF MapAt, Placed
<1>3. h = [slots |-> h.slots, vkind |-> h.vkind] /\ h.vkind \in 0 .. 2
  BY <1>2 DEF MapHeader
<1>4. TableInv(t) /\ TableType(t) /\ t.cap \in Nat \ {0} /\ t.n \in Nat /\ x \in [KeysOf(t) -> Things]
  BY <1>2 DEF MapWords, TableInv, TableType
<1>5. c \in Nat \ {0} /\ c \in Nat /\ t.n <= c
  <2>1. PICK k : k = 2 * t.n
    OBVIOUS
  <2>2. k \in Nat /\ t.n <= k
    BY <1>4, <2>1
  <2>3. Pow2AtLeast(k) \in Nat \ {0} /\ Pow2AtLeast(k) >= k
    BY <2>2, PowIs
  <2>4. QED
    BY <1>1, <1>4, <2>1, <2>2, <2>3
<1>6. PICK f : MapSteps(r, src, h, t, c, f) /\ s = TblAdd(f[t.cap], o, 2)
  <2>1. t.cap \in Nat
    BY <1>4
  <2>2. QED
    BY <1>1, <1>2, <2>1, CopyMapLoop
<1>7. f[0] = MapStart(r, h, c) /\ \A i \in 1..t.cap : f[i] = MapCopied(f[i - 1], src, h, hd.slots, i)
  <2>1. PICK D, m : D = MapHead(r, h).slots /\ m = t.cap
    OBVIOUS
  <2>2. f = [i \in 0..m |-> IF i = 0 THEN MapStart(r, h, c) ELSE MapCopied(f[i - 1], src, h, D, i)]
    BY <1>6, <2>1 DEF MapSteps
  <2>3. 0 \in 0..m /\ \A i \in 1..m : i \in 0..m /\ i # 0
    BY <1>4, <2>1
  <2>4. f[0] = MapStart(r, h, c) /\ \A i \in 1..m : f[i] = MapCopied(f[i - 1], src, h, D, i)
    BY <2>2, <2>3
  <2>5. QED
    BY <1>1, <2>1, <2>4
<1>8. Base(r, own) /\ id \in Nat \ {0} /\ id \in Int /\ o \in Nat
  <2>1. Base(r, own) /\ id \in Nat \ {0} /\ id \in Int
    BY DEF Sound
  <2>2. QED
    BY <1>1, <2>1 DEF Base
<1>9. hd = [slots |-> o + 4, vkind |-> h.vkind]
  BY <1>1, <1>3 DEF MapHead
<1>10. /\ MapHeader(hd) /\ hd.slots = o + 4 /\ hd.vkind = h.vkind /\ hd.slots # o
  BY <1>3, <1>8, <1>9 DEF MapHeader
<1> DEFINE T == {m \in Nat : m <= t.cap => \E own2, b : MapPart(r, own, id, o, hd, f[m], own2, b, t, c, x, m)}
<1>11. 0 \in T
  <2>1. PICK u, q, b, four, size : u = f[0] /\ q = hd.slots /\ b = NewTable(c) /\ four = 4 /\ size = 3 * c
    OBVIOUS
  <2>2. /\ u = ArenaAlloc(ArenaAlloc(r, four, hd), size, b) /\ q = r.used + four
        /\ four \in Nat \ {0} /\ size \in Nat \ {0}
    BY <1>1, <1>5, <1>7, <1>10, <2>1 DEF MapStart
  <2>3. PICK own2 : /\ Grown(r, own, u, own2) /\ Placed(u, own2, id, r.used, four, hd)
                    /\ Placed(u, own2, id, q, size, b)
    BY <1>8, <2>2, TwoAllocs
  <2>4. Changed(r, own, u, own2, id)
    BY <2>3, GrownChanges
  <2>5. /\ TableInv(b) /\ b.cap = c /\ KeysOf(b) = {}
        /\ \A i \in 0..(c - 1) : b.s[i].st = 0
        /\ \A k, w : ~Holds(b, k, w)
    BY <1>5, <2>1, NewTableIs
  <2>6. KeysBefore(t, 0) = {}
    BY DEF KeysBefore, Live
  <2>7. Refilled(b, t, c, 0)
    BY <2>5, <2>6 DEF Refilled
  <2>8. MapPart(r, own, id, o, hd, u, own2, b, t, c, x, 0)
    BY <1>1, <2>1, <2>3, <2>4, <2>5, <2>7 DEF MapPart
  <2>9. QED
    BY <2>1, <2>8
<1>12. ASSUME NEW m \in Nat, m \in T PROVE m + 1 \in T
  <2>1. SUFFICES ASSUME m + 1 <= t.cap
                 PROVE  \E own2, b : MapPart(r, own, id, o, hd, f[m + 1], own2, b, t, c, x, m + 1)
    OBVIOUS
  <2>2. m < t.cap /\ m <= t.cap /\ m + 1 \in 1..t.cap /\ (m + 1) - 1 = m
    BY <1>4, <2>1
  <2>3. PICK u, v, own2, b : /\ u = f[m] /\ v = f[m + 1]
                             /\ MapPart(r, own, id, o, hd, u, own2, b, t, c, x, m)
    BY <1>12, <2>2
  <2>4. v = MapCopied(u, src, h, hd.slots, m + 1)
    BY <1>7, <2>2, <2>3
  <2>5. PICK own3, b3 : MapPart(r, own, id, o, hd, v, own3, b3, t, c, x, m + 1)
    BY <1>2, <1>3, <1>5, <1>8, <1>10, <2>2, <2>3, <2>4, MapPartStep
  <2>6. QED
    BY <2>3, <2>5
<1>13. PICK u, own2, b : u = f[t.cap] /\ MapPart(r, own, id, o, hd, u, own2, b, t, c, x, t.cap)
  <2> HIDE DEF T
  <2>1. t.cap \in T
    BY <1>4, <1>11, <1>12, NumberInduction
  <2>2. QED
    BY <1>4, <2>1 DEF T
<1>14. /\ Changed(r, own, u, own2, id) /\ Refilled(b, t, c, t.cap)
       /\ Placed(u, own2, id, o, 4, hd) /\ Placed(u, own2, id, hd.slots, 3 * c, b)
       /\ \A q, w : Holds(b, q, w) => Word(u, own2, hd.vkind, w, x[q])
  BY <1>13 DEF MapPart
<1>15. KeysOf(b) = KeysOf(t) /\ TableInv(b) /\ b.cap = c
  <2>1. \A j \in Live(t) : j < t.cap
    BY <1>4 DEF Live
  <2>2. KeysBefore(t, t.cap) = KeysOf(t)
    BY <2>1 DEF KeysBefore, KeysOf
  <2>3. QED
    BY <1>14, <2>2 DEF Refilled
<1>16. MapWords(u, own2, b, hd.vkind, x)
  <2>1. hd.vkind = 0 => KeysOf(t) = {}
    BY <1>2, <1>10 DEF MapWords
  <2>2. QED
    BY <1>4, <1>14, <1>15, <2>1 DEF MapWords
<1>17. MapAt(u, own2, id, o, hd, b, x)
  BY <1>10, <1>14, <1>15, <1>16 DEF MapAt
<1>18. PICK e : e = [off |-> o, kind |-> 2]
  OBVIOUS
<1>19. Kept(u, own2, id, e, st[id]) /\ e \in Entries
  <2>1. MapKept(u, own2, id, o, x)
    BY <1>17, MapAtIs
  <2>2. QED
    BY <1>1, <1>8, <1>18, <2>1 DEF Kept, Entries
<1>20. s = TblAdd(u, e.off, e.kind)
  BY <1>6, <1>13, <1>18
<1>21. QED
  BY <1>14, <1>19, <1>20, AddedIs

-----------------------------------------------------------------------------
(* Compaction: the table.                                                  *)

(* A container is copied.                                                  *)
LEMMA CopyIs ==
    ASSUME RegionAssumption, NEW r, NEW own, NEW st, NEW n, n \in Nat, Sound(r, own, st, n),
           NEW id, id = n + 1, NEW src, NEW osrc, Kept(src, osrc, id, Entry(src, id), st[id]),
           NEW s, s = Copy(r, src, id)
    PROVE  \E own2 : Sound(s, own2, st, id)
<1>1. PICK e, h, x : e = Entry(src, id) /\ h = Header(src, id) /\ x = st[id]
  OBVIOUS
<1>2. h = src.mem[e.off] /\ Kept(src, osrc, id, e, x)
  BY <1>1 DEF Header
<1>3. CASE e.kind = 1
  <2>1. VecKept(src, osrc, id, e.off, x) /\ s = CopyVec(r, src, h)
    BY <1>1, <1>2, <1>3 DEF Kept, Copy
  <2>2. PICK h2, d : VecAt(src, osrc, id, e.off, h2, d, x)
    BY <2>1, VecAtIs
  <2>3. h2 = h
    BY <1>2, <2>2 DEF VecAt, Placed
  <2>4. QED
    BY <1>1, <2>1, <2>2, <2>3, CopyVecIs
<1>4. CASE e.kind = 2
  <2>1. MapKept(src, osrc, id, e.off, x) /\ s = CopyMap(r, src, h)
    BY <1>1, <1>2, <1>4 DEF Kept, Copy
  <2>2. PICK h2, t : MapAt(src, osrc, id, e.off, h2, t, x)
    BY <2>1, MapAtIs
  <2>3. h2 = h
    BY <1>2, <2>2 DEF MapAt, Placed
  <2>4. QED
    BY <1>1, <2>1, <2>2, <2>3, CopyMapIs
<1>5. CASE e.kind = 3
  <2>1. RecKept(src, osrc, id, e.off, x) /\ s = CopyRec(r, src, h)
    BY <1>1, <1>2, <1>5 DEF Kept, Copy
  <2>2. PICK h2, d, ks : RecAt(src, osrc, id, e.off, h2, d, ks, x)
    BY <2>1, RecAtIs
  <2>3. h2 = h
    BY <1>2, <2>2 DEF RecAt, Placed
  <2>4. QED
    BY <1>1, <2>1, <2>2, <2>3, CopyRecIs
<1>6. QED
  BY <1>2, <1>3, <1>4, <1>5 DEF Kept

(* A new region holds nothing.                                             *)
LEMMA NewRegionIs ==
    ASSUME NEW cap, NEW r, r = NewRegion(cap), NEW st
    PROVE  \E own : Sound(r, own, st, 0)
<1>1. /\ r = [used |-> 5, cap |-> cap, mem |-> << >>, tbl_off |-> 0, tbl_len |-> 0, tbl_cap |-> 0, stale |-> FALSE]
      /\ DOMAIN r.mem = {} /\ r.mem = << >>
  BY DEF NewRegion, HdrSize
<1>2. PICK own : own = << >>
  OBVIOUS
<1>3. r.mem = [o \in DOMAIN r.mem |-> r.mem[o]]
  <2> DEFINE m == << >>
  <2>1. m = [o \in DOMAIN m |-> m[o]]
    OBVIOUS
  <2>2. QED
    BY <1>1, <2>1
<1>4. own \in [DOMAIN r.mem -> Int]
  BY <1>1, <1>2, <1>3
<1>5. Base(r, own)
  BY <1>1, <1>3, <1>4 DEF Base
<1>6. QED
  BY <1>1, <1>5 DEF Sound

BuildSteps(src, f) ==
    f = [id \in 0..src.tbl_len |-> IF id = 0 THEN NewRegion(Max({src.used \div 2, ImageCap}))
                                   ELSE Copy(f[id - 1], src, id)]

(* A compacted region holds what the region holds.                         *)
LEMMA CompactIs ==
    ASSUME RegionAssumption, NEW src, NEW osrc, NEW st, NEW n, n \in Nat,
           Sound(src, osrc, st, n), NEW s, s = CompactBuild(src)
    PROVE  \E own : Sound(s, own, st, n)
<1>1. src.tbl_len = n /\ \A id \in 1 .. n : Kept(src, osrc, id, Entry(src, id), st[id])
  BY DEF Sound
<1>2. PICK z : z = NewRegion(Max({src.used \div 2, ImageCap}))
  OBVIOUS
<1>3. PICK f : BuildSteps(src, f) /\ s = f[n]
  <2>1. PICK g : Steps(4, src, 0, 0, z, n, g)
    BY StepsExist
  <2>2. BuildSteps(src, g)
    <3>1. ASSUME NEW i \in 0..n
          PROVE  FromStart(4, src, 0, 0, z, g, i) =
                     IF i = 0 THEN NewRegion(Max({src.used \div 2, ImageCap})) ELSE Copy(g[i - 1], src, i)
      BY <1>2 DEF FromStart, StepFrom
    <3>2. g = [i \in 0..n |-> FromStart(4, src, 0, 0, z, g, i)]
      BY <2>1 DEF Steps
    <3>3. g = [i \in 0..n |-> IF i = 0 THEN NewRegion(Max({src.used \div 2, ImageCap}))
                              ELSE Copy(g[i - 1], src, i)]
      BY <3>1, <3>2, Zenon
    <3>4. QED
      BY <1>1, <3>3 DEF BuildSteps
  <2>3. s = (CHOOSE f : BuildSteps(src, f))[n]
    BY <1>1 DEF CompactBuild, BuildSteps
  <2>4. QED
    BY <2>2, <2>3
<1>4. f[0] = z /\ \A i \in 1..n : f[i] = Copy(f[i - 1], src, i)
  <2>1. f = [i \in 0..n |-> IF i = 0 THEN z ELSE Copy(f[i - 1], src, i)]
    BY <1>1, <1>2, <1>3 DEF BuildSteps
  <2>2. 0 \in 0..n /\ \A i \in 1..n : i \in 0..n /\ i # 0
    OBVIOUS
  <2>3. QED
    BY <2>1, <2>2
<1> DEFINE T == {m \in Nat : m <= n => \E own : Sound(f[m], own, st, m)}
<1>5. 0 \in T
  BY <1>2, <1>4, NewRegionIs
<1>6. ASSUME NEW m \in Nat, m \in T PROVE m + 1 \in T
  <2>1. SUFFICES ASSUME m + 1 <= n PROVE \E own : Sound(f[m + 1], own, st, m + 1)
    OBVIOUS
  <2>2. m <= n /\ m + 1 \in 1..n /\ (m + 1) - 1 = m
    BY <2>1
  <2>3. PICK u, v, id, own : u = f[m] /\ v = f[m + 1] /\ id = m + 1 /\ Sound(u, own, st, m)
    BY <1>6, <2>2
  <2>4. v = Copy(u, src, id) /\ Kept(src, osrc, id, Entry(src, id), st[id])
    BY <1>1, <1>4, <2>2, <2>3
  <2>5. \E own2 : Sound(v, own2, st, id)
    BY <2>3, <2>4, CopyIs
  <2>6. QED
    BY <2>3, <2>5
<1>7. n \in T
  <2> HIDE DEF T
  <2>1. QED
    BY <1>5, <1>6, NumberInduction
<1>8. QED
  BY <1>3, <1>7

-----------------------------------------------------------------------------
(* Reading.                                                                *)

(* A block lies in the region.                                             *)
LEMMA BlockInRegion ==
    ASSUME NEW r, NEW own, Base(r, own), NEW id, NEW o, NEW size, size \in Nat, Block(r, own, id, o, size)
    PROVE  InRegion(r, o, size)
<1>1. o \in 0 .. r.used - 1 /\ r.used \in Nat /\ o + size <= r.used
  BY DEF Base, Block
<1>2. QED
  BY <1>1 DEF InRegion

(* The accessors of a container accept it.                                 *)
LEMMA AccessIs ==
    ASSUME NEW r, NEW own, NEW st, NEW n, n \in Nat, Sound(r, own, st, n), NEW id, id \in 1 .. n
    PROVE  AccessOK(r, id)
<1>1. PICK e, o, x : e = Entry(r, id) /\ o = e.off /\ x = st[id]
  OBVIOUS
<1>2. Base(r, own) /\ Kept(r, own, id, e, x) /\ r.tbl_len = n
  BY <1>1, OneOf DEF Sound
<1>3. InRegion(r, r.tbl_off, 2 * r.tbl_cap) /\ id \in DOMAIN r.mem[r.tbl_off]
  <2>1. r.tbl_cap \in Nat /\ r.tbl_cap # 0 /\ n \in 0 .. r.tbl_cap
    BY <1>2 DEF Base
  <2>2. /\ Block(r, own, 0, r.tbl_off, 2 * r.tbl_cap) /\ r.mem[r.tbl_off] \in Seq(Entries)
        /\ Len(r.mem[r.tbl_off]) = n
    BY <1>2, <2>1 DEF Base
  <2>3. 2 * r.tbl_cap \in Nat
    BY <2>1
  <2>4. InRegion(r, r.tbl_off, 2 * r.tbl_cap)
    BY <1>2, <2>2, <2>3, BlockInRegion
  <2>5. id \in DOMAIN r.mem[r.tbl_off]
    BY <2>2
  <2>6. QED
    BY <2>4, <2>5
<1>4. Header(r, id) = r.mem[o]
  BY <1>1 DEF Header
<1>5. 4 \in Nat /\ 3 \in Nat
  OBVIOUS
<1>6. CASE e.kind = 1
  <2>1. PICK h, d : VecAt(r, own, id, o, h, d, x)
    BY <1>1, <1>2, <1>6, VecAtIs DEF Kept
  <2>2. /\ Block(r, own, id, o, 4) /\ Block(r, own, id, h.data, h.cap) /\ r.mem[o] = h /\ VecHeader(h)
    BY <2>1 DEF VecAt, Placed
  <2>3. h.cap \in Nat /\ h.len <= h.cap
    BY <2>2 DEF VecHeader
  <2>4. InRegion(r, o, 4) /\ InRegion(r, h.data, h.cap)
    <3>1. InRegion(r, o, 4)
      BY <1>2, <1>5, <2>2, BlockInRegion
    <3>2. InRegion(r, h.data, h.cap)
      BY <1>2, <2>2, <2>3, BlockInRegion
    <3>3. QED
      BY <3>1, <3>2
  <2>5. QED
    BY <1>1, <1>3, <1>4, <1>6, <2>2, <2>3, <2>4 DEF AccessOK
<1>7. CASE e.kind = 2
  <2>1. PICK h, t : MapAt(r, own, id, o, h, t, x)
    BY <1>1, <1>2, <1>7, MapAtIs DEF Kept
  <2>2. /\ Block(r, own, id, o, 4) /\ Block(r, own, id, h.slots, 3 * t.cap)
        /\ r.mem[o] = h /\ r.mem[h.slots] = t /\ TableInv(t)
    BY <2>1 DEF MapAt, Placed, MapWords
  <2>3. t.n <= t.cap
    BY <2>2, CountFits
  <2>4. 3 * t.cap \in Nat
    BY <2>2 DEF TableInv, TableType
  <2>5. InRegion(r, o, 4) /\ InRegion(r, h.slots, 3 * t.cap)
    <3>1. InRegion(r, o, 4)
      BY <1>2, <1>5, <2>2, BlockInRegion
    <3>2. InRegion(r, h.slots, 3 * t.cap)
      BY <1>2, <2>2, <2>4, BlockInRegion
    <3>3. QED
      BY <3>1, <3>2
  <2>6. QED
    BY <1>1, <1>3, <1>4, <1>7, <2>2, <2>3, <2>5 DEF AccessOK
<1>8. CASE e.kind = 3
  <2>1. PICK h, d, ks : RecAt(r, own, id, o, h, d, ks, x)
    BY <1>1, <1>2, <1>8, RecAtIs DEF Kept
  <2>2. /\ Block(r, own, id, o, 3) /\ Block(r, own, id, h.data, h.n) /\ Block(r, own, id, h.kinds, h.n)
        /\ r.mem[o] = h /\ RecHeader(h)
    BY <2>1 DEF RecAt, Placed
  <2>3. h.n \in Nat
    BY <2>2 DEF RecHeader
  <2>4. InRegion(r, o, 3) /\ InRegion(r, h.data, h.n) /\ InRegion(r, h.kinds, h.n)
    <3>1. InRegion(r, o, 3)
      BY <1>2, <1>5, <2>2, BlockInRegion
    <3>2. InRegion(r, h.data, h.n) /\ InRegion(r, h.kinds, h.n)
      BY <1>2, <2>2, <2>3, BlockInRegion
    <3>3. QED
      BY <3>1, <3>2
  <2>5. QED
    BY <1>1, <1>3, <1>4, <1>8, <2>2, <2>4 DEF AccessOK
<1>9. QED
  BY <1>2, <1>6, <1>7, <1>8 DEF Kept

(* A key that a table has is found.                                        *)
LEMMA KeyFound ==
    ASSUME HashAssumption, NEW t, TableInv(t), NEW k, k \in Keys
    PROVE  /\ k \in KeysOf(t) <=> FindEnds(t, k) /\ Slot(t, k) >= 0
           /\ k \in KeysOf(t) => Holds(t, k, t.s[Slot(t, k)].v)
<1>1. ASSUME k \in KeysOf(t) PROVE ProbeEnds(t, k)
  <2>1. PICK i \in Live(t) : t.s[i].k = k
    BY <1>1 DEF KeysOf
  <2>2. Reached(t, k, i)
    BY <2>1 DEF TableInv
  <2>3. PICK j \in 0..(t.cap - 1) : Spot(t, k, j) = i
    BY <2>2 DEF Reached
  <2>4. t.s[i].st = 1
    BY <2>1 DEF Live
  <2>5. j \in Halts(t, k)
    BY <2>1, <2>3, <2>4 DEF Halts
  <2>6. QED
    BY <2>5 DEF ProbeEnds
<1>2. FindEnds(t, k) => \/ Slot(t, k) = -1 /\ k \notin KeysOf(t)
                        \/ /\ Slot(t, k) \in Live(t) /\ t.s[Slot(t, k)].k = k
                           /\ Slot(t, k) \in 0..(t.cap - 1)
  BY SlotIs DEF FindEnds
<1>3. CASE k \in KeysOf(t)
  <2>1. FindEnds(t, k)
    BY <1>1, <1>3 DEF FindEnds
  <2>2. PICK i : i = Slot(t, k) /\ i \in Live(t) /\ t.s[i].k = k /\ i \in 0..(t.cap - 1)
    BY <1>2, <1>3, <2>1
  <2>3. QED
    BY <1>3, <2>1, <2>2 DEF Holds
<1>4. CASE k \notin KeysOf(t)
  <2>1. ASSUME FindEnds(t, k), Slot(t, k) >= 0 PROVE FALSE
    <3>1. Slot(t, k) # -1
      BY <2>1
    <3>2. Slot(t, k) \in Live(t) /\ t.s[Slot(t, k)].k = k
      BY <1>2, <2>1, <3>1
    <3>3. QED
      BY <1>4, <3>2 DEF KeysOf
  <2>2. QED
    BY <1>4, <2>1
<1>5. QED
  BY <1>3, <1>4

(* A container reads as what it holds.                                     *)
LEMMA ReadIs ==
    ASSUME RegionAssumption, NEW r, NEW own, NEW st, NEW n, n \in Nat, Sound(r, own, st, n),
           NEW id, id \in 1 .. n
    PROVE  Read(r, id) = st[id]
<1>1. PICK e, o, x, g : e = Entry(r, id) /\ o = e.off /\ x = st[id] /\ g = r.mem[o]
  OBVIOUS
<1>2. Kept(r, own, id, e, x)
  BY <1>1, OneOf
<1>3. Header(r, id) = g
  BY <1>1 DEF Header
<1>4. CASE e.kind = 1
  <2>1. PICK h, d : VecAt(r, own, id, o, h, d, x)
    BY <1>1, <1>2, <1>4, VecAtIs DEF Kept
  <2>2. h = g /\ r.mem[h.data] = d /\ Len(d) = h.len /\ VecWords(r, own, d, h.ekind, x)
    BY <1>1, <2>1 DEF VecAt, Placed
  <2>3. x \in Seq(Things) /\ Len(x) = h.len /\ \A i \in 1 .. h.len : Word(r, own, h.ekind, d[i], x[i])
    BY <2>2 DEF VecWords
  <2>4. \A i \in 1 .. h.len : Payload(r, h.ekind, d[i]) = x[i]
    BY <2>3, PayloadIs
  <2>5. x = [i \in 1 .. h.len |-> x[i]]
    BY <2>3
  <2>6. WvecRead(r, h) = x
    BY <2>2, <2>4, <2>5 DEF WvecRead
  <2>7. QED
    BY <1>1, <1>3, <1>4, <2>2, <2>6 DEF Read
<1>5. CASE e.kind = 2
  <2>1. PICK h, t : MapAt(r, own, id, o, h, t, x)
    BY <1>1, <1>2, <1>5, MapAtIs DEF Kept
  <2>2. h = g /\ r.mem[h.slots] = t /\ MapWords(r, own, t, h.vkind, x)
    BY <1>1, <2>1 DEF MapAt, Placed
  <2>3. /\ TableInv(t) /\ TableType(t) /\ x \in [KeysOf(t) -> Things] /\ HashAssumption
        /\ \A q, w : Holds(t, q, w) => Word(r, own, h.vkind, w, x[q])
    BY <2>2 DEF MapWords, TableInv, RegionAssumption
  <2>4. KeysOf(t) \subseteq Keys
    BY <2>3, TableFinite
  <2>5. {k \in Keys : FindEnds(t, k) /\ Slot(t, k) >= 0} = KeysOf(t)
    BY <2>3, <2>4, KeyFound
  <2>6. ASSUME NEW k \in KeysOf(t) PROVE Payload(r, h.vkind, t.s[Slot(t, k)].v) = x[k]
    <3>1. Holds(t, k, t.s[Slot(t, k)].v)
      BY <2>3, <2>4, KeyFound
    <3>2. Word(r, own, h.vkind, t.s[Slot(t, k)].v, x[k])
      BY <2>3, <3>1
    <3>3. QED
      BY <3>2, PayloadIs
  <2>7. x = [k \in KeysOf(t) |-> x[k]]
    BY <2>3
  <2>8. WmapRead(r, h) = [k \in KeysOf(t) |-> Payload(r, h.vkind, t.s[Slot(t, k)].v)]
    BY <2>2, <2>5 DEF WmapRead
  <2>9. WmapRead(r, h) = x
    BY <2>6, <2>7, <2>8
  <2>10. QED
    BY <1>1, <1>3, <1>5, <2>2, <2>9 DEF Read
<1>6. CASE e.kind = 3
  <2>1. PICK h, d, ks : RecAt(r, own, id, o, h, d, ks, x)
    BY <1>1, <1>2, <1>6, RecAtIs DEF Kept
  <2>2. h = g /\ r.mem[h.data] = d /\ r.mem[h.kinds] = ks /\ RecWords(r, own, h.n, d, ks, x)
    BY <1>1, <2>1 DEF RecAt, Placed
  <2>3. /\ x \in [SetFields(h.n, ks) -> Things]
        /\ \A i \in SetFields(h.n, ks) : Word(r, own, ks[i], d[i], x[i])
    BY <2>2 DEF RecWords
  <2>4. \A i \in SetFields(h.n, ks) : Payload(r, ks[i], d[i]) = x[i]
    BY <2>3, PayloadIs
  <2>5. x = [i \in SetFields(h.n, ks) |-> x[i]]
    BY <2>3
  <2>6. WrecRead(r, h) = [i \in SetFields(h.n, ks) |-> Payload(r, ks[i], d[i])]
    BY <2>2 DEF WrecRead, SetFields
  <2>7. WrecRead(r, h) = x
    BY <2>4, <2>5, <2>6
  <2>8. QED
    BY <1>1, <1>3, <1>6, <2>2, <2>7 DEF Read
<1>7. QED
  BY <1>2, <1>4, <1>5, <1>6 DEF Kept

(* A sound region is a faithful one.                                       *)
LEMMA SoundIsFaithful ==
    ASSUME RegionAssumption, NEW r, NEW own, NEW st, NEW n, n \in Nat, n = Len(st), Sound(r, own, st, n)
    PROVE  Faithful(r, st)
<1>1. r.tbl_len = n
  BY DEF Sound
<1>2. \A id \in 1 .. n : AccessOK(r, id) /\ Read(r, id) = st[id]
  BY AccessIs, ReadIs
<1>3. QED
  BY <1>1, <1>2 DEF Faithful

-----------------------------------------------------------------------------
(* The steps of a program on a world.                                      *)

(* What a container holds is made of what a program can put into one.      *)
LEMMA KeptContents ==
    ASSUME NEW r, NEW own, NEW id, NEW e, NEW x, Kept(r, own, id, e, x)
    PROVE  x \in Contents
<1>1. CASE e.kind = 1 /\ VecKept(r, own, id, e.off, x)
  <2>1. x \in Seq(Things)
    BY <1>1 DEF VecKept, VecWords
  <2>2. x \in [1 .. Len(x) -> Things] /\ 1 .. Len(x) \in SUBSET (Keys \cup Nat)
    BY <2>1
  <2>3. QED
    BY <2>2 DEF Contents
<1>2. CASE e.kind = 2 /\ MapKept(r, own, id, e.off, x)
  <2>1. PICK t : TableInv(t) /\ x \in [KeysOf(t) -> Things]
    BY <1>2 DEF MapKept, MapWords
  <2>2. KeysOf(t) \in SUBSET (Keys \cup Nat)
    BY <2>1, TableFinite DEF TableInv
  <2>3. QED
    BY <2>1, <2>2 DEF Contents
<1>3. CASE e.kind = 3 /\ RecKept(r, own, id, e.off, x)
  <2>1. PICK n, ks : x \in [SetFields(n, ks) -> Things]
    BY <1>3 DEF RecKept, RecWords
  <2>2. SetFields(n, ks) \in SUBSET (Keys \cup Nat)
    BY DEF SetFields
  <2>3. QED
    BY <2>1, <2>2 DEF Contents
<1>4. QED
  BY <1>1, <1>2, <1>3 DEF Kept

\* s is a sequence of length n.
Numbered(s, n) == n \in Nat /\ DOMAIN s = 1 .. n /\ s = [i \in DOMAIN s |-> s[i]]

(* The capacity and the mark of a region say nothing of what it holds.     *)
LEMMA MarkedIs ==
    ASSUME NEW r, NEW own, NEW st, NEW n, Sound(r, own, st, n), NEW c, NEW b,
           NEW s, s = [r EXCEPT !.cap = c, !.stale = b]
    PROVE  Sound(s, own, st, n)
<1>1. Base(r, own) /\ r.tbl_len = n /\ \A id \in 1 .. n : Kept(r, own, id, Entry(r, id), st[id])
  BY DEF Sound
<1>2. /\ s.used = r.used /\ s.mem = r.mem /\ s.tbl_off = r.tbl_off /\ s.tbl_len = r.tbl_len
      /\ s.tbl_cap = r.tbl_cap
      /\ s = [used |-> s.used, cap |-> s.cap, mem |-> s.mem,
              tbl_off |-> s.tbl_off, tbl_len |-> s.tbl_len, tbl_cap |-> s.tbl_cap, stale |-> s.stale]
  BY <1>1 DEF Base
<1>3. Base(s, own)
  BY <1>1, <1>2 DEF Base, Block
<1>4. Keeps(r, own, s, own, {})
  BY <1>1, <1>2 DEF Keeps, Base
<1>5. \A id \in 1 .. n : Kept(s, own, id, Entry(r, id), st[id])
  BY <1>1, <1>3, <1>4, KeptStays
<1>6. \A id : Entry(s, id) = Entry(r, id)
  BY <1>2 DEF Entry
<1>7. QED
  BY <1>1, <1>2, <1>3, <1>5, <1>6 DEF Sound

\* The region becomes s, and no freed header held anything else than it did.
Settles(s) == region' = [s EXCEPT !.stale = FALSE]

LEMMA BecomesSettles == ASSUME NEW r, Becomes(r), ~lost' PROVE Settles(r)
  BY DEF Becomes, Settles

(* A step to a region that holds the new store.                            *)
LEMMA SettlesHeld ==
    ASSUME NEW s, Settles(s), NEW st, NEW n, \E own : Sound(s, own, st, n)
    PROVE  \E own : Sound(region', own, st, n)
<1>1. PICK own : Sound(s, own, st, n)
  OBVIOUS
<1>2. PICK u : u = region' /\ u = [s EXCEPT !.stale = FALSE]
  BY DEF Settles
<1>3. u = [s EXCEPT !.cap = s.cap, !.stale = FALSE]
  <2>1. s = [used |-> s.used, cap |-> s.cap, mem |-> s.mem,
             tbl_off |-> s.tbl_off, tbl_len |-> s.tbl_len, tbl_cap |-> s.tbl_cap, stale |-> s.stale]
    BY <1>1 DEF Sound, Base
  <2>2. QED
    BY <1>2, <2>1
<1>4. Sound(u, own, st, n)
  BY <1>1, <1>3, MarkedIs
<1>5. QED
  BY <1>2, <1>4

(* A sound region keeps the invariant.                                     *)
LEMMA InvFrom ==
    ASSUME NEW n, Numbered(store', n), \E own : Sound(region', own, store', n)
    PROVE  Held'
<1>1. PICK r, st, own : r = region' /\ st = store' /\ Sound(r, own, st, n) /\ Numbered(st, n)
  OBVIOUS
<1>2. \A i \in 1 .. n : st[i] \in Contents
  <2>1. \A i \in 1 .. n : Kept(r, own, i, Entry(r, i), st[i])
    BY <1>1 DEF Sound
  <2>2. QED
    BY <2>1, KeptContents
<1>3. st \in [1 .. n -> Contents] /\ n \in Nat
  <2>1. DOMAIN st = 1 .. n /\ st = [i \in DOMAIN st |-> st[i]] /\ n \in Nat
    BY <1>1 DEF Numbered
  <2>2. st = [i \in 1 .. n |-> st[i]]
    BY <2>1
  <2>3. QED
    BY <1>2, <2>1, <2>2
<1>4. st \in Seq(Contents) /\ Len(st) = n
  <2>1. st \in Seq(Contents)
    BY <1>3
  <2>2. QED
    BY <1>3, <2>1
<1>5. QED
  BY <1>1, <1>4 DEF Held

(* A sequence is a function.                                               *)
LEMMA SeqIs ==
    ASSUME NEW S, NEW s, s \in Seq(S), NEW m, m = Len(s)
    PROVE  Numbered(s, m)
  BY DEF Numbered

(* A container more.                                                       *)
LEMMA AddStore ==
    ASSUME NEW r, NEW own, NEW st, st \in Seq(Contents), NEW n, n = Len(st), Sound(r, own, st, n),
           NEW id, id = n + 1, NEW st2, st2 = Append(st, << >>)
    PROVE  Sound(r, own, st2, n) /\ st2[id] = << >> /\ Numbered(st2, id) /\ n \in Nat
<1>1. n \in Nat /\ id \in Nat /\ st2[id] = << >> /\ \A i \in 1 .. n : st2[i] = st[i]
  OBVIOUS
<1>2. st2 \in Seq(Contents) /\ Len(st2) = id
  <2>1. PICK e : e = << >>
    OBVIOUS
  <2>2. e \in Seq(Things) /\ Len(e) = 0
    BY <2>1
  <2>3. e \in [1 .. 0 -> Things] /\ 1 .. 0 \in SUBSET (Keys \cup Nat)
    BY <2>2
  <2>4. e \in Contents
    BY <2>3 DEF Contents
  <2>5. QED
    BY <2>1, <2>4
<1>3. Numbered(st2, id)
  BY <1>2, SeqIs
<1>4. Sound(r, own, st2, n)
  BY <1>1 DEF Sound
<1>5. QED
  BY <1>1, <1>3, <1>4

(* A container changes.                                                    *)
LEMMA SetStore ==
    ASSUME NEW st, st \in Seq(Contents), NEW n, n = Len(st), NEW id, id \in 1 .. n, NEW x,
           NEW st2, st2 = [st EXCEPT ![id] = x]
    PROVE  Now(st, st2, n, id, x) /\ Numbered(st2, n) /\ n \in Nat
<1>1. n \in Nat /\ DOMAIN st = 1 .. n
  OBVIOUS
<1>2. st2[id] = x /\ \A i \in 1 .. n : i # id => st2[i] = st[i]
  BY <1>1
<1>3. DOMAIN st2 = 1 .. n /\ st2 = [i \in DOMAIN st2 |-> st2[i]]
  BY <1>1
<1>4. QED
  BY <1>1, <1>2, <1>3 DEF Now, Numbered

(* wvec_new, wmap_new and wrec_new.                                        *)
LEMMA NewStep ==
    ASSUME RegionAssumption, Held, ~lost', AddVec \/ AddMap \/ \E c \in 1..MaxFields : AddRec(c)
    PROVE  Held'
<1>1. PICK own : Sound(region, own, store, Len(store)) /\ store \in Seq(Contents)
  BY DEF Held
<1>2. PICK n, r, st0, st, id : /\ r = region /\ st0 = store /\ st = store' /\ n = Len(st0) /\ id = n + 1
  OBVIOUS
<1>3. Sound(r, own, st, n) /\ st[id] = << >> /\ Numbered(st, id) /\ n \in Nat /\ id = n + 1
  <2>1. st = Append(st0, << >>)
    <3>1. store' = Append(store, << >>)
      BY DEF AddVec, AddMap, AddRec, Mutate
    <3>2. QED
      BY <1>2, <3>1
  <2>2. Sound(r, own, st0, n) /\ st0 \in Seq(Contents) /\ n = Len(st0) /\ id = n + 1
    BY <1>1, <1>2
  <2>3. QED
    BY <1>2, <2>1, <2>2, AddStore
<1>4. \E own2 : Sound(region', own2, st, id)
  <2>1. CASE AddVec
    <3>1. PICK s : s = WvecNew(r) /\ Settles(s)
      <4>1. Becomes(WvecNew(r))
        BY <1>2, <2>1 DEF AddVec, Mutate
      <4>2. QED
        BY <4>1, BecomesSettles
    <3>2. \E own2 : Sound(s, own2, st, id)
      BY <1>3, <3>1, NewVecIs
    <3>3. QED
      BY <3>1, <3>2, SettlesHeld
  <2>2. CASE AddMap
    <3>1. PICK s : s = WmapNew(r) /\ Settles(s)
      <4>1. Becomes(WmapNew(r))
        BY <1>2, <2>2 DEF AddMap, Mutate
      <4>2. QED
        BY <4>1, BecomesSettles
    <3>2. \E own2 : Sound(s, own2, st, id)
      BY <1>3, <3>1, NewMapIs
    <3>3. QED
      BY <3>1, <3>2, SettlesHeld
  <2>3. CASE \E c \in 1..MaxFields : AddRec(c)
    <3>1. PICK c : c \in 1..MaxFields /\ AddRec(c)
      BY <2>3
    <3>2. PICK s : s = WrecNew(r, c) /\ Settles(s)
      <4>1. Becomes(WrecNew(r, c))
        BY <1>2, <3>1 DEF AddRec, Mutate
      <4>2. QED
        BY <4>1, BecomesSettles
    <3>3. c \in Nat \ {0}
      BY <3>1 DEF RegionAssumption
    <3>4. \E own2 : Sound(s, own2, st, id)
      BY <1>3, <3>2, <3>3, NewRecIs
    <3>5. QED
      BY <3>2, <3>4, SettlesHeld
  <2>4. QED
    BY <2>1, <2>2, <2>3
<1>5. QED
  BY <1>2, <1>3, <1>4, InvFrom

(* What is put into a container.                                           *)
LEMMA ValuesIs ==
    ASSUME RegionAssumption, NEW kind, kind \in 1 .. 3, NEW x, x \in ValuesOf(kind)
    PROVE  x \in Things /\ (kind = 1 => x \in Int)
  BY DEF RegionAssumption, ValuesOf, Things

(* wvec_push.                                                              *)
LEMMA PushVecStep ==
    ASSUME RegionAssumption, Held, ~lost', NEW id, id \in Ids(1), NEW kind, kind \in 1 .. 3,
           NEW x, x \in ValuesOf(kind), PushVec(id, kind, x)
    PROVE  Held'
<1>1. PICK own : Sound(region, own, store, Len(store)) /\ store \in Seq(Contents)
  BY DEF Held
<1>2. PICK n, r, st0, st, y : /\ r = region /\ st0 = store /\ st = store' /\ n = Len(st0)
                              /\ y = Append(st0[id], x)
  OBVIOUS
<1>3. /\ id \in 1 .. n /\ Entry(r, id).kind = 1 /\ Sound(r, own, st0, n) /\ st0 \in Seq(Contents)
  BY <1>1, <1>2 DEF Ids, Sound
<1>4. Now(st0, st, n, id, y) /\ Numbered(st, n) /\ n \in Nat
  <2>1. store' = [store EXCEPT ![id] = Append(store[id], x)]
    BY DEF PushVec, Mutate
  <2>2. st = [st0 EXCEPT ![id] = y]
    BY <1>2, <2>1
  <2>3. QED
    BY <1>2, <1>3, <2>2, SetStore
<1>5. /\ Becomes(WvecPush(r, id, kind, x)) /\ Header(r, id).ekind \in {0, kind}
      /\ x \in Things /\ (kind = 1 => x \in Int)
  BY <1>2, ValuesIs DEF PushVec, Mutate
<1>6. \E own2 : Sound(region', own2, st, n)
  <2>1. PICK s : s = WvecPush(r, id, kind, x) /\ Settles(s)
    BY <1>5, BecomesSettles
  <2>2. Now(st0, st, n, id, Append(st0[id], x))
    BY <1>2, <1>4
  <2>3. /\ n \in Nat /\ Sound(r, own, st0, n) /\ id \in 1 .. n /\ Entry(r, id).kind = 1
        /\ kind \in 1 .. 3 /\ Header(r, id).ekind \in {0, kind} /\ x \in Things /\ (kind = 1 => x \in Int)
    BY <1>3, <1>4, <1>5
  <2>4. \E own2 : Sound(s, own2, st, n)
    BY <2>1, <2>2, <2>3, PushIs
  <2>5. QED
    BY <2>1, <2>4, SettlesHeld
<1>7. QED
  BY <1>2, <1>4, <1>6, InvFrom

(* wmap_set.                                                               *)
LEMMA SetMapStep ==
    ASSUME RegionAssumption, Held, ~lost', NEW id, id \in Ids(2), NEW kind, kind \in 1 .. 2,
           NEW k, k \in Keys, NEW x, x \in ValuesOf(kind), SetMap(id, k, kind, x)
    PROVE  Held'
<1>1. PICK own : Sound(region, own, store, Len(store)) /\ store \in Seq(Contents)
  BY DEF Held
<1>2. PICK n, r, st0, st, y : /\ r = region /\ st0 = store /\ st = store' /\ n = Len(st0)
                              /\ y = WithKey(st0[id], k, x)
  OBVIOUS
<1>3. /\ id \in 1 .. n /\ Entry(r, id).kind = 2 /\ Sound(r, own, st0, n) /\ st0 \in Seq(Contents)
  BY <1>1, <1>2 DEF Ids, Sound
<1>4. Now(st0, st, n, id, y) /\ Numbered(st, n) /\ n \in Nat
  <2>1. store' = [store EXCEPT ![id] = WithKey(store[id], k, x)]
    BY DEF SetMap, Mutate
  <2>2. st = [st0 EXCEPT ![id] = y]
    BY <1>2, <2>1
  <2>3. QED
    BY <1>2, <1>3, <2>2, SetStore
<1>5. /\ Becomes(WmapSet(r, id, k, kind, x)) /\ Header(r, id).vkind \in {0, kind} /\ SetEnds(r, id, k)
      /\ x \in Things /\ (kind = 1 => x \in Int) /\ HashAssumption
  BY <1>2, ValuesIs DEF SetMap, Mutate, RegionAssumption
<1>6. \E own2 : Sound(region', own2, st, n)
  <2>1. PICK s : s = WmapSet(r, id, k, kind, x) /\ Settles(s)
    BY <1>5, BecomesSettles
  <2>2. Now(st0, st, n, id, WithKey(st0[id], k, x))
    BY <1>2, <1>4
  <2>3. /\ n \in Nat /\ Sound(r, own, st0, n) /\ id \in 1 .. n /\ Entry(r, id).kind = 2
        /\ kind \in 1 .. 2 /\ Header(r, id).vkind \in {0, kind} /\ SetEnds(r, id, k)
        /\ x \in Things /\ (kind = 1 => x \in Int) /\ HashAssumption
    BY <1>3, <1>4, <1>5
  <2>4. \E own2 : Sound(s, own2, st, n)
    BY <2>1, <2>2, <2>3, SetIs
  <2>5. QED
    BY <2>1, <2>4, SettlesHeld
<1>7. QED
  BY <1>2, <1>4, <1>6, InvFrom

(* wmap_del.                                                               *)
LEMMA DelMapStep ==
    ASSUME RegionAssumption, Held, ~lost', NEW id, id \in Ids(2),
           NEW k, k \in Keys, DelMap(id, k)
    PROVE  Held'
<1>1. PICK own : Sound(region, own, store, Len(store)) /\ store \in Seq(Contents)
  BY DEF Held
<1>2. PICK n, r, st0, st, y : /\ r = region /\ st0 = store /\ st = store' /\ n = Len(st0)
                              /\ y = Restrict(st0[id], DOMAIN st0[id] \ {k})
  OBVIOUS
<1>3. /\ id \in 1 .. n /\ Entry(r, id).kind = 2 /\ Sound(r, own, st0, n) /\ st0 \in Seq(Contents)
  BY <1>1, <1>2 DEF Ids, Sound
<1>4. Now(st0, st, n, id, y) /\ Numbered(st, n) /\ n \in Nat
  <2>1. store' = [store EXCEPT ![id] = Restrict(store[id], DOMAIN store[id] \ {k})]
    BY DEF DelMap, Mutate
  <2>2. st = [st0 EXCEPT ![id] = y]
    BY <1>2, <2>1
  <2>3. QED
    BY <1>2, <1>3, <2>2, SetStore
<1>5. Becomes(WmapDel(r, id, k)) /\ FindEnds(WmapTable(r, id), k) /\ HashAssumption
  BY <1>2 DEF DelMap, Mutate, RegionAssumption
<1>6. \E own2 : Sound(region', own2, st, n)
  <2>1. PICK s : s = WmapDel(r, id, k) /\ Settles(s)
    BY <1>5, BecomesSettles
  <2>2. Now(st0, st, n, id, Restrict(st0[id], DOMAIN st0[id] \ {k}))
    BY <1>2, <1>4
  <2>3. \E own2 : Sound(s, own2, st, n)
    BY <1>3, <1>4, <1>5, <2>1, <2>2, DelIs
  <2>4. QED
    BY <2>1, <2>3, SettlesHeld
<1>7. QED
  BY <1>2, <1>4, <1>6, InvFrom

(* wrec_set.                                                               *)
LEMMA SetRecStep ==
    ASSUME RegionAssumption, Held, ~lost', NEW id, id \in Ids(3), NEW kind, kind \in 1 .. 3,
           NEW i, i \in 1..MaxFields, NEW x, x \in ValuesOf(kind), SetRec(id, i, kind, x)
    PROVE  Held'
<1>1. PICK own : Sound(region, own, store, Len(store)) /\ store \in Seq(Contents)
  BY DEF Held
<1>2. PICK n, r, st0, st, y : /\ r = region /\ st0 = store /\ st = store' /\ n = Len(st0)
                              /\ y = WithKey(st0[id], i, x)
  OBVIOUS
<1>3. /\ id \in 1 .. n /\ Entry(r, id).kind = 3 /\ Sound(r, own, st0, n) /\ st0 \in Seq(Contents)
  BY <1>1, <1>2 DEF Ids, Sound
<1>4. Now(st0, st, n, id, y) /\ Numbered(st, n) /\ n \in Nat
  <2>1. store' = [store EXCEPT ![id] = WithKey(store[id], i, x)]
    BY DEF SetRec, Mutate
  <2>2. st = [st0 EXCEPT ![id] = y]
    BY <1>2, <2>1
  <2>3. QED
    BY <1>2, <1>3, <2>2, SetStore
<1>5. /\ Becomes(WrecSet(r, id, i, kind, x)) /\ i \in Int /\ 1 <= i /\ i <= Header(r, id).n
      /\ x \in Things /\ (kind = 1 => x \in Int)
  BY <1>2, ValuesIs DEF SetRec, Mutate, RegionAssumption
<1>6. \E own2 : Sound(region', own2, st, n)
  <2>1. PICK s : s = WrecSet(r, id, i, kind, x) /\ Settles(s)
    BY <1>5, BecomesSettles
  <2>2. Now(st0, st, n, id, y) /\ y = WithKey(st0[id], i, x)
    BY <1>2, <1>4
  <2>3. n \in Nat /\ Sound(r, own, st0, n) /\ id \in 1 .. n /\ Entry(r, id).kind = 3
    BY <1>3, <1>4
  <2>4. Header(r, id).n \in Nat
    <3>1. PICK e, o, x0 : e = Entry(r, id) /\ o = e.off /\ x0 = st0[id] /\ Kept(r, own, id, e, x0)
      BY <2>3, OneOf
    <3>2. RecKept(r, own, id, o, x0)
      BY <2>3, <3>1 DEF Kept
    <3>3. RecHeader(r.mem[o])
      BY <3>2 DEF RecKept
    <3>4. QED
      BY <3>1, <3>3 DEF Header, RecHeader
  <2>5. FieldOf(r, n, id, i) /\ n \in Nat /\ Sound(r, own, st0, n)
    BY <1>5, <2>3, <2>4 DEF FieldOf
  <2>6. ValueOf(kind, x)
    BY <1>5 DEF ValueOf
  <2>7. \E own2 : Sound(s, own2, st, n)
    BY <2>1, <2>2, <2>5, <2>6, RecSetIs
  <2>8. QED
    BY <2>1, <2>7, SettlesHeld
<1>7. QED
  BY <1>2, <1>4, <1>6, InvFrom

(* The images of a region hold what the region holds.                      *)
LEMMA ImagesAre ==
    ASSUME RegionAssumption, NEW own, NEW n, n \in Nat, Sound(region, own, store, n),
           NEW img, img \in Images
    PROVE  \E own2 : Sound(img, own2, store, n)
<1>1. img = region \/ img = CompactBuild(region)
  BY DEF Images
<1>2. PICK r, st : r = region /\ st = store
  OBVIOUS
<1>3. Sound(r, own, st, n)
  BY <1>2
<1>4. \A s : s = CompactBuild(r) => \E own2 : Sound(s, own2, st, n)
  BY <1>3, CompactIs
<1>5. QED
  BY <1>1, <1>2, <1>3, <1>4

(* world_compact and world_load.                                           *)
LEMMA ImageStep ==
    ASSUME RegionAssumption, Held, ~lost', WorldCompact \/ \E img \in Images : WorldLoad(img)
    PROVE  Held'
<1>1. PICK own, n : Sound(region, own, store, n) /\ store \in Seq(Contents) /\ n = Len(store)
  BY DEF Held
<1>2. Numbered(store, n) /\ n \in Nat
  BY <1>1, SeqIs DEF Numbered
<1>3. store' = store
  BY DEF WorldCompact, Mutate, WorldLoad
<1>4. \E own2 : Sound(region', own2, store, n)
  <2>1. CASE WorldCompact
    <3>1. PICK s : s = CompactBuild(region) /\ Settles(s)
      BY <2>1, BecomesSettles DEF WorldCompact, Mutate
    <3>2. s \in Images
      BY <3>1 DEF Images
    <3>3. \E own2 : Sound(s, own2, store, n)
      BY <1>1, <1>2, <3>2, ImagesAre
    <3>4. QED
      BY <3>1, <3>3, SettlesHeld
  <2>2. CASE \E img \in Images : WorldLoad(img)
    <3>1. PICK img \in Images : \E c : Becomes([img EXCEPT !.cap = c])
      BY <2>2 DEF WorldLoad
    <3>2. PICK c : Becomes([img EXCEPT !.cap = c])
      BY <3>1
    <3>3. PICK own2 : Sound(img, own2, store, n)
      BY <1>1, <1>2, ImagesAre
    <3>4. region' = [[img EXCEPT !.cap = c] EXCEPT !.stale = FALSE]
      BY <3>2 DEF Becomes
    <3>5. region' = [img EXCEPT !.cap = c, !.stale = FALSE]
      <4>1. img = [used |-> img.used, cap |-> img.cap, mem |-> img.mem, tbl_off |-> img.tbl_off,
                   tbl_len |-> img.tbl_len, tbl_cap |-> img.tbl_cap, stale |-> img.stale]
        BY <3>3 DEF Sound, Base
      <4>2. QED
        BY <3>4, <4>1
    <3>6. PICK u : u = region' /\ u = [img EXCEPT !.cap = c, !.stale = FALSE]
      BY <3>5
    <3>7. Sound(u, own2, store, n)
      BY <3>3, <3>6, MarkedIs
    <3>8. QED
      BY <3>6, <3>7
  <2>3. QED
    BY <2>1, <2>2
<1>5. QED
  BY <1>2, <1>3, <1>4, InvFrom

(* A world begins with an empty region.                                    *)
LEMMA RegionInvInit == RegionInit => RegionInv
<1> SUFFICES ASSUME RegionInit PROVE RegionInv
  OBVIOUS
<1>1. region = NewRegion(RegionCap) /\ store = << >>
  BY DEF RegionInit
<1>2. \E own : Sound(region, own, store, 0)
  BY <1>1, NewRegionIs
<1>3. store \in Seq(Contents) /\ Len(store) = 0
  BY <1>1
<1>4. QED
  BY <1>2, <1>3 DEF RegionInv, Held

(* Every operation of a program on a world keeps the invariant.            *)
LEMMA RegionInvNext ==
    ASSUME RegionAssumption PROVE RegionInv /\ [RegionNext]_regionVars => RegionInv'
<1> SUFFICES ASSUME RegionInv, [RegionNext]_regionVars, ~lost' PROVE Held'
  BY DEF RegionInv
<1>1. CASE UNCHANGED regionVars
  BY <1>1 DEF RegionInv, Held, regionVars
<1> SUFFICES ASSUME RegionNext PROVE Held'
  BY <1>1
<1> Held
  <2>1. ~lost
    BY DEF RegionNext
  <2>2. QED
    BY <2>1 DEF RegionInv
<1>2. CASE AddVec \/ AddMap \/ \E n \in 1..MaxFields : AddRec(n)
  BY <1>2, NewStep
<1>3. CASE \E id \in Ids(1), kind \in 1..3 : \E x \in ValuesOf(kind) : PushVec(id, kind, x)
  BY <1>3, PushVecStep
<1>4. CASE \E id \in Ids(2), k \in Keys, kind \in 1..2 : \E x \in ValuesOf(kind) : SetMap(id, k, kind, x)
  BY <1>4, SetMapStep
<1>5. CASE \E id \in Ids(2), k \in Keys : DelMap(id, k)
  BY <1>5, DelMapStep
<1>6. CASE \E id \in Ids(3), i \in 1..MaxFields, kind \in 1..3 : \E x \in ValuesOf(kind) : SetRec(id, i, kind, x)
  BY <1>6, SetRecStep
<1>7. CASE WorldCompact \/ \E img \in Images : WorldLoad(img)
  BY <1>7, ImageStep
<1>8. CASE WorldFreeze
  BY <1>8 DEF WorldFreeze, Held
<1>9. QED
  BY <1>2, <1>3, <1>4, <1>5, <1>6, <1>7, <1>8 DEF RegionNext

(* A region, the region that world_compact builds from it and the images   *)
(* of both hold what the program stored: the ids that wvec_new, wmap_new   *)
(* and wrec_new gave out still name the same containers after any growth,  *)
(* compaction and load, and no access is refused.  wtbl_grow reads a       *)
(* header that a move has freed, and nothing is assumed of what it finds:  *)
(* all this is so up to the first such read that finds something else      *)
(* than the old header.                                                    *)
THEOREM RegionIsFaithful ==
    ASSUME RegionAssumption PROVE RegionSpec => []RegionFaithful
<1>1. RegionInv => RegionFaithful
  <2> SUFFICES ASSUME Held PROVE ContentsKept /\ ImagesFaithful
    BY DEF RegionInv, RegionFaithful
  <2>1. PICK own, n : Sound(region, own, store, n) /\ n = Len(store) /\ n \in Nat
    BY DEF Held
  <2>2. ASSUME NEW img \in Images PROVE Faithful(img, store)
    <3>1. PICK own2 : Sound(img, own2, store, n)
      BY <2>1, ImagesAre
    <3>2. QED
      BY <2>1, <3>1, SoundIsFaithful
  <2>3. region \in Images
    BY DEF Images
  <2>4. QED
    BY <2>2, <2>3 DEF ContentsKept, ImagesFaithful
<1>2. QED
  BY RegionInvInit, RegionInvNext, <1>1, PTL DEF RegionSpec
=============================================================================

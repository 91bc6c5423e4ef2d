----------------------------- MODULE OpenTable -----------------------------
(***************************************************************************)
(* The open-addressing table with tombstones that the world cache          *)
(* (baga_wc_put) and the maps of a world (baga_wm_insert) share.  A slot's *)
(* state st is 0 (empty), 1 (live) or 2 (tombstone); n counts live slots.  *)
(* A probe is a loop without a counter: it ends at the first empty slot or *)
(* at the slot of its key, and does not end at all when there is neither.  *)
(***************************************************************************)
EXTENDS Integers, SequencesExt

CONSTANTS Keys,
          Hash   \* baga_wc_h, a function on the keys

HashAssumption == Hash \in [Keys -> Int]

\* The function d with v for k.
WithKey(d, k, v) == [q \in DOMAIN d \cup {k} |-> IF q = k THEN v ELSE d[q]]

Vacant == [st |-> 0, k |-> 0, v |-> 0]

NewTable(cap) == [n |-> 0, cap |-> cap, s |-> [i \in 0..(cap - 1) |-> Vacant]]

\* The j-th slot that the probe for k looks at.
Spot(t, k, j) == (Hash[k] + j) % t.cap

Halts(t, k) == {j \in 0..(t.cap - 1) :
                  LET e == t.s[Spot(t, k, j)]
                  IN  e.st = 0 \/ (e.st = 1 /\ e.k = k)}

ProbeEnds(t, k) == Halts(t, k) # {}

\* baga_wc_find does not probe a table without entries.
FindEnds(t, k) == t.n = 0 \/ ProbeEnds(t, k)

Store(t, i, e) == [t EXCEPT !.s[i] = e]

\* Past tombstones to the key or to an empty slot; a new key goes to the first
\* tombstone on the way.
Insert(t, k, v) ==
    LET j     == Min(Halts(t, k))
        holes == {h \in 0..(j - 1) : t.s[Spot(t, k, h)].st = 2}
        new   == [st |-> 1, k |-> k, v |-> v]
    IN  IF t.s[Spot(t, k, j)].st = 1
        THEN Store(t, Spot(t, k, j), new)
        ELSE [Store(t, Spot(t, k, IF holes = {} THEN j ELSE Min(holes)), new)
                 EXCEPT !.n = t.n + 1]

Live(t) == {i \in 0..(t.cap - 1) : t.s[i].st = 1}

\* The live entries, put one by one into an empty table of capacity cap.
Rehash(t, cap) ==
    LET moved[i \in 0..t.cap] ==
            IF i = 0 THEN NewTable(cap)
            ELSE IF t.s[i - 1].st = 1 THEN Insert(moved[i - 1], t.s[i - 1].k, t.s[i - 1].v)
            ELSE moved[i - 1]
    IN  moved[t.cap]

\* The table doubles before a put that could bring the load above 3/4.
Roomy(t) == IF (t.n + 1) * 4 > t.cap * 3 THEN Rehash(t, t.cap * 2) ELSE t

Put(t, k, v) == Insert(Roomy(t), k, v)

Slot(t, k) == IF t.n = 0 THEN -1
              ELSE LET i == Spot(t, k, Min(Halts(t, k)))
                   IN  IF t.s[i].st = 1 THEN i ELSE -1

\* Mutant: a deleted slot becomes empty again.
DeleteToEmpty(t, k) ==
    LET i == Slot(t, k)
    IN  IF i < 0 THEN t ELSE [Store(t, i, Vacant) EXCEPT !.n = t.n - 1]

Delete(t, k) ==
    LET i == Slot(t, k)
    IN  IF i < 0 THEN t ELSE [t EXCEPT !.s[i].st = 2, !.n = t.n - 1]
=============================================================================

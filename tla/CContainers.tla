---------------------------- MODULE CContainers ----------------------------
(***************************************************************************)
(* Vectors and maps of the C backend under --rc: the helper functions that *)
(* codegen_api.c emits, as functions from heaps to heaps.  The blocks come *)
(* from baga_alloc, so one freed is one put on a freelist.                 *)
(***************************************************************************)
EXTENDS RcHeap

Retain(h, o) ==
    IF o \in {0, Null} THEN h
    ELSE [h EXCEPT !.rc[o] = @ + 1, !.err = @ \/ h.rc[o] = 0]

Release(h, o) ==
    IF o \in {0, Null} THEN h
    ELSE IF h.rc[o] = 0 THEN [h EXCEPT !.err = TRUE]
    ELSE [h EXCEPT !.rc[o] = @ - 1]

VecNew(h, v, kind) ==
    [h EXCEPT !.vec[v] = [rc |-> 1, kind |-> kind, len |-> 0, cap |-> Cap0,
                          data |-> [i \in 0..(Cap0 - 1) |-> Null]],
              !.cells = @ + 2]

\* alloc, memcpy, free of the old array: one block replaces another.
Grow(h, v) ==
    LET w == h.vec[v]
    IN  IF w.len < w.cap THEN h
        ELSE [h EXCEPT !.vec[v].cap = 2 * w.cap,
                       !.vec[v].data = [i \in 0..(2 * w.cap - 1) |->
                                          IF i < w.len THEN w.data[i] ELSE Null]]

\* baga_vec_push_T_move, and the end of every push.
PushMove(h, v, x) ==
    LET g == Grow(h, v)
    IN  [g EXCEPT !.vec[v].data[g.vec[v].len] = x,
                  !.vec[v].len = @ + 1,
                  !.cells = @ + (IF Boxed(g.vec[v].kind) THEN 1 ELSE 0)]

\* The reference that a container takes to an element of its own.
Own(h, kind, x) ==
    CASE kind = "i64" -> h
      [] kind = "vec" -> IF h.vec[x] = Null THEN [h EXCEPT !.err = TRUE]
                         ELSE [h EXCEPT !.vec[x].rc = @ + 1]
      [] OTHER        -> Retain(h, x)

Push(h, v, x) == PushMove(Own(h, h.vec[v].kind, x), v, x)

\* baga_rc_release_vec with elem_kind 0.
ReleaseFlat(h, v) ==
    IF h.vec[v] = Null THEN [h EXCEPT !.err = TRUE]
    ELSE IF h.vec[v].rc > 1 THEN [h EXCEPT !.vec[v].rc = @ - 1]
    ELSE [h EXCEPT !.vec[v] = Null, !.cells = @ - 2]

Disown(h, kind, x) ==
    CASE kind = "i64" -> h
      [] kind = "vec" -> ReleaseFlat(h, x)
      [] OTHER        -> Release(h, x)

\* baga_vec_set_T_move.
SetMove(h, v, i, x) ==
    [Disown(h, h.vec[v].kind, h.vec[v].data[i]) EXCEPT !.vec[v].data[i] = x]

\* Mutant: the old element is released before the new one is retained.
SetReleaseFirst(h, v, i, x) ==
    LET kind == h.vec[v].kind
        g    == Disown(h, kind, h.vec[v].data[i])
    IN  [Own(g, kind, x) EXCEPT !.vec[v].data[i] = x]

\* Retain the new element, then release the old one: they may be the same.
Set(h, v, i, x) == SetMove(Own(h, h.vec[v].kind, x), v, i, x)

PushAll(h, v, s) == FoldLeft(LAMBDA g, x : Push(g, v, x), h, s)

\* The bounds are clamped, never an error.
Slice(h, r, v, a, b) ==
    LET w  == h.vec[v]
        lo == IF a < 0 THEN 0 ELSE a
        hi == IF b > w.len THEN w.len ELSE b
    IN  PushAll(VecNew(h, r, w.kind), r, SubSeq(Elems(w), lo + 1, hi))

Concat(h, r, v, w) ==
    PushAll(VecNew(h, r, h.vec[v].kind), r, Elems(h.vec[v]) \o Elems(h.vec[w]))

ReleaseVec(h, v) ==
    LET w == h.vec[v]
    IN  IF w = Null \/ w.rc > 1 THEN ReleaseFlat(h, v)
        ELSE LET g == FoldLeft(LAMBDA u, x : Disown(u, w.kind, x), h, Elems(w))
             IN  [g EXCEPT !.vec[v] = Null,
                           !.cells = @ - 2 - (IF Boxed(w.kind) THEN w.len ELSE 0)]

-----------------------------------------------------------------------------

Buckets(nb) == [i \in 0..(nb - 1) |-> << >>]

MapNew(h, kk, vk) ==
    [h EXCEPT !.map = [rc |-> 1, kk |-> kk, vk |-> vk, nb |-> Nb0, len |-> 0,
                       b |-> Buckets(Nb0)],
              !.cells = @ + 2]

\* Bucket by bucket, each entry at the head of its new chain.
Rehash(m) ==
    FoldLeft(LAMBDA n, e : [n EXCEPT !.b[Bucket(n, e.k)] = <<e>> \o @],
             [m EXCEPT !.nb = 2 * @, !.b = Buckets(2 * m.nb)], Entries(m))

OwnKey(h, k) == IF h.map.kk = "i64" THEN h ELSE Retain(h, k)

DisownKey(h, k) == IF h.map.kk = "i64" THEN h ELSE Release(h, k)

\* baga_map_put and baga_map_put_b: the key is retained first and released
\* when the entry is there already; a new entry ends its chain.
MapPut(h, k) ==
    LET g == OwnKey(h, k)
        m == g.map
        n == [m EXCEPT !.len = @ + 1,
                       !.b[Bucket(m, k)] = Append(@, [k |-> k, v |-> Null])]
    IN  IF Place(m, k) # 0 THEN DisownKey(g, k)
        ELSE [g EXCEPT !.map = IF n.len * 4 > n.nb * 3 THEN Rehash(n) ELSE n,
                       !.cells = @ + 1]

\* Over the entry's old value; the box of a struct is allocated once.
StoreValue(h, k, x) ==
    LET m   == h.map
        old == Lookup(m, k)
        g   == IF old = Null THEN h ELSE Disown(h, m.vk, old)
    IN  [g EXCEPT !.map.b[Bucket(m, k)][Place(m, k)].v = x,
                  !.cells = @ + (IF m.vk = "box" /\ old = Null THEN 1 ELSE 0)]

MapSetMove(h, k, x) == StoreValue(MapPut(h, k), k, x)

MapSet(h, k, x) == StoreValue(Own(MapPut(h, k), h.map.vk, x), k, x)

\* baga_map_del_K, and baga_map_del_K_rc for a struct value.
MapDel(h, k) ==
    LET m == h.map
        p == Place(m, k)
        e == m.b[Bucket(m, k)][p]
        g == Disown(DisownKey(h, e.k), m.vk, e.v)
    IN  IF p = 0 THEN h
        ELSE [g EXCEPT !.map.b[Bucket(m, k)] = RemoveAt(@, p),
                       !.map.len = @ - 1,
                       !.cells = @ - (IF m.vk = "box" THEN 2 ELSE 1)]

MapKeys(h, r) ==
    LET es == Entries(h.map)
    IN  PushAll(VecNew(h, r, h.map.kk), r, [i \in 1..Len(es) |-> es[i].k])

ReleaseMap(h) ==
    LET m == h.map
        g == FoldLeft(LAMBDA u, e : Disown(DisownKey(u, e.k), m.vk, e.v), h, Entries(m))
    IN  IF m = Null THEN [h EXCEPT !.err = TRUE]
        ELSE IF m.rc > 1 THEN [h EXCEPT !.map.rc = @ - 1]
        ELSE [g EXCEPT !.map = Null,
                       !.cells = @ - 2 - m.len * (IF m.vk = "box" THEN 2 ELSE 1)]

\* The blocks that the containers of h consist of.
CellsOf(h) ==
    LET V(v) == IF h.vec[v] = Null THEN 0
                ELSE 2 + (IF Boxed(h.vec[v].kind) THEN h.vec[v].len ELSE 0)
        M    == IF h.map = Null THEN 0
                ELSE 2 + h.map.len * (IF h.map.vk = "box" THEN 2 ELSE 1)
    IN  FoldSet(LAMBDA v, n : n + V(v), M, Vecs)
=============================================================================

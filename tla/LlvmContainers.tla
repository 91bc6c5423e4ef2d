--------------------------- MODULE LlvmContainers ---------------------------
(***************************************************************************)
(* Vectors and maps of the LLVM backend under --rc: the functions that     *)
(* codegen_llvm_vec.c, codegen_llvm_map.c and codegen_llvm_drop.c build,   *)
(* with the retains and releases that the call sites in                    *)
(* codegen_llvm_expr.c put around them.  It is a port of CContainers; the  *)
(* places where it does otherwise are marked.  Bucket arrays are not       *)
(* counted in cells: baga_map_rehash leaves the old one behind.            *)
(***************************************************************************)
EXTENDS RcHeap

\* baga_rc_retain: rc++ if there is a header.
Retain(h, o) ==
    IF o \in {0, Null} THEN h
    ELSE [h EXCEPT !.rc[o] = @ + 1, !.err = @ \/ h.rc[o] = 0]

\* baga_rc_release_str and baga_rc_release_bytes.
Release(h, o) ==
    IF o \in {0, Null} THEN h
    ELSE IF h.rc[o] = 0 THEN [h EXCEPT !.err = TRUE]
    ELSE [h EXCEPT !.rc[o] = @ - 1]

VecNew(h, v, kind) ==
    [h EXCEPT !.vec[v] = [rc |-> 1, kind |-> kind, len |-> 0, cap |-> Cap0,
                          data |-> [i \in 0..(Cap0 - 1) |-> Null]],
              !.cells = @ + 2]

Grow(h, v) ==
    LET w == h.vec[v]
    IN  IF w.len # w.cap THEN h
        ELSE [h EXCEPT !.vec[v].cap = 2 * w.cap,
                       !.vec[v].data = [i \in 0..(2 * w.cap - 1) |->
                                          IF i < w.len THEN w.data[i] ELSE Null]]

\* vec_push_slot and the store of an element that is not boxed.
PushSlot(h, v, x) ==
    LET g == Grow(h, v)
    IN  [g EXCEPT !.vec[v].data[g.vec[v].len] = x, !.vec[v].len = @ + 1]

\* baga_vec_push_box: the copy shares what the element points to.
PushBox(h, v, x) ==
    LET g == Grow(h, v)
    IN  [g EXCEPT !.cells = @ + 1,
                  !.vec[v].data[g.vec[v].len] = x, !.vec[v].len = @ + 1]

RetainAny(h, kind, x) ==
    IF kind = "vec" THEN [h EXCEPT !.vec[x].rc = @ + 1] ELSE Retain(h, x)

\* baga_vec_push_str, used for a nested vector too, and baga_vec_push_i64.
PushPlain(h, v, x) ==
    PushSlot(IF h.vec[v].kind = "i64" THEN h ELSE RetainAny(h, h.vec[v].kind, x), v, x)

\* vec_push of an element that another owner keeps.
Push(h, v, x) == IF Boxed(h.vec[v].kind) THEN PushBox(Retain(h, x), v, x)
                 ELSE PushPlain(h, v, x)

\* baga_rc_release_str on whatever is behind the pointer.
\* Unlike C: a vector loses its struct and leaves its array behind.
ReleasePlain(h, kind, x) ==
    IF kind # "vec" THEN Release(h, x)
    ELSE IF h.vec[x] = Null THEN [h EXCEPT !.err = TRUE]
    ELSE IF h.vec[x].rc > 1 THEN [h EXCEPT !.vec[x].rc = @ - 1]
    ELSE [h EXCEPT !.vec[x] = Null, !.cells = @ - 1]

\* baga_rc_release_vec with elem_kind 0.
ReleaseFlat(h, v) ==
    IF h.vec[v] = Null THEN [h EXCEPT !.err = TRUE]
    ELSE IF h.vec[v].rc > 1 THEN [h EXCEPT !.vec[v].rc = @ - 1]
    ELSE [h EXCEPT !.vec[v] = Null, !.cells = @ - 2]

\* vec_push of a temporary: boxed elements are moved; the plain helpers
\* retain, and the call site releases the temporary after the call.
PushMove(h, v, x) ==
    LET kind == h.vec[v].kind
    IN  CASE Boxed(kind)   -> PushBox(h, v, x)
          [] kind = "i64"  -> PushPlain(h, v, x)
          [] kind = "vec"  -> ReleaseFlat(PushPlain(h, v, x), x)
          [] OTHER         -> Release(PushPlain(h, v, x), x)

StoreAt(h, v, i, x) == [h EXCEPT !.vec[v].data[i] = x]

\* vec_set: baga_vec_set_str; for bytes and structs the call site retains,
\* releases what the box held and calls baga_vec_set_box.
Set(h, v, i, x) ==
    LET kind == h.vec[v].kind
        old  == h.vec[v].data[i]
    IN  IF kind = "i64" THEN StoreAt(h, v, i, x)
        ELSE StoreAt(ReleasePlain(RetainAny(h, kind, x), kind, old), v, i, x)

SetMove(h, v, i, x) ==
    LET kind == h.vec[v].kind
        old  == h.vec[v].data[i]
    IN  CASE Boxed(kind)  -> StoreAt(Release(h, old), v, i, x)
          [] kind = "i64" -> StoreAt(h, v, i, x)
          [] kind = "vec" -> ReleaseFlat(Set(h, v, i, x), x)
          [] OTHER        -> Release(Set(h, v, i, x), x)

\* The loops of vec_slice and vec_concat.
\* Unlike C: box_copy_loop copies boxes and retains nothing.
CopyAll(h, r, s) ==
    FoldLeft(LAMBDA g, x : IF Boxed(h.vec[r].kind) THEN PushBox(g, r, x)
                           ELSE PushPlain(g, r, x), h, s)

Slice(h, r, v, a, b) ==
    LET w  == h.vec[v]
        lo == IF a < 0 THEN 0 ELSE a
        hi == IF b > w.len THEN w.len ELSE b
    IN  CopyAll(VecNew(h, r, w.kind), r, SubSeq(Elems(w), lo + 1, hi))

Concat(h, r, v, w) ==
    CopyAll(VecNew(h, r, h.vec[v].kind), r, Elems(h.vec[v]) \o Elems(h.vec[w]))

\* What the destructor of a container does to an element of its own.
Disown(h, kind, x) ==
    CASE kind = "i64" -> h
      [] kind = "vec" -> ReleaseFlat(h, x)
      [] OTHER        -> Release(h, x)

ReleaseVec(h, v) ==
    LET w == h.vec[v]
    IN  IF w = Null \/ w.rc > 1 THEN ReleaseFlat(h, v)
        ELSE LET g == FoldLeft(LAMBDA u, x : Disown(u, w.kind, x), h, Elems(w))
             IN  [g EXCEPT !.vec[v] = Null,
                           !.cells = @ - 2 - (IF Boxed(w.kind) THEN w.len ELSE 0)]

-----------------------------------------------------------------------------

NullBuckets(nb) == [i \in 0..(nb - 1) |-> << >>]

MapNew(h, kk, vk) ==
    [h EXCEPT !.map = [rc |-> 1, kk |-> kk, vk |-> vk, nb |-> Nb0, len |-> 0,
                       b |-> NullBuckets(Nb0)],
              !.cells = @ + 1]

\* Mutant: a moved entry goes to the end of its new chain.
RehashAppends(m) ==
    FoldLeft(LAMBDA n, e : [n EXCEPT !.b[Bucket(n, e.k)] = Append(@, e)],
             [m EXCEPT !.nb = 2 * @, !.b = NullBuckets(2 * m.nb)], Entries(m))

Rehash(m) ==
    FoldLeft(LAMBDA n, e : [n EXCEPT !.b[Bucket(n, e.k)] = <<e>> \o @],
             [m EXCEPT !.nb = 2 * @, !.b = NullBuckets(2 * m.nb)], Entries(m))

OwnKey(h, k) == IF h.map.kk = "i64" THEN h ELSE Retain(h, k)

DisownKey(h, k) == IF h.map.kk = "i64" THEN h ELSE Release(h, k)

\* baga_map_put and baga_map_put_b with map_put_finish.
MapPut(h, k) ==
    LET g == OwnKey(h, k)
        m == g.map
        n == [m EXCEPT !.len = @ + 1,
                       !.b[Bucket(m, k)] = Append(@, [k |-> k, v |-> Null])]
    IN  IF Place(m, k) # 0 THEN DisownKey(g, k)
        ELSE [g EXCEPT !.map = IF n.len * 4 > n.nb * 3 THEN Rehash(n) ELSE n,
                       !.cells = @ + 1]

\* The store of baga_map_set_K_V; a box is allocated once.
StoreValue(h, k, x) ==
    LET m == h.map
    IN  [h EXCEPT !.map.b[Bucket(m, k)][Place(m, k)].v = x,
                  !.cells = @ + (IF m.vk = "box" /\ Lookup(m, k) = Null THEN 1 ELSE 0)]

\* A struct value: retain, release what the old box held, then put.  The
\* other values: put, retain the new one, release the old one.
MapSet(h, k, x) ==
    LET g == MapPut(h, k)
    IN  CASE h.map.vk = "i64" -> StoreValue(g, k, x)
          [] h.map.vk = "box" ->
               StoreValue(MapPut(Release(Retain(h, x), Lookup(h.map, k)), k), k, x)
          [] OTHER -> StoreValue(Release(Retain(g, x), Lookup(g.map, k)), k, x)

MapSetMove(h, k, x) ==
    CASE h.map.vk = "i64" -> MapSet(h, k, x)
      [] h.map.vk = "box" -> StoreValue(MapPut(Release(h, Lookup(h.map, k)), k), k, x)
      [] OTHER            -> Release(MapSet(h, k, x), x)

\* Unlike C: the box of a struct value and its fields stay behind.
MapDel(h, k) ==
    LET m == h.map
        p == Place(m, k)
        e == m.b[Bucket(m, k)][p]
        g == IF m.vk \in {"i64", "box"} THEN DisownKey(h, e.k)
             ELSE Release(DisownKey(h, e.k), e.v)
    IN  IF p = 0 THEN h
        ELSE [g EXCEPT !.map.b[Bucket(m, k)] = RemoveAt(@, p),
                       !.map.len = @ - 1, !.cells = @ - 1]

\* Unlike C: a bytes key is boxed without being retained.
MapKeys(h, r) ==
    LET es == Entries(h.map)
    IN  CopyAll(VecNew(h, r, h.map.kk), r, [i \in 1..Len(es) |-> es[i].k])

ReleaseMap(h) ==
    LET m == h.map
        g == FoldLeft(LAMBDA u, e : Disown(DisownKey(u, e.k), m.vk, e.v), h, Entries(m))
    IN  IF m = Null THEN [h EXCEPT !.err = TRUE]
        ELSE IF m.rc > 1 THEN [h EXCEPT !.map.rc = @ - 1]
        ELSE [g EXCEPT !.map = Null,
                       !.cells = @ - 1 - m.len * (IF m.vk = "box" THEN 2 ELSE 1)]

\* The blocks that the containers of h consist of.
CellsOf(h) ==
    LET V(v) == IF h.vec[v] = Null THEN 0
                ELSE 2 + (IF Boxed(h.vec[v].kind) THEN h.vec[v].len ELSE 0)
        M    == IF h.map = Null THEN 0
                ELSE 1 + h.map.len * (IF h.map.vk = "box" THEN 2 ELSE 1)
    IN  FoldSet(LAMBDA v, n : n + V(v), M, Vecs)
=============================================================================

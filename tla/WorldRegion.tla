---------------------------- MODULE WorldRegion ----------------------------
(***************************************************************************)
(* The region of a world: one growing block of memory that holds vectors   *)
(* (wvec), maps (wmap) and records (wrec), addressed by offset and named   *)
(* by an id, its index in a table that lies in the region too.  Blocks are *)
(* never freed: a container that grows leaves its old block behind, and    *)
(* world_compact copies what the table still reaches into a new region.    *)
(*                                                                         *)
(* An offset counts words; mem maps the offset of every block to what is   *)
(* in it.  store is the abstract value of the containers.                  *)
(***************************************************************************)
EXTENDS OpenTable, FiniteSets, Functions

CONSTANTS Nums, Texts, Blobs,        \* values of kind 1, 2 and 3
          TblCap, VecCap, MapCap,    \* first capacities (16, 8, 16)
          RegionCap, ImageCap,       \* first size of a region and of an image
          MaxUsed, MaxIds, MaxFields  \* bounds of the model

\* What the constants are assumed to be.
RegionAssumption ==
    /\ HashAssumption /\ Nums \subseteq Int
    /\ TblCap \in Nat \ {0} /\ VecCap \in Nat \ {0} /\ MapCap \in Nat \ {0} /\ MaxFields \in Nat

VARIABLES region, store, frozen,
          lost                       \* a read through a freed header went wrong

regionVars == <<region, store, frozen, lost>>

HdrSize == 5
NewRegion(cap) == [used |-> HdrSize, cap |-> cap, mem |-> << >>,
                   tbl_off |-> 0, tbl_len |-> 0, tbl_cap |-> 0, stale |-> FALSE]

RegionInit == /\ region = NewRegion(RegionCap)
              /\ store = << >>
              /\ frozen = FALSE
              /\ lost = FALSE

-----------------------------------------------------------------------------

\* arena_alloc: bump, and grow to twice the capacity or to what is needed.
ArenaAlloc(r, size, b) ==
    LET need == r.used + size
    IN  [r EXCEPT !.used = need,
                  !.cap = IF need > r.cap THEN Max({need, r.cap * 2}) ELSE r.cap,
                  !.mem = WithKey(r.mem, r.used, b)]

Moved(r, s) == r.cap # s.cap

\* The capacity and the place of the old table are read through hd, which points
\* to a header that a move has freed.  This is the region when it still holds
\* what it held; stale says that it was read.
TblGrow(r) ==
    LET ncap == IF r.tbl_cap = 0 THEN TblCap ELSE r.tbl_cap * 2
        s    == ArenaAlloc(r, 2 * ncap, << >>)
        old  == IF r.tbl_cap = 0 THEN << >> ELSE r.mem[r.tbl_off]
    IN  [s EXCEPT !.tbl_off = r.used, !.tbl_cap = ncap, !.mem[r.used] = old,
                  !.stale = @ \/ Moved(r, s)]

\* wtbl_add: the new container's id is the new length of the table.
TblAdd(r, off, kind) ==
    LET s == IF r.tbl_len = r.tbl_cap THEN TblGrow(r) ELSE r
    IN  [s EXCEPT !.mem[s.tbl_off] = Append(@, [off |-> off, kind |-> kind]),
                  !.tbl_len = @ + 1]

Entry(r, id) == r.mem[r.tbl_off][id]
Header(r, id) == r.mem[Entry(r, id).off]

\* wreg_put_str, wreg_put_bytes: the payload goes into the region and its
\* offset is the value.
PutPayload(r, kind, x) ==
    IF kind \in {0, 1} THEN [r |-> r, v |-> x]
    ELSE [r |-> ArenaAlloc(r, kind, x), v |-> r.used]

-----------------------------------------------------------------------------

WvecNew(r) ==
    LET s == ArenaAlloc(r, 4, [len |-> 0, cap |-> VecCap, data |-> r.used + 4, ekind |-> 0])
    IN  TblAdd(ArenaAlloc(s, VecCap, << >>), r.used, 1)

\* wvec_grow: the elements are copied to a block of twice the size.
WvecGrow(r, off) ==
    LET h == r.mem[off]
        s == ArenaAlloc(r, h.cap * 2, r.mem[h.data])
    IN  [s EXCEPT !.mem[off] = [h EXCEPT !.data = r.used, !.cap = h.cap * 2]]

WvecPushRaw(r, off, v) ==
    LET s == IF r.mem[off].len = r.mem[off].cap THEN WvecGrow(r, off) ELSE r
        h == s.mem[off]
    IN  [s EXCEPT !.mem[h.data] = Append(@, v), !.mem[off].len = @ + 1]

\* wvec_push, _str, _bytes: the kind is fixed by the first element, the payload
\* is stored before the vector grows.
WvecPush(r, id, kind, x) ==
    LET off == Entry(r, id).off
        p   == PutPayload([r EXCEPT !.mem[off].ekind = kind], kind, x)
    IN  WvecPushRaw(p.r, off, p.v)

\* The slots of a map are an open-addressing table; len and cap are in the
\* header and count the same slots.
WmapNew(r) ==
    LET s == ArenaAlloc(r, 4, [slots |-> r.used + 4, vkind |-> 0])
    IN  TblAdd(ArenaAlloc(s, 3 * MapCap, NewTable(MapCap)), r.used, 2)

WmInsert(t, k, v) == Insert(t, k, v)

WmapSetRaw(r, off, k, v) ==
    LET t == r.mem[r.mem[off].slots]
        s == IF (t.n + 1) * 4 > t.cap * 3
             THEN [ArenaAlloc(r, 3 * t.cap * 2, Rehash(t, t.cap * 2))
                      EXCEPT !.mem[off].slots = r.used]
             ELSE r
    IN  [s EXCEPT !.mem[s.mem[off].slots] = WmInsert(@, k, v)]

WmapSet(r, id, k, kind, x) ==
    LET off == Entry(r, id).off
        p   == PutPayload([r EXCEPT !.mem[off].vkind = kind], kind, x)
    IN  WmapSetRaw(p.r, off, k, p.v)

\* The table of a map, and whether the probe of wmap_set ends in it.
WmapTable(r, id) == r.mem[Header(r, id).slots]
SetEnds(r, id, k) == ProbeEnds(Roomy(WmapTable(r, id)), k)

WmapDel(r, id, k) == [r EXCEPT !.mem[Header(r, id).slots] = Delete(@, k)]

\* A record: n values and n kinds, 0 for a field that is not set.
WrecNew(r, n) ==
    LET s == ArenaAlloc(r, 3, [n |-> n, data |-> r.used + 3, kinds |-> r.used + 3 + n])
        u == ArenaAlloc(s, n, [i \in 1..n |-> 0])
    IN  TblAdd(ArenaAlloc(u, n, [i \in 1..n |-> 0]), r.used, 3)

WrecSet(r, id, i, kind, x) ==
    LET h == Header(r, id)
        p == PutPayload([r EXCEPT !.mem[h.kinds][i] = kind], kind, x)
    IN  [p.r EXCEPT !.mem[h.data][i] = p.v]

-----------------------------------------------------------------------------
(* Reading.                                                                *)

Payload(r, kind, v) == IF kind \in {0, 1} THEN v ELSE r.mem[v]

WvecRead(r, h) == [i \in 1..h.len |-> Payload(r, h.ekind, r.mem[h.data][i])]

WmapRead(r, h) ==
    LET t == r.mem[h.slots]
    IN  [k \in {k \in Keys : FindEnds(t, k) /\ Slot(t, k) >= 0} |-> Payload(r, h.vkind, t.s[Slot(t, k)].v)]

WrecRead(r, h) ==
    [i \in {j \in 1..h.n : r.mem[h.kinds][j] # 0} |->
        Payload(r, r.mem[h.kinds][i], r.mem[h.data][i])]

Read(r, id) == CASE Entry(r, id).kind = 1 -> WvecRead(r, Header(r, id))
                 [] Entry(r, id).kind = 2 -> WmapRead(r, Header(r, id))
                 [] Entry(r, id).kind = 3 -> WrecRead(r, Header(r, id))

\* wres, wvec_at, wmap_at, wrec_at: what the accessors test on every call.
InRegion(r, off, size) == off >= 0 /\ off <= r.used /\ size <= r.used - off

AccessOK(r, id) ==
    LET e == Entry(r, id)
        h == Header(r, id)
    IN  /\ InRegion(r, r.tbl_off, 2 * r.tbl_cap) /\ id \in DOMAIN r.mem[r.tbl_off]
        /\ CASE e.kind = 1 -> InRegion(r, e.off, 4) /\ h.len <= h.cap /\ InRegion(r, h.data, h.cap)
             [] e.kind = 2 -> /\ InRegion(r, e.off, 4)
                              /\ r.mem[h.slots].n <= r.mem[h.slots].cap
                              /\ InRegion(r, h.slots, 3 * r.mem[h.slots].cap)
             [] e.kind = 3 -> InRegion(r, e.off, 3) /\ InRegion(r, h.data, h.n) /\ InRegion(r, h.kinds, h.n)

-----------------------------------------------------------------------------
(* Compaction: every container is rebuilt in the order of the table.       *)

\* wimg_copy_str, wimg_copy_bytes.
CopyOf(r, src, kind, v) == PutPayload(r, kind, Payload(src, kind, v))

\* The element, entry or field i of src, copied into the new container whose
\* elements, slots or values are at d.
VecCopied(r, src, h, d, i) ==
    LET p == CopyOf(r, src, h.ekind, src.mem[h.data][i])
    IN  [p.r EXCEPT !.mem[d] = Append(@, p.v)]

\* Mutant: a deleted slot is copied like a live one.
CopiedUsed(e) == e.st # 0

Copied(e) == e.st = 1

MapCopied(r, src, h, d, i) ==
    LET e == src.mem[h.slots].s[i - 1]
        p == CopyOf(r, src, h.vkind, e.v)
    IN  IF Copied(e) THEN [p.r EXCEPT !.mem[d] = WmInsert(@, e.k, p.v)] ELSE r

RecCopied(r, src, h, d, i) ==
    LET p == CopyOf(r, src, src.mem[h.kinds][i], src.mem[h.data][i])
    IN  [p.r EXCEPT !.mem[d][i] = p.v]

CopyVec(r, src, h) ==
    LET hd == [h EXCEPT !.cap = Max({h.len, VecCap}), !.data = r.used + 4]
        s  == ArenaAlloc(ArenaAlloc(r, 4, hd), hd.cap, << >>)
        copied[i \in 0..h.len] ==
            IF i = 0 THEN s ELSE VecCopied(copied[i - 1], src, h, hd.data, i)
    IN  TblAdd(copied[h.len], r.used, 1)

\* baga_pow2_at_least: doubled until it is n, which takes n times at most.
Pow2AtLeast(n) ==
    LET c[i \in 0..n] == IF i = 0 THEN MapCap
                         ELSE LET b == c[i - 1] IN IF b < n THEN b * 2 ELSE b
    IN  c[n]

CopyMap(r, src, h) ==
    LET old == src.mem[h.slots]
        cap == Pow2AtLeast(2 * old.n)
        hd  == [h EXCEPT !.slots = r.used + 4]
        s   == ArenaAlloc(ArenaAlloc(r, 4, hd), 3 * cap, NewTable(cap))
        copied[i \in 0..old.cap] ==
            IF i = 0 THEN s ELSE MapCopied(copied[i - 1], src, h, hd.slots, i)
    IN  TblAdd(copied[old.cap], r.used, 2)

CopyRec(r, src, h) ==
    LET hd == [h EXCEPT !.data = r.used + 3, !.kinds = r.used + 3 + h.n]
        s  == ArenaAlloc(ArenaAlloc(r, 3, hd), h.n, src.mem[h.data])
        copied[i \in 0..h.n] ==
            IF i = 0 THEN ArenaAlloc(s, h.n, src.mem[h.kinds])
            ELSE RecCopied(copied[i - 1], src, h, hd.data, i)
    IN  TblAdd(copied[h.n], r.used, 3)

Copy(r, src, id) ==
    CASE Entry(src, id).kind = 1 -> CopyVec(r, src, Header(src, id))
      [] Entry(src, id).kind = 2 -> CopyMap(r, src, Header(src, id))
      [] Entry(src, id).kind = 3 -> CopyRec(r, src, Header(src, id))

\* world_compact_build.
CompactBuild(src) ==
    LET built[id \in 0..src.tbl_len] ==
            IF id = 0 THEN NewRegion(Max({src.used \div 2, ImageCap}))
            ELSE Copy(built[id - 1], src, id)
    IN  built[src.tbl_len]

-----------------------------------------------------------------------------
(* The operations of a program on a world.  Every mutator exits on a       *)
(* frozen world; a container of one kind takes no value of another.  A map *)
(* is probed like the cache: an operation whose probe goes round for ever  *)
(* never ends, and is no step.                                             *)

ValuesOf(kind) == CASE kind = 1 -> Nums [] kind = 2 -> Texts [] kind = 3 -> Blobs

\* The region becomes r.  If a freed header was read on the way it may have held
\* something else: then the program goes on with a memory of which nothing is
\* known, and the model ends.
Becomes(r) ==
    \/ lost' = FALSE /\ region' = [r EXCEPT !.stale = FALSE]
    \/ r.stale /\ lost' = TRUE /\ region' = [r EXCEPT !.stale = FALSE, !.mem = << >>]

Mutate(r, st) == /\ ~frozen
                 /\ r.used <= MaxUsed /\ r.tbl_len <= MaxIds
                 /\ Becomes(r)
                 /\ store' = st
                 /\ UNCHANGED frozen

AddVec == Mutate(WvecNew(region), Append(store, << >>))

AddMap == Mutate(WmapNew(region), Append(store, << >>))

AddRec(n) == Mutate(WrecNew(region, n), Append(store, << >>))

Ids(kind) == {id \in 1..region.tbl_len : Entry(region, id).kind = kind}

PushVec(id, kind, x) ==
    /\ Header(region, id).ekind \in {0, kind}
    /\ Mutate(WvecPush(region, id, kind, x), [store EXCEPT ![id] = Append(@, x)])

SetMap(id, k, kind, x) ==
    /\ Header(region, id).vkind \in {0, kind}
    /\ SetEnds(region, id, k)
    /\ Mutate(WmapSet(region, id, k, kind, x), [store EXCEPT ![id] = WithKey(@, k, x)])

DelMap(id, k) ==
    /\ FindEnds(WmapTable(region, id), k)
    /\ Mutate(WmapDel(region, id, k), [store EXCEPT ![id] = Restrict(@, DOMAIN @ \ {k})])

SetRec(id, i, kind, x) ==
    /\ i <= Header(region, id).n
    /\ region.mem[Header(region, id).kinds][i] \in {0, kind}
    /\ Mutate(WrecSet(region, id, i, kind, x), [store EXCEPT ![id] = WithKey(@, i, x)])

WorldCompact == Mutate(CompactBuild(region), store)

\* A second world_freeze is an error exit.
WorldFreeze == /\ ~frozen
               /\ frozen' = TRUE
               /\ UNCHANGED <<region, store, lost>>

\* world_dump copies the bytes of the region, world_dump_compact those of a
\* compacted one; both also work on a frozen world.
Images == {region, CompactBuild(region)}

\* world_load: a new world, not frozen, with the bytes of the image.
WorldLoad(img) == /\ Becomes([img EXCEPT !.cap = Max({img.used, RegionCap})])
                  /\ frozen' = FALSE
                  /\ UNCHANGED store

RegionNext ==
    /\ ~lost
    /\ \/ AddVec \/ AddMap \/ \E n \in 1..MaxFields : AddRec(n)
       \/ \E id \in Ids(1), kind \in 1..3 : \E x \in ValuesOf(kind) : PushVec(id, kind, x)
       \/ \E id \in Ids(2), k \in Keys, kind \in 1..2 : \E x \in ValuesOf(kind) : SetMap(id, k, kind, x)
       \/ \E id \in Ids(2), k \in Keys : DelMap(id, k)
       \/ \E id \in Ids(3), i \in 1..MaxFields, kind \in 1..3 : \E x \in ValuesOf(kind) : SetRec(id, i, kind, x)
       \/ WorldCompact \/ WorldFreeze
       \/ \E img \in Images : WorldLoad(img)

RegionSpec == RegionInit /\ [][RegionNext]_regionVars

-----------------------------------------------------------------------------

Faithful(r, st) == /\ r.tbl_len = Len(st)
                   /\ \A id \in 1..Len(st) : AccessOK(r, id) /\ Read(r, id) = st[id]

\* Whatever moves, grows or is copied, every id reads as what the program
\* stored under it, and no access reports a damaged region.
ContentsKept == Faithful(region, store)

\* An image, compact or not, loads to the store it was taken from, if no freed
\* header was read to make it.
ImagesFaithful == \A img \in Images : img.stale \/ Faithful(img, store)

\* A region, its compacted form and its images hold what was put into them, until
\* a freed header is read and holds something else than it did.
RegionFaithful == lost \/ (ContentsKept /\ ImagesFaithful)
=============================================================================

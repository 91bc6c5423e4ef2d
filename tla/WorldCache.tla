---------------------------- MODULE WorldCache ----------------------------
(***************************************************************************)
(* The cache of a world (wcache_set and its relatives): the one thing that *)
(* readers of a frozen world may change.  Every operation runs under the   *)
(* world's wlock, so each is one action.  A value has a kind: 1 is an i64, *)
(* 2 a string and 3 a byte string, of which the slot owns a copy (payload) *)
(* on the heap.  cache is << >> (no table yet) or <<table>>; dict is the   *)
(* dictionary that the operations are meant to keep; copies counts the     *)
(* payloads that were allocated and not freed; stuck says that a probe     *)
(* goes round for ever, with wlock held.                                   *)
(***************************************************************************)
EXTENDS OpenTable, FiniteSets, Functions

CONSTANTS Ints, CacheCap, Null

Kinds == {1, 2, 3}

\* What the constants are assumed to be.
CacheAssumption ==
    /\ HashAssumption /\ Ints \subseteq Int /\ CacheCap \in Nat \ {0}

VARIABLES cache, dict, copies, stuck

cacheVars == <<cache, dict, copies, stuck>>

CacheInit == /\ cache = << >>
             /\ dict = << >>
             /\ copies = 0
             /\ stuck = FALSE

Table == IF cache = << >> THEN NewTable(CacheCap) ELSE Head(cache)

\* The table probed by a put is the grown one.
PutEnds(k) == ProbeEnds(Roomy(Table), k)

Owned(kind) == IF kind = 1 THEN 0 ELSE 1

Hang == stuck' = TRUE /\ UNCHANGED <<cache, dict, copies>>

\* The payload of the entry of k, freed when the entry is overwritten or
\* deleted.
FreedAt(t, k) == LET i == Slot(t, k)
                 IN  IF i < 0 THEN 0 ELSE Owned(t.s[i].v.kd)

\* wcache_set, wcache_set_str, wcache_set_bytes.
WcacheSet(k, kind, x) ==
    /\ ~stuck
    /\ IF PutEnds(k)
       THEN /\ cache' = <<Put(Table, k, [kd |-> kind, x |-> x])>>
            /\ dict' = WithKey(dict, k, [kd |-> kind, x |-> x])
            /\ copies' = copies + Owned(kind) - FreedAt(Roomy(Table), k)
            /\ UNCHANGED stuck
       ELSE Hang

\* wcache_add on a key that is there: no put, so no growth.
AddTo(k, i, d) ==
    /\ Table.s[i].v.kd = 1          \* another kind is an error exit
    /\ Table.s[i].v.x + d \in Ints
    /\ cache' = <<[Table EXCEPT !.s[i].v.x = @ + d]>>
    /\ dict' = [dict EXCEPT ![k].x = @ + d]
    /\ UNCHANGED <<copies, stuck>>

\* wcache_add: a counter that is not there starts at d.
WcacheAdd(k, d) ==
    /\ ~stuck
    /\ IF ~FindEnds(Table, k) THEN Hang
       ELSE IF Slot(Table, k) < 0 THEN WcacheSet(k, 1, d)
       ELSE AddTo(k, Slot(Table, k), d)

WcacheDel(k) ==
    /\ ~stuck /\ cache # << >>
    /\ IF FindEnds(Table, k)
       THEN /\ cache' = <<Delete(Table, k)>>
            /\ dict' = Restrict(dict, DOMAIN dict \ {k})
            /\ copies' = copies - FreedAt(Table, k)
            /\ UNCHANGED stuck
       ELSE Hang

\* wcache_clear, and the part of world_free that is about the cache.
WcacheClear ==
    /\ ~stuck /\ cache # << >>
    /\ cache' = << >>
    /\ dict' = << >>
    /\ copies' = copies - Cardinality({i \in Live(Table) : Table.s[i].v.kd # 1})
    /\ UNCHANGED stuck

CacheNext == \/ \E k \in Keys, kind \in Kinds, x \in Ints : WcacheSet(k, kind, x)
             \/ \E k \in Keys, d \in Ints : WcacheAdd(k, d)
             \/ \E k \in Keys : WcacheDel(k)
             \/ WcacheClear

CacheSpec == CacheInit /\ [][CacheNext]_cacheVars

-----------------------------------------------------------------------------

\* wcache_get*, wcache_has and wcache_len: what a reader is told about k.
WcacheGet(k) == LET i == Slot(Table, k)
                IN  IF i < 0 THEN Null ELSE Table.s[i].v

WcacheLen == Table.n

\* Every lookup that ends answers as the dictionary would, whatever
\* collisions, tombstones and growth lie behind it; so does wcache_len.
CacheIsDict ==
    /\ \A k \in Keys : FindEnds(Table, k) =>
          WcacheGet(k) = IF k \in DOMAIN dict THEN dict[k] ELSE Null
    /\ WcacheLen = Cardinality(DOMAIN dict)

\* The copies on the heap are those of the live entries: overwriting, deleting
\* and clearing free each exactly once, and growth frees none.
PayloadsOwned == copies = Cardinality({k \in DOMAIN dict : dict[k].kd # 1})

\* The cache of a world answers like a dictionary and owns the payloads it holds.
CacheSound == CacheIsDict /\ PayloadsOwned

\* No operation probes for ever (comment of baga_wc_put: "there always remains
\* an empty slot, which stops the while").
ProbesEnd == ~stuck /\ \A k \in Keys : FindEnds(Table, k) /\ PutEnds(k)

=============================================================================

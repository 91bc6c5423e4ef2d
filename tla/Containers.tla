----------------------------- MODULE Containers -----------------------------
(***************************************************************************)
(* A program that holds strings, vectors and one map in locals, run by     *)
(* both backends at once: hc is its heap in the C runtime, hl in the LLVM  *)
(* one.  Where the two runtimes do different things the C one runs alone   *)
(* (twin = FALSE); Shared* names what both are asked to do.                *)
(*   loc   how many locals refer to each string, each vector and the map;  *)
(*   seqs  what each vector should hold;   dict  what the map should hold. *)
(***************************************************************************)
EXTENDS RcHeap, FiniteSets, Functions

CONSTANTS VecKinds, MapKinds, MaxLoc, MaxLen, MaxLive,
          SharedVecs, SharedSlices, SharedKeys, SharedVals

C == INSTANCE CContainers
L == INSTANCE LlvmContainers

VARIABLES hc, hl, loc, seqs, pairs, twin

NoLocals == [o |-> [o \in Objs |-> 0], v |-> [v \in Vecs |-> 0], m |-> 0]

ContInit == /\ hc = EmptyHeap
            /\ hl = EmptyHeap
            /\ loc = NoLocals
            /\ seqs = [v \in Vecs |-> Null]
            /\ pairs = Null
            /\ twin \in BOOLEAN

\* Both runtimes do the operation, or C alone.
Both(c, l) == /\ ~hc.err
              /\ hc' = c
              /\ hl' = IF twin THEN l ELSE hl
              /\ UNCHANGED twin

Kind(v) == hc.vec[v].kind

Alive(v) == hc.vec[v] # Null
Held == {v \in Vecs : Alive(v)}

\* A value the program can name: a literal, or a block that some local or
\* container still refers to.
Usable(kind, x) ==
    CASE kind = "i64" -> x = 0
      [] kind = "vec" -> x \in Vecs /\ Alive(x) /\ Kind(x) = "i64"
      [] OTHER        -> x = 0 \/ (x \in Objs /\ hc.rc[x] > 0)

Values == Objs \union Vecs \union {0}

\* A local of the type of x that is used for the last time.
HasLocal(kind, x) == /\ x # 0
                     /\ IF kind = "vec" THEN x \in Vecs /\ loc.v[x] > 0
                        ELSE kind # "i64" /\ x \in Objs /\ loc.o[x] > 0

Moved(kind, x) == IF kind = "vec" THEN [loc EXCEPT !.v[x] = @ - 1]
                  ELSE [loc EXCEPT !.o[x] = @ - 1]

\* Identities are given out in order.
Free(o) == hc.rc[o] = 0 /\ hl.rc[o] = 0

NewStr(o) ==
    /\ Free(o) /\ \A p \in Objs : Free(p) => o <= p
    /\ Both([hc EXCEPT !.rc[o] = 1], [hl EXCEPT !.rc[o] = 1])
    /\ loc' = [loc EXCEPT !.o[o] = 1]
    /\ UNCHANGED <<seqs, pairs>>

CopyLocal(o) ==
    /\ hc.rc[o] > 0 /\ loc.o[o] < MaxLoc
    /\ Both(C!Retain(hc, o), L!Retain(hl, o))
    /\ loc' = [loc EXCEPT !.o[o] = @ + 1]
    /\ UNCHANGED <<seqs, pairs>>

DropLocal(o) ==
    /\ loc.o[o] > 0
    /\ Both(C!Release(hc, o), L!Release(hl, o))
    /\ loc' = [loc EXCEPT !.o[o] = @ - 1]
    /\ UNCHANGED <<seqs, pairs>>

\* Bound: at most MaxLive containers at a time.
Few == Cardinality(Held) + (IF hc.map = Null THEN 0 ELSE 1) < MaxLive

Room(v) == ~Alive(v) /\ \A u \in Vecs : u < v => Alive(u)

VecNew(v, kind) ==
    /\ Room(v) /\ (twin => kind \in SharedVecs)
    /\ Both(C!VecNew(hc, v, kind), L!VecNew(hl, v, kind))
    /\ loc' = [loc EXCEPT !.v[v] = 1]
    /\ seqs' = [seqs EXCEPT ![v] = << >>]
    /\ UNCHANGED pairs

VecPush(v, x) ==
    /\ Usable(Kind(v), x) /\ Len(seqs[v]) < MaxLen
    /\ \/ Both(C!Push(hc, v, x), L!Push(hl, v, x)) /\ UNCHANGED loc
       \/ /\ HasLocal(Kind(v), x)
          /\ Both(C!PushMove(hc, v, x), L!PushMove(hl, v, x))
          /\ loc' = Moved(Kind(v), x)
    /\ seqs' = [seqs EXCEPT ![v] = Append(@, x)]
    /\ UNCHANGED pairs

VecSet(v, i, x) ==
    /\ i < hc.vec[v].len /\ Usable(Kind(v), x)
    /\ twin => Kind(v) # "vec"
    /\ \/ Both(C!Set(hc, v, i, x), L!Set(hl, v, i, x)) /\ UNCHANGED loc
       \/ /\ HasLocal(Kind(v), x)
          /\ Both(C!SetMove(hc, v, i, x), L!SetMove(hl, v, i, x))
          /\ loc' = Moved(Kind(v), x)
    /\ seqs' = [seqs EXCEPT ![v][i + 1] = x]
    /\ UNCHANGED pairs

NewLocalVec(r, s) == /\ loc' = [loc EXCEPT !.v[r] = 1]
                     /\ seqs' = [seqs EXCEPT ![r] = s]
                     /\ UNCHANGED pairs

VecSlice(r, v, a, b) ==
    /\ Room(r) /\ (twin => Kind(v) \in SharedSlices)
    /\ Both(C!Slice(hc, r, v, a, b), L!Slice(hl, r, v, a, b))
    /\ NewLocalVec(r, SubSeq(seqs[v], (IF a < 0 THEN 0 ELSE a) + 1,
                            IF b > Len(seqs[v]) THEN Len(seqs[v]) ELSE b))

VecConcat(r, v, w) ==
    /\ Room(r) /\ Kind(v) = Kind(w)
    /\ Len(seqs[v]) + Len(seqs[w]) <= MaxLen
    /\ twin => Kind(v) \in SharedSlices
    /\ Both(C!Concat(hc, r, v, w), L!Concat(hl, r, v, w))
    /\ NewLocalVec(r, seqs[v] \o seqs[w])

\* A second local for a vector, and the end of one.
CopyVec(v) ==
    /\ loc.v[v] < MaxLoc
    /\ Both([hc EXCEPT !.vec[v].rc = @ + 1], [hl EXCEPT !.vec[v].rc = @ + 1])
    /\ loc' = [loc EXCEPT !.v[v] = @ + 1]
    /\ UNCHANGED <<seqs, pairs>>

DropVec(v) ==
    /\ loc.v[v] > 0
    /\ Both(C!ReleaseVec(hc, v), L!ReleaseVec(hl, v))
    /\ loc' = [loc EXCEPT !.v[v] = @ - 1]
    /\ seqs' = [u \in Vecs |-> IF hc'.vec[u] = Null THEN Null ELSE seqs[u]]
    /\ UNCHANGED pairs

MapNew(kk, vk) ==
    /\ hc.map = Null /\ (twin => kk \in SharedKeys)
    /\ Both(C!MapNew(hc, kk, vk), L!MapNew(hl, kk, vk))
    /\ loc' = [loc EXCEPT !.m = 1]
    /\ pairs' = << >>
    /\ UNCHANGED seqs

UsableKey(k) == IF hc.map.kk = "i64" THEN k \in Range(Content) ELSE Usable("str", k)

\* The LLVM map_set of a struct value releases the old box before it looks at
\* the key; here the key is then held by a local, not by that box.
KeyHeld(k) == hc.map.vk = "box" /\ hc.map.kk # "i64" /\ k # 0 => loc.o[k] > 0

MapSet(k, x) ==
    /\ UsableKey(k) /\ Usable(hc.map.vk, x)
    /\ twin => KeyHeld(k)
    /\ \/ Both(C!MapSet(hc, k, x), L!MapSet(hl, k, x)) /\ UNCHANGED loc
       \/ /\ HasLocal(hc.map.vk, x) /\ (k = x => loc.o[x] > 1)
          /\ Both(C!MapSetMove(hc, k, x), L!MapSetMove(hl, k, x))
          /\ loc' = Moved(hc.map.vk, x)
    /\ pairs' = KeyOf(hc.map.kk, k) :> x @@ pairs
    /\ UNCHANGED seqs

MapDel(k) ==
    /\ UsableKey(k)
    /\ twin => hc.map.vk \in SharedVals
    /\ Both(C!MapDel(hc, k), L!MapDel(hl, k))
    /\ pairs' = Restrict(pairs, DOMAIN pairs \ {KeyOf(hc.map.kk, k)})
    /\ UNCHANGED <<loc, seqs>>

MapKeys(r) ==
    /\ Room(r) /\ hc.map.len <= MaxLen
    /\ Both(C!MapKeys(hc, r), L!MapKeys(hl, r))
    /\ NewLocalVec(r, [i \in 1..hc.map.len |-> Entries(hc.map)[i].k])

DropMap ==
    /\ loc.m > 0
    /\ Both(C!ReleaseMap(hc), L!ReleaseMap(hl))
    /\ loc' = [loc EXCEPT !.m = 0]
    /\ pairs' = Null
    /\ UNCHANGED seqs

ContNext ==
    \/ \E o \in Objs : NewStr(o) \/ CopyLocal(o) \/ DropLocal(o)
    \/ Few /\ \E v \in Vecs, kind \in VecKinds : VecNew(v, kind)
    \/ \E v \in Held, x \in Values : VecPush(v, x) \/ \E i \in 0..(MaxLen - 1) : VecSet(v, i, x)
    \/ Few /\ \E r \in Vecs, v \in Held : \/ \E a \in -1..1, b \in {1, MaxLen + 1} : VecSlice(r, v, a, b)
                                          \/ \E w \in Held : VecConcat(r, v, w)
    \/ \E v \in Held : CopyVec(v) \/ DropVec(v)
    \/ Few /\ \E kinds \in MapKinds : MapNew(kinds[1], kinds[2])
    \/ /\ hc.map # Null
       /\ \/ \E k \in Values \union Range(Content) : MapDel(k) \/ \E x \in Values : MapSet(k, x)
          \/ Few /\ \E r \in Vecs : MapKeys(r)
          \/ DropMap

-----------------------------------------------------------------------------

Sum(S, f(_)) == FoldSet(LAMBDA x, n : n + f(x), 0, S)

Count(s, x) == Cardinality({i \in DOMAIN s : s[i] = x})

\* How many references the locals and the containers of h hold to string o.
RefsTo(h, o) ==
    LET InVec(v) == IF h.vec[v] = Null \/ h.vec[v].kind \in {"i64", "vec"} THEN 0
                    ELSE Count(Elems(h.vec[v]), o)
        es    == Entries(h.map)
        InMap == IF h.map = Null THEN 0
                 ELSE (IF h.map.kk = "i64" THEN 0
                       ELSE Cardinality({i \in DOMAIN es : es[i].k = o}))
                    + (IF h.map.vk = "i64" THEN 0
                       ELSE Cardinality({i \in DOMAIN es : es[i].v = o}))
    IN  loc.o[o] + Sum(Vecs, InVec) + InMap

RefsToVec(h, v) ==
    LET In(u) == IF h.vec[u] = Null \/ h.vec[u].kind # "vec" THEN 0
                 ELSE Count(Elems(h.vec[u]), v)
    IN  loc.v[v] + Sum(Vecs, In)

Exact(h) == /\ ~h.err
            /\ \A o \in Objs : h.rc[o] = RefsTo(h, o)
            /\ \A v \in Vecs : (IF h.vec[v] = Null THEN 0 ELSE h.vec[v].rc) = RefsToVec(h, v)
            /\ (IF h.map = Null THEN 0 ELSE h.map.rc) = loc.m

\* In both runtimes a count is the number of references that exist, through
\* every copy, move, overwrite, slice and release: no block is freed while
\* something refers to it, none is left behind when nothing does, and none is
\* touched after its end.
CountsExact == Exact(hc) /\ (twin => Exact(hl))

\* Structs, arrays, entries and boxes are freed with their container, each
\* once.
NoCellLeft == hc.cells = C!CellsOf(hc) /\ (twin => hl.cells = L!CellsOf(hl))

Holds(h) ==
    /\ \A v \in Vecs : h.vec[v] # Null => Elems(h.vec[v]) = seqs[v]
    /\ h.map # Null =>
         /\ h.map.len = Cardinality(DOMAIN pairs)
         /\ \A k \in {e.k : e \in Range(Entries(h.map))} :
               Lookup(h.map, k) = pairs[KeyOf(h.map.kk, k)]
         /\ {KeyOf(h.map.kk, e.k) : e \in Range(Entries(h.map))} = DOMAIN pairs

\* Vectors hold what was pushed and set, and the map is the dictionary of what
\* was set and deleted, whatever growth and rehashing lie between.
ContentsRight == Holds(hc) /\ (twin => Holds(hl))

\* The two backends list the keys of a map in the same order: a program prints
\* the same with either.
SameKeyOrder == (twin /\ hc.map # Null) => Entries(hc.map) = Entries(hl.map)
=============================================================================

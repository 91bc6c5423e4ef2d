---------------------------- MODULE ArenaProofs -----------------------------
(***************************************************************************)
(* The bump arena of the C backend, for any number of threads, sizes,      *)
(* blocks, marks and persist brackets, when no thread drops the ephemeral  *)
(* memory of another one (~CrossDrop; the run MCArenaShared shows what     *)
(* happens otherwise): no cell has two owners, and what is older than a    *)
(* mark survives its rewind, in whatever order the marks are rewound.      *)
(***************************************************************************)
EXTENDS Arena, FoldLemmas, SequenceTheorems

Objs == [p : Ptrs, n : Sizes \cup {0}, by : Threads, per : BOOLEAN]
Marks == [head : Blocks \cup {NoBlock}, used : Nat, keep : SUBSET Objs]
Ops == [k : {"live", "peak", "spare"}, d : Int]

\* The types of the variables, the marks and the counter operations included.
StoreTypes == /\ cap \in [Blocks -> Nat]
              /\ used \in [Blocks -> Nat] /\ \A b \in Blocks : used[b] <= cap[b]
              /\ arena \in [Threads -> Seq(Blocks)]
              /\ spare \in [Threads -> Seq(Blocks)]
              /\ fl \in [Threads -> [Listed -> Seq(Ptrs)]]
HeldTypes == /\ objs \subseteq Objs /\ IsFiniteSet(objs)
             /\ marks \in [Threads -> SUBSET Marks]
CallTypes == /\ depth \in [Threads -> Nat]
             /\ todo \in [Threads -> Seq(Ops)]
             /\ mt \in [live : Int, spare : Int, peak : Nat]
             /\ exited \in BOOLEAN
ArenaTypes == StoreTypes /\ HeldTypes /\ CallTypes

\* A block is in one place of one chain, arena or spare, and was malloc'ed.
ChainInv ==
    /\ \A t, u \in Threads : \A i \in 1 .. Len(arena[t]), j \in 1 .. Len(arena[u]) :
           arena[t][i] = arena[u][j] => t = u /\ i = j
    /\ \A t, u \in Threads : \A i \in 1 .. Len(spare[t]), j \in 1 .. Len(spare[u]) :
           spare[t][i] = spare[u][j] => t = u /\ i = j
    /\ \A t, u \in Threads : \A i \in 1 .. Len(arena[t]), j \in 1 .. Len(spare[u]) :
           arena[t][i] # spare[u][j]
    /\ \A t \in Threads : \A i \in 1 .. Len(arena[t]) : cap[arena[t][i]] > 0
    /\ \A t \in Threads : \A i \in 1 .. Len(spare[t]) : cap[spare[t][i]] > 0

InArena(t, b) == \E i \in 1 .. Len(arena[t]) : arena[t][i] = b

\* An allocation of n bytes at p lies below the bump pointer of a block of t.
Backed(t, p, n) == InArena(t, p.blk) /\ p.off + Footprint(n) <= used[p.blk]

\* Two allocations share no cell.
Apart(p, n, r, m) == \/ p.blk # r.blk
                     \/ p.off + Footprint(n) <= r.off
                     \/ r.off + Footprint(m) <= p.off

\* What is held, and what the free lists name, lies in the chain of its thread
\* and shares no cell with anything else.
SpaceInv ==
    /\ \A o \in Ephemeral : Backed(o.by, o.p, o.n)
    /\ \A x, y \in Ephemeral : x # y => Apart(x.p, x.n, y.p, y.n)
    /\ \A t \in Threads, n \in Listed : \A k \in 1 .. Len(fl[t][n]) :
           /\ Backed(t, fl[t][n][k], n)
           /\ \A o \in Ephemeral : Apart(fl[t][n][k], n, o.p, o.n)
    /\ \A t, u \in Threads, n, m \in Listed :
           \A k \in 1 .. Len(fl[t][n]), j \in 1 .. Len(fl[u][m]) :
               ~(t = u /\ n = m /\ k = j) => Apart(fl[t][n][k], n, fl[u][m][j], m)

\* What a mark protects is held and, if the block of the mark is in the chain
\* at all, lies deeper in it or, in that block, below the place of the mark.
MarkOK(t, m) ==
    /\ \A o \in m.keep : o \in Ephemeral /\ o.by = t
    /\ m.head = NoBlock => m.keep = {}
    /\ m.head # NoBlock => m.used <= cap[m.head]
    /\ \A o \in m.keep : \A i, j \in 1 .. Len(arena[t]) :
           arena[t][i] = m.head /\ arena[t][j] = o.p.blk
               => j >= i /\ (j = i => o.p.off + Footprint(o.n) <= m.used)

MarkInv == \A t \in Threads : \A m \in marks[t] : MarkOK(t, m)

ArenaInv == ArenaTypes /\ (~exited => ChainInv /\ SpaceInv /\ MarkInv)

-----------------------------------------------------------------------------
(* The operators of the model.                                             *)

(* The space an allocation takes is a positive number.                     *)
LEMMA FootprintType ==
    ASSUME NEW n \in Sizes \cup {0} PROVE Footprint(n) \in Nat \ {0}
  BY ArenaAssumption DEF Footprint

(* Allocations that lie apart have no cell in common.                      *)
LEMMA ApartCells ==
    ASSUME NEW p \in Ptrs, NEW n \in Sizes \cup {0}, NEW r \in Ptrs, NEW m \in Sizes \cup {0},
           Apart(p, n, r, m)
    PROVE  Cells(p, n) \cap Cells(r, m) = {}
<1>1. Footprint(n) \in Nat \ {0} /\ Footprint(m) \in Nat \ {0}
  BY FootprintType
<1>2. p.off \in Nat /\ r.off \in Nat
  BY DEF Ptrs
<1>3. ASSUME NEW c \in Cells(p, n), c \in Cells(r, m) PROVE FALSE
  <2>1. PICK i \in p.off .. p.off + Footprint(n) - 1 : c = Ptr(p.blk, i)
    BY DEF Cells
  <2>2. PICK j \in r.off .. r.off + Footprint(m) - 1 : c = Ptr(r.blk, j)
    BY <1>3 DEF Cells
  <2>3. p.blk = r.blk /\ i = j
    BY <2>1, <2>2 DEF Ptr
  <2>4. QED
    BY <1>1, <1>2, <2>3 DEF Apart
<1>4. QED
  BY <1>3

(* To lie apart is symmetric.                                              *)
LEMMA ApartSwap ==
    ASSUME NEW p, NEW n, NEW r, NEW m, Apart(p, n, r, m) PROVE Apart(r, m, p, n)
  BY DEF Apart

(* A block, or a freed pointer, at the front of a chain.                   *)
LEMMA Pushed ==
    ASSUME NEW S, NEW e \in S, NEW s \in Seq(S), NEW r, r = <<e>> \o s
    PROVE  /\ r \in Seq(S) /\ Len(r) = Len(s) + 1 /\ Len(s) \in Nat /\ r[1] = e
           /\ \A i \in 1 .. Len(s) : r[i + 1] = s[i]
           /\ \A i \in 1 .. Len(r) : i # 1 => i - 1 \in 1 .. Len(s) /\ r[i] = s[i - 1]
<1>1. PICK f : f = <<e>>
  OBVIOUS
<1>2. f \in Seq(S) /\ Len(f) = 1 /\ f[1] = e
  BY <1>1
<1>3. /\ r \in Seq(S) /\ Len(r) = 1 + Len(s)
      /\ \A i \in 1 .. 1 + Len(s) : r[i] = IF i <= 1 THEN f[i] ELSE s[i - 1]
  <2>1. r = f \o s
    BY <1>1
  <2>2. /\ f \o s \in Seq(S) /\ Len(f \o s) = Len(f) + Len(s)
        /\ \A i \in 1 .. Len(f) + Len(s) : (f \o s)[i] = IF i <= Len(f) THEN f[i] ELSE s[i - Len(f)]
    BY <1>2, ConcatProperties
  <2>3. QED
    BY <1>2, <2>1, <2>2
<1>4. Len(s) \in Nat
  OBVIOUS
<1>5. QED
  BY <1>2, <1>3, <1>4

(* What is left of a chain when its first block is taken.                  *)
LEMMA Popped ==
    ASSUME NEW S, NEW s \in Seq(S), s # <<>>, NEW r, r = Tail(s)
    PROVE  /\ r \in Seq(S) /\ Len(s) \in Nat \ {0} /\ Len(r) = Len(s) - 1 /\ Head(s) = s[1] /\ s[1] \in S
           /\ \A i \in 1 .. Len(r) : r[i] = s[i + 1]
  OBVIOUS

\* a is the first n blocks of s, r the others, and d is a in reverse in front of c.
IsCut(S, s, c, n, a, r, d) ==
    /\ a \in Seq(S) /\ Len(a) = n /\ \A i \in 1 .. n : a[i] = s[i]
    /\ r \in Seq(S) /\ Len(r) = Len(s) - n /\ \A i \in 1 .. Len(r) : r[i] = s[i + n]
    /\ d \in Seq(S) /\ Len(d) = n + Len(c)
    /\ \A i \in 1 .. n : d[i] = s[n - i + 1]
    /\ \A i \in 1 .. Len(d) : i > n => i - n \in 1 .. Len(c) /\ d[i] = c[i - n]

(* A chain cut in two: the blocks above a place, in reverse order in front *)
(* of another chain, and the rest.                                         *)
LEMMA CutChain ==
    ASSUME NEW S, NEW s \in Seq(S), NEW c \in Seq(S), NEW n \in 0 .. Len(s), NEW a, NEW r, NEW d,
           a = SubSeq(s, 1, n), r = SubSeq(s, n + 1, Len(s)), d = Reverse(a) \o c
    PROVE  IsCut(S, s, c, n, a, r, d)
<1>0. Len(s) \in Nat /\ Len(c) \in Nat /\ n \in Nat
  OBVIOUS
<1>1. a \in Seq(S) /\ Len(a) = n /\ \A i \in 1 .. n : a[i] = s[i]
  OBVIOUS
<1>2. r \in Seq(S) /\ Len(r) = Len(s) - n /\ \A i \in 1 .. Len(r) : r[i] = s[i + n]
  <2>1. \A i \in n + 1 .. Len(s) : s[i] \in S
    BY <1>0
  <2>2. n + 1 \in Int /\ Len(s) \in Int
    BY <1>0
  <2>3. /\ SubSeq(s, n + 1, Len(s)) \in Seq(S)
        /\ Len(SubSeq(s, n + 1, Len(s))) = IF n + 1 <= Len(s) THEN Len(s) - (n + 1) + 1 ELSE 0
        /\ \A i \in 1 .. Len(s) - (n + 1) + 1 : SubSeq(s, n + 1, Len(s))[i] = s[(n + 1) + i - 1]
    BY <2>1, <2>2, SubSeqProperties
  <2>4. QED
    BY <1>0, <2>3
<1>3. PICK b : b = Reverse(a)
  OBVIOUS
<1>4. b \in Seq(S) /\ Len(b) = n /\ \A i \in 1 .. n : b[i] = s[n - i + 1]
  <2>1. b = [i \in 1 .. n |-> a[(n - i) + 1]]
    BY <1>1, <1>3 DEF Reverse
  <2>2. \A i \in 1 .. n : (n - i) + 1 \in 1 .. n
    BY <1>0
  <2>3. \A i \in 1 .. n : a[(n - i) + 1] \in S
    BY <1>1, <2>2
  <2>4. b \in [1 .. n -> S]
    BY <2>1, <2>3
  <2>5. b \in Seq(S) /\ Len(b) = n
    BY <1>0, <2>4
  <2>6. QED
    BY <1>1, <2>1, <2>2, <2>5
<1>5. /\ d \in Seq(S) /\ Len(d) = Len(b) + Len(c)
      /\ \A i \in 1 .. Len(b) + Len(c) : d[i] = IF i <= Len(b) THEN b[i] ELSE c[i - Len(b)]
  <2>1. d = b \o c
    BY <1>3
  <2>2. /\ b \o c \in Seq(S) /\ Len(b \o c) = Len(b) + Len(c)
        /\ \A i \in 1 .. Len(b) + Len(c) : (b \o c)[i] = IF i <= Len(b) THEN b[i] ELSE c[i - Len(b)]
    BY <1>4, ConcatProperties
  <2>3. QED
    BY <2>1, <2>2
<1>6. /\ d \in Seq(S) /\ Len(d) = n + Len(c)
      /\ \A i \in 1 .. n : d[i] = s[n - i + 1]
      /\ \A i \in 1 .. Len(d) : i > n => i - n \in 1 .. Len(c) /\ d[i] = c[i - n]
  BY <1>0, <1>4, <1>5
<1>7. QED
  BY <1>1, <1>2, <1>6 DEF IsCut

(* The counter operations of a rewind are what baga_mt_bump makes of them. *)
LEMMA CounterOpsType ==
    ASSUME StoreTypes, NEW a \in Seq(Blocks) PROVE CounterOps(a) \in Seq(Ops)
<1>1. Len(a) \in Nat /\ 2 * Len(a) \in Nat
  OBVIOUS
<1>2. ASSUME NEW i \in 1 .. 2 * Len(a) PROVE (i + 1) \div 2 \in 1 .. Len(a)
  BY <1>1
<1>3. ASSUME NEW i \in 1 .. 2 * Len(a) PROVE cap[a[(i + 1) \div 2]] \in Nat
  BY <1>2 DEF StoreTypes
<1>4. ASSUME NEW c \in Nat
      PROVE  [k |-> "live", d |-> -c] \in Ops /\ [k |-> "spare", d |-> c] \in Ops
  BY DEF Ops
<1>5. CounterOps(a) \in [1 .. 2 * Len(a) -> Ops]
  BY <1>3, <1>4 DEF CounterOps
<1>6. QED
  BY <1>1, <1>5

\* Every mark that is left comes from one of ms, and protects what it did but dead.
Followed(dead, ms) ==
    \A t \in Threads : \A k \in marks'[t] : \E m \in ms[t] :
        k.head = m.head /\ k.used = m.used /\ k.keep = m.keep \ dead

(* What becomes of the marks when the program forgets what is in dead.     *)
LEMMA ForgetMarks ==
    ASSUME NEW dead, NEW ms \in [Threads -> SUBSET Marks], Forget(dead, ms)
    PROVE  marks' \in [Threads -> SUBSET Marks] /\ Followed(dead, ms)
<1>1. \A t \in Threads : marks'[t] = {[m EXCEPT !.keep = m.keep \ dead] : m \in ms[t]}
  BY DEF Forget
<1>2. ASSUME NEW m \in Marks, NEW k, k = [m EXCEPT !.keep = m.keep \ dead]
      PROVE  k \in Marks /\ k.head = m.head /\ k.used = m.used /\ k.keep = m.keep \ dead
  BY <1>2 DEF Marks
<1>3. marks' = [t \in Threads |-> marks'[t]]
  BY DEF Forget
<1>4. ASSUME NEW t \in Threads, NEW k \in marks'[t]
      PROVE  \E m \in ms[t] :
                 k \in Marks /\ k.head = m.head /\ k.used = m.used /\ k.keep = m.keep \ dead
  <2>1. PICK m \in ms[t] : k = [m EXCEPT !.keep = m.keep \ dead]
    BY <1>1
  <2>2. m \in Marks
    OBVIOUS
  <2>3. QED
    BY <1>2, <2>1, <2>2
<1>5. \A t \in Threads : marks'[t] \in SUBSET Marks
  BY <1>4
<1>6. marks' \in [Threads -> SUBSET Marks]
  BY <1>3, <1>5
<1>7. QED
  BY <1>4, <1>6, Zenon DEF Followed

-----------------------------------------------------------------------------
(* The invariant is what the arena promises.                               *)

(* The inductive invariant implies that the arena is sound.                *)
LEMMA InvIsSound == ArenaInv => ArenaSound
<1> SUFFICES ASSUME ArenaInv PROVE ArenaSound
  OBVIOUS
<1>1. TypeOK
  <2>1. \A o \in objs : o.p \in Ptrs /\ o.n \in Sizes \cup {0} /\ o.by \in Threads
    BY DEF ArenaInv, ArenaTypes, HeldTypes, Objs
  <2>2. mt.live \in Int /\ mt.spare \in Int /\ mt.peak \in Nat
    BY DEF ArenaInv, ArenaTypes, CallTypes
  <2>3. QED
    BY <2>1, <2>2 DEF ArenaInv, ArenaTypes, StoreTypes, CallTypes, TypeOK
<1>2. \A o \in Ephemeral : o.p \in Ptrs /\ o.n \in Sizes \cup {0} /\ o.by \in Threads
  BY DEF ArenaInv, ArenaTypes, HeldTypes, Objs, Ephemeral
<1>3. NoTwoOwners
  <2>1. ASSUME ~exited, NEW x \in Ephemeral, NEW y \in Ephemeral, x # y
        PROVE  Cells(x.p, x.n) \cap Cells(y.p, y.n) = {}
    <3>1. Apart(x.p, x.n, y.p, y.n)
      BY <2>1 DEF ArenaInv, SpaceInv
    <3>2. QED
      BY <1>2, <3>1, ApartCells
  <2>2. QED
    BY <2>1 DEF NoTwoOwners, Overlap
<1>4. HeldIsBacked
  <2>1. ASSUME ~exited, NEW x \in Ephemeral
        PROVE  x.p.blk \in Chained /\ x.p.off + Footprint(x.n) <= used[x.p.blk]
    <3>1. Backed(x.by, x.p, x.n) /\ x.by \in Threads
      BY <1>2, <2>1 DEF ArenaInv, SpaceInv
    <3>2. PICK i \in 1 .. Len(arena[x.by]) : arena[x.by][i] = x.p.blk
      BY <3>1 DEF Backed, InArena
    <3>3. DOMAIN arena[x.by] = 1 .. Len(arena[x.by])
      BY <3>1 DEF ArenaInv, ArenaTypes, StoreTypes
    <3>4. x.p.blk \in Range(arena[x.by])
      BY <3>2, <3>3 DEF Range
    <3>5. QED
      BY <3>1, <3>4 DEF Chained, Backed
  <2>2. QED
    BY <2>1 DEF HeldIsBacked
<1>5. QED
  BY <1>1, <1>3, <1>4 DEF ArenaSound

(* Initially no block is malloc'ed and nothing is held.                    *)
LEMMA ArenaInvInit == Init => ArenaInv
<1> SUFFICES ASSUME Init PROVE ArenaInv
  OBVIOUS
<1>1. /\ \A t \in Threads : arena[t] = <<>> /\ spare[t] = <<>> /\ marks[t] = {}
      /\ \A t \in Threads, n \in Listed : fl[t][n] = <<>>
      /\ Ephemeral = {}
  BY DEF Init, Ephemeral
<1>2. StoreTypes
  BY DEF Init, StoreTypes
<1>3. HeldTypes
  <2>1. IsFiniteSet(objs)
    BY FS_EmptySet DEF Init
  <2>2. QED
    BY <2>1 DEF Init, HeldTypes
<1>4. CallTypes
  <2>1. mt \in [live : Int, spare : Int, peak : Nat]
    BY DEF Init
  <2>2. todo \in [Threads -> Seq(Ops)]
    BY DEF Init
  <2>3. depth \in [Threads -> Nat]
    BY DEF Init
  <2>4. exited \in BOOLEAN
    BY DEF Init
  <2>5. QED
    BY <2>1, <2>2, <2>3, <2>4 DEF CallTypes
<1>5. Len(<<>>) = 0 /\ \A i : i \notin 1 .. 0
  OBVIOUS
<1>6. ChainInv
  BY <1>1, <1>5 DEF ChainInv
<1>7. SpaceInv
  BY <1>1, <1>5 DEF SpaceInv
<1>8. MarkInv
  BY <1>1 DEF MarkInv
<1>9. QED
  BY <1>2, <1>3, <1>4, <1>6, <1>7, <1>8 DEF ArenaInv, ArenaTypes

-----------------------------------------------------------------------------
(* Calls that leave the ephemeral memory alone.                            *)

(* The chains and the free lists are untouched and the ephemeral things    *)
(* that are held stay the same ones.                                       *)
LEMMA SameSpace ==
    ASSUME ChainInv, SpaceInv, Ephemeral' = Ephemeral, UNCHANGED <<cap, used, arena, spare, fl>>
    PROVE  ChainInv' /\ SpaceInv'
  BY DEF ChainInv, SpaceInv, Backed, InArena

(* A mark that was right stays so, whatever it ceases to protect.          *)
LEMMA SameMark ==
    ASSUME MarkInv, Ephemeral' = Ephemeral, UNCHANGED <<cap, arena>>,
           NEW t \in Threads, NEW m \in marks[t], NEW k,
           k.head = m.head, k.used = m.used, k.keep \subseteq m.keep
    PROVE  MarkOK(t, k)'
<1>1. MarkOK(t, m)
  BY DEF MarkInv
<1>2. QED
  BY <1>1 DEF MarkOK

(* The persist region: a malloc of its own, which is a new one.            *)
LEMMA PersistStep ==
    ASSUME ArenaInv, NEW t \in Threads, ~exited, Cardinality(objs) < MaxObjs, AllocPersist(t),
           UNCHANGED <<depth, marks, mt, exited>>
    PROVE  ArenaInv'
<1>0. ChainInv /\ SpaceInv /\ MarkInv /\ StoreTypes /\ HeldTypes /\ CallTypes
  BY DEF ArenaInv, ArenaTypes
<1>1. PICK k : k = CHOOSE j \in 1 .. MaxObjs : \A o \in objs : o.p # Ptr(NoBlock, j)
  OBVIOUS
<1>2. k \in 1 .. MaxObjs
  <2>1. \E j \in 1 .. MaxObjs : \A o \in objs : o.p # Ptr(NoBlock, j)
    <3>1. SUFFICES ASSUME \A j \in 1 .. MaxObjs : \E o \in objs : o.p = Ptr(NoBlock, j)
                   PROVE  FALSE
      OBVIOUS
    <3>2. PICK f : f = [j \in 1 .. MaxObjs |-> CHOOSE o \in objs : o.p = Ptr(NoBlock, j)]
      OBVIOUS
    <3>3. f \in [1 .. MaxObjs -> objs] /\ \A j \in 1 .. MaxObjs : f[j].p = Ptr(NoBlock, j)
      BY <3>1, <3>2
    <3>4. IsFiniteSet(1 .. MaxObjs) /\ Cardinality(1 .. MaxObjs) = MaxObjs
      BY ArenaAssumption, FS_Interval
    <3>5. \E x, y \in 1 .. MaxObjs : x # y /\ f[x] = f[y]
      <4>1. IsFiniteSet(objs) /\ Cardinality(objs) < Cardinality(1 .. MaxObjs)
        BY <1>0, <3>4 DEF HeldTypes
      <4>2. QED
        BY <3>3, <3>4, <4>1, FS_PigeonHole, ZenonT(60)
    <3>6. PICK x, y \in 1 .. MaxObjs : x # y /\ f[x] = f[y]
      BY <3>5
    <3>7. Ptr(NoBlock, x) = Ptr(NoBlock, y)
      BY <3>3, <3>6
    <3>8. QED
      BY <3>6, <3>7 DEF Ptr
  <2>2. QED
    BY <1>1, <2>1
<1>3. PICK o : o = Obj(t, Ptr(NoBlock, k), 0, TRUE)
  OBVIOUS
<1>4. o \in Objs /\ o.per = TRUE
  BY <1>2, <1>3, ArenaAssumption DEF Obj, Ptr, Objs, Ptrs
<1>5. objs' = objs \cup {o} /\ UNCHANGED <<cap, used, arena, spare, fl, todo>>
  BY <1>1, <1>3 DEF AllocPersist, Hold
<1>6. Ephemeral' = Ephemeral
  BY <1>4, <1>5 DEF Ephemeral
<1>7. ChainInv' /\ SpaceInv'
  BY <1>0, <1>5, <1>6, SameSpace
<1>8. MarkInv'
  <2>1. ASSUME NEW u \in Threads, NEW m \in marks[u] PROVE MarkOK(u, m)'
    BY <1>0, <1>5, <1>6, SameMark
  <2>2. QED
    BY <2>1 DEF MarkInv
<1>9. HeldTypes'
  <2>1. IsFiniteSet(objs')
    BY <1>0, <1>5, FS_AddElement DEF HeldTypes
  <2>2. QED
    BY <1>0, <1>4, <1>5, <2>1 DEF HeldTypes
<1>10. StoreTypes' /\ CallTypes'
  BY <1>0, <1>5 DEF StoreTypes, CallTypes
<1>11. QED
  BY <1>7, <1>8, <1>9, <1>10 DEF ArenaInv, ArenaTypes

(* mem_mark: what the thread holds lies below the mark that it sets.       *)
LEMMA MarkStep ==
    ASSUME ArenaInv, NEW t \in Threads, MemMark(t) PROVE ArenaInv'
<1>0. ~exited /\ ChainInv /\ SpaceInv /\ MarkInv /\ StoreTypes /\ HeldTypes /\ CallTypes
  BY DEF ArenaInv, ArenaTypes, MemMark, Ready
<1> DEFINE b == HeadOf(arena[t])
           keep == {o \in Ephemeral : o.by = t}
           k == [head |-> b, used |-> MarkUsed(b), keep |-> keep]
<1>1. /\ marks' = [marks EXCEPT ![t] = marks[t] \cup {k}]
      /\ UNCHANGED <<cap, used, arena, spare, fl, depth, objs, mt, todo, exited>>
  BY DEF MemMark
<1>2. Ephemeral' = Ephemeral
  BY <1>1 DEF Ephemeral
<1>3. arena[t] \in Seq(Blocks) /\ \A c \in Blocks : used[c] \in Nat /\ used[c] <= cap[c]
  BY <1>0 DEF StoreTypes
<1>4. \/ arena[t] = <<>> /\ b = NoBlock
      \/ arena[t] # <<>> /\ b \in Blocks /\ b # NoBlock /\ b = arena[t][1] /\ 1 \in 1 .. Len(arena[t])
  <2>1. \A c \in Blocks : c # NoBlock
    BY DEF Blocks, NoBlock
  <2>2. CASE arena[t] = <<>>
    BY <2>2 DEF HeadOf
  <2>3. CASE arena[t] # <<>>
    <3>1. b = Head(arena[t])
      BY <2>3 DEF HeadOf
    <3>2. Head(arena[t]) = arena[t][1] /\ arena[t][1] \in Blocks /\ 1 \in 1 .. Len(arena[t])
      BY <1>3, <2>3
    <3>3. QED
      BY <2>1, <2>3, <3>1, <3>2
  <2>4. QED
    BY <2>2, <2>3
<1>5. k.head = b /\ k.used = MarkUsed(b) /\ k.keep = keep
  OBVIOUS
<1>6. k \in Marks
  <2>1. keep \in SUBSET Objs
    BY <1>0 DEF HeldTypes, Ephemeral
  <2>2. b \in Blocks \cup {NoBlock} /\ MarkUsed(b) \in Nat
    BY <1>3, <1>4 DEF MarkUsed
  <2>3. QED
    BY <2>1, <2>2 DEF Marks
<1>7. MarkOK(t, k)
  <2>1. \A o \in keep : Backed(t, o.p, o.n) /\ o \in Ephemeral /\ o.by = t
    BY <1>0 DEF SpaceInv
  <2>2. CASE arena[t] = <<>>
    <3>1. \A o : o \notin keep
      BY <2>1, <2>2 DEF Backed, InArena
    <3>2. keep = {}
      BY <3>1
    <3>3. b = NoBlock
      BY <1>4, <2>2
    <3> HIDE DEF k, keep, b
    <3>4. QED
      BY <1>5, <3>2, <3>3 DEF MarkOK
  <2>3. CASE arena[t] # <<>>
    <3>1. b \in Blocks /\ b # NoBlock /\ b = arena[t][1] /\ 1 \in 1 .. Len(arena[t]) /\ MarkUsed(b) = used[b]
      BY <1>4, <2>3 DEF MarkUsed
    <3>2. \A i \in 1 .. Len(arena[t]) : arena[t][i] = b => i = 1
      BY <1>0, <3>1 DEF ChainInv
    <3> HIDE DEF k, keep, b
    <3>3. k.used <= cap[k.head]
      BY <1>3, <1>5, <3>1
    <3>4. ASSUME NEW o \in keep, NEW i \in 1 .. Len(arena[t]), NEW j \in 1 .. Len(arena[t]),
                 arena[t][i] = b, arena[t][j] = o.p.blk
          PROVE  j >= i /\ (j = i => o.p.off + Footprint(o.n) <= used[b])
      BY <2>1, <3>1, <3>2, <3>4 DEF Backed
    <3>5. QED
      BY <1>5, <2>1, <3>1, <3>3, <3>4 DEF MarkOK
  <2>4. QED
    BY <2>2, <2>3
<1> HIDE DEF k, keep, b
<1>8. MarkInv'
  <2>1. ASSUME NEW u \in Threads, NEW x \in marks'[u] PROVE MarkOK(u, x)'
    <3>1. x \in marks[u] \/ (u = t /\ x = k)
      BY <1>0, <1>1 DEF HeldTypes
    <3>2. MarkOK(u, x)
      BY <1>0, <1>7, <3>1 DEF MarkInv
    <3>3. QED
      BY <1>1, <1>2, <3>2 DEF MarkOK
  <2>2. QED
    BY <2>1 DEF MarkInv
<1>9. ChainInv' /\ SpaceInv'
  BY <1>0, <1>1, <1>2, SameSpace
<1>10. StoreTypes' /\ CallTypes'
  BY <1>0, <1>1 DEF StoreTypes, CallTypes
<1>11. HeldTypes'
  <2>1. marks' \in [Threads -> SUBSET Marks]
    BY <1>0, <1>1, <1>6 DEF HeldTypes
  <2>2. QED
    BY <1>0, <1>1, <2>1 DEF HeldTypes
<1>12. QED
  BY <1>8, <1>9, <1>10, <1>11 DEF ArenaInv, ArenaTypes

(* A step that changes nothing but the brackets, the counters and exited.  *)
LEMMA QuietArena ==
    ASSUME ArenaInv, ~exited, UNCHANGED <<cap, used, arena, spare, fl, marks, objs>>, CallTypes'
    PROVE  ArenaInv'
<1>0. ChainInv /\ SpaceInv /\ MarkInv /\ StoreTypes /\ HeldTypes
  BY DEF ArenaInv, ArenaTypes
<1>1. Ephemeral' = Ephemeral
  BY DEF Ephemeral
<1>2. ChainInv' /\ SpaceInv'
  BY <1>0, <1>1, SameSpace
<1>3. MarkInv'
  BY <1>0, <1>1 DEF MarkInv, MarkOK
<1>4. StoreTypes' /\ HeldTypes'
  BY <1>0 DEF StoreTypes, HeldTypes
<1>5. QED
  BY <1>2, <1>3, <1>4 DEF ArenaInv, ArenaTypes

(* The persist brackets.                                                   *)
LEMMA BracketStep ==
    ASSUME ArenaInv, NEW t \in Threads, MemPersistBegin(t) \/ MemPersistEnd(t) PROVE ArenaInv'
<1>0. ~exited /\ CallTypes
  BY DEF ArenaInv, ArenaTypes, MemPersistBegin, MemPersistEnd, Ready
<1>1. UNCHANGED <<cap, used, arena, spare, fl, marks, objs, mt, todo>>
  BY DEF MemPersistBegin, MemPersistEnd
<1>2. depth' \in [Threads -> Nat]
  <2>1. depth \in [Threads -> Nat] /\ depth[t] \in Nat
    BY <1>0 DEF CallTypes
  <2>2. CASE MemPersistBegin(t)
    BY <2>1, <2>2 DEF MemPersistBegin
  <2>3. CASE MemPersistEnd(t)
    BY <2>1, <2>3 DEF MemPersistEnd
  <2>4. QED
    BY <2>2, <2>3
<1>3. exited' \in BOOLEAN
  BY <1>0 DEF CallTypes, MemPersistBegin, MemPersistEnd
<1>4. CallTypes'
  BY <1>0, <1>1, <1>2, <1>3 DEF CallTypes
<1>5. QED
  BY <1>0, <1>1, <1>4, QuietArena

(* The atomic operations on the counters.                                  *)
LEMMA CounterStep ==
    ASSUME ArenaInv, NEW t \in Threads, Counter(t) PROVE ArenaInv'
<1>0. ~exited /\ CallTypes /\ todo[t] # <<>> /\ UNCHANGED <<localVars, exited>>
  BY DEF ArenaInv, ArenaTypes, Counter
<1>1. PICK op : op = Head(todo[t])
  OBVIOUS
<1>2. PICK r : r = Tail(todo[t])
  OBVIOUS
<1>3. todo \in [Threads -> Seq(Ops)] /\ op \in Ops /\ r \in Seq(Ops)
  BY <1>0, <1>1, <1>2 DEF CallTypes
<1>4. /\ op.k \in {"live", "peak", "spare"} /\ op.d \in Int
      /\ mt \in [live : Int, spare : Int, peak : Nat]
      /\ mt.live \in Int /\ mt.spare \in Int /\ mt.peak \in Nat
  BY <1>0, <1>3 DEF Ops, CallTypes
<1>5. ASSUME op.k = "live"
      PROVE  mt' \in [live : Int, spare : Int, peak : Nat] /\ todo' \in [Threads -> Seq(Ops)]
  <2>1. PICK e : e = [k |-> "peak", d |-> mt.live + op.d]
    OBVIOUS
  <2>2. e \in Ops
    BY <1>4, <2>1 DEF Ops
  <2>3. mt' = [mt EXCEPT !.live = mt.live + op.d] /\ todo' = [todo EXCEPT ![t] = <<e>> \o r]
    BY <1>1, <1>2, <1>5, <2>1 DEF Counter
  <2>4. mt' \in [live : Int, spare : Int, peak : Nat]
    BY <1>4, <2>3
  <2>5. PICK q : q = <<e>> \o r
    OBVIOUS
  <2>6. q \in Seq(Ops)
    BY <1>3, <2>2, <2>5, Pushed
  <2>7. todo' \in [Threads -> Seq(Ops)]
    BY <1>3, <2>3, <2>5, <2>6
  <2>8. QED
    BY <2>4, <2>7
<1>6. ASSUME op.k = "peak"
      PROVE  mt' \in [live : Int, spare : Int, peak : Nat] /\ todo' \in [Threads -> Seq(Ops)]
  <2>1. mt' = [mt EXCEPT !.peak = Max({mt.peak, op.d})] /\ todo' = [todo EXCEPT ![t] = r]
    BY <1>1, <1>2, <1>6 DEF Counter
  <2>2. Max({mt.peak, op.d}) \in Nat
    <3>1. \E x \in {mt.peak, op.d} : \A y \in {mt.peak, op.d} : x >= y
      BY <1>4
    <3>2. /\ Max({mt.peak, op.d}) \in {mt.peak, op.d}
          /\ Max({mt.peak, op.d}) >= mt.peak
      BY <3>1 DEF Max
    <3>3. QED
      BY <1>4, <3>2
  <2>3. mt' \in [live : Int, spare : Int, peak : Nat]
    BY <1>4, <2>1, <2>2
  <2>4. QED
    BY <1>3, <2>1, <2>3
<1>7. ASSUME op.k = "spare"
      PROVE  mt' \in [live : Int, spare : Int, peak : Nat] /\ todo' \in [Threads -> Seq(Ops)]
  <2>1. mt' = [mt EXCEPT !.spare = mt.spare + op.d] /\ todo' = [todo EXCEPT ![t] = r]
    BY <1>1, <1>2, <1>7 DEF Counter
  <2>2. mt' \in [live : Int, spare : Int, peak : Nat]
    BY <1>4, <2>1
  <2>3. QED
    BY <1>3, <2>1, <2>2
<1>8. mt' \in [live : Int, spare : Int, peak : Nat] /\ todo' \in [Threads -> Seq(Ops)]
  BY <1>4, <1>5, <1>6, <1>7
<1>9. CallTypes'
  BY <1>0, <1>8 DEF CallTypes, localVars
<1>10. QED
  BY <1>0, <1>9, QuietArena DEF localVars

-----------------------------------------------------------------------------
(* The allocations.                                                        *)

(* One more ephemeral thing is held.                                       *)
LEMMA HoldOne ==
    ASSUME HeldTypes, NEW o \in Objs, ~o.per, objs' = objs \cup {o}, marks' = marks
    PROVE  Ephemeral' = Ephemeral \cup {o} /\ HeldTypes'
<1>1. Ephemeral' = Ephemeral \cup {o}
  BY DEF Ephemeral
<1>2. IsFiniteSet(objs')
  BY FS_AddElement DEF HeldTypes
<1>3. HeldTypes'
  BY <1>2 DEF HeldTypes
<1>4. QED
  BY <1>1, <1>3

(* Marks do not mind an allocation in the chain as it is.                  *)
LEMMA MarksKept ==
    ASSUME MarkInv, Ephemeral \subseteq Ephemeral', UNCHANGED <<cap, arena, marks>>
    PROVE  MarkInv'
<1>1. ASSUME NEW t \in Threads, NEW m \in marks[t] PROVE MarkOK(t, m)'
  <2>1. MarkOK(t, m)
    BY DEF MarkInv
  <2>2. QED
    BY <2>1 DEF MarkOK
<1>2. QED
  BY <1>1 DEF MarkInv

(* A size that is asked for.                                               *)
LEMMA AskedSize ==
    ASSUME NEW t \in Threads, NEW n \in Prog[t].sizes PROVE n \in Sizes
  BY ArenaAssumption

(* An allocation from a free list: the pointer leaves the list.            *)
LEMMA ListedStep ==
    ASSUME ArenaInv, NEW t \in Threads, NEW n \in Sizes, ~exited, AllocListed(t, n),
           UNCHANGED <<depth, marks, mt, exited>>
    PROVE  ArenaInv'
<1>0. ChainInv /\ SpaceInv /\ MarkInv /\ StoreTypes /\ HeldTypes /\ CallTypes
  BY DEF ArenaInv, ArenaTypes
<1>1. /\ n \in Listed /\ fl[t][n] # <<>> /\ Hold(t, Head(fl[t][n]), n, FALSE)
      /\ fl' = [fl EXCEPT ![t][n] = Tail(fl[t][n])]
      /\ UNCHANGED <<cap, used, arena, spare, todo>>
  BY DEF AllocListed
<1>2. fl \in [Threads -> [Listed -> Seq(Ptrs)]] /\ fl[t][n] \in Seq(Ptrs)
  BY <1>0, <1>1 DEF StoreTypes
<1>3. PICK r : r = Tail(fl[t][n])
  OBVIOUS
<1>4. /\ r \in Seq(Ptrs) /\ Len(fl[t][n]) \in Nat \ {0} /\ Len(r) = Len(fl[t][n]) - 1
      /\ Head(fl[t][n]) = fl[t][n][1] /\ fl[t][n][1] \in Ptrs
      /\ \A i \in 1 .. Len(r) : r[i] = fl[t][n][i + 1]
  BY <1>1, <1>2, <1>3, Popped
<1>5. /\ fl' \in [Threads -> [Listed -> Seq(Ptrs)]] /\ fl'[t][n] = r
      /\ \A u \in Threads, m \in Listed : ~(u = t /\ m = n) => fl'[u][m] = fl[u][m]
  BY <1>1, <1>2, <1>3, <1>4
<1>6. PICK p : p = fl[t][n][1]
  OBVIOUS
<1>7. PICK o : o = Obj(t, p, n, FALSE)
  OBVIOUS
<1>8. /\ o.p = p /\ o.n = n /\ o.by = t /\ Ephemeral' = Ephemeral \cup {o} /\ HeldTypes'
  <2>1. p \in Ptrs /\ objs' = objs \cup {o} /\ marks' = marks
    BY <1>1, <1>4, <1>6, <1>7 DEF Hold
  <2>2. o \in Objs /\ o.p = p /\ o.n = n /\ o.by = t /\ ~o.per
    BY <1>7, <2>1 DEF Obj, Objs
  <2>3. QED
    BY <1>0, <2>1, <2>2, HoldOne
<1>9. ASSUME NEW u \in Threads, NEW m \in Listed, NEW k \in 1 .. Len(fl'[u][m])
      PROVE  \E j \in 1 .. Len(fl[u][m]) :
                /\ j = (IF u = t /\ m = n THEN k + 1 ELSE k)
                /\ fl'[u][m][k] = fl[u][m][j] /\ ~(u = t /\ m = n /\ j = 1)
  <2>1. CASE u = t /\ m = n
    <3>1. k \in 1 .. Len(r)
      BY <1>5, <2>1
    <3>2. k + 1 \in 1 .. Len(fl[u][m]) /\ k + 1 # 1
      BY <1>4, <2>1, <3>1
    <3>3. QED
      BY <1>4, <1>5, <2>1, <3>1, <3>2
  <2>2. CASE ~(u = t /\ m = n)
    BY <1>5, <2>2
  <2>3. QED
    BY <2>1, <2>2
<1>10. 1 \in 1 .. Len(fl[t][n])
  BY <1>4
<1>11. Backed(t, p, n) /\ \A x \in Ephemeral : Apart(p, n, x.p, x.n)
  BY <1>0, <1>1, <1>6, <1>10 DEF SpaceInv
<1>12. SpaceInv'
  <2>1. \A x \in Ephemeral' : Backed(x.by, x.p, x.n)'
    BY <1>0, <1>1, <1>8, <1>11 DEF SpaceInv, Backed, InArena
  <2>2. \A x, y \in Ephemeral' : x # y => Apart(x.p, x.n, y.p, y.n)
    <3>1. \A x, y \in Ephemeral : x # y => Apart(x.p, x.n, y.p, y.n)
      BY <1>0 DEF SpaceInv
    <3>2. \A x \in Ephemeral : Apart(x.p, x.n, p, n)
      BY <1>11, ApartSwap
    <3>3. QED
      BY <1>8, <1>11, <3>1, <3>2
  <2>3. ASSUME NEW u \in Threads, NEW m \in Listed, NEW k \in 1 .. Len(fl'[u][m])
        PROVE  Backed(u, fl[u][m][k], m)' /\ \A x \in Ephemeral' : Apart(fl'[u][m][k], m, x.p, x.n)
    <3>1. PICK j \in 1 .. Len(fl[u][m]) :
              /\ j = (IF u = t /\ m = n THEN k + 1 ELSE k)
              /\ fl'[u][m][k] = fl[u][m][j] /\ ~(u = t /\ m = n /\ j = 1)
      BY <1>9
    <3>2. Backed(u, fl[u][m][j], m) /\ \A x \in Ephemeral : Apart(fl[u][m][j], m, x.p, x.n)
      BY <1>0 DEF SpaceInv
    <3>3. Apart(fl[u][m][j], m, p, n)
      BY <1>0, <1>1, <1>6, <1>10, <3>1 DEF SpaceInv
    <3>4. Backed(u, fl[u][m][k], m)'
      BY <1>1, <3>1, <3>2 DEF Backed, InArena
    <3>5. QED
      BY <1>8, <3>1, <3>2, <3>3, <3>4
  <2>4. ASSUME NEW u \in Threads, NEW w \in Threads, NEW m \in Listed, NEW q \in Listed,
               NEW k \in 1 .. Len(fl'[u][m]), NEW j \in 1 .. Len(fl'[w][q]),
               ~(u = w /\ m = q /\ k = j)
        PROVE  Apart(fl'[u][m][k], m, fl'[w][q][j], q)
    <3>1. PICK a \in 1 .. Len(fl[u][m]) :
              a = (IF u = t /\ m = n THEN k + 1 ELSE k) /\ fl'[u][m][k] = fl[u][m][a]
      BY <1>9, SMTT(40)
    <3>2. PICK b \in 1 .. Len(fl[w][q]) :
              b = (IF w = t /\ q = n THEN j + 1 ELSE j) /\ fl'[w][q][j] = fl[w][q][b]
      BY <1>9
    <3>3. ~(u = w /\ m = q /\ a = b)
      BY <2>4, <3>1, <3>2
    <3>4. Apart(fl[u][m][a], m, fl[w][q][b], q)
      BY <1>0, <3>3 DEF SpaceInv
    <3>5. QED
      BY <3>1, <3>2, <3>4
  <2>5. QED
    BY <2>1, <2>2, <2>3, <2>4, Zenon DEF SpaceInv, Apart
<1>13. ChainInv' /\ MarkInv'
  <2>1. ChainInv'
    BY <1>0, <1>1 DEF ChainInv
  <2>2. QED
    BY <1>0, <1>1, <1>8, <2>1, MarksKept
<1>14. StoreTypes' /\ CallTypes'
  BY <1>0, <1>1, <1>5 DEF StoreTypes, CallTypes
<1>15. QED
  BY <1>8, <1>12, <1>13, <1>14 DEF ArenaInv, ArenaTypes

(* An allocation of new space: everything that lies in the chains still    *)
(* does, and apart from the new thing.                                     *)
LEMMA NewSpace ==
    ASSUME SpaceInv, StoreTypes, HeldTypes, NEW o, Ephemeral' = Ephemeral \cup {o}, fl' = fl,
           Backed(o.by, o.p, o.n)',
           \A u \in Threads, q \in Ptrs, m \in Sizes \cup {0} :
               Backed(u, q, m) => Backed(u, q, m)' /\ Apart(q, m, o.p, o.n)
    PROVE  SpaceInv'
<1>1. \A x \in Ephemeral : x.by \in Threads /\ x.p \in Ptrs /\ x.n \in Sizes \cup {0}
  BY DEF HeldTypes, Objs, Ephemeral
<1>2. ASSUME NEW x \in Ephemeral PROVE Backed(x.by, x.p, x.n)' /\ Apart(x.p, x.n, o.p, o.n)
  <2>1. Backed(x.by, x.p, x.n)
    BY DEF SpaceInv
  <2>2. QED
    BY <1>1, <2>1
<1>3. ASSUME NEW u \in Threads, NEW m \in Listed, NEW k \in 1 .. Len(fl[u][m])
      PROVE  Backed(u, fl[u][m][k], m)' /\ Apart(fl[u][m][k], m, o.p, o.n)
  <2>1. PICK q : q = fl[u][m][k]
    OBVIOUS
  <2>2. Backed(u, q, m)
    BY <2>1 DEF SpaceInv
  <2>3. q \in Ptrs /\ m \in Sizes \cup {0}
    BY <2>1, ArenaAssumption DEF StoreTypes
  <2>4. Backed(u, q, m)' /\ Apart(q, m, o.p, o.n)
    BY <2>2, <2>3
  <2>5. QED
    BY <2>1, <2>4 DEF Backed, InArena
<1>4. \A x, y \in Ephemeral' : x # y => Apart(x.p, x.n, y.p, y.n)
  <2>1. \A x, y \in Ephemeral : x # y => Apart(x.p, x.n, y.p, y.n)
    BY DEF SpaceInv
  <2>2. \A x \in Ephemeral : Apart(x.p, x.n, o.p, o.n) /\ Apart(o.p, o.n, x.p, x.n)
    BY <1>2, ApartSwap
  <2>3. QED
    BY <2>1, <2>2
<1>5. \A x \in Ephemeral' : Backed(x.by, x.p, x.n)'
  BY <1>2
<1>6. ASSUME NEW u \in Threads, NEW m \in Listed, NEW k \in 1 .. Len(fl'[u][m])
      PROVE  Backed(u, fl[u][m][k], m)' /\ \A x \in Ephemeral' : Apart(fl'[u][m][k], m, x.p, x.n)
  <2>1. \A x \in Ephemeral : Apart(fl[u][m][k], m, x.p, x.n)
    BY DEF SpaceInv
  <2>2. QED
    BY <1>3, <2>1
<1>7. \A u, w \in Threads, m, q \in Listed :
          \A k \in 1 .. Len(fl'[u][m]), j \in 1 .. Len(fl'[w][q]) :
              ~(u = w /\ m = q /\ k = j) => Apart(fl'[u][m][k], m, fl'[w][q][j], q)
  BY DEF SpaceInv
<1>8. QED
  BY <1>4, <1>5, <1>6, <1>7, Zenon DEF SpaceInv, Apart

(* An allocation from the first block of the chain.                        *)
LEMMA BumpStep ==
    ASSUME ArenaInv, NEW t \in Threads, NEW n \in Sizes, ~exited, AllocBump(t, n),
           UNCHANGED <<depth, marks, mt, exited>>
    PROVE  ArenaInv'
<1>0. ChainInv /\ SpaceInv /\ MarkInv /\ StoreTypes /\ HeldTypes /\ CallTypes
  BY DEF ArenaInv, ArenaTypes
<1>1. PICK b : b = Head(arena[t])
  OBVIOUS
<1>2. /\ arena[t] # <<>> /\ used[b] + Footprint(n) <= cap[b]
      /\ objs' = objs \cup {Obj(t, Ptr(b, used[b]), n, FALSE)}
      /\ used' = [used EXCEPT ![b] = used[b] + Footprint(n)]
      /\ UNCHANGED <<cap, arena, spare, fl, todo>>
  BY <1>1 DEF AllocBump, Fits, Hold
<1>3. b \in Blocks /\ b = arena[t][1] /\ 1 \in 1 .. Len(arena[t])
  BY <1>0, <1>1, <1>2 DEF StoreTypes
<1>4. used[b] \in Nat /\ cap[b] \in Nat /\ Footprint(n) \in Nat \ {0}
  BY <1>0, <1>3, FootprintType DEF StoreTypes
<1>5. PICK o : o = Obj(t, Ptr(b, used[b]), n, FALSE)
  OBVIOUS
<1>6. /\ o \in Objs /\ ~o.per /\ o.by = t /\ o.n = n
      /\ o.p \in Ptrs /\ o.p.blk = b /\ o.p.off = used[b]
  BY <1>3, <1>4, <1>5 DEF Obj, Objs, Ptr, Ptrs
<1>7. Ephemeral' = Ephemeral \cup {o} /\ HeldTypes'
  BY <1>0, <1>2, <1>5, <1>6, HoldOne
<1>8. /\ used' \in [Blocks -> Nat] /\ used'[b] = used[b] + Footprint(n)
      /\ \A c \in Blocks : used'[c] <= cap[c] /\ used'[c] >= used[c] /\ used[c] \in Nat
  BY <1>0, <1>2, <1>3, <1>4 DEF StoreTypes
<1>9. Backed(o.by, o.p, o.n)'
  <2>1. used'[o.p.blk] = o.p.off + Footprint(o.n)
    BY <1>6, <1>8
  <2>2. arena'[o.by][1] = o.p.blk /\ 1 \in 1 .. Len(arena'[o.by])
    BY <1>2, <1>3, <1>6
  <2>3. o.p.off + Footprint(o.n) <= used'[o.p.blk]
    BY <1>4, <1>6, <2>1
  <2>4. QED
    BY <2>2, <2>3 DEF Backed, InArena
<1>10. ASSUME NEW u \in Threads, NEW q \in Ptrs, NEW m \in Sizes \cup {0}, Backed(u, q, m)
       PROVE  Backed(u, q, m)' /\ Apart(q, m, o.p, o.n)
  <2>1. /\ Footprint(m) \in Nat \ {0} /\ q.off \in Nat
    BY FootprintType DEF Ptrs
  <2>2. q.blk \in Blocks /\ q.off + Footprint(m) <= used[q.blk]
    BY <1>0, <1>10 DEF Backed, InArena, StoreTypes
  <2>3. q.off + Footprint(m) <= used'[q.blk]
    BY <1>8, <2>1, <2>2
  <2>4. Backed(u, q, m)'
    BY <1>2, <1>10, <2>3 DEF Backed, InArena
  <2>5. Apart(q, m, o.p, o.n)
    BY <1>6, <2>1, <2>2 DEF Apart
  <2>6. QED
    BY <2>4, <2>5
<1>11. SpaceInv'
  BY <1>0, <1>2, <1>7, <1>9, <1>10, NewSpace
<1>12. ChainInv'
  BY <1>0, <1>2 DEF ChainInv
<1>13. MarkInv'
  BY <1>0, <1>2, <1>7, MarksKept
<1>14. StoreTypes' /\ CallTypes'
  BY <1>0, <1>2, <1>8 DEF StoreTypes, CallTypes
<1>15. QED
  BY <1>7, <1>11, <1>12, <1>13, <1>14 DEF ArenaInv, ArenaTypes

\* The chain of t has b in front of the blocks that it had.
ChainPushed(t, b) ==
    /\ arena' \in [Threads -> Seq(Blocks)]
    /\ arena'[t][1] = b /\ 1 \in 1 .. Len(arena'[t])
    /\ \A u \in Threads : \A i \in 1 .. Len(arena[u]) :
          \E k \in 1 .. Len(arena'[u]) : k = (IF u = t THEN i + 1 ELSE i) /\ arena'[u][k] = arena[u][i]
    /\ \A u \in Threads : \A i \in 1 .. Len(arena'[u]) :
          \/ u = t /\ i = 1 /\ arena'[u][i] = b
          \/ \E k \in 1 .. Len(arena[u]) : i = (IF u = t THEN k + 1 ELSE k) /\ arena'[u][i] = arena[u][k]

(* A block at the front of an arena chain that was in none: the chains.    *)
LEMMA BlockChained ==
    ASSUME StoreTypes, ChainInv, NEW t \in Threads, NEW b \in Blocks, NEW d \in {0, 1},
           \A u \in Threads : \A i \in 1 .. Len(arena[u]) : arena[u][i] # b,
           arena' = [arena EXCEPT ![t] = <<b>> \o arena[t]],
           \A u \in Threads : \A j \in 1 .. Len(spare'[u]) : \E i \in 1 .. Len(spare[u]) :
               i = (IF u = t THEN j + d ELSE j) /\ spare'[u][j] = spare[u][i] /\ spare[u][i] # b,
           \A c \in Blocks : cap'[c] >= cap[c], cap'[b] > 0, cap' \in [Blocks -> Nat]
    PROVE  ChainInv' /\ ChainPushed(t, b)
<1>1. PICK r : r = <<b>> \o arena[t]
  OBVIOUS
<1>2. arena \in [Threads -> Seq(Blocks)] /\ cap \in [Blocks -> Nat] /\ spare \in [Threads -> Seq(Blocks)]
  BY DEF StoreTypes
<1>a. \A c \in Blocks : cap[c] > 0 => cap'[c] > 0
  <2> SUFFICES ASSUME NEW c \in Blocks, cap[c] > 0 PROVE cap'[c] > 0
    OBVIOUS
  <2>1. cap[c] \in Nat /\ cap'[c] \in Nat /\ cap'[c] >= cap[c]
    BY <1>2
  <2>2. QED
    BY <2>1
<1>3. /\ r \in Seq(Blocks) /\ Len(r) = Len(arena[t]) + 1 /\ Len(arena[t]) \in Nat /\ r[1] = b
      /\ \A i \in 1 .. Len(arena[t]) : r[i + 1] = arena[t][i]
      /\ \A i \in 1 .. Len(r) : i # 1 => i - 1 \in 1 .. Len(arena[t]) /\ r[i] = arena[t][i - 1]
  BY <1>1, <1>2, Pushed
<1>4. /\ arena' \in [Threads -> Seq(Blocks)] /\ arena'[t] = r
      /\ \A u \in Threads \ {t} : arena'[u] = arena[u]
  BY <1>1, <1>2, <1>3
<1>5. arena'[t][1] = b /\ 1 \in 1 .. Len(arena'[t])
  BY <1>3, <1>4
<1>6. ASSUME NEW u \in Threads, NEW i \in 1 .. Len(arena[u])
      PROVE  \E k \in 1 .. Len(arena'[u]) : k = (IF u = t THEN i + 1 ELSE i) /\ arena'[u][k] = arena[u][i]
  <2>1. CASE u = t
    <3>1. i + 1 \in 1 .. Len(r) /\ r[i + 1] = arena[t][i]
      BY <1>3, <2>1
    <3>2. QED
      BY <1>4, <2>1, <3>1
  <2>2. CASE u # t
    BY <1>4, <2>2
  <2>3. QED
    BY <2>1, <2>2
<1>7. ASSUME NEW u \in Threads, NEW i \in 1 .. Len(arena'[u])
      PROVE  \/ u = t /\ i = 1 /\ arena'[u][i] = b
             \/ \E k \in 1 .. Len(arena[u]) : i = (IF u = t THEN k + 1 ELSE k) /\ arena'[u][i] = arena[u][k]
  <2>1. CASE u = t /\ i # 1
    <3>1. i \in 1 .. Len(r)
      BY <1>4, <2>1
    <3>2. i - 1 \in 1 .. Len(arena[t]) /\ r[i] = arena[t][i - 1] /\ i = (i - 1) + 1
      BY <1>3, <2>1, <3>1
    <3>3. QED
      BY <1>4, <2>1, <3>2
  <2>2. CASE u = t /\ i = 1
    BY <1>5, <2>2
  <2>3. CASE u # t
    BY <1>4, <2>3
  <2>4. QED
    BY <2>1, <2>2, <2>3
<1>8. ASSUME NEW u \in Threads, NEW w \in Threads,
             NEW i \in 1 .. Len(arena'[u]), NEW j \in 1 .. Len(arena'[w]), arena'[u][i] = arena'[w][j]
      PROVE  u = w /\ i = j
  <2>1. CASE arena'[u][i] = b
    <3>1. u = t /\ i = 1
      BY <1>7, <2>1
    <3>2. w = t /\ j = 1
      BY <1>7, <1>8, <2>1
    <3>3. QED
      BY <3>1, <3>2
  <2>2. CASE arena'[u][i] # b
    <3>1. PICK k \in 1 .. Len(arena[u]) : i = (IF u = t THEN k + 1 ELSE k) /\ arena'[u][i] = arena[u][k]
      BY <1>7, <2>2
    <3>2. PICK l \in 1 .. Len(arena[w]) : j = (IF w = t THEN l + 1 ELSE l) /\ arena'[w][j] = arena[w][l]
      BY <1>7, <1>8, <2>2
    <3>3. u = w /\ k = l
      BY <1>8, <3>1, <3>2 DEF ChainInv
    <3>4. QED
      BY <3>1, <3>2, <3>3
  <2>3. QED
    BY <2>1, <2>2
<1>9. ASSUME NEW u \in Threads, NEW w \in Threads,
             NEW i \in 1 .. Len(spare'[u]), NEW j \in 1 .. Len(spare'[w]), spare'[u][i] = spare'[w][j]
      PROVE  u = w /\ i = j
  <2>1. PICK k \in 1 .. Len(spare[u]) : k = (IF u = t THEN i + d ELSE i) /\ spare'[u][i] = spare[u][k]
    OBVIOUS
  <2>2. PICK l \in 1 .. Len(spare[w]) : l = (IF w = t THEN j + d ELSE j) /\ spare'[w][j] = spare[w][l]
    OBVIOUS
  <2>3. u = w /\ k = l
    <3>1. spare[u][k] = spare[w][l]
      BY <1>9, <2>1, <2>2
    <3>2. \A x, y \in Threads : \A a \in 1 .. Len(spare[x]), c \in 1 .. Len(spare[y]) :
              spare[x][a] = spare[y][c] => x = y /\ a = c
      BY DEF ChainInv
    <3>3. QED
      BY <3>1, <3>2
  <2>4. QED
    BY <2>1, <2>2, <2>3
<1>10. ASSUME NEW u \in Threads, NEW w \in Threads,
              NEW i \in 1 .. Len(arena'[u]), NEW j \in 1 .. Len(spare'[w])
       PROVE  arena'[u][i] # spare'[w][j]
  <2>1. PICK l \in 1 .. Len(spare[w]) : spare'[w][j] = spare[w][l] /\ spare[w][l] # b
    OBVIOUS
  <2>2. CASE arena'[u][i] = b
    BY <2>1, <2>2
  <2>3. CASE arena'[u][i] # b
    <3>1. PICK k \in 1 .. Len(arena[u]) : arena'[u][i] = arena[u][k]
      BY <1>7, <2>3
    <3>2. arena[u][k] # spare[w][l]
      BY DEF ChainInv
    <3>3. QED
      BY <2>1, <3>1, <3>2
  <2>4. QED
    BY <2>2, <2>3
<1>11. ASSUME NEW u \in Threads, NEW i \in 1 .. Len(arena'[u]) PROVE cap'[arena'[u][i]] > 0
  <2>1. CASE arena'[u][i] = b
    BY <2>1
  <2>2. CASE arena'[u][i] # b
    <3>1. PICK k \in 1 .. Len(arena[u]) : arena'[u][i] = arena[u][k]
      BY <1>7, <2>2
    <3>2. arena[u][k] \in Blocks /\ cap[arena[u][k]] > 0
      BY <1>2, SMTT(40) DEF ChainInv
    <3>3. QED
      BY <1>a, <3>1, <3>2
  <2>3. QED
    BY <2>1, <2>2
<1>12. ASSUME NEW u \in Threads, NEW i \in 1 .. Len(spare'[u]) PROVE cap'[spare'[u][i]] > 0
  <2>1. PICK l \in 1 .. Len(spare[u]) : spare'[u][i] = spare[u][l]
    OBVIOUS
  <2>2. spare[u][l] \in Blocks /\ cap[spare[u][l]] > 0
    BY <1>2, SMTT(40) DEF ChainInv
  <2>3. QED
    BY <1>a, <2>1, <2>2
<1>13. ChainInv'
  BY <1>8, <1>9, <1>10, <1>11, <1>12, Zenon DEF ChainInv
<1>14. ChainPushed(t, b)
  BY <1>4, <1>5, <1>6, <1>7 DEF ChainPushed
<1>15. QED
  BY <1>13, <1>14

\* What a new block needs, whether it is spare or malloc'ed.
BlockNeed(n) == IF Footprint(n) > BlockCap THEN Footprint(n) ELSE BlockCap

\* Block b comes to the front of the chain of t, from its spare chain (d = 1)
\* or from malloc (d = 0).
BlockTaken(t, n, b, d) ==
    /\ b \in Blocks
    /\ \A u \in Threads : \A i \in 1 .. Len(arena[u]) : arena[u][i] # b
    /\ cap' \in [Blocks -> Nat] /\ cap'[b] >= BlockNeed(n) /\ \A c \in Blocks : cap'[c] >= cap[c]
    /\ used' = [used EXCEPT ![b] = Footprint(n)]
    /\ arena' = [arena EXCEPT ![t] = <<b>> \o arena[t]]
    /\ spare' \in [Threads -> Seq(Blocks)]
    /\ \A u \in Threads : \A j \in 1 .. Len(spare'[u]) : \E i \in 1 .. Len(spare[u]) :
           i = (IF u = t THEN j + d ELSE j) /\ spare'[u][j] = spare[u][i] /\ spare[u][i] # b
    /\ todo' \in [Threads -> Seq(Ops)]
    /\ objs' = objs \cup {Obj(t, Ptr(b, 0), n, FALSE)}
    /\ fl' = fl

(* Where baga_alloc takes a block from, no arena chain holds it.           *)
LEMMA BlockIsTaken ==
    ASSUME StoreTypes, ChainInv, todo \in [Threads -> Seq(Ops)],
           NEW t \in Threads, NEW n \in Sizes, AllocBlock(t, n)
    PROVE  \E b, d : d \in {0, 1} /\ BlockTaken(t, n, b, d)
<1>0. /\ cap \in [Blocks -> Nat] /\ arena \in [Threads -> Seq(Blocks)]
      /\ spare \in [Threads -> Seq(Blocks)] /\ spare[t] \in Seq(Blocks)
  BY DEF StoreTypes
<1>1. BlockNeed(n) \in Nat \ {0}
  BY FootprintType, ArenaAssumption DEF BlockNeed
<1> DEFINE reuse == spare[t] # <<>> /\ cap[Head(spare[t])] >= BlockNeed(n)
           fresh == {x \in Blocks : cap[x] = 0}
<1>2. PICK b : b = IF reuse THEN Head(spare[t]) ELSE CHOOSE x \in fresh : TRUE
  OBVIOUS
<1>3. /\ reuse \/ fresh # {}
      /\ cap' = [cap EXCEPT ![b] = IF reuse THEN cap[b] ELSE BlockNeed(n)]
      /\ used' = [used EXCEPT ![b] = Footprint(n)]
      /\ arena' = [arena EXCEPT ![t] = <<b>> \o arena[t]]
      /\ spare' = [spare EXCEPT ![t] = IF reuse THEN Tail(spare[t]) ELSE spare[t]]
      /\ todo' = [todo EXCEPT ![t] = <<[k |-> "live", d |-> cap'[b]]>>
                      \o (IF reuse THEN <<[k |-> "spare", d |-> -cap[b]]>> ELSE <<>>)]
      /\ objs' = objs \cup {Obj(t, Ptr(b, 0), n, FALSE)}
      /\ fl' = fl
  BY <1>2 DEF AllocBlock, BlockNeed, Hold
<1>4. CASE reuse
  <2>1. PICK r : r = Tail(spare[t])
    OBVIOUS
  <2>2. /\ r \in Seq(Blocks) /\ Len(spare[t]) \in Nat \ {0} /\ Len(r) = Len(spare[t]) - 1
        /\ Head(spare[t]) = spare[t][1] /\ spare[t][1] \in Blocks
        /\ \A i \in 1 .. Len(r) : r[i] = spare[t][i + 1]
    BY <1>0, <1>4, <2>1, Popped
  <2>3. b \in Blocks /\ b = spare[t][1] /\ cap[b] >= BlockNeed(n) /\ 1 \in 1 .. Len(spare[t])
    BY <1>2, <1>4, <2>2
  <2>4. /\ cap' = cap
        /\ spare' = [spare EXCEPT ![t] = r]
        /\ todo' = [todo EXCEPT ![t] = <<[k |-> "live", d |-> cap'[b]]>>
                      \o <<[k |-> "spare", d |-> -cap[b]]>>]
    BY <1>0, <1>3, <1>4, <2>1, <2>3
  <2> HIDE DEF reuse, fresh
  <2>5. \A u \in Threads : \A i \in 1 .. Len(arena[u]) : arena[u][i] # b
    BY <2>3 DEF ChainInv
  <2>6. ASSUME NEW u \in Threads, NEW j \in 1 .. Len(spare'[u])
        PROVE  \E i \in 1 .. Len(spare[u]) :
                  i = (IF u = t THEN j + 1 ELSE j) /\ spare'[u][j] = spare[u][i] /\ spare[u][i] # b
    <3>1. \A i \in 1 .. Len(spare[u]) : spare[u][i] = b => u = t /\ i = 1
      BY <2>3 DEF ChainInv
    <3>2. CASE u = t
      <4>1. j \in 1 .. Len(r) /\ spare'[u][j] = r[j]
        BY <1>0, <2>4, <3>2
      <4>2. j + 1 \in 1 .. Len(spare[t]) /\ r[j] = spare[t][j + 1] /\ j + 1 # 1
        <5>1. PICK l \in Nat \ {0} : l = Len(spare[t])
          BY <2>2
        <5>2. j \in 1 .. l - 1 /\ j \in Int
          BY <2>2, <4>1, <5>1
        <5>3. j + 1 \in 1 .. l /\ j + 1 # 1
          BY <5>2
        <5>4. QED
          BY <2>2, <4>1, <5>1, <5>3
      <4>3. spare[u][j + 1] # b
        BY <3>1, <3>2, <4>2
      <4>4. QED
        BY <3>2, <4>1, <4>2, <4>3
    <3>3. CASE u # t
      BY <1>0, <2>4, <3>1, <3>3
    <3>4. QED
      BY <3>2, <3>3
  <2>7. cap' \in [Blocks -> Nat] /\ cap'[b] >= BlockNeed(n) /\ \A c \in Blocks : cap'[c] >= cap[c]
    BY <1>0, <2>3, <2>4
  <2>8. spare' \in [Threads -> Seq(Blocks)]
    BY <1>0, <2>2, <2>4
  <2>9. todo' \in [Threads -> Seq(Ops)]
    <3>1. PICK x, y : x = [k |-> "live", d |-> cap'[b]] /\ y = [k |-> "spare", d |-> -cap[b]]
      OBVIOUS
    <3>2. cap[b] \in Nat /\ cap'[b] \in Nat
      BY <1>0, <2>3, <2>7
    <3>3. x \in Ops /\ y \in Ops
      BY <3>1, <3>2 DEF Ops
    <3>4. PICK q : q = <<x>> \o <<y>>
      OBVIOUS
    <3>5. q \in Seq(Ops)
      BY <3>3, <3>4
    <3>6. todo' = [todo EXCEPT ![t] = q]
      BY <2>4, <3>1, <3>4
    <3>7. QED
      BY <3>5, <3>6
  <2>10. BlockTaken(t, n, b, 1)
    BY <1>3, <2>3, <2>5, <2>6, <2>7, <2>8, <2>9 DEF BlockTaken
  <2>11. QED
    BY <2>10
<1>5. CASE ~reuse
  <2>1. b \in Blocks /\ cap[b] = 0
    BY <1>2, <1>3, <1>5
  <2>2. /\ cap' = [cap EXCEPT ![b] = BlockNeed(n)]
        /\ spare' = spare
        /\ todo' = [todo EXCEPT ![t] = <<[k |-> "live", d |-> cap'[b]]>> \o <<>>]
    BY <1>0, <1>3, <1>5
  <2> HIDE DEF reuse, fresh
  <2>3. \A u \in Threads : \A i \in 1 .. Len(arena[u]) : arena[u][i] # b
    BY <1>0, <2>1 DEF ChainInv
  <2>4. \A u \in Threads : \A i \in 1 .. Len(spare[u]) : spare[u][i] # b
    BY <1>0, <2>1 DEF ChainInv
  <2>5. ASSUME NEW u \in Threads, NEW j \in 1 .. Len(spare'[u])
        PROVE  \E i \in 1 .. Len(spare[u]) :
                  i = (IF u = t THEN j + 0 ELSE j) /\ spare'[u][j] = spare[u][i] /\ spare[u][i] # b
    <3>1. j \in 1 .. Len(spare[u]) /\ j + 0 = j
      BY <2>2
    <3>2. QED
      BY <2>2, <2>4, <3>1
  <2>6. cap' \in [Blocks -> Nat] /\ cap'[b] = BlockNeed(n) /\ \A c \in Blocks : cap'[c] >= cap[c]
    BY <1>0, <1>1, <2>1, <2>2
  <2>7. todo' \in [Threads -> Seq(Ops)]
    <3>1. PICK x : x = [k |-> "live", d |-> cap'[b]]
      OBVIOUS
    <3>2. x \in Ops
      BY <1>1, <2>6, <3>1 DEF Ops
    <3>3. PICK q : q = <<x>> \o <<>>
      OBVIOUS
    <3>4. q \in Seq(Ops)
      BY <3>2, <3>3
    <3>5. todo' = [todo EXCEPT ![t] = q]
      BY <2>2, <3>1, <3>3
    <3>6. QED
      BY <3>4, <3>5
  <2>8. cap'[b] >= BlockNeed(n)
    BY <1>1, <2>6
  <2>9. spare' \in [Threads -> Seq(Blocks)]
    BY <1>0, <2>2
  <2>10. BlockTaken(t, n, b, 0)
    BY <1>3, <2>1, <2>3, <2>5, <2>6, <2>7, <2>8, <2>9 DEF BlockTaken
  <2>11. QED
    BY <2>10
<1>6. QED
  BY <1>4, <1>5

(* An allocation that needs a block.                                       *)
LEMMA BlockStep ==
    ASSUME ArenaInv, NEW t \in Threads, NEW n \in Sizes, ~exited, AllocBlock(t, n),
           UNCHANGED <<depth, marks, mt, exited>>
    PROVE  ArenaInv'
<1>0. ChainInv /\ SpaceInv /\ MarkInv /\ StoreTypes /\ HeldTypes /\ CallTypes
  BY DEF ArenaInv, ArenaTypes
<1>a. /\ cap \in [Blocks -> Nat] /\ used \in [Blocks -> Nat] /\ \A c \in Blocks : used[c] <= cap[c]
      /\ arena \in [Threads -> Seq(Blocks)]
  BY <1>0 DEF StoreTypes
<1>1. \E b, d : d \in {0, 1} /\ BlockTaken(t, n, b, d)
  BY <1>0, BlockIsTaken DEF CallTypes
<1>2. PICK b, d : d \in {0, 1} /\ BlockTaken(t, n, b, d)
  BY <1>1
<1>3. Footprint(n) \in Nat \ {0} /\ BlockNeed(n) \in Nat \ {0} /\ Footprint(n) <= BlockNeed(n)
  BY FootprintType, ArenaAssumption DEF BlockNeed
<1>4. /\ b \in Blocks /\ cap' \in [Blocks -> Nat] /\ cap'[b] >= Footprint(n) /\ cap'[b] > 0
      /\ \A c \in Blocks : cap'[c] >= cap[c]
  BY <1>2, <1>3 DEF BlockTaken
<1>5. \A u \in Threads : \A i \in 1 .. Len(arena[u]) : arena[u][i] # b
  BY <1>2 DEF BlockTaken
<1>6. /\ ChainInv' /\ arena' \in [Threads -> Seq(Blocks)]
      /\ arena'[t][1] = b /\ 1 \in 1 .. Len(arena'[t])
      /\ \A u \in Threads : \A i \in 1 .. Len(arena[u]) :
            \E k \in 1 .. Len(arena'[u]) : k = (IF u = t THEN i + 1 ELSE i) /\ arena'[u][k] = arena[u][i]
      /\ \A u \in Threads : \A i \in 1 .. Len(arena'[u]) :
            \/ u = t /\ i = 1 /\ arena'[u][i] = b
            \/ \E k \in 1 .. Len(arena[u]) : i = (IF u = t THEN k + 1 ELSE k) /\ arena'[u][i] = arena[u][k]
  <2>1. arena' = [arena EXCEPT ![t] = <<b>> \o arena[t]]
    BY <1>2 DEF BlockTaken
  <2>2. \A u \in Threads : \A j \in 1 .. Len(spare'[u]) : \E i \in 1 .. Len(spare[u]) :
            i = (IF u = t THEN j + d ELSE j) /\ spare'[u][j] = spare[u][i] /\ spare[u][i] # b
    BY <1>2 DEF BlockTaken
  <2>3. d \in {0, 1}
    BY <1>2
  <2>4. QED
    <3>1. ChainInv' /\ ChainPushed(t, b)
      BY <1>0, <1>4, <1>5, <2>1, <2>2, <2>3, BlockChained
    <3>2. QED
      BY <3>1 DEF ChainPushed
<1>7. PICK o : o = Obj(t, Ptr(b, 0), n, FALSE)
  OBVIOUS
<1>8. /\ o \in Objs /\ ~o.per /\ o.by = t /\ o.n = n
      /\ o.p \in Ptrs /\ o.p.blk = b /\ o.p.off = 0 /\ objs' = objs \cup {o} /\ fl' = fl
  BY <1>2, <1>4, <1>7 DEF Obj, Objs, Ptr, Ptrs, BlockTaken
<1>9. Ephemeral' = Ephemeral \cup {o} /\ HeldTypes'
  BY <1>0, <1>8, HoldOne
<1>10. /\ used' \in [Blocks -> Nat] /\ used'[b] = Footprint(n)
       /\ \A c \in Blocks \ {b} : used'[c] = used[c]
       /\ \A c \in Blocks : used'[c] <= cap'[c]
  <2>1. used' = [used EXCEPT ![b] = Footprint(n)]
    BY <1>2 DEF BlockTaken
  <2>2. used' \in [Blocks -> Nat] /\ used'[b] = Footprint(n) /\ \A c \in Blocks \ {b} : used'[c] = used[c]
    BY <1>a, <1>3, <1>4, <2>1
  <2>3. ASSUME NEW c \in Blocks PROVE used'[c] <= cap'[c]
    <3>1. used[c] \in Nat /\ cap[c] \in Nat /\ cap'[c] \in Nat /\ used[c] <= cap[c] /\ cap'[c] >= cap[c]
      BY <1>a, <1>4
    <3>2. QED
      BY <1>3, <1>4, <2>2, <3>1
  <2>4. QED
    BY <2>2, <2>3
<1>11. Backed(o.by, o.p, o.n)'
  <2>1. arena'[o.by][1] = o.p.blk /\ 1 \in 1 .. Len(arena'[o.by])
    BY <1>6, <1>8
  <2>2. o.p.off + Footprint(o.n) <= used'[o.p.blk]
    BY <1>3, <1>8, <1>10
  <2>3. QED
    BY <2>1, <2>2 DEF Backed, InArena
<1>12. ASSUME NEW u \in Threads, NEW q \in Ptrs, NEW m \in Sizes \cup {0}, Backed(u, q, m)
       PROVE  Backed(u, q, m)' /\ Apart(q, m, o.p, o.n)
  <2>1. PICK i \in 1 .. Len(arena[u]) : arena[u][i] = q.blk
    BY <1>12 DEF Backed, InArena
  <2>2. q.blk \in Blocks /\ q.blk # b
    BY <1>a, <1>5, <2>1
  <2>3. PICK k \in 1 .. Len(arena'[u]) : arena'[u][k] = arena[u][i]
    BY <1>6
  <2>4. q.off + Footprint(m) <= used'[q.blk]
    BY <1>10, <1>12, <2>2 DEF Backed
  <2>5. Backed(u, q, m)'
    BY <2>1, <2>3, <2>4 DEF Backed, InArena
  <2>6. QED
    BY <1>8, <2>2, <2>5 DEF Apart
<1>13. SpaceInv'
  BY <1>0, <1>8, <1>9, <1>11, <1>12, NewSpace
<1>14. MarkInv'
  <2>1. ASSUME NEW u \in Threads, NEW m \in marks[u] PROVE MarkOK(u, m)'
    <3>1. MarkOK(u, m) /\ m.head \in Blocks \cup {NoBlock} /\ m.used \in Nat
      BY <1>0 DEF MarkInv, HeldTypes, Marks
    <3>2. \A x \in m.keep : x \in Ephemeral' /\ x \in Ephemeral /\ x.by = u
      BY <1>9, <3>1 DEF MarkOK
    <3>3. m.head # NoBlock => m.used <= cap'[m.head]
      <4>1. ASSUME m.head # NoBlock PROVE m.used <= cap'[m.head]
        <5>1. m.head \in Blocks /\ m.used <= cap[m.head]
          BY <3>1, <4>1 DEF MarkOK
        <5>2. cap[m.head] \in Nat /\ cap'[m.head] \in Nat /\ cap'[m.head] >= cap[m.head]
          BY <1>a, <1>4, <5>1
        <5>3. QED
          BY <3>1, <5>1, <5>2
      <4>2. QED
        BY <4>1
    <3>4. ASSUME NEW x \in m.keep, NEW i \in 1 .. Len(arena'[u]), NEW j \in 1 .. Len(arena'[u]),
                 arena'[u][i] = m.head, arena'[u][j] = x.p.blk
          PROVE  j >= i /\ (j = i => x.p.off + Footprint(x.n) <= m.used)
      <4>1. x.p.blk # b
        <5>1. Backed(u, x.p, x.n)
          BY <1>0, <3>2 DEF SpaceInv
        <5>2. QED
          BY <1>5, <5>1 DEF Backed, InArena
      <4>2. PICK l \in 1 .. Len(arena[u]) : j = (IF u = t THEN l + 1 ELSE l) /\ arena'[u][j] = arena[u][l]
        BY <1>6, <3>4, <4>1
      <4>3. CASE u = t /\ i = 1 /\ arena'[u][i] = b
        BY <4>2, <4>3
      <4>4. CASE \E k \in 1 .. Len(arena[u]) : i = (IF u = t THEN k + 1 ELSE k) /\ arena'[u][i] = arena[u][k]
        <5>1. PICK k \in 1 .. Len(arena[u]) : i = (IF u = t THEN k + 1 ELSE k) /\ arena'[u][i] = arena[u][k]
          BY <4>4
        <5>2. l >= k /\ (l = k => x.p.off + Footprint(x.n) <= m.used)
          BY <3>1, <3>4, <4>2, <5>1 DEF MarkOK
        <5>3. QED
          BY <4>2, <5>1, <5>2
      <4>5. QED
        BY <1>6, <4>3, <4>4
    <3>5. m.head = NoBlock => m.keep = {}
      BY <3>1 DEF MarkOK
    <3>6. QED
      BY <3>2, <3>3, <3>4, <3>5 DEF MarkOK
  <2>2. QED
    BY <2>1 DEF MarkInv
<1>15. StoreTypes' /\ CallTypes'
  BY <1>0, <1>2, <1>4, <1>6, <1>10 DEF StoreTypes, CallTypes, BlockTaken
<1>16. QED
  BY <1>6, <1>9, <1>13, <1>14, <1>15 DEF ArenaInv, ArenaTypes

-----------------------------------------------------------------------------
(* The drops.                                                              *)

(* The program gives up what is in dead, and the chains stay.              *)
LEMMA MarksAfterLoss ==
    ASSUME MarkInv, NEW dead, NEW ms, \A t \in Threads : ms[t] \subseteq marks[t],
           Followed(dead, ms), Ephemeral' = Ephemeral \ dead, UNCHANGED <<cap, arena>>
    PROVE  MarkInv'
<1>1. ASSUME NEW t \in Threads, NEW k \in marks'[t] PROVE MarkOK(t, k)'
  <2>1. PICK m \in ms[t] : k.head = m.head /\ k.used = m.used /\ k.keep = m.keep \ dead
    BY DEF Followed
  <2>2. MarkOK(t, m)
    BY <2>1 DEF MarkInv
  <2>3. QED
    BY <2>1, <2>2 DEF MarkOK
<1>2. QED
  BY <1>1 DEF MarkInv

\* Entry k of the list of u for m is p, which was put into the list of t for n,
\* or it was in its list already.
FromList(t, n, p, u, m, k) ==
    \/ u = t /\ m = n /\ k = 1 /\ fl'[u][m][k] = p
    \/ \E j \in 1 .. Len(fl[u][m]) :
          k = (IF u = t /\ m = n THEN j + 1 ELSE j) /\ fl'[u][m][k] = fl[u][m][j]

(* An ephemeral thing goes to the free list of its thread: the space.      *)
LEMMA FreedSpace ==
    ASSUME StoreTypes, HeldTypes, SpaceInv, NEW t \in Threads, NEW o \in Ephemeral,
           o.by = t, o.n \in Listed, Ephemeral' = Ephemeral \ {o},
           fl' = [fl EXCEPT ![t][o.n] = <<o.p>> \o fl[t][o.n]],
           UNCHANGED <<used, arena>>
    PROVE  SpaceInv' /\ fl' \in [Threads -> [Listed -> Seq(Ptrs)]]
<1>1. PICK n, p : n = o.n /\ p = o.p
  OBVIOUS
<1>2. /\ fl \in [Threads -> [Listed -> Seq(Ptrs)]] /\ n \in Listed /\ fl[t][n] \in Seq(Ptrs)
      /\ p \in Ptrs
  BY <1>1 DEF StoreTypes, HeldTypes, Ephemeral, Objs
<1>3. PICK r : r = <<p>> \o fl[t][n]
  OBVIOUS
<1>4. /\ r \in Seq(Ptrs) /\ Len(r) = Len(fl[t][n]) + 1 /\ Len(fl[t][n]) \in Nat /\ r[1] = p
      /\ \A i \in 1 .. Len(fl[t][n]) : r[i + 1] = fl[t][n][i]
      /\ \A i \in 1 .. Len(r) : i # 1 => i - 1 \in 1 .. Len(fl[t][n]) /\ r[i] = fl[t][n][i - 1]
  BY <1>2, <1>3, Pushed
<1>5. /\ fl' \in [Threads -> [Listed -> Seq(Ptrs)]] /\ fl'[t][n] = r
      /\ \A u \in Threads, m \in Listed : ~(u = t /\ m = n) => fl'[u][m] = fl[u][m]
  BY <1>1, <1>2, <1>3, <1>4
<1>6. Backed(t, p, n) /\ \A x \in Ephemeral' : Apart(p, n, x.p, x.n)
  BY <1>1 DEF SpaceInv
<1>7. ASSUME NEW u \in Threads, NEW m \in Listed, NEW k \in 1 .. Len(fl'[u][m])
      PROVE  FromList(t, n, p, u, m, k)
  <2>1. CASE u = t /\ m = n /\ k = 1
    BY <1>4, <1>5, <2>1 DEF FromList
  <2>2. CASE u = t /\ m = n /\ k # 1
    <3>1. k \in 1 .. Len(r)
      BY <1>5, <2>2
    <3>2. k - 1 \in 1 .. Len(fl[t][n]) /\ r[k] = fl[t][n][k - 1]
      BY <1>4, <2>2, <3>1
    <3>3. k = (k - 1) + 1
      OBVIOUS
    <3>4. QED
      BY <1>5, <2>2, <3>2, <3>3 DEF FromList
  <2>3. CASE ~(u = t /\ m = n)
    BY <1>5, <2>3 DEF FromList
  <2>4. QED
    BY <2>1, <2>2, <2>3
<1>8. ASSUME NEW u \in Threads, NEW m \in Listed, NEW j \in 1 .. Len(fl[u][m])
      PROVE  /\ Backed(u, fl[u][m][j], m) /\ Apart(fl[u][m][j], m, p, n)
             /\ \A x \in Ephemeral : Apart(fl[u][m][j], m, x.p, x.n)
  BY <1>1 DEF SpaceInv
<1>9. \A x \in Ephemeral' : Backed(x.by, x.p, x.n)'
  BY DEF SpaceInv, Backed, InArena
<1>10. \A x, y \in Ephemeral' : x # y => Apart(x.p, x.n, y.p, y.n)
  BY DEF SpaceInv
<1>11. ASSUME NEW u \in Threads, NEW m \in Listed, NEW k \in 1 .. Len(fl'[u][m])
       PROVE  Backed(u, fl[u][m][k], m)' /\ \A x \in Ephemeral' : Apart(fl'[u][m][k], m, x.p, x.n)
  <2>1. CASE u = t /\ m = n /\ k = 1 /\ fl'[u][m][k] = p
    <3>1. Backed(u, fl[u][m][k], m)'
      BY <1>6, <2>1 DEF Backed, InArena
    <3>2. QED
      BY <1>6, <2>1, <3>1
  <2>2. CASE \E j \in 1 .. Len(fl[u][m]) :
                k = (IF u = t /\ m = n THEN j + 1 ELSE j) /\ fl'[u][m][k] = fl[u][m][j]
    <3>1. PICK j \in 1 .. Len(fl[u][m]) :
                k = (IF u = t /\ m = n THEN j + 1 ELSE j) /\ fl'[u][m][k] = fl[u][m][j]
      BY <2>2
    <3>2. Backed(u, fl[u][m][j], m) /\ \A x \in Ephemeral : Apart(fl[u][m][j], m, x.p, x.n)
      BY <1>8
    <3>3. Backed(u, fl[u][m][k], m)'
      BY <3>1, <3>2 DEF Backed, InArena
    <3>4. QED
      BY <3>1, <3>2, <3>3
  <2>3. FromList(t, n, p, u, m, k)
    BY <1>7
  <2>4. QED
    BY <2>1, <2>2, <2>3, Zenon DEF FromList
<1>12. ASSUME NEW u \in Threads, NEW w \in Threads, NEW m \in Listed, NEW q \in Listed,
              NEW k \in 1 .. Len(fl'[u][m]), NEW j \in 1 .. Len(fl'[w][q]),
              ~(u = w /\ m = q /\ k = j)
       PROVE  Apart(fl'[u][m][k], m, fl'[w][q][j], q)
  <2>1. CASE /\ u = t /\ m = n /\ k = 1 /\ fl'[u][m][k] = p
             /\ \E b \in 1 .. Len(fl[w][q]) : fl'[w][q][j] = fl[w][q][b]
    <3>1. PICK b \in 1 .. Len(fl[w][q]) : fl'[w][q][j] = fl[w][q][b]
      BY <2>1
    <3>2. Apart(p, n, fl[w][q][b], q)
      BY <1>8, ApartSwap
    <3>3. QED
      BY <2>1, <3>1, <3>2
  <2>2. CASE /\ w = t /\ q = n /\ j = 1 /\ fl'[w][q][j] = p
             /\ \E a \in 1 .. Len(fl[u][m]) : fl'[u][m][k] = fl[u][m][a]
    <3>1. PICK a \in 1 .. Len(fl[u][m]) : fl'[u][m][k] = fl[u][m][a]
      BY <2>2
    <3>2. QED
      BY <1>8, <2>2, <3>1
  <2>3. CASE /\ \E a \in 1 .. Len(fl[u][m]) :
                  k = (IF u = t /\ m = n THEN a + 1 ELSE a) /\ fl'[u][m][k] = fl[u][m][a]
             /\ \E b \in 1 .. Len(fl[w][q]) :
                  j = (IF w = t /\ q = n THEN b + 1 ELSE b) /\ fl'[w][q][j] = fl[w][q][b]
    <3>1. PICK a \in 1 .. Len(fl[u][m]) :
                  k = (IF u = t /\ m = n THEN a + 1 ELSE a) /\ fl'[u][m][k] = fl[u][m][a]
      BY <2>3
    <3>2. PICK b \in 1 .. Len(fl[w][q]) :
                  j = (IF w = t /\ q = n THEN b + 1 ELSE b) /\ fl'[w][q][j] = fl[w][q][b]
      BY <2>3
    <3>3. ~(u = w /\ m = q /\ a = b)
      BY <1>12, <3>1, <3>2
    <3>4. Apart(fl[u][m][a], m, fl[w][q][b], q)
      BY <3>3 DEF SpaceInv
    <3>5. QED
      BY <3>1, <3>2, <3>4
  <2>4. FromList(t, n, p, u, m, k) /\ FromList(t, n, p, w, q, j)
    BY <1>7
  <2>5. QED
    BY <1>12, <2>1, <2>2, <2>3, <2>4, Zenon DEF FromList
<1>13. SpaceInv'
  BY <1>9, <1>10, <1>11, <1>12, Zenon DEF SpaceInv, Apart
<1>14. QED
  BY <1>5, <1>13

(* baga_free: to libc, to the free list of its thread, or nowhere.         *)
LEMMA FreeStep ==
    ASSUME ~CrossDrop, ArenaInv, NEW t \in Threads, BagaFree(t) PROVE ArenaInv'
<1>0. ~exited /\ ChainInv /\ SpaceInv /\ MarkInv /\ StoreTypes /\ HeldTypes /\ CallTypes
  BY DEF ArenaInv, ArenaTypes, BagaFree, Ready
<1>1. PICK o \in objs :
         /\ o.by = t \/ o.per
         /\ Forget({o}, marks)
         /\ fl' = IF ~o.per /\ o.n \in Listed
                  THEN [fl EXCEPT ![t][o.n] = <<o.p>> \o fl[t][o.n]] ELSE fl
         /\ UNCHANGED <<cap, used, arena, spare, depth, mt, todo, exited>>
  BY DEF BagaFree
<1>2. objs' = objs \ {o} /\ Ephemeral' = Ephemeral \ {o} /\ marks \in [Threads -> SUBSET Marks]
  BY <1>0, <1>1 DEF Forget, Ephemeral, HeldTypes
<1>3. marks' \in [Threads -> SUBSET Marks] /\ Followed({o}, marks)
  BY <1>1, <1>2, ForgetMarks
<1>4. MarkInv'
  <2>1. \A u \in Threads : marks[u] \subseteq marks[u]
    OBVIOUS
  <2>2. QED
    BY <1>0, <1>1, <1>2, <1>3, <2>1, MarksAfterLoss
<1>5. HeldTypes'
  <2>1. IsFiniteSet(objs')
    BY <1>0, <1>2, FS_RemoveElement DEF HeldTypes
  <2>2. QED
    BY <1>0, <1>2, <1>3, <2>1 DEF HeldTypes
<1>6. ChainInv'
  BY <1>0, <1>1 DEF ChainInv
<1>7. SpaceInv' /\ fl' \in [Threads -> [Listed -> Seq(Ptrs)]]
  <2>1. CASE ~o.per /\ o.n \in Listed
    <3>1. o \in Ephemeral /\ o.by = t
      BY <1>1, <2>1 DEF Ephemeral
    <3>2. fl' = [fl EXCEPT ![t][o.n] = <<o.p>> \o fl[t][o.n]] /\ UNCHANGED <<used, arena>>
      BY <1>1, <2>1
    <3>3. QED
      BY <1>0, <1>2, <2>1, <3>1, <3>2, FreedSpace
  <2>2. CASE ~(~o.per /\ o.n \in Listed)
    <3>1. fl' = fl /\ Ephemeral' \subseteq Ephemeral /\ UNCHANGED <<used, arena>>
      BY <1>1, <1>2, <2>2
    <3>2. SpaceInv'
      BY <1>0, <3>1 DEF SpaceInv, Backed, InArena
    <3>3. QED
      BY <1>0, <3>1, <3>2 DEF StoreTypes
  <2>3. QED
    BY <2>1, <2>2
<1>8. StoreTypes' /\ CallTypes'
  BY <1>0, <1>1, <1>7 DEF StoreTypes, CallTypes
<1>9. QED
  BY <1>4, <1>5, <1>6, <1>7, <1>8 DEF ArenaInv, ArenaTypes

-----------------------------------------------------------------------------
(* mem_rewind.                                                             *)

\* The chain of t has c blocks above the mark m: all of them, or the next one
\* is the block of the mark.
CutAt(t, m, c) ==
    /\ c \in 0 .. Len(arena[t])
    /\ Above(t, m) = SubSeq(arena[t], 1, c)
    /\ \/ c = Len(arena[t]) /\ \A i \in 1 .. Len(arena[t]) : arena[t][i] # m.head
       \/ c + 1 \in 1 .. Len(arena[t]) /\ arena[t][c + 1] = m.head

(* The walk of mem_rewind ends at the block of the mark, or at the end.    *)
LEMMA AboveIsCut ==
    ASSUME StoreTypes, ChainInv, NEW t \in Threads, NEW m PROVE \E c : CutAt(t, m, c)
<1>0. Len(arena[t]) \in Nat
  BY DEF StoreTypes
<1> DEFINE at == {i \in 1 .. Len(arena[t]) : arena[t][i] = m.head}
<1>1. CASE at = {}
  <2>1. Above(t, m) = SubSeq(arena[t], 1, Len(arena[t]))
    BY <1>1 DEF Above
  <2>2. \A i \in 1 .. Len(arena[t]) : arena[t][i] # m.head
    BY <1>1
  <2>3. CutAt(t, m, Len(arena[t]))
    BY <1>0, <2>1, <2>2 DEF CutAt
  <2>4. QED
    BY <2>3
<1>2. CASE at # {}
  <2>1. PICK i : i \in at
    BY <1>2
  <2>2. i \in 1 .. Len(arena[t]) /\ arena[t][i] = m.head /\ i \in Int
    BY <2>1
  <2>3. at = {i}
    <3>1. \A j \in at : j = i
      BY <2>2 DEF ChainInv
    <3>2. QED
      BY <2>1, <3>1
  <2>4. Min({i}) = i
    <3>1. \E x \in {i} : \A y \in {i} : x =< y
      BY <2>2
    <3>2. QED
      BY <3>1 DEF Min
  <2>5. Above(t, m) = SubSeq(arena[t], 1, i - 1)
    <3>1. Above(t, m) = SubSeq(arena[t], 1, Min(at) - 1)
      BY <1>2 DEF Above
    <3>2. QED
      BY <2>3, <2>4, <3>1
  <2>6. PICK c : c = i - 1
    OBVIOUS
  <2>7. c \in 0 .. Len(arena[t]) /\ c + 1 = i
    BY <1>0, <2>2, <2>6
  <2>8. CutAt(t, m, c)
    BY <2>2, <2>5, <2>6, <2>7 DEF CutAt
  <2>9. QED
    BY <2>8
<1>3. QED
  BY <1>1, <1>2

\* Block j of the spare chain of u was there, or is one of the c blocks that
\* left the arena chain of t.
FromChain(t, c, u, j) ==
    \/ \E k \in 1 .. Len(spare[u]) : j = (IF u = t THEN k + c ELSE k) /\ spare'[u][j] = spare[u][k]
    \/ u = t /\ j \in 1 .. c /\ \E k \in 1 .. c : k = c - j + 1 /\ spare'[u][j] = arena[t][k]

\* The chain of t has lost its first c blocks.
ChainCut(t, c) ==
    /\ arena' \in [Threads -> Seq(Blocks)] /\ spare' \in [Threads -> Seq(Blocks)]
    /\ \A u \in Threads \ {t} : arena'[u] = arena[u]
    /\ Len(arena'[t]) = Len(arena[t]) - c
    /\ \A i \in 1 .. Len(arena'[t]) : i + c \in 1 .. Len(arena[t]) /\ arena'[t][i] = arena[t][i + c]

(* The first blocks of an arena chain go to the spare chain.               *)
LEMMA BlocksSpared ==
    ASSUME StoreTypes, ChainInv, NEW t \in Threads, NEW c \in 0 .. Len(arena[t]),
           arena' = [arena EXCEPT ![t] = SubSeq(arena[t], c + 1, Len(arena[t]))],
           spare' = [spare EXCEPT ![t] = Reverse(SubSeq(arena[t], 1, c)) \o spare[t]],
           cap' = cap
    PROVE  ChainInv' /\ ChainCut(t, c)
<1>0. arena \in [Threads -> Seq(Blocks)] /\ spare \in [Threads -> Seq(Blocks)]
  BY DEF StoreTypes
<1>1. PICK a, r, d : /\ a = SubSeq(arena[t], 1, c) /\ r = SubSeq(arena[t], c + 1, Len(arena[t]))
                     /\ d = Reverse(a) \o spare[t]
  OBVIOUS
<1>2. arena[t] \in Seq(Blocks) /\ spare[t] \in Seq(Blocks)
  BY <1>0
<1>3. /\ a \in Seq(Blocks) /\ Len(a) = c /\ \A i \in 1 .. c : a[i] = arena[t][i]
      /\ r \in Seq(Blocks) /\ Len(r) = Len(arena[t]) - c /\ \A i \in 1 .. Len(r) : r[i] = arena[t][i + c]
      /\ d \in Seq(Blocks) /\ Len(d) = c + Len(spare[t])
      /\ \A i \in 1 .. c : d[i] = arena[t][c - i + 1]
      /\ \A i \in 1 .. Len(d) : i > c => i - c \in 1 .. Len(spare[t]) /\ d[i] = spare[t][i - c]
  <2>1. IsCut(Blocks, arena[t], spare[t], c, a, r, d)
    BY <1>1, <1>2, CutChain
  <2>2. QED
    BY <2>1 DEF IsCut
<1>4. /\ arena' \in [Threads -> Seq(Blocks)] /\ arena'[t] = r
      /\ \A u \in Threads \ {t} : arena'[u] = arena[u]
  BY <1>0, <1>1, <1>3
<1>5. /\ spare' \in [Threads -> Seq(Blocks)] /\ spare'[t] = d
      /\ \A u \in Threads \ {t} : spare'[u] = spare[u]
  BY <1>0, <1>1, <1>3
<1>6. Len(arena[t]) \in Nat /\ c \in Nat /\ Len(spare[t]) \in Nat
  BY <1>0
<1>7. ChainCut(t, c)
  <2>1. \A i \in 1 .. Len(r) : i + c \in 1 .. Len(arena[t])
    BY <1>3, <1>6
  <2>2. QED
    BY <1>3, <1>4, <1>5, <2>1 DEF ChainCut
<1>8. ASSUME NEW u \in Threads, NEW i \in 1 .. Len(arena'[u])
      PROVE  \E k \in 1 .. Len(arena[u]) :
                /\ k = (IF u = t THEN i + c ELSE i) /\ arena'[u][i] = arena[u][k]
                /\ (u = t => k > c)
  <2>1. CASE u = t
    <3>1. i + c \in 1 .. Len(arena[t]) /\ arena'[t][i] = arena[t][i + c] /\ i + c > c
      BY <1>6, <1>7, <2>1 DEF ChainCut
    <3>2. QED
      BY <2>1, <3>1
  <2>2. CASE u # t
    BY <1>4, <2>2
  <2>3. QED
    BY <2>1, <2>2
<1>9. ASSUME NEW u \in Threads, NEW j \in 1 .. Len(spare'[u]) PROVE FromChain(t, c, u, j)
  <2>1. CASE u = t /\ j > c
    <3>1. j \in 1 .. Len(d) /\ j \in Int
      BY <1>5, <2>1
    <3>2. j - c \in 1 .. Len(spare[t]) /\ d[j] = spare[t][j - c]
      BY <1>3, <2>1, <3>1
    <3>3. j = (j - c) + c
      BY <1>6, <3>1
    <3>4. QED
      BY <1>5, <2>1, <3>2, <3>3 DEF FromChain
  <2>2. CASE u = t /\ ~(j > c)
    <3>1. j \in 1 .. c
      BY <1>6, <2>2
    <3>2. c - j + 1 \in 1 .. c /\ d[j] = arena[t][c - j + 1]
      BY <1>3, <1>6, <3>1
    <3>3. QED
      BY <1>5, <2>2, <3>1, <3>2 DEF FromChain
  <2>3. CASE u # t
    BY <1>5, <2>3 DEF FromChain
  <2>4. QED
    BY <2>1, <2>2, <2>3
<1>10. ASSUME NEW u \in Threads, NEW w \in Threads,
              NEW i \in 1 .. Len(arena'[u]), NEW j \in 1 .. Len(arena'[w]), arena'[u][i] = arena'[w][j]
       PROVE  u = w /\ i = j
  <2>1. PICK k \in 1 .. Len(arena[u]) : k = (IF u = t THEN i + c ELSE i) /\ arena'[u][i] = arena[u][k]
    BY <1>8
  <2>2. PICK l \in 1 .. Len(arena[w]) : l = (IF w = t THEN j + c ELSE j) /\ arena'[w][j] = arena[w][l]
    BY <1>8
  <2>3. u = w /\ k = l
    BY <1>10, <2>1, <2>2 DEF ChainInv
  <2>4. QED
    BY <1>6, <2>1, <2>2, <2>3
<1>11. ASSUME NEW u \in Threads, NEW w \in Threads,
              NEW i \in 1 .. Len(spare'[u]), NEW j \in 1 .. Len(spare'[w]), spare'[u][i] = spare'[w][j]
       PROVE  u = w /\ i = j
  <2>0. FromChain(t, c, u, i) /\ FromChain(t, c, w, j)
    BY <1>9
  <2>a. \A x, y \in Threads : \A e \in 1 .. Len(spare[x]), f \in 1 .. Len(spare[y]) :
            spare[x][e] = spare[y][f] => x = y /\ e = f
    BY DEF ChainInv
  <2>b. \A e \in 1 .. c : e \in 1 .. Len(arena[t])
    BY <1>6
  <2>c. \A y \in Threads : \A e \in 1 .. c, f \in 1 .. Len(spare[y]) : arena[t][e] # spare[y][f]
    BY <2>b DEF ChainInv
  <2>d. \A e, f \in 1 .. c : arena[t][e] = arena[t][f] => e = f
    BY <2>b DEF ChainInv
  <2>1. CASE /\ \E k \in 1 .. Len(spare[u]) : i = (IF u = t THEN k + c ELSE k) /\ spare'[u][i] = spare[u][k]
             /\ \E k \in 1 .. Len(spare[w]) : j = (IF w = t THEN k + c ELSE k) /\ spare'[w][j] = spare[w][k]
    <3>1. PICK k \in 1 .. Len(spare[u]) : i = (IF u = t THEN k + c ELSE k) /\ spare'[u][i] = spare[u][k]
      BY <2>1
    <3>2. PICK l \in 1 .. Len(spare[w]) : j = (IF w = t THEN l + c ELSE l) /\ spare'[w][j] = spare[w][l]
      BY <2>1
    <3>3. spare[u][k] = spare[w][l]
      BY <1>11, <3>1, <3>2
    <3>4. u = w /\ k = l
      BY <2>a, <3>3
    <3>5. QED
      BY <3>1, <3>2, <3>4
  <2>2. CASE /\ \E k \in 1 .. Len(spare[u]) : spare'[u][i] = spare[u][k]
             /\ \E k \in 1 .. c : spare'[w][j] = arena[t][k]
    <3>1. PICK k \in 1 .. Len(spare[u]) : spare'[u][i] = spare[u][k]
      BY <2>2
    <3>2. PICK l \in 1 .. c : spare'[w][j] = arena[t][l]
      BY <2>2
    <3>3. arena[t][l] # spare[u][k]
      BY <2>c
    <3>4. QED
      BY <1>11, <3>1, <3>2, <3>3
  <2>3. CASE /\ \E k \in 1 .. c : spare'[u][i] = arena[t][k]
             /\ \E k \in 1 .. Len(spare[w]) : spare'[w][j] = spare[w][k]
    <3>1. PICK k \in 1 .. c : spare'[u][i] = arena[t][k]
      BY <2>3
    <3>2. PICK l \in 1 .. Len(spare[w]) : spare'[w][j] = spare[w][l]
      BY <2>3
    <3>3. arena[t][k] # spare[w][l]
      BY <2>c
    <3>4. QED
      BY <1>11, <3>1, <3>2, <3>3
  <2>4. CASE /\ u = t /\ i \in 1 .. c /\ \E k \in 1 .. c : k = c - i + 1 /\ spare'[u][i] = arena[t][k]
             /\ w = t /\ j \in 1 .. c /\ \E k \in 1 .. c : k = c - j + 1 /\ spare'[w][j] = arena[t][k]
    <3>1. PICK k \in 1 .. c : k = c - i + 1 /\ spare'[u][i] = arena[t][k]
      BY <2>4
    <3>2. PICK l \in 1 .. c : l = c - j + 1 /\ spare'[w][j] = arena[t][l]
      BY <2>4
    <3>3. k = l
      BY <1>11, <2>d, <3>1, <3>2
    <3>4. QED
      BY <1>6, <2>4, <3>1, <3>2, <3>3, SMTT(40)
  <2>5. QED
    BY <2>0, <2>1, <2>2, <2>3, <2>4, Zenon DEF FromChain
<1>12. ASSUME NEW u \in Threads, NEW w \in Threads,
              NEW i \in 1 .. Len(arena'[u]), NEW j \in 1 .. Len(spare'[w])
       PROVE  arena'[u][i] # spare'[w][j]
  <2>0. FromChain(t, c, w, j)
    BY <1>9
  <2>1. PICK k \in 1 .. Len(arena[u]) : arena'[u][i] = arena[u][k] /\ (u = t => k > c)
    <3>1. \E k \in 1 .. Len(arena[u]) :
                /\ k = (IF u = t THEN i + c ELSE i) /\ arena'[u][i] = arena[u][k]
                /\ (u = t => k > c)
      BY <1>8
    <3>2. QED
      BY <3>1
  <2>2. CASE \E l \in 1 .. Len(spare[w]) : spare'[w][j] = spare[w][l]
    <3>1. PICK l \in 1 .. Len(spare[w]) : spare'[w][j] = spare[w][l]
      BY <2>2
    <3>2. arena[u][k] # spare[w][l]
      BY DEF ChainInv
    <3>3. QED
      BY <2>1, <3>1, <3>2
  <2>3. CASE \E l \in 1 .. c : spare'[w][j] = arena[t][l]
    <3>1. PICK l \in 1 .. c : spare'[w][j] = arena[t][l]
      BY <2>3
    <3>2. l \in 1 .. Len(arena[t]) /\ ~(l > c)
      BY <1>6
    <3>3. arena[u][k] # arena[t][l]
      BY <2>1, <3>2 DEF ChainInv
    <3>4. QED
      BY <2>1, <3>1, <3>3
  <2>4. QED
    BY <2>0, <2>2, <2>3, Zenon DEF FromChain
<1>13. ASSUME NEW u \in Threads, NEW i \in 1 .. Len(arena'[u]) PROVE cap'[arena'[u][i]] > 0
  <2>1. PICK k \in 1 .. Len(arena[u]) : k = (IF u = t THEN i + c ELSE i) /\ arena'[u][i] = arena[u][k]
    BY <1>8
  <2>2. QED
    BY <2>1 DEF ChainInv
<1>14. ASSUME NEW u \in Threads, NEW j \in 1 .. Len(spare'[u]) PROVE cap'[spare'[u][j]] > 0
  <2>0. FromChain(t, c, u, j)
    BY <1>9
  <2>1. CASE \E l \in 1 .. Len(spare[u]) : spare'[u][j] = spare[u][l]
    BY <2>1 DEF ChainInv
  <2>2. CASE \E l \in 1 .. c : spare'[u][j] = arena[t][l]
    <3>1. \A l \in 1 .. c : l \in 1 .. Len(arena[t])
      BY <1>6
    <3>2. QED
      BY <2>2, <3>1 DEF ChainInv
  <2>3. QED
    BY <2>0, <2>1, <2>2, Zenon DEF FromChain
<1>15. ChainInv'
  BY <1>10, <1>11, <1>12, <1>13, <1>14, Zenon DEF ChainInv
<1>16. QED
  BY <1>7, <1>15

\* What the thread of a mark may lose by its rewind.
Lost(t, m) == {o \in Ephemeral : o.by = t} \ m.keep

(* What is held after the rewind of a mark that was found lies in the      *)
(* chains still: of the things of this thread only those are left that the *)
(* mark protects, and they are not above it.                               *)
LEMMA RewoundSpace ==
    ASSUME StoreTypes, HeldTypes, ChainInv, SpaceInv, NEW t \in Threads, NEW m \in marks[t],
           MarkOK(t, m), NEW c, CutAt(t, m, c), Found(t, m), ChainCut(t, c),
           Ephemeral' = Ephemeral \ Lost(t, m),
           used' = (IF m.head = NoBlock THEN used ELSE [used EXCEPT ![m.head] = m.used]),
           fl' = Scrub(t)
    PROVE  SpaceInv' /\ fl' \in [Threads -> [Listed -> Seq(Ptrs)]]
<1>0. /\ used \in [Blocks -> Nat] /\ arena \in [Threads -> Seq(Blocks)]
      /\ fl \in [Threads -> [Listed -> Seq(Ptrs)]]
      /\ m.head \in Blocks \cup {NoBlock} /\ m.used \in Nat
      /\ c \in 0 .. Len(arena[t]) /\ Len(arena[t]) \in Nat
  BY DEF StoreTypes, HeldTypes, Marks, CutAt
<1>1. m.head # NoBlock => c + 1 \in 1 .. Len(arena[t]) /\ arena[t][c + 1] = m.head
  BY DEF CutAt, Found
<1>2. \A x \in Ephemeral' : x \in Ephemeral /\ (x.by = t => x \in m.keep) /\ x.by \in Threads
                             /\ x.p \in Ptrs /\ x.n \in Sizes \cup {0}
  BY DEF Lost, HeldTypes, Objs, Ephemeral
<1>3. /\ fl' \in [Threads -> [Listed -> Seq(Ptrs)]]
      /\ \A n \in Listed : Len(fl'[t][n]) = 0
      /\ \A u \in Threads \ {t} : fl'[u] = fl[u]
  BY <1>0 DEF Scrub
<1>4. ASSUME NEW u \in Threads \ {t}, NEW q, NEW n, Backed(u, q, n)
      PROVE  Backed(u, q, n)'
  <2>1. PICK i \in 1 .. Len(arena[u]) : arena[u][i] = q.blk
    BY <1>4 DEF Backed, InArena
  <2>2. q.blk \in Blocks /\ q.blk # m.head
    <3>1. q.blk \in Blocks
      BY <1>0, <2>1
    <3>2. CASE m.head = NoBlock
      BY <3>1, <3>2 DEF Blocks, NoBlock
    <3>3. CASE m.head # NoBlock
      <4>1. c + 1 \in 1 .. Len(arena[t]) /\ arena[t][c + 1] = m.head
        BY <1>1, <3>3
      <4>2. arena[u][i] # arena[t][c + 1]
        BY <4>1 DEF ChainInv
      <4>3. QED
        BY <2>1, <3>1, <4>1, <4>2
    <3>4. QED
      BY <3>1, <3>2, <3>3
  <2>3. used'[q.blk] = used[q.blk]
    BY <1>0, <2>2
  <2>4. arena'[u] = arena[u]
    BY DEF ChainCut
  <2>5. QED
    BY <1>4, <2>3, <2>4 DEF Backed, InArena
<1>5. ASSUME NEW x \in m.keep, x \in Ephemeral' PROVE Backed(t, x.p, x.n)'
  <2>1. m.head # NoBlock
    BY DEF MarkOK
  <2>2. c + 1 \in 1 .. Len(arena[t]) /\ arena[t][c + 1] = m.head /\ m.head \in Blocks
    BY <1>0, <1>1, <2>1
  <2>3. used' = [used EXCEPT ![m.head] = m.used]
    BY <2>1
  <2>4. Backed(t, x.p, x.n)
    BY DEF MarkOK, SpaceInv
  <2>5. PICK j \in 1 .. Len(arena[t]) : arena[t][j] = x.p.blk
    BY <2>4 DEF Backed, InArena
  <2>6. j >= c + 1 /\ (j = c + 1 => x.p.off + Footprint(x.n) <= m.used)
    BY <2>2, <2>5 DEF MarkOK
  <2>7. x.p.blk \in Blocks /\ (j # c + 1 => x.p.blk # m.head) /\ (j = c + 1 => x.p.blk = m.head)
    BY <1>0, <2>2, <2>5 DEF ChainInv
  <2>8. x.p.off + Footprint(x.n) <= used'[x.p.blk]
    <3>1. CASE j = c + 1
      BY <1>0, <2>2, <2>3, <2>6, <2>7, <3>1
    <3>2. CASE j # c + 1
      <4>1. used'[x.p.blk] = used[x.p.blk]
        BY <1>0, <2>2, <2>3, <2>7, <3>2
      <4>2. QED
        BY <2>4, <4>1 DEF Backed
    <3>3. QED
      BY <3>1, <3>2
  <2>9. Len(arena'[t]) = Len(arena[t]) - c /\ c \in Nat /\ j \in Nat
    BY <1>0 DEF ChainCut
  <2>10. PICK i : i = j - c
    OBVIOUS
  <2>11. i \in 1 .. Len(arena'[t]) /\ i + c = j
    BY <1>0, <2>6, <2>9, <2>10
  <2>12. arena'[t][i] = x.p.blk
    BY <2>5, <2>11 DEF ChainCut
  <2>13. QED
    BY <2>8, <2>11, <2>12 DEF Backed, InArena
<1>6. ASSUME NEW x \in Ephemeral' PROVE Backed(x.by, x.p, x.n)'
  <2>1. CASE x.by = t
    BY <1>2, <1>5, <2>1
  <2>2. CASE x.by # t
    <3>1. Backed(x.by, x.p, x.n)
      BY <1>2 DEF SpaceInv
    <3>2. QED
      BY <1>2, <1>4, <2>2, <3>1
  <2>3. QED
    BY <2>1, <2>2
<1>7. \A x, y \in Ephemeral' : x # y => Apart(x.p, x.n, y.p, y.n)
  BY <1>2 DEF SpaceInv
<1>8. ASSUME NEW u \in Threads, NEW n \in Listed, NEW k \in 1 .. Len(fl'[u][n])
      PROVE  u # t /\ fl'[u][n] = fl[u][n]
  <2>1. u # t
    BY <1>3
  <2>2. QED
    BY <1>3, <2>1
<1>9. ASSUME NEW u \in Threads, NEW n \in Listed, NEW k \in 1 .. Len(fl'[u][n])
      PROVE  Backed(u, fl[u][n][k], n)' /\ \A x \in Ephemeral' : Apart(fl'[u][n][k], n, x.p, x.n)
  <2>1. u \in Threads \ {t} /\ fl'[u][n] = fl[u][n] /\ k \in 1 .. Len(fl[u][n])
    BY <1>8
  <2>2. PICK q : q = fl[u][n][k]
    OBVIOUS
  <2>3. Backed(u, q, n) /\ \A x \in Ephemeral : Apart(q, n, x.p, x.n)
    BY <2>1, <2>2 DEF SpaceInv
  <2>4. Backed(u, q, n)'
    BY <1>4, <2>1, <2>3
  <2>5. Backed(u, fl[u][n][k], n)'
    BY <2>1, <2>2, <2>4 DEF Backed, InArena
  <2>6. QED
    BY <1>2, <2>1, <2>2, <2>3, <2>5
<1>10. ASSUME NEW u \in Threads, NEW w \in Threads, NEW n \in Listed, NEW q \in Listed,
              NEW k \in 1 .. Len(fl'[u][n]), NEW j \in 1 .. Len(fl'[w][q]),
              ~(u = w /\ n = q /\ k = j)
       PROVE  Apart(fl'[u][n][k], n, fl'[w][q][j], q)
  <2>1. fl'[u][n] = fl[u][n] /\ fl'[w][q] = fl[w][q]
    BY <1>8
  <2>2. Apart(fl[u][n][k], n, fl[w][q][j], q)
    BY <1>10, <2>1 DEF SpaceInv
  <2>3. QED
    BY <2>1, <2>2
<1>11. SpaceInv'
  BY <1>6, <1>7, <1>9, <1>10, Zenon DEF SpaceInv, Apart
<1>12. QED
  BY <1>3, <1>11

(* mem_rewind, of a mark that is found in the chain or not.                *)
LEMMA RewindStep ==
    ASSUME ArenaInv, NEW t \in Threads, MemRewind(t) PROVE ArenaInv'
<1>0. ~exited /\ ChainInv /\ SpaceInv /\ MarkInv /\ StoreTypes /\ HeldTypes /\ CallTypes
  BY DEF ArenaInv, ArenaTypes, MemRewind, Ready
<1>1. PICK m \in marks[t] :
         /\ arena' = [arena EXCEPT ![t] = SubSeq(arena[t], Len(Above(t, m)) + 1, Len(arena[t]))]
         /\ spare' = [spare EXCEPT ![t] = Reverse(Above(t, m)) \o spare[t]]
         /\ todo' = [todo EXCEPT ![t] = CounterOps(Above(t, m))]
         /\ IF Found(t, m)
            THEN /\ used' = IF m.head = NoBlock THEN used ELSE [used EXCEPT ![m.head] = m.used]
                 /\ fl' = Scrub(t)
                 /\ Forget(Lost(t, m), [marks EXCEPT ![t] = marks[t] \ {m}])
                 /\ UNCHANGED exited
            ELSE exited' = TRUE /\ UNCHANGED <<used, fl, objs, marks>>
         /\ UNCHANGED <<cap, depth, mt>>
  BY DEF MemRewind, Lost
<1>2. PICK c : CutAt(t, m, c)
  BY <1>0, AboveIsCut
<1>3. /\ c \in 0 .. Len(arena[t]) /\ Above(t, m) = SubSeq(arena[t], 1, c)
      /\ arena[t] \in Seq(Blocks)
  BY <1>0, <1>2 DEF CutAt, StoreTypes
<1>4. Above(t, m) \in Seq(Blocks) /\ Len(Above(t, m)) = c
  BY <1>3
<1>5. ChainInv' /\ ChainCut(t, c)
  <2>1. /\ arena' = [arena EXCEPT ![t] = SubSeq(arena[t], c + 1, Len(arena[t]))]
        /\ spare' = [spare EXCEPT ![t] = Reverse(SubSeq(arena[t], 1, c)) \o spare[t]]
        /\ cap' = cap
    BY <1>1, <1>3, <1>4
  <2>2. QED
    BY <1>0, <1>3, <2>1, BlocksSpared
<1>6. todo' \in [Threads -> Seq(Ops)]
  <2>1. CounterOps(Above(t, m)) \in Seq(Ops)
    BY <1>0, <1>4, CounterOpsType
  <2>2. QED
    BY <1>0, <1>1, <2>1 DEF CallTypes
<1>7. arena' \in [Threads -> Seq(Blocks)] /\ spare' \in [Threads -> Seq(Blocks)]
  BY <1>5 DEF ChainCut
<1>8. CASE ~Found(t, m)
  <2>1. exited' = TRUE /\ UNCHANGED <<used, fl, objs, marks, cap, depth, mt>>
    BY <1>1, <1>8
  <2>2. StoreTypes' /\ HeldTypes'
    BY <1>0, <1>7, <2>1 DEF StoreTypes, HeldTypes
  <2>3. CallTypes'
    BY <1>0, <1>6, <2>1 DEF CallTypes
  <2>4. QED
    BY <2>1, <2>2, <2>3 DEF ArenaInv, ArenaTypes
<1>9. CASE Found(t, m)
  <2>1. PICK ms : ms = [marks EXCEPT ![t] = marks[t] \ {m}]
    OBVIOUS
  <2>2. /\ used' = (IF m.head = NoBlock THEN used ELSE [used EXCEPT ![m.head] = m.used])
        /\ fl' = Scrub(t) /\ Forget(Lost(t, m), ms) /\ UNCHANGED <<exited, cap, depth, mt>>
    BY <1>1, <1>9, <2>1
  <2>3. ms \in [Threads -> SUBSET Marks] /\ \A u \in Threads : ms[u] \subseteq marks[u]
    BY <1>0, <2>1 DEF HeldTypes
  <2>4. marks' \in [Threads -> SUBSET Marks] /\ Followed(Lost(t, m), ms)
    BY <2>2, <2>3, ForgetMarks
  <2>5. objs' = objs \ Lost(t, m) /\ Ephemeral' = Ephemeral \ Lost(t, m)
    BY <2>2 DEF Forget, Ephemeral
  <2>6. MarkOK(t, m) /\ m \in Marks
    BY <1>0 DEF MarkInv, HeldTypes
  <2>7. SpaceInv' /\ fl' \in [Threads -> [Listed -> Seq(Ptrs)]]
    BY <1>0, <1>2, <1>5, <1>9, <2>2, <2>5, <2>6, RewoundSpace
  <2>8. used' \in [Blocks -> Nat] /\ \A b \in Blocks : used'[b] <= cap[b]
    <3>1. used \in [Blocks -> Nat] /\ \A b \in Blocks : used[b] <= cap[b]
      BY <1>0 DEF StoreTypes
    <3>2. m.head \in Blocks \cup {NoBlock} /\ m.used \in Nat
      BY <2>6 DEF Marks
    <3>3. m.head # NoBlock => m.used <= cap[m.head]
      BY <2>6 DEF MarkOK
    <3>4. QED
      BY <2>2, <3>1, <3>2, <3>3
  <2>9. StoreTypes' /\ CallTypes'
    BY <1>0, <1>6, <1>7, <2>2, <2>7, <2>8 DEF StoreTypes, CallTypes
  <2>10. HeldTypes'
    <3>1. IsFiniteSet(objs')
      <4>1. objs' \in SUBSET objs /\ IsFiniteSet(objs)
        BY <1>0, <2>5 DEF HeldTypes
      <4>2. QED
        BY <4>1, FS_Subset
    <3>2. QED
      BY <1>0, <2>4, <2>5, <3>1 DEF HeldTypes
  <2>11. MarkInv'
    <3>1. ASSUME NEW u \in Threads, NEW k \in marks'[u] PROVE MarkOK(u, k)'
      <4>1. PICK x \in ms[u] : k.head = x.head /\ k.used = x.used /\ k.keep = x.keep \ Lost(t, m)
        BY <2>4 DEF Followed
      <4>2. MarkOK(u, x)
        BY <1>0, <2>3, <4>1 DEF MarkInv
      <4>3. \A o \in k.keep : o \in x.keep /\ o \in Ephemeral' /\ o.by = u
        BY <2>5, <4>1, <4>2 DEF MarkOK
      <4>4. /\ k.head = NoBlock => k.keep = {}
            /\ k.head # NoBlock => k.used <= cap'[k.head]
        BY <2>2, <4>1, <4>2 DEF MarkOK
      <4>5. ASSUME NEW o \in k.keep, NEW i \in 1 .. Len(arena'[u]), NEW j \in 1 .. Len(arena'[u]),
                   arena'[u][i] = k.head, arena'[u][j] = o.p.blk
            PROVE  j >= i /\ (j = i => o.p.off + Footprint(o.n) <= k.used)
        <5>1. CASE u = t
          <6>1. /\ i + c \in 1 .. Len(arena[t]) /\ arena[t][i + c] = k.head
                /\ j + c \in 1 .. Len(arena[t]) /\ arena[t][j + c] = o.p.blk
            BY <1>5, <4>5, <5>1 DEF ChainCut
          <6>2. j + c >= i + c /\ (j + c = i + c => o.p.off + Footprint(o.n) <= k.used)
            BY <4>1, <4>2, <4>3, <5>1, <6>1 DEF MarkOK
          <6>3. QED
            BY <1>3, <6>2
        <5>2. CASE u # t
          <6>1. arena'[u] = arena[u]
            BY <1>5, <5>2 DEF ChainCut
          <6>2. QED
            BY <4>1, <4>2, <4>3, <4>5, <6>1 DEF MarkOK
        <5>3. QED
          BY <5>1, <5>2
      <4>6. QED
        BY <4>3, <4>4, <4>5 DEF MarkOK
    <3>2. QED
      BY <3>1 DEF MarkInv
  <2>12. QED
    BY <1>5, <2>7, <2>9, <2>10, <2>11 DEF ArenaInv, ArenaTypes
<1>10. QED
  BY <1>8, <1>9

-----------------------------------------------------------------------------
(* The theorem.                                                            *)

(* baga_alloc: one of its four ways to memory.                             *)
LEMMA AllocStep ==
    ASSUME ArenaInv, NEW t \in Threads, BagaAlloc(t) PROVE ArenaInv'
<1>1. /\ ~exited /\ Cardinality(objs) < MaxObjs /\ UNCHANGED <<depth, marks, mt, exited>>
      /\ \/ AllocPersist(t)
         \/ \E n \in Prog[t].sizes : AllocListed(t, n) \/ AllocBump(t, n) \/ AllocBlock(t, n)
  BY DEF BagaAlloc, Ready
<1>2. CASE AllocPersist(t)
  BY <1>1, <1>2, PersistStep
<1>3. ASSUME NEW n \in Prog[t].sizes, AllocListed(t, n) \/ AllocBump(t, n) \/ AllocBlock(t, n)
      PROVE  ArenaInv'
  <2>1. n \in Sizes
    BY AskedSize
  <2>2. QED
    BY <1>1, <1>3, <2>1, ListedStep, BumpStep, BlockStep
<1>4. QED
  BY <1>1, <1>2, <1>3

(* Every step keeps the invariant.                                         *)
LEMMA ArenaKept ==
    ASSUME ~CrossDrop, ArenaInv, [Next]_vars PROVE ArenaInv'
<1>1. CASE UNCHANGED vars
  <2>1. StoreTypes' /\ HeldTypes' /\ CallTypes'
    BY <1>1 DEF vars, ArenaInv, ArenaTypes, StoreTypes, HeldTypes, CallTypes
  <2>2. CASE exited
    BY <1>1, <2>1, <2>2 DEF vars, ArenaInv, ArenaTypes
  <2>3. CASE ~exited
    BY <1>1, <2>1, <2>3, QuietArena DEF vars
  <2>4. QED
    BY <2>2, <2>3
<1>2. ASSUME NEW t \in Threads,
             \/ BagaAlloc(t) \/ BagaFree(t) \/ MemMark(t) \/ MemRewind(t)
             \/ MemPersistBegin(t) \/ MemPersistEnd(t) \/ Counter(t)
      PROVE  ArenaInv'
  BY <1>2, AllocStep, FreeStep, MarkStep, RewindStep, BracketStep, CounterStep
<1>3. QED
  BY <1>1, <1>2 DEF Next

(* When no thread drops the ephemeral memory of another one, the arena is  *)
(* sound: no cell belongs to two allocations that the program holds, and   *)
(* what is older than a mark is in a block of its chain, below the bump    *)
(* pointer, whatever baga_alloc, baga_free, mem_mark and mem_rewind did    *)
(* and in whatever order the marks were rewound.                           *)
THEOREM ArenaIsSound ==
    ASSUME ~CrossDrop PROVE Spec => []ArenaSound
<1>1. Init => ArenaInv
  BY ArenaInvInit
<1>2. ArenaInv /\ [Next]_vars => ArenaInv'
  BY ArenaKept
<1>3. ArenaInv => ArenaSound
  BY InvIsSound
<1>4. QED
  BY <1>1, <1>2, <1>3, PTL DEF Spec

-----------------------------------------------------------------------------
(* The counters.                                                           *)

\* What the operations of kind k in s add to their counter.
Worth(e, k) == IF e.k = k THEN e.d ELSE 0
Worths(s, k) == [i \in 1 .. Len(s) |-> Worth(s[i], k)]
Weight(s, k) == SumFunctionOnSet(Worths(s, k), 1 .. Len(s))

\* What all threads have still to add to the counter of kind k.
Pending(k) == [t \in Threads |-> Weight(todo[t], k)]
Due(k) == SumFunctionOnSet(Pending(k), Threads)

\* A thread is about to raise the high-water mark to what live is.
Witness(t) == todo[t] # <<>> /\ Head(todo[t]).k = "peak" /\ mt.live <= Head(todo[t]).d

\* The counters, with what is still to be added to them.
Told == /\ mt.live + Due("live") = SumFunctionOnSet(cap, Chained)
        /\ mt.spare + Due("spare") = SumFunctionOnSet(cap, Spared)
        /\ mt.live <= mt.peak \/ \E t \in Threads : Witness(t)

(* The weight of a call's operations is an integer, and is nothing when it *)
(* has none.                                                               *)
LEMMA WeightType ==
    ASSUME NEW s \in Seq(Ops), NEW k
    PROVE  /\ Weight(s, k) \in Int /\ (s = <<>> => Weight(s, k) = 0)
           /\ \A i \in 1 .. Len(s) : Worths(s, k)[i] = Worth(s[i], k) /\ Worth(s[i], k) \in Int
<1>1. \A i \in 1 .. Len(s) : Worths(s, k)[i] = Worth(s[i], k) /\ Worth(s[i], k) \in Int
  <2> TAKE i \in 1 .. Len(s)
  <2>1. s[i] \in Ops
    OBVIOUS
  <2>2. s[i].d \in Int
    BY <2>1 DEF Ops
  <2>3. QED
    BY <2>2 DEF Worths, Worth
<1>2. IsFiniteSet(1 .. Len(s))
  BY FS_Interval
<1>3. Weight(s, k) \in Int
  BY <1>1, <1>2, SumRemove DEF Weight
<1>4. ASSUME s = <<>> PROVE Weight(s, k) = 0
  <2>1. 1 .. Len(s) = {}
    BY <1>4
  <2>2. QED
    BY <2>1, SumEmpty DEF Weight
<1>5. QED
  BY <1>1, <1>3, <1>4

(* An operation in front of the others.                                    *)
LEMMA WeightFront ==
    ASSUME NEW s \in Seq(Ops), NEW r \in Seq(Ops), NEW k, Len(r) = Len(s) + 1,
           \A i \in 1 .. Len(s) : r[i + 1] = s[i]
    PROVE  Weight(r, k) = Worth(r[1], k) + Weight(s, k)
<1>1. Len(s) \in Nat /\ 1 \in 1 .. Len(r)
  OBVIOUS
<1>2. (1 .. Len(r)) \ {1} = 2 .. Len(s) + 1
  BY <1>1
<1>3. IsFiniteSet(1 .. Len(r))
  BY FS_Interval
<1>4. Weight(r, k) = Worths(r, k)[1] + SumFunctionOnSet(Worths(r, k), 2 .. Len(s) + 1)
  <2>1. \A i \in 1 .. Len(r) : Worths(r, k)[i] \in Int
    BY WeightType
  <2>2. QED
    <3>1. SumFunctionOnSet(Worths(r, k), 1 .. Len(r))
              = Worths(r, k)[1] + SumFunctionOnSet(Worths(r, k), (1 .. Len(r)) \ {1})
      <4>1. PICK S : S = 1 .. Len(r)
        OBVIOUS
      <4>2. \A i \in S : Worths(r, k)[i] \in Int
        BY <2>1, <4>1
      <4>3. IsFiniteSet(S) /\ 1 \in S
        BY <1>1, <1>3, <4>1
      <4>4. SumFunctionOnSet(Worths(r, k), S) = Worths(r, k)[1] + SumFunctionOnSet(Worths(r, k), S \ {1})
        BY <4>2, <4>3, SumWithout
      <4>5. QED
        BY <4>1, <4>4
    <3>2. QED
      BY <1>2, <3>1 DEF Weight
<1>5. SumFunctionOnSet(Worths(r, k), 2 .. Len(s) + 1) = SumFunctionOnSet(Worths(s, k), 1 .. Len(s))
  <2>1. ASSUME NEW i \in 1 .. Len(s)
        PROVE  Worths(s, k)[i] \in Int /\ Worths(r, k)[i + 1] = Worths(s, k)[i]
    <3>1. i + 1 \in 1 .. Len(r) /\ r[i + 1] = s[i]
      BY <1>1
    <3>2. Worths(r, k)[i + 1] = Worth(r[i + 1], k)
      BY <3>1, WeightType
    <3>3. Worths(s, k)[i] = Worth(s[i], k) /\ Worth(s[i], k) \in Int
      BY WeightType
    <3>4. QED
      BY <3>1, <3>2, <3>3
  <2>2. QED
    BY <1>1, <2>1, SumShift
<1>6. QED
  BY <1>1, <1>4, <1>5, WeightType DEF Weight

\* The first n blocks of s.
Firsts(s, n) == {s[i] : i \in 1 .. n}

(* The operations of a rewind take the capacities of the blocks off live   *)
(* and add them to spare.                                                  *)
LEMMA WeightOfRewind ==
    ASSUME StoreTypes, NEW a \in Seq(Blocks),
           \A i, j \in 1 .. Len(a) : a[i] = a[j] => i = j
    PROVE  /\ Weight(CounterOps(a), "live") = 0 - SumFunctionOnSet(cap, Firsts(a, Len(a)))
           /\ Weight(CounterOps(a), "spare") = SumFunctionOnSet(cap, Firsts(a, Len(a)))
<1> DEFINE n == Len(a)
           s == CounterOps(a)
           l == Worths(s, "live")
           p == Worths(s, "spare")
           T == {m \in Nat : m <= n =>
                   /\ SumFunctionOnSet(l, 1 .. 2 * m) = 0 - SumFunctionOnSet(cap, Firsts(a, m))
                   /\ SumFunctionOnSet(p, 1 .. 2 * m) = SumFunctionOnSet(cap, Firsts(a, m))}
<1>1. n \in Nat /\ s \in Seq(Ops) /\ Len(s) = 2 * n
  <2>1. n \in Nat /\ s \in Seq(Ops)
    BY CounterOpsType
  <2>2. DOMAIN s = 1 .. 2 * n
    BY DEF CounterOps
  <2> HIDE DEF s, n
  <2>3. Len(s) = 2 * n
    BY <2>1, <2>2
  <2>4. QED
    BY <2>1, <2>3
<1>2. ASSUME NEW m \in 1 .. n
      PROVE  /\ l[2 * m - 1] = -cap[a[m]] /\ l[2 * m] = 0
             /\ p[2 * m - 1] = 0 /\ p[2 * m] = cap[a[m]] /\ cap[a[m]] \in Int
  <2>1. /\ 2 * m - 1 \in 1 .. 2 * n /\ 2 * m \in 1 .. 2 * n /\ (2 * m - 1) % 2 = 1 /\ (2 * m) % 2 = 0
        /\ ((2 * m - 1) + 1) \div 2 = m /\ (2 * m + 1) \div 2 = m
    BY <1>1
  <2>2. /\ s[2 * m - 1] = [k |-> "live", d |-> -cap[a[m]]]
        /\ s[2 * m] = [k |-> "spare", d |-> cap[a[m]]]
    BY <2>1 DEF CounterOps
  <2>3. cap[a[m]] \in Int
    BY DEF StoreTypes
  <2>4. Len(s) = 2 * n
    BY <1>1
  <2> HIDE DEF s
  <2>5. QED
    BY <2>1, <2>2, <2>3, <2>4 DEF Worths, Worth
<1>3. 0 \in T
  <2>1. 1 .. 2 * 0 = {} /\ Firsts(a, 0) = {}
    BY DEF Firsts
  <2> HIDE DEF l, p
  <2>2. /\ SumFunctionOnSet(l, {}) = 0 /\ SumFunctionOnSet(p, {}) = 0
        /\ SumFunctionOnSet(cap, {}) = 0
    BY SumEmpty, Zenon
  <2>3. /\ SumFunctionOnSet(l, 1 .. 2 * 0) = 0 /\ SumFunctionOnSet(p, 1 .. 2 * 0) = 0
        /\ SumFunctionOnSet(cap, Firsts(a, 0)) = 0
    BY <2>1, <2>2, Zenon
  <2>4. QED
    BY <2>3
<1>4. ASSUME NEW m \in Nat, m \in T PROVE m + 1 \in T
  <2> SUFFICES ASSUME m + 1 <= n
               PROVE  /\ SumFunctionOnSet(l, 1 .. 2 * (m + 1)) = 0 - SumFunctionOnSet(cap, Firsts(a, m + 1))
                      /\ SumFunctionOnSet(p, 1 .. 2 * (m + 1)) = SumFunctionOnSet(cap, Firsts(a, m + 1))
    OBVIOUS
  <2> DEFINE b == a[m + 1]
             F == Firsts(a, m)
             R == 1 .. 2 * m
  <2>1. m + 1 \in 1 .. n /\ 2 * (m + 1) - 1 = 2 * m + 1 /\ 2 * (m + 1) = 2 * m + 2
    BY <1>1
  <2>2. /\ l[2 * m + 1] = -cap[b] /\ l[2 * m + 2] = 0
        /\ p[2 * m + 1] = 0 /\ p[2 * m + 2] = cap[b] /\ cap[b] \in Int
    <3>1. /\ l[2 * (m + 1) - 1] = -cap[b] /\ l[2 * (m + 1)] = 0
          /\ p[2 * (m + 1) - 1] = 0 /\ p[2 * (m + 1)] = cap[b] /\ cap[b] \in Int
      BY <1>2, <2>1
    <3> HIDE DEF l, p
    <3>2. QED
      BY <2>1, <3>1
  <2>3. Firsts(a, m + 1) = F \cup {b} /\ b \notin F
    <3>1. \A i : i \in 1 .. m + 1 <=> i \in 1 .. m \/ i = m + 1
      OBVIOUS
    <3>2. \A i \in 1 .. m : i \in 1 .. n /\ i # m + 1
      BY <1>1
    <3>3. QED
      BY <2>1, <3>1, <3>2 DEF Firsts
  <2>4. IsFiniteSet(F) /\ \A x \in F \cup {b} : cap[x] \in Int
    <3>1. F \subseteq Blocks /\ b \in Blocks
      BY <1>1, <2>1 DEF Firsts
    <3>2. IsFiniteSet(Blocks)
      BY FS_Interval, ArenaAssumption DEF Blocks
    <3>3. QED
      BY <3>1, <3>2, FS_Subset DEF StoreTypes
  <2>5. SumFunctionOnSet(cap, F \cup {b}) = cap[b] + SumFunctionOnSet(cap, F)
    BY <2>3, <2>4, SumAdd
  <2>6. /\ 1 .. 2 * (m + 1) = (R \cup {2 * m + 1}) \cup {2 * m + 2}
        /\ 2 * m + 1 \notin R /\ 2 * m + 2 \notin R \cup {2 * m + 1}
        /\ IsFiniteSet(R) /\ IsFiniteSet(R \cup {2 * m + 1})
    <3>1. /\ 1 .. 2 * (m + 1) = (R \cup {2 * m + 1}) \cup {2 * m + 2}
          /\ 2 * m + 1 \notin R /\ 2 * m + 2 \notin R \cup {2 * m + 1}
      OBVIOUS
    <3>2. IsFiniteSet(R)
      BY FS_Interval
    <3> HIDE DEF R
    <3>3. QED
      BY <3>1, <3>2, FS_AddElement
  <2>7. \A k \in (R \cup {2 * m + 1}) \cup {2 * m + 2} : l[k] \in Int /\ p[k] \in Int
    <3>1. \A k \in 1 .. 2 * n : l[k] \in Int /\ p[k] \in Int
      <4> HIDE DEF s, n
      <4>1. QED
        BY <1>1, WeightType
    <3>2. \A k \in (R \cup {2 * m + 1}) \cup {2 * m + 2} : k \in 1 .. 2 * n
      BY <1>1, <2>1
    <3> HIDE DEF l, p, R
    <3>3. QED
      BY <3>1, <3>2
  <2>8. SumFunctionOnSet(l, R) = 0 - SumFunctionOnSet(cap, F) /\ SumFunctionOnSet(p, R) = SumFunctionOnSet(cap, F)
    BY <1>4
  <2>9. SumFunctionOnSet(cap, F) \in Int
    BY <2>4, SumRemove
  <2> HIDE DEF l, p, R, F, b
  <2>10. /\ SumFunctionOnSet(l, R \cup {2 * m + 1}) = l[2 * m + 1] + SumFunctionOnSet(l, R)
         /\ SumFunctionOnSet(p, R \cup {2 * m + 1}) = p[2 * m + 1] + SumFunctionOnSet(p, R)
    BY <2>6, <2>7, SumAdd
  <2>11. /\ SumFunctionOnSet(l, (R \cup {2 * m + 1}) \cup {2 * m + 2})
                 = l[2 * m + 2] + SumFunctionOnSet(l, R \cup {2 * m + 1})
         /\ SumFunctionOnSet(p, (R \cup {2 * m + 1}) \cup {2 * m + 2})
                 = p[2 * m + 2] + SumFunctionOnSet(p, R \cup {2 * m + 1})
    BY <2>6, <2>7, SumAdd
  <2> DEFINE c == SumFunctionOnSet(cap, F)
  <2>12. SumFunctionOnSet(cap, Firsts(a, m + 1)) = cap[b] + c /\ c \in Int /\ cap[b] \in Int
    BY <2>2, <2>3, <2>5, <2>9
  <2>13. /\ SumFunctionOnSet(l, 1 .. 2 * (m + 1)) = 0 + (-cap[b] + (0 - c))
         /\ SumFunctionOnSet(p, 1 .. 2 * (m + 1)) = cap[b] + (0 + c)
    BY <2>2, <2>6, <2>8, <2>10, <2>11
  <2> HIDE DEF c
  <2>14. 0 + (-cap[b] + (0 - c)) = 0 - (cap[b] + c) /\ cap[b] + (0 + c) = cap[b] + c
    BY <2>12
  <2>15. QED
    BY <2>12, <2>13, <2>14
<1>5. n \in T
  <2> HIDE DEF T, n
  <2>1. QED
    BY <1>1, <1>3, <1>4, NumberInduction
<1>6. QED
  BY <1>1, <1>5 DEF Weight

(* What is due is an integer.                                              *)
LEMMA DueType ==
    ASSUME todo \in [Threads -> Seq(Ops)], NEW k PROVE Due(k) \in Int
<1>1. \A u \in Threads : Pending(k)[u] \in Int
  BY WeightType DEF Pending
<1>2. QED
  BY <1>1, SumRemove, ArenaAssumption DEF Due

(* What is due changes as the operations of one thread do.                 *)
LEMMA DueChanges ==
    ASSUME todo \in [Threads -> Seq(Ops)], NEW t \in Threads, NEW s \in Seq(Ops),
           todo' = [todo EXCEPT ![t] = s], NEW k
    PROVE  /\ Due(k) \in Int
           /\ Due(k)' = Due(k) + Weight(s, k) - Weight(todo[t], k)
<1> DEFINE f == Pending(k)
           g == [u \in Threads |-> Weight(todo'[u], k)]
<1>1. \A u \in Threads : f[u] \in Int
  BY WeightType DEF Pending
<1>2. g[t] = Weight(s, k) /\ g[t] \in Int /\ \A u \in Threads \ {t} : g[u] = f[u]
  BY WeightType DEF Pending
<1>3. f[t] = Weight(todo[t], k)
  BY DEF Pending
<1>4. Due(k) = SumFunctionOnSet(f, Threads) /\ Due(k)' = SumFunctionOnSet(g, Threads)
  BY DEF Due, Pending
<1> HIDE DEF f, g
<1>5. IsFiniteSet(Threads)
  BY ArenaAssumption
<1>6. SumFunctionOnSet(f, Threads) \in Int
  BY <1>1, <1>5, SumRemove
<1>7. SumFunctionOnSet(g, Threads) = SumFunctionOnSet(f, Threads) + g[t] - f[t]
  BY <1>1, <1>2, <1>5, SumUpdate
<1>8. QED
  BY <1>2, <1>3, <1>4, <1>6, <1>7

\* b is in one of the chains of ch.
InChains(ch, b) == \E t \in Threads : \E i \in 1 .. Len(ch[t]) : ch[t][i] = b

(* The blocks of the chains, as a set.                                     *)
LEMMA ChainSet ==
    ASSUME NEW ch \in [Threads -> Seq(Blocks)], NEW S, S = UNION {Range(ch[t]) : t \in Threads}
    PROVE  /\ \A b : b \in S <=> InChains(ch, b)
           /\ S \subseteq Blocks /\ IsFiniteSet(S)
<1>1. ASSUME NEW t \in Threads, NEW b
      PROVE  b \in Range(ch[t]) <=> \E i \in 1 .. Len(ch[t]) : ch[t][i] = b
  <2>1. DOMAIN ch[t] = 1 .. Len(ch[t])
    OBVIOUS
  <2>2. QED
    BY <2>1 DEF Range
<1>2. ASSUME NEW b, InChains(ch, b) PROVE b \in S
  BY <1>1, <1>2 DEF InChains
<1>3. ASSUME NEW b \in S PROVE InChains(ch, b)
  <2>1. PICK t \in Threads : b \in Range(ch[t])
    OBVIOUS
  <2>2. QED
    BY <1>1, <2>1 DEF InChains
<1>4. S \subseteq Blocks
  <2>1. \A b : InChains(ch, b) => b \in Blocks
    BY DEF InChains
  <2>2. QED
    BY <1>3, <2>1
<1>5. IsFiniteSet(S)
  <2>1. IsFiniteSet(Blocks)
    BY FS_Interval, ArenaAssumption DEF Blocks
  <2>2. QED
    BY <1>4, <2>1, FS_Subset
<1>6. QED
  BY <1>2, <1>3, <1>4, <1>5

(* What leaves the counters, the queues and the chains alone.              *)
LEMMA ToldSame ==
    ASSUME Told, UNCHANGED <<cap, arena, spare, mt, todo>> PROVE Told'
  BY DEF Told, Due, Pending, Chained, Spared, Witness

(* One operation of baga_mt_bump: what is due becomes what is counted, and *)
(* the call that added to live is the next to raise the high-water mark.   *)
LEMMA CounterTells ==
    ASSUME ArenaInv, Told, NEW t \in Threads, Counter(t) PROVE Told'
<1>0. ~exited /\ CallTypes /\ StoreTypes /\ todo[t] # <<>> /\ UNCHANGED <<localVars, exited>>
  BY DEF ArenaInv, ArenaTypes, Counter
<1>1. PICK op : op = Head(todo[t])
  OBVIOUS
<1>2. PICK r : r = Tail(todo[t])
  OBVIOUS
<1>3. /\ todo \in [Threads -> Seq(Ops)] /\ op \in Ops /\ r \in Seq(Ops) /\ op = todo[t][1]
      /\ Len(todo[t]) = Len(r) + 1 /\ \A i \in 1 .. Len(r) : todo[t][i + 1] = r[i]
  BY <1>0, <1>1, <1>2 DEF CallTypes
<1>4. /\ op.k \in {"live", "peak", "spare"} /\ op.d \in Int
      /\ mt.live \in Int /\ mt.spare \in Int /\ mt.peak \in Int
      /\ mt = [live |-> mt.live, spare |-> mt.spare, peak |-> mt.peak]
  BY <1>0, <1>3 DEF Ops, CallTypes
<1>5. \A k : Weight(todo[t], k) = Worth(op, k) + Weight(r, k) /\ Weight(r, k) \in Int
  <2> TAKE k
  <2>1. Weight(r, k) \in Int
    BY <1>3, WeightType
  <2>2. Weight(todo[t], k) = Worth(todo[t][1], k) + Weight(r, k)
    <3>1. todo[t] \in Seq(Ops)
      BY <1>3
    <3>2. QED
      BY <1>3, <3>1, WeightFront
  <2>3. op = todo[t][1]
    BY <1>3
  <2>4. QED
    BY <2>1, <2>2, <2>3
<1>6. \A k : Due(k) \in Int
  BY <1>3, DueType
<1>7. Chained' = Chained /\ Spared' = Spared /\ cap' = cap
  BY <1>0 DEF localVars, Chained, Spared
<1>8. ASSUME op.k = "live" PROVE Told'
  <2>1. PICK e : e = [k |-> "peak", d |-> mt.live + op.d]
    OBVIOUS
  <2>2. PICK q : q = <<e>> \o r
    OBVIOUS
  <2>3. mt' = [mt EXCEPT !.live = mt.live + op.d] /\ todo' = [todo EXCEPT ![t] = q]
    BY <1>1, <1>2, <1>8, <2>1, <2>2 DEF Counter
  <2>4. /\ q \in Seq(Ops) /\ q[1] = e /\ Len(q) = Len(r) + 1 /\ \A i \in 1 .. Len(r) : q[i + 1] = r[i]
    <3>1. e \in Ops
      BY <1>4, <2>1 DEF Ops
    <3>2. QED
      BY <1>3, <2>2, <3>1, Pushed
  <2>5. \A k : Weight(q, k) = Worth(e, k) + Weight(r, k)
    BY <1>3, <2>4, WeightFront
  <2>6. \A k : Due(k)' = Due(k) + Weight(q, k) - Weight(todo[t], k)
    BY <1>3, <2>3, <2>4, DueChanges
  <2>7. /\ Worth(e, "live") = 0 /\ Worth(e, "spare") = 0
        /\ Worth(op, "live") = op.d /\ Worth(op, "spare") = 0
    BY <1>8, <2>1 DEF Worth
  <2>8. Due("live")' = Due("live") - op.d /\ Due("spare")' = Due("spare")
    BY <1>4, <1>5, <1>6, <2>5, <2>6, <2>7
  <2>9. mt'.live = mt.live + op.d /\ mt'.spare = mt.spare
    BY <1>4, <2>3
  <2>10. Witness(t)'
    <3>1. todo'[t] = q /\ q # <<>> /\ Head(q) = e
      BY <1>3, <2>3, <2>4
    <3>2. QED
      BY <1>4, <2>1, <2>9, <3>1 DEF Witness
  <2>11. QED
    BY <1>4, <1>6, <1>7, <2>8, <2>9, <2>10 DEF Told
<1>9. ASSUME op.k = "peak" PROVE Told'
  <2>1. mt' = [mt EXCEPT !.peak = Max({mt.peak, op.d})] /\ todo' = [todo EXCEPT ![t] = r]
    BY <1>1, <1>2, <1>9 DEF Counter
  <2>2. /\ Max({mt.peak, op.d}) \in Int
        /\ Max({mt.peak, op.d}) >= mt.peak /\ Max({mt.peak, op.d}) >= op.d
    <3>1. \E x \in {mt.peak, op.d} : \A y \in {mt.peak, op.d} : x >= y
      BY <1>4
    <3>2. QED
      BY <1>4, <3>1 DEF Max
  <2>3. \A k : Due(k)' = Due(k) + Weight(r, k) - Weight(todo[t], k)
    BY <1>3, <2>1, DueChanges
  <2>4. Worth(op, "live") = 0 /\ Worth(op, "spare") = 0
    BY <1>9 DEF Worth
  <2>5. Due("live")' = Due("live") /\ Due("spare")' = Due("spare")
    BY <1>5, <1>6, <2>3, <2>4
  <2>6. mt'.live = mt.live /\ mt'.spare = mt.spare /\ mt'.peak = Max({mt.peak, op.d})
    BY <1>4, <2>1
  <2>7. mt'.live <= mt'.peak \/ \E u \in Threads : Witness(u)'
    <3>1. CASE mt.live <= mt.peak
      BY <1>4, <2>2, <2>6, <3>1
    <3>2. CASE \E u \in Threads : Witness(u)
      <4>1. PICK u \in Threads : Witness(u)
        BY <3>2
      <4>2. CASE u = t
        BY <1>1, <1>4, <2>2, <2>6, <4>1, <4>2 DEF Witness
      <4>3. CASE u # t
        BY <1>3, <2>1, <2>6, <4>1, <4>3 DEF Witness
      <4>4. QED
        BY <4>2, <4>3
    <3>3. QED
      BY <3>1, <3>2 DEF Told
  <2>8. QED
    BY <1>7, <2>5, <2>6, <2>7 DEF Told
<1>10. ASSUME op.k = "spare" PROVE Told'
  <2>1. mt' = [mt EXCEPT !.spare = mt.spare + op.d] /\ todo' = [todo EXCEPT ![t] = r]
    BY <1>1, <1>2, <1>10 DEF Counter
  <2>2. \A k : Due(k)' = Due(k) + Weight(r, k) - Weight(todo[t], k)
    BY <1>3, <2>1, DueChanges
  <2>3. Worth(op, "live") = 0 /\ Worth(op, "spare") = op.d
    BY <1>10 DEF Worth
  <2>4. Due("live")' = Due("live") /\ Due("spare")' = Due("spare") - op.d
    BY <1>4, <1>5, <1>6, <2>2, <2>3
  <2>5. mt'.live = mt.live /\ mt'.spare = mt.spare + op.d /\ mt'.peak = mt.peak
    BY <1>4, <2>1
  <2>6. mt'.live <= mt'.peak \/ \E u \in Threads : Witness(u)'
    <3>1. \A u \in Threads : Witness(u) => u # t
      BY <1>1, <1>10 DEF Witness
    <3>2. \A u \in Threads : Witness(u) => Witness(u)'
      BY <1>3, <2>1, <2>5, <3>1 DEF Witness
    <3>3. QED
      BY <2>5, <3>2 DEF Told
  <2>7. QED
    BY <1>4, <1>6, <1>7, <2>4, <2>5, <2>6 DEF Told
<1>11. QED
  BY <1>4, <1>8, <1>9, <1>10

(* The chains after a rewind: the blocks in A went from arena to spare.    *)
LEMMA RewoundChains ==
    ASSUME arena \in [Threads -> Seq(Blocks)], spare \in [Threads -> Seq(Blocks)], ChainInv,
           NEW t \in Threads, NEW c \in 0 .. Len(arena[t]), NEW a, NEW r, NEW d,
           IsCut(Blocks, arena[t], spare[t], c, a, r, d),
           arena' = [arena EXCEPT ![t] = r], spare' = [spare EXCEPT ![t] = d]
    PROVE  /\ arena' \in [Threads -> Seq(Blocks)] /\ spare' \in [Threads -> Seq(Blocks)]
           /\ \A b : InChains(arena', b) <=> InChains(arena, b) /\ b \notin Firsts(a, c)
           /\ \A b : InChains(spare', b) <=> InChains(spare, b) \/ b \in Firsts(a, c)
           /\ \A b \in Firsts(a, c) : InChains(arena, b)
<1>0. Len(arena[t]) \in Nat /\ Len(spare[t]) \in Nat /\ c \in Nat
  OBVIOUS
<1>1. /\ a \in Seq(Blocks) /\ Len(a) = c /\ \A i \in 1 .. c : a[i] = arena[t][i]
      /\ r \in Seq(Blocks) /\ Len(r) = Len(arena[t]) - c /\ \A i \in 1 .. Len(r) : r[i] = arena[t][i + c]
      /\ d \in Seq(Blocks) /\ Len(d) = c + Len(spare[t])
      /\ \A i \in 1 .. c : d[i] = arena[t][c - i + 1]
      /\ \A i \in 1 .. Len(d) : i > c => i - c \in 1 .. Len(spare[t]) /\ d[i] = spare[t][i - c]
  BY DEF IsCut
<1>2. /\ arena' \in [Threads -> Seq(Blocks)] /\ arena'[t] = r /\ \A u \in Threads \ {t} : arena'[u] = arena[u]
      /\ spare' \in [Threads -> Seq(Blocks)] /\ spare'[t] = d /\ \A u \in Threads \ {t} : spare'[u] = spare[u]
  BY <1>1
<1>3. \A b : b \in Firsts(a, c) <=> \E i \in 1 .. c : arena[t][i] = b
  BY <1>1 DEF Firsts
<1>4. \A i \in 1 .. c : i \in 1 .. Len(arena[t])
  BY <1>0
<1>5. \A b : (\E i \in 1 .. Len(r) : r[i] = b) <=> \E i \in 1 .. Len(arena[t]) : i > c /\ arena[t][i] = b
  <2> TAKE b
  <2>1. ASSUME NEW i \in 1 .. Len(r), r[i] = b
        PROVE  \E k \in 1 .. Len(arena[t]) : k > c /\ arena[t][k] = b
    <3>1. i + c \in 1 .. Len(arena[t]) /\ i + c > c
      BY <1>0, <1>1
    <3>2. QED
      BY <1>1, <2>1, <3>1
  <2>2. ASSUME NEW i \in 1 .. Len(arena[t]), i > c, arena[t][i] = b
        PROVE  \E k \in 1 .. Len(r) : r[k] = b
    <3>1. i - c \in 1 .. Len(r) /\ (i - c) + c = i
      BY <1>0, <1>1, <2>2
    <3>2. r[i - c] = b
      BY <1>1, <2>2, <3>1
    <3>3. QED
      BY <3>1, <3>2
  <2>3. QED
    BY <2>1, <2>2
<1>6. \A b : (\E i \in 1 .. Len(d) : d[i] = b) <=> b \in Firsts(a, c) \/ \E i \in 1 .. Len(spare[t]) : spare[t][i] = b
  <2> TAKE b
  <2>1. ASSUME NEW i \in 1 .. Len(d), d[i] = b, ~(i > c) PROVE b \in Firsts(a, c)
    <3>1. i \in 1 .. c /\ c - i + 1 \in 1 .. c
      BY <1>0, <2>1
    <3>2. QED
      BY <1>1, <1>3, <2>1, <3>1
  <2>2. ASSUME NEW i \in 1 .. Len(d), d[i] = b, i > c PROVE \E k \in 1 .. Len(spare[t]) : spare[t][k] = b
    BY <1>1, <2>2
  <2>3. ASSUME NEW i \in 1 .. c, arena[t][i] = b PROVE \E k \in 1 .. Len(d) : d[k] = b
    <3>1. c - i + 1 \in 1 .. c /\ c - i + 1 \in 1 .. Len(d) /\ c - (c - i + 1) + 1 = i
      BY <1>0, <1>1
    <3>2. d[c - i + 1] = b
      BY <1>1, <2>3, <3>1
    <3>3. QED
      BY <3>1, <3>2
  <2>4. ASSUME NEW i \in 1 .. Len(spare[t]), spare[t][i] = b PROVE \E k \in 1 .. Len(d) : d[k] = b
    <3>1. i + c \in 1 .. Len(d) /\ i + c > c /\ (i + c) - c = i
      BY <1>0, <1>1
    <3>2. d[i + c] = b
      BY <1>1, <2>4, <3>1
    <3>3. QED
      BY <3>1, <3>2
  <2>5. QED
    BY <1>3, <2>1, <2>2, <2>3, <2>4
<1>7. ASSUME NEW b PROVE InChains(arena', b) <=> InChains(arena, b) /\ b \notin Firsts(a, c)
  <2>1. ASSUME InChains(arena', b) PROVE InChains(arena, b) /\ b \notin Firsts(a, c)
    <3>1. PICK u \in Threads : \E i \in 1 .. Len(arena'[u]) : arena'[u][i] = b
      BY <2>1 DEF InChains
    <3>2. CASE u = t
      <4>1. PICK i \in 1 .. Len(arena[t]) : i > c /\ arena[t][i] = b
        BY <1>2, <1>5, <3>1, <3>2
      <4>2. b \notin Firsts(a, c)
        <5>1. ASSUME NEW j \in 1 .. c, arena[t][j] = b PROVE FALSE
          <6>1. i = j
            BY <1>4, <4>1, <5>1 DEF ChainInv
          <6>2. QED
            BY <1>0, <4>1, <6>1
        <5>2. QED
          BY <1>3, <5>1
      <4>3. QED
        BY <4>1, <4>2 DEF InChains
    <3>3. CASE u # t
      <4>1. PICK i \in 1 .. Len(arena[u]) : arena[u][i] = b
        BY <1>2, <3>1, <3>3
      <4>2. b \notin Firsts(a, c)
        BY <1>3, <1>4, <3>3, <4>1 DEF ChainInv
      <4>3. QED
        BY <4>1, <4>2 DEF InChains
    <3>4. QED
      BY <3>2, <3>3
  <2>2. ASSUME InChains(arena, b), b \notin Firsts(a, c) PROVE InChains(arena', b)
    <3>1. PICK u \in Threads : \E i \in 1 .. Len(arena[u]) : arena[u][i] = b
      BY <2>2 DEF InChains
    <3>2. CASE u = t
      <4>1. PICK i \in 1 .. Len(arena[t]) : arena[t][i] = b
        BY <3>1, <3>2
      <4>2. i > c
        BY <1>0, <1>3, <2>2, <4>1
      <4>3. \E k \in 1 .. Len(arena'[t]) : arena'[t][k] = b
        BY <1>2, <1>5, <4>1, <4>2
      <4>4. QED
        BY <4>3 DEF InChains
    <3>3. CASE u # t
      BY <1>2, <3>1, <3>3 DEF InChains
    <3>4. QED
      BY <3>2, <3>3
  <2>3. QED
    BY <2>1, <2>2
<1>8. ASSUME NEW b PROVE InChains(spare', b) <=> InChains(spare, b) \/ b \in Firsts(a, c)
  <2>1. \A u \in Threads : u # t =>
            ((\E i \in 1 .. Len(spare'[u]) : spare'[u][i] = b) <=> \E i \in 1 .. Len(spare[u]) : spare[u][i] = b)
    BY <1>2
  <2>2. (\E i \in 1 .. Len(spare'[t]) : spare'[t][i] = b)
            <=> b \in Firsts(a, c) \/ \E i \in 1 .. Len(spare[t]) : spare[t][i] = b
    BY <1>2, <1>6
  <2>3. QED
    BY <2>1, <2>2 DEF InChains
<1>9. \A b \in Firsts(a, c) : InChains(arena, b)
  BY <1>3, <1>4 DEF InChains
<1>10. QED
  BY <1>2, <1>7, <1>8, <1>9

(* A block at the front of an arena chain: the chains as sets.             *)
LEMMA ChainGrows ==
    ASSUME arena \in [Threads -> Seq(Blocks)], NEW t \in Threads, NEW b \in Blocks,
           arena' = [arena EXCEPT ![t] = <<b>> \o arena[t]]
    PROVE  /\ arena' \in [Threads -> Seq(Blocks)]
           /\ \A x : InChains(arena', x) <=> InChains(arena, x) \/ x = b
<1>1. PICK r : r = <<b>> \o arena[t]
  OBVIOUS
<1>2. /\ r \in Seq(Blocks) /\ Len(r) = Len(arena[t]) + 1 /\ Len(arena[t]) \in Nat /\ r[1] = b
      /\ \A i \in 1 .. Len(arena[t]) : r[i + 1] = arena[t][i]
      /\ \A i \in 1 .. Len(r) : i # 1 => i - 1 \in 1 .. Len(arena[t]) /\ r[i] = arena[t][i - 1]
  BY <1>1, Pushed
<1>3. arena' \in [Threads -> Seq(Blocks)] /\ arena'[t] = r /\ \A u \in Threads \ {t} : arena'[u] = arena[u]
  BY <1>1, <1>2
<1>4. \A x : (\E i \in 1 .. Len(r) : r[i] = x) <=> x = b \/ \E i \in 1 .. Len(arena[t]) : arena[t][i] = x
  <2> TAKE x
  <2>1. 1 \in 1 .. Len(r) /\ \A i \in 1 .. Len(arena[t]) : i + 1 \in 1 .. Len(r)
    BY <1>2
  <2>2. QED
    BY <1>2, <2>1
<1>5. ASSUME NEW x PROVE InChains(arena', x) <=> InChains(arena, x) \/ x = b
  <2>1. (\E i \in 1 .. Len(arena'[t]) : arena'[t][i] = x) <=> x = b \/ \E i \in 1 .. Len(arena[t]) : arena[t][i] = x
    BY <1>3, <1>4
  <2>2. \A u \in Threads : u # t =>
            ((\E i \in 1 .. Len(arena'[u]) : arena'[u][i] = x) <=> \E i \in 1 .. Len(arena[u]) : arena[u][i] = x)
    BY <1>3
  <2>3. QED
    BY <2>1, <2>2 DEF InChains
<1>6. QED
  BY <1>3, <1>5

(* The first block of a spare chain is taken: the chains as sets.          *)
LEMMA ChainShrinks ==
    ASSUME spare \in [Threads -> Seq(Blocks)], ChainInv, NEW t \in Threads, spare[t] # <<>>,
           spare' = [spare EXCEPT ![t] = Tail(spare[t])]
    PROVE  /\ spare' \in [Threads -> Seq(Blocks)]
           /\ \A x : InChains(spare', x) <=> InChains(spare, x) /\ x # spare[t][1]
           /\ InChains(spare, spare[t][1])
<1>1. PICK r : r = Tail(spare[t])
  OBVIOUS
<1>2. /\ r \in Seq(Blocks) /\ Len(spare[t]) \in Nat \ {0} /\ Len(r) = Len(spare[t]) - 1
      /\ \A i \in 1 .. Len(r) : r[i] = spare[t][i + 1]
  BY <1>1, Popped
<1>3. spare' \in [Threads -> Seq(Blocks)] /\ spare'[t] = r /\ \A u \in Threads \ {t} : spare'[u] = spare[u]
  BY <1>1, <1>2
<1>4. 1 \in 1 .. Len(spare[t])
  BY <1>2
<1>5. \A x : (\E i \in 1 .. Len(r) : r[i] = x) <=> \E i \in 1 .. Len(spare[t]) : i # 1 /\ spare[t][i] = x
  <2> TAKE x
  <2>1. ASSUME NEW i \in 1 .. Len(r), r[i] = x PROVE \E k \in 1 .. Len(spare[t]) : k # 1 /\ spare[t][k] = x
    <3>1. i + 1 \in 1 .. Len(spare[t]) /\ i + 1 # 1
      BY <1>2
    <3>2. QED
      BY <1>2, <2>1, <3>1
  <2>2. ASSUME NEW i \in 1 .. Len(spare[t]), i # 1, spare[t][i] = x PROVE \E k \in 1 .. Len(r) : r[k] = x
    <3>1. i - 1 \in 1 .. Len(r) /\ (i - 1) + 1 = i
      BY <1>2, <2>2
    <3>2. r[i - 1] = x
      BY <1>2, <2>2, <3>1
    <3>3. QED
      BY <3>1, <3>2
  <2>3. QED
    BY <2>1, <2>2
<1>6. \A u \in Threads : \A i \in 1 .. Len(spare[u]) : spare[u][i] = spare[t][1] => u = t /\ i = 1
  BY <1>4 DEF ChainInv
<1>7. ASSUME NEW x PROVE InChains(spare', x) <=> InChains(spare, x) /\ x # spare[t][1]
  <2>1. (\E i \in 1 .. Len(spare'[t]) : spare'[t][i] = x)
            <=> (\E i \in 1 .. Len(spare[t]) : spare[t][i] = x) /\ x # spare[t][1]
    <3>1. (\E i \in 1 .. Len(spare'[t]) : spare'[t][i] = x) <=> \E i \in 1 .. Len(spare[t]) : i # 1 /\ spare[t][i] = x
      BY <1>3, <1>5
    <3>2. \A i \in 1 .. Len(spare[t]) : spare[t][i] = x => (i # 1 <=> x # spare[t][1])
      BY <1>6
    <3>3. QED
      BY <3>1, <3>2
  <2>2. \A u \in Threads : u # t =>
            ((\E i \in 1 .. Len(spare'[u]) : spare'[u][i] = x)
                 <=> (\E i \in 1 .. Len(spare[u]) : spare[u][i] = x) /\ x # spare[t][1])
    BY <1>3, <1>6
  <2>3. QED
    BY <2>1, <2>2 DEF InChains
<1>8. InChains(spare, spare[t][1])
  BY <1>4 DEF InChains
<1>9. QED
  BY <1>3, <1>7, <1>8

(* A rewind takes blocks off the arena chain of t: its operations take as  *)
(* much off live and add it to spare.                                      *)
LEMMA RewindTells ==
    ASSUME ArenaInv, Told, NEW t \in Threads, MemRewind(t) PROVE Told'
<1>0. ~exited /\ todo[t] = <<>> /\ ChainInv /\ StoreTypes /\ CallTypes
  BY DEF ArenaInv, ArenaTypes, MemRewind, Ready
<1>1. PICK m \in marks[t] :
         /\ arena' = [arena EXCEPT ![t] = SubSeq(arena[t], Len(Above(t, m)) + 1, Len(arena[t]))]
         /\ spare' = [spare EXCEPT ![t] = Reverse(Above(t, m)) \o spare[t]]
         /\ todo' = [todo EXCEPT ![t] = CounterOps(Above(t, m))]
         /\ UNCHANGED <<cap, mt>>
  BY DEF MemRewind
<1>2. PICK c : CutAt(t, m, c)
  BY <1>0, AboveIsCut
<1>3. PICK a : a = SubSeq(arena[t], 1, c)
  OBVIOUS
<1>4. PICK r : r = SubSeq(arena[t], c + 1, Len(arena[t]))
  OBVIOUS
<1>5. PICK d : d = Reverse(a) \o spare[t]
  OBVIOUS
<1>6. /\ c \in 0 .. Len(arena[t]) /\ Above(t, m) = a
      /\ arena \in [Threads -> Seq(Blocks)] /\ spare \in [Threads -> Seq(Blocks)]
      /\ cap \in [Blocks -> Nat] /\ todo \in [Threads -> Seq(Ops)]
  BY <1>0, <1>2, <1>3 DEF CutAt, StoreTypes, CallTypes
<1>7. IsCut(Blocks, arena[t], spare[t], c, a, r, d)
  BY <1>3, <1>4, <1>5, <1>6, CutChain
<1>8. a \in Seq(Blocks) /\ Len(a) = c /\ \A i \in 1 .. c : a[i] = arena[t][i] /\ i \in 1 .. Len(arena[t])
  BY <1>6, <1>7 DEF IsCut
<1>9. \A i, j \in 1 .. Len(a) : a[i] = a[j] => i = j
  BY <1>0, <1>8 DEF ChainInv
<1>10. /\ arena' = [arena EXCEPT ![t] = r] /\ spare' = [spare EXCEPT ![t] = d]
       /\ todo' = [todo EXCEPT ![t] = CounterOps(a)] /\ cap' = cap /\ mt' = mt
  BY <1>1, <1>4, <1>5, <1>6, <1>8
<1>11. PICK F : F = Firsts(a, c)
  OBVIOUS
<1>12. /\ arena' \in [Threads -> Seq(Blocks)] /\ spare' \in [Threads -> Seq(Blocks)]
       /\ \A b : InChains(arena', b) <=> InChains(arena, b) /\ b \notin F
       /\ \A b : InChains(spare', b) <=> InChains(spare, b) \/ b \in F
       /\ \A b \in F : InChains(arena, b)
  <2>1. /\ arena' \in [Threads -> Seq(Blocks)] /\ spare' \in [Threads -> Seq(Blocks)]
        /\ \A b : InChains(arena', b) <=> InChains(arena, b) /\ b \notin Firsts(a, c)
        /\ \A b : InChains(spare', b) <=> InChains(spare, b) \/ b \in Firsts(a, c)
        /\ \A b \in Firsts(a, c) : InChains(arena, b)
    BY <1>0, <1>6, <1>7, <1>10, RewoundChains
  <2>2. QED
    BY <1>11, <2>1
<1>13. /\ \A b : b \in Chained <=> InChains(arena, b)
       /\ Chained \subseteq Blocks /\ IsFiniteSet(Chained)
  BY <1>6, ChainSet DEF Chained
<1>14. /\ \A b : b \in Spared <=> InChains(spare, b)
       /\ Spared \subseteq Blocks /\ IsFiniteSet(Spared)
  BY <1>6, ChainSet DEF Spared
<1>15. \A b : b \in Chained' <=> InChains(arena', b)
  BY <1>12, ChainSet DEF Chained
<1>16. /\ \A b : b \in Spared' <=> InChains(spare', b)
       /\ Spared' \subseteq Blocks /\ IsFiniteSet(Spared')
  BY <1>12, ChainSet DEF Spared
<1>17. Chained' = Chained \ F /\ F \subseteq Chained
  BY <1>12, <1>13, <1>15
<1>18. F \subseteq Spared' /\ Spared' \ F = Spared
  <2>1. ASSUME NEW b \in F, InChains(spare, b) PROVE FALSE
    <3>1. PICK u \in Threads : \E i \in 1 .. Len(arena[u]) : arena[u][i] = b
      BY <1>12 DEF InChains
    <3>2. PICK w \in Threads : \E j \in 1 .. Len(spare[w]) : spare[w][j] = b
      BY <2>1 DEF InChains
    <3>3. QED
      BY <1>0, <3>1, <3>2 DEF ChainInv
  <2>2. QED
    BY <1>12, <1>14, <1>16, <2>1
<1>19. /\ SumFunctionOnSet(cap, Chained) = SumFunctionOnSet(cap, F) + SumFunctionOnSet(cap, Chained')
       /\ SumFunctionOnSet(cap, Spared') = SumFunctionOnSet(cap, F) + SumFunctionOnSet(cap, Spared)
  <2>1. /\ \A b \in Chained : cap[b] \in Int
        /\ \A b \in Spared' : cap[b] \in Int
    BY <1>6, <1>13, <1>16
  <2>2. SumFunctionOnSet(cap, Chained) = SumFunctionOnSet(cap, F) + SumFunctionOnSet(cap, Chained \ F)
    BY <1>13, <1>17, <2>1, SumSplit
  <2>3. SumFunctionOnSet(cap, Spared') = SumFunctionOnSet(cap, F) + SumFunctionOnSet(cap, Spared' \ F)
    BY <1>16, <1>18, <2>1, SumSplit
  <2>4. QED
    BY <1>17, <1>18, <2>2, <2>3
<1>20. /\ SumFunctionOnSet(cap, F) \in Int /\ SumFunctionOnSet(cap, Chained') \in Int
       /\ SumFunctionOnSet(cap, Spared) \in Int
  <2>1. /\ F \subseteq Blocks /\ IsFiniteSet(F) /\ Chained' \subseteq Blocks /\ IsFiniteSet(Chained')
    BY <1>13, <1>17, FS_Subset
  <2>2. \A b \in Blocks : cap[b] \in Int
    BY <1>6
  <2>3. QED
    BY <1>14, <2>1, <2>2, SumRemove
<1>21. /\ Weight(CounterOps(a), "live") = 0 - SumFunctionOnSet(cap, F)
       /\ Weight(CounterOps(a), "spare") = SumFunctionOnSet(cap, F)
  BY <1>0, <1>8, <1>9, <1>11, WeightOfRewind
<1>22. \A k : Due(k) \in Int /\ Due(k)' = Due(k) + Weight(CounterOps(a), k) - Weight(todo[t], k)
  <2>1. CounterOps(a) \in Seq(Ops)
    BY <1>0, <1>8, CounterOpsType
  <2>2. QED
    BY <1>6, <1>10, <2>1, DueChanges
<1>23. \A k : Weight(todo[t], k) = 0
  BY <1>0, <1>6, WeightType
<1>24. /\ mt.live + Due("live") = SumFunctionOnSet(cap, Chained)
       /\ mt.spare + Due("spare") = SumFunctionOnSet(cap, Spared)
       /\ mt.live \in Int /\ mt.spare \in Int
  BY <1>0 DEF Told, CallTypes
<1>25. /\ Due("live")' = Due("live") + (0 - SumFunctionOnSet(cap, F)) - 0
       /\ Due("spare")' = Due("spare") + SumFunctionOnSet(cap, F) - 0
       /\ Due("live") \in Int /\ Due("spare") \in Int
  BY <1>21, <1>22, <1>23
<1>26. /\ mt.live + Due("live")' = SumFunctionOnSet(cap, Chained')
       /\ mt.spare + Due("spare")' = SumFunctionOnSet(cap, Spared')
  BY <1>19, <1>20, <1>24, <1>25
<1>27. mt'.live <= mt'.peak \/ \E u \in Threads : Witness(u)'
  BY <1>0, <1>6, <1>10 DEF Told, Witness
<1>28. QED
  BY <1>10, <1>26, <1>27 DEF Told

(* A new block joins the arena chain of t: the call adds its capacity to   *)
(* live and, when it was spare, takes it off spare.                        *)
LEMMA BlockTells ==
    ASSUME ArenaInv, Told, NEW t \in Threads, NEW n \in Sizes, Ready(t), AllocBlock(t, n), mt' = mt
    PROVE  Told'
<1>0. ~exited /\ todo[t] = <<>> /\ ChainInv /\ StoreTypes /\ CallTypes
  BY DEF ArenaInv, ArenaTypes, Ready
<1>1. /\ cap \in [Blocks -> Nat] /\ arena \in [Threads -> Seq(Blocks)]
      /\ spare \in [Threads -> Seq(Blocks)] /\ todo \in [Threads -> Seq(Ops)]
      /\ mt.live \in Int /\ mt.spare \in Int
  BY <1>0 DEF StoreTypes, CallTypes
<1>2. BlockNeed(n) \in Nat \ {0}
  BY FootprintType, ArenaAssumption DEF BlockNeed
<1> DEFINE reuse == spare[t] # <<>> /\ cap[Head(spare[t])] >= BlockNeed(n)
           fresh == {x \in Blocks : cap[x] = 0}
<1>3. PICK b : b = IF reuse THEN Head(spare[t]) ELSE CHOOSE x \in fresh : TRUE
  OBVIOUS
<1>4. /\ reuse \/ fresh # {}
      /\ cap' = [cap EXCEPT ![b] = IF reuse THEN cap[b] ELSE BlockNeed(n)]
      /\ arena' = [arena EXCEPT ![t] = <<b>> \o arena[t]]
      /\ spare' = [spare EXCEPT ![t] = IF reuse THEN Tail(spare[t]) ELSE spare[t]]
      /\ todo' = [todo EXCEPT ![t] = <<[k |-> "live", d |-> cap'[b]]>>
                      \o (IF reuse THEN <<[k |-> "spare", d |-> -cap[b]]>> ELSE <<>>)]
  BY <1>3 DEF AllocBlock, BlockNeed
<1>5. /\ \A x : x \in Chained <=> InChains(arena, x)
      /\ Chained \subseteq Blocks /\ IsFiniteSet(Chained)
  BY <1>1, ChainSet DEF Chained
<1>6. /\ \A x : x \in Spared <=> InChains(spare, x)
      /\ Spared \subseteq Blocks /\ IsFiniteSet(Spared)
  BY <1>1, ChainSet DEF Spared
<1>7. /\ mt.live + Due("live") = SumFunctionOnSet(cap, Chained)
      /\ mt.spare + Due("spare") = SumFunctionOnSet(cap, Spared)
      /\ Due("live") \in Int /\ Due("spare") \in Int
  BY <1>1, DueType DEF Told
<1>8. \A x \in Blocks : cap[x] \in Int
  BY <1>1
<1>9. /\ SumFunctionOnSet(cap, Chained) \in Int /\ SumFunctionOnSet(cap, Spared) \in Int
  BY <1>5, <1>6, <1>8, SumRemove
<1>10. \A k : Weight(todo[t], k) = 0
  BY <1>0, <1>1, WeightType
<1>11. mt'.live <= mt'.peak \/ \E u \in Threads : Witness(u)'
  <2>1. \A u \in Threads : u # t => todo'[u] = todo[u]
    BY <1>1, <1>4
  <2>2. QED
    BY <1>0, <2>1 DEF Told, Witness
<1>12. PICK e : e = [k |-> "live", d |-> cap'[b]]
  OBVIOUS
<1>13. CASE reuse
  <2>1. b \in Blocks /\ b = spare[t][1] /\ spare[t] # <<>> /\ cap[b] \in Nat
    BY <1>1, <1>3, <1>13, Popped
  <2>2. cap' = cap /\ spare' = [spare EXCEPT ![t] = Tail(spare[t])]
    BY <1>1, <1>4, <1>13, <2>1
  <2> DEFINE x == [k |-> "spare", d |-> -cap[b]]
  <2>3. PICK q : q = <<e>> \o <<x>>
    OBVIOUS
  <2>4. todo' = [todo EXCEPT ![t] = q]
    BY <1>4, <1>12, <1>13, <2>3
  <2> HIDE DEF reuse, fresh
  <2>5. \A c : c \in Chained' <=> c \in Chained \/ c = b
    <3>1. /\ arena' \in [Threads -> Seq(Blocks)]
          /\ \A c : InChains(arena', c) <=> InChains(arena, c) \/ c = b
      BY <1>1, <1>4, <2>1, ChainGrows
    <3>2. \A c : c \in Chained' <=> InChains(arena', c)
      BY <3>1, ChainSet DEF Chained
    <3>3. QED
      BY <1>5, <3>1, <3>2
  <2>6. b \in Spared /\ \A c : c \in Spared' <=> c \in Spared /\ c # b
    <3>1. /\ spare' \in [Threads -> Seq(Blocks)]
          /\ \A c : InChains(spare', c) <=> InChains(spare, c) /\ c # b
          /\ InChains(spare, b)
      BY <1>0, <1>1, <2>1, <2>2, ChainShrinks
    <3>2. \A c : c \in Spared' <=> InChains(spare', c)
      BY <3>1, ChainSet DEF Spared
    <3>3. QED
      BY <1>6, <3>1, <3>2
  <2>7. b \notin Chained
    <3>1. ASSUME InChains(arena, b), InChains(spare, b) PROVE FALSE
      BY <1>0, <3>1 DEF InChains, ChainInv
    <3>2. QED
      BY <1>5, <1>6, <2>6, <3>1
  <2>8. Chained' = Chained \cup {b} /\ Spared' = Spared \ {b}
    BY <2>5, <2>6
  <2>9. /\ SumFunctionOnSet(cap, Chained') = cap[b] + SumFunctionOnSet(cap, Chained)
        /\ SumFunctionOnSet(cap, Spared) = cap[b] + SumFunctionOnSet(cap, Spared')
    <3>1. \A c \in Chained \cup {b} : cap[c] \in Int
      BY <1>5, <1>8, <2>1
    <3>2. SumFunctionOnSet(cap, Chained \cup {b}) = cap[b] + SumFunctionOnSet(cap, Chained)
      BY <1>5, <2>7, <3>1, SumAdd
    <3>3. \A c \in Spared : cap[c] \in Int
      BY <1>6, <1>8
    <3>4. SumFunctionOnSet(cap, Spared) = cap[b] + SumFunctionOnSet(cap, Spared \ {b})
      BY <1>6, <2>6, <3>3, SumWithout
    <3>5. QED
      BY <2>8, <3>2, <3>4
  <2>10. SumFunctionOnSet(cap, Spared') \in Int
    <3>1. Spared' \subseteq Blocks /\ IsFiniteSet(Spared')
      BY <1>6, <2>8, FS_Subset
    <3>2. QED
      BY <1>8, <3>1, SumRemove
  <2>11. /\ e \in Ops /\ x \in Ops /\ e.k = "live" /\ e.d = cap[b]
         /\ x.k = "spare" /\ x.d = 0 - cap[b]
    BY <1>12, <2>1, <2>2 DEF Ops
  <2> HIDE DEF x
  <2>12. PICK z : z = <<x>>
    OBVIOUS
  <2>13. z \in Seq(Ops) /\ Len(z) = 1 /\ z[1] = x
    BY <2>11, <2>12
  <2>14. /\ q \in Seq(Ops) /\ Len(q) = Len(z) + 1 /\ q[1] = e
         /\ \A i \in 1 .. Len(z) : q[i + 1] = z[i]
    BY <2>3, <2>11, <2>12, <2>13, Pushed
  <2>15. \E y : y = <<>> /\ y \in Seq(Ops) /\ Len(y) = 0
    <3>1. <<>> \in Seq(Ops) /\ Len(<<>>) = 0
      OBVIOUS
    <3>2. QED
      BY <3>1
  <2>b. PICK y : y = <<>> /\ y \in Seq(Ops) /\ Len(y) = 0
    BY <2>15
  <2>16. \A k : Weight(q, k) = Worth(e, k) + Weight(z, k) /\ Weight(z, k) = Worth(x, k) + Weight(y, k)
    <3> TAKE k
    <3>1. Weight(q, k) = Worth(q[1], k) + Weight(z, k)
      BY <2>13, <2>14, WeightFront
    <3>2. Weight(z, k) = Worth(z[1], k) + Weight(y, k)
      <4>1. z \in Seq(Ops) /\ y \in Seq(Ops) /\ Len(z) = Len(y) + 1 /\ \A i \in 1 .. Len(y) : z[i + 1] = y[i]
        BY <2>13, <2>b
      <4>2. QED
        BY <4>1, WeightFront
    <3>3. QED
      BY <2>13, <2>14, <3>1, <3>2
  <2>17. \A k : Weight(y, k) = 0
    BY <2>b, WeightType
  <2>18. /\ Worth(e, "live") = cap[b] /\ Worth(e, "spare") = 0
         /\ Worth(x, "live") = 0 /\ Worth(x, "spare") = 0 - cap[b]
    BY <2>11 DEF Worth
  <2>19. \A k : Due(k)' = Due(k) + Weight(q, k) - Weight(todo[t], k)
    BY <1>1, <2>4, <2>14, DueChanges
  <2>20. /\ Due("live")' = Due("live") + (cap[b] + (0 + 0)) - 0
         /\ Due("spare")' = Due("spare") + (0 + ((0 - cap[b]) + 0)) - 0
    BY <1>10, <2>16, <2>17, <2>18, <2>19
  <2>21. /\ mt.live + Due("live")' = SumFunctionOnSet(cap, Chained')
         /\ mt.spare + Due("spare")' = SumFunctionOnSet(cap, Spared')
    <3>1. mt.live + Due("live")' = SumFunctionOnSet(cap, Chained')
      BY <1>1, <1>7, <1>9, <2>1, <2>9, <2>20
    <3>2. mt.spare + Due("spare")' = SumFunctionOnSet(cap, Spared')
      <4>1. PICK k \in Int : k = cap[b]
        BY <2>1
      <4>2. PICK v \in Int : v = SumFunctionOnSet(cap, Spared')
        BY <2>10
      <4>3. mt.spare + Due("spare") = k + v
        BY <1>7, <2>9, <4>1, <4>2
      <4>4. Due("spare")' = Due("spare") - k
        BY <1>7, <2>20, <4>1
      <4>5. mt.spare + Due("spare")' = v
        <5>1. PICK s \in Int, w \in Int : s = mt.spare /\ w = Due("spare")
          BY <1>1, <1>7
        <5>2. s + w = k + v /\ Due("spare")' = w - k
          BY <4>3, <4>4, <5>1
        <5>3. s + (w - k) = v
          BY <5>2
        <5>4. QED
          BY <5>1, <5>2, <5>3
      <4>6. QED
        BY <4>2, <4>5
    <3>3. QED
      BY <3>1, <3>2
  <2>22. QED
    BY <1>11, <2>2, <2>21 DEF Told
<1>14. CASE ~reuse
  <2>1. b \in Blocks /\ cap[b] = 0
    BY <1>3, <1>4, <1>14
  <2>2. cap' = [cap EXCEPT ![b] = BlockNeed(n)] /\ spare' = spare
    BY <1>1, <1>4, <1>14
  <2>3. \E y : y = <<>> /\ y \in Seq(Ops) /\ Len(y) = 0
    <3>1. <<>> \in Seq(Ops) /\ Len(<<>>) = 0
      OBVIOUS
    <3>2. QED
      BY <3>1
  <2>b. PICK y : y = <<>> /\ y \in Seq(Ops) /\ Len(y) = 0
    BY <2>3
  <2>4. PICK q : q = <<e>> \o y
    OBVIOUS
  <2>5. todo' = [todo EXCEPT ![t] = q]
    BY <1>4, <1>12, <1>14, <2>b, <2>4
  <2> HIDE DEF reuse, fresh
  <2>6. cap' \in [Blocks -> Nat] /\ cap'[b] = BlockNeed(n) /\ \A c \in Blocks \ {b} : cap'[c] = cap[c]
    BY <1>1, <1>2, <2>1, <2>2
  <2>7. \A c : c \in Chained' <=> c \in Chained \/ c = b
    <3>1. /\ arena' \in [Threads -> Seq(Blocks)]
          /\ \A c : InChains(arena', c) <=> InChains(arena, c) \/ c = b
      BY <1>1, <1>4, <2>1, ChainGrows
    <3>2. \A c : c \in Chained' <=> InChains(arena', c)
      BY <3>1, ChainSet DEF Chained
    <3>3. QED
      BY <1>5, <3>1, <3>2
  <2>8. b \notin Chained /\ b \notin Spared
    <3>1. ~InChains(arena, b) /\ ~InChains(spare, b)
      <4>1. ~(cap[b] > 0)
        BY <2>1
      <4>2. QED
        BY <1>0, <4>1 DEF InChains, ChainInv
    <3>2. QED
      BY <1>5, <1>6, <3>1
  <2>9. Chained' = Chained \cup {b} /\ Spared' = Spared
    BY <2>2, <2>7 DEF Spared
  <2>10. /\ SumFunctionOnSet(cap', Chained') = cap'[b] + SumFunctionOnSet(cap, Chained)
         /\ SumFunctionOnSet(cap', Spared') = SumFunctionOnSet(cap, Spared)
    <3>1. \A c \in Chained \cup {b} : cap'[c] \in Int
      BY <1>5, <2>1, <2>6
    <3>2. SumFunctionOnSet(cap', Chained \cup {b}) = cap'[b] + SumFunctionOnSet(cap', Chained)
      BY <1>5, <2>8, <3>1, SumAdd
    <3>3. \A c \in Chained : cap'[c] = cap[c]
      BY <1>5, <2>6, <2>8
    <3>4. \A c \in Spared : cap'[c] = cap[c]
      BY <1>6, <2>6, <2>8
    <3>5. /\ SumFunctionOnSet(cap', Chained) = SumFunctionOnSet(cap, Chained)
          /\ SumFunctionOnSet(cap', Spared) = SumFunctionOnSet(cap, Spared)
      BY <1>5, <1>6, <3>3, <3>4, SumSame
    <3>6. QED
      BY <2>9, <3>2, <3>5
  <2>11. e \in Ops /\ e.k = "live" /\ e.d = cap'[b] /\ cap'[b] \in Int
    BY <1>2, <1>12, <2>6 DEF Ops
  <2>12. /\ q \in Seq(Ops) /\ Len(q) = Len(y) + 1 /\ q[1] = e
         /\ \A i \in 1 .. Len(y) : q[i + 1] = y[i]
    BY <2>b, <2>4, <2>11, Pushed
  <2>13. \A k : Weight(q, k) = Worth(e, k) + Weight(y, k)
    BY <2>b, <2>12, WeightFront
  <2>14. \A k : Weight(y, k) = 0
    BY <2>b, WeightType
  <2>15. Worth(e, "live") = cap'[b] /\ Worth(e, "spare") = 0
    BY <2>11 DEF Worth
  <2>16. \A k : Due(k)' = Due(k) + Weight(q, k) - Weight(todo[t], k)
    BY <1>1, <2>5, <2>12, DueChanges
  <2>17. /\ Due("live")' = Due("live") + (cap'[b] + 0) - 0
         /\ Due("spare")' = Due("spare") + (0 + 0) - 0
    BY <1>10, <2>13, <2>14, <2>15, <2>16
  <2>18. /\ mt.live + Due("live")' = SumFunctionOnSet(cap', Chained')
         /\ mt.spare + Due("spare")' = SumFunctionOnSet(cap', Spared')
    BY <1>1, <1>7, <1>9, <2>10, <2>11, <2>17
  <2>19. QED
    BY <1>11, <2>18 DEF Told
<1>15. QED
  BY <1>13, <1>14

(* Every step keeps the counters, with what is due to them, right.         *)
LEMMA ToldKept ==
    ASSUME ArenaInv, ~exited => Told, [Next]_vars, ~exited' PROVE Told'
<1>1. CASE UNCHANGED vars
  BY <1>1, ToldSame DEF vars
<1>2. ASSUME NEW t \in Threads, BagaAlloc(t) PROVE Told'
  <2>1. Told /\ Ready(t) /\ mt' = mt
    BY <1>2 DEF BagaAlloc, Ready
  <2>2. CASE AllocPersist(t)
    BY <2>1, <2>2, ToldSame DEF AllocPersist
  <2>3. ASSUME NEW n \in Prog[t].sizes, AllocListed(t, n) PROVE Told'
    BY <2>1, <2>3, ToldSame DEF AllocListed
  <2>4. ASSUME NEW n \in Prog[t].sizes, AllocBump(t, n) PROVE Told'
    BY <2>1, <2>4, ToldSame DEF AllocBump
  <2>5. ASSUME NEW n \in Prog[t].sizes, AllocBlock(t, n) PROVE Told'
    BY <2>1, <2>5, AskedSize, BlockTells
  <2>6. QED
    BY <1>2, <2>2, <2>3, <2>4, <2>5 DEF BagaAlloc
<1>3. ASSUME NEW t \in Threads, BagaFree(t) PROVE Told'
  BY <1>3, ToldSame DEF BagaFree, Ready
<1>4. ASSUME NEW t \in Threads, MemMark(t) PROVE Told'
  BY <1>4, ToldSame DEF MemMark, Ready
<1>5. ASSUME NEW t \in Threads, MemRewind(t) PROVE Told'
  BY <1>5, RewindTells DEF MemRewind, Ready
<1>6. ASSUME NEW t \in Threads, MemPersistBegin(t) \/ MemPersistEnd(t) PROVE Told'
  BY <1>6, ToldSame DEF MemPersistBegin, MemPersistEnd, Ready
<1>7. ASSUME NEW t \in Threads, Counter(t) PROVE Told'
  BY <1>7, CounterTells DEF Counter
<1>8. QED
  BY <1>1, <1>2, <1>3, <1>4, <1>5, <1>6, <1>7 DEF Next

(* No thread has a counter operation to make at the start: nothing is due. *)
LEMMA NothingDue ==
    ASSUME Quiet, todo \in [Threads -> Seq(Ops)], NEW k PROVE Due(k) = 0
<1>1. \A u \in Threads : Pending(k)[u] = 0
  BY WeightType DEF Pending, Quiet
<1>2. QED
  BY <1>1, SumZero, ArenaAssumption DEF Due

(* The program starts with no block and all counters at 0.                 *)
LEMMA ToldInit == ASSUME Init PROVE Told
<1>1. Quiet /\ todo \in [Threads -> Seq(Ops)]
  BY DEF Init, Quiet
<1>2. Due("live") = 0 /\ Due("spare") = 0
  BY <1>1, NothingDue
<1>3. Chained = {} /\ Spared = {}
  <2>1. arena \in [Threads -> Seq(Blocks)] /\ spare \in [Threads -> Seq(Blocks)]
    BY DEF Init
  <2>2. (\A b : ~InChains(arena, b)) /\ \A b : ~InChains(spare, b)
    BY DEF Init, InChains
  <2>3. /\ \A b : b \in Chained <=> InChains(arena, b)
        /\ \A b : b \in Spared <=> InChains(spare, b)
    BY <2>1, ChainSet DEF Chained, Spared
  <2>4. QED
    BY <2>2, <2>3
<1>4. SumFunctionOnSet(cap, {}) = 0
  BY SumEmpty, Zenon
<1>5. mt.live = 0 /\ mt.spare = 0 /\ mt.peak = 0
  BY DEF Init
<1>6. QED
  BY <1>2, <1>3, <1>4, <1>5 DEF Told

(* mem_arena_bytes and mem_spare_bytes tell the capacities of the blocks   *)
(* of all arena chains and of all spare chains, and mem_peak_bytes is no   *)
(* less than the first of them, whenever no thread is between two of its   *)
(* counter operations: whatever threads allocate, free, mark and rewind,   *)
(* and in whatever order the operations of their calls take effect.        *)
THEOREM ArenaCounts ==
    ASSUME ~CrossDrop PROVE Spec => []Telemetry
<1> DEFINE Inv == ArenaInv /\ (~exited => Told)
<1>1. Init => Inv
  BY ArenaInvInit, ToldInit
<1>2. Inv /\ [Next]_vars => Inv'
  BY ArenaKept, ToldKept
<1>3. Inv => Telemetry
  <2> SUFFICES ASSUME Inv, ~exited, Quiet
               PROVE  /\ mt.live = SumFunctionOnSet(cap, Chained)
                      /\ mt.spare = SumFunctionOnSet(cap, Spared)
                      /\ mt.peak >= mt.live
    BY DEF Telemetry
  <2>1. /\ todo \in [Threads -> Seq(Ops)] /\ mt.live \in Int /\ mt.spare \in Int /\ mt.peak \in Int
    BY DEF ArenaInv, ArenaTypes, CallTypes
  <2>2. Due("live") = 0 /\ Due("spare") = 0
    BY <2>1, NothingDue
  <2>3. \A t \in Threads : ~Witness(t)
    BY DEF Quiet, Witness
  <2>4. QED
    BY <2>1, <2>2, <2>3 DEF Told
<1>4. QED
  <2> HIDE DEF Inv
  <2>1. QED
    BY <1>1, <1>2, <1>3, PTL DEF Spec
=============================================================================

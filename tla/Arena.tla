------------------------------- MODULE Arena --------------------------------
(***************************************************************************)
(* The memory of the C backend without --rc: a bump arena, a chain of      *)
(* spare blocks and a table of free lists per thread (baga_alloc,          *)
(* baga_free), mem_mark and mem_rewind on the arena, the persist region of *)
(* mem_persist_begin and mem_persist_end, and the process-wide counters of *)
(* mem_arena_bytes, mem_spare_bytes and mem_peak_bytes.                    *)
(*                                                                         *)
(* A step is a whole call, because everything but the counters is          *)
(* __thread; the atomic operations on the counters that the call makes are *)
(* queued in todo and are steps of their own.  objs is what the program    *)
(* holds: it grows by an allocation and shrinks by a drop and by the       *)
(* rewind of an older mark.                                                *)
(***************************************************************************)
EXTENDS Integers, Sequences, FiniteSets, FiniteSetsExt, SequencesExt

CONSTANTS Threads,
          Sizes,      \* the rounded sizes that are asked for
          Listed,     \* those that have a free list: not 0, not above 32 MiB
          Hdr,        \* the header in front of every allocation
          BlockCap,   \* the least capacity of a block (8192)
          MaxBlocks, MaxObjs,   \* bounds on the blocks and on what is held at once
          Prog,       \* Prog[t]: the sizes thread t asks for, and bounds on the
                      \* marks it holds and on its nesting of persist brackets
          CrossDrop   \* may the program drop what another thread allocated?

ASSUME ArenaAssumption ==
    /\ IsFiniteSet(Threads)
    /\ IsFiniteSet(Sizes) /\ Sizes \subseteq Nat /\ Listed \subseteq Sizes \ {0}
    /\ Hdr \in Nat \ {0} /\ BlockCap \in Nat \ {0}
    /\ MaxBlocks \in Nat /\ MaxObjs \in Nat
    /\ Prog \in [Threads -> [sizes : SUBSET Sizes, marks : Nat, depth : Nat]]
    /\ CrossDrop \in BOOLEAN

Blocks == 1 .. MaxBlocks
NoBlock == 0

VARIABLES
    cap, used,      \* the fields of each baga_ABlk; cap 0: never malloc'ed
    arena, spare,   \* baga_arena_head and baga_spare, as sequences
    fl,             \* baga_fl and baga_fl_big
    depth,          \* baga_persist_depth
    marks,          \* the baga_MMark handles each thread holds
    objs,           \* the allocations the program holds
    mt,             \* baga_mt_live, baga_mt_spare, baga_mt_peak
    todo,           \* counter operations the current call has still to make
    exited          \* the process ended with an error message

localVars == <<cap, used, arena, spare, fl, depth, marks, objs>>
vars == <<cap, used, arena, spare, fl, depth, marks, objs, mt, todo, exited>>

Init == /\ cap = [b \in Blocks |-> 0]
        /\ used = [b \in Blocks |-> 0]
        /\ arena = [t \in Threads |-> <<>>]
        /\ spare = [t \in Threads |-> <<>>]
        /\ fl = [t \in Threads |-> [n \in Listed |-> <<>>]]
        /\ depth = [t \in Threads |-> 0]
        /\ marks = [t \in Threads |-> {}]
        /\ objs = {}
        /\ mt = [live |-> 0, spare |-> 0, peak |-> 0]
        /\ todo = [t \in Threads |-> <<>>]
        /\ exited = FALSE

-----------------------------------------------------------------------------
(* What the program holds.                                                 *)

Ptr(b, o) == [blk |-> b, off |-> o]
Obj(t, p, n, per) == [p |-> p, n |-> n, by |-> t, per |-> per]
Ephemeral == {o \in objs : ~o.per}

Footprint(n) == n + Hdr
Cells(p, n) == {Ptr(p.blk, i) : i \in p.off .. p.off + Footprint(n) - 1}

\* The program forgets what is in dead; a mark stands for what it protects.
Forget(dead, ms) ==
    /\ objs' = objs \ dead
    /\ marks' = [t \in Threads |-> {[m EXCEPT !.keep = @ \ dead] : m \in ms[t]}]

Ready(t) == ~exited /\ todo[t] = <<>>

-----------------------------------------------------------------------------
(* baga_alloc.                                                             *)

HeadOf(chain) == IF chain = <<>> THEN NoBlock ELSE Head(chain)

Fits(t, n) == arena[t] # <<>> /\ used[Head(arena[t])] + Footprint(n) <= cap[Head(arena[t])]

Hold(t, p, n, per) == objs' = objs \cup {Obj(t, p, n, per)}

\* In the persist region an allocation is a malloc of its own, of any size.
AllocPersist(t) ==
    /\ depth[t] > 0
    /\ LET k == CHOOSE k \in 1 .. MaxObjs : \A o \in objs : o.p # Ptr(NoBlock, k)
       IN Hold(t, Ptr(NoBlock, k), 0, TRUE)
    /\ UNCHANGED <<cap, used, arena, spare, fl, todo>>

AllocListed(t, n) ==
    /\ depth[t] = 0 /\ n \in Listed /\ fl[t][n] # <<>>
    /\ Hold(t, Head(fl[t][n]), n, FALSE)
    /\ fl' = [fl EXCEPT ![t][n] = Tail(@)]
    /\ UNCHANGED <<cap, used, arena, spare, todo>>

AllocBump(t, n) == LET b == Head(arena[t]) IN
    /\ depth[t] = 0 /\ (n \in Listed => fl[t][n] = <<>>)
    /\ Fits(t, n)
    /\ Hold(t, Ptr(b, used[b]), n, FALSE)
    /\ used' = [used EXCEPT ![b] = @ + Footprint(n)]
    /\ UNCHANGED <<cap, arena, spare, fl, todo>>

\* A new block, from the head of the spare chain if that is large enough.
AllocBlock(t, n) ==
    LET need == IF Footprint(n) > BlockCap THEN Footprint(n) ELSE BlockCap
        reuse == spare[t] # <<>> /\ cap[Head(spare[t])] >= need
        fresh == {b \in Blocks : cap[b] = 0}
        b == IF reuse THEN Head(spare[t]) ELSE CHOOSE x \in fresh : TRUE
    IN /\ depth[t] = 0 /\ (n \in Listed => fl[t][n] = <<>>)
       /\ ~Fits(t, n)
       /\ reuse \/ fresh # {}
       /\ cap' = [cap EXCEPT ![b] = IF reuse THEN @ ELSE need]
       /\ used' = [used EXCEPT ![b] = Footprint(n)]
       /\ arena' = [arena EXCEPT ![t] = <<b>> \o @]
       /\ spare' = [spare EXCEPT ![t] = IF reuse THEN Tail(@) ELSE @]
       /\ todo' = [todo EXCEPT ![t] = <<[k |-> "live", d |-> cap'[b]]>>
                      \o (IF reuse THEN <<[k |-> "spare", d |-> -cap[b]]>> ELSE <<>>)]
       /\ Hold(t, Ptr(b, 0), n, FALSE)
       /\ UNCHANGED fl

BagaAlloc(t) ==
    /\ Ready(t) /\ Cardinality(objs) < MaxObjs
    /\ \/ AllocPersist(t)
       \/ \E n \in Prog[t].sizes : AllocListed(t, n) \/ AllocBump(t, n) \/ AllocBlock(t, n)
    /\ UNCHANGED <<depth, marks, mt, exited>>

-----------------------------------------------------------------------------
(* baga_free: to libc, to the free list of the calling thread, or nowhere. *)

BagaFree(t) == \E o \in objs :
    /\ Ready(t)
    /\ o.by = t \/ o.per \/ CrossDrop
    /\ Forget({o}, marks)
    /\ fl' = IF ~o.per /\ o.n \in Listed
             THEN [fl EXCEPT ![t][o.n] = <<o.p>> \o @] ELSE fl
    /\ UNCHANGED <<cap, used, arena, spare, depth, mt, todo, exited>>

-----------------------------------------------------------------------------
(* mem_mark, mem_rewind and the persist brackets.                          *)

MarkUsed(b) == IF b = NoBlock THEN 0 ELSE used[b]

MemMark(t) ==
    /\ Ready(t) /\ Cardinality(marks[t]) < Prog[t].marks
    /\ LET b == HeadOf(arena[t])
       IN marks' = [marks EXCEPT ![t] = @ \cup
              {[head |-> b, used |-> MarkUsed(b), keep |-> {o \in Ephemeral : o.by = t}]}]
    /\ UNCHANGED <<cap, used, arena, spare, fl, depth, objs, mt, todo, exited>>

\* The blocks of the chain above the mark; the whole chain when the mark is not in it.
Above(t, m) ==
    LET at == {i \in 1 .. Len(arena[t]) : arena[t][i] = m.head}
    IN SubSeq(arena[t], 1, IF at = {} THEN Len(arena[t]) ELSE Min(at) - 1)

Found(t, m) == m.head = NoBlock \/ \E i \in 1 .. Len(arena[t]) : arena[t][i] = m.head

\* Mutant: the blocks leave live without entering spare.
CounterOpsLiveOnly(above) == [i \in 1 .. Len(above) |-> [k |-> "live", d |-> -cap[above[i]]]]

\* Block by block, out of live and then into spare.
CounterOps(above) ==
    [i \in 1 .. 2 * Len(above) |->
        LET c == cap[above[(i + 1) \div 2]]
        IN IF i % 2 = 1 THEN [k |-> "live", d |-> -c] ELSE [k |-> "spare", d |-> c]]

\* Mutant: the free lists keep pointing into the reclaimed blocks.
ScrubNothing(t) == fl

Scrub(t) == [fl EXCEPT ![t] = [n \in Listed |-> <<>>]]

MemRewind(t) == \E m \in marks[t] :
    LET above == Above(t, m)
        dead == {o \in Ephemeral : o.by = t} \ m.keep
    IN /\ Ready(t)
       /\ arena' = [arena EXCEPT ![t] = SubSeq(@, Len(above) + 1, Len(@))]
       /\ spare' = [spare EXCEPT ![t] = Reverse(above) \o @]
       /\ todo' = [todo EXCEPT ![t] = CounterOps(above)]
       /\ IF Found(t, m)
          THEN /\ used' = IF m.head = NoBlock THEN used ELSE [used EXCEPT ![m.head] = m.used]
               /\ fl' = Scrub(t)
               /\ Forget(dead, [marks EXCEPT ![t] = @ \ {m}])
               /\ UNCHANGED exited
          ELSE exited' = TRUE /\ UNCHANGED <<used, fl, objs, marks>>
       /\ UNCHANGED <<cap, depth, mt>>

MemPersistBegin(t) ==
    /\ Ready(t) /\ depth[t] < Prog[t].depth
    /\ depth' = [depth EXCEPT ![t] = @ + 1]
    /\ UNCHANGED <<cap, used, arena, spare, fl, marks, objs, mt, todo, exited>>

MemPersistEnd(t) ==
    /\ Ready(t)
    /\ IF depth[t] <= 0 THEN exited' = TRUE /\ UNCHANGED depth
       ELSE depth' = [depth EXCEPT ![t] = @ - 1] /\ UNCHANGED exited
    /\ UNCHANGED <<cap, used, arena, spare, fl, marks, objs, mt, todo>>

-----------------------------------------------------------------------------
(* The atomic operations on the counters.  baga_mt_bump adds to live and   *)
(* then raises peak to the value it saw, with a compare-and-swap loop.     *)

Counter(t) == LET op == Head(todo[t]) IN
    /\ ~exited /\ todo[t] # <<>>
    /\ CASE op.k = "live" ->
              /\ mt' = [mt EXCEPT !.live = @ + op.d]
              /\ todo' = [todo EXCEPT ![t] = <<[k |-> "peak", d |-> mt.live + op.d]>> \o Tail(@)]
         [] op.k = "peak" ->
              /\ mt' = [mt EXCEPT !.peak = Max({@, op.d})]
              /\ todo' = [todo EXCEPT ![t] = Tail(@)]
         [] op.k = "spare" ->
              /\ mt' = [mt EXCEPT !.spare = @ + op.d]
              /\ todo' = [todo EXCEPT ![t] = Tail(@)]
    /\ UNCHANGED <<localVars, exited>>

Next == \E t \in Threads : BagaAlloc(t) \/ BagaFree(t) \/ MemMark(t) \/ MemRewind(t)
                              \/ MemPersistBegin(t) \/ MemPersistEnd(t) \/ Counter(t)

Spec == Init /\ [][Next]_vars

-----------------------------------------------------------------------------
(* Properties.                                                             *)

Ptrs == [blk : Blocks \cup {NoBlock}, off : Nat]

(* Type invariant; a block is never filled beyond its capacity.            *)
TypeOK ==
    /\ cap \in [Blocks -> Nat]
    /\ used \in [Blocks -> Nat] /\ \A b \in Blocks : used[b] <= cap[b]
    /\ arena \in [Threads -> Seq(Blocks)]
    /\ spare \in [Threads -> Seq(Blocks)]
    /\ fl \in [Threads -> [Listed -> Seq(Ptrs)]]
    /\ depth \in [Threads -> Nat]
    /\ \A o \in objs : o.p \in Ptrs /\ o.n \in Sizes \cup {0} /\ o.by \in Threads
    /\ mt.live \in Int /\ mt.spare \in Int /\ mt.peak \in Nat
    /\ exited \in BOOLEAN

Chained == UNION {Range(arena[t]) : t \in Threads}
Spared == UNION {Range(spare[t]) : t \in Threads}

Overlap(x, y) == Cells(x.p, x.n) \cap Cells(y.p, y.n) # {}

(* No cell belongs to two allocations that the program holds: baga_alloc   *)
(* gives out no memory again that was neither dropped nor rewound, whether *)
(* it comes from a free list, from the bump pointer or from a spare block, *)
(* and in whatever order the marks are rewound.                            *)
NoTwoOwners == ~exited => \A x, y \in Ephemeral : x # y => ~Overlap(x, y)

(* What the program holds from before a mark survives its rewind: it stays *)
(* in a block of an arena chain, below the bump pointer.                   *)
HeldIsBacked == ~exited => \A x \in Ephemeral :
    x.p.blk \in Chained /\ x.p.off + Footprint(x.n) <= used[x.p.blk]

(* The arena is sound: its types, who owns a cell, what lies in a block.   *)
ArenaSound == TypeOK /\ NoTwoOwners /\ HeldIsBacked

Quiet == \A t \in Threads : todo[t] = <<>>

(* "live: total cap of the blocks in the active arena chain (all threads)", *)
(* spare likewise, and "peak: high-water of live", whenever no thread is   *)
(* between two counter operations.                                         *)
Telemetry == ~exited /\ Quiet =>
    /\ mt.live = SumFunctionOnSet(cap, Chained)
    /\ mt.spare = SumFunctionOnSet(cap, Spared)
    /\ mt.peak >= mt.live
=============================================================================

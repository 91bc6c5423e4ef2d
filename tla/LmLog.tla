------------------------------- MODULE LmLog --------------------------------
(***************************************************************************)
(* The memory of the LLVM backend without --rc: every allocation is a      *)
(* malloc that the calling thread records in its allocation log            *)
(* (baga_LmLog), a table of the live addresses and a vector of addresses   *)
(* in the order of allocation; mem_mark is a length of that vector, and    *)
(* mem_rewind frees what the vector holds above it.                        *)
(*                                                                         *)
(* The open-addressing table is abstracted to the function it represents:  *)
(* its fill counts tombstones and it is rehashed at 70 percent, so every   *)
(* probe ends at the key or at an empty slot.  A step is a whole call: a   *)
(* log is only touched under its mutex, and the program gives an address   *)
(* to one call at a time.                                                  *)
(***************************************************************************)
EXTENDS Integers, Sequences, FiniteSets, FiniteSetsExt, SequencesExt

CONSTANTS LogThreads,
          Addrs,       \* the addresses that malloc may return
          LogSizes,    \* the sizes that are asked for
          LogProg,     \* LogProg[t]: bounds on the log of thread t, on the marks it
                       \* holds and on its nesting of persist brackets
          MoveAnywhere \* may realloc move a block to an address a log still names?

\* What the constants are assumed to be.
LmAssumption ==
    /\ IsFiniteSet(LogThreads) /\ IsFiniteSet(Addrs)
    /\ LogSizes \subseteq Nat \ {0}
    /\ LogProg \in [LogThreads -> [log : Nat, marks : Nat, depth : Nat]]
    /\ MoveAnywhere \in BOOLEAN

VARIABLES
    tab,     \* tab[t]: the table of t's log, from live addresses to entries
    v,       \* v[t]: the vector of t's log
    live, peak, liveP,   \* the counters of each log
    ldepth,  \* baga_lm_depth
    heap,    \* the addresses libc has given out and not got back
    held,    \* what the program holds: address, allocating thread, persist
    lmarks   \* the marks each thread holds, with what each one protects

logVars == <<tab, v, live, peak, liveP, ldepth, heap, held, lmarks>>

LogInit == /\ tab = [t \in LogThreads |-> <<>>]
           /\ v = [t \in LogThreads |-> <<>>]
           /\ live = [t \in LogThreads |-> 0]
           /\ peak = [t \in LogThreads |-> 0]
           /\ liveP = [t \in LogThreads |-> 0]
           /\ ldepth = [t \in LogThreads |-> 0]
           /\ heap = {}
           /\ held = {}
           /\ lmarks = [t \in LogThreads |-> {}]

-----------------------------------------------------------------------------
(* The table and the vector.                                               *)

Known(t, a) == a \in DOMAIN tab[t]

Put(f, a, n, per) == [x \in DOMAIN f \cup {a} |-> IF x = a THEN [n |-> n, per |-> per] ELSE f[x]]

\* Mutant: the tombstone is not written.
DelNothing(f, as) == f

Del(f, as) == [x \in DOMAIN f \ as |-> f[x]]

\* Who has the address: the caller's own log first, then the registered ones.
LogOf(t, a) == IF Known(t, a) THEN {t} ELSE {u \in LogThreads : Known(u, a)}

\* baga_lm_log_replace: the last occurrence of old becomes new.
Replaced(s, old, new) ==
    [i \in 1 .. Len(s) |-> IF s[i] = old /\ \A j \in 1 .. Len(s) : j > i => s[j] # old
                           THEN new ELSE s[i]]

\* The increasing enumeration of the places in at.
InOrder(at) == {f \in [1 .. Cardinality(at) -> at] : \A i, j \in DOMAIN f : i < j => f[i] < f[j]}

\* The vector up to place at, and then what it names at the places of f.
Rewound(s, at, f) == SubSeq(s, 1, at) \o [k \in DOMAIN f |-> s[f[k]]]

\* The bytes of some entries of a log.
Bytes(t, as) == SumFunctionOnSet([a \in DOMAIN tab[t] |-> tab[t][a].n], as)

\* Counters of log u after its table grows by d bytes of the given kind.
Count(u, d, per) ==
    IF per THEN liveP' = [liveP EXCEPT ![u] = @ + d] /\ UNCHANGED <<live, peak>>
    ELSE /\ live' = [live EXCEPT ![u] = @ + d]
         /\ peak' = [peak EXCEPT ![u] = Max({@, live[u] + d})]
         /\ UNCHANGED liveP

\* A free leaves the high-water mark alone.
Uncount(u, d, per) ==
    /\ live' = IF per THEN live ELSE [live EXCEPT ![u] = @ - d]
    /\ liveP' = IF per THEN [liveP EXCEPT ![u] = @ - d] ELSE liveP
    /\ UNCHANGED peak

\* What a mark protects, after the program traded the things in gone for came.
After(m, gone, came) ==
    [at |-> m.at, keep |-> IF gone \cap m.keep = {} THEN m.keep ELSE (m.keep \ gone) \cup came]

\* The program trades the things in gone for those in came.
Trade(gone, came, ms) ==
    /\ held' = (held \ gone) \cup came
    /\ lmarks' = [t \in LogThreads |-> {After(m, gone, came) : m \in ms[t]}]

-----------------------------------------------------------------------------
(* The calls.                                                              *)

LmMalloc(t) == \E a \in Addrs \ heap, n \in LogSizes :
    LET per == ldepth[t] > 0 IN
    /\ Len(v[t]) < LogProg[t].log
    /\ heap' = heap \cup {a}
    /\ tab' = [tab EXCEPT ![t] = Put(@, a, n, per)]
    /\ v' = [v EXCEPT ![t] = Append(@, a)]
    /\ Count(t, n, per)
    /\ Trade({}, {[a |-> a, by |-> t, per |-> per]}, lmarks)
    /\ UNCHANGED ldepth

\* realloc stays in place or moves; the entry keeps its place in the vector.
Moves(a) == {a} \cup {b \in Addrs \ heap : MoveAnywhere \/ \A u \in LogThreads : b \notin Range(v[u])}

\* Mutant: the old size is not taken off the counter.
GrowthWhole(n, e) == n

Growth(n, e) == n - e.n

LmRealloc(t) == \E o \in held, n \in LogSizes : \E u \in LogOf(t, o.a), b \in Moves(o.a) :
    LET e == tab[u][o.a] IN
    /\ heap' = (heap \ {o.a}) \cup {b}
    /\ Count(u, Growth(n, e), e.per)
    /\ tab' = [tab EXCEPT ![u] = Put(Del(@, {o.a}), b, n, e.per)]
    /\ v' = [v EXCEPT ![u] = Replaced(@, o.a, b)]
    /\ Trade({o}, {[o EXCEPT !.a = b]}, lmarks)
    /\ UNCHANGED ldepth

LmFree(t) == \E o \in held : \E u \in LogOf(t, o.a) :
    /\ Uncount(u, tab[u][o.a].n, tab[u][o.a].per)
    /\ tab' = [tab EXCEPT ![u] = Del(@, {o.a})]
    /\ heap' = heap \ {o.a}
    /\ Trade({o}, {}, lmarks)
    /\ UNCHANGED <<v, ldepth>>

MarkAt(t) == Len(v[t])

LmMark(t) ==
    /\ Cardinality(lmarks[t]) < LogProg[t].marks
    /\ lmarks' = [lmarks EXCEPT ![t] = @ \cup
          {[at |-> MarkAt(t), keep |-> {o \in held : o.by = t /\ ~o.per}]}]
    /\ UNCHANGED <<tab, v, live, peak, liveP, ldepth, heap, held>>

\* Every address above the mark that is live and not persist is freed, once;
\* the persist ones are kept in order.
LmRewind(t) == \E m \in lmarks[t] :
    LET above == m.at + 1 .. Len(v[t])
        persist == {i \in above : Known(t, v[t][i]) /\ tab[t][v[t][i]].per}
        dead == {a \in {v[t][i] : i \in above} : Known(t, a) /\ ~tab[t][a].per}
        died == {o \in held : o.by = t /\ ~o.per} \ m.keep
    IN /\ IF m.at > Len(v[t]) THEN UNCHANGED <<tab, v, live, heap>>
          ELSE /\ \E f \in InOrder(persist) : v' = [v EXCEPT ![t] = Rewound(@, m.at, f)]
               /\ live' = [live EXCEPT ![t] = @ - Bytes(t, dead)]
               /\ tab' = [tab EXCEPT ![t] = Del(@, dead)]
               /\ heap' = heap \ dead
       /\ Trade(died, {}, [lmarks EXCEPT ![t] = @ \ {m}])
       /\ UNCHANGED <<peak, liveP, ldepth>>

LmPersistBegin(t) ==
    /\ ldepth[t] < LogProg[t].depth
    /\ ldepth' = [ldepth EXCEPT ![t] = @ + 1]
    /\ UNCHANGED <<tab, v, live, peak, liveP, heap, held, lmarks>>

LmPersistEnd(t) ==
    /\ ldepth' = [ldepth EXCEPT ![t] = IF @ > 0 THEN @ - 1 ELSE @]
    /\ UNCHANGED <<tab, v, live, peak, liveP, heap, held, lmarks>>

LogNext == \E t \in LogThreads : LmMalloc(t) \/ LmRealloc(t) \/ LmFree(t) \/ LmMark(t) \/ LmRewind(t)
                                 \/ LmPersistBegin(t) \/ LmPersistEnd(t)

LogSpec == LogInit /\ [][LogNext]_logVars

-----------------------------------------------------------------------------
(* Properties.                                                             *)

(* Type invariant; Accounting says what the counters are.                  *)
LogTypeOK ==
    /\ \A t \in LogThreads : DOMAIN tab[t] \subseteq Addrs
    /\ v \in [LogThreads -> Seq(Addrs)]
    /\ ldepth \in [LogThreads -> Nat]
    /\ heap \subseteq Addrs
    /\ \A o \in held : o.a \in Addrs /\ o.by \in LogThreads /\ o.per \in BOOLEAN

(* What the program holds is allocated and known to the log of the thread  *)
(* that allocated it: a rewind frees nothing from before its mark, nothing *)
(* persist and nothing of another thread, although the vector still names  *)
(* addresses that were freed and given out again.                          *)
HeldIsAllocated == \A o \in held : o.a \in heap /\ Known(o.by, o.a)

(* A live address is in one log only, so that the search of a cross-thread *)
(* free or realloc through the registered logs finds the right entry.      *)
OneLogPerAddress == \A t, u \in LogThreads : t # u => DOMAIN tab[t] \cap DOMAIN tab[u] = {}

(* The log is sound: types, what the program holds, and who knows it.      *)
LogSound == LogTypeOK /\ HeldIsAllocated /\ OneLogPerAddress

(* mem_arena_bytes and mem_persist_bytes count exactly the live entries of *)
(* the thread's log, cross-thread frees and reallocs included.             *)
Accounting == \A t \in LogThreads :
    /\ live[t] = Bytes(t, {a \in DOMAIN tab[t] : ~tab[t][a].per})
    /\ liveP[t] = Bytes(t, {a \in DOMAIN tab[t] : tab[t][a].per})
    /\ live[t] <= peak[t]
=============================================================================

---------------------------- MODULE LmLogProofs ----------------------------
(***************************************************************************)
(* The allocation log of the LLVM backend, for any number of threads,      *)
(* addresses, marks and persist brackets: whatever a rewind frees, the     *)
(* program has given up.  realloc is assumed not to move a block to an     *)
(* address that a log still names (~MoveAnywhere); the run MCLmLogMove     *)
(* shows what happens otherwise.                                           *)
(***************************************************************************)
EXTENDS LmLog, FoldLemmas, SequenceTheorems

Things == [a : Addrs, by : LogThreads, per : BOOLEAN]
Entries == [n : Nat, per : BOOLEAN]
IsTable(f) == f \in [DOMAIN f -> Entries]
Marks == [at : Nat, keep : SUBSET Things]

\* The types of the variables, the tables and the marks included.
LogTypes == /\ LogTypeOK
            /\ DOMAIN tab = LogThreads /\ tab = [t \in LogThreads |-> tab[t]]
            /\ \A t \in LogThreads : IsTable(tab[t])
            /\ held \subseteq Things
            /\ lmarks \in [LogThreads -> SUBSET Marks]

\* Every entry of a table is an allocated address; what the program holds is
\* in the table of the thread that allocated it, as persist or not as it was
\* allocated; and it holds nothing twice.
HeapInv == /\ \A t \in LogThreads : DOMAIN tab[t] \subseteq heap
           /\ OneLogPerAddress
           /\ \A o \in held : Known(o.by, o.a) /\ tab[o.by][o.a].per = o.per
           /\ \A o, p \in held : o.a = p.a => o = p

\* What mem_rewind of a thread may take from the program.
Own(t) == {o \in held : o.by = t /\ ~o.per}

\* What a mark protects is held, belongs to the thread of the mark, and is
\* not named above the mark, where the vector may name addresses that were
\* freed and given out again.
MarkInv == \A t \in LogThreads : \A m \in lmarks[t] : \A o \in m.keep :
              /\ o \in held /\ o.by = t /\ ~o.per
              /\ \A i \in 1 .. Len(v[t]) : i > m.at => v[t][i] # o.a

LogInv == LogTypes /\ HeapInv /\ MarkInv

-----------------------------------------------------------------------------
(* The operators of the model.                                             *)

(* Replacing an address in the vector keeps its length, and puts the new   *)
(* one only where the old one was.                                         *)
LEMMA ReplacedType ==
    ASSUME NEW s \in Seq(Addrs), NEW old, NEW new \in Addrs
    PROVE  /\ Replaced(s, old, new) \in Seq(Addrs)
           /\ Len(Replaced(s, old, new)) = Len(s)
           /\ \A i \in 1 .. Len(s) : \/ Replaced(s, old, new)[i] = s[i]
                                     \/ s[i] = old /\ Replaced(s, old, new)[i] = new
  BY DEF Replaced

\* Every mark that is left comes from one of ms.
Followed(gone, came, ms) ==
    \A t \in LogThreads : \A k \in lmarks'[t] : \E m \in ms[t] :
        /\ k.at = m.at
        /\ k.keep = IF gone \cap m.keep = {} THEN m.keep ELSE (m.keep \ gone) \cup came

(* What becomes of the marks when the program trades things.               *)
LEMMA TradeMarks ==
    ASSUME NEW gone \in SUBSET Things, NEW came \in SUBSET Things,
           NEW ms \in [LogThreads -> SUBSET Marks], Trade(gone, came, ms)
    PROVE  lmarks' \in [LogThreads -> SUBSET Marks] /\ Followed(gone, came, ms)
<1>1. \A t \in LogThreads : lmarks'[t] = {After(m, gone, came) : m \in ms[t]}
  BY DEF Trade
<1>2. ASSUME NEW m \in Marks
      PROVE  /\ After(m, gone, came) \in Marks /\ After(m, gone, came).at = m.at
             /\ After(m, gone, came).keep
                   = IF gone \cap m.keep = {} THEN m.keep ELSE (m.keep \ gone) \cup came
  BY DEF Marks, After
<1>3. lmarks' = [t \in LogThreads |-> lmarks'[t]]
  BY DEF Trade
<1>4. ASSUME NEW t \in LogThreads, NEW k \in lmarks'[t]
      PROVE  \E m \in ms[t] :
                 /\ k \in Marks /\ k.at = m.at
                 /\ k.keep = IF gone \cap m.keep = {} THEN m.keep ELSE (m.keep \ gone) \cup came
  <2>1. PICK m \in ms[t] : k = After(m, gone, came)
    BY <1>1
  <2>2. QED
    BY <1>2, <2>1
<1>5. \A t \in LogThreads : lmarks'[t] \in SUBSET Marks
  BY <1>4
<1>6. lmarks' \in [LogThreads -> SUBSET Marks]
  BY <1>3, <1>5
<1>7. Followed(gone, came, ms)
  BY <1>4, Zenon DEF Followed
<1>8. QED
  BY <1>6, <1>7

(* The log that the search finds is the one the thing was allocated in.    *)
LEMMA SearchFinds ==
    ASSUME LogInv, NEW t \in LogThreads, NEW o \in held, NEW u \in LogOf(t, o.a)
    PROVE  u = o.by /\ u \in LogThreads /\ o \in Things
  BY DEF LogInv, LogTypes, HeapInv, OneLogPerAddress, LogOf, Known, Things

-----------------------------------------------------------------------------
(* The calls.                                                              *)

(* Initially every log is empty.                                           *)
LEMMA LogInvInit == LogInit => LogInv
<1> SUFFICES ASSUME LogInit PROVE LogInv
  OBVIOUS
<1>1. \A t \in LogThreads : DOMAIN tab[t] = {} /\ IsTable(tab[t])
  BY DEF LogInit, IsTable
<1>2. LogTypeOK
  BY <1>1 DEF LogInit, LogTypeOK
<1>3. LogTypes
  BY <1>1, <1>2 DEF LogInit, LogTypes
<1>4. HeapInv /\ MarkInv
  BY <1>1 DEF LogInit, HeapInv, MarkInv, OneLogPerAddress
<1>5. QED
  BY <1>3, <1>4 DEF LogInv

(* A call that leaves the log, the heap and what is held alone.            *)
LEMMA QuietLog ==
    ASSUME LogInv, UNCHANGED <<tab, v, heap, held>>, ldepth' \in [LogThreads -> Nat],
           lmarks' \in [LogThreads -> SUBSET Marks],
           \A t \in LogThreads : \A k \in lmarks'[t] : k \in lmarks[t]
               \/ (k.at = Len(v[t]) /\ k.keep \subseteq Own(t))
    PROVE  LogInv'
<1>1. LogTypes'
  BY DEF LogInv, LogTypes, LogTypeOK
<1>2. HeapInv'
  BY DEF LogInv, HeapInv, OneLogPerAddress, Known
<1>3. MarkInv'
  <2> SUFFICES ASSUME NEW t \in LogThreads, NEW k \in lmarks'[t], NEW o \in k.keep
               PROVE  /\ o \in held /\ o.by = t /\ ~o.per
                      /\ \A i \in 1 .. Len(v[t]) : i > k.at => v[t][i] # o.a
    BY DEF MarkInv
  <2>1. CASE k \in lmarks[t]
    BY <2>1 DEF LogInv, MarkInv
  <2>2. CASE k.at = Len(v[t]) /\ k.keep \subseteq Own(t)
    BY <2>2 DEF Own
  <2>3. QED
    BY <2>1, <2>2
<1>4. QED
  BY <1>1, <1>2, <1>3 DEF LogInv

(* mem_mark, and the persist brackets.                                     *)
LEMMA MarkStep ==
    ASSUME LmAssumption, LogInv, NEW t \in LogThreads,
           LmMark(t) \/ LmPersistBegin(t) \/ LmPersistEnd(t)
    PROVE  LogInv'
<1>1. CASE LmMark(t)
  <2> DEFINE k == [at |-> Len(v[t]), keep |-> Own(t)]
  <2>1. lmarks' = [lmarks EXCEPT ![t] = @ \cup {k}] /\ UNCHANGED <<tab, v, heap, held, ldepth>>
    BY <1>1 DEF LmMark, MarkAt, Own
  <2>2. k \in Marks /\ k.at = Len(v[t]) /\ k.keep = Own(t)
    BY DEF Own, LogInv, LogTypes, LogTypeOK, Marks
  <2> HIDE DEF k
  <2>3. lmarks' \in [LogThreads -> SUBSET Marks] /\ ldepth' \in [LogThreads -> Nat]
    BY <2>1, <2>2 DEF LogInv, LogTypes, LogTypeOK
  <2>4. \A u \in LogThreads : \A x \in lmarks'[u] : x \in lmarks[u]
            \/ (x.at = Len(v[u]) /\ x.keep \subseteq Own(u))
    <3>1. ASSUME NEW u \in LogThreads, NEW x \in lmarks'[u], x \notin lmarks[u]
          PROVE  x.at = Len(v[u]) /\ x.keep \subseteq Own(u)
      <4>1. lmarks \in [LogThreads -> SUBSET Marks]
        BY DEF LogInv, LogTypes
      <4>2. u = t /\ x = k
        BY <2>1, <3>1, <4>1
      <4>3. QED
        BY <2>2, <4>2
    <3>2. QED
      BY <3>1, Zenon
  <2>5. QED
    BY <2>1, <2>3, <2>4, QuietLog
<1>2. CASE LmPersistBegin(t) \/ LmPersistEnd(t)
  <2>1. UNCHANGED <<tab, v, heap, held, lmarks>>
    BY <1>2 DEF LmPersistBegin, LmPersistEnd
  <2>2. /\ ldepth \in [LogThreads -> Nat] /\ lmarks' \in [LogThreads -> SUBSET Marks]
        /\ \A u \in LogThreads : \A k \in lmarks'[u] : k \in lmarks[u]
            \/ (k.at = Len(v[u]) /\ k.keep \subseteq Own(u))
    <3>1. ldepth \in [LogThreads -> Nat] /\ lmarks \in [LogThreads -> SUBSET Marks]
      BY DEF LogInv, LogTypes, LogTypeOK
    <3>2. lmarks' = lmarks
      BY <2>1
    <3>3. QED
      BY <3>1, <3>2, Zenon
  <2>3. CASE LmPersistBegin(t)
    <3>1. ldepth' \in [LogThreads -> Nat]
      BY <2>2, <2>3 DEF LmPersistBegin
    <3>2. QED
      BY <2>1, <2>2, <3>1, QuietLog
  <2>4. CASE LmPersistEnd(t)
    <3>1. ldepth' = [ldepth EXCEPT ![t] = IF ldepth[t] > 0 THEN ldepth[t] - 1 ELSE ldepth[t]]
      BY <2>4 DEF LmPersistEnd
    <3>2. ldepth' \in [LogThreads -> Nat]
      BY <2>2, <3>1
    <3>3. QED
      BY <2>1, <2>2, <3>2, QuietLog
  <2>5. QED
    BY <1>2, <2>3, <2>4
<1>3. QED
  BY <1>1, <1>2

\* The marks of ms bear a trade: whatever comes is of the same thread and kind as
\* what goes, and the vectors name no protected address above the mark.
MarksBear(gone, came, ms) ==
    /\ \A t \in LogThreads : ms[t] \subseteq lmarks[t]
    /\ \A o \in gone, p \in came : p.by = o.by /\ p.per = o.per
    /\ \A t \in LogThreads : \A m \in ms[t] : \A o \in m.keep \ gone :
           \A i \in 1 .. Len(v'[t]) : i > m.at => v'[t][i] # o.a
    /\ \A t \in LogThreads : \A m \in ms[t] : \A o \in gone \cap m.keep, p \in came :
           \A i \in 1 .. Len(v'[t]) : i > m.at => v'[t][i] # p.a

(* The marks after a trade that they bear: what a mark protects is         *)
(* protected still.                                                        *)
LEMMA MarksSurvive ==
    ASSUME LogInv, NEW gone \in SUBSET held, NEW came \in SUBSET Things,
           NEW ms \in [LogThreads -> SUBSET Marks], MarksBear(gone, came, ms),
           Trade(gone, came, ms)
    PROVE  MarkInv' /\ lmarks' \in [LogThreads -> SUBSET Marks]
<1> USE DEF MarksBear
<1>1. gone \in SUBSET Things
  BY DEF LogInv, LogTypes
<1>2. lmarks' \in [LogThreads -> SUBSET Marks] /\ Followed(gone, came, ms)
  BY <1>1, TradeMarks
<1>3. held' = (held \ gone) \cup came
  BY DEF Trade
<1>4. ASSUME NEW t \in LogThreads, NEW k \in lmarks'[t], NEW o \in k.keep
      PROVE  /\ o \in held' /\ o.by = t /\ ~o.per
             /\ \A i \in 1 .. Len(v'[t]) : i > k.at => v'[t][i] # o.a
  <2>1. PICK m \in ms[t] :
            /\ k.at = m.at
            /\ k.keep = IF gone \cap m.keep = {} THEN m.keep ELSE (m.keep \ gone) \cup came
    BY <1>2 DEF Followed
  <2>2. \A p \in m.keep : p \in held /\ p.by = t /\ ~p.per
    BY DEF LogInv, MarkInv
  <2>3. CASE o \in m.keep \ gone
    BY <1>3, <2>1, <2>2, <2>3
  <2>4. CASE gone \cap m.keep # {} /\ o \in came
    <3>1. PICK p \in gone \cap m.keep : TRUE
      BY <2>4
    <3>2. o.by = t /\ ~o.per
      BY <2>2, <2>4, <3>1
    <3>3. QED
      BY <1>3, <2>1, <2>4, <3>1, <3>2
  <2>5. QED
    BY <2>1, <2>3, <2>4
<1>5. QED
  BY <1>2, <1>4 DEF MarkInv

(* The same, with what it takes to bear a trade written out.               *)
LEMMA MarksAfterTrade ==
    ASSUME LogInv, NEW gone \in SUBSET held, NEW came \in SUBSET Things,
           NEW ms \in [LogThreads -> SUBSET Marks], \A t \in LogThreads : ms[t] \subseteq lmarks[t],
           Trade(gone, came, ms),
           \A o \in gone, p \in came : p.by = o.by /\ p.per = o.per,
           \A t \in LogThreads : \A m \in ms[t] : \A o \in m.keep \ gone :
               \A i \in 1 .. Len(v'[t]) : i > m.at => v'[t][i] # o.a,
           \A t \in LogThreads : \A m \in ms[t] : \A o \in gone \cap m.keep, p \in came :
               \A i \in 1 .. Len(v'[t]) : i > m.at => v'[t][i] # p.a
    PROVE  MarkInv' /\ lmarks' \in [LogThreads -> SUBSET Marks]
<1>1. MarksBear(gone, came, ms)
  BY DEF MarksBear
<1>2. QED
  BY <1>1, MarksSurvive

(* The same for things that go and leave nothing behind.                   *)
LEMMA MarksAfterLoss ==
    ASSUME LogInv, NEW gone \in SUBSET held,
           NEW ms \in [LogThreads -> SUBSET Marks], \A t \in LogThreads : ms[t] \subseteq lmarks[t],
           Trade(gone, {}, ms),
           \A t \in LogThreads : \A m \in ms[t] : \A o \in m.keep \ gone :
               \A i \in 1 .. Len(v'[t]) : i > m.at => v'[t][i] # o.a
    PROVE  MarkInv' /\ lmarks' \in [LogThreads -> SUBSET Marks]
<1>1. MarksBear(gone, {}, ms)
  BY DEF MarksBear
<1>2. {} \in SUBSET Things
  OBVIOUS
<1>3. QED
  BY <1>1, <1>2, MarksSurvive

(* baga_lm_malloc: the address is new to every table, so that the stale    *)
(* places where the vector may name it do not matter.                      *)
LEMMA MallocStep ==
    ASSUME LmAssumption, LogInv, NEW t \in LogThreads, LmMalloc(t) PROVE LogInv'
<1>a. lmarks \in [LogThreads -> SUBSET Marks]
  BY DEF LogInv, LogTypes
<1>1. PICK a \in Addrs \ heap, n \in LogSizes :
         /\ heap' = heap \cup {a}
         /\ tab' = [tab EXCEPT ![t] = Put(tab[t], a, n, ldepth[t] > 0)]
         /\ v' = [v EXCEPT ![t] = Append(v[t], a)]
         /\ Trade({}, {[a |-> a, by |-> t, per |-> ldepth[t] > 0]}, lmarks)
         /\ UNCHANGED ldepth
  BY DEF LmMalloc
<1> DEFINE per == ldepth[t] > 0
           o == [a |-> a, by |-> t, per |-> per]
<1>2. /\ n \in Nat /\ per \in BOOLEAN /\ o \in Things /\ o.a = a /\ o.by = t /\ o.per = per
      /\ held' = held \cup {o} /\ Trade({}, {o}, lmarks)
  BY <1>1 DEF LmAssumption, LogInv, LogTypes, LogTypeOK, Things, Trade
<1> HIDE DEF o, per
<1>3. /\ DOMAIN tab' = LogThreads /\ tab' = [u \in LogThreads |-> tab'[u]]
      /\ \A u \in LogThreads \ {t} : tab'[u] = tab[u]
      /\ tab'[t] = Put(tab[t], a, n, per)
  BY <1>1 DEF LogInv, LogTypes, per
<1>4. /\ DOMAIN tab'[t] = DOMAIN tab[t] \cup {a} /\ IsTable(tab'[t])
      /\ tab'[t][a].per = per /\ \A x \in DOMAIN tab[t] \ {a} : tab'[t][x] = tab[t][x]
  <2>1. IsTable(tab[t])
    BY DEF LogInv, LogTypes
  <2>2. /\ DOMAIN Put(tab[t], a, n, per) = DOMAIN tab[t] \cup {a}
        /\ IsTable(Put(tab[t], a, n, per))
        /\ Put(tab[t], a, n, per)[a].per = per
        /\ \A x \in DOMAIN tab[t] \ {a} : Put(tab[t], a, n, per)[x] = tab[t][x]
    BY <1>2, <2>1 DEF Put, IsTable, Entries
  <2>3. QED
    BY <1>3, <2>2
<1>5. /\ v' \in [LogThreads -> Seq(Addrs)] /\ \A u \in LogThreads \ {t} : v'[u] = v[u]
      /\ Len(v'[t]) = Len(v[t]) + 1
      /\ \A i \in 1 .. Len(v'[t]) : v'[t][i] = a \/ (i \in 1 .. Len(v[t]) /\ v'[t][i] = v[t][i])
  BY <1>1 DEF LogInv, LogTypes, LogTypeOK
<1>6. \A p \in held : p.a \in heap /\ p.a # a /\ p.by \in LogThreads
  BY <1>1 DEF LogInv, LogTypes, HeapInv, Known, Things
<1>7. MarkInv' /\ lmarks' \in [LogThreads -> SUBSET Marks]
  <2>1. \A u \in LogThreads : \A m \in lmarks[u] : \A p \in m.keep :
               \A i \in 1 .. Len(v'[u]) : i > m.at => v'[u][i] # p.a
    BY <1>5, <1>6 DEF LogInv, MarkInv
  <2>2. QED
    <3>1. {} \in SUBSET held /\ {o} \in SUBSET Things
      BY <1>2
    <3>2. \A u \in LogThreads : \A m \in lmarks[u] : \A p \in m.keep \ {} :
               \A i \in 1 .. Len(v'[u]) : i > m.at => v'[u][i] # p.a
      BY <2>1
    <3>3. QED
      BY <1>a, <1>2, <3>1, <3>2, MarksAfterTrade
<1>8. LogTypes'
  <2>1. \A u \in LogThreads : DOMAIN tab'[u] \subseteq Addrs /\ IsTable(tab'[u])
    BY <1>3, <1>4 DEF LogInv, LogTypes, LogTypeOK
  <2>2. held' \subseteq Things
    BY <1>2 DEF LogInv, LogTypes
  <2>3. LogTypeOK'
    BY <1>1, <1>2, <1>5, <2>1, <2>2 DEF LogInv, LogTypes, LogTypeOK, Things
  <2>4. QED
    BY <1>3, <1>7, <2>1, <2>2, <2>3 DEF LogTypes
<1>9. HeapInv'
  <2>1. \A u \in LogThreads : DOMAIN tab[u] \subseteq heap /\ a \notin DOMAIN tab[u]
    BY <1>1 DEF LogInv, HeapInv
  <2>2. OneLogPerAddress'
    BY <1>3, <1>4, <2>1 DEF LogInv, HeapInv, OneLogPerAddress
  <2>3. \A p \in held' : p.a \in DOMAIN tab'[p.by] /\ tab'[p.by][p.a].per = p.per
    BY <1>2, <1>3, <1>4, <1>6 DEF LogInv, HeapInv, Known
  <2>4. \A p, r \in held' : p.a = r.a => p = r
    BY <1>2, <1>6 DEF LogInv, HeapInv
  <2>5. QED
    BY <1>1, <1>3, <1>4, <2>1, <2>2, <2>3, <2>4 DEF HeapInv, Known
<1>10. QED
  BY <1>7, <1>8, <1>9 DEF LogInv

(* baga_lm_free: only the entry of the thing itself goes.                  *)
LEMMA FreeStep ==
    ASSUME LogInv, NEW t \in LogThreads, LmFree(t) PROVE LogInv'
<1>a. lmarks \in [LogThreads -> SUBSET Marks]
  BY DEF LogInv, LogTypes
<1>0. PICK o \in held : \E u \in LogOf(t, o.a) :
         /\ tab' = [tab EXCEPT ![u] = Del(tab[u], {o.a})]
         /\ heap' = heap \ {o.a}
         /\ Trade({o}, {}, lmarks)
         /\ UNCHANGED <<v, ldepth>>
  BY DEF LmFree
<1>1. PICK u \in LogOf(t, o.a) :
         /\ tab' = [tab EXCEPT ![u] = Del(tab[u], {o.a})]
         /\ heap' = heap \ {o.a}
         /\ Trade({o}, {}, lmarks)
         /\ UNCHANGED <<v, ldepth>>
  BY <1>0
<1>2. u = o.by /\ u \in LogThreads /\ o \in Things /\ held' = held \ {o} /\ Trade({o}, {}, lmarks)
  BY <1>1, SearchFinds DEF Trade
<1>3. /\ DOMAIN tab' = LogThreads /\ tab' = [x \in LogThreads |-> tab'[x]]
      /\ \A x \in LogThreads \ {u} : tab'[x] = tab[x]
      /\ tab'[u] = Del(tab[u], {o.a})
  BY <1>1, <1>2 DEF LogInv, LogTypes
<1>4. /\ DOMAIN tab'[u] = DOMAIN tab[u] \ {o.a} /\ IsTable(tab'[u])
      /\ \A x \in DOMAIN tab[u] \ {o.a} : tab'[u][x] = tab[u][x]
  <2>1. IsTable(tab[u])
    BY <1>2 DEF LogInv, LogTypes
  <2>2. QED
    BY <1>3, <2>1 DEF Del, IsTable
<1>5. MarkInv' /\ lmarks' \in [LogThreads -> SUBSET Marks]
  <2>1. \A x \in LogThreads : \A m \in lmarks[x] : \A p \in m.keep :
               \A i \in 1 .. Len(v'[x]) : i > m.at => v'[x][i] # p.a
    BY <1>1 DEF LogInv, MarkInv
  <2>2. QED
    <3>1. {o} \in SUBSET held /\ \A x \in LogThreads : lmarks[x] \subseteq lmarks[x]
      OBVIOUS
    <3>2. \A x \in LogThreads : \A m \in lmarks[x] : \A p \in m.keep \ {o} :
               \A i \in 1 .. Len(v'[x]) : i > m.at => v'[x][i] # p.a
      BY <2>1
    <3>3. QED
      BY <1>a, <1>2, <3>1, <3>2, MarksAfterLoss
<1>6. LogTypes'
  <2>1. \A x \in LogThreads : DOMAIN tab'[x] \subseteq Addrs /\ IsTable(tab'[x])
    BY <1>2, <1>3, <1>4 DEF LogInv, LogTypes, LogTypeOK
  <2>2. LogTypeOK'
    BY <1>1, <1>2, <2>1 DEF LogInv, LogTypes, LogTypeOK
  <2>3. QED
    BY <1>2, <1>3, <1>5, <2>1, <2>2 DEF LogInv, LogTypes
<1>7. HeapInv'
  <2>1. \A x \in LogThreads : DOMAIN tab'[x] \subseteq DOMAIN tab[x]
    BY <1>3, <1>4
  <2>2. OneLogPerAddress'
    BY <2>1 DEF LogInv, HeapInv, OneLogPerAddress
  <2>3. \A x \in LogThreads : DOMAIN tab'[x] \subseteq heap'
    <3>1. o.a \in DOMAIN tab[u] /\ \A x \in LogThreads : DOMAIN tab[x] \subseteq heap
      BY <1>2 DEF LogInv, HeapInv, Known
    <3>2. \A x \in LogThreads \ {u} : o.a \notin DOMAIN tab[x]
      BY <1>2, <3>1 DEF LogInv, HeapInv, OneLogPerAddress
    <3>3. QED
      BY <1>1, <1>3, <1>4, <3>1, <3>2, ZenonT(60)
  <2>4. \A p \in held' : p.a # o.a /\ p.by \in LogThreads /\ p \in held
    BY <1>2 DEF LogInv, LogTypes, HeapInv, Things
  <2>5. \A p \in held' : p.a \in DOMAIN tab'[p.by] /\ tab'[p.by][p.a].per = p.per
    BY <1>3, <1>4, <2>4, ZenonT(60) DEF LogInv, HeapInv, Known
  <2>6. QED
    BY <1>2, <2>2, <2>3, <2>5 DEF LogInv, HeapInv, Known
<1>8. QED
  BY <1>5, <1>6, <1>7 DEF LogInv

(* baga_lm_realloc: the entry moves with the block, in the table and in    *)
(* the vector of the thread that allocated it.                             *)
LEMMA ReallocStep ==
    ASSUME LmAssumption, ~MoveAnywhere, LogInv, NEW t \in LogThreads, LmRealloc(t) PROVE LogInv'
<1>a. lmarks \in [LogThreads -> SUBSET Marks]
  BY DEF LogInv, LogTypes
<1>0. PICK o \in held, n \in LogSizes : \E u \in LogOf(t, o.a), b \in Moves(o.a) :
         /\ heap' = (heap \ {o.a}) \cup {b}
         /\ tab' = [tab EXCEPT ![u] = Put(Del(tab[u], {o.a}), b, n, tab[u][o.a].per)]
         /\ v' = [v EXCEPT ![u] = Replaced(v[u], o.a, b)]
         /\ Trade({o}, {[o EXCEPT !.a = b]}, lmarks)
         /\ UNCHANGED ldepth
  BY SMTT(40), ZenonT(60) DEF LmRealloc
<1>1. PICK u \in LogOf(t, o.a), b \in Moves(o.a) :
         /\ heap' = (heap \ {o.a}) \cup {b}
         /\ tab' = [tab EXCEPT ![u] = Put(Del(tab[u], {o.a}), b, n, tab[u][o.a].per)]
         /\ v' = [v EXCEPT ![u] = Replaced(v[u], o.a, b)]
         /\ Trade({o}, {[o EXCEPT !.a = b]}, lmarks)
         /\ UNCHANGED ldepth
  BY <1>0
<1> DEFINE q == [o EXCEPT !.a = b]
<1>2. u = o.by /\ u \in LogThreads /\ o \in Things
  BY <1>1, SearchFinds
<1>3. /\ o.a \in heap /\ o.a \in Addrs /\ b \in Addrs /\ (b = o.a \/ b \notin heap)
      /\ b # o.a => \A x \in LogThreads : \A i \in 1 .. Len(v[x]) : v[x][i] # b
  <2>1. b = o.a \/ (b \in Addrs \ heap /\ \A x \in LogThreads : b \notin Range(v[x]))
    BY DEF Moves
  <2>2. \A x \in LogThreads : DOMAIN v[x] = 1 .. Len(v[x])
    BY DEF LogInv, LogTypes, LogTypeOK
  <2>3. o.a \in heap /\ o.a \in Addrs
    BY <1>2 DEF LogInv, HeapInv, Known, Things
  <2>4. QED
    BY <2>1, <2>2, <2>3 DEF Range
<1>4. q \in Things /\ q.a = b /\ q.by = u /\ q.per = o.per /\ held' = (held \ {o}) \cup {q}
      /\ Trade({o}, {q}, lmarks)
  BY <1>1, <1>2, <1>3 DEF Things, Trade
<1> HIDE DEF q
<1>5. /\ tab[u][o.a].per = o.per /\ o.per \in BOOLEAN /\ n \in Nat /\ IsTable(tab[u])
      /\ o.a \in DOMAIN tab[u] /\ DOMAIN tab[u] \subseteq heap
  BY <1>2 DEF LogInv, LogTypes, HeapInv, Known, LmAssumption, Things
<1>6. /\ DOMAIN tab' = LogThreads /\ tab' = [x \in LogThreads |-> tab'[x]]
      /\ \A x \in LogThreads \ {u} : tab'[x] = tab[x]
      /\ tab'[u] = Put(Del(tab[u], {o.a}), b, n, o.per)
  BY <1>1, <1>2, <1>5 DEF LogInv, LogTypes
<1>7. /\ DOMAIN tab'[u] = (DOMAIN tab[u] \ {o.a}) \cup {b} /\ IsTable(tab'[u])
      /\ tab'[u][b].per = o.per
      /\ \A x \in DOMAIN tab[u] \ {o.a, b} : tab'[u][x] = tab[u][x]
  <2>1. PICK f : f = Del(tab[u], {o.a})
    OBVIOUS
  <2>2. /\ DOMAIN f = DOMAIN tab[u] \ {o.a} /\ IsTable(f)
        /\ \A x \in DOMAIN tab[u] \ {o.a} : f[x] = tab[u][x]
    BY <1>5, <2>1 DEF Del, IsTable
  <2>3. tab'[u] = Put(f, b, n, o.per)
    BY <1>6, <2>1
  <2>4. QED
    BY <1>5, <2>2, <2>3 DEF Put, IsTable, Entries
<1>8. /\ v' \in [LogThreads -> Seq(Addrs)] /\ \A x \in LogThreads \ {u} : v'[x] = v[x]
      /\ Len(v'[u]) = Len(v[u])
      /\ \A i \in 1 .. Len(v[u]) : v'[u][i] = v[u][i] \/ (v[u][i] = o.a /\ v'[u][i] = b)
  <2>1. v \in [LogThreads -> Seq(Addrs)] /\ v'[u] = Replaced(v[u], o.a, b)
    BY <1>1, <1>2 DEF LogInv, LogTypes, LogTypeOK
  <2>2. v[u] \in Seq(Addrs)
    BY <1>2, <2>1
  <2>3. QED
    BY <1>1, <1>2, <1>3, <2>1, <2>2, ReplacedType
<1>9. \A p \in held \ {o} : p.a \in heap /\ p.a # o.a /\ p.a # b /\ p.by \in LogThreads
  BY <1>3 DEF LogInv, LogTypes, HeapInv, Known, Things
<1>10. MarkInv' /\ lmarks' \in [LogThreads -> SUBSET Marks]
  <2>1. \A x \in LogThreads : \A m \in lmarks[x] : \A p \in m.keep \ {o} :
               \A i \in 1 .. Len(v'[x]) : i > m.at => v'[x][i] # p.a
    <3> SUFFICES ASSUME NEW x \in LogThreads, NEW m \in lmarks[x], NEW p \in m.keep \ {o},
                        NEW i \in 1 .. Len(v'[x]), i > m.at
                 PROVE  v'[x][i] # p.a
      OBVIOUS
    <3>1. p \in held /\ \A j \in 1 .. Len(v[x]) : j > m.at => v[x][j] # p.a
      BY DEF LogInv, MarkInv
    <3>2. p.a # b
      BY <1>9, <3>1
    <3>3. Len(v'[x]) = Len(v[x]) /\ (v'[x][i] = v[x][i] \/ v'[x][i] = b)
      BY <1>2, <1>8
    <3>4. QED
      BY <3>1, <3>2, <3>3
  <2>2. \A x \in LogThreads : \A m \in lmarks[x] : o \in m.keep =>
               \A i \in 1 .. Len(v'[x]) : i > m.at => v'[x][i] # b
    BY <1>2, <1>3, <1>8, SMTT(40) DEF LogInv, MarkInv
  <2>3. QED
    <3>1. \A x \in LogThreads : \A m \in lmarks[x] : \A p \in {o} \cap m.keep, r \in {q} :
               \A i \in 1 .. Len(v'[x]) : i > m.at => v'[x][i] # r.a
      BY <1>4, <2>2
    <3>2. \A p \in {o}, r \in {q} : r.by = p.by /\ r.per = p.per
      BY <1>2, <1>4
    <3>3. {o} \in SUBSET held /\ {q} \in SUBSET Things
      BY <1>4
    <3>4. QED
      BY <1>a, <1>4, <2>1, <3>1, <3>2, <3>3, MarksAfterTrade, ZenonT(60)
<1>11. LogTypes'
  <2>1. \A x \in LogThreads : DOMAIN tab'[x] \subseteq Addrs /\ IsTable(tab'[x])
    BY <1>2, <1>3, <1>6, <1>7, ZenonT(60) DEF LogInv, LogTypes, LogTypeOK
  <2>2. held' \subseteq Things /\ heap' \subseteq Addrs /\ ldepth' \in [LogThreads -> Nat]
    BY <1>1, <1>3, <1>4 DEF LogInv, LogTypes, LogTypeOK
  <2>3. LogTypeOK'
    BY <1>8, <2>1, <2>2 DEF LogTypeOK, Things
  <2>4. QED
    BY <1>6, <1>10, <2>1, <2>2, <2>3 DEF LogTypes
<1>12. HeapInv'
  <2>0. \A x \in LogThreads \ {u} : tab'[x] = tab[x]
    BY <1>6
  <2>1. \A x \in LogThreads : x # u => o.a \notin DOMAIN tab[x] /\ b \notin DOMAIN tab[x]
    BY <1>2, <1>3, <1>5 DEF LogInv, HeapInv, OneLogPerAddress
  <2>2. OneLogPerAddress'
    <3>1. \A x, y \in LogThreads : x # y => DOMAIN tab[x] \cap DOMAIN tab[y] = {}
      BY DEF LogInv, HeapInv, OneLogPerAddress
    <3>2. DOMAIN tab'[u] \subseteq DOMAIN tab[u] \cup {b}
      BY <1>7
    <3>3. QED
      BY <2>0, <2>1, <3>1, <3>2 DEF OneLogPerAddress
  <2>3. \A x \in LogThreads : DOMAIN tab'[x] \subseteq heap'
    <3>1. \A x \in LogThreads : DOMAIN tab[x] \subseteq heap
      BY DEF LogInv, HeapInv
    <3>2. QED
      <4>1. heap' = (heap \ {o.a}) \cup {b} /\ DOMAIN tab'[u] = (DOMAIN tab[u] \ {o.a}) \cup {b}
        BY <1>1, <1>7
      <4>2. QED
        BY <2>0, <2>1, <3>1, <4>1
  <2>4. ASSUME NEW p \in held' PROVE p.a \in DOMAIN tab'[p.by] /\ tab'[p.by][p.a].per = p.per
    <3>1. \A y \in held : y.a \in DOMAIN tab[y.by] /\ tab[y.by][y.a].per = y.per
      BY DEF LogInv, HeapInv, Known
    <3>2. CASE p = q
      BY <1>4, <1>7, <3>2
    <3>3. CASE p \in held \ {o} /\ p.by = u
      BY <1>7, <1>9, <3>1, <3>3
    <3>4. CASE p \in held \ {o} /\ p.by # u
      BY <1>9, <2>0, <3>1, <3>4
    <3>5. QED
      BY <1>4, <3>2, <3>3, <3>4
  <2>5. \A p, r \in held' : p.a = r.a => p = r
    BY <1>4, <1>9 DEF LogInv, HeapInv
  <2>6. QED
    BY <2>2, <2>3, <2>4, <2>5 DEF HeapInv, Known
<1>13. QED
  BY <1>10, <1>11, <1>12 DEF LogInv

(* Two vectors, one after the other.                                       *)
LEMMA OneAfterOther ==
    ASSUME NEW a \in Seq(Addrs), NEW b \in Seq(Addrs)
    PROVE  /\ a \o b \in Seq(Addrs)
           /\ \A i \in 1 .. Len(a \o b) :
                 \/ i \in 1 .. Len(a) /\ (a \o b)[i] = a[i]
                 \/ i > Len(a) /\ \E k \in 1 .. Len(b) : (a \o b)[i] = b[k]
<1>1. PICK r : r = a \o b
  OBVIOUS
<1>2. /\ r \in Seq(Addrs) /\ Len(r) = Len(a) + Len(b)
      /\ \A i \in 1 .. Len(a) + Len(b) : r[i] = IF i <= Len(a) THEN a[i] ELSE b[i - Len(a)]
  BY <1>1, ConcatProperties
<1>3. Len(a) \in Nat /\ Len(b) \in Nat
  OBVIOUS
<1>4. ASSUME NEW i \in 1 .. Len(r)
      PROVE  \/ i \in 1 .. Len(a) /\ r[i] = a[i]
             \/ i > Len(a) /\ \E k \in 1 .. Len(b) : r[i] = b[k]
  <2>1. CASE i <= Len(a)
    BY <1>2, <1>3, <2>1
  <2>2. CASE i > Len(a)
    <3>1. i - Len(a) \in 1 .. Len(b) /\ r[i] = b[i - Len(a)]
      BY <1>2, <1>3, <2>2
    <3>2. QED
      BY <2>2, <3>1
  <2>3. QED
    BY <1>3, <2>1, <2>2
<1>5. QED
  BY <1>1, <1>2, <1>4

\* r is s up to place at, and above it names only what s names at places of P.
IsRewound(s, at, P, r) ==
    /\ r \in Seq(Addrs)
    /\ \A i \in 1 .. Len(r) : \/ i \in 1 .. at /\ r[i] = s[i]
                              \/ i > at /\ \E j \in P : r[i] = s[j]

(* What the vector of a log names after a rewind: what it named before the *)
(* mark, and what was kept from above it.                                  *)
LEMMA RewoundVector ==
    ASSUME NEW s \in Seq(Addrs), NEW at \in Nat, at <= Len(s), NEW P,
           P \subseteq at + 1 .. Len(s), NEW f \in InOrder(P)
    PROVE  IsRewound(s, at, P, Rewound(s, at, f))
<1> DEFINE low == SubSeq(s, 1, at)
           w == [k \in DOMAIN f |-> s[f[k]]]
<1>1. low \in Seq(Addrs) /\ Len(low) = at /\ \A i \in 1 .. at : low[i] = s[i]
  OBVIOUS
<1>2. PICK c \in Nat : f \in [1 .. c -> P]
  <2>1. IsFiniteSet(at + 1 .. Len(s))
    BY FS_Interval
  <2>2. QED
    BY <2>1, FS_Subset, FS_CardinalityType DEF InOrder
<1>3. w \in Seq(Addrs) /\ Len(w) = c /\ \A k \in 1 .. c : f[k] \in P /\ w[k] = s[f[k]]
  <2>0. P \subseteq 1 .. Len(s)
    OBVIOUS
  <2>1. DOMAIN f = 1 .. c /\ \A k \in 1 .. c : f[k] \in P /\ f[k] \in 1 .. Len(s)
    BY <1>2, <2>0
  <2>2. \A k \in 1 .. c : s[f[k]] \in Addrs
    BY <2>1
  <2>3. w = [k \in 1 .. c |-> s[f[k]]]
    BY <2>1
  <2>4. w \in [1 .. c -> Addrs]
    BY <2>2, <2>3
  <2>5. w \in Seq(Addrs) /\ Len(w) = c
    BY <1>2, <2>4
  <2>6. QED
    BY <2>1, <2>3, <2>5
<1>4. Rewound(s, at, f) = low \o w
  BY DEF Rewound
<1> HIDE DEF low, w
<1>5. /\ low \o w \in Seq(Addrs)
      /\ \A i \in 1 .. Len(low \o w) :
            \/ i \in 1 .. Len(low) /\ (low \o w)[i] = low[i]
            \/ i > Len(low) /\ \E k \in 1 .. Len(w) : (low \o w)[i] = w[k]
  BY <1>1, <1>3, OneAfterOther
<1>6. ASSUME NEW r, r = low \o w PROVE IsRewound(s, at, P, r)
  <2>1. r \in Seq(Addrs)
    BY <1>5, <1>6
  <2>2. ASSUME NEW i \in 1 .. Len(r)
        PROVE  \/ i \in 1 .. at /\ r[i] = s[i]
               \/ i > at /\ \E j \in P : r[i] = s[j]
    BY <1>1, <1>3, <1>5, <1>6
  <2>3. QED
    BY <2>1, <2>2 DEF IsRewound
<1>7. QED
  BY <1>4, <1>6, Zenon

(* mem_rewind: what it frees was allocated by this thread after the mark,  *)
(* is not persist, and so is what the program gives up.                    *)
LEMMA RewindStep ==
    ASSUME LogInv, NEW t \in LogThreads, LmRewind(t) PROVE LogInv'
<1>a. lmarks \in [LogThreads -> SUBSET Marks] /\ v \in [LogThreads -> Seq(Addrs)] /\ v[t] \in Seq(Addrs)
  BY DEF LogInv, LogTypes, LogTypeOK
<1>1. PICK m \in lmarks[t] :
    LET above == m.at + 1 .. Len(v[t])
        persist == {i \in above : Known(t, v[t][i]) /\ tab[t][v[t][i]].per}
        dead == {a \in {v[t][i] : i \in above} : Known(t, a) /\ ~tab[t][a].per}
        died == {o \in held : o.by = t /\ ~o.per} \ m.keep
    IN /\ IF m.at > Len(v[t]) THEN UNCHANGED <<tab, v, live, heap>>
          ELSE /\ \E f \in InOrder(persist) : v' = [v EXCEPT ![t] = Rewound(@, m.at, f)]
               /\ live' = [live EXCEPT ![t] = @ - Bytes(t, dead)]
               /\ tab' = [tab EXCEPT ![t] = Del(@, dead)]
               /\ heap' = heap \ dead
       /\ Trade(died, {}, [lmarks EXCEPT ![t] = @ \ {m}])
       /\ UNCHANGED <<peak, liveP, ldepth>>
  BY DEF LmRewind
<1> DEFINE persist == {i \in m.at + 1 .. Len(v[t]) : Known(t, v[t][i]) /\ tab[t][v[t][i]].per}
           dead == {a \in {v[t][i] : i \in m.at + 1 .. Len(v[t])} : Known(t, a) /\ ~tab[t][a].per}
           died == Own(t) \ m.keep
           ms == [lmarks EXCEPT ![t] = @ \ {m}]
<1>2. /\ Trade(died, {}, ms) /\ ldepth' = ldepth /\ held' = held \ died
      /\ died \in SUBSET held /\ \A o \in died : o.by = t /\ ~o.per
  BY <1>1 DEF Own, Trade
<1>3. ms \in [LogThreads -> SUBSET Marks] /\ \A x \in LogThreads : ms[x] \subseteq lmarks[x]
  BY <1>a
<1>4. /\ \A a \in dead : a \in DOMAIN tab[t] /\ ~tab[t][a].per
      /\ \A a \in dead : \E i \in 1 .. Len(v[t]) : i > m.at /\ v[t][i] = a
      /\ \A i \in persist : i \in 1 .. Len(v[t]) /\ Known(t, v[t][i]) /\ tab[t][v[t][i]].per
  <2>1. m.at \in Nat /\ Len(v[t]) \in Nat
    BY <1>a, <1>1 DEF Marks
  <2>2. QED
    BY <2>1 DEF Known
<1>5. CASE m.at > Len(v[t])
  <2>1. UNCHANGED <<tab, v, heap, ldepth>>
    BY <1>1, <1>2, <1>5
  <2>2. \A x \in LogThreads : \A k \in ms[x] : \A o \in k.keep \ died :
            \A i \in 1 .. Len(v'[x]) : i > k.at => v'[x][i] # o.a
    BY <1>3, <2>1 DEF LogInv, MarkInv
  <2> HIDE DEF died, ms, dead, persist
  <2>3. MarkInv' /\ lmarks' \in [LogThreads -> SUBSET Marks]
    BY <1>2, <1>3, <2>2, MarksAfterLoss
  <2>4. LogTypes' /\ HeapInv'
    BY <1>2, <2>1, <2>3 DEF LogInv, LogTypes, LogTypeOK, HeapInv, OneLogPerAddress, Known
  <2>5. QED
    BY <2>3, <2>4 DEF LogInv
<1>6. CASE ~(m.at > Len(v[t]))
  <2>1. PICK f \in InOrder(persist) : v' = [v EXCEPT ![t] = Rewound(v[t], m.at, f)]
    BY <1>1, <1>6
  <2>2. tab' = [tab EXCEPT ![t] = Del(tab[t], dead)] /\ heap' = heap \ dead
    BY <1>1, <1>6
  <2>3. m.at \in Nat /\ m.at <= Len(v[t]) /\ persist \subseteq m.at + 1 .. Len(v[t])
    BY <1>a, <1>1, <1>6 DEF Marks
  <2> HIDE DEF died, ms, dead, persist
  <2>4. IsRewound(v[t], m.at, persist, Rewound(v[t], m.at, f))
    BY <1>a, <2>1, <2>3, RewoundVector
  <2>5. /\ v' \in [LogThreads -> Seq(Addrs)] /\ \A x \in LogThreads \ {t} : v'[x] = v[x]
        /\ \A i \in 1 .. Len(v'[t]) :
              \/ i \in 1 .. m.at /\ v'[t][i] = v[t][i]
              \/ i > m.at /\ \E j \in persist : v'[t][i] = v[t][j]
    <3>1. PICK r : r = Rewound(v[t], m.at, f)
      OBVIOUS
    <3>2. IsRewound(v[t], m.at, persist, r) /\ v' = [v EXCEPT ![t] = r]
      BY <2>1, <2>4, <3>1
    <3>3. v'[t] = r /\ r \in Seq(Addrs)
      BY <1>a, <3>2 DEF IsRewound
    <3>4. v' \in [LogThreads -> Seq(Addrs)] /\ \A x \in LogThreads \ {t} : v'[x] = v[x]
      BY <1>a, <3>2, <3>3
    <3>5. QED
      BY <3>2, <3>3, <3>4 DEF IsRewound
  <2>6. /\ DOMAIN tab' = LogThreads /\ tab' = [x \in LogThreads |-> tab'[x]]
        /\ \A x \in LogThreads \ {t} : tab'[x] = tab[x]
        /\ tab'[t] = Del(tab[t], dead)
    BY <2>2 DEF LogInv, LogTypes
  <2>7. /\ DOMAIN tab'[t] = DOMAIN tab[t] \ dead /\ IsTable(tab'[t])
        /\ \A x \in DOMAIN tab[t] \ dead : tab'[t][x] = tab[t][x]
    <3>1. IsTable(tab[t])
      BY DEF LogInv, LogTypes
    <3>2. QED
      BY <2>6, <3>1 DEF Del, IsTable
  \* A place that is kept above the mark holds a persist thing.
  <2>8. \A x \in LogThreads : \A k \in ms[x] : \A o \in k.keep \ died :
            \A i \in 1 .. Len(v'[x]) : i > k.at => v'[x][i] # o.a
    <3> SUFFICES ASSUME NEW x \in LogThreads, NEW k \in ms[x], NEW o \in k.keep,
                        NEW i \in 1 .. Len(v'[x]), i > k.at
                 PROVE  v'[x][i] # o.a
      OBVIOUS
    <3>1. /\ o \in held /\ o.by = x /\ ~o.per
          /\ \A j \in 1 .. Len(v[x]) : j > k.at => v[x][j] # o.a
      BY <1>3 DEF LogInv, MarkInv
    <3>2. CASE x # t
      BY <2>5, <3>1, <3>2
    <3>3. CASE x = t /\ i \in 1 .. m.at /\ v'[t][i] = v[t][i]
      BY <1>a, <2>3, <3>1, <3>3
    <3>4. CASE x = t /\ \E j \in persist : v'[t][i] = v[t][j]
      <4>1. PICK j \in persist : v'[t][i] = v[t][j]
        BY <3>4
      <4>2. ~tab[t][o.a].per
        BY <3>1, <3>4 DEF LogInv, HeapInv
      <4>3. QED
        BY <1>4, <3>4, <4>1, <4>2
    <3>5. QED
      BY <2>5, <3>2, <3>3, <3>4
  <2>9. MarkInv' /\ lmarks' \in [LogThreads -> SUBSET Marks]
    BY <1>2, <1>3, <2>8, MarksAfterLoss
  <2>10. LogTypes'
    <3>1. \A x \in LogThreads : DOMAIN tab'[x] \subseteq Addrs /\ IsTable(tab'[x])
      BY <2>6, <2>7 DEF LogInv, LogTypes, LogTypeOK
    <3>2. held' \subseteq Things /\ heap' \subseteq Addrs /\ ldepth' \in [LogThreads -> Nat]
      BY <1>2, <2>2 DEF LogInv, LogTypes, LogTypeOK
    <3>3. LogTypeOK'
      BY <2>5, <3>1, <3>2 DEF LogTypeOK, Things
    <3>4. QED
      BY <2>6, <2>9, <3>1, <3>2, <3>3 DEF LogTypes
  <2>11. \A x \in LogThreads : DOMAIN tab'[x] \subseteq DOMAIN tab[x]
    BY <2>6, <2>7
  <2>12. \A x \in LogThreads : DOMAIN tab'[x] \subseteq heap'
    <3>1. \A x \in LogThreads : DOMAIN tab[x] \subseteq heap
      BY DEF LogInv, HeapInv
    <3>2. \A x \in LogThreads \ {t} : \A a \in dead : a \notin DOMAIN tab[x]
      BY <1>4 DEF LogInv, HeapInv, OneLogPerAddress
    <3>3. heap' = heap \ dead
      BY <2>2
    <3>4. QED
      BY <2>6, <2>7, <3>1, <3>2, <3>3
  \* What is left is not freed: a thing of this thread that is not persist is
  \* protected by the mark, which names it nowhere above.
  <2>13. ASSUME NEW o \in held'
         PROVE  o.a \in DOMAIN tab'[o.by] /\ tab'[o.by][o.a].per = o.per
    <3>1. /\ o \in held /\ o \notin died /\ o.by \in LogThreads
          /\ o.a \in DOMAIN tab[o.by] /\ tab[o.by][o.a].per = o.per
      BY <1>2 DEF LogInv, LogTypes, HeapInv, Known, Things
    <3>2. CASE o.by # t
      BY <2>6, <3>1, <3>2
    <3>3. CASE o.by = t
      <4>1. o.a \notin dead
        <5>1. CASE o.per
          BY <1>4, <3>1, <3>3, <5>1
        <5>2. CASE ~o.per
          <6>1. o \in m.keep
            BY <3>1, <3>3, <5>2 DEF died, Own
          <6>2. \A i \in 1 .. Len(v[t]) : i > m.at => v[t][i] # o.a
            BY <6>1 DEF LogInv, MarkInv
          <6>3. QED
            BY <1>4, <6>2
        <5>3. QED
          BY <5>1, <5>2
      <4>2. QED
        BY <2>7, <3>1, <3>3, <4>1
    <3>4. QED
      BY <3>2, <3>3
  <2>14. HeapInv'
    <3>1. OneLogPerAddress'
      BY <2>11 DEF LogInv, HeapInv, OneLogPerAddress
    <3>2. \A o, p \in held' : o.a = p.a => o = p
      BY <1>2 DEF LogInv, HeapInv
    <3>3. QED
      BY <2>12, <2>13, <3>1, <3>2 DEF HeapInv, Known
  <2>15. QED
    BY <2>9, <2>10, <2>14 DEF LogInv
<1>7. QED
  BY <1>5, <1>6

-----------------------------------------------------------------------------
(* The theorem.                                                            *)

(* Every step of every thread keeps the invariant.                         *)
LEMMA LogInvNext ==
    ASSUME LmAssumption, ~MoveAnywhere PROVE LogInv /\ [LogNext]_logVars => LogInv'
<1> SUFFICES ASSUME LogInv, [LogNext]_logVars PROVE LogInv'
  OBVIOUS
<1>1. ASSUME NEW t \in LogThreads, LmMalloc(t) PROVE LogInv'
  BY <1>1, MallocStep
<1>2. ASSUME NEW t \in LogThreads, LmRealloc(t) PROVE LogInv'
  BY <1>2, ReallocStep
<1>3. ASSUME NEW t \in LogThreads, LmFree(t) PROVE LogInv'
  BY <1>3, FreeStep
<1>4. ASSUME NEW t \in LogThreads, LmRewind(t) PROVE LogInv'
  BY <1>4, RewindStep
<1>5. ASSUME NEW t \in LogThreads, LmMark(t) \/ LmPersistBegin(t) \/ LmPersistEnd(t) PROVE LogInv'
  BY <1>5, MarkStep
<1>6. CASE UNCHANGED logVars
  BY <1>6 DEF logVars, LogInv, LogTypes, LogTypeOK, HeapInv, MarkInv, OneLogPerAddress, Known
<1>7. QED
  BY <1>1, <1>2, <1>3, <1>4, <1>5, <1>6 DEF LogNext

(* On the LLVM backend a rewind of a thread's log frees nothing that was   *)
(* allocated before its mark, nothing persist and nothing of another       *)
(* thread, and every live address is known to one log.                     *)
THEOREM LogIsSound ==
    ASSUME LmAssumption, ~MoveAnywhere PROVE LogSpec => []LogSound
<1>1. LogInv => LogSound
  BY DEF LogInv, LogTypes, HeapInv, LogSound, HeldIsAllocated, Things, Known
<1>2. QED
  BY <1>1, LogInvInit, LogInvNext, PTL DEF LogSpec

-----------------------------------------------------------------------------
(* The counters.                                                           *)

\* The sizes in a table, the addresses of one kind in it, and their bytes.
SizesOf(f) == [a \in DOMAIN f |-> f[a].n]
Of(f, per) == {a \in DOMAIN f : f[a].per = per}
Total(f, per) == SumFunctionOnSet(SizesOf(f), Of(f, per))

\* The counters count the tables.
Counted == /\ live \in [LogThreads -> Int] /\ liveP \in [LogThreads -> Int]
           /\ peak \in [LogThreads -> Int]
           /\ \A t \in LogThreads : /\ live[t] = Total(tab[t], FALSE) /\ liveP[t] = Total(tab[t], TRUE)
                                    /\ live[t] <= peak[t]

(* The bytes of one kind in a table are an integer.                        *)
LEMMA TotalType ==
    ASSUME NEW f, IsTable(f), IsFiniteSet(DOMAIN f), NEW per \in BOOLEAN
    PROVE  /\ Total(f, per) \in Int /\ IsFiniteSet(Of(f, per))
           /\ \A a \in DOMAIN f : SizesOf(f)[a] = f[a].n /\ f[a].n \in Int
<1>1. IsFiniteSet(Of(f, per))
  BY FS_Subset DEF Of
<1>2. \A a \in DOMAIN f : SizesOf(f)[a] = f[a].n /\ f[a].n \in Int
  BY DEF SizesOf, IsTable, Entries
<1>3. \A a \in Of(f, per) : SizesOf(f)[a] \in Int
  BY <1>2 DEF Of
<1>4. QED
  BY <1>1, <1>2, <1>3, SumRemove DEF Total

(* A new address adds its size to its kind.                                *)
LEMMA TotalPut ==
    ASSUME NEW f, IsTable(f), IsFiniteSet(DOMAIN f), NEW a, a \notin DOMAIN f,
           NEW n \in Nat, NEW per \in BOOLEAN
    PROVE  /\ IsTable(Put(f, a, n, per)) /\ IsFiniteSet(DOMAIN Put(f, a, n, per))
           /\ Total(Put(f, a, n, per), per) = Total(f, per) + n
           /\ Total(Put(f, a, n, per), ~per) = Total(f, ~per)
<1> DEFINE g == Put(f, a, n, per)
<1>1. /\ DOMAIN g = DOMAIN f \cup {a} /\ IsTable(g)
      /\ g[a].n = n /\ g[a].per = per /\ \A x \in DOMAIN f : g[x] = f[x]
  BY DEF Put, IsTable, Entries
<1>2. IsFiniteSet(DOMAIN g)
  BY <1>1, FS_AddElement
<1>3. Of(g, per) = Of(f, per) \cup {a} /\ Of(g, ~per) = Of(f, ~per) /\ a \notin Of(f, per)
  BY <1>1 DEF Of
<1>4. /\ \A x \in DOMAIN f : SizesOf(g)[x] = SizesOf(f)[x] /\ SizesOf(f)[x] \in Int
      /\ SizesOf(g)[a] = n
  BY <1>1 DEF SizesOf, IsTable, Entries
<1> HIDE DEF g
<1>5. \A q \in BOOLEAN : SumFunctionOnSet(SizesOf(g), Of(f, q)) = Total(f, q)
  <2> TAKE q \in BOOLEAN
  <2>1. IsFiniteSet(Of(f, q)) /\ \A x \in Of(f, q) : SizesOf(g)[x] = SizesOf(f)[x]
    BY <1>4, TotalType DEF Of
  <2>2. QED
    BY <2>1, SumSame DEF Total
<1>6. Total(g, per) = n + Total(f, per)
  <2>1. IsFiniteSet(Of(f, per)) /\ \A x \in Of(f, per) \cup {a} : SizesOf(g)[x] \in Int
    BY <1>4, TotalType DEF Of
  <2>2. QED
    BY <1>3, <1>4, <1>5, <2>1, SumAdd DEF Total
<1>7. Total(g, ~per) = Total(f, ~per)
  BY <1>3, <1>5 DEF Total
<1>8. Total(f, per) \in Int
  BY TotalType
<1>9. QED
  BY <1>1, <1>2, <1>6, <1>7, <1>8 DEF g

(* Addresses of one kind that go take their sizes with them.               *)
LEMMA TotalDel ==
    ASSUME NEW f, IsTable(f), IsFiniteSet(DOMAIN f), NEW per \in BOOLEAN,
           NEW gone \in SUBSET Of(f, per)
    PROVE  /\ IsTable(Del(f, gone)) /\ IsFiniteSet(DOMAIN Del(f, gone))
           /\ SumFunctionOnSet(SizesOf(f), gone) \in Int
           /\ Total(Del(f, gone), per) = Total(f, per) - SumFunctionOnSet(SizesOf(f), gone)
           /\ Total(Del(f, gone), ~per) = Total(f, ~per)
<1> DEFINE g == Del(f, gone)
<1>1. DOMAIN g = DOMAIN f \ gone /\ IsTable(g) /\ \A x \in DOMAIN g : g[x] = f[x]
  BY DEF Del, IsTable
<1>2. IsFiniteSet(DOMAIN g)
  BY <1>1, FS_Subset
<1>3. /\ Of(g, per) = Of(f, per) \ gone /\ Of(g, ~per) = Of(f, ~per)
  BY <1>1 DEF Of
<1>4. \A x \in DOMAIN g : SizesOf(g)[x] = SizesOf(f)[x]
  BY <1>1 DEF SizesOf
<1> HIDE DEF g
<1>5. \A q \in BOOLEAN : SumFunctionOnSet(SizesOf(f), Of(g, q)) = Total(g, q)
  <2> TAKE q \in BOOLEAN
  <2>1. IsFiniteSet(Of(g, q)) /\ \A x \in Of(g, q) : SizesOf(g)[x] = SizesOf(f)[x]
    BY <1>1, <1>2, <1>4, TotalType DEF Of
  <2>2. QED
    BY <2>1, SumSame DEF Total
<1>6. IsFiniteSet(Of(f, per)) /\ \A x \in Of(f, per) : SizesOf(f)[x] \in Int
  <2>1. IsFiniteSet(Of(f, per)) /\ \A x \in DOMAIN f : SizesOf(f)[x] \in Int
    BY TotalType
  <2>2. QED
    BY <2>1 DEF Of
<1>7. Total(f, per) = SumFunctionOnSet(SizesOf(f), gone) + SumFunctionOnSet(SizesOf(f), Of(f, per) \ gone)
  <2>1. ASSUME NEW h, NEW S, IsFiniteSet(S), \A x \in S : h[x] \in Int, NEW D \in SUBSET S
        PROVE  SumFunctionOnSet(h, S) = SumFunctionOnSet(h, D) + SumFunctionOnSet(h, S \ D)
    BY <2>1, SumSplit
  <2>2. SumFunctionOnSet(SizesOf(f), Of(f, per))
            = SumFunctionOnSet(SizesOf(f), gone) + SumFunctionOnSet(SizesOf(f), Of(f, per) \ gone)
    BY <1>6, <2>1
  <2>3. QED
    BY <2>2 DEF Total
<1>8. Total(g, per) = SumFunctionOnSet(SizesOf(f), Of(f, per) \ gone)
  BY <1>3, <1>5
<1>9. SumFunctionOnSet(SizesOf(f), gone) \in Int
  <2>1. IsFiniteSet(gone) /\ \A x \in gone : SizesOf(f)[x] \in Int
    BY <1>6, FS_Subset
  <2>2. QED
    BY <2>1, SumRemove
<1>10. Total(g, per) \in Int
  BY <1>1, <1>2, TotalType
<1>11. Total(g, ~per) = Total(f, ~per)
  <2>1. SumFunctionOnSet(SizesOf(f), Of(g, ~per)) = Total(g, ~per)
    BY <1>5
  <2>2. QED
    BY <1>3, <2>1 DEF Total
<1>12. QED
  <2>1. Total(g, per) = Total(f, per) - SumFunctionOnSet(SizesOf(f), gone)
    <3> DEFINE x == Total(f, per)
               y == Total(g, per)
               z == SumFunctionOnSet(SizesOf(f), gone)
    <3>1. x = z + y /\ z \in Int /\ y \in Int
      BY <1>7, <1>8, <1>9, <1>10
    <3> HIDE DEF x, y, z
    <3>2. y = x - z
      BY <3>1
    <3>3. QED
      BY <3>2 DEF x, y, z
  <2>2. QED
    BY <1>1, <1>2, <1>9, <1>11, <2>1, Zenon DEF g

(* The case of one address.                                                *)
LEMMA TotalDelOne ==
    ASSUME NEW f, IsTable(f), IsFiniteSet(DOMAIN f), NEW a \in DOMAIN f
    PROVE  /\ IsTable(Del(f, {a})) /\ IsFiniteSet(DOMAIN Del(f, {a}))
           /\ Total(Del(f, {a}), f[a].per) = Total(f, f[a].per) - f[a].n
           /\ Total(Del(f, {a}), ~f[a].per) = Total(f, ~f[a].per)
<1>1. f[a].per \in BOOLEAN /\ {a} \in SUBSET Of(f, f[a].per) /\ f[a].n \in Int
  BY DEF IsTable, Entries, Of
<1>2. SumFunctionOnSet(SizesOf(f), {a}) = f[a].n
  <2>1. SizesOf(f)[a] = f[a].n
    BY DEF SizesOf
  <2>2. {a} = {} \cup {a} /\ IsFiniteSet({})
    BY FS_EmptySet
  <2>3. SumFunctionOnSet(SizesOf(f), {} \cup {a}) = SizesOf(f)[a] + SumFunctionOnSet(SizesOf(f), {})
    BY <1>1, <2>1, <2>2, SumAdd
  <2>4. QED
    BY <1>1, <2>1, <2>2, <2>3, SumEmpty
<1>3. QED
  BY <1>1, <1>2, TotalDel

\* What becomes of the counters of log u; the other logs keep theirs.
CountersAre(u, l, p) ==
    /\ live' \in [LogThreads -> Int] /\ liveP' \in [LogThreads -> Int]
    /\ peak' \in [LogThreads -> Int]
    /\ live'[u] = l /\ liveP'[u] = p /\ l <= peak'[u]
    /\ \A x \in LogThreads \ {u} : live'[x] = live[x] /\ liveP'[x] = liveP[x] /\ peak'[x] = peak[x]

(* A table and the counters of its log change together.                    *)
LEMMA CountedAfter ==
    ASSUME LogTypes, Counted, NEW u \in LogThreads, NEW g, tab' = [tab EXCEPT ![u] = g],
           CountersAre(u, Total(g, FALSE), Total(g, TRUE))
    PROVE  Counted'
<1>1. tab'[u] = g /\ \A x \in LogThreads \ {u} : tab'[x] = tab[x]
  BY DEF LogTypes
<1>2. ASSUME NEW x \in LogThreads
      PROVE  live'[x] = Total(tab'[x], FALSE) /\ liveP'[x] = Total(tab'[x], TRUE) /\ live'[x] <= peak'[x]
  BY <1>1 DEF Counted, CountersAre
<1>3. QED
  BY <1>2 DEF Counted, CountersAre

(* What an allocation or a reallocation does to the counters.              *)
LEMMA CountAdds ==
    ASSUME Counted, NEW u \in LogThreads, NEW d \in Int, NEW per \in BOOLEAN, Count(u, d, per)
    PROVE  CountersAre(u, IF per THEN live[u] ELSE live[u] + d, IF per THEN liveP[u] + d ELSE liveP[u])
<1>0. live[u] <= peak[u]
  BY DEF Counted
<1>1. CASE per
  <2>1. liveP' = [liveP EXCEPT ![u] = liveP[u] + d] /\ UNCHANGED <<live, peak>>
    BY <1>1 DEF Count
  <2>2. /\ live \in [LogThreads -> Int] /\ liveP \in [LogThreads -> Int]
        /\ peak \in [LogThreads -> Int]
    BY DEF Counted
  <2>3. QED
    BY <1>0, <1>1, <2>1, <2>2 DEF CountersAre
<1>2. CASE ~per
  <2>1. /\ live' = [live EXCEPT ![u] = live[u] + d]
        /\ peak' = [peak EXCEPT ![u] = Max({peak[u], live[u] + d})]
        /\ liveP' = liveP
    BY <1>2 DEF Count
  <2>2. /\ live \in [LogThreads -> Int] /\ liveP \in [LogThreads -> Int]
        /\ peak \in [LogThreads -> Int]
    BY DEF Counted
  <2>3. ASSUME NEW a \in Int, NEW b \in Int
        PROVE  Max({a, b}) \in Int /\ b <= Max({a, b})
    <3>1. \E x \in {a, b} : \A y \in {a, b} : x >= y
      OBVIOUS
    <3>2. QED
      BY <3>1 DEF Max
  <2>4. Max({peak[u], live[u] + d}) \in Int /\ live[u] + d <= Max({peak[u], live[u] + d})
    BY <2>2, <2>3
  <2>5. QED
    BY <1>2, <2>1, <2>2, <2>4 DEF CountersAre
<1>3. QED
  BY <1>1, <1>2

(* What a free does to the counters.                                       *)
LEMMA UncountTakes ==
    ASSUME Counted, NEW u \in LogThreads, NEW d \in Nat, NEW per \in BOOLEAN, Uncount(u, d, per)
    PROVE  CountersAre(u, IF per THEN live[u] ELSE live[u] - d, IF per THEN liveP[u] - d ELSE liveP[u])
<1>0. /\ live \in [LogThreads -> Int] /\ liveP \in [LogThreads -> Int]
      /\ peak \in [LogThreads -> Int] /\ live[u] <= peak[u]
  BY DEF Counted
<1>1. CASE per
  <2>1. liveP' = [liveP EXCEPT ![u] = liveP[u] - d] /\ UNCHANGED <<live, peak>>
    BY <1>1 DEF Uncount
  <2>2. QED
    BY <1>0, <1>1, <2>1 DEF CountersAre
<1>2. CASE ~per
  <2>1. live' = [live EXCEPT ![u] = live[u] - d] /\ UNCHANGED <<liveP, peak>>
    BY <1>2 DEF Uncount
  <2>2. QED
    BY <1>0, <1>2, <2>1 DEF CountersAre
<1>3. QED
  BY <1>1, <1>2

(* The tables are finite.                                                  *)
LEMMA TablesFinite ==
    ASSUME LmAssumption, LogTypes, NEW t \in LogThreads
    PROVE  IsTable(tab[t]) /\ IsFiniteSet(DOMAIN tab[t])
  BY FS_Subset DEF LmAssumption, LogTypes, LogTypeOK

(* What leaves the tables and the counters alone.                          *)
LEMMA CountedSame ==
    ASSUME Counted, UNCHANGED <<tab, live, peak, liveP>> PROVE Counted'
  BY DEF Counted

(* Initially the logs and their counters are empty.                        *)
LEMMA CountedInit == LmAssumption /\ LogInit => Counted
<1> SUFFICES ASSUME LmAssumption, LogInit PROVE Counted
  OBVIOUS
<1>1. ASSUME NEW t \in LogThreads, NEW per \in BOOLEAN PROVE Total(tab[t], per) = 0
  <2>1. Of(tab[t], per) = {}
    BY DEF LogInit, Of
  <2>2. QED
    BY <2>1, SumEmpty DEF Total
<1>2. \A t \in LogThreads : Total(tab[t], FALSE) = 0 /\ Total(tab[t], TRUE) = 0
  BY <1>1
<1>3. QED
  <2>1. /\ live \in [LogThreads -> Int] /\ liveP \in [LogThreads -> Int]
        /\ peak \in [LogThreads -> Int]
        /\ \A t \in LogThreads : live[t] = 0 /\ liveP[t] = 0 /\ peak[t] = 0
    BY DEF LogInit
  <2>2. ASSUME NEW t \in LogThreads
        PROVE  live[t] = Total(tab[t], FALSE) /\ liveP[t] = Total(tab[t], TRUE) /\ live[t] <= peak[t]
    <3>1. live[t] = 0 /\ liveP[t] = 0 /\ live[t] <= peak[t]
      BY <2>1
    <3>2. Total(tab[t], FALSE) = 0 /\ Total(tab[t], TRUE) = 0
      BY <1>2, Zenon
    <3>3. QED
      BY <3>1, <3>2
  <2>3. QED
    BY <2>1, <2>2 DEF Counted

(* A block that comes, in an address new to the table.                     *)
LEMMA TableGains ==
    ASSUME NEW f, IsTable(f), IsFiniteSet(DOMAIN f), NEW a, a \notin DOMAIN f,
           NEW n \in Nat, NEW per \in BOOLEAN
    PROVE  /\ Total(Put(f, a, n, per), FALSE) = IF per THEN Total(f, FALSE) ELSE Total(f, FALSE) + n
           /\ Total(Put(f, a, n, per), TRUE) = IF per THEN Total(f, TRUE) + n ELSE Total(f, TRUE)
<1>1. CASE per = TRUE
  <2>1. Total(Put(f, a, n, TRUE), TRUE) = Total(f, TRUE) + n
    <3>1. ASSUME NEW q \in BOOLEAN PROVE Total(Put(f, a, n, q), q) = Total(f, q) + n
      BY TotalPut
    <3>2. QED
      BY <3>1
  <2>2. Total(Put(f, a, n, TRUE), ~TRUE) = Total(f, ~TRUE)
    BY TotalPut
  <2>3. QED
    BY <1>1, <2>1, <2>2
<1>2. CASE per = FALSE
  <2>1. Total(Put(f, a, n, FALSE), FALSE) = Total(f, FALSE) + n
    BY TotalPut
  <2>2. Total(Put(f, a, n, FALSE), ~FALSE) = Total(f, ~FALSE)
    BY TotalPut
  <2>3. QED
    BY <1>2, <2>1, <2>2
<1>3. QED
  BY <1>1, <1>2

(* A block that goes.                                                      *)
LEMMA TableLoses ==
    ASSUME NEW f, IsTable(f), IsFiniteSet(DOMAIN f), NEW a \in DOMAIN f
    PROVE  /\ Total(Del(f, {a}), FALSE)
                  = IF f[a].per THEN Total(f, FALSE) ELSE Total(f, FALSE) - f[a].n
           /\ Total(Del(f, {a}), TRUE)
                  = IF f[a].per THEN Total(f, TRUE) - f[a].n ELSE Total(f, TRUE)
<1>1. CASE f[a].per = TRUE
  <2>1. Total(Del(f, {a}), TRUE) = Total(f, TRUE) - f[a].n
    BY <1>1, TotalDelOne
  <2>2. Total(Del(f, {a}), ~TRUE) = Total(f, ~TRUE)
    BY <1>1, TotalDelOne
  <2>3. QED
    BY <1>1, <2>1, <2>2
<1>2. CASE f[a].per = FALSE
  <2>1. Total(Del(f, {a}), FALSE) = Total(f, FALSE) - f[a].n
    BY <1>2, TotalDelOne
  <2>2. Total(Del(f, {a}), ~FALSE) = Total(f, ~FALSE)
    BY <1>2, TotalDelOne
  <2>3. QED
    BY <1>2, <2>1, <2>2
<1>3. QED
  BY <1>1, <1>2 DEF IsTable, Entries

(* baga_lm_malloc counts the new block.                                    *)
LEMMA MallocCounts ==
    ASSUME LmAssumption, LogInv, Counted, NEW t \in LogThreads, LmMalloc(t) PROVE Counted'
<1>1. PICK a \in Addrs \ heap, n \in LogSizes :
         /\ tab' = [tab EXCEPT ![t] = Put(tab[t], a, n, ldepth[t] > 0)]
         /\ Count(t, n, ldepth[t] > 0)
  BY DEF LmMalloc
<1> DEFINE per == ldepth[t] > 0
           g == Put(tab[t], a, n, per)
<1>2. n \in Nat /\ n \in Int /\ per \in BOOLEAN /\ a \notin DOMAIN tab[t] /\ LogTypes
  BY <1>1 DEF LmAssumption, LogInv, LogTypes, LogTypeOK, HeapInv
<1>3. /\ Total(g, FALSE) = IF per THEN Total(tab[t], FALSE) ELSE Total(tab[t], FALSE) + n
      /\ Total(g, TRUE) = IF per THEN Total(tab[t], TRUE) + n ELSE Total(tab[t], TRUE)
  <2>1. IsTable(tab[t]) /\ IsFiniteSet(DOMAIN tab[t])
    BY <1>2, TablesFinite
  <2> HIDE DEF per
  <2>2. QED
    BY <1>2, <2>1, TableGains
<1>4. CountersAre(t, IF per THEN live[t] ELSE live[t] + n, IF per THEN liveP[t] + n ELSE liveP[t])
  BY <1>1, <1>2, CountAdds
<1>5. live[t] = Total(tab[t], FALSE) /\ liveP[t] = Total(tab[t], TRUE)
  BY DEF Counted
<1> HIDE DEF g, per
<1>6. CountersAre(t, Total(g, FALSE), Total(g, TRUE))
  BY <1>3, <1>4, <1>5
<1>7. QED
  BY <1>1, <1>2, <1>6, CountedAfter DEF g, per

(* baga_lm_realloc counts the difference, in the log of the block.         *)
LEMMA ReallocCounts ==
    ASSUME LmAssumption, LogInv, Counted, NEW t \in LogThreads, LmRealloc(t) PROVE Counted'
<1>0. PICK o \in held, n \in LogSizes :
         \E u \in LogOf(t, o.a), b \in Moves(o.a) :
            /\ Count(u, Growth(n, tab[u][o.a]), tab[u][o.a].per)
            /\ tab' = [tab EXCEPT ![u] = Put(Del(tab[u], {o.a}), b, n, tab[u][o.a].per)]
  BY DEF LmRealloc
<1>1. PICK u \in LogOf(t, o.a), b \in Moves(o.a) :
         /\ Count(u, Growth(n, tab[u][o.a]), tab[u][o.a].per)
         /\ tab' = [tab EXCEPT ![u] = Put(Del(tab[u], {o.a}), b, n, tab[u][o.a].per)]
  BY <1>0
<1> DEFINE e == tab[u][o.a]
           less == Del(tab[u], {o.a})
           g == Put(less, b, n, e.per)
<1>2. u = o.by /\ u \in LogThreads /\ LogTypes /\ n \in Nat
  BY SearchFinds DEF LogInv, LmAssumption
<1>3. IsTable(tab[u]) /\ IsFiniteSet(DOMAIN tab[u])
  BY <1>2, TablesFinite
<1>4. o.a \in DOMAIN tab[u] /\ e.per \in BOOLEAN /\ e.n \in Nat
  <2>1. o.a \in DOMAIN tab[u]
    BY <1>2 DEF LogInv, HeapInv, Known
  <2>2. QED
    BY <1>3, <2>1 DEF IsTable, Entries
<1>5. b \notin DOMAIN less
  BY <1>2 DEF Del, Moves, LogInv, HeapInv
<1>6. /\ IsTable(less) /\ IsFiniteSet(DOMAIN less)
      /\ Total(less, FALSE) = IF e.per THEN live[u] ELSE live[u] - e.n
      /\ Total(less, TRUE) = IF e.per THEN liveP[u] - e.n ELSE liveP[u]
  <2>1. live[u] = Total(tab[u], FALSE) /\ liveP[u] = Total(tab[u], TRUE)
    BY <1>2 DEF Counted
  <2>2. IsTable(less) /\ IsFiniteSet(DOMAIN less)
    BY <1>3, <1>4, TotalDelOne
  <2>3. QED
    BY <1>3, <1>4, <2>1, <2>2, TableLoses
<1> HIDE DEF less
<1>7. /\ Total(g, FALSE) = IF e.per THEN Total(less, FALSE) ELSE Total(less, FALSE) + n
      /\ Total(g, TRUE) = IF e.per THEN Total(less, TRUE) + n ELSE Total(less, TRUE)
  <2>1. IsTable(less) /\ IsFiniteSet(DOMAIN less) /\ b \notin DOMAIN less
    BY <1>5, <1>6
  <2> HIDE DEF e
  <2>2. QED
    BY <1>2, <1>4, <2>1, TableGains
<1>8. CountersAre(u, IF e.per THEN live[u] ELSE live[u] + (n - e.n),
                     IF e.per THEN liveP[u] + (n - e.n) ELSE liveP[u])
  BY <1>1, <1>2, <1>4, CountAdds DEF Growth
<1>9. live[u] \in Int /\ liveP[u] \in Int
  BY <1>2 DEF Counted
<1> HIDE DEF g, e
<1>10. CountersAre(u, Total(g, FALSE), Total(g, TRUE))
  <2>1. CASE e.per
    <3>1. Total(g, FALSE) = live[u] /\ Total(g, TRUE) = liveP[u] - e.n + n
      BY <1>6, <1>7, <2>1
    <3>2. liveP[u] + (n - e.n) = liveP[u] - e.n + n
      BY <1>2, <1>4, <1>9
    <3>3. QED
      BY <1>8, <2>1, <3>1, <3>2
  <2>2. CASE ~e.per
    <3>1. Total(g, FALSE) = live[u] - e.n + n /\ Total(g, TRUE) = liveP[u]
      BY <1>6, <1>7, <2>2
    <3>2. live[u] + (n - e.n) = live[u] - e.n + n
      BY <1>2, <1>4, <1>9
    <3>3. QED
      BY <1>8, <2>2, <3>1, <3>2
  <2>3. QED
    BY <2>1, <2>2
<1>11. QED
  BY <1>1, <1>2, <1>10, CountedAfter DEF g, e, less

(* baga_lm_free counts the block off, in the log of the block.             *)
LEMMA FreeCounts ==
    ASSUME LmAssumption, LogInv, Counted, NEW t \in LogThreads, LmFree(t) PROVE Counted'
<1>0. PICK o \in held : \E u \in LogOf(t, o.a) :
         /\ Uncount(u, tab[u][o.a].n, tab[u][o.a].per)
         /\ tab' = [tab EXCEPT ![u] = Del(tab[u], {o.a})]
  BY DEF LmFree
<1>1. PICK u \in LogOf(t, o.a) :
         /\ Uncount(u, tab[u][o.a].n, tab[u][o.a].per)
         /\ tab' = [tab EXCEPT ![u] = Del(tab[u], {o.a})]
  BY <1>0
<1> DEFINE e == tab[u][o.a]
           g == Del(tab[u], {o.a})
<1>2. u = o.by /\ u \in LogThreads /\ LogTypes
  BY SearchFinds DEF LogInv
<1>3. IsTable(tab[u]) /\ IsFiniteSet(DOMAIN tab[u])
  BY <1>2, TablesFinite
<1>4. o.a \in DOMAIN tab[u] /\ e.per \in BOOLEAN /\ e.n \in Nat
  <2>1. o.a \in DOMAIN tab[u]
    BY <1>2 DEF LogInv, HeapInv, Known
  <2>2. QED
    BY <1>3, <2>1 DEF IsTable, Entries
<1>5. /\ Total(g, FALSE) = IF e.per THEN live[u] ELSE live[u] - e.n
      /\ Total(g, TRUE) = IF e.per THEN liveP[u] - e.n ELSE liveP[u]
  <2>1. live[u] = Total(tab[u], FALSE) /\ liveP[u] = Total(tab[u], TRUE)
    BY <1>2 DEF Counted
  <2>2. QED
    BY <1>3, <1>4, <2>1, TableLoses
<1>6. CountersAre(u, IF e.per THEN live[u] ELSE live[u] - e.n, IF e.per THEN liveP[u] - e.n ELSE liveP[u])
  BY <1>1, <1>2, <1>4, UncountTakes
<1> HIDE DEF g, e
<1>7. CountersAre(u, Total(g, FALSE), Total(g, TRUE))
  BY <1>5, <1>6
<1>8. QED
  BY <1>1, <1>2, <1>7, CountedAfter DEF g

(* mem_rewind counts off what it frees: nothing of it is persist.          *)
LEMMA RewindCounts ==
    ASSUME LmAssumption, LogInv, Counted, NEW t \in LogThreads, LmRewind(t) PROVE Counted'
<1>1. PICK m \in lmarks[t] :
    LET dead == {a \in {v[t][i] : i \in m.at + 1 .. Len(v[t])} : Known(t, a) /\ ~tab[t][a].per}
    IN /\ \/ UNCHANGED <<tab, live>>
          \/ /\ live' = [live EXCEPT ![t] = live[t] - Bytes(t, dead)]
             /\ tab' = [tab EXCEPT ![t] = Del(tab[t], dead)]
       /\ UNCHANGED <<peak, liveP>>
  BY DEF LmRewind
<1> DEFINE dead == {a \in {v[t][i] : i \in m.at + 1 .. Len(v[t])} : Known(t, a) /\ ~tab[t][a].per}
           g == Del(tab[t], dead)
           b == SumFunctionOnSet(SizesOf(tab[t]), dead)
<1>2. IsTable(tab[t]) /\ IsFiniteSet(DOMAIN tab[t]) /\ LogTypes
  BY TablesFinite DEF LogInv
<1>3. dead \in SUBSET Of(tab[t], FALSE)
  BY <1>2 DEF Known, Of, IsTable, Entries
<1>4. CASE UNCHANGED <<tab, live>>
  BY <1>1, <1>4 DEF Counted
<1>5. CASE /\ live' = [live EXCEPT ![t] = live[t] - Bytes(t, dead)]
           /\ tab' = [tab EXCEPT ![t] = g]
  <2>1. Bytes(t, dead) = b
    BY DEF Bytes, SizesOf
  <2> HIDE DEF dead, g
  <2>2. b \in Nat
    <3>1. IsFiniteSet(dead) /\ \A a \in dead : SizesOf(tab[t])[a] \in Nat
      BY <1>2, <1>3, FS_Subset DEF Of, SizesOf, IsTable, Entries
    <3>2. QED
      BY <3>1, SumNatural
  <2>3. Total(g, FALSE) = Total(tab[t], FALSE) - b /\ Total(g, TRUE) = Total(tab[t], TRUE)
    <3>1. Total(Del(tab[t], dead), FALSE) = Total(tab[t], FALSE) - b
      BY <1>2, <1>3, TotalDel
    <3>2. Total(Del(tab[t], dead), ~FALSE) = Total(tab[t], ~FALSE)
      BY <1>2, <1>3, TotalDel
    <3>3. QED
      BY <3>1, <3>2 DEF g
  <2>4. /\ live \in [LogThreads -> Int] /\ liveP \in [LogThreads -> Int]
        /\ peak \in [LogThreads -> Int] /\ live[t] <= peak[t]
        /\ live[t] = Total(tab[t], FALSE) /\ liveP[t] = Total(tab[t], TRUE)
    BY DEF Counted
  <2> HIDE DEF b
  <2>5. CountersAre(t, live[t] - b, liveP[t])
    <3>1. live' = [live EXCEPT ![t] = live[t] - b] /\ liveP' = liveP /\ peak' = peak
      BY <1>1, <1>5, <2>1
    <3>2. /\ live \in [LogThreads -> Int] /\ liveP \in [LogThreads -> Int]
          /\ peak \in [LogThreads -> Int] /\ live[t] - b \in Int /\ live[t] - b <= peak[t]
      <4>1. live[t] \in Int /\ peak[t] \in Int /\ live[t] <= peak[t]
        BY <2>4
      <4>2. live[t] - b \in Int /\ live[t] - b <= peak[t]
        BY <2>2, <4>1
      <4>3. QED
        BY <2>4, <4>2
    <3>3. live' \in [LogThreads -> Int] /\ live'[t] = live[t] - b
      BY <3>1, <3>2
    <3>4. \A x \in LogThreads \ {t} : live'[x] = live[x]
      BY <3>1, <3>2
    <3>5. QED
      BY <3>1, <3>2, <3>3, <3>4, Zenon DEF CountersAre
  <2>6. CountersAre(t, Total(g, FALSE), Total(g, TRUE))
    BY <2>3, <2>4, <2>5
  <2>7. QED
    BY <1>2, <1>5, <2>6, CountedAfter
<1>6. QED
  BY <1>1, <1>4, <1>5

(* mem_arena_bytes and mem_persist_bytes of every thread are the bytes of  *)
(* the live entries of its log, whoever frees or reallocates them, and no  *)
(* free moves the high-water mark below them.                              *)
THEOREM LogCounts ==
    ASSUME LmAssumption, ~MoveAnywhere PROVE LogSpec => []Accounting
<1> DEFINE Inv == LogInv /\ Counted
<1>1. LogInit => Inv
  BY LogInvInit, CountedInit
<1>2. Inv /\ [LogNext]_logVars => Inv'
  <2> SUFFICES ASSUME LogInv, Counted, [LogNext]_logVars PROVE Inv'
    OBVIOUS
  <2>1. LogInv'
    BY LogInvNext
  <2>2. ASSUME NEW t \in LogThreads, LmMalloc(t) PROVE Counted'
    BY <2>2, MallocCounts
  <2>3. ASSUME NEW t \in LogThreads, LmRealloc(t) PROVE Counted'
    BY <2>3, ReallocCounts
  <2>4. ASSUME NEW t \in LogThreads, LmFree(t) PROVE Counted'
    BY <2>4, FreeCounts
  <2>5. ASSUME NEW t \in LogThreads, LmRewind(t) PROVE Counted'
    BY <2>5, RewindCounts
  <2>6. ASSUME NEW t \in LogThreads, LmMark(t) \/ LmPersistBegin(t) \/ LmPersistEnd(t) PROVE Counted'
    BY <2>6 DEF LmMark, LmPersistBegin, LmPersistEnd, Counted
  <2>7. ASSUME UNCHANGED logVars PROVE Counted'
    <3>1. UNCHANGED <<tab, live, peak, liveP>>
      BY <2>7 DEF logVars
    <3>2. QED
      BY <3>1, CountedSame
  <2>8. QED
    BY <2>1, <2>2, <2>3, <2>4, <2>5, <2>6, <2>7 DEF LogNext
<1>3. Inv => Accounting
  <2> SUFFICES ASSUME LogInv, Counted, NEW t \in LogThreads
               PROVE  /\ live[t] = Bytes(t, {a \in DOMAIN tab[t] : ~tab[t][a].per})
                      /\ liveP[t] = Bytes(t, {a \in DOMAIN tab[t] : tab[t][a].per})
                      /\ live[t] <= peak[t]
    BY DEF Accounting
  <2>1. IsTable(tab[t])
    BY DEF LogInv, LogTypes
  <2>2. /\ {a \in DOMAIN tab[t] : ~tab[t][a].per} = Of(tab[t], FALSE)
        /\ {a \in DOMAIN tab[t] : tab[t][a].per} = Of(tab[t], TRUE)
    BY <2>1 DEF Of, IsTable, Entries
  <2>3. live[t] = Total(tab[t], FALSE) /\ liveP[t] = Total(tab[t], TRUE) /\ live[t] <= peak[t]
    BY DEF Counted
  <2>4. QED
    BY <2>2, <2>3 DEF Bytes, Total, SizesOf
<1>4. QED
  BY <1>1, <1>2, <1>3, PTL DEF LogSpec
=============================================================================

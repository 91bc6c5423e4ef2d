------------------------------ MODULE MCMemory -----------------------------
(***************************************************************************)
(* The memory that threads share, one kind at a time: a behaviour is one   *)
(* of the arena of the C backend, of the allocation log of the LLVM one or *)
(* of the links between worlds, and the others rest in an initial state.   *)
(***************************************************************************)
EXTENDS MCArena, LmLog, WorldLinks

VARIABLE part

\* One thread marks, rewinds and persists; the other one allocates once and
\* grows and drops what the first one allocated.  Either the log is long or
\* marks are nested.
MCLogProg(log, nested) == [t \in LogThreads |->
    CASE t = Worker -> [log |-> log, marks |-> nested, depth |-> 1]
      [] t = Server -> [log |-> 1, marks |-> 0, depth |-> 0]]
LongLog == MCLogProg(3, 1)

N == INSTANCE LmLog WITH LogProg <- MCLogProg(2, 2)

ASSUME LmAssumption /\ N!LmAssumption /\ LinksAssumption

\* Nothing tells two addresses apart.
Symmetry == Permutations(Addrs)

\* The worker makes n of the worlds, whichever they are.
Makes(n) == CHOOSE f \in [Worlds -> LinkThreads] : Cardinality({w \in Worlds : f[w] = Worker}) = n

MemoryInit == /\ part \in {"C", "LLVM", "LLVM nested", "links"}
              /\ Init /\ LogInit
              /\ LinksInit
              /\ owner \in IF part = "links" THEN {Makes(2), Makes(3)} ELSE {Makes(2)}

MemoryNext ==
    \/ part = "C" /\ Next /\ UNCHANGED <<part, logVars, linksVars>>
    \/ part = "LLVM" /\ LogNext /\ UNCHANGED <<part, vars, linksVars>>
    \/ part = "LLVM nested" /\ N!LogNext /\ UNCHANGED <<part, vars, linksVars>>
    \/ part = "links" /\ LinksNext /\ UNCHANGED <<part, vars, logVars>>

MemorySpec == MemoryInit /\ [][MemoryNext]_<<part, vars, logVars, linksVars>>
=============================================================================

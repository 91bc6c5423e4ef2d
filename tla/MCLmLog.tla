------------------------------ MODULE MCLmLog -------------------------------
(***************************************************************************)
(* Instances of LmLog for TLC.                                             *)
(***************************************************************************)
EXTENDS LmLog

CONSTANTS Worker, Other

\* One thread marks, rewinds and persists; the other one allocates once and
\* grows and drops what the first one allocated.
MCProg == [t \in LogThreads |->
    CASE t = Worker -> [log |-> 3, marks |-> 2, depth |-> 1]
      [] t = Other -> [log |-> 1, marks |-> 0, depth |-> 0]]

\* Nothing tells two addresses apart.
Symmetry == Permutations(Addrs)
=============================================================================

------------------------------ MODULE MCArena -------------------------------
(***************************************************************************)
(* Instances of Arena for TLC.  A block holds four cells and a header is   *)
(* one, so that two small allocations share a block and a large one needs  *)
(* a block of its own that is larger than the others.                      *)
(***************************************************************************)
EXTENDS Arena

CONSTANTS Worker, Server

Large == 4

\* The worker allocates in all sizes and holds two marks; the server only
\* asks for large blocks, and for persist memory that the worker may drop.
MCProg == [t \in Threads |->
    CASE t = Worker -> [sizes |-> Sizes, marks |-> 2, depth |-> 0]
      [] t = Server -> [sizes |-> {Large}, marks |-> 1, depth |-> 1]]

\* Two workers that drop each other's allocations.
SharedProg == [t \in Threads |-> [sizes |-> {1}, marks |-> 1, depth |-> 0]]
=============================================================================

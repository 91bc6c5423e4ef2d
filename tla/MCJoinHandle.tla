---------------------------- MODULE MCJoinHandle ----------------------------
(***************************************************************************)
(* Instances of JoinHandle: who makes which calls on each handle.          *)
(***************************************************************************)
EXTENDS JoinHandle

CONSTANTS a, b

\* One handle, detached once.
DetachPlan == [h \in Handles |-> {<<a, "detach">>}]
=============================================================================

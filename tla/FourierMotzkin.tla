--------------------------- MODULE FourierMotzkin ---------------------------
(***************************************************************************)
(* fm_sat as a process: comparisons are asserted, the system is made tight *)
(* over the integers, variables are eliminated one after another and the   *)
(* answer is read off the constants that remain.  The word is so short     *)
(* that coefficients overflow on the way.                                  *)
(***************************************************************************)
EXTENDS LinearCore

CONSTANTS Vars,         \* variables of the comparisons
          Coeffs,       \* their coefficients
          Consts,       \* and the constants
          MaxAtoms      \* how many comparisons are asserted

\* What the constants are assumed to be.
FmAssumption == /\ IntMax \in Nat /\ IsFiniteSet(Vars)
                /\ Coeffs \subseteq Int /\ Consts \subseteq Int

VARIABLES given,        \* the comparisons, as pairs <<form, strict>>
          sys,          \* the constraints that are left
          left,         \* the variables still to be eliminated
          answer        \* "", "sat" or "unsat"

fmVars == <<given, sys, left, answer>>

\* What may be compared with zero.
Forms == {[c |-> RatInt(k), t |-> [v \in {x \in Vars : f[x] # 0} |-> RatInt(f[v])], ov |-> FALSE] :
          k \in Consts, f \in [Vars -> Coeffs]}

FmInit == given = {} /\ sys = {} /\ left = {} /\ answer = ""

ClPush == /\ answer = "" /\ left = {} /\ Cardinality(given) < MaxAtoms
          /\ \E l \in Forms, strict \in BOOLEAN :
               /\ ~IsConst(l)
               /\ given' = given \union {MkCons(l, strict, RatZero)}
          /\ UNCHANGED <<sys, left, answer>>

\* An overflow in what is asked is answered at once.
Begin == /\ answer = "" /\ left = {} /\ sys = {} /\ given # {}
         /\ IF \E c \in given : Untrusted(c)
            THEN answer' = "sat" /\ UNCHANGED <<sys, left>>
            ELSE /\ sys' = {Tighten(c) : c \in given}
                 /\ left' = VarsOf(given)
                 /\ UNCHANGED answer
         /\ UNCHANGED given

Step == \E v \in left :
          /\ answer = "" /\ ~\E c \in sys : Contradictory(c)
          /\ sys' = Eliminate(sys, v)
          /\ left' = left \ {v}
          /\ answer' = IF \E c \in sys' : Contradictory(c) THEN "unsat"
                       ELSE IF left' = {} THEN "sat" ELSE ""
          /\ UNCHANGED given

FmNext == ClPush \/ Begin \/ Step

FmSpec == FmInit /\ [][FmNext]_fmVars

-----------------------------------------------------------------------------
(* Properties.                                                             *)

Point(val) == \A c \in given : Satisfies(c, val)

\* "No solution" is never the answer when there is one.  An overflow on the way loses terms
\* of a form without that being noticed, and what is left of it may look contradictory:
\* those answers are set apart by the flag that the form still carries.
FmSound ==
    (\E c \in sys : Contradictory(c) /\ ~Untrusted(c))
        => ~\E val \in [Vars -> MinOf(IntMax)..IntMax] : Point(val)
=============================================================================

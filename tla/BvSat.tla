------------------------------- MODULE BvSat --------------------------------
(***************************************************************************)
(* The SAT solver of the verifier: unit propagation over occurrence lists, *)
(* decisions on the lowest free variable, learning from conflicts with a   *)
(* jump back, a budget of conflicts and restarts with another polarity.    *)
(* A literal is a variable or its negative, as in the code.  A clause may  *)
(* hold the literal 0 of a word that is missing: it is never decided, and  *)
(* true once it has been propagated.                                       *)
(***************************************************************************)
EXTENDS Integers, SequencesExt

CONSTANT Budget        \* conflicts before a polarity is given up

VARIABLE sat           \* the solver

Var(l) == IF l > 0 THEN l ELSE -l

\* The clauses that hold a literal, by literal, and a solver of n variables; at says what it does next.
Occurrences(n, cls) ==
    [l \in -n..n |-> SelectSeq([i \in 1..Len(cls) |-> i], LAMBDA i : \E k \in DOMAIN cls[i] : cls[i][k] = l)]
Start(n, cls) ==
    [n |-> n, cls |-> cls, occ |-> Occurrences(n, cls), val |-> [v \in 0..n |-> 0], lev |-> [v \in 0..n |-> 0], why |-> [v \in 0..n |-> 0],
     trail |-> <<>>, lim |-> <<>>, qh |-> 0, confl |-> 0, conflicts |-> 0, mode |-> 0,
     at |-> "zero", answer |-> "none"]

LitVal(s, l) == IF l > 0 THEN s.val[l] ELSE -s.val[-l]

\* The literal becomes true at the present level because of a clause, or 0.
TrailPush(s, l, why) ==
    [s EXCEPT !.trail = Append(@, l), !.val[Var(l)] = IF l > 0 THEN 1 ELSE -1,
              !.lev[Var(l)] = Len(s.lim), !.why[Var(l)] = why]

\* The trail is cut back to its first k literals.
TrailPop(s, k) ==
    LET gone == {Var(s.trail[i]) : i \in (k + 1)..Len(s.trail)} IN
      [s EXCEPT !.trail = SubSeq(@, 1, k),
                !.val = [v \in 0..s.n |-> IF v \in gone THEN 0 ELSE @[v]],
                !.why = [v \in 0..s.n |-> IF v \in gone THEN 0 ELSE @[v]]]

\* A clause that is not yet true makes its only free literal true or is in conflict.
Visit(s, ci) ==
    LET c == s.cls[ci]  free == {i \in DOMAIN c : LitVal(s, c[i]) = 0} IN
      IF \E i \in DOMAIN c : LitVal(s, c[i]) > 0 THEN s
      ELSE IF free = {} THEN [s EXCEPT !.confl = ci]
      ELSE IF Cardinality(free) = 1 THEN TrailPush(s, c[CHOOSE i \in free : TRUE], ci) ELSE s
RECURSIVE VisitAll(_, _)
VisitAll(s, cis) == IF s.confl # 0 \/ cis = <<>> THEN s ELSE VisitAll(Visit(s, Head(cis)), Tail(cis))

\* Propagation from the queue head to the end of the trail or to a conflict.
RECURSIVE Drain(_)
Drain(s) == IF s.confl # 0 \/ s.qh >= Len(s.trail) THEN s
            ELSE Drain(VisitAll([s EXCEPT !.qh = @ + 1], s.occ[-s.trail[s.qh + 1]]))
Propagate(s) == Drain([s EXCEPT !.confl = 0])

-----------------------------------------------------------------------------
(* Learning.                                                               *)

AtLevel(s, v) == s.lev[v] >= Len(s.lim)

\* Mutant: the literals below the conflict are forgotten.
ResolveForgets(s, cl, p, i, seen, learn) == [p |-> s.trail[Len(s.trail)], learn |-> <<>>]

\* The trail is walked back from i.  seen are the variables of the clause being built
\* that wait to be resolved away, learn its literals of lower levels, p the literal
\* resolved last.
RECURSIVE Resolve(_, _, _, _, _, _)
Resolve(s, cl, p, i, seen, learn) ==
    LET new == SelectSeq(s.cls[cl], LAMBDA q : q # p /\ Var(q) \notin seen /\ s.lev[Var(q)] # 0)
        low == learn \o SelectSeq(new, LAMBDA q : ~AtLevel(s, Var(q)))
        all == seen \cup {Var(new[k]) : k \in DOMAIN new}
        open == {j \in 1..i : Var(s.trail[j]) \in all /\ AtLevel(s, Var(s.trail[j]))}
        j == Max(open)
        next == s.trail[j]
    IN  IF open = {} THEN [p |-> p, learn |-> low]
        ELSE IF s.why[Var(next)] = 0 THEN [p |-> next, learn |-> low]
        ELSE Resolve(s, s.why[Var(next)], next, j - 1, all \ {Var(next)}, low)

\* The level of the jump: the highest of the lower literals.
JumpTo(s, learn) == Max({0} \cup {s.lev[Var(learn[k])] : k \in DOMAIN learn})

AddClause(s, lits) ==
    [s EXCEPT !.cls = Append(@, lits),
              !.occ = [l \in DOMAIN @ |-> IF \E k \in DOMAIN lits : lits[k] = l THEN Append(@[l], Len(s.cls) + 1) ELSE @[l]]]

\* The clause is learned, the search jumps back and the new literal is propagated.
JumpBack(s, bj) ==
    TrailPop([s EXCEPT !.lim = SubSeq(@, 1, bj)], IF bj < Len(s.lim) THEN s.lim[bj + 1] ELSE Len(s.trail))
Assertion(s, l) == [TrailPush(s, l, Len(s.cls)) EXCEPT !.qh = Len(s.trail)]
Continue(s) ==
    CASE s.confl = 0 -> [s EXCEPT !.at = "decide"]
      [] s.lim = <<>> -> [s EXCEPT !.at = "done", !.answer = "unsat"]
      [] OTHER -> [s EXCEPT !.at = "settle"]
Learned(s, r) ==
    IF r.p = 0 THEN [s EXCEPT !.at = "done", !.answer = "unsat"]
    ELSE Continue(Propagate(Assertion(AddClause(JumpBack(s, JumpTo(s, r.learn)), <<-r.p>> \o r.learn), -r.p)))
Learn(s) == Learned(s, Resolve(s, s.confl, 0, Len(s.trail), {}, <<>>))

-----------------------------------------------------------------------------
(* The search, one round of a loop per step.                               *)

Answer(a) == sat' = [sat EXCEPT !.at = "done", !.answer = a]

\* Level 0: unit clauses until there are no more.
LevelZero ==
    /\ sat.at = "zero"
    /\ LET units == VisitAll(sat, [i \in 1..Len(sat.cls) |-> i])
           done == units.trail = sat.trail
           next == Propagate([units EXCEPT !.qh = IF done THEN @ ELSE 0])
       IN  IF units.confl # 0 \/ next.confl # 0 THEN Answer("unsat")
           ELSE sat' = [next EXCEPT !.at = IF done THEN "decide" ELSE "zero"]

Free == {v \in 1..sat.n : sat.val[v] = 0}
Polarity(s, v) == IF s.mode = 1 \/ (s.mode = 2 /\ Len(s.lim) % 2 = 0) THEN -v ELSE v

DecideVar ==
    /\ sat.at = "decide"
    /\ IF Free = {} THEN Answer("sat")
       ELSE LET v == Min(Free)
                deeper == [sat EXCEPT !.lim = Append(@, Len(sat.trail)), !.qh = Len(sat.trail), !.at = "settle"]
            IN  sat' = TrailPush(deeper, Polarity(deeper, v), 0)

Settle ==
    /\ sat.at = "settle"
    /\ LET next == Propagate(sat) IN sat' = [next EXCEPT !.at = IF next.confl = 0 THEN "decide" ELSE "conflict"]

Conflict ==
    /\ sat.at = "conflict"
    /\ IF sat.conflicts >= Budget THEN sat' = [sat EXCEPT !.at = "restart"]
       ELSE IF sat.lim = <<>> THEN Answer("unsat")
       ELSE sat' = Learn([sat EXCEPT !.conflicts = @ + 1])

\* The next of three polarities, with the clauses learned so far.
Restart ==
    /\ sat.at = "restart"
    /\ IF sat.mode = 2 THEN Answer("undecided")
       ELSE sat' = [Start(sat.n, sat.cls) EXCEPT !.mode = sat.mode + 1]

SatNext == LevelZero \/ DecideVar \/ Settle \/ Conflict \/ Restart
=============================================================================

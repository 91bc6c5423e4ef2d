----------------------------- MODULE LinearCore -----------------------------
(***************************************************************************)
(* The arithmetic that the verifier decides with: rationals of a machine   *)
(* word with a sticky overflow flag, linear forms over symbolic variables, *)
(* constraints `form < 0` and `form <= 0`, boolean expressions as          *)
(* disjunctions of constraint sets, and Fourier-Motzkin elimination.       *)
(*                                                                         *)
(* A form keeps only the variables whose coefficient is not zero.  Sets    *)
(* stand for the code's lists of constraints and of branches: nothing      *)
(* depends on their order but the order in which variables are eliminated, *)
(* which the model leaves open.                                            *)
(***************************************************************************)
EXTENDS Integers, Sequences, FiniteSetsExt, Functions

CONSTANT IntMax    \* the largest i64

\* The smallest number of a word whose largest one is max.
MinOf(max) == -max - 1
Fits(n) == n \in MinOf(IntMax)..IntMax
Mag(n) == IF n < 0 THEN -n ELSE n

\* Euclid's algorithm: gcd[n][m] is what it makes of a dividend m and a divisor n.
Gcd(a, b) ==
    LET gcd[n \in 0..b] == [m \in 0..b |-> IF n = 0 THEN m ELSE gcd[m % n][n]]
    IN  IF b = 0 THEN (IF a = 0 THEN 1 ELSE a) ELSE gcd[a % b][b]

\* C's division, which rounds towards zero, and its remainder.
TruncDiv(a, b) == (IF (a < 0) = (b < 0) THEN 1 ELSE -1) * (Mag(a) \div Mag(b))
TruncMod(a, b) == a - b * TruncDiv(a, b)

-----------------------------------------------------------------------------
(* Rationals.                                                              *)

RatBad == [num |-> 0, den |-> 1, ov |-> TRUE]
RatInt(n) == [num |-> n, den |-> 1, ov |-> FALSE]
RatZero == RatInt(0)

\* n / d with the common divisor g taken out.
Reduced(n, d, g) ==
    [num |-> (IF d < 0 THEN -n ELSE n) \div g, den |-> Mag(d) \div g, ov |-> FALSE]
RatMk(n, d) ==
    IF d = 0 \/ (d < 0 /\ MinOf(IntMax) \in {n, d}) THEN RatBad ELSE Reduced(n, d, Gcd(Mag(n), Mag(d)))

RatNeg(a) == IF a.ov \/ a.num = MinOf(IntMax) THEN RatBad ELSE [a EXCEPT !.num = -@]

\* Numerator and denominator of a result, if they fit.
RatChecked(n, d) == IF ~Fits(n) \/ d > IntMax THEN RatBad ELSE RatMk(n, d)

OverCommon(a, b, g) == RatChecked(a.num * (b.den \div g) + b.num * (a.den \div g), a.den * (b.den \div g))
RatAdd(a, b) == IF a.ov \/ b.ov THEN RatBad ELSE OverCommon(a, b, Gcd(a.den, b.den))
RatSub(a, b) == RatAdd(a, RatNeg(b))
RatMul(a, b) == IF a.ov \/ b.ov THEN RatBad ELSE RatChecked(a.num * b.num, a.den * b.den)

\* The sign of a - b; an overflowed value compares equal to everything.
RatCmp(a, b) ==
    LET l == a.num * b.den
        r == b.num * a.den
    IN  IF a.ov \/ b.ov \/ l = r THEN 0 ELSE IF l < r THEN -1 ELSE 1

-----------------------------------------------------------------------------
(* Linear forms.                                                           *)

LinConst(c) == [c |-> c, t |-> <<>>, ov |-> c.ov]
LinInt(n) == LinConst(RatInt(n))
LinVar(v) == [c |-> RatZero, t |-> [x \in {v} |-> RatInt(1)], ov |-> FALSE]
LinBad == [c |-> RatZero, t |-> <<>>, ov |-> TRUE]
IsConst(l) == DOMAIN l.t = {}
Coeff(l, v) == IF v \in DOMAIN l.t THEN l.t[v] ELSE RatZero

\* What lin_push_raw leaves of a coefficient x to which y is added: an overflowed y is
\* not added at all, and a sum that overflows removes the term.
Pushed(x, y, sum) ==
    [left |-> CASE y.ov -> x [] sum.ov -> RatZero [] OTHER -> sum, ov |-> sum.ov]
LinPushRaw(x, y) == Pushed(x, y, RatAdd(x, y))

\* The form with constant c and what is left of the coefficients.
Merged(c, terms) ==
    IF c.ov THEN LinBad
    ELSE [c |-> c,
          t |-> [v \in {x \in DOMAIN terms : terms[x].left.num # 0} |-> terms[v].left],
          ov |-> \E v \in DOMAIN terms : terms[v].ov]

Spoilt(l) == l.ov \/ l.c.ov

LinAdd(a, b) ==
    IF Spoilt(a) \/ Spoilt(b) THEN LinBad
    ELSE Merged(RatAdd(a.c, b.c),
                [v \in DOMAIN a.t \union DOMAIN b.t |-> LinPushRaw(Coeff(a, v), Coeff(b, v))])
LinSub(a, b) ==
    IF Spoilt(a) \/ Spoilt(b) THEN LinBad
    ELSE Merged(RatSub(a.c, b.c),
                [v \in DOMAIN a.t \union DOMAIN b.t |-> LinPushRaw(Coeff(a, v), RatNeg(Coeff(b, v)))])
LinScale(a, k) ==
    IF Spoilt(a) \/ k.ov THEN LinBad
    ELSE Merged(RatMul(a.c, k), [v \in DOMAIN a.t |-> LinPushRaw(RatZero, RatMul(a.t[v], k))])
LinNeg(a) == LinScale(a, RatInt(-1))

\* Adding to the constant alone, as the code does in place (`t.c = rat_add(...)`).
LinShift(a, n) == [a EXCEPT !.c = RatAdd(@, RatInt(n))]

IsZero(d) == ~d.ov /\ IsConst(d) /\ d.c.num = 0
LinEq(a, b) == IsZero(LinSub(a, b))

\* The value of a form whose coefficients are integers.
Eval(l, val) == l.c.num + SumFunction([v \in DOMAIN l.t |-> l.t[v].num * val[v]])

-----------------------------------------------------------------------------
(* Constraints and boolean expressions.                                    *)

MkCons(lhs, strict, rhs) == [lhs |-> lhs, strict |-> strict, rhs |-> rhs]
Le0(lhs) == MkCons(lhs, FALSE, RatZero)
Lt0(lhs) == MkCons(lhs, TRUE, RatZero)

\* lhs <= 0 and lhs >= 0
Eq0(lhs) == {Le0(lhs), Le0(LinNeg(lhs))}

\* NOT (form op 0) is (-form) with the other op.
NegCons(c) == MkCons(LinNeg(c.lhs), ~c.strict, c.rhs)

\* A comparison of two forms as a constraint; <<>> when the difference overflows.
Atom(d, strict, negated) ==
    IF d.ov THEN <<>> ELSE <<MkCons(IF negated THEN LinNeg(d) ELSE d, strict # negated, RatZero)>>
AtomToCons(l, cmp, r, negated) ==
    LET up == cmp \in {"<", "<="}
    IN  Atom(LinSub(IF up THEN l ELSE r, IF up THEN r ELSE l), cmp \in {"<", ">"}, negated)

\* A formula is a set of branches, a branch a set of constraints.
DnfTrue == {{}}
DnfFalse == {}
DnfAnd(f, g) == {a \union b : a \in f, b \in g}

Satisfies(c, val) == LET n == Eval(c.lhs, val) IN IF c.strict THEN n < c.rhs.num ELSE n <= c.rhs.num

-----------------------------------------------------------------------------
(* Fourier-Motzkin elimination.                                            *)

\* A constraint without variables that does not hold.
Contradictory(c) ==
    /\ IsConst(c.lhs)
    /\ LET s == RatCmp(c.lhs.c, c.rhs) IN IF c.strict THEN s >= 0 ELSE s > 0

Untrusted(c) == Spoilt(c.lhs) \/ c.rhs.ov \/ \E v \in DOMAIN c.lhs.t : c.lhs.t[v].ov

\* Mutant: constraints that are not strict are made smaller too.
TightenAll(c) ==
    IF \A v \in DOMAIN c.lhs.t : c.lhs.t[v].den = 1
    THEN [c EXCEPT !.strict = FALSE, !.rhs = RatSub(@, RatInt(1))] ELSE c

\* Over the integers, form < rhs is form <= rhs - 1.
Tighten(c) ==
    IF /\ c.strict
       /\ c.lhs.c.den = 1 /\ c.rhs.den = 1
       /\ \A v \in DOMAIN c.lhs.t : c.lhs.t[v].den = 1
    THEN [c EXCEPT !.strict = FALSE, !.rhs = RatSub(@, RatInt(1))]
    ELSE c

\* The bound that a constraint which mentions v puts on it: v op (rhs - rest) / coefficient.
SplitOn(c, v) ==
    LET a == c.lhs.t[v]
        rest == [c.lhs EXCEPT !.t = [x \in DOMAIN @ \ {v} |-> @[x]]]
    IN  [rest |-> LinScale(LinAdd(LinNeg(rest), LinConst(c.rhs)), RatMk(a.den, a.num)),
         lower |-> a.num < 0,
         strict |-> c.strict]

Combine(lo, up) == MkCons(LinSub(lo.rest, up.rest), lo.strict \/ up.strict, RatZero)

\* The system without v: what does not mention v, and every lower bound against every upper.
Pairs(bounds) ==
    {Combine(lo, up) : lo \in {b \in bounds : b.lower}, up \in {b \in bounds : ~b.lower}}
Eliminate(sys, v) ==
    LET with == {c \in sys : v \in DOMAIN c.lhs.t}
    IN  (sys \ with) \union Pairs({SplitOn(c, v) : c \in with})

VarsOf(sys) == UNION {DOMAIN c.lhs.t : c \in sys}

Contradicts(sys) == \E c \in sys : Contradictory(c)

\* FALSE: no solution.  TRUE: perhaps.
Solvable(sys) ==
    ~Contradicts(FoldSet(LAMBDA v, s : IF Contradicts(s) THEN s ELSE Eliminate(s, v),
                         sys, VarsOf(sys)))
FmSat(sys) == (\E c \in sys : Untrusted(c)) \/ Solvable({Tighten(c) : c \in sys})

\* Every constraint of cons follows from the path.
ImpliedBy(path, cons) == \A c \in cons : ~FmSat(path \union {NegCons(c)})

\* The signs that the path proves of a form.
ProvesSign(path, l, sign) ==
    ImpliedBy(path, {Le0(LinShift(IF sign \in {">", ">="} THEN LinNeg(l) ELSE l,
                                  IF sign \in {">", "<"} THEN 1 ELSE 0))})
SignsOf(path, l) == {sign \in {">", ">=", "<=", "<"} : ProvesSign(path, l, sign)}
=============================================================================

------------------------------ MODULE SymExpr -------------------------------
(***************************************************************************)
(* How the verifier reads an i64 expression: as a linear form, in which    *)
(* every operation that is not linear is a fresh variable.  The operands   *)
(* of such a variable are remembered, and inject_prod_axioms adds to the   *)
(* path what is true of the operation.                                     *)
(*                                                                         *)
(* Expressions are <<"int", k>>, <<"var", x>> and <<op, left, right>>;     *)
(* symbolic variables are <<"in", x>> for an input x and <<"op", i>> for   *)
(* the i-th remembered operation.                                          *)
(***************************************************************************)
EXTENDS LinearCore

-----------------------------------------------------------------------------
(* What the operators compute.                                             *)

Modulus(max) == 2 * (max + 1)
Signed(u) == IF u > IntMax THEN u - Modulus(IntMax) ELSE u

\* One bit position at a time, as in two's complement.
RECURSIVE BitsOf(_, _, _)
BitsOf(op, a, b) ==
    IF {a, b} \subseteq {0, -1}
    THEN CASE op = "&" -> -(a * b) [] op = "|" -> a + b + a * b [] a = b -> 0 [] OTHER -> -1
    ELSE LET x == a % 2
             y == b % 2
             z == CASE op = "&" -> x * y [] op = "|" -> x + y - x * y [] OTHER -> (x + y) % 2
         IN  2 * BitsOf(op, a \div 2, b \div 2) + z

AShr(a, k) == a \div 2^k
LShr(a, k) == Signed((a % Modulus(IntMax)) \div 2^k)

Defined(op, a, b) == /\ op \in {"/", "%"} => b # 0
                     /\ op \in {"<<", ">>", ">>>"} => b >= 0 /\ b < 16 /\ 2^b <= IntMax
Apply(op, a, b) ==
    CASE op = "+" -> a + b
      [] op = "-" -> a - b
      [] op = "*" -> a * b
      [] op = "/" -> TruncDiv(a, b)
      [] op = "%" -> TruncMod(a, b)
      [] op \in {"&", "|", "^"} -> BitsOf(op, a, b)
      [] op = "<<" -> a * 2^b
      [] op = ">>" -> AShr(a, b)
      [] op = ">>>" -> LShr(a, b)

-----------------------------------------------------------------------------
(* se_from_ast                                                             *)

\* The result of reading an expression: a form, or nothing that is linear (nl), and the
\* operations remembered so far.
Sym(lin, reads) == [nl |-> lin.ov, lin |-> lin, reads |-> reads]
Nonlin(reads) == [nl |-> TRUE, lin |-> LinInt(0), reads |-> reads]

IsInt(l, k) == IsConst(l) /\ l.c = RatInt(k)
Whole(l) == IsConst(l) /\ l.c.den = 1 /\ ~l.c.ov
IsMask(l) == Whole(l) /\ l.c.num > 0 /\ \E k \in 1..16 : l.c.num + 1 = 2^k

\* The power of one base that a product is: the degree and the base, degree 0 for none.
\* A factor is the first power of itself and perhaps a remembered power of something else;
\* the code tries the pairs from the lowest degree on.
NoPower == [deg |-> 0, base |-> LinInt(0)]
Powers(reads, f) ==
    {[deg |-> 1, base |-> f]} \union
    {[deg |-> r.deg, base |-> r.base] :
     r \in {x \in {reads[i] : i \in DOMAIN reads} : x.deg >= 2 /\ f = LinVar(x.var)}}
Lowest(S) == IF S = {} THEN NoPower ELSE CHOOSE m \in S : \A n \in S : m.deg <= n.deg
Monomial(reads, fa, fb) ==
    Lowest({[deg |-> p[1].deg + p[2].deg, base |-> p[1].base] :
            p \in {q \in Powers(reads, fa) \X Powers(reads, fb) : LinEq(q[1].base, q[2].base)}})

\* A fresh variable for op(fa, fb), which is the power m.
RememberAs(op, fa, fb, reads, m) ==
    LET v == <<"op", Len(reads) + 1>>
    IN  Sym(LinVar(v), Append(reads, [var |-> v, op |-> op, fa |-> fa, fb |-> fb,
                                      deg |-> m.deg, base |-> m.base]))
Remember(op, fa, fb, reads) == RememberAs(op, fa, fb, reads, NoPower)

\* A bit operation of which the result is known exactly, as <<result>>.
IsUnit(u) == IsInt(u, 0) \/ IsInt(u, -1)
WithUnit(op, u, other) ==
    CASE IsInt(u, 0) -> IF op = "&" THEN LinInt(0) ELSE other
      [] op = "|" -> LinInt(-1)
      [] op = "&" -> other
      [] OTHER -> LinShift(LinNeg(other), -1)
BitIdentity(op, l, r) ==
    CASE Whole(l) /\ Whole(r) -> <<LinInt(BitsOf(op, l.c.num, r.c.num))>>
      [] IsUnit(l) \/ IsUnit(r) -> <<WithUnit(op, IF IsUnit(r) THEN r ELSE l, IF IsUnit(r) THEN l ELSE r)>>
      [] LinEq(l, r) -> <<IF op = "^" THEN LinInt(0) ELSE l>>
      [] OTHER -> <<>>

SeMul(l, r, reads) ==
    CASE IsConst(l) /\ IsConst(r) -> Sym(LinConst(RatMul(l.c, r.c)), reads)
      [] IsConst(l) \/ IsConst(r) ->
           Sym(LinScale(IF IsConst(l) THEN r ELSE l, IF IsConst(l) THEN l.c ELSE r.c), reads)
      [] OTHER -> RememberAs("*", l, r, reads, Monomial(reads, l, r))

SeDivMod(op, l, r, reads) ==
    CASE IsConst(r) /\ r.c.num = 0 -> Nonlin(reads)
      [] IsConst(l) /\ IsConst(r) -> Sym(LinInt(Apply(op, l.c.num, r.c.num)), reads)
      [] OTHER -> Remember(op, l, r, reads)

BitsAs(op, l, r, reads, known) ==
    CASE known # <<>> -> Sym([known[1] EXCEPT !.ov = @ \/ known[1].c.ov], reads)
      [] op = "&" /\ IsMask(r) -> Remember("mask", l, r, reads)
      [] op = "&" /\ IsMask(l) -> Remember("mask", r, l, reads)
      [] op \in {"&", "|"} -> Remember(op, l, r, reads)
      [] OTHER -> Nonlin(reads)
SeBits(op, l, r, reads) == BitsAs(op, l, r, reads, BitIdentity(op, l, r))

SeShift(op, l, r, reads) ==
    LET k == r.c.num
    IN  CASE ~Whole(r) \/ ~Defined(op, 0, k) -> Nonlin(reads)
          [] op = "<<" -> Sym(LinScale(l, RatInt(2^k)), reads)
          [] Whole(l) -> Sym(LinInt(Apply(op, l.c.num, k)), reads)
          [] k = 0 -> Sym(l, reads)
          [] OTHER -> Remember(op, l, r, reads)

SeBinary(op, a, b) ==
    IF a.nl \/ b.nl THEN Nonlin(b.reads)
    ELSE CASE op = "+" -> Sym(LinAdd(a.lin, b.lin), b.reads)
           [] op = "-" -> Sym(LinSub(a.lin, b.lin), b.reads)
           [] op = "*" -> SeMul(a.lin, b.lin, b.reads)
           [] op \in {"/", "%"} -> SeDivMod(op, a.lin, b.lin, b.reads)
           [] op \in {"&", "|", "^"} -> SeBits(op, a.lin, b.lin, b.reads)
           [] OTHER -> SeShift(op, a.lin, b.lin, b.reads)

\* env binds program variables to [nl, lin].
RECURSIVE SeFromAst(_, _, _)
SeFromAst(e, env, reads) ==
    CASE e[1] = "int" -> Sym(LinInt(e[2]), reads)
      [] e[1] = "var" -> IF e[2] \notin DOMAIN env THEN Sym(LinVar(<<"in", e[2]>>), reads)
                         ELSE IF env[e[2]].nl THEN Nonlin(reads) ELSE Sym(env[e[2]].lin, reads)
      [] e[1] = "neg" -> LET a == SeFromAst(e[2], env, reads)
                         IN  IF a.nl THEN a ELSE Sym(LinNeg(a.lin), a.reads)
      [] OTHER -> LET a == SeFromAst(e[2], env, reads)
                  IN  SeBinary(e[1], a, SeFromAst(e[3], env, a.reads))

-----------------------------------------------------------------------------
(* inject_prod_axioms                                                      *)

GeInt(v, n) == Le0([c |-> RatInt(n), t |-> [x \in {v} |-> RatInt(-1)], ov |-> FALSE])
LeInt(v, n) == Le0([c |-> RatInt(-n), t |-> [x \in {v} |-> RatInt(1)], ov |-> FALSE])
GeLin(v, l) == Le0(LinSub(l, LinVar(v)))
LeLin(v, l) == Le0(LinSub(LinVar(v), l))
Within(v, lo, hi) == {GeInt(v, lo), LeInt(v, hi)}
When(p, S) == IF p THEN S ELSE {}

\* 0 <= n - d * q <= d - 1, of a constant d.
RemainderOf(dq, n, d) == {Le0(LinSub(dq, n)), Le0(LinShift(LinSub(n, dq), 1 - d))}
Remainder(q, n, d) == RemainderOf(LinScale(LinVar(q), RatInt(d)), n, d)

MaskFacts(e) == Within(e.var, 0, e.fb.c.num)

\* What follows is true of an operation e whose operands have the signs a and b.
AndOrFacts(a, b, e) ==
    When(">=" \in a /\ ">=" \in b,
         {GeInt(e.var, 0)} \union {IF e.op = "&" THEN LeLin(e.var, f) ELSE GeLin(e.var, f) : f \in {e.fa, e.fb}})

ShrFacts(a, e) ==
    When(a \intersect {">=", "<="} # {}, Remainder(e.var, e.fa, 2^e.fb.c.num))
      \union IF ">=" \in a THEN {GeInt(e.var, 0)} ELSE When("<=" \in a, {LeInt(e.var, 0), GeLin(e.var, e.fa)})

LShrFacts(a, e) ==
    LET k == e.fb.c.num
    IN  CASE ">=" \in a -> Remainder(e.var, e.fa, 2^k)
          [] "<" \in a -> {GeInt(e.var, Modulus(IntMax) \div 2^(k + 1))}
          [] OTHER -> {}

NonZero(signs) == signs \intersect {">", "<"} # {}

DivFacts(a, b, e) ==
    LET q == LinVar(e.var)
        d == e.fb.c.num
        same == NonZero(a) /\ LinEq(e.fa, e.fb)
    IN  CASE same \/ IsInt(e.fb, 1) \/ IsInt(e.fb, -1) -> Eq0(CASE same -> LinShift(q, -1) [] d = 1 -> LinSub(e.fa, q) [] OTHER -> LinAdd(q, e.fa))
          [] Whole(e.fb) /\ d > 1 ->
               When(">=" \in a, {GeInt(e.var, 0)} \union Remainder(e.var, e.fa, d))
                 \union When("<=" \in a, {LeInt(e.var, 0), Le0(LinSub(e.fa, LinScale(q, RatInt(d))))})
          [] Whole(e.fb) /\ d < -1 ->
               When(">=" \in a, {LeInt(e.var, 0)}) \union When("<=" \in a, {GeInt(e.var, 0)})
          [] IsInt(e.fa, 0) -> When(NonZero(b), Within(e.var, 0, 0))
          [] OTHER -> When(">=" \in a /\ ">" \in b, {GeInt(e.var, 0), LeLin(e.var, e.fa)})

\* Mutant: the remainder is never negative, as if % rounded down.
ModFactsFloor(a, b, e) ==
    When(Whole(e.fb), Within(e.var, 0, Mag(e.fb.c.num) - 1))

ModFacts(a, b, e) ==
    LET k == Mag(e.fb.c.num)
    IN  CASE NonZero(a) /\ LinEq(e.fa, e.fb) -> Within(e.var, 0, 0)
          [] Whole(e.fb) -> IF ">=" \in a THEN Within(e.var, 0, k - 1)
                            ELSE When("<=" \in a, Within(e.var, 1 - k, 0))
          [] OTHER -> When(">=" \in a /\ ">" \in b,
                           {GeInt(e.var, 0), Le0(LinShift(LinSub(LinVar(e.var), e.fb), 1))})

\* s = v * v: s >= 0, s >= v, s >= -v, (v - 1)^2 >= 0 and (v + 1)^2 >= 0.
SquareOf(v, fa, twice) ==
    {GeInt(v, 0)} \union {GeLin(v, f) : f \in {fa, LinNeg(fa)}}
      \union {Le0(LinShift(LinSub(f, LinVar(v)), -1)) : f \in {twice, LinNeg(twice)}}
SquareFacts(e) == SquareOf(e.var, e.fa, LinScale(e.fa, RatInt(2)))

\* The product of two forms that differ by one.
Consecutive(e, d) ==
    When(Whole(d) /\ ~d.ov /\ d.c.num \in {1, -1},
         {GeInt(e.var, 0), GeLin(e.var, IF d.c.num = -1 THEN e.fa ELSE e.fb)})
ConsecutiveFacts(e) == Consecutive(e, LinSub(e.fa, e.fb))

\* Sign and monotonicity of a product, from the signs of its factors.
SignFacts(a, b, e) ==
    LET both(x, y) == x \in a /\ y \in b
        either(x, y) == both(x, y) \/ both(y, x)
    IN  (CASE both(">", ">") \/ both("<", "<") -> {GeInt(e.var, 1)}
           [] both(">=", ">=") \/ both("<=", "<=") -> {GeInt(e.var, 0)}
           [] OTHER -> {})
        \union
        (CASE either(">", "<") -> {LeInt(e.var, -1)}
           [] either(">=", "<=") -> {LeInt(e.var, 0)}
           [] OTHER -> {})
        \union When(both(">=", ">"), {GeLin(e.var, e.fa)})
        \union When(both(">", ">="), {GeLin(e.var, e.fb)})

\* An even power is at least zero, and at least its root and the negated root.
PowerFacts(all, e) ==
    When(e.deg >= 2 /\ e.deg % 2 = 0,
         {GeInt(e.var, 0)} \union
         UNION {{GeLin(e.var, LinVar(s.var)), GeLin(e.var, LinNeg(LinVar(s.var)))} :
                s \in {r \in all : r.deg >= 2 /\ 2 * r.deg = e.deg /\ LinEq(r.base, e.base)}})

\* Facts that need no sign, and then those that do.
SureFacts(e) ==
    CASE e.op = "mask" -> MaskFacts(e)
      [] e.op = ">>>" -> Within(e.var, 0, Modulus(IntMax) \div 2^e.fb.c.num - 1)
      [] e.op = "*" -> IF LinEq(e.fa, e.fb) THEN SquareFacts(e) ELSE ConsecutiveFacts(e)
      [] OTHER -> {}

SignedFacts(a, b, all, e) ==
    CASE e.op \in {"&", "|"} -> AndOrFacts(a, b, e)
      [] e.op = ">>" -> ShrFacts(a, e)
      [] e.op = ">>>" -> LShrFacts(a, e)
      [] e.op = "/" -> DivFacts(a, b, e)
      [] e.op = "%" -> ModFacts(a, b, e)
      [] e.op = "*" /\ ~LinEq(e.fa, e.fb) -> SignFacts(a, b, e) \union PowerFacts(all, e)
      [] OTHER -> {}

MoreFacts(path, all, e) == path \union SignedFacts(SignsOf(path, e.fa), SignsOf(path, e.fb), all, e)
EntryFacts(path, all, e) == MoreFacts(path \union SureFacts(e), all, e)

\* n = d * q + r for a quotient and a remainder of the same operands.
Multiples(q, products) ==
    IF Whole(q.fb) /\ q.fb.c.num # 0 THEN {LinScale(LinVar(q.var), q.fb.c)} ELSE {LinVar(p.var) : p \in products}
QuotientFacts(path, q, m, products) ==
    UNION {Eq0(LinSub(LinSub(q.fa, dq), LinVar(m.var))) : dq \in Multiples(q, products)}
      \union When(/\ ~(Whole(q.fb) /\ q.fb.c.num # 0) /\ products # {}
                  /\ \A u \in {<<q.fa, ">=">>, <<q.fb, ">">>} : ProvesSign(path, u[1], u[2]),
                  {LeLin(p.var, q.fa) : p \in products})
DivModFacts(path, all) ==
    UNION {QuotientFacts(path, u[1], u[2],
                         {p \in all : p.op = "*" /\ {p.fa, p.fb} = {LinVar(u[1].var), u[1].fb}}) :
           u \in {v \in all \X all : /\ v[1].op = "/" /\ v[2].op = "%"
                                     /\ v[1].fa = v[2].fa /\ v[1].fb = v[2].fb}}

\* (a - b)^2 >= 0 for recorded products a * a, b * b and a * b.
SquareOfDifference(all) ==
    {Le0(LinAdd(LinNeg(LinAdd(LinVar(t[1].var), LinVar(t[2].var))),
                LinScale(LinVar(t[3].var), RatInt(2)))) :
     t \in {u \in all \X all \X all :
              /\ \A i \in 1..3 : u[i].op = "*"
              /\ LinEq(u[1].fa, u[1].fb) /\ LinEq(u[2].fa, u[2].fb) /\ ~LinEq(u[1].fa, u[2].fa)
              /\ {u[3].fa, u[3].fb} = {u[1].fa, u[2].fa}}}

RECURSIVE InjectEntries(_, _, _, _)
InjectEntries(path, reads, all, i) ==
    IF i > Len(reads) THEN path ELSE InjectEntries(EntryFacts(path, all, reads[i]), reads, all, i + 1)

InjectPairs(path, all) == path \union DivModFacts(path, all) \union SquareOfDifference(all)
InjectProdAxioms(path, reads) ==
    LET all == {reads[j] : j \in DOMAIN reads} IN InjectPairs(InjectEntries(path, reads, all, 1), all)
=============================================================================

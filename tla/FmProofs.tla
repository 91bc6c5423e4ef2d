------------------------------ MODULE FmProofs ------------------------------
(***************************************************************************)
(* Fourier-Motzkin elimination never refutes a system that has a solution, *)
(* for every word size, every finite set of variables and all coefficients *)
(* and constants: a contradiction that carries no overflow flag is one.    *)
(*                                                                         *)
(* The argument: rationals that are not flagged are the sum, product or    *)
(* quotient that was meant; a form that is not flagged has the value that  *)
(* was meant at every integer point, which is kept as a fraction n / D of  *)
(* integers so that no division is needed; so the two bounds of a variable *)
(* and what elimination combines of them hold at every solution; and at a  *)
(* constant contradiction no point is a solution.                          *)
(***************************************************************************)
EXTENDS FourierMotzkin, FoldLemmas

-----------------------------------------------------------------------------
(* Integers.                                                               *)

(* Two sides multiplied by the same number.                                *)
LEMMA Cancel == ASSUME NEW a \in Int, NEW b \in Int, NEW k \in Int, k # 0, a * k = b * k PROVE a = b
  OBVIOUS

(* Multiplying by a positive number keeps the order.                       *)
LEMMA Grow ==
    ASSUME NEW a \in Int, NEW b \in Int, NEW k \in Nat \ {0}
    PROVE  (a <= b <=> a * k <= b * k) /\ (a < b <=> a * k < b * k)
  OBVIOUS

\* g is a common divisor of m and n.
Divides(g, m, n) == g \in Nat \ {0} /\ (\E p \in Nat : m = g * p) /\ \E q \in Nat : n = g * q

\* f[n][m] is what Euclid's algorithm makes of m and n.
EuclidRow(b, f, n) == [m \in 0..b |-> IF n = 0 THEN m ELSE f[m % n][n]]
Euclid(b, f) == f = [n \in 0..b |-> EuclidRow(b, f, n)]

(* Gcd is what the recursive function in it gives.                         *)
LEMMA GcdIs ==
    ASSUME NEW a, NEW b, b # 0
    PROVE  Gcd(a, b) = (CHOOSE f : Euclid(b, f))[a % b][b]
  BY DEF Gcd, Euclid, EuclidRow

(* By induction on the divisor.                                            *)
LEMMA EuclidExists ==
    ASSUME NEW b \in Nat
    PROVE  \E f : Euclid(b, f)
<1> DEFINE Partial(k, f) == f = [n \in 0..k |-> EuclidRow(b, f, n)]
           T == {k \in Nat : \E f : Partial(k, f)}
<1>1. 0 \in T
  <2> DEFINE f == [n \in 0..0 |-> [m \in 0..b |-> m]]
  <2>1. Partial(0, f)
    BY DEF EuclidRow
  <2>2. QED
    BY <2>1
<1>2. ASSUME NEW k \in Nat, k \in T PROVE k + 1 \in T
  <2>1. PICK f : Partial(k, f)
    BY <1>2
  <2> DEFINE new == [n \in 0..(k + 1) |-> EuclidRow(b, f, n)]
  <2>2. \A n \in 0..k : new[n] = f[n]
    <3>1. \A n \in 0..k : n \in 0..(k + 1)
      OBVIOUS
    <3>2. QED
      BY <2>1, <3>1
  <2>3. ASSUME NEW n \in 0..(k + 1) PROVE EuclidRow(b, f, n) = EuclidRow(b, new, n)
    <3>1. n = 0 \/ \A m \in 0..b : m % n \in 0..k
      OBVIOUS
    <3> HIDE DEF new
    <3>2. n = 0 \/ \A m \in 0..b : new[m % n] = f[m % n]
      BY <2>2, <3>1
    <3>3. QED
      BY <3>2 DEF EuclidRow
  <2>4. Partial(k + 1, new)
    <3>1. new = [n \in 0..(k + 1) |-> EuclidRow(b, new, n)]
      BY <2>3, Zenon
    <3>2. QED
      BY <3>1
  <2>5. QED
    <3> HIDE DEF new, Partial
    <3>1. QED
      BY <2>4
<1>3. b \in T
  <2> HIDE DEF T
  <2>1. QED
    BY <1>1, <1>2, NumberInduction
<1>4. QED
  BY <1>3 DEF Euclid

(* A divisor of n and of the remainder of m is one of m.                   *)
LEMMA EuclidStep ==
    ASSUME NEW m \in Nat, NEW n \in Nat \ {0}, NEW g, Divides(g, n, m % n)
    PROVE  Divides(g, m, n)
<1>1. PICK p \in Nat, q \in Nat : n = g * p /\ m % n = g * q /\ g \in Nat \ {0}
  BY DEF Divides
<1>2. m \div n \in Nat /\ m = n * (m \div n) + (m % n)
  OBVIOUS
<1>3. PICK d \in Nat : m = n * d + (m % n)
  BY <1>2
<1>4. m = g * (p * d + q) /\ p * d + q \in Nat
  <2>1. m = (g * p) * d + g * q
    BY <1>1, <1>3
  <2>2. g \in Nat
    BY <1>1
  <2>3. (g * p) * d + g * q = g * (p * d + q)
    BY <2>2
  <2>4. QED
    BY <2>1, <2>3
<1>5. QED
  BY <1>1, <1>4 DEF Divides

(* rat_gcd answers a common divisor.                                       *)
LEMMA GcdDivides ==
    ASSUME NEW a \in Nat, NEW b \in Nat
    PROVE  Divides(Gcd(a, b), a, b)
<1>1. CASE b = 0
  <2>1. Gcd(a, b) = IF a = 0 THEN 1 ELSE a
    BY <1>1 DEF Gcd
  <2>2. a = a * 1 /\ b = a * 0 /\ (a = 0 => a = 1 * 0 /\ b = 1 * 0)
    BY <1>1
  <2>3. QED
    BY <2>1, <2>2 DEF Divides
<1>2. CASE b # 0
  <2>1. PICK f : Euclid(b, f) /\ Gcd(a, b) = f[a % b][b]
    BY <1>2, GcdIs, EuclidExists
  <2>2. \A n, m \in 0..b : f[n][m] = IF n = 0 THEN m ELSE f[m % n][n]
    BY <2>1 DEF Euclid, EuclidRow
  <2> DEFINE T == {k \in Nat : \A n \in 0..k : \A m \in 0..b :
                                   n <= b /\ (m # 0 \/ n # 0) => Divides(f[n][m], m, n)}
  <2>3. 0 \in T
    <3>1. ASSUME NEW n \in 0..0, NEW m \in 0..b, n <= b, m # 0 \/ n # 0 PROVE Divides(f[n][m], m, n)
      <4>1. n = 0 /\ f[n][m] = m /\ m \in Nat \ {0}
        BY <2>2, <3>1
      <4>2. m = m * 1 /\ n = m * 0
        BY <4>1
      <4>3. QED
        BY <4>1, <4>2 DEF Divides
    <3>2. QED
      BY <3>1
  <2>4. ASSUME NEW k \in Nat, k \in T PROVE k + 1 \in T
    <3>1. ASSUME NEW n \in 0..(k + 1), NEW m \in 0..b, n <= b, m # 0 \/ n # 0
          PROVE  Divides(f[n][m], m, n)
      <4>1. CASE n \in 0..k
        BY <2>4, <3>1, <4>1
      <4>2. CASE n = k + 1
        <5>1. n \in Nat \ {0} /\ n \in 0..b /\ m % n \in 0..k /\ m % n <= b
          BY <3>1, <4>2
        <5>2. f[n][m] = f[m % n][n]
          BY <2>2, <5>1
        <5>3. Divides(f[m % n][n], n, m % n)
          BY <2>4, <5>1
        <5>4. QED
          BY <5>1, <5>2, <5>3, EuclidStep
      <4>3. QED
        BY <4>1, <4>2
    <3>2. QED
      BY <3>1
  <2>5. b \in T
    <3> HIDE DEF T
    <3>1. QED
      BY <2>3, <2>4, NumberInduction
  <2>6. a % b \in 0..b /\ b \in 0..b
    BY <1>2
  <2>7. Divides(f[a % b][b], b, a % b)
    BY <1>2, <2>5, <2>6
  <2>8. QED
    BY <1>2, <2>1, <2>7, EuclidStep
<1>3. QED
  BY <1>1, <1>2

-----------------------------------------------------------------------------
(* Rationals.                                                              *)

\* A rational that has overflowed is RatBad, whose numerator is 0.
Rational(r) == /\ r.num \in Int /\ r.den \in Nat \ {0}
               /\ r.ov => r.num = 0

\* The rational r is n / d.
Is(r, n, d) == r.num * d = n * r.den

(* The overflowed value.                                                   *)
LEMMA RatBadIs == Rational(RatBad) /\ RatBad.ov
  BY DEF Rational, RatBad

(* A whole number.                                                         *)
LEMMA RatIntIs ==
    ASSUME NEW n \in Int
    PROVE  Rational(RatInt(n)) /\ ~RatInt(n).ov /\ RatInt(n).num = n /\ RatInt(n).den = 1
  BY DEF Rational, RatInt

(* Taking a common divisor out does not change the value.                  *)
LEMMA RatMkIs ==
    ASSUME NEW n \in Int, NEW d \in Int, NEW r, r = RatMk(n, d)
    PROVE  Rational(r) /\ (~r.ov => d # 0 /\ Is(r, n, d))
<1>1. CASE r = RatBad
  BY <1>1, RatBadIs
<1>2. CASE r # RatBad
  <2>1. PICK a, b, g : a = Mag(n) /\ b = Mag(d) /\ g = Gcd(a, b)
    OBVIOUS
  <2>2. d # 0 /\ r = Reduced(n, d, g)
    BY <1>2, <2>1 DEF RatMk
  <2>3. a \in Nat /\ b \in Nat \ {0}
    BY <2>1, <2>2 DEF Mag
  <2>4. Divides(g, a, b)
    BY <2>1, <2>3, GcdDivides
  <2>5. PICK p \in Nat, q \in Nat : a = g * p /\ b = g * q /\ g \in Nat \ {0}
    BY <2>4 DEF Divides
  <2>6. q # 0
    BY <2>3, <2>5
  <2>7. b \div g = q
    BY <2>5
  <2>8. PICK m \in Int, s \in Int : /\ m = (IF d < 0 THEN -n ELSE n) /\ m = g * s
    <3>1. n = g * p \/ n = g * (0 - p)
      BY <2>1, <2>5 DEF Mag
    <3>2. -n = g * p \/ -n = g * (0 - p)
      BY <2>1, <2>5 DEF Mag
    <3>3. QED
      BY <3>1, <3>2
  <2>9. m \div g = s
    BY <2>5, <2>8
  <2>10. r = [num |-> s, den |-> q, ov |-> FALSE]
    BY <2>1, <2>2, <2>7, <2>8, <2>9 DEF Reduced
  <2>11. r.num = s /\ r.den = q /\ ~r.ov
    BY <2>10
  <2>12. s * d = n * q
    <3>1. CASE d < 0
      <4>1. d = 0 - g * q /\ n = 0 - g * s
        BY <2>1, <2>5, <2>8, <3>1 DEF Mag
      <4>2. QED
        BY <2>5, <4>1
    <3>2. CASE ~(d < 0)
      <4>1. d = g * q /\ n = g * s
        BY <2>1, <2>5, <2>8, <3>2 DEF Mag
      <4>2. QED
        BY <2>5, <4>1
    <3>3. QED
      BY <3>1, <3>2
  <2>13. QED
    BY <2>2, <2>6, <2>11, <2>12 DEF Rational, Is
<1>3. QED
  BY <1>1, <1>2

(* The same, with a check for overflow.                                    *)
LEMMA RatCheckedIs ==
    ASSUME NEW n \in Int, NEW d \in Int, NEW r, r = RatChecked(n, d)
    PROVE  Rational(r) /\ (~r.ov => d # 0 /\ Is(r, n, d))
<1>1. r = RatBad \/ r = RatMk(n, d)
  BY DEF RatChecked
<1>2. QED
  BY <1>1, RatBadIs, RatMkIs

(* A negation that is not flagged is the negation.                         *)
LEMMA RatNegIs ==
    ASSUME NEW a, Rational(a), NEW r, r = RatNeg(a)
    PROVE  Rational(r) /\ (~r.ov => ~a.ov /\ r.num = 0 - a.num /\ r.den = a.den)
<1>1. CASE a.ov \/ a.num = MinOf(IntMax)
  BY <1>1, RatBadIs DEF RatNeg
<1>2. CASE ~(a.ov \/ a.num = MinOf(IntMax))
  <2>1. r = [a EXCEPT !.num = -@]
    BY <1>2 DEF RatNeg
  <2>2. QED
    BY <1>2, <2>1 DEF Rational
<1>3. QED
  BY <1>1, <1>2

(* A sum that is not flagged is the sum.                                   *)
LEMMA RatAddIs ==
    ASSUME NEW a, Rational(a), NEW b, Rational(b), NEW r, r = RatAdd(a, b)
    PROVE  Rational(r) /\ (~r.ov => ~a.ov /\ ~b.ov /\ Is(r, a.num * b.den + b.num * a.den, a.den * b.den))
<1>1. CASE a.ov \/ b.ov
  BY <1>1, RatBadIs DEF RatAdd
<1>2. CASE ~(a.ov \/ b.ov)
  <2>1. PICK an \in Int, ad \in Nat \ {0}, bn \in Int, bd \in Nat \ {0} :
             an = a.num /\ ad = a.den /\ bn = b.num /\ bd = b.den
    BY DEF Rational
  <2>2. PICK g : g = Gcd(ad, bd)
    OBVIOUS
  <2>3. PICK p \in Nat, q \in Nat : ad = g * p /\ bd = g * q /\ g \in Nat \ {0}
    <3>1. Divides(g, ad, bd)
      BY <2>2, GcdDivides
    <3>2. QED
      BY <3>1 DEF Divides
  <2>4. ad \div g = p /\ bd \div g = q
    BY <2>3
  <2>5. r = RatChecked(an * q + bn * p, ad * q)
    BY <1>2, <2>1, <2>2, <2>4 DEF RatAdd, OverCommon
  <2>6. an * q + bn * p \in Int /\ ad * q \in Int
    BY <2>1, <2>3
  <2>7. Rational(r) /\ (~r.ov => Is(r, an * q + bn * p, ad * q))
    BY <2>5, <2>6, RatCheckedIs
  <2>8. ASSUME ~r.ov PROVE Is(r, an * bd + bn * ad, ad * bd)
    <3>1. PICK rn \in Int, rd \in Int : rn = r.num /\ rd = r.den
      BY <2>7 DEF Rational
    <3>2. rn * (ad * q) = (an * q + bn * p) * rd
      BY <2>7, <2>8, <3>1 DEF Is
    <3>3. (rn * (ad * q)) * g = ((an * q + bn * p) * rd) * g
      BY <3>2
    <3>4. (rn * (ad * q)) * g = rn * (ad * (g * q))
      BY <2>3
    <3>5. ((an * q + bn * p) * rd) * g = (an * (g * q) + bn * (g * p)) * rd
      BY <2>3
    <3>6. rn * (ad * bd) = (an * bd + bn * ad) * rd
      BY <2>3, <3>3, <3>4, <3>5
    <3>7. QED
      BY <3>1, <3>6 DEF Is
  <2>9. QED
    BY <1>2, <2>1, <2>7, <2>8
<1>3. QED
  BY <1>1, <1>2

(* A product that is not flagged is the product.                           *)
LEMMA RatMulIs ==
    ASSUME NEW a, Rational(a), NEW b, Rational(b), NEW r, r = RatMul(a, b)
    PROVE  Rational(r) /\ (~r.ov => ~a.ov /\ ~b.ov /\ Is(r, a.num * b.num, a.den * b.den))
<1>1. CASE a.ov \/ b.ov
  BY <1>1, RatBadIs DEF RatMul
<1>2. CASE ~(a.ov \/ b.ov)
  <2>1. a.num * b.num \in Int /\ a.den * b.den \in Int
    BY DEF Rational
  <2>2. r = RatChecked(a.num * b.num, a.den * b.den)
    BY <1>2 DEF RatMul
  <2>3. QED
    BY <1>2, <2>1, <2>2, RatCheckedIs
<1>3. QED
  BY <1>1, <1>2

-----------------------------------------------------------------------------
(* Linear forms.                                                           *)

Form(l) == /\ l = [c |-> l.c, t |-> l.t, ov |-> l.ov]
           /\ Rational(l.c) /\ DOMAIN l.t \subseteq Vars
           /\ \A v \in DOMAIN l.t : Rational(l.t[v])

\* Nothing in l carries the overflow flag.
Clean(l) == ~l.ov /\ ~l.c.ov /\ \A v \in DOMAIN l.t : ~l.t[v].ov

\* q is D times r.
Scaled(q, D, r) == q * r.den = D * r.num

\* D times l is the form with constant q0 and coefficients q, all integers.
Times(D, l, q0, q) == /\ q0 \in Int /\ q \in [Vars -> Int]
                      /\ Scaled(q0, D, l.c) /\ \A v \in Vars : Scaled(q[v], D, Coeff(l, v))

Dot(q, x) == SumFunctionOnSet([v \in Vars |-> q[v] * x[v]], Vars)

\* The value of l at x is n / D.
Value(l, x, D, n) == /\ D \in Nat \ {0} /\ n \in Int
                     /\ \E q0, q : Times(D, l, q0, q) /\ n = q0 + Dot(q, x)

(* D times one rational and E times another give D E times their sum.      *)
LEMMA ScaledAdd ==
    ASSUME NEW a, Rational(a), NEW b, Rational(b), NEW r, Rational(r),
           Is(r, a.num * b.den + b.num * a.den, a.den * b.den),
           NEW D \in Int, NEW E \in Int, NEW p \in Int, NEW q \in Int, Scaled(p, D, a), Scaled(q, E, b)
    PROVE  Scaled(p * E + q * D, D * E, r)
<1>1. PICK an \in Int, ad \in Nat \ {0}, bn \in Int, bd \in Nat \ {0}, rn \in Int, rd \in Nat \ {0} :
           /\ an = a.num /\ ad = a.den /\ bn = b.num /\ bd = b.den /\ rn = r.num /\ rd = r.den
  BY DEF Rational
<1>2. rn * (ad * bd) = (an * bd + bn * ad) * rd /\ p * ad = D * an /\ q * bd = E * bn
  BY <1>1 DEF Is, Scaled
<1>3. ((p * E + q * D) * rd) * (ad * bd) = ((p * ad) * (bd * E) + (q * bd) * (ad * D)) * rd
  OBVIOUS
<1>4. ((D * an) * (bd * E) + (E * bn) * (ad * D)) * rd = (D * E) * ((an * bd + bn * ad) * rd)
  OBVIOUS
<1>5. (D * E) * (rn * (ad * bd)) = ((D * E) * rn) * (ad * bd)
  OBVIOUS
<1>6. ad * bd \in Int /\ ad * bd # 0
  OBVIOUS
<1>7. (p * E + q * D) * rd = (D * E) * rn
  <2>1. ((p * E + q * D) * rd) * (ad * bd) = ((D * E) * rn) * (ad * bd)
    BY <1>2, <1>3, <1>4, <1>5
  <2>2. QED
    BY <1>6, <2>1, Cancel
<1>8. QED
  BY <1>1, <1>7 DEF Scaled

(* D times a rational gives D times the denominator of k times its product *)
(* with k.                                                                 *)
LEMMA ScaledMul ==
    ASSUME NEW a, Rational(a), NEW k, Rational(k), NEW r, Rational(r),
           Is(r, a.num * k.num, a.den * k.den), NEW D \in Int, NEW p \in Int, Scaled(p, D, a)
    PROVE  Scaled(p * k.num, D * k.den, r)
<1>1. PICK an \in Int, ad \in Nat \ {0}, kn \in Int, kd \in Nat \ {0}, rn \in Int, rd \in Nat \ {0} :
           /\ an = a.num /\ ad = a.den /\ kn = k.num /\ kd = k.den /\ rn = r.num /\ rd = r.den
  BY DEF Rational
<1>2. rn * (ad * kd) = (an * kn) * rd /\ p * ad = D * an
  BY <1>1 DEF Is, Scaled
<1>3. ((p * kn) * rd) * ad = (p * ad) * (kn * rd) /\ (D * an) * (kn * rd) = D * ((an * kn) * rd)
  OBVIOUS
<1>4. D * (rn * (ad * kd)) = ((D * kd) * rn) * ad
  OBVIOUS
<1>5. (p * kn) * rd = (D * kd) * rn
  <2>1. ((p * kn) * rd) * ad = ((D * kd) * rn) * ad
    BY <1>2, <1>3, <1>4
  <2>2. QED
    BY <2>1, Cancel
<1>6. QED
  BY <1>1, <1>5 DEF Scaled

(* What lin_push_raw leaves of a coefficient, unless it flags an overflow, *)
(* is the sum.                                                             *)
LEMMA PushedIs ==
    ASSUME NEW a, Rational(a), NEW b, Rational(b), NEW t, t = LinPushRaw(a, b)
    PROVE  Rational(t.left) /\ (~t.ov => ~a.ov /\ ~b.ov /\ t.left = RatAdd(a, b))
<1>1. PICK s : s = RatAdd(a, b)
  OBVIOUS
<1>2. Rational(s) /\ (~s.ov => ~a.ov /\ ~b.ov)
  BY <1>1, RatAddIs
<1>3. t.left = (CASE b.ov -> a [] s.ov -> RatZero [] OTHER -> s) /\ t.ov = s.ov
  BY <1>1 DEF LinPushRaw, Pushed
<1>4. Rational(RatZero)
  BY RatIntIs DEF RatZero
<1>5. CASE b.ov
  <2>1. s.ov
    BY <1>2, <1>5
  <2>2. t.left \in {a, RatZero, s}
    BY <1>3, <1>5, <2>1
  <2>3. t.ov
    BY <1>3, <2>1
  <2>4. QED
    BY <1>2, <1>4, <2>2, <2>3
<1>6. CASE ~b.ov /\ s.ov
  <2>1. t.left = RatZero
    BY <1>3, <1>6
  <2>2. t.ov
    BY <1>3, <1>6
  <2>3. QED
    BY <1>4, <2>1, <2>2
<1>7. CASE ~b.ov /\ ~s.ov
  <2>1. t.left = s
    BY <1>3, <1>7
  <2>2. QED
    BY <1>1, <1>2, <1>7, <2>1
<1>8. QED
  BY <1>5, <1>6, <1>7

(* The coefficients of a form, those that it does not keep included.       *)
LEMMA CoeffIs ==
    ASSUME NEW l, Form(l), NEW v \in Vars
    PROVE  Rational(Coeff(l, v)) /\ (Clean(l) => ~Coeff(l, v).ov)
<1>1. Rational(RatZero) /\ ~RatZero.ov
  BY RatIntIs DEF RatZero
<1>2. QED
  BY <1>1 DEF Coeff, Form, Clean

(* The overflowed form is one, and is flagged.                             *)
LEMMA LinBadIs == Form(LinBad) /\ ~Clean(LinBad)
<1>1. Rational(RatZero)
  BY RatIntIs DEF RatZero
<1>2. LinBad = [c |-> LinBad.c, t |-> LinBad.t, ov |-> LinBad.ov]
      /\ LinBad.c = RatZero /\ DOMAIN LinBad.t = {} /\ LinBad.ov
  BY DEF LinBad
<1>3. QED
  BY <1>1, <1>2 DEF Form, Clean

\* l has the constant c and the coefficients of terms, none of which overflowed.
Keeps(l, c, S, terms) ==
    /\ ~c.ov /\ l.c = c
    /\ \A v \in S : ~terms[v].ov
    /\ \A v \in S : \A D, q \in Int : Scaled(q, D, terms[v].left) => Scaled(q, D, Coeff(l, v))
    /\ \A v \in Vars \ S : Coeff(l, v) = RatZero

(* A form that is put together and is clean has the constant and the       *)
(* coefficients that were meant: a term is left out where it is zero.      *)
LEMMA MergedIs ==
    ASSUME NEW c, Rational(c), NEW S \in SUBSET Vars, NEW terms, DOMAIN terms = S,
           \A v \in S : Rational(terms[v].left), NEW l, l = Merged(c, terms)
    PROVE  Form(l) /\ (Clean(l) => Keeps(l, c, S, terms))
<1>1. CASE c.ov
  <2>1. l = LinBad
    BY <1>1 DEF Merged
  <2>2. QED
    BY <2>1, LinBadIs
<1>2. CASE ~c.ov
  <2>1. PICK K : K = {v \in S : terms[v].left.num # 0}
    OBVIOUS
  <2>2. l = [c |-> l.c, t |-> l.t, ov |-> l.ov]
        /\ l.c = c /\ l.t = [v \in K |-> terms[v].left] /\ l.ov = (\E v \in S : terms[v].ov)
    BY <1>2, <2>1 DEF Merged
  <2>3. DOMAIN l.t = K /\ \A v \in K : l.t[v] = terms[v].left
    BY <2>2
  <2>4. Form(l)
    BY <2>1, <2>2, <2>3 DEF Form
  <2>5. Clean(l) => \A v \in S : ~terms[v].ov
    BY <2>2 DEF Clean
  <2>6. ASSUME NEW v \in S, NEW D \in Int, NEW q \in Int, Scaled(q, D, terms[v].left)
        PROVE  Scaled(q, D, Coeff(l, v))
    <3>1. CASE v \in K
      BY <2>3, <2>6, <3>1 DEF Coeff
    <3>2. CASE v \notin K
      <4>1. Coeff(l, v) = RatZero /\ RatZero.num = 0 /\ RatZero.den = 1
        BY <2>3, <3>2 DEF Coeff, RatZero, RatInt
      <4>2. PICK d \in Nat \ {0} : d = terms[v].left.den
        BY DEF Rational
      <4>3. q * d = D * 0
        BY <2>1, <2>6, <3>2, <4>2 DEF Scaled
      <4>4. q = 0
        BY <4>3
      <4>5. QED
        BY <4>1, <4>4 DEF Scaled
    <3>3. QED
      BY <3>1, <3>2
  <2>7. \A v \in Vars \ S : Coeff(l, v) = RatZero
    BY <2>1, <2>3 DEF Coeff
  <2>8. QED
    BY <1>2, <2>2, <2>4, <2>5, <2>6, <2>7 DEF Keeps
<1>3. QED
  BY <1>1, <1>2

\* l is the sum of the forms with constants c1 and c2 and the coefficients f and g.
Adds(l, c1, c2, S, f, g) ==
    /\ ~c1.ov /\ ~c2.ov /\ \A v \in S : ~f[v].ov /\ ~g[v].ov
    /\ \A D, E, p, q \in Int :
          Scaled(p, D, c1) /\ Scaled(q, E, c2) => Scaled(p * E + q * D, D * E, l.c)
    /\ \A v \in S : \A D, E, p, q \in Int :
          Scaled(p, D, f[v]) /\ Scaled(q, E, g[v]) => Scaled(p * E + q * D, D * E, Coeff(l, v))
    /\ \A v \in Vars \ S : Coeff(l, v) = RatZero

(* Two lists of coefficients added one by one.                             *)
LEMMA SummedIs ==
    ASSUME NEW c1, Rational(c1), NEW c2, Rational(c2), NEW S \in SUBSET Vars,
           NEW f, \A v \in S : Rational(f[v]), NEW g, \A v \in S : Rational(g[v]),
           NEW l, l = Merged(RatAdd(c1, c2), [v \in S |-> LinPushRaw(f[v], g[v])])
    PROVE  Form(l) /\ (Clean(l) => Adds(l, c1, c2, S, f, g))
<1>1. PICK c, terms : c = RatAdd(c1, c2) /\ terms = [v \in S |-> LinPushRaw(f[v], g[v])]
  OBVIOUS
<1>2. l = Merged(c, terms) /\ DOMAIN terms = S /\ \A v \in S : terms[v] = LinPushRaw(f[v], g[v])
  BY <1>1
<1>3. \A v \in S : /\ Rational(terms[v].left)
                   /\ ~terms[v].ov => ~f[v].ov /\ ~g[v].ov /\ terms[v].left = RatAdd(f[v], g[v])
  BY <1>2, PushedIs
<1>4. Rational(c) /\ (~c.ov => ~c1.ov /\ ~c2.ov /\ Is(c, c1.num * c2.den + c2.num * c1.den, c1.den * c2.den))
  BY <1>1, RatAddIs
<1>5. Form(l) /\ (Clean(l) => Keeps(l, c, S, terms))
  <2>1. \A v \in S : Rational(terms[v].left)
    BY <1>3
  <2>2. QED
    BY <1>2, <1>4, <2>1, MergedIs
<1>6. SUFFICES ASSUME Clean(l) PROVE Adds(l, c1, c2, S, f, g)
  BY <1>5
<1>7. ASSUME NEW D \in Int, NEW E \in Int, NEW p \in Int, NEW q \in Int, Scaled(p, D, c1), Scaled(q, E, c2)
      PROVE  Scaled(p * E + q * D, D * E, l.c)
  BY <1>4, <1>5, <1>6, <1>7, ScaledAdd DEF Keeps
<1>8. ASSUME NEW v \in S, NEW D \in Int, NEW E \in Int, NEW p \in Int, NEW q \in Int,
             Scaled(p, D, f[v]), Scaled(q, E, g[v])
      PROVE  Scaled(p * E + q * D, D * E, Coeff(l, v))
  <2>1. PICK a, b, r : a = f[v] /\ b = g[v] /\ r = terms[v].left
    OBVIOUS
  <2>2. Rational(a) /\ Rational(b) /\ Rational(r) /\ r = RatAdd(a, b) /\ ~r.ov
    <3>1. terms[v].ov = RatAdd(f[v], g[v]).ov
      BY <1>2 DEF LinPushRaw, Pushed
    <3>2. ~terms[v].ov
      BY <1>5, <1>6 DEF Keeps
    <3>3. QED
      BY <1>3, <2>1, <3>1, <3>2
  <2>3. Is(r, a.num * b.den + b.num * a.den, a.den * b.den)
    BY <2>2, RatAddIs
  <2>4. Scaled(p * E + q * D, D * E, r)
    BY <1>8, <2>1, <2>2, <2>3, ScaledAdd
  <2>5. p * E + q * D \in Int /\ D * E \in Int
    OBVIOUS
  <2>6. QED
    BY <1>5, <1>6, <2>1, <2>4, <2>5 DEF Keeps
<1>9. QED
  BY <1>3, <1>4, <1>5, <1>6, <1>7, <1>8 DEF Keeps, Adds

\* The points at which a form has a value.
Points == [Vars -> Int]

(* The sum of coefficients times values is an integer.                     *)
LEMMA DotIs ==
    ASSUME FmAssumption, NEW x \in Points, NEW p \in Points
    PROVE  Dot(p, x) \in Int
<1> DEFINE f == [v \in Vars |-> p[v] * x[v]]
<1>1. \A v \in Vars : f[v] \in Int
  BY DEF Points
<1>2. IsFiniteSet(Vars)
  BY DEF FmAssumption
<1> HIDE DEF f
<1>3. SumFunctionOnSet(f, Vars) \in Int
  BY <1>1, <1>2, SumRemove
<1>4. QED
  BY <1>3 DEF f, Dot

\* The coefficients s are a times p and b times q.
Mixes(s, p, a, q, b) == /\ a \in Int /\ b \in Int
                        /\ s = [v \in Vars |-> p[v] * a + q[v] * b]

(* That sum is linear in the coefficients.                                 *)
LEMMA DotLinear ==
    ASSUME FmAssumption, NEW x \in Points, NEW p \in Points, NEW q \in Points,
           NEW a, NEW b, NEW s, Mixes(s, p, a, q, b)
    PROVE  s \in Points /\ Dot(s, x) = Dot(p, x) * a + Dot(q, x) * b
<1> DEFINE f == [v \in Vars |-> p[v] * x[v]]
           g == [v \in Vars |-> q[v] * x[v]]
           h == [v \in Vars |-> s[v] * x[v]]
<1>1. ASSUME NEW v \in Vars PROVE f[v] \in Int /\ g[v] \in Int /\ h[v] = f[v] * a + g[v] * b
  <2>1. p[v] \in Int /\ q[v] \in Int /\ x[v] \in Int /\ a \in Int /\ b \in Int
    BY DEF Points, Mixes
  <2>2. (p[v] * a + q[v] * b) * x[v] = (p[v] * x[v]) * a + (q[v] * x[v]) * b
    BY <2>1
  <2>3. QED
    BY <2>1, <2>2 DEF Mixes
<1>2. IsFiniteSet(Vars)
  BY DEF FmAssumption
<1> HIDE DEF f, g, h
<1>3. SumFunctionOnSet(h, Vars) = SumFunctionOnSet(f, Vars) * a + SumFunctionOnSet(g, Vars) * b
  <2>1. Combines(h, Vars, f, a, g, b)
    BY <1>1 DEF Combines, Mixes
  <2>2. QED
    BY <1>2, <2>1, SumLinear
<1>4. s \in Points
  BY DEF Mixes, Points
<1>5. QED
  BY <1>3, <1>4 DEF f, g, h, Dot

(* The value of a sum.                                                     *)
LEMMA AddedValue ==
    ASSUME FmAssumption, NEW S \in SUBSET Vars, NEW l, NEW c1, NEW c2, NEW f, NEW g,
           Adds(l, c1, c2, S, f, g), NEW x \in Points, NEW D \in Nat \ {0}, NEW E \in Nat \ {0},
           NEW p0 \in Int, NEW q0 \in Int, NEW p \in Points, NEW q \in Points,
           Scaled(p0, D, c1), Scaled(q0, E, c2),
           \A v \in S : Scaled(p[v], D, f[v]) /\ Scaled(q[v], E, g[v]),
           \A v \in Vars \ S : p[v] = 0 /\ q[v] = 0
    PROVE  Value(l, x, D * E, (p0 + Dot(p, x)) * E + (q0 + Dot(q, x)) * D)
<1>1. PICK s : s = [v \in Vars |-> p[v] * E + q[v] * D]
  OBVIOUS
<1>2. s \in Points /\ Dot(s, x) = Dot(p, x) * E + Dot(q, x) * D
  <2>1. Mixes(s, p, E, q, D)
    BY <1>1 DEF Mixes
  <2>2. QED
    BY <2>1, DotLinear
<1>3. Scaled(p0 * E + q0 * D, D * E, l.c)
  BY DEF Adds
<1>4. ASSUME NEW v \in Vars PROVE Scaled(s[v], D * E, Coeff(l, v))
  <2>1. CASE v \in S
    <3>1. p[v] \in Int /\ q[v] \in Int /\ s[v] = p[v] * E + q[v] * D
      BY <1>1 DEF Points
    <3>2. QED
      BY <2>1, <3>1 DEF Adds
  <2>2. CASE v \notin S
    <3>1. Coeff(l, v) = RatZero /\ RatZero.num = 0 /\ RatZero.den = 1
      BY <2>2 DEF Adds, RatZero, RatInt
    <3>2. s[v] = 0
      BY <1>1, <2>2
    <3>3. QED
      BY <3>1, <3>2 DEF Scaled
  <2>3. QED
    BY <2>1, <2>2
<1>5. p0 * E + q0 * D \in Int /\ D * E \in Nat \ {0}
  OBVIOUS
<1>6. Times(D * E, l, p0 * E + q0 * D, s)
  BY <1>2, <1>3, <1>4, <1>5 DEF Times, Points
<1>7. (p0 + Dot(p, x)) * E + (q0 + Dot(q, x)) * D = (p0 * E + q0 * D) + Dot(s, x)
      /\ (p0 + Dot(p, x)) * E + (q0 + Dot(q, x)) * D \in Int
  <2>1. PICK a \in Int, b \in Int : a = Dot(p, x) /\ b = Dot(q, x)
    BY DotIs
  <2>2. (p0 + a) * E + (q0 + b) * D = (p0 * E + q0 * D) + (a * E + b * D)
    OBVIOUS
  <2>3. QED
    BY <1>2, <2>1, <2>2
<1>8. QED
  BY <1>5, <1>6, <1>7 DEF Value

(* A coefficient that a form does not keep is zero.                        *)
LEMMA OutsideZero ==
    ASSUME NEW l, NEW x, NEW D, NEW q0, NEW q, D \in Nat, Times(D, l, q0, q),
           NEW v \in Vars, v \notin DOMAIN l.t
    PROVE  q[v] = 0
<1>1. Coeff(l, v) = RatZero /\ RatZero.num = 0 /\ RatZero.den = 1
  BY DEF Coeff, RatZero, RatInt
<1>2. q[v] * 1 = D * 0 /\ q[v] \in Int
  BY <1>1 DEF Times, Scaled
<1>3. QED
  BY <1>2

(* LinAdd adds.                                                            *)
LEMMA LinAddIs ==
    ASSUME FmAssumption, NEW a, Form(a), NEW b, Form(b), NEW l, l = LinAdd(a, b)
    PROVE  /\ Form(l)
           /\ Clean(l) => Clean(a) /\ Clean(b)
           /\ Clean(l) => \A x \in Points : \A D, E, n, m :
                 Value(a, x, D, n) /\ Value(b, x, E, m) => Value(l, x, D * E, n * E + m * D)
<1>1. CASE Spoilt(a) \/ Spoilt(b)
  <2>1. l = LinBad
    BY <1>1 DEF LinAdd
  <2>2. QED
    BY <2>1, LinBadIs
<1>2. CASE ~(Spoilt(a) \/ Spoilt(b))
  <2>1. PICK S \in SUBSET Vars : S = DOMAIN a.t \cup DOMAIN b.t
    BY DEF Form
  <2>2. PICK f, g : f = [v \in S |-> Coeff(a, v)] /\ g = [v \in S |-> Coeff(b, v)]
    OBVIOUS
  <2>3. \A v \in S : f[v] = Coeff(a, v) /\ g[v] = Coeff(b, v)
    BY <2>2
  <2>4. l = Merged(RatAdd(a.c, b.c), [v \in S |-> LinPushRaw(f[v], g[v])])
    <3>1. l = Merged(RatAdd(a.c, b.c), [v \in S |-> LinPushRaw(Coeff(a, v), Coeff(b, v))])
      BY <1>2, <2>1 DEF LinAdd
    <3>2. [v \in S |-> LinPushRaw(Coeff(a, v), Coeff(b, v))] = [v \in S |-> LinPushRaw(f[v], g[v])]
      BY <2>3
    <3>3. QED
      BY <3>1, <3>2
  <2>5. (\A v \in S : Rational(f[v])) /\ (\A v \in S : Rational(g[v])) /\ Rational(a.c) /\ Rational(b.c)
    BY <2>1, <2>3, CoeffIs DEF Form
  <2>6. Form(l) /\ (Clean(l) => Adds(l, a.c, b.c, S, f, g))
    BY <2>4, <2>5, SummedIs
  <2>7. ASSUME Clean(l) PROVE Clean(a) /\ Clean(b)
    <3>1. \A v \in S : ~f[v].ov /\ ~g[v].ov
      BY <2>6, <2>7 DEF Adds
    <3>2. \A v \in DOMAIN a.t : ~a.t[v].ov
      BY <2>1, <2>3, <3>1 DEF Coeff
    <3>3. \A v \in DOMAIN b.t : ~b.t[v].ov
      BY <2>1, <2>3, <3>1 DEF Coeff
    <3>4. QED
      BY <1>2, <3>2, <3>3 DEF Clean, Spoilt
  <2>8. ASSUME Clean(l), NEW x \in Points, NEW D, NEW E, NEW n, NEW m,
               Value(a, x, D, n), Value(b, x, E, m)
        PROVE  Value(l, x, D * E, n * E + m * D)
    <3>1. PICK p0, p : Times(D, a, p0, p) /\ n = p0 + Dot(p, x)
      BY <2>8 DEF Value
    <3>2. PICK q0, q : Times(E, b, q0, q) /\ m = q0 + Dot(q, x)
      BY <2>8 DEF Value
    <3>3. D \in Nat \ {0} /\ E \in Nat \ {0}
      BY <2>8 DEF Value
    <3>4. /\ p0 \in Int /\ p \in Points /\ q0 \in Int /\ q \in Points
          /\ Scaled(p0, D, a.c) /\ Scaled(q0, E, b.c)
          /\ \A v \in S : Scaled(p[v], D, f[v]) /\ Scaled(q[v], E, g[v])
      BY <2>3, <3>1, <3>2 DEF Times, Points
    <3>5. \A v \in Vars \ S : p[v] = 0 /\ q[v] = 0
      BY <2>1, <3>1, <3>2, <3>3, OutsideZero
    <3>6. QED
      BY <2>6, <2>8, <3>1, <3>2, <3>3, <3>4, <3>5, AddedValue
  <2>9. QED
    BY <2>6, <2>7, <2>8
<1>3. QED
  BY <1>1, <1>2

(* LinSub subtracts.                                                       *)
LEMMA LinSubIs ==
    ASSUME FmAssumption, NEW a, Form(a), NEW b, Form(b), NEW l, l = LinSub(a, b)
    PROVE  /\ Form(l)
           /\ Clean(l) => Clean(a) /\ Clean(b)
           /\ Clean(l) => \A x \in Points : \A D, E, n, m :
                 Value(a, x, D, n) /\ Value(b, x, E, m) => Value(l, x, D * E, n * E + (0 - m) * D)
<1>1. CASE Spoilt(a) \/ Spoilt(b)
  <2>1. l = LinBad
    BY <1>1 DEF LinSub
  <2>2. QED
    BY <2>1, LinBadIs
<1>2. CASE ~(Spoilt(a) \/ Spoilt(b))
  <2>1. PICK S \in SUBSET Vars : S = DOMAIN a.t \cup DOMAIN b.t
    BY DEF Form
  <2>2. PICK f, g : f = [v \in S |-> Coeff(a, v)] /\ g = [v \in S |-> RatNeg(Coeff(b, v))]
    OBVIOUS
  <2>3. \A v \in S : f[v] = Coeff(a, v) /\ g[v] = RatNeg(Coeff(b, v))
    BY <2>2
  <2>4. PICK c2 : c2 = RatNeg(b.c)
    OBVIOUS
  <2>5. l = Merged(RatAdd(a.c, c2), [v \in S |-> LinPushRaw(f[v], g[v])])
    <3>1. l = Merged(RatSub(a.c, b.c), [v \in S |-> LinPushRaw(Coeff(a, v), RatNeg(Coeff(b, v)))])
      BY <1>2, <2>1 DEF LinSub
    <3>2. [v \in S |-> LinPushRaw(Coeff(a, v), RatNeg(Coeff(b, v)))] = [v \in S |-> LinPushRaw(f[v], g[v])]
      BY <2>3
    <3>3. RatSub(a.c, b.c) = RatAdd(a.c, c2)
      BY <2>4 DEF RatSub
    <3>4. QED
      BY <3>1, <3>2, <3>3
  <2>6. /\ Rational(a.c) /\ Rational(b.c) /\ Rational(c2)
        /\ ~c2.ov => ~b.c.ov /\ c2.num = 0 - b.c.num /\ c2.den = b.c.den
    BY <2>4, RatNegIs DEF Form
  <2>7. /\ \A v \in S : Rational(f[v])
        /\ \A v \in S : Rational(g[v])
        /\ \A v \in S : ~g[v].ov => /\ ~Coeff(b, v).ov /\ g[v].num = 0 - Coeff(b, v).num
                                    /\ g[v].den = Coeff(b, v).den
    BY <2>1, <2>3, CoeffIs, RatNegIs
  <2>8. Form(l) /\ (Clean(l) => Adds(l, a.c, c2, S, f, g))
    BY <2>5, <2>6, <2>7, SummedIs
  <2>9. ASSUME Clean(l) PROVE Clean(a) /\ Clean(b)
    <3>1. \A v \in S : ~f[v].ov /\ ~Coeff(b, v).ov
      BY <2>7, <2>8, <2>9 DEF Adds
    <3>2. \A v \in DOMAIN a.t : ~a.t[v].ov
      BY <2>1, <2>3, <3>1 DEF Coeff
    <3>3. \A v \in DOMAIN b.t : ~b.t[v].ov
      BY <2>1, <3>1 DEF Coeff
    <3>4. QED
      BY <1>2, <3>2, <3>3 DEF Clean, Spoilt
  <2>10. ASSUME Clean(l), NEW x \in Points, NEW D, NEW E, NEW n, NEW m,
                Value(a, x, D, n), Value(b, x, E, m)
         PROVE  Value(l, x, D * E, n * E + (0 - m) * D)
    <3>1. PICK p0, p : Times(D, a, p0, p) /\ n = p0 + Dot(p, x)
      BY <2>10 DEF Value
    <3>2. PICK q0, q : Times(E, b, q0, q) /\ m = q0 + Dot(q, x)
      BY <2>10 DEF Value
    <3>3. D \in Nat \ {0} /\ E \in Nat \ {0}
      BY <2>10 DEF Value
    <3>4. PICK i \in Int, j \in Int : i = 0 - 1 /\ j = 0
      OBVIOUS
    <3> DEFINE z == [v \in Vars |-> q[v] * i + q[v] * j]
    <3>5. Mixes(z, q, i, q, j)
      BY DEF Mixes
    <3>6. \A v \in Vars : z[v] = q[v] * i + q[v] * j
      OBVIOUS
    <3> HIDE DEF z
    <3>7. /\ p0 \in Int /\ p \in Points /\ q0 \in Int /\ q \in Points
          /\ Scaled(p0, D, a.c) /\ \A v \in S : Scaled(p[v], D, f[v])
      BY <2>3, <3>1, <3>2 DEF Times, Points
    <3>8. z \in Points /\ Dot(z, x) = Dot(q, x) * i + Dot(q, x) * j
      BY <3>5, <3>7, DotLinear
    <3>9. Scaled(0 - q0, E, c2)
      <4>1. q0 * b.c.den = E * b.c.num /\ ~c2.ov
        BY <2>8, <2>10, <3>2 DEF Times, Scaled, Adds
      <4>2. PICK r \in Int, s \in Int : r = b.c.num /\ s = b.c.den
        BY <2>6 DEF Rational
      <4>3. (0 - q0) * s = E * (0 - r)
        BY <3>3, <3>7, <4>1, <4>2
      <4>4. QED
        BY <2>6, <4>1, <4>2, <4>3 DEF Scaled
    <3>10. ASSUME NEW v \in S PROVE Scaled(z[v], E, g[v])
      <4>1. q[v] * Coeff(b, v).den = E * Coeff(b, v).num /\ ~g[v].ov
        BY <2>8, <2>10, <3>2 DEF Times, Scaled, Adds
      <4>2. PICK r \in Int, s \in Int, t \in Int : r = Coeff(b, v).num /\ s = Coeff(b, v).den /\ t = q[v]
        BY <3>7, CoeffIs DEF Rational, Points
      <4>3. z[v] = 0 - t
        BY <2>1, <3>4, <3>6, <4>2
      <4>4. (0 - t) * s = E * (0 - r)
        <5>1. PICK e \in Int : e = E
          BY <3>3
        <5>2. t * s = e * r
          BY <4>1, <4>2, <5>1
        <5>3. (0 - t) * s = e * (0 - r)
          BY <5>2
        <5>4. QED
          BY <5>1, <5>3
      <4>5. QED
        BY <2>7, <4>1, <4>2, <4>3, <4>4 DEF Scaled
    <3>11. \A v \in Vars \ S : p[v] = 0 /\ z[v] = 0
      <4>1. \A v \in Vars \ S : p[v] = 0 /\ q[v] = 0
        BY <2>1, <3>1, <3>2, <3>3, OutsideZero
      <4>2. QED
        BY <3>4, <3>6, <4>1
    <3>12. 0 - m = (0 - q0) + Dot(z, x) /\ 0 - q0 \in Int
      <4>1. PICK k \in Int : k = Dot(q, x)
        BY <3>7, DotIs
      <4>2. QED
        BY <3>2, <3>4, <3>7, <3>8, <4>1
    <3>13. Value(l, x, D * E, (p0 + Dot(p, x)) * E + ((0 - q0) + Dot(z, x)) * D)
      BY <2>8, <2>10, <3>3, <3>7, <3>8, <3>9, <3>10, <3>11, <3>12, AddedValue
    <3>14. QED
      BY <3>1, <3>12, <3>13
  <2>11. QED
    BY <2>8, <2>9, <2>10
<1>3. QED
  BY <1>1, <1>2

(* The sum of no coefficients at all.                                      *)
LEMMA DotZero ==
    ASSUME FmAssumption, NEW x \in Points, NEW z, \A v \in Vars : z[v] = 0
    PROVE  Dot(z, x) = 0
<1> DEFINE f == [v \in Vars |-> z[v] * x[v]]
<1>1. \A v \in Vars : f[v] = 0
  BY DEF Points
<1>2. IsFiniteSet(Vars)
  BY DEF FmAssumption
<1> HIDE DEF f
<1>3. SumFunctionOnSet(f, Vars) = 0
  BY <1>1, <1>2, SumZero
<1>4. QED
  BY <1>3 DEF f, Dot

(* A constant form.                                                        *)
LEMMA LinConstIs ==
    ASSUME FmAssumption, NEW r, Rational(r), NEW l, l = LinConst(r)
    PROVE  /\ Form(l)
           /\ Clean(l) => ~r.ov
           /\ \A x \in Points : Value(l, x, r.den, r.num)
<1>1. /\ l = [c |-> l.c, t |-> l.t, ov |-> l.ov]
      /\ l.c = r /\ DOMAIN l.t = {} /\ l.ov = r.ov
  BY DEF LinConst
<1>2. Form(l) /\ (Clean(l) => ~r.ov)
  BY <1>1 DEF Form, Clean
<1>3. ASSUME NEW x \in Points PROVE Value(l, x, r.den, r.num)
  <2>1. PICK z : z = [v \in Vars |-> 0]
    OBVIOUS
  <2>2. z \in [Vars -> Int] /\ Dot(z, x) = 0
    BY <1>3, <2>1, DotZero
  <2>3. \A v \in Vars : Coeff(l, v) = RatZero /\ RatZero.num = 0 /\ RatZero.den = 1
    BY <1>1 DEF Coeff, RatZero, RatInt
  <2>4. r.num \in Int /\ r.den \in Nat \ {0}
    BY DEF Rational
  <2>5. r.num * r.den = r.den * r.num /\ r.den * 0 = 0
    BY <2>4
  <2>6. Times(r.den, l, r.num, z)
    BY <1>1, <2>1, <2>2, <2>3, <2>4, <2>5 DEF Times, Scaled
  <2>7. r.num = r.num + Dot(z, x)
    BY <2>2, <2>4
  <2>8. QED
    BY <2>4, <2>6, <2>7 DEF Value
<1>4. QED
  BY <1>2, <1>3

(* LinScale scales.                                                        *)
LEMMA LinScaleIs ==
    ASSUME FmAssumption, NEW a, Form(a), NEW k, Rational(k), NEW l, l = LinScale(a, k)
    PROVE  /\ Form(l)
           /\ Clean(l) => Clean(a) /\ ~k.ov
           /\ Clean(l) => \A x \in Points : \A D, n :
                 Value(a, x, D, n) => Value(l, x, D * k.den, n * k.num)
<1>1. CASE Spoilt(a) \/ k.ov
  <2>1. l = LinBad
    BY <1>1 DEF LinScale
  <2>2. QED
    BY <2>1, LinBadIs
<1>2. CASE ~(Spoilt(a) \/ k.ov)
  <2>1. PICK S \in SUBSET Vars : S = DOMAIN a.t
    BY DEF Form
  <2>2. PICK c, terms : /\ c = RatMul(a.c, k)
                        /\ terms = [v \in S |-> LinPushRaw(RatZero, RatMul(a.t[v], k))]
    OBVIOUS
  <2>3. l = Merged(c, terms) /\ DOMAIN terms = S
    BY <1>2, <2>1, <2>2 DEF LinScale
  <2>4. Rational(RatZero) /\ RatZero.num = 0 /\ RatZero.den = 1
    BY RatIntIs DEF RatZero
  <2>5. Rational(a.c) /\ \A v \in S : Rational(a.t[v])
    BY <2>1 DEF Form
  <2>6. Rational(c) /\ (~c.ov => ~a.c.ov /\ Is(c, a.c.num * k.num, a.c.den * k.den))
    BY <2>2, <2>5, RatMulIs
  <2>7. ASSUME NEW v \in S
        PROVE  /\ Rational(terms[v].left)
               /\ ~terms[v].ov => /\ ~a.t[v].ov
                                  /\ \A D, q \in Int : Scaled(q, D, a.t[v])
                                        => Scaled(q * k.num, D * k.den, terms[v].left)
    <3>1. PICK m, t : m = RatMul(a.t[v], k) /\ t = terms[v]
      OBVIOUS
    <3>2. Rational(m) /\ (~m.ov => ~a.t[v].ov /\ Is(m, a.t[v].num * k.num, a.t[v].den * k.den))
      BY <2>5, <3>1, RatMulIs
    <3>3. t = LinPushRaw(RatZero, m)
      BY <2>2, <3>1
    <3>4. Rational(t.left) /\ (~t.ov => ~m.ov /\ t.left = RatAdd(RatZero, m))
      BY <2>4, <3>2, <3>3, PushedIs
    <3>5. t.ov = RatAdd(RatZero, m).ov
      BY <3>3 DEF LinPushRaw, Pushed
    <3>6. ASSUME ~t.ov, NEW D \in Int, NEW q \in Int, Scaled(q, D, a.t[v])
          PROVE  Scaled(q * k.num, D * k.den, t.left)
      <4>1. PICK r : r = t.left
        OBVIOUS
      <4>2. r = RatAdd(RatZero, m) /\ ~r.ov /\ Rational(r)
        BY <3>4, <3>5, <3>6, <4>1
      <4>3. Is(r, RatZero.num * m.den + m.num * RatZero.den, RatZero.den * m.den)
        BY <2>4, <3>2, <4>2, RatAddIs
      <4>4. Scaled(q * k.num, D * k.den, m)
        BY <2>5, <3>2, <3>4, <3>6, ScaledMul
      <4>5. r.num * m.den = m.num * r.den
        <5>1. m.num \in Int /\ m.den \in Int
          BY <3>2 DEF Rational
        <5>2. 0 * m.den + m.num * 1 = m.num /\ 1 * m.den = m.den
          BY <5>1
        <5>3. QED
          BY <2>4, <4>3, <5>2 DEF Is
      <4>6. PICK u \in Int, E \in Int, rn \in Int, rd \in Int, mn \in Int, md \in Nat \ {0} :
                 /\ u = q * k.num /\ E = D * k.den /\ rn = r.num /\ rd = r.den
                 /\ mn = m.num /\ md = m.den
        <5>1. q * k.num \in Int /\ D * k.den \in Int
          BY <3>6 DEF Rational
        <5>2. r.num \in Int /\ r.den \in Int /\ m.num \in Int /\ m.den \in Nat \ {0}
          BY <3>2, <4>2 DEF Rational
        <5>3. QED
          BY <5>1, <5>2
      <4>7. u * md = E * mn /\ rn * md = mn * rd
        BY <4>4, <4>5, <4>6 DEF Scaled
      <4>8. (u * rd) * md = (E * rn) * md
        <5>1. (u * rd) * md = (u * md) * rd
          OBVIOUS
        <5>2. (E * rn) * md = E * (mn * rd)
          BY <4>7
        <5>3. (E * mn) * rd = E * (mn * rd)
          OBVIOUS
        <5>4. QED
          BY <4>7, <5>1, <5>2, <5>3
      <4>9. u * rd = E * rn
        BY <4>8, Cancel
      <4>10. QED
        BY <4>1, <4>6, <4>9 DEF Scaled
    <3>7. QED
      BY <3>1, <3>2, <3>4, <3>6
  <2>8. Form(l) /\ (Clean(l) => Keeps(l, c, S, terms))
    <3>1. \A v \in S : Rational(terms[v].left)
      BY <2>7
    <3>2. QED
      BY <2>3, <2>6, <3>1, MergedIs
  <2>9. ASSUME Clean(l) PROVE Clean(a) /\ ~k.ov
    <3>1. \A v \in S : ~terms[v].ov
      BY <2>8, <2>9 DEF Keeps
    <3>2. \A v \in DOMAIN a.t : ~a.t[v].ov
      BY <2>1, <2>7, <3>1
    <3>3. QED
      BY <1>2, <3>2 DEF Clean, Spoilt
  <2>10. ASSUME Clean(l), NEW x \in Points, NEW D, NEW n, Value(a, x, D, n)
         PROVE  Value(l, x, D * k.den, n * k.num)
    <3>1. PICK q0, q : Times(D, a, q0, q) /\ n = q0 + Dot(q, x)
      BY <2>10 DEF Value
    <3>2. PICK kn \in Int, kd \in Nat \ {0}, j \in Int : kn = k.num /\ kd = k.den /\ j = 0
      BY DEF Rational
    <3>3. D \in Nat \ {0} /\ q0 \in Int /\ q \in Points /\ Dot(q, x) \in Int
      BY <2>10, <3>1, DotIs DEF Value, Times, Points
    <3> DEFINE s == [v \in Vars |-> q[v] * kn + q[v] * j]
    <3>4. Mixes(s, q, kn, q, j)
      BY DEF Mixes
    <3>5. s \in Points /\ Dot(s, x) = Dot(q, x) * kn + Dot(q, x) * j
      BY <3>3, <3>4, DotLinear
    <3>6. \A v \in Vars : s[v] = q[v] * kn
      BY <3>2, <3>3 DEF Points
    <3> HIDE DEF s
    <3>7. Scaled(q0 * kn, D * kd, l.c)
      <4>1. l.c = c /\ ~c.ov /\ Scaled(q0, D, a.c)
        BY <2>8, <2>10, <3>1 DEF Keeps, Times
      <4>2. QED
        BY <2>5, <2>6, <3>2, <3>3, <4>1, ScaledMul
    <3>8. ASSUME NEW v \in Vars PROVE Scaled(s[v], D * kd, Coeff(l, v))
      <4>1. CASE v \in S
        <5>1. Scaled(q[v], D, a.t[v]) /\ q[v] \in Int /\ ~terms[v].ov
          BY <2>1, <2>8, <2>10, <3>1, <3>3, <4>1 DEF Keeps, Times, Coeff, Points
        <5>2. Scaled(q[v] * kn, D * kd, terms[v].left)
          BY <2>7, <3>2, <3>3, <4>1, <5>1
        <5>3. q[v] * kn \in Int /\ D * kd \in Int
          BY <3>3, <5>1
        <5>4. Scaled(q[v] * kn, D * kd, Coeff(l, v))
          BY <2>8, <2>10, <4>1, <5>2, <5>3 DEF Keeps
        <5>5. QED
          BY <3>6, <5>4
      <4>2. CASE v \notin S
        <5>1. Coeff(l, v) = RatZero
          BY <2>8, <2>10, <4>2 DEF Keeps
        <5>2. q[v] = 0
          BY <2>1, <3>1, <3>3, <4>2, OutsideZero
        <5>3. s[v] = 0 /\ D * kd \in Int
          BY <3>3, <3>6, <5>2
        <5>4. QED
          BY <2>4, <5>1, <5>3 DEF Scaled
      <4>3. QED
        BY <4>1, <4>2
    <3>9. D * kd \in Nat \ {0} /\ q0 * kn \in Int /\ n * kn \in Int /\ n * kn = q0 * kn + Dot(s, x)
      <4>1. PICK d \in Int : d = Dot(q, x)
        BY <3>3
      <4>2. (q0 + d) * kn = q0 * kn + (d * kn + d * j)
        BY <3>2, <3>3
      <4>3. QED
        BY <3>1, <3>3, <3>5, <4>1, <4>2
    <3>10. Times(D * kd, l, q0 * kn, s)
      BY <3>5, <3>7, <3>8, <3>9 DEF Times, Points
    <3>11. QED
      BY <3>2, <3>9, <3>10 DEF Value
  <2>11. QED
    BY <2>8, <2>9, <2>10
<1>3. QED
  BY <1>1, <1>2

-----------------------------------------------------------------------------
(* Constraints.                                                            *)

Cons(c) == Form(c.lhs) /\ Rational(c.rhs)
Trusted(c) == Clean(c.lhs) /\ ~c.rhs.ov

\* The point x is a solution of c.
Met(c, x) == \E D, n : /\ Value(c.lhs, x, D, n)
                       /\ n * c.rhs.den <= D * c.rhs.num
                       /\ c.strict => n * c.rhs.den # D * c.rhs.num

\* What c says may be wrong at x only when c carries the flag.
Right(c, x) == Cons(c) /\ (Trusted(c) => Met(c, x))

\* The bound b on v holds at x.
Bounds(b, x, v) == \E E, M : /\ Value(b.rest, x, E, M)
                             /\ b.lower => M <= E * x[v]
                             /\ ~b.lower => E * x[v] <= M
                             /\ b.strict => M # E * x[v]

Bounding(b, x, v) == Form(b.rest) /\ (Clean(b.rest) => Bounds(b, x, v))

(* A form without the term of v.                                           *)
LEMMA RestIs ==
    ASSUME FmAssumption, NEW l, Form(l), NEW v \in DOMAIN l.t,
           NEW rest, rest = [l EXCEPT !.t = [x \in DOMAIN @ \ {v} |-> @[x]]]
    PROVE  /\ Form(rest)
           /\ Clean(rest) /\ ~l.t[v].ov => Clean(l)
           /\ \A x \in Points : \A D, n : Value(l, x, D, n)
                 => \E w \in Int : Scaled(w, D, l.t[v]) /\ Value(rest, x, D, n - w * x[v])
<1>1. PICK t : t = [x \in DOMAIN l.t \ {v} |-> l.t[x]]
  OBVIOUS
<1>2. rest.c = l.c /\ rest.t = t /\ rest.ov = l.ov /\ rest = [c |-> rest.c, t |-> rest.t, ov |-> rest.ov]
  <2>1. l = [c |-> l.c, t |-> l.t, ov |-> l.ov]
    BY DEF Form
  <2>2. rest = [c |-> l.c, t |-> t, ov |-> l.ov]
    BY <1>1, <2>1
  <2>3. rest.c = l.c /\ rest.t = t /\ rest.ov = l.ov
    BY <2>2
  <2>4. QED
    BY <2>2, <2>3
<1>3. DOMAIN rest.t = DOMAIN l.t \ {v} /\ \A x \in DOMAIN l.t \ {v} : rest.t[x] = l.t[x]
  BY <1>1, <1>2
<1>4. Form(rest)
  BY <1>2, <1>3 DEF Form
<1>5. Clean(rest) /\ ~l.t[v].ov => Clean(l)
  BY <1>2, <1>3 DEF Clean
<1>6. v \in Vars
  BY DEF Form
<1>7. ASSUME NEW x \in Points, NEW D, NEW n, Value(l, x, D, n)
      PROVE  \E w \in Int : Scaled(w, D, l.t[v]) /\ Value(rest, x, D, n - w * x[v])
  <2>1. PICK q0, q : Times(D, l, q0, q) /\ n = q0 + Dot(q, x)
    BY <1>7 DEF Value
  <2>2. D \in Nat \ {0} /\ n \in Int /\ q0 \in Int /\ q \in Points /\ q[v] \in Int /\ x[v] \in Int
    BY <1>6, <1>7, <2>1 DEF Value, Times, Points
  <2>3. PICK p : p = [q EXCEPT ![v] = 0]
    OBVIOUS
  <2>4. p \in Points /\ p[v] = 0 /\ \A y \in Vars \ {v} : p[y] = q[y]
    BY <1>6, <2>2, <2>3 DEF Points
  <2>5. Dot(q, x) = Dot(p, x) + q[v] * x[v]
    <3> DEFINE f == [y \in Vars |-> q[y] * x[y]]
               g == [y \in Vars |-> p[y] * x[y]]
    <3>1. \A y \in Vars : f[y] \in Int /\ g[y] \in Int
      BY <2>2, <2>4 DEF Points
    <3>2. f[v] = q[v] * x[v] /\ g[v] = 0
      BY <1>6, <2>2, <2>4
    <3>3. \A y \in Vars \ {v} : f[y] = g[y]
      BY <2>4
    <3>4. IsFiniteSet(Vars) /\ IsFiniteSet(Vars \ {v})
      BY FS_RemoveElement DEF FmAssumption
    <3> HIDE DEF f, g
    <3>5. /\ SumFunctionOnSet(f, Vars) = f[v] + SumFunctionOnSet(f, Vars \ {v})
          /\ SumFunctionOnSet(g, Vars) = g[v] + SumFunctionOnSet(g, Vars \ {v})
      BY <1>6, <3>1, <3>4, SumRemove
    <3>6. SumFunctionOnSet(f, Vars \ {v}) = SumFunctionOnSet(g, Vars \ {v})
      BY <3>1, <3>3, <3>4, SumSame
    <3>7. SumFunctionOnSet(g, Vars) \in Int /\ SumFunctionOnSet(g, Vars \ {v}) \in Int
      BY <3>1, <3>4, SumRemove
    <3>8. SumFunctionOnSet(f, Vars) = SumFunctionOnSet(g, Vars) + q[v] * x[v]
      BY <2>2, <3>2, <3>5, <3>6, <3>7
    <3>9. QED
      BY <3>8 DEF f, g, Dot
  <2>6. Scaled(q[v], D, l.t[v])
    BY <1>6, <2>1 DEF Times, Coeff
  <2>7. ASSUME NEW y \in Vars PROVE Scaled(p[y], D, Coeff(rest, y))
    <3>1. CASE y = v
      <4>1. Coeff(rest, y) = RatZero /\ RatZero.num = 0 /\ RatZero.den = 1
        BY <1>3, <3>1 DEF Coeff, RatZero, RatInt
      <4>2. QED
        BY <2>2, <2>4, <3>1, <4>1 DEF Scaled
    <3>2. CASE y # v
      <4>1. Coeff(rest, y) = Coeff(l, y) /\ p[y] = q[y]
        BY <1>3, <2>4, <3>2 DEF Coeff
      <4>2. QED
        BY <2>1, <4>1 DEF Times
    <3>3. QED
      BY <3>1, <3>2
  <2>8. Times(D, rest, q0, p)
    BY <1>2, <2>1, <2>4, <2>7 DEF Times, Points
  <2>9. n - q[v] * x[v] = q0 + Dot(p, x) /\ n - q[v] * x[v] \in Int
    <3>1. PICK d \in Int, e \in Int : d = Dot(p, x) /\ e = q[v] * x[v]
      BY <2>2, <2>4, DotIs
    <3>2. QED
      BY <2>1, <2>2, <2>5, <3>1
  <2>10. Value(rest, x, D, n - q[v] * x[v])
    BY <2>2, <2>8, <2>9 DEF Value
  <2>11. QED
    BY <2>2, <2>6, <2>10
<1>8. QED
  BY <1>4, <1>5, <1>7

(* The arithmetic of a bound: y times the coefficient an / ad, whose       *)
(* inverse is kn / kd, and the rest of the form, together n / D, are at    *)
(* most rn / rd.                                                           *)
LEMMA BoundArith ==
    ASSUME NEW D \in Nat \ {0}, NEW n \in Int, NEW w \in Int, NEW y \in Int,
           NEW an \in Int, NEW ad \in Nat \ {0}, NEW rn \in Int, NEW rd \in Nat \ {0},
           NEW kn \in Int, NEW kd \in Nat \ {0}, an # 0,
           w * ad = D * an, kn * an = ad * kd, n * rd <= D * rn,
           NEW E, E = (D * rd) * kd, NEW M, M = ((0 - (n - w * y)) * rd + rn * D) * kn
    PROVE  /\ E \in Nat \ {0} /\ M \in Int
           /\ an < 0 => M <= E * y
           /\ ~(an < 0) => E * y <= M
           /\ n * rd # D * rn => M # E * y
<1>1. w * kn = D * kd
  <2>1. (w * kn) * an = w * (ad * kd)
    <3>1. (w * kn) * an = w * (kn * an)
      OBVIOUS
    <3>2. QED
      BY <3>1
  <2>2. w * (ad * kd) = (D * an) * kd
    <3>1. w * (ad * kd) = (w * ad) * kd
      OBVIOUS
    <3>2. QED
      BY <3>1
  <2>3. (D * an) * kd = (D * kd) * an
    OBVIOUS
  <2>4. (w * kn) * an = (D * kd) * an
    BY <2>1, <2>2, <2>3
  <2>5. w * kn \in Int /\ D * kd \in Int
    OBVIOUS
  <2>6. QED
    BY <2>4, <2>5, Cancel
<1>2. PICK s \in Nat : s = D * rn - n * rd
  OBVIOUS
<1>3. M = E * y + s * kn
  <2>1. ((0 - (n - w * y)) * rd + rn * D) * kn = (D * rn - n * rd) * kn + (w * kn) * (y * rd)
    OBVIOUS
  <2>2. (D * kd) * (y * rd) = ((D * rd) * kd) * y
    OBVIOUS
  <2>3. M = s * kn + (D * kd) * (y * rd)
    BY <1>1, <1>2, <2>1
  <2>4. M = s * kn + E * y
    BY <2>2, <2>3
  <2>5. s * kn \in Int /\ E * y \in Int
    OBVIOUS
  <2>6. QED
    BY <2>4, <2>5
<1>4. kn * an > 0
  OBVIOUS
<1>5. (an < 0 => kn < 0) /\ (an > 0 => kn > 0)
  BY <1>4
<1>6. (kn < 0 => s * kn <= 0) /\ (kn > 0 => s * kn >= 0) /\ (s # 0 => s * kn # 0)
  BY <1>4
<1>7. E \in Nat \ {0} /\ M \in Int /\ E * y \in Int /\ s * kn \in Int
  OBVIOUS
<1>8. n * rd # D * rn => s # 0
  BY <1>2
<1>9. PICK e \in Int, z \in Int : e = E * y /\ z = s * kn
  BY <1>7
<1>10. M = e + z /\ (an < 0 => z <= 0) /\ (an > 0 => z >= 0) /\ (n * rd # D * rn => z # 0)
  BY <1>3, <1>5, <1>6, <1>8, <1>9
<1>11. QED
  BY <1>7, <1>9, <1>10

(* The bound that a constraint puts on a variable is one.                  *)
LEMMA SplitOnIs ==
    ASSUME FmAssumption, NEW c, Cons(c), NEW v \in DOMAIN c.lhs.t, NEW b, b = SplitOn(c, v)
    PROVE  /\ Form(b.rest)
           /\ Clean(b.rest) => Trusted(c)
           /\ Clean(b.rest) => \A x \in Points : Met(c, x) => Bounds(b, x, v)
<1>1. PICK l, a, rest : l = c.lhs /\ a = l.t[v] /\ rest = [l EXCEPT !.t = [x \in DOMAIN @ \ {v} |-> @[x]]]
  OBVIOUS
<1>2. PICK neg, m, p, sum, k : /\ m = RatInt(-1) /\ neg = LinScale(rest, m) /\ p = LinConst(c.rhs)
                               /\ sum = LinAdd(neg, p) /\ k = RatMk(a.den, a.num)
  OBVIOUS
<1>3. b = [rest |-> LinScale(sum, k), lower |-> a.num < 0, strict |-> c.strict]
  BY <1>1, <1>2 DEF SplitOn, LinNeg
<1>4. PICK r : r = b.rest
  OBVIOUS
<1>5. r = LinScale(sum, k) /\ b.lower = (a.num < 0) /\ b.strict = c.strict
  BY <1>3, <1>4
<1>6. Form(l) /\ v \in DOMAIN l.t /\ v \in Vars /\ Rational(a) /\ Rational(c.rhs)
  BY <1>1 DEF Cons, Form
<1>7. Form(rest) /\ (Clean(rest) /\ ~a.ov => Clean(l))
  BY <1>1, <1>6, RestIs
<1>8. PICK i \in Int : i = 0 - 1
  OBVIOUS
<1>9. Rational(m) /\ m.num = i /\ m.den = 1
  <2>1. m = RatInt(i)
    BY <1>2, <1>8
  <2>2. QED
    BY <2>1, RatIntIs
<1>10. Form(neg) /\ (Clean(neg) => Clean(rest))
  BY <1>2, <1>7, <1>9, LinScaleIs
<1>11. Form(p) /\ (Clean(p) => ~c.rhs.ov) /\ \A x \in Points : Value(p, x, c.rhs.den, c.rhs.num)
  BY <1>2, <1>6, LinConstIs
<1>12. Form(sum) /\ (Clean(sum) => Clean(neg) /\ Clean(p))
  BY <1>2, <1>10, <1>11, LinAddIs
<1>13. Rational(k) /\ (~k.ov => a.num # 0 /\ Is(k, a.den, a.num))
  <2>1. a.num \in Int /\ a.den \in Int
    BY <1>6 DEF Rational
  <2>2. QED
    BY <1>2, <2>1, RatMkIs
<1>14. Form(r) /\ (Clean(r) => Clean(sum) /\ ~k.ov)
  BY <1>5, <1>12, <1>13, LinScaleIs
<1>15. ASSUME Clean(r) PROVE Trusted(c)
  <2>1. a.num # 0 /\ Clean(rest) /\ Clean(p)
    BY <1>10, <1>12, <1>13, <1>14, <1>15
  <2>2. ~a.ov
    BY <1>6, <2>1 DEF Rational
  <2>3. QED
    BY <1>1, <1>7, <1>11, <2>1, <2>2 DEF Trusted
<1>16. ASSUME Clean(r), NEW x \in Points, Met(c, x) PROVE Bounds(b, x, v)
  <2>1. PICK D, n : /\ Value(l, x, D, n) /\ n * c.rhs.den <= D * c.rhs.num
                    /\ c.strict => n * c.rhs.den # D * c.rhs.num
    BY <1>1, <1>16 DEF Met
  <2>2. PICK w \in Int : Scaled(w, D, a) /\ Value(rest, x, D, n - w * x[v])
    BY <1>1, <1>6, <2>1, RestIs
  <2>3. D \in Nat \ {0} /\ n \in Int
    BY <2>1 DEF Value
  <2>4. PICK y \in Int, z \in Int : y = x[v] /\ z = n - w * y
    BY <1>6, <2>3 DEF Points
  <2>5. PICK an \in Int, ad \in Nat \ {0}, rn \in Int, rd \in Nat \ {0}, kn \in Int, kd \in Nat \ {0} :
             /\ an = a.num /\ ad = a.den /\ rn = c.rhs.num /\ rd = c.rhs.den
             /\ kn = k.num /\ kd = k.den
    BY <1>6, <1>13 DEF Rational
  <2>6. Value(neg, x, D * 1, z * i)
    <3>1. Value(neg, x, D * m.den, z * m.num)
      BY <1>2, <1>7, <1>9, <1>12, <1>14, <1>16, <2>2, <2>4, LinScaleIs
    <3>2. QED
      BY <1>9, <3>1
  <2>7. D * 1 = D /\ z * i = 0 - z /\ z \in Int
    BY <1>8, <2>4, <2>3
  <2>8. Value(sum, x, D * rd, (0 - z) * rd + rn * D)
    <3>1. Value(neg, x, D, 0 - z) /\ Value(p, x, rd, rn)
      BY <1>11, <2>5, <2>6, <2>7
    <3>2. QED
      BY <1>2, <1>10, <1>11, <1>14, <1>16, <3>1, LinAddIs
  <2>9. PICK E, M : E = (D * rd) * kd /\ M = ((0 - z) * rd + rn * D) * kn
    OBVIOUS
  <2>10. Value(r, x, E, M)
    BY <1>5, <1>12, <1>13, <1>16, <2>5, <2>8, <2>9, LinScaleIs
  <2>11. an # 0 /\ kn * an = ad * kd /\ w * ad = D * an /\ n * rd <= D * rn
    BY <1>13, <1>14, <1>16, <2>1, <2>2, <2>5 DEF Is, Scaled
  <2>12. /\ an < 0 => M <= E * y
         /\ ~(an < 0) => E * y <= M
         /\ n * rd # D * rn => M # E * y
    <3>1. M = ((0 - (n - w * y)) * rd + rn * D) * kn
      BY <2>4, <2>9
    <3>2. QED
      BY <2>3, <2>9, <2>11, <3>1, BoundArith
  <2>13. b.lower = (an < 0) /\ (b.strict => n * rd # D * rn)
    BY <1>5, <2>1, <2>5
  <2>14. /\ b.lower => M <= E * x[v]
         /\ ~b.lower => E * x[v] <= M
         /\ b.strict => M # E * x[v]
    BY <2>4, <2>12, <2>13
  <2>15. QED
    BY <1>4, <2>10, <2>14 DEF Bounds
<1>17. QED
  BY <1>4, <1>14, <1>15, <1>16

(* A lower bound and an upper bound of v are a constraint without v.       *)
LEMMA CombineIs ==
    ASSUME FmAssumption, NEW lo, Form(lo.rest), NEW up, Form(up.rest), lo.lower, ~up.lower,
           NEW c, c = Combine(lo, up)
    PROVE  /\ Cons(c)
           /\ Trusted(c) => Clean(lo.rest) /\ Clean(up.rest)
           /\ Trusted(c) => \A v \in Vars : \A x \in Points :
                 Bounds(lo, x, v) /\ Bounds(up, x, v) => Met(c, x)
<1>1. PICK l, r : l = LinSub(lo.rest, up.rest) /\ r = RatZero
  OBVIOUS
<1>2. c.lhs = l /\ c.rhs = r /\ c.strict = (lo.strict \/ up.strict)
  BY <1>1 DEF Combine, MkCons
<1>3. Form(l) /\ (Clean(l) => Clean(lo.rest) /\ Clean(up.rest))
  BY <1>1, LinSubIs
<1>4. Rational(r) /\ r.num = 0 /\ r.den = 1
  BY <1>1, RatIntIs DEF RatZero
<1>5. ASSUME Trusted(c), NEW v \in Vars, NEW x \in Points, Bounds(lo, x, v), Bounds(up, x, v)
      PROVE  Met(c, x)
  <2>1. PICK E, M : /\ Value(lo.rest, x, E, M) /\ M <= E * x[v]
                    /\ lo.strict => M # E * x[v]
    BY <1>5 DEF Bounds
  <2>2. PICK F, N : /\ Value(up.rest, x, F, N) /\ F * x[v] <= N
                    /\ up.strict => N # F * x[v]
    BY <1>5 DEF Bounds
  <2>3. E \in Nat \ {0} /\ M \in Int /\ F \in Nat \ {0} /\ N \in Int
    BY <2>1, <2>2 DEF Value
  <2>4. PICK y \in Int, D \in Int, n \in Int : y = x[v] /\ D = E * F /\ n = M * F + (0 - N) * E
    BY <1>5, <2>3 DEF Points
  <2>5. Value(l, x, D, n)
    BY <1>1, <1>2, <1>5, <2>1, <2>2, <2>4, LinSubIs DEF Trusted
  <2>6. n \in Int /\ n <= 0 /\ (n = 0 => M = E * y /\ N = F * y)
    <3>1. PICK s \in Nat, t \in Nat : s = E * y - M /\ t = N - F * y
      BY <2>1, <2>2, <2>3, <2>4
    <3>2. M = E * y - s /\ N = F * y + t
      BY <2>3, <3>1
    <3>3. n = 0 - (s * F + t * E)
      <4>1. (E * y - s) * F + (0 - (F * y + t)) * E = 0 - (s * F + t * E)
        BY <2>3
      <4>2. QED
        BY <2>4, <3>2, <4>1
    <3>4. s * F \in Nat /\ t * E \in Nat /\ (s * F = 0 => s = 0) /\ (t * E = 0 => t = 0)
      BY <2>3
    <3>5. PICK i \in Nat, j \in Nat : i = s * F /\ j = t * E
      BY <3>4
    <3>6. n = 0 - (i + j) /\ (i = 0 => s = 0) /\ (j = 0 => t = 0)
      BY <3>3, <3>4, <3>5
    <3>7. n \in Int /\ n <= 0 /\ (n = 0 => s = 0 /\ t = 0)
      BY <3>6
    <3>8. E * y \in Int /\ F * y \in Int
      BY <2>3
    <3>9. QED
      BY <3>2, <3>7, <3>8
  <2>7. c.strict => n # 0
    BY <1>2, <2>1, <2>2, <2>4, <2>6
  <2>8. n * 1 = n /\ D * 0 = 0
    BY <2>3, <2>4, <2>6
  <2>9. n * c.rhs.den <= D * c.rhs.num /\ (c.strict => n * c.rhs.den # D * c.rhs.num)
    BY <1>2, <1>4, <2>6, <2>7, <2>8
  <2>10. QED
    BY <1>2, <2>5, <2>9 DEF Met
<1>6. QED
  BY <1>2, <1>3, <1>4, <1>5 DEF Cons, Trusted

(* Eliminating a variable keeps every solution.                            *)
LEMMA EliminateIs ==
    ASSUME FmAssumption, NEW s, NEW v \in Vars, NEW x \in Points, \A c \in s : Right(c, x),
           NEW c \in Eliminate(s, v)
    PROVE  Right(c, x)
<1>1. PICK with : with = {e \in s : v \in DOMAIN e.lhs.t}
  OBVIOUS
<1>2. PICK bounds : bounds = {SplitOn(e, v) : e \in with}
  OBVIOUS
<1>3. c \in s \/ c \in Pairs(bounds)
  BY <1>1, <1>2 DEF Eliminate
<1>4. CASE c \in s
  BY <1>4
<1>5. CASE c \in Pairs(bounds)
  <2>1. PICK lo \in bounds, up \in bounds : lo.lower /\ ~up.lower /\ c = Combine(lo, up)
    BY <1>5 DEF Pairs
  <2>2. ASSUME NEW b \in bounds PROVE Form(b.rest) /\ (Clean(b.rest) => Bounds(b, x, v))
    <3>1. PICK e \in with : b = SplitOn(e, v)
      BY <1>2
    <3>2. Cons(e) /\ v \in DOMAIN e.lhs.t /\ (Trusted(e) => Met(e, x))
      BY <1>1 DEF Right
    <3>3. QED
      BY <3>1, <3>2, SplitOnIs
  <2>3. Form(lo.rest) /\ Form(up.rest)
    BY <2>1, <2>2
  <2>4. Cons(c) /\ (Trusted(c) => Clean(lo.rest) /\ Clean(up.rest))
    BY <2>1, <2>3, CombineIs
  <2>5. ASSUME Trusted(c) PROVE Met(c, x)
    <3>1. Bounds(lo, x, v) /\ Bounds(up, x, v)
      BY <2>1, <2>2, <2>4, <2>5
    <3>2. QED
      BY <2>1, <2>3, <2>5, <3>1, CombineIs
  <2>6. QED
    BY <2>4, <2>5 DEF Right
<1>6. QED
  BY <1>3, <1>4, <1>5

(* A constraint without variables that does not hold has no solution.      *)
LEMMA ContradictoryIs ==
    ASSUME FmAssumption, NEW c, Contradictory(c), Trusted(c), NEW x \in Points, Right(c, x)
    PROVE  FALSE
<1>1. PICK D, n : /\ Value(c.lhs, x, D, n) /\ n * c.rhs.den <= D * c.rhs.num
                  /\ c.strict => n * c.rhs.den # D * c.rhs.num
  BY DEF Right, Met
<1>2. PICK q0, q : Times(D, c.lhs, q0, q) /\ n = q0 + Dot(q, x)
  BY <1>1 DEF Value
<1>3. D \in Nat \ {0} /\ n \in Int /\ q0 \in Int
  BY <1>1, <1>2 DEF Value, Times
<1>4. \A v \in Vars : q[v] = 0
  <2>1. DOMAIN c.lhs.t = {}
    BY DEF Contradictory, IsConst
  <2>2. QED
    BY <1>2, <1>3, <2>1, OutsideZero
<1>5. n = q0
  BY <1>2, <1>3, <1>4, DotZero
<1>6. PICK cn \in Int, cd \in Nat \ {0}, rn \in Int, rd \in Nat \ {0} :
           /\ cn = c.lhs.c.num /\ cd = c.lhs.c.den /\ rn = c.rhs.num /\ rd = c.rhs.den
  BY DEF Right, Cons, Form, Rational
<1>7. n * cd = D * cn
  BY <1>2, <1>5, <1>6 DEF Times, Scaled
<1>8. rn * cd <= cn * rd /\ (~c.strict => rn * cd # cn * rd)
  <2>1. PICK s : s = RatCmp(c.lhs.c, c.rhs)
    OBVIOUS
  <2>2. IF c.strict THEN s >= 0 ELSE s > 0
    BY <2>1 DEF Contradictory
  <2>3. ~c.lhs.c.ov /\ ~c.rhs.ov
    BY DEF Trusted, Clean
  <2>4. s = IF cn * rd = rn * cd THEN 0 ELSE IF cn * rd < rn * cd THEN -1 ELSE 1
    BY <1>6, <2>1, <2>3 DEF RatCmp
  <2>5. PICK i \in Int, j \in Int : i = cn * rd /\ j = rn * cd
    BY <1>6
  <2>6. s = IF i = j THEN 0 ELSE IF i < j THEN -1 ELSE 1
    BY <2>4, <2>5
  <2>7. s >= 0 => j <= i
    BY <2>5, <2>6
  <2>8. s > 0 => j <= i /\ i # j
    BY <2>5, <2>6
  <2>9. s \in Int /\ (s > 0 => s >= 0)
    BY <2>6
  <2>10. QED
    BY <2>2, <2>5, <2>7, <2>8, <2>9
<1>9. (D * rn) * cd <= (n * rd) * cd /\ (~c.strict => (D * rn) * cd # (n * rd) * cd)
  <2>1. (n * rd) * cd = (cn * rd) * D /\ (D * rn) * cd = (rn * cd) * D
    <3>1. (n * rd) * cd = (n * cd) * rd /\ (D * cn) * rd = (cn * rd) * D /\ (D * rn) * cd = (rn * cd) * D
      BY <1>3
    <3>2. QED
      BY <1>7, <3>1
  <2>2. PICK i \in Int, j \in Int : i = cn * rd /\ j = rn * cd
    BY <1>6
  <2>3. j <= i /\ (~c.strict => j # i)
    BY <1>8, <2>2
  <2>4. j * D <= i * D /\ (i # j => i * D # j * D)
    BY <1>3, <2>3
  <2>5. QED
    BY <2>1, <2>2, <2>3, <2>4
<1>10. D * rn <= n * rd /\ (~c.strict => D * rn # n * rd)
  <2>1. PICK i \in Int, j \in Int : i = D * rn /\ j = n * rd
    BY <1>3
  <2>2. i * cd <= j * cd /\ (~c.strict => i * cd # j * cd)
    BY <1>9, <2>1
  <2>3. i <= j
    BY <2>2, Grow
  <2>4. QED
    BY <2>1, <2>2, <2>3
<1>11. QED
  BY <1>1, <1>3, <1>6, <1>10

-----------------------------------------------------------------------------
(* The process.                                                            *)

(* What is compared with zero is a form whose value Eval gives.            *)
LEMMA FormsAreForms ==
    ASSUME FmAssumption, NEW l \in Forms
    PROVE  /\ Form(l) /\ DOMAIN l.t \subseteq Vars
           /\ \A x \in Points : Value(l, x, 1, Eval(l, x))
<1>1. PICK k \in Consts, f \in [Vars -> Coeffs] :
           l = [c |-> RatInt(k), t |-> [v \in {x \in Vars : f[x] # 0} |-> RatInt(f[v])], ov |-> FALSE]
  BY DEF Forms
<1>2. PICK K \in SUBSET Vars : K = {x \in Vars : f[x] # 0}
  OBVIOUS
<1>3. l = [c |-> RatInt(k), t |-> [v \in K |-> RatInt(f[v])], ov |-> FALSE]
  BY <1>1, <1>2
<1>4. l.c = RatInt(k) /\ l.t = [v \in K |-> RatInt(f[v])] /\ l.ov = FALSE
  BY <1>3
<1>5. l = [c |-> l.c, t |-> l.t, ov |-> l.ov]
  BY <1>3, <1>4
<1>6. k \in Int /\ f \in Points /\ \A v \in Vars : f[v] \in Int
  BY DEF FmAssumption, Points
<1>7. DOMAIN l.t = K /\ \A v \in K : l.t[v] = RatInt(f[v])
  BY <1>4
<1>8. /\ Rational(l.c) /\ l.c.num = k /\ l.c.den = 1
      /\ \A v \in K : Rational(l.t[v]) /\ l.t[v].num = f[v] /\ l.t[v].den = 1
  BY <1>4, <1>6, <1>7, RatIntIs
<1>9. Form(l)
  BY <1>5, <1>7, <1>8 DEF Form
<1>10. ASSUME NEW x \in Points PROVE Value(l, x, 1, Eval(l, x))
  <2> DEFINE g == [v \in DOMAIN l.t |-> l.t[v].num * x[v]]
             h == [v \in Vars |-> f[v] * x[v]]
  <2>1. \A v \in Vars : h[v] \in Int
    BY <1>6 DEF Points
  <2>2. \A v \in K : g[v] = h[v]
    BY <1>7, <1>8
  <2>3. \A v \in Vars \ K : h[v] = 0
    BY <1>2, <1>6 DEF Points
  <2>4. DOMAIN g = K
    BY <1>7
  <2>5. Eval(l, x) = k + SumFunctionOnSet(g, K)
    <3>1. SumFunction(g) = SumFunctionOnSet(g, DOMAIN g)
      BY DEF SumFunction, SumFunctionOnSet
    <3>2. QED
      BY <1>8, <2>4, <3>1 DEF Eval
  <2>6. IsFiniteSet(Vars) /\ IsFiniteSet(K) /\ IsFiniteSet(Vars \ K)
    BY FS_Subset, FS_Difference DEF FmAssumption
  <2> HIDE DEF g, h
  <2>7. SumFunctionOnSet(g, K) = SumFunctionOnSet(h, K)
    BY <2>2, <2>6, SumSame
  <2>8. SumFunctionOnSet(h, Vars) = SumFunctionOnSet(h, K) + SumFunctionOnSet(h, Vars \ K)
    BY <2>1, <2>6, SumSplit
  <2>9. SumFunctionOnSet(h, Vars \ K) = 0
    BY <2>3, <2>6, SumZero
  <2>10. SumFunctionOnSet(h, K) \in Int
    <3>1. \A v \in K : h[v] \in Int
      BY <2>1
    <3>2. QED
      BY <2>6, <3>1, SumRemove
  <2>11. Eval(l, x) = k + Dot(f, x) /\ Eval(l, x) \in Int
    <3>1. SumFunctionOnSet(h, Vars) = Dot(f, x)
      BY DEF h, Dot
    <3>2. QED
      BY <1>6, <2>5, <2>7, <2>8, <2>9, <2>10, <3>1
  <2>12. Scaled(k, 1, l.c)
    BY <1>6, <1>8 DEF Scaled
  <2>13. ASSUME NEW v \in Vars PROVE Scaled(f[v], 1, Coeff(l, v))
    <3>1. Coeff(l, v).num = f[v] /\ Coeff(l, v).den = 1
      BY <1>2, <1>7, <1>8, RatIntIs DEF Coeff, RatZero
    <3>2. QED
      BY <1>6, <3>1 DEF Scaled
  <2>14. Times(1, l, k, f)
    BY <1>6, <2>12, <2>13 DEF Times, Points
  <2>15. QED
    BY <2>11, <2>14 DEF Value
<1>11. QED
  BY <1>7, <1>9, <1>10

\* The comparisons.
Comparisons == {MkCons(l, strict, RatZero) : l \in {f \in Forms : ~IsConst(f)}, strict \in BOOLEAN}

(* Over the integers a comparison may be made tight.                       *)
LEMMA TightenIs ==
    ASSUME FmAssumption, NEW c \in Comparisons, NEW x \in Points, Satisfies(c, x)
    PROVE  Right(Tighten(c), x)
<1>1. PICK l \in Forms, strict \in BOOLEAN : c = MkCons(l, strict, RatZero)
  BY DEF Comparisons
<1>2. c = [lhs |-> l, strict |-> strict, rhs |-> RatZero]
  BY <1>1 DEF MkCons
<1>3. c.lhs = l /\ c.strict = strict /\ c.rhs = RatZero
  BY <1>2
<1>4. Rational(RatZero) /\ RatZero.num = 0 /\ RatZero.den = 1
  BY RatIntIs DEF RatZero
<1>5. Form(l)
  BY FormsAreForms
<1>6. PICK n \in Int : n = Eval(l, x) /\ Value(l, x, 1, n)
  BY FormsAreForms DEF Value
<1>7. n <= 0 /\ (strict => n < 0)
  BY <1>3, <1>4, <1>6 DEF Satisfies
<1>8. CASE Tighten(c) = c
  <2>1. Cons(c)
    BY <1>3, <1>4, <1>5 DEF Cons
  <2>2. Met(c, x)
    <3>1. n * c.rhs.den = n /\ 1 * c.rhs.num = 0
      BY <1>3, <1>4
    <3>2. c.strict => n < 0
      BY <1>3, <1>7
    <3>3. QED
      BY <1>3, <1>6, <1>7, <3>1, <3>2 DEF Met
  <2>3. QED
    BY <1>8, <2>1, <2>2 DEF Right
<1>9. CASE Tighten(c) # c
  <2>1. PICK d : d = Tighten(c)
    OBVIOUS
  <2>2. c.strict /\ d = [c EXCEPT !.strict = FALSE, !.rhs = RatSub(@, RatInt(1))]
    BY <1>9, <2>1 DEF Tighten
  <2>3. PICK m, r : m = RatNeg(RatInt(1)) /\ r = RatAdd(RatZero, m)
    OBVIOUS
  <2>4. d = [lhs |-> l, strict |-> FALSE, rhs |-> r]
    BY <1>2, <2>2, <2>3 DEF RatSub
  <2>5. d.lhs = l /\ d.strict = FALSE /\ d.rhs = r
    BY <2>4
  <2>6. Rational(m) /\ (~m.ov => m.num = 0 - 1 /\ m.den = 1)
    <3>1. Rational(RatInt(1)) /\ RatInt(1).num = 1 /\ RatInt(1).den = 1
      BY RatIntIs
    <3>2. QED
      BY <2>3, <3>1, RatNegIs
  <2>7. Rational(r) /\ (~r.ov => ~m.ov /\ Is(r, RatZero.num * m.den + m.num * RatZero.den, RatZero.den * m.den))
    BY <1>4, <2>3, <2>6, RatAddIs
  <2>8. PICK rn \in Int, rd \in Nat \ {0} : rn = r.num /\ rd = r.den
    BY <2>7 DEF Rational
  <2>9. Cons(d)
    BY <1>5, <2>5, <2>7 DEF Cons
  <2>10. ASSUME Trusted(d) PROVE Met(d, x)
    <3>1. ~r.ov
      BY <2>5, <2>10 DEF Trusted
    <3>2. rn * 1 = (0 - 1) * rd
      <4>1. rn * (1 * 1) = (0 * 1 + (0 - 1) * 1) * rd
        BY <1>4, <2>6, <2>7, <2>8, <3>1 DEF Is
      <4>2. QED
        BY <4>1
    <3>3. n <= 0 - 1
      BY <1>3, <1>7, <2>2
    <3>4. n * rd <= 1 * rn
      <4>1. n * rd <= (0 - 1) * rd
        BY <3>3
      <4>2. QED
        BY <3>2, <4>1
    <3>5. QED
      BY <1>6, <2>5, <2>8, <3>4 DEF Met
  <2>11. QED
    BY <2>1, <2>9, <2>10 DEF Right
<1>10. QED
  BY <1>8, <1>9

\* What the process keeps: every solution of the comparisons is one of the system.
FmInv ==
    /\ given \subseteq Comparisons
    /\ left \subseteq Vars
    /\ left = {} /\ answer = "" => sys = {}
    /\ \A x \in Points : Point(x) => \A c \in sys : Right(c, x)

(* Nothing is compared at first.                                           *)
LEMMA InitKeepsFmInv == FmInit => FmInv
  BY DEF FmInit, FmInv

(* Comparisons enter as they are or made tight, and elimination keeps the  *)
(* solutions.                                                              *)
LEMMA NextKeepsFmInv ==
    ASSUME FmAssumption, FmInv, [FmNext]_fmVars
    PROVE  FmInv'
<1>1. ASSUME ClPush PROVE FmInv'
  <2>1. sys = {} /\ sys' = sys /\ left' = left /\ answer' = answer
    BY <1>1 DEF ClPush, FmInv
  <2>2. PICK l \in Forms, strict \in BOOLEAN :
             ~IsConst(l) /\ given' = given \cup {MkCons(l, strict, RatZero)}
    BY <1>1 DEF ClPush
  <2>3. MkCons(l, strict, RatZero) \in Comparisons
    BY <2>2 DEF Comparisons
  <2>4. given' \subseteq Comparisons
    BY <2>2, <2>3 DEF FmInv
  <2>5. QED
    BY <2>1, <2>4 DEF FmInv
<1>2. ASSUME Begin PROVE FmInv'
  <2>1. given' = given /\ given \subseteq Comparisons /\ given # {} /\ sys = {} /\ left = {} /\ answer = ""
    BY <1>2 DEF Begin, FmInv
  <2>2. CASE \E c \in given : Untrusted(c)
    <3>1. sys' = {} /\ left' = {}
      BY <1>2, <2>1, <2>2 DEF Begin
    <3>2. QED
      BY <2>1, <3>1 DEF FmInv
  <2>3. CASE ~\E c \in given : Untrusted(c)
    <3>1. sys' = {Tighten(c) : c \in given} /\ left' = VarsOf(given)
      BY <1>2, <2>3 DEF Begin
    <3>2. ASSUME NEW c \in given PROVE DOMAIN c.lhs.t \subseteq Vars /\ DOMAIN c.lhs.t # {}
      <4>1. PICK l \in Forms, strict \in BOOLEAN : ~IsConst(l) /\ c = MkCons(l, strict, RatZero)
        <5>1. c \in Comparisons
          BY <2>1
        <5>2. QED
          BY <5>1 DEF Comparisons
      <4>2. c.lhs = l
        BY <4>1 DEF MkCons
      <4>3. DOMAIN l.t \subseteq Vars
        BY FormsAreForms
      <4>4. QED
        BY <4>1, <4>2, <4>3 DEF IsConst
    <3>3. left' \subseteq Vars /\ left' # {}
      <4>1. PICK c \in given : TRUE
        BY <2>1
      <4>2. \A v \in DOMAIN c.lhs.t : v \in left'
        BY <3>1 DEF VarsOf
      <4>3. left' \subseteq Vars
        BY <3>1, <3>2 DEF VarsOf
      <4>4. DOMAIN c.lhs.t # {}
        BY <3>2
      <4>5. QED
        BY <4>2, <4>3, <4>4
    <3>4. ASSUME NEW x \in Points, Point(x), NEW c \in sys' PROVE Right(c, x)
      <4>1. PICK d \in given : c = Tighten(d)
        BY <3>1
      <4>2. QED
        BY <2>1, <3>4, <4>1, TightenIs DEF Point
    <3>5. \A x \in Points : Point(x)' => Point(x)
      BY <2>1 DEF Point
    <3>6. QED
      BY <2>1, <3>3, <3>4, <3>5 DEF FmInv
  <2>4. QED
    BY <2>2, <2>3
<1>3. ASSUME Step PROVE FmInv'
  <2>1. PICK v \in left : sys' = Eliminate(sys, v) /\ left' = left \ {v} /\ given' = given
                          /\ (left' = {} => answer' # "")
    BY <1>3 DEF Step
  <2>2. given \subseteq Comparisons /\ left \subseteq Vars
    BY DEF FmInv
  <2>3. ASSUME NEW x \in Points, Point(x), NEW c \in sys' PROVE Right(c, x)
    <3>1. \A e \in sys : Right(e, x)
      BY <2>3 DEF FmInv
    <3>2. QED
      BY <2>1, <2>2, <3>1, EliminateIs
  <2>4. \A x \in Points : Point(x)' => Point(x)
    BY <2>1 DEF Point
  <2>5. QED
    BY <2>1, <2>2, <2>3, <2>4 DEF FmInv
<1>4. ASSUME UNCHANGED fmVars PROVE FmInv'
  <2>1. given' = given /\ sys' = sys /\ left' = left /\ answer' = answer
    BY <1>4 DEF fmVars
  <2>2. \A x \in Points : Point(x)' => Point(x)
    BY <2>1 DEF Point
  <2>3. QED
    BY <2>1, <2>2 DEF FmInv
<1>5. QED
  BY <1>1, <1>2, <1>3, <1>4 DEF FmNext

(* A solution would have to meet the contradiction.                        *)
LEMMA FmInvIsSound == ASSUME FmAssumption, FmInv PROVE FmSound
<1>1. SUFFICES ASSUME NEW c \in sys, Contradictory(c), ~Untrusted(c),
                      NEW val \in [Vars -> MinOf(IntMax) .. IntMax], Point(val)
               PROVE  FALSE
  BY DEF FmSound
<1>2. MinOf(IntMax) .. IntMax \subseteq Int
  OBVIOUS
<1>3. val \in Points
  BY <1>2 DEF Points
<1>4. Right(c, val)
  BY <1>1, <1>3 DEF FmInv
<1>5. Trusted(c)
  BY <1>1 DEF Trusted, Clean, Untrusted, Spoilt
<1>6. QED
  BY <1>1, <1>3, <1>4, <1>5, ContradictoryIs

(* FmSound, for every word size, set of variables, coefficients and        *)
(* constants: when fm_sat finds a constraint without variables that does   *)
(* not hold and that carries no overflow flag, the comparisons asserted    *)
(* have no solution.                                                       *)
THEOREM UnsatIsRight == ASSUME FmAssumption PROVE FmSpec => []FmSound
<1>1. FmInit => FmInv
  BY InitKeepsFmInv
<1>2. FmInv /\ [FmNext]_fmVars => FmInv'
  BY NextKeepsFmInv
<1>3. FmInv => FmSound
  BY FmInvIsSound
<1>4. QED
  BY <1>1, <1>2, <1>3, PTL DEF FmSpec
=============================================================================

------------------------------ MODULE BitBlast -------------------------------
(***************************************************************************)
(* When the linear core cannot decide a promise of a function, the         *)
(* function becomes a circuit: words of literals, gates as clauses.  The   *)
(* promise is proved when the circuit with the promise broken has no       *)
(* model.  Words have Width bits, as 64 in the code; a sequence starts     *)
(* with the lowest bit.                                                    *)
(***************************************************************************)
EXTENDS BvSat, TLC

CONSTANTS Width,       \* bits of a word, a power of two
          Layers,      \* its logarithm
          Params,      \* the parameters of functions, in order
          Goals        \* functions with a promise, and formulas for the solver alone

VARIABLE goal

T == 1
F == 2

\* A circuit: variables, clauses and the operands of gates by their variable.  The
\* variables 1 and 2 are constants.
EmptyCircuit == [n |-> 2, cls |-> <<<<T>>, <<-F>>>>, ops |-> <<>>]

Lit(c, l) == [c |-> c, l |-> l]
Add3(c, kind, a, b, cls) ==
    Lit([n |-> c.n + 1, cls |-> c.cls \o cls, ops |-> (c.n + 1 :> <<kind, a, b>>) @@ c.ops], c.n + 1)

\* The other operand of a gate of the kind that has b as an operand, or 0.
OpMatch(c, a, kind, b) ==
    IF a \notin DOMAIN c.ops \/ c.ops[a][1] # kind THEN 0
    ELSE IF c.ops[a][2] = b THEN c.ops[a][3] ELSE IF c.ops[a][3] = b THEN c.ops[a][2] ELSE 0

GAnd(c, a, b) ==
    CASE a = F \/ b = F -> Lit(c, F)
      [] a = T \/ a = b -> Lit(c, b)
      [] b = T -> Lit(c, a)
      [] a = -b -> Lit(c, F)
      [] OpMatch(c, a, "or", b) # 0 -> Lit(c, b)
      [] OpMatch(c, b, "or", a) # 0 -> Lit(c, a)
      [] OTHER -> LET g == c.n + 1 IN Add3(c, "and", a, b, <<<<-g, a>>, <<-g, b>>, <<g, -a, -b>>>>)

GOr(c, a, b) ==
    CASE a = T \/ b = T -> Lit(c, T)
      [] a = F \/ a = b -> Lit(c, b)
      [] b = F -> Lit(c, a)
      [] a = -b -> Lit(c, T)
      [] OpMatch(c, a, "and", b) # 0 -> Lit(c, b)
      [] OpMatch(c, b, "and", a) # 0 -> Lit(c, a)
      [] OTHER -> LET g == c.n + 1 IN Add3(c, "or", a, b, <<<<g, -a>>, <<g, -b>>, <<-g, a, b>>>>)

GXor(c, a, b) ==
    CASE a = F -> Lit(c, b)
      [] b = F -> Lit(c, a)
      [] a = T -> Lit(c, -b)
      [] b = T -> Lit(c, -a)
      [] a = b -> Lit(c, F)
      [] a = -b -> Lit(c, T)
      [] OpMatch(c, a, "xor", b) # 0 -> Lit(c, OpMatch(c, a, "xor", b))
      [] OpMatch(c, b, "xor", a) # 0 -> Lit(c, OpMatch(c, b, "xor", a))
      [] OTHER -> LET g == c.n + 1 IN
                  Add3(c, "xor", a, b, <<<<-g, -a, -b>>, <<-g, a, b>>, <<g, -a, b>>, <<g, a, -b>>>>)

GIte(c, s, a, b) ==
    CASE s = T \/ a = b -> Lit(c, a)
      [] s = F -> Lit(c, b)
      [] a = F -> GAnd(c, -s, b)
      [] b = F -> GAnd(c, s, a)
      [] a = T -> GOr(c, -s, b)
      [] b = T -> GOr(c, s, a)
      [] OTHER -> LET g == c.n + 1 IN
                  Add3(c, "ite", a, b, <<<<-s, -g, a>>, <<-s, g, -a>>, <<s, -g, b>>, <<s, g, -b>>>>)

Gate(c, kind, a, b) == CASE kind = "&" -> GAnd(c, a, b) [] kind = "|" -> GOr(c, a, b) [] kind = "^" -> GXor(c, a, b)

-----------------------------------------------------------------------------
(* Words.                                                                  *)

Word(c, w) == [w |-> w, c |-> c]
Const(k) == [i \in 1..Width |-> IF ((k % 2^Width) \div 2^(i - 1)) % 2 = 1 THEN T ELSE F]

\* Inputs are numbered from the highest bit.
Fresh(c) == Word([c EXCEPT !.n = @ + Width], [i \in 1..Width |-> c.n + 1 + Width - i])
Negated(w) == [i \in 1..Width |-> -w[i]]

\* One gate per bit, from the lowest.
AddLit(w, g) == Word(g.c, Append(w, g.l))
Bitwise(c, kind, a, b) ==
    FoldLeft(LAMBDA acc, i : AddLit(acc.w, Gate(acc.c, kind, a[i], b[i])), Word(c, <<>>), [i \in 1..Width |-> i])
Choice(c, s, a, b) ==
    FoldLeft(LAMBDA acc, i : AddLit(acc.w, GIte(acc.c, s, a[i], b[i])), Word(c, <<>>), [i \in 1..Width |-> i])

\* Gates in a row: each names its kind and the places of its operands among the
\* wires, and is itself the next wire.
Wires(c, ws, gates) ==
    FoldLeft(LAMBDA acc, g : AddLit(acc.w, Gate(acc.c, g[1], acc.w[g[2]], acc.w[g[3]])), Word(c, ws), gates)

\* An adder with carry, which is lost above the highest bit: the wires are the two
\* bits, the carry, a ^ b, the sum, a & b, (a ^ b) & carry and the new carry.
FullAdder == <<<<"^", 1, 2>>, <<"^", 4, 3>>, <<"&", 1, 2>>, <<"&", 4, 3>>, <<"|", 6, 7>>>>
AddBit(w, r) == [w |-> Append(w, r.w[5]), c |-> r.c, carry |-> r.w[8]]
WAdd(c, a, b, cin) ==
    FoldLeft(LAMBDA acc, i : AddBit(acc.w, Wires(acc.c, <<a[i], b[i], acc.carry>>, FullAdder)),
             [c |-> c, w |-> <<>>, carry |-> cin], [i \in 1..Width |-> i])
WSub(c, a, b) == WAdd(c, a, Negated(b), T)

AndNot(l, x) == GAnd(x.c, l, -x.l)
EqLit(c, a, b) ==
    FoldLeft(LAMBDA acc, i : AndNot(acc.l, GXor(acc.c, a[i], b[i])), Lit(c, T), [i \in 1..Width |-> i])

\* Signed comparison: the sign of the difference, corrected by its overflow.
LastWire(r) == Lit(r.c, Last(r.w))
SignOf(d, a, b) ==
    LastWire(Wires(d.c, <<a[Width], b[Width], d.w[Width]>>, <<<<"^", 1, 2>>, <<"^", 3, 1>>, <<"&", 4, 5>>, <<"^", 3, 6>>>>))
SltLit(c, a, b) == SignOf(WSub(c, a, b), a, b)

\* A shift by a constant only rewires; the count is masked.
ShiftConst(kind, a, n) ==
    LET k == n % Width IN
      [i \in 1..Width |-> IF kind = "<<" THEN IF i > k THEN a[i - k] ELSE F
                          ELSE IF i + k <= Width THEN a[i + k] ELSE IF kind = ">>" THEN a[Width] ELSE F]

\* A shift by a word: one layer per bit of the masked count.
ShiftVar(c, kind, a, cnt) ==
    FoldLeft(LAMBDA acc, j : Choice(acc.c, cnt[j], ShiftConst(kind, acc.w, 2^(j - 1)), acc.w),
             Word(c, a), [j \in 1..Layers |-> j])

-----------------------------------------------------------------------------
(* Expressions and statements.                                             *)

Shifts == {"<<", ">>", ">>>"}

\* Words one after the other.
AddWord(ws, w) == Word(w.c, Append(ws, w.w))
RECURSIVE EvalI64(_, _, _)
Operands(c, es, env) ==
    FoldLeft(LAMBDA acc, e : AddWord(acc.w, EvalI64(acc.c, e, env)), Word(c, <<>>), es)

Combine(op, r, a, b) ==
    CASE op \in Shifts -> ShiftVar(r.c, op, a, b)
      [] op \in {"+", "-"} -> WAdd(r.c, a, IF op = "+" THEN b ELSE Negated(b), IF op = "+" THEN F ELSE T)
      [] OTHER -> Bitwise(r.c, op, a, b)
Evaluated(e, r) ==
    IF Len(r.w) = 1 THEN Word(r.c, ShiftConst(e[1], r.w[1], e[3][2])) ELSE Combine(e[1], r, r.w[1], r.w[2])
EvalI64(c, e, env) ==
    CASE e[1] = "int" -> Word(c, Const(e[2]))
      [] e[1] = "var" -> Word(c, env[e[2]])
      [] OTHER -> Evaluated(e, Operands(c, IF e[1] \in Shifts /\ e[3][1] = "int" THEN <<e[2]>> ELSE <<e[2], e[3]>>, env))

Signed(g, neg) == Lit(g.c, IF neg THEN -g.l ELSE g.l)
Not(g) == Signed(g, TRUE)

\* The second operand of a connective is built whatever the first is.
Connect(op, a, b) == Gate(b.c, IF op = "and" THEN "&" ELSE "|", a.l, b.l)
\* a > b is b < a, and the others are negations.
Compared(op, r, a, b) ==
    Signed(IF op \in {"==", "!="} THEN EqLit(r.c, a, b)
           ELSE SltLit(r.c, IF op \in {"<", ">="} THEN a ELSE b, IF op \in {"<", ">="} THEN b ELSE a),
           op \in {"!=", "<=", ">="})
Related(op, r) == Compared(op, r, r.w[1], r.w[2])

RECURSIVE CondLit(_, _, _)
RightCond(p, env, a) == Connect(p[1], a, CondLit(a.c, p[3], env))
CondLit(c, p, env) ==
    CASE p[1] = "true" -> Lit(c, T)
      [] p[1] = "not" -> Not(CondLit(c, p[2], env))
      [] p[1] \in {"and", "or"} -> RightCond(p, env, CondLit(c, p[2], env))
      [] OTHER -> Related(p[1], Operands(c, <<p[2], p[3]>>, env))

\* The state of a body: circuit, words of the locals, the returned word and when it is
\* returned, the condition of the present path, whether a return surely happened, and
\* whether the body is outside the fragment.  The word of a path that has not returned
\* is made of the literal 0, which is its own negation.
NoWord == [i \in 1..Width |-> 0]
Body(c, env) == [c |-> c, env |-> env, ret |-> NoWord, rc |-> F, hr |-> FALSE, pc |-> T, sure |-> FALSE, failed |-> FALSE]

\* The locals of both branches, joined name by name from the first of the domain.
Binding(env, x, w) == [c |-> w.c, env |-> (x :> w.w) @@ env]
MergeEnv(c, s, a, b, names) ==
    FoldLeft(LAMBDA acc, x : Binding(acc.env, x, Choice(acc.c, s, a[x], b[x])), [c |-> c, env |-> <<>>], SetToSeq(names))

\* A later return replaces the word on its own path.
ReturnWord(st, w, on) == [st EXCEPT !.c = on.c, !.ret = w.w, !.rc = on.l, !.hr = TRUE]
ReturnOn(st, w, on1, on2) == ReturnWord(st, w, GOr(w.c, on1, on2))
Returned(st, w) ==
    IF ~st.hr THEN ReturnWord(st, w, Lit(w.c, st.pc)) ELSE ReturnOn(st, Choice(w.c, st.pc, w.w, st.ret), st.rc, st.pc)

RECURSIVE Blast(_, _)
\* Nothing may follow a return in its block.
BlastAll(st, stmts) ==
    IF \E i \in 1..(Len(stmts) - 1) : stmts[i][1] = "return" THEN [st EXCEPT !.failed = TRUE]
    ELSE FoldLeft(Blast, [st EXCEPT !.sure = FALSE], stmts)

Branch(st, on, stmts) == BlastAll([st EXCEPT !.c = on.c, !.pc = on.l], stmts)
JoinReturn(st, cond, a, b) ==
    IF a.hr \/ b.hr THEN ReturnOn(st, Choice(st.c, cond.l, a.ret, b.ret), a.rc, b.rc) ELSE st
JoinEnv(st, env) == [st EXCEPT !.c = env.c, !.env = env.env]
Join(st, cond, a, b) ==
    JoinReturn(JoinEnv([st EXCEPT !.failed = a.failed \/ b.failed, !.sure = st.sure \/ (a.sure /\ b.sure)],
                       MergeEnv(b.c, cond.l, a.env, b.env, DOMAIN st.env)),
               cond, a, b)
ElseBranch(st, s, cond, a) == Join(st, cond, a, Branch(st, GAnd(a.c, st.pc, -cond.l), s[4]))
ThenBranch(st, s, cond) == ElseBranch(st, s, cond, Branch(st, GAnd(cond.c, st.pc, cond.l), s[3]))
BlastIf(st, s) == ThenBranch(st, s, CondLit(st.c, s[2], st.env))

Assign(st, x, w) == [st EXCEPT !.c = w.c, !.env = (x :> w.w) @@ @]
Valued(st, s, w) == IF s[1] = "return" THEN [Returned(st, w) EXCEPT !.sure = TRUE] ELSE Assign(st, s[2], w)
Blast(st, s) ==
    CASE st.failed -> st
      [] s[1] \in {"let", "set", "return"} -> Valued(st, s, EvalI64(st.c, Last(s), st.env))
      [] s[1] = "if" -> BlastIf(st, s)
      [] OTHER -> [st EXCEPT !.failed = TRUE]

Asserted(g) == [g.c EXCEPT !.cls = Append(@, <<g.l>>)]

\* The circuit of a goal: parameters, what is required, the body and the broken promise.
Promise(g, st) == [ok |-> st.hr /\ st.sure /\ ~st.failed,
                   c |-> Asserted(Not(CondLit(st.c, g.ens, ("output" :> st.ret) @@ st.env)))]
Required(g, in) == Body(Asserted(CondLit(in.c, g.req, in.env)), in.env)
Circuit(g) ==
    Promise(g, BlastAll(Required(g, FoldLeft(LAMBDA acc, x : Binding(acc.env, x, Fresh(acc.c)),
                                             [c |-> EmptyCircuit, env |-> <<>>], Params)), g.body))

\* A formula goes to the solver as it is; what is outside the fragment stays undecided.
Given(r) == IF r.ok THEN Start(r.c.n, r.c.cls)
            ELSE [Start(0, <<>>) EXCEPT !.at = "done", !.answer = "undecided"]
BitsInit ==
    /\ goal \in Goals
    /\ sat = IF "cls" \in DOMAIN goal THEN Start(goal.n, goal.cls) ELSE Given(Circuit(goal))

BitsNext == SatNext /\ UNCHANGED goal

-----------------------------------------------------------------------------
(* What the function really does, on integers.                             *)

Wrap(k) == LET u == k % 2^Width IN IF u >= 2^(Width - 1) THEN u - 2^Width ELSE u
BitOf(k, i) == ((k % 2^Width) \div 2^i) % 2
RECURSIVE Sum(_, _)
Sum(f, i) == IF i < 0 THEN 0 ELSE f[i] * 2^i + Sum(f, i - 1)
FromBits(f) == Wrap(Sum(f, Width - 1))

Compute(op, a, b) ==
    CASE op = "+" -> Wrap(a + b)
      [] op = "-" -> Wrap(a - b)
      [] op = "&" -> FromBits([i \in 0..(Width - 1) |-> BitOf(a, i) * BitOf(b, i)])
      [] op = "|" -> FromBits([i \in 0..(Width - 1) |-> IF BitOf(a, i) + BitOf(b, i) > 0 THEN 1 ELSE 0])
      [] op = "^" -> FromBits([i \in 0..(Width - 1) |-> (BitOf(a, i) + BitOf(b, i)) % 2])
      [] op = "<<" -> Wrap(a * 2^(b % Width))
      [] op = ">>" -> a \div 2^(b % Width)
      [] op = ">>>" -> Wrap((a % 2^Width) \div 2^(b % Width))

RECURSIVE Value(_, _)
Value(e, env) == CASE e[1] = "int" -> Wrap(e[2]) [] e[1] = "var" -> env[e[2]]
                   [] OTHER -> Compute(e[1], Value(e[2], env), Value(e[3], env))
RECURSIVE Holds(_, _)
Holds(p, env) ==
    CASE p[1] = "true" -> TRUE
      [] p[1] = "not" -> ~Holds(p[2], env)
      [] p[1] = "and" -> Holds(p[2], env) /\ Holds(p[3], env)
      [] p[1] = "or" -> Holds(p[2], env) \/ Holds(p[3], env)
      [] OTHER -> LET a == Value(p[2], env)  b == Value(p[3], env) IN
                  CASE p[1] = "==" -> a = b [] p[1] = "!=" -> a # b [] p[1] = "<" -> a < b
                    [] p[1] = ">" -> a > b [] p[1] = "<=" -> a <= b [] p[1] = ">=" -> a >= b

\* A run: the locals and, once there is one, the returned value.
RECURSIVE RunStmt(_, _)
RunBlock(r, stmts) == FoldLeft(RunStmt, r, stmts)
RunStmt(r, s) ==
    CASE r.out # <<>> -> r
      [] s[1] \in {"let", "set"} -> [r EXCEPT !.env = (s[2] :> Value(s[3], r.env)) @@ @]
      [] s[1] = "return" -> [r EXCEPT !.out = <<Value(s[2], r.env)>>]
      [] s[1] = "if" -> RunBlock(r, IF Holds(s[2], r.env) THEN s[3] ELSE s[4])

Names == {Params[i] : i \in DOMAIN Params}
Inputs == [Names -> (-(2^(Width - 1)))..(2^(Width - 1) - 1)]
Kept(g, env) == Holds(g.req, env) =>
                   LET r == RunBlock([env |-> env, out |-> <<>>], g.body) IN
                     Holds(g.ens, ("output" :> r.out[1]) @@ r.env)

Model(a, cls) == \A i \in DOMAIN cls : \E k \in DOMAIN cls[i] :
                    LET l == cls[i][k] IN IF l > 0 THEN a[l] ELSE ~a[-l]

\* An answer of the solver that a formula has no model is true, and a promise that is
\* proved by bits is kept for every input.
BitsTrue ==
    sat.answer = "unsat" =>
      IF "cls" \in DOMAIN goal THEN \A a \in [1..goal.n -> BOOLEAN] : ~Model(a, goal.cls)
      ELSE \A env \in Inputs : Kept(goal, env)
=============================================================================

------------------------------ MODULE Verifier ------------------------------
(***************************************************************************)
(* baga --verify: the author writes a function one statement at a time,    *)
(* the verifier executes each symbolically, and when the function ends its *)
(* obligations are decided.  The verdicts are compared with what the       *)
(* function does when it runs.                                             *)
(***************************************************************************)
EXTENDS SymExec

CONSTANTS Specs,       \* specifications [req, ens, dec, vec]
          Stmts,       \* statements that may be written
          MaxBody,     \* how many of them
          Cands,       \* values that the searches for a witness try
          BigCands,    \* and those of them tried for overflows only
          Contents,    \* contents of the vector that a run may start with
          Fuel,        \* iterations and calls of a run
          Holes        \* kinds of wrong verdicts that are not set apart

VARIABLES spec, body, sym, verdict

-----------------------------------------------------------------------------
(* Searching for witnesses.                                                *)

\* The value of a form, <<>> when a variable is missing or the value overflows.
EvalLin(l, a) ==
    IF Spoilt(l) \/ ~(DOMAIN l.t \subseteq DOMAIN a) \/ ~Fits(Eval(l, a)) THEN <<>>
    ELSE <<Eval(l, a)>>
HoldsAt(c, a) ==
    LET n == EvalLin(c.lhs, a)
    IN  n # <<>> /\ IF c.strict THEN n[1] < c.rhs.num ELSE n[1] <= c.rhs.num

\* Operations among what was remembered; elements that were read are free.
Prods(o) == SelectSeq(o.reads, LAMBDA e : e.op # "get")
FactorVars(o) == UNION {DOMAIN Prods(o)[i].fa.t \union DOMAIN Prods(o)[i].fb.t : i \in DOMAIN Prods(o)}

\* prod_concrete, and what find_counterexample computes instead of it.
ProdConcrete(e, a, b) ==
    LET op == IF e.op = "mask" THEN "&" ELSE e.op
        n == IF Defined(op, a, b) THEN Apply(op, a, b) ELSE IntMax + 1
    IN  IF Fits(n) THEN <<n>> ELSE <<>>
ProdTried(e, a, b) ==
    CASE e.op = "mask" -> <<BitsOf("&", a, 1)>>
      [] e.op \in {"&", "|"} -> ProdConcrete([e EXCEPT !.op = "*"], a, b)
      [] OTHER -> ProdConcrete(e, a, b)

\* The value of an operation under an assignment, <<>> when it cannot be computed.
ValueOf(concrete(_, _, _), e, a) ==
    LET x == EvalLin(e.fa, a)
        y == EvalLin(e.fb, a)
    IN  IF x = <<>> \/ y = <<>> THEN <<>> ELSE concrete(e, x[1], y[1])

\* Operations that are not in the assignment yet, where they can be computed.
Extend(a, e, n) == IF e.var \in DOMAIN a \/ n = <<>> THEN a ELSE (e.var :> n[1]) @@ a
Derive(a, prods) == FoldLeft(LAMBDA acc, e : Extend(acc, e, ValueOf(ProdConcrete, e, acc)), a, prods)

\* The inputs, lengths and elements of an assignment, and the operations on them.
Pinned(a, o) ==
    LET free == {v \in DOMAIN a : v[1] \in {"in", "rd"}}
    IN  Derive([v \in free |-> a[v]], Prods(o) \o Prods(o))
Pins(p) == UNION {Eq0(LinShift(LinVar(v), -p[v])) : v \in DOMAIN p}
PinCons(a, o) == Pins(Pinned(a, o))

\* Whatever the results of calls and the values in loops are, the constraints fail.
Conclusive(path, a, o, cons) == ~FmSat(path \union PinCons(a, o) \union cons)

\* What is reported of an assignment.
Reported(a) == [v \in DOMAIN a \intersect {<<"in", "n">>} |-> a[v]]

\* eval_i64 and eval_bool: what cannot be evaluated is false.
RECURSIVE EvalI64(_, _)
EvalI64(e, a) ==
    CASE e[1] = "int" -> <<e[2]>>
      [] e[1] = "var" -> IF <<"in", e[2]>> \in DOMAIN a /\ e[2] # "len" THEN <<a[<<"in", e[2]>>]>> ELSE <<>>
      [] OTHER -> LET l == EvalI64(e[2], a)
                      r == EvalI64(e[3], a)
                  IN  IF l = <<>> \/ r = <<>> THEN <<>>
                      ELSE IF Defined(e[1], l[1], r[1]) THEN <<Apply(e[1], l[1], r[1])>> ELSE <<>>

Compare(op, l, r) == CASE op = "<" -> l < r [] op = "<=" -> l <= r [] op = ">" -> l > r
                       [] op = ">=" -> l >= r [] op = "==" -> l = r [] op = "!=" -> l # r

RECURSIVE EvalBool(_, _)
EvalBool(p, a) ==
    CASE p[1] = "true" -> TRUE
      [] p[1] = "not" -> ~EvalBool(p[2], a)
      [] p[1] = "and" -> EvalBool(p[2], a) /\ EvalBool(p[3], a)
      [] p[1] = "or" -> EvalBool(p[2], a) \/ EvalBool(p[3], a)
      [] p[1] = "elem" -> FALSE
      [] OTHER -> LET l == EvalI64(p[2], a)
                      r == EvalI64(p[3], a)
                  IN  l # <<>> /\ r # <<>> /\ Compare(p[1], l[1], r[1])

\* find_counterexample: operations get the value they have for the others, and an
\* assignment for which one has none is skipped.
Settled(acc, e, n) ==
    IF ~acc.ok \/ n = <<>> THEN [acc EXCEPT !.ok = FALSE]
    ELSE [acc EXCEPT !.a = [v \in DOMAIN @ |-> IF v = e.var THEN n[1] ELSE @[v]]]
WithProds(a, prods) ==
    FoldLeft(LAMBDA acc, e : Settled(acc, e, ValueOf(ProdTried, e, acc.a)), [ok |-> TRUE, a |-> a], prods)

Counterexamples(ante, ef, nef, ens, o) ==
    LET vars == VarsOf(ante) \union VarsOf(UNION nef) \union FactorVars(o)
        tried == {WithProds(a, Prods(o)) : a \in [vars -> Cands]}
        violates(a) == LET out == EvalLin(o.ret.lin, a)
                       IN  out # <<>> /\ ~EvalBool(ens, (<<"in", "output">> :> out[1]) @@ a)
        shown(a) == /\ \A c \in ante : HoldsAt(c, a)
                    /\ violates(a)
                    /\ \A b \in ef : Conclusive(ante, a, o, b)
    IN  {Reported(t.a) : t \in {u \in tried : u.ok /\ shown(u.a)}}

\* find_callreq_witness and find_bound_witness
CallWitnesses(o) ==
    {Reported(a) : a \in {b \in [VarsOf(o.path) \union VarsOf(o.bound) -> Cands] :
                             /\ \A c \in o.path : HoldsAt(c, b)
                             /\ \E c \in o.bound : EvalLin(c.lhs, b) # <<>> /\ ~HoldsAt(c, b)
                             /\ Conclusive(o.path, b, o, o.bound)}}

BoundWitnesses(o) ==
    LET len == o.len.lin
        vars == VarsOf(o.path) \union DOMAIN len.t
        abstract == \E v \in DOMAIN o.ret.lin.t : v[1] \in {"op", "call"}
        outside(a) ==
            LET i == EvalLin(o.ret.lin, a)
                n == EvalLin(len, a)
            IN  /\ i # <<>>
                /\ \/ i[1] < 0
                   \/ /\ IsConst(len) \/ DOMAIN len.t \intersect VarsOf(o.path) # {}
                      /\ n # <<>> /\ i[1] >= n[1]
    IN  {Reported(a) : a \in {b \in [vars -> Cands] :
                                /\ \A c \in o.path : HoldsAt(c, b)
                                /\ outside(b)
                                /\ abstract => Conclusive(o.path, b, o, o.bound)}}

\* find_arith_witness
GoesWrong(o, p) ==
    LET x == Eval(o.aux[2], p)
        y == Eval(o.aux[3], p)
    IN  /\ \A l \in {o.aux[2], o.aux[3]} : ~Spoilt(l) /\ DOMAIN l.t \subseteq DOMAIN p
        /\ CASE o.aux[1] = "fit" -> ~Fits(x)
             [] o.aux[1] = "mul" -> ~Fits(x * y)
             [] OTHER -> y = 0 \/ (y = -1 /\ x = MinOf(IntMax))
ArithWitnesses(o) ==
    LET vars == VarsOf(o.path) \union DOMAIN o.aux[2].t \union DOMAIN o.aux[3].t \union FactorVars(o)
    IN  {Reported(a) : a \in {b \in [vars -> Cands \union BigCands] :
                                /\ \A c \in o.path : HoldsAt(c, b)
                                /\ GoesWrong(o, Pinned(b, o))
                                /\ FmSat(o.path \union PinCons(b, o))}}

-----------------------------------------------------------------------------
(* Deciding obligations.  A verdict has the witnesses that refute it.      *)

Proven == [res |-> "proven", wit |-> {}]
Unknown == [res |-> "unknown", wit |-> {}]
RefutedBy(wit) == IF wit = {} THEN Unknown ELSE [res |-> "refuted", wit |-> wit]

VerifyCallReq(o) == CASE o.bad -> Unknown
                      [] ImpliedBy(o.path, o.bound) -> Proven
                      [] OTHER -> RefutedBy(CallWitnesses(o))

VerifyBound(o) == CASE o.bad -> Unknown
                    [] o.bound # {} /\ ImpliedBy(o.path, o.bound) -> Proven
                    [] OTHER -> RefutedBy(BoundWitnesses(o))

\* fm_maxabs: the least K up to the cap with -K <= form <= K on the path, one more for none.
Cap(max) == (max + 1) \div 2
Feasible(path, l) == l.c.ov \/ FmSat(path \union {Le0(l)})
FitsIn(path, l, k) == \A m \in {LinNeg(l), l} : ~Feasible(path, LinShift(m, k + 1))

RECURSIVE Narrow(_, _, _, _)
Narrow(path, l, lo, hi) ==
    LET mid == lo + (hi - lo) \div 2
    IN  IF lo >= hi THEN lo
        ELSE IF FitsIn(path, l, mid) THEN Narrow(path, l, lo, mid) ELSE Narrow(path, l, mid + 1, hi)
MaxAbs(path, l) == IF FitsIn(path, l, Cap(IntMax)) THEN Narrow(path, l, 0, Cap(IntMax)) ELSE Cap(IntMax) + 1

VerifyArith(o) ==
    LET l == o.aux[2]
        r == o.aux[3]
        least == {MkCons(l, FALSE, RatInt(MinOf(IntMax))), MkCons(LinShift(LinNeg(l), -1), FALSE, RatInt(IntMax))}
        safe == CASE o.aux[1] = "fit" -> FitsIn(o.path, l, Cap(IntMax))
                  [] o.aux[1] = "mul" -> MaxAbs(o.path, l) * MaxAbs(o.path, r) <= IntMax
                  [] OTHER -> \A wrong \in {Eq0(r), least \union {Le0(LinShift(r, 1)), Le0(LinShift(LinNeg(r), -1))}} :
                                ~FmSat(o.path \union wrong)
    IN  CASE o.bad -> Unknown
          [] o.aux[1] = "fit" /\ l.ov -> [res |-> "refuted", wit |-> {<<>>}]
          [] safe -> Proven
          [] OTHER -> RefutedBy(ArithWitnesses(o))

\* verify_ensures, for one obligation.
EnsVerdict(s, o, ante, ef, nef) ==
    CASE ~ef.ok \/ ~nef.ok -> Unknown
      [] \A b \in nef.f : ~FmSat(ante \union b) -> Proven
      [] OTHER -> RefutedBy(Counterexamples(ante, ef.f, nef.f, s.ens, o))
ReturnVerdict(s, o, env2, req) ==
    IF o.ret.nl \/ ~req.ok \/ Cardinality(req.f) # 1 THEN Unknown
    ELSE EnsVerdict(s, o, UNION req.f \union o.path \union o.rc,
                    PlainDnf(s.ens, env2, FALSE), PlainDnf(s.ens, env2, TRUE))
VerifyReturn(s, o) ==
    LET env2 == [output |-> [nl |-> FALSE, lin |-> o.ret.lin], len |-> o.len]
    IN  CASE o.bad -> Unknown
          [] o.kind # "ens" -> Proven
          [] OTHER -> ReturnVerdict(s, o, env2, PlainDnf(s.req, env2, FALSE))

\* The worst of several verdicts.
Worst(S) == CASE \E v \in S : v.res = "refuted" -> RefutedBy(UNION {v.wit : v \in S})
              [] \E v \in S : v.res = "unknown" -> Unknown
              [] OTHER -> Proven

\* push_term_entry_obl
Entry(d, o) == IF d.nl \/ d.reads # <<>> THEN [o EXCEPT !.bad = TRUE]
               ELSE [o EXCEPT !.bound = {Le0(LinNeg(d.lin))}]
EntryObl(s, st) ==
    IF s.dec = <<>> THEN {}
    ELSE {Entry(SeFromAst(s.dec, st.env, <<>>), Obl("call", st, Zero, {}, <<"dec">>))}

\* verify_fn
Verdicts(s, obl) ==
    LET of(kind) == {o \in obl : o.kind = kind}
        dec == {o \in of("call") : o.aux = <<"dec">>}
    IN  [ens |-> Worst({VerifyReturn(s, o) : o \in obl}),
         call |-> Worst({VerifyCallReq(o) : o \in of("call")}),
         bound |-> Worst({VerifyBound(o) : o \in of("bound")}),
         arith |-> Worst({VerifyArith(o) : o \in of("arith")}),
         ends |-> dec # {} /\ \A o \in dec : ~o.bad /\ ImpliedBy(o.path, o.bound)]
-----------------------------------------------------------------------------
(* Running a function.                                                     *)

\* A run is [env, v, fuel, flags, end, out]: variables, the vector, what is left of the
\* fuel, what went wrong, and how it ended: "" while it runs, then "ret", "trap" or "fuel".
\* Values are mathematical integers, and leaving the range of i64 is one of the flags.
Stop(r, end, flag) == [r EXCEPT !.end = end, !.flags = @ \union flag]

\* The flags of computing an expression, and its value.
Computed(op, a, b) ==
    LET was == a.flags \union b.flags
        n == Apply(op, a.n, b.n)
    IN  IF "zero" \in was THEN [n |-> 0, flags |-> was]
        ELSE IF ~Defined(op, a.n, b.n) THEN [n |-> 0, flags |-> was \union {"ovf", "zero"}]
        ELSE [n |-> n, flags |-> was \union IF Fits(n) THEN {} ELSE {"ovf"}]

RECURSIVE Compute(_, _)
Compute(e, r) ==
    CASE e[1] = "int" -> [n |-> e[2], flags |-> {}]
      [] e[1] = "var" -> [n |-> IF e[2] = "len" THEN Len(r.v) ELSE r.env[e[2]], flags |-> {}]
      [] OTHER -> Computed(e[1], Compute(e[2], r), Compute(e[3], r))

\* The second of two conditions is tested if the first leaves the answer open.
Joined(op, x, y) ==
    LET both == x.flags \union IF x.is = (op = "and") THEN y.flags ELSE {}
    IN  [is |-> IF op = "and" THEN x.is /\ y.is ELSE x.is \/ y.is, flags |-> both]
Tested(op, a, b) == [is |-> Compare(op, a.n, b.n), flags |-> a.flags \union b.flags]

RECURSIVE Test(_, _)
Test(p, r) ==
    CASE p[1] = "true" -> [is |-> TRUE, flags |-> {}]
      [] p[1] = "elem" -> [is |-> \A i \in DOMAIN r.v : Compare(p[2], r.v[i], p[3]), flags |-> {}]
      [] p[1] = "not" -> [Test(p[2], r) EXCEPT !.is = ~@]
      [] p[1] \in {"and", "or"} -> Joined(p[1], Test(p[2], r), Test(p[3], r))
      [] OTHER -> Tested(p[1], Compute(p[2], r), Compute(p[3], r))

Noted(r, flags) == [r EXCEPT !.flags = @ \union flags, !.end = IF "zero" \in flags THEN "trap" ELSE @]

Started(n, v, fuel) == [env |-> [x \in {"n"} |-> n], v |-> v, fuel |-> fuel, flags |-> {},
                        end |-> "", out |-> 0]
Measure(n) == IF spec.dec = <<>> THEN 0 ELSE Compute(spec.dec, Started(n, <<>>, 0)).n
Declares(stmts) == {stmts[i][2] : i \in {j \in DOMAIN stmts : stmts[j][1] \in {"let", "get", "call"}}}

RECURSIVE Run(_, _)
Scoped(last, r, stmts) ==
    [last EXCEPT !.env = [x \in DOMAIN r.env |-> IF x \in Declares(stmts) THEN r.env[x] ELSE @[x]]]
RunBlock(stmts, r) ==
    Scoped(FoldLeft(LAMBDA acc, s : IF acc.end # "" THEN acc ELSE Run(s, acc), r, stmts), r, stmts)

RECURSIVE Iterate(_, _, _)
Again(p, A, once) == IF once.end # "" THEN once ELSE Iterate(p, A, once)
Turn(p, A, r, t) ==
    CASE "zero" \in t.flags \/ ~t.is -> Noted(r, t.flags)
      [] r.fuel = 0 -> Stop(r, "fuel", {"loop"})
      [] OTHER -> Again(p, A, RunBlock(A, [Noted(r, t.flags \union {"loop"}) EXCEPT !.fuel = @ - 1]))
Iterate(p, A, r) == Turn(p, A, r, Test(p, r))

CallFlags(a, was) ==
    LET m == Measure(a.n)
        late == spec.dec # <<>> /\ ~(m >= 0 /\ m < Measure(was))
    IN  a.flags \union (IF late THEN {"dec"} ELSE {})
          \union IF Test(spec.req, Started(a.n, <<>>, 0)).is THEN {} ELSE {"req"}
Back(x, r, flags, callee) ==
    IF callee.end # "ret" THEN Stop(r, callee.end, flags \union callee.flags)
    ELSE [Noted(r, flags \union callee.flags) EXCEPT !.env = (x :> callee.out) @@ @]
Inside(x, r, a, flags) ==
    CASE "zero" \in a.flags -> Noted(r, a.flags)
      [] r.fuel = 0 -> Stop(r, "fuel", flags)
      [] OTHER -> Back(x, r, flags, RunBlock(body, Started(a.n, <<>>, r.fuel - 1)))
RunCall(x, r, a) == Inside(x, r, a, CallFlags(a, r.env["n"]))

\* e is the value of the first expression and p that of the condition, where there is one.
RunWith(s, r, e, p) ==
    LET now == Noted(r, e.flags)
        inside == e.n + 1 \in DOMAIN r.v
    IN  CASE s[1] \in {"get", "retget"} /\ now.end = "" /\ ~inside -> Stop(now, "trap", {"oob"})
          [] s[1] = "put" /\ now.end = "" /\ ~inside -> Stop(now, "trap", {})
          [] now.end # "" -> now
          [] s[1] \in {"let", "set"} -> [now EXCEPT !.env = (s[2] :> e.n) @@ @]
          [] s[1] = "get" -> [now EXCEPT !.env = (s[2] :> r.v[e.n + 1]) @@ @]
          [] s[1] = "push" -> [now EXCEPT !.v = Append(@, e.n)]
          [] s[1] = "put" -> LET w == Compute(s[3], r)
                             IN  [Noted(now, w.flags) EXCEPT !.v[e.n + 1] = w.n]
          [] s[1] = "return" -> [now EXCEPT !.end = "ret", !.out = e.n]
          [] s[1] = "retget" -> [now EXCEPT !.end = "ret", !.out = r.v[e.n + 1]]
          [] s[1] = "assume" -> IF p.is THEN r ELSE Stop(r, "assumed", {})
          [] s[1] = "if" -> LET t == Noted(r, p.flags)
                            IN  IF t.end # "" THEN t ELSE RunBlock(IF p.is THEN s[3] ELSE s[4], t)
          [] s[1] = "while" -> Iterate(s[2], s[4], r)
          [] s[1] = "call" -> RunCall(s[2], r, e)
Run(s, r) == RunWith(s, r, IF s[1] \in {"if", "while", "assume"} THEN [n |-> 0, flags |-> {}]
                           ELSE Compute(Operands(s)[1], r),
                     IF s[1] \in {"if", "assume"} THEN Test(s[2], r) ELSE [is |-> TRUE, flags |-> {}])

-----------------------------------------------------------------------------
(* Writing and verifying.                                                  *)

Inputs == [n |-> [nl |-> FALSE, lin |-> LinVar(<<"in", "n">>)],
           len |-> [nl |-> FALSE, lin |-> LinVar(<<"in", "len">>)]]
Path0(s, req) ==
    [env |-> Inputs, path |-> Only(req), reads |-> req.reads, ax |-> ElemAxioms(s.req),
     rc |-> {}, bad |-> FALSE, fresh |-> 1]
EntryOf(s, st) == Result(<<st>>, EntryObl(s, st), TRUE)
NoVerdict == [res |-> "none"]

VerInit == /\ spec \in Specs
           /\ body = <<>>
           /\ sym = EntryOf(spec, Path0(spec, Dnf(spec.req, Inputs, <<>>, FALSE)))
           /\ verdict = NoVerdict

\* The names that a statement uses.
RECURSIVE Names(_)
Names(e) == CASE e[1] = "var" -> {e[2]}
              [] e[1] \in {"int", "true", "elem"} -> {}
              [] e[1] = "not" -> Names(e[2])
              [] OTHER -> Names(e[2]) \union Names(e[3])
RECURSIVE Uses(_)
Uses(s) == CASE s[1] \in {"let", "get", "call"} -> Names(s[3])
             [] s[1] = "set" -> {s[2]} \union Names(s[3])
             [] s[1] \in {"return", "retget", "push", "assume"} -> Names(s[2])
             [] s[1] = "put" -> Names(s[2]) \union Names(s[3])
             [] s[1] = "if" -> Names(s[2]) \union UNION {Uses(t[i]) : <<t, i>> \in UNION {{u} \X DOMAIN u : u \in {s[3], s[4]}}}
             [] s[1] = "while" -> Names(s[2]) \union UNION {Uses(s[4][i]) : i \in DOMAIN s[4]}

Kind(s) == CASE s[1] \in {"get", "retget", "push", "put"} -> "vec" [] s[1] = "call" -> "call" [] OTHER -> "any"

\* Operations on an element that was read leave no obligation.
Opaque == {body[i][2] : i \in {j \in DOMAIN body : body[j][1] = "get"}}
PassedOver(s) == Uses(s) \intersect Opaque # {} /\ ~(s[1] = "return" /\ s[2][1] = "var")

\* What the checker accepts, and what the verifier does not skip the function for.
Ended == body # <<>> /\ body[Len(body)][1] \in {"return", "retget"}
MayWrite(s) ==
    /\ ~Ended /\ Len(body) < MaxBody
    /\ Uses(s) \ {"len"} \subseteq {"n"} \union Declares(body)
    /\ s[1] \in {"let", "get", "call"} => s[2] \notin {"n"} \union Declares(body)
    /\ Kind(s) = "vec" \/ "len" \in Uses(s) => spec.vec
    /\ Kind(s) = "call" => ~spec.vec
    /\ "opaque" \in Holes \/ ~PassedOver(s)

Step(s) == /\ MayWrite(s)
           /\ body' = Append(body, s)
           /\ sym' = Also(sym, ExecAll(s, sym.sts, spec))
           /\ UNCHANGED <<spec, verdict>>

Write == \E s \in Stmts : Step(s)

\* The function ends with a return, and its obligations are decided.
Decide == /\ verdict = NoVerdict /\ Ended
          /\ verdict' = Verdicts(spec, sym.obl)
          /\ UNCHANGED <<spec, body, sym>>

VerNext == Write \/ Decide

-----------------------------------------------------------------------------
(* Properties.                                                             *)

\* The runs of the function that meet its requires.
Runs ==
    {r \in {[run |-> RunBlock(body, Started(n, v, Fuel)), n |-> n, v |-> v] :
             n \in Cands \union BigCands, v \in IF spec.vec THEN Contents ELSE {<<>>}} :
       Test(spec.req, Started(r.n, r.v, 0)).is}

Writes == \E i \in DOMAIN body : body[i][1] \in {"push", "put"}
Good(r) == Test(spec.ens, [env |-> [n |-> r.n, output |-> r.run.out], v |-> r.run.v]).is

Genuine(wit, runs, bad(_)) ==
    \A w \in wit : \E r \in runs : (w # <<>> => w[<<"in", "n">>] = r.n) /\ bad(r)

\* What the verdict says, against the runs that count (runs) and against all of them, from
\* which witnesses may come.
TrueOf(all, runs) ==
    LET flagged(r, F) == r.run.flags \intersect F # {}
        wrongEnd(r) == r.run.end \in {"trap", "fuel", "assumed"} \/ "loop" \in r.run.flags
        badEns(r) == wrongEnd(r) \/ ~Good(r)
        badCall(r) == wrongEnd(r) \/ flagged(r, {"req", "dec"})
        badBound(r) == wrongEnd(r)
        badArith(r) == wrongEnd(r) \/ flagged(r, {"ovf"})
    IN  /\ verdict.ens.res = "proven" => \A r \in runs : r.run.end = "ret" => Good(r)
        /\ verdict.call.res = "proven" => \A r \in runs : ~flagged(r, {"req", "dec"})
        /\ verdict.bound.res = "proven" => \A r \in runs : ~flagged(r, {"oob"})
        /\ verdict.arith.res = "proven" => \A r \in runs : ~flagged(r, {"ovf"})
        /\ verdict.ends => \A r \in runs : Measure(r.n) < Fuel => r.run.end # "fuel"
        /\ "written" \in Holes \/ ~Writes => Genuine(verdict.ens.wit, all, badEns)
        /\ Genuine(verdict.call.wit, all, badCall)
        /\ Genuine(verdict.bound.wit, all, badBound)
        /\ Genuine(verdict.arith.wit, all, badArith)

\* The runs that enter no loop, unless Holes names loops.
Plainly(all) == IF "loops" \in Holes THEN all ELSE {r \in all : "loop" \notin r.run.flags}

\* Every verdict is true of the runs of the function.  "Proven" is never said of an
\* ensures that a run violates, of a call whose requires fails, of an index out of range,
\* of arithmetic that overflows, or of a recursion that does not end; and every witness
\* of "refuted" is the input of a run that goes wrong.  Unless Holes names them, runs
\* that enter a loop are set apart, and so is the refuted ensures of a function that
\* writes to its vector, since elements are taken for arbitrary when they are read.
VerdictTrue ==
    verdict # NoVerdict => LET of(all) == TrueOf(all, Plainly(all)) IN of(Runs)
=============================================================================

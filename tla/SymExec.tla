------------------------------ MODULE SymExec -------------------------------
(***************************************************************************)
(* How the verifier executes a function symbolically: a statement takes    *)
(* each path to the paths that may follow it, and every return and every   *)
(* operation that may go wrong leaves an obligation.                       *)
(*                                                                         *)
(* Statements are <<"let", x, e>>, <<"set", x, e>>, <<"if", p, A, B>>,     *)
(* <<"while", p, invariant, A>>, <<"assume", p>>, <<"call", x, e>> (a call *)
(* of the function itself), <<"get", x, i>>, <<"push", e>>,                *)
(* <<"put", i, e>>, <<"return", e>> and <<"retget", i>>, over one input n  *)
(* and perhaps one vector whose length is len.  Predicates are             *)
(* <<"true">>, <<"not", p>>, <<"and", p, q>>, <<"or", p, q>>,              *)
(* <<cmp, e, f>> and <<"elem", cmp, k>>, which compares every element of   *)
(* the vector with k.                                                      *)
(***************************************************************************)
EXTENDS SymExpr, TLC, SequencesExt

-----------------------------------------------------------------------------
(* Predicates: bool_to_dnf.                                                *)

NoDnf(reads) == [ok |-> FALSE, f |-> {}, reads |-> reads]

\* Expressions read one after another, behind an entry for what was remembered before.
ReadAll(es, env, reads) ==
    FoldLeft(LAMBDA acc, e : Append(acc, SeFromAst(e, env, Last(acc).reads)), <<Nonlin(reads)>>, es)

Comparison(l, r, c) ==
    IF l.nl \/ r.nl \/ c = <<>> THEN NoDnf(r.reads)
    ELSE [ok |-> TRUE, f |-> {{c[1]}}, reads |-> r.reads]
CmpToFormula(op, l, r, neg) == Comparison(l, r, AtomToCons(l.lin, op, r.lin, neg))
DnfCmp(op, rs, neg) == CmpToFormula(op, rs[2], rs[3], neg)

RECURSIVE Dnf(_, _, _, _)
Dnf(p, env, reads, neg) ==
    LET both(q, r, ng, disj) ==
            LET a == Dnf(q, env, reads, ng)
                b == Dnf(r, env, a.reads, ng)
            IN  IF ~a.ok \/ ~b.ok THEN NoDnf(b.reads)
                ELSE [ok |-> TRUE, reads |-> b.reads,
                      f |-> IF disj THEN a.f \union b.f ELSE DnfAnd(a.f, b.f)]
        with(op) == <<op, p[2], p[3]>>
    IN  CASE p[1] = "true" -> [ok |-> TRUE, f |-> IF neg THEN DnfFalse ELSE DnfTrue, reads |-> reads]
          [] p[1] = "elem" -> [ok |-> TRUE, f |-> DnfTrue, reads |-> reads]
          [] p[1] = "not" -> Dnf(p[2], env, reads, ~neg)
          [] p[1] \in {"<", "<=", ">", ">="} -> DnfCmp(p[1], ReadAll(<<p[2], p[3]>>, env, reads), neg)
          [] p[1] = "==" -> IF neg THEN both(with("<"), with(">"), FALSE, TRUE)
                                   ELSE both(with("<="), with(">="), FALSE, FALSE)
          [] p[1] \in {"and", "or"} -> both(p[2], p[3], neg, (p[1] = "or") # neg)
          [] OTHER -> NoDnf(reads)

\* The same where no operation may be remembered (reads = NULL).
Plain(d) == IF d.reads = <<>> THEN d ELSE NoDnf(<<>>)
PlainDnf(p, env, neg) == Plain(Dnf(p, env, <<>>, neg))

-----------------------------------------------------------------------------
(* Paths and obligations.                                                  *)

\* env binds names to [nl, lin]; ax are the known facts <<cmp, form>> about all elements,
\* rc the facts about elements that were read.
Bind(st, x, s) == [st EXCEPT !.env = (x :> [nl |-> s.nl, lin |-> s.lin]) @@ @,
                             !.reads = s.reads]
Assume(st, cons) == [st EXCEPT !.path = @ \union cons]
Fresh(st, kind) == <<kind, st.fresh>>
LenOf(st) == st.env["len"].lin

Obl(kind, st, ret, bound, aux) ==
    [kind |-> kind, path |-> st.path, rc |-> {}, ret |-> ret, bound |-> bound, aux |-> aux,
     reads |-> st.reads, len |-> st.env["len"], bad |-> st.bad]

Zero == Sym(LinInt(0), <<>>)
Result(sts, obl, ok) == [sts |-> sts, obl |-> obl, ok |-> ok]

\* The arithmetic obligation of one operation: its result res fits the word, or its factors
\* do, or the divisor is not zero.
OblOf(op, l, r, st, res) ==
    CASE op \in {"/", "%"} -> {Obl("arith", st, Zero, {}, <<"div", l, r>>)}
      [] op = "*" /\ ~IsConst(l) /\ ~IsConst(r) -> {Obl("arith", st, Zero, {}, <<"mul", l, r>>)}
      [] op = "<<" /\ (~Whole(r) \/ ~Defined(op, 0, r.c.num)) -> {}
      [] ~res.ov /\ IsConst(res) -> {}
      [] OTHER -> {Obl("arith", st, Zero, {}, <<"fit", res, LinInt(0)>>)}
ArithObl(op, l, r, st) ==
    OblOf(op, l, r, st, CASE op = "+" -> LinAdd(l, r)
                          [] op = "-" -> LinSub(l, r)
                          [] IsConst(l) -> LinScale(r, l.c)
                          [] OTHER -> LinScale(l, IF op = "<<" THEN RatInt(2^r.c.num) ELSE r.c))

\* What a second reading leaves is added to what a first one left.
Also(was, r) == Result(r.sts, was.obl \union r.obl, TRUE)
Scanned(op, st, obl, l, r) ==
    LET read == [st EXCEPT !.reads = r.reads]
    IN  Result(<<read>>, obl \union IF l.nl \/ r.nl THEN {} ELSE ArithObl(op, l.lin, r.lin, read), TRUE)
ScanOp(op, st, obl, rs) == Scanned(op, st, obl, rs[2], rs[3])

\* scan_arith_expr: every operation of an expression; reading it again remembers its
\* operations again.
RECURSIVE ScanArith(_, _)
ScanArith(e, st) ==
    IF e[1] \in {"int", "var"} THEN Result(<<st>>, {}, TRUE)
    ELSE LET a == ScanArith(e[2], st)
             b == Also(a, ScanArith(e[3], a.sts[1]))
         IN  IF e[1] \notin {"+", "-", "*", "/", "%", "<<"} THEN b
             ELSE ScanOp(e[1], st, b.obl, ReadAll(<<e[2], e[3]>>, st.env, b.sts[1].reads))

ScanAll(es, st) ==
    FoldLeft(LAMBDA acc, e : Also(acc, ScanArith(e, acc.sts[1])), Result(<<st>>, {}, TRUE), es)

\* The operations in both sides of the comparisons of a condition.
RECURSIVE ScanCond(_, _)
ScanCond(p, st) ==
    CASE p[1] \in {"true", "elem"} -> Result(<<st>>, {}, TRUE)
      [] p[1] = "not" -> ScanCond(p[2], st)
      [] p[1] \in {"and", "or"} -> LET a == ScanCond(p[2], st) IN Also(a, ScanCond(p[3], a.sts[1]))
      [] OTHER -> ScanAll(<<p[2], p[3]>>, st)

-----------------------------------------------------------------------------
(* Vectors.                                                                *)

\* What a fact about all elements says of one of them: a form against zero.
ElemForm(ax, l) == LET above == ax[1] \in {">", ">="}
                   IN  LinSub(IF above THEN ax[2] ELSE l, IF above THEN l ELSE ax[2])

\* The constraint that axiom_instantiate puts on an element that was read.
Instantiate(ax, read) == MkCons(ElemForm(ax, LinVar(read)), ax[1] \in {"<", ">="}, RatZero)

\* The value satisfies what is known of all elements.
HoldsForValue(ax, val, path) ==
    ~val.nl /\ ImpliedBy(path, {MkCons(ElemForm(ax, val.lin), ax[1] \in {"<", ">"}, RatZero)})

ElemAxioms(p) == IF p[1] = "elem" THEN {<<p[2], LinInt(p[3])>>} ELSE {}

\* What a predicate adds to a path when it is one set of constraints.
Only(d) == IF d.ok /\ Cardinality(d.f) = 1 THEN UNION d.f ELSE {}

\* vec_get: a variable for the element, and the obligation that the index is in range.
InRange(idx, len) == IF idx.nl THEN {} ELSE {Le0(idx.lin), Lt0(LinSub(idx.lin, len))}
ElemRead(idx, rv, after, req) ==
    [st |-> after, res |-> Sym(LinVar(rv), after.reads),
     obl |-> {[Obl("bound", Assume(after, Only(Dnf(req, after.env, after.reads, FALSE))),
                   idx, InRange(idx, LenOf(after)), <<>>) EXCEPT !.bad = idx.nl]}]
ReadElem(idx, st, req) ==
    LET rv == <<"rd", Len(idx.reads) + 1>>
        entry == [var |-> rv, op |-> "get", fa |-> LinInt(0), fb |-> LinInt(0),
                  deg |-> 0, base |-> LinInt(0)]
    IN  ElemRead(idx, rv, [st EXCEPT !.reads = Append(idx.reads, entry),
                                     !.rc = @ \union {Instantiate(a, rv) : a \in st.ax}], req)

\* Mutant: what is known of all elements is kept whatever is written.
KeepAxiomsAlways(e, st) == st

\* vec_push and vec_set keep what is known of all elements if it holds of the new one.
KeepFor(val, st) ==
    IF st.ax = {} THEN st
    ELSE [st EXCEPT !.reads = val.reads,
                    !.ax = {a \in @ : HoldsForValue(a, val, st.path)}]
KeepAxioms(e, st) == KeepFor(SeFromAst(e, st.env, st.reads), st)

-----------------------------------------------------------------------------
(* A call of the function itself: eval_user_call.                          *)

\* The measure at the call is at least zero and less than before it.
Descent(cur, new, st, rv) ==
    LET bad == cur.nl \/ new.nl \/ new.reads # <<>>
    IN  [Obl("call", [st EXCEPT !.reads = cur.reads], rv, {}, <<"dec">>) EXCEPT
           !.bad = bad,
           !.bound = IF bad THEN {} ELSE {Le0(LinNeg(new.lin)), Lt0(LinSub(new.lin, cur.lin))}]
DescentObl(dec, st, env2, rv) ==
    Descent(SeFromAst(dec, st.env, st.reads), SeFromAst(dec, env2, <<>>), st, rv)

\* A path on which a predicate was read and holds.
Given(st, d) == Assume([st EXCEPT !.reads = d.reads], Only(d))

\* The path with what is true of the remembered operations.
Known(st, reads) == [st EXCEPT !.reads = reads, !.path = InjectProdAxioms(@, reads)]

\* Once the requires of the callee was read: its ensures is assumed where the requires is met.
AfterRequires(st, rv, env2, req, spec) ==
    LET known == req.ok /\ Cardinality(req.f) = 1
        after == [st EXCEPT !.reads = req.reads]
    IN  [st |-> IF known /\ ImpliedBy(st.path, UNION req.f)
                THEN Given(after, Dnf(spec.ens, env2, after.reads, FALSE)) ELSE after,
         res |-> rv,
         obl |-> {[Obl("call", after, rv, IF known THEN UNION req.f ELSE {}, <<"req">>)
                     EXCEPT !.bad = ~known]}
                   \union IF spec.dec = <<>> THEN {} ELSE {DescentObl(spec.dec, after, env2, rv)}]

CallOn(st, rv, env2, spec) == AfterRequires(st, rv, env2, Dnf(spec.req, env2, st.reads, FALSE), spec)

EvalUserCall(arg, st, cur, spec) ==
    LET rv == Sym(LinVar(Fresh(st, "call")), arg.reads)
    IN  IF arg.nl THEN [st |-> [st EXCEPT !.reads = arg.reads, !.fresh = @ + 1, !.bad = TRUE],
                        res |-> rv, obl |-> {}]
        ELSE CallOn([cur EXCEPT !.fresh = @ + 1], rv,
                    [n |-> [nl |-> FALSE, lin |-> arg.lin], output |-> [nl |-> FALSE, lin |-> rv.lin]], spec)

-----------------------------------------------------------------------------
(* Statements.                                                             *)

\* One path for every set of constraints of a formula.
Fork(st, f) == [i \in 1..Cardinality(f) |-> Assume(st, SetToSeq(f)[i])]

\* drain_returns
ReturnObl(val, cur) == {[Obl("ens", cur, val, {}, <<>>) EXCEPT !.rc = cur.rc]}

\* The names that the statements of a loop assign or declare, each bound to a fresh value.
RECURSIVE Assigned(_)
Assigned(stmts) ==
    UNION {CASE stmts[i][1] \in {"let", "set", "get", "call"} -> {stmts[i][2]}
             [] stmts[i][1] = "if" -> Assigned(stmts[i][3]) \union Assigned(stmts[i][4])
             [] stmts[i][1] = "while" -> Assigned(stmts[i][4])
             [] OTHER -> {} : i \in DOMAIN stmts}

Havoc(st, names) ==
    LET order == SetToSeq(names)
        at(x) == CHOOSE i \in DOMAIN order : order[i] = x
    IN  [st EXCEPT !.env = [x \in names |-> [nl |-> FALSE,
                                             lin |-> LinVar(<<"hv", st.fresh + at(x)>>)]] @@ @,
                   !.fresh = @ + Len(order)]

\* The check at the entry of a loop and after its body.  The negations of all constraints
\* of one disjunct are put together, and disjuncts are checked one by one.
Preserved(d, path) == d.ok /\ \A b \in d.f : ~FmSat(path \union {NegCons(c) : c \in b})
InvariantProved(inv, st) == inv[1] = "elem" \/ Preserved(Dnf(inv, st.env, st.reads, FALSE), st.path)

\* Assuming the invariant: the constraints of all its disjuncts.
AssumeAll(d, st) == IF ~d.ok THEN [st EXCEPT !.bad = TRUE] ELSE Assume([st EXCEPT !.reads = d.reads], UNION d.f)
AssumeInvariant(inv, st) == AssumeAll(Dnf(inv, st.env, st.reads, FALSE), st)

RECURSIVE Exec(_, _, _, _)
OnPath(acc, r) == Result(acc.sts \o r.sts, acc.obl \union r.obl, r.ok)
ExecAll(s, sts, spec) ==
    FoldLeft(LAMBDA acc, st : OnPath(acc, Exec(s, st, spec, acc.ok)), Result(<<>>, {}, TRUE), sts)

Block(stmts, sts, spec) ==
    FoldLeft(LAMBDA acc, s : Also(acc, ExecAll(s, acc.sts, spec)), Result(sts, {}, TRUE), stmts)

\* c and n are the condition and its negation, cur the path that knows both.
ExecIf(s, st, spec, scan, c, n, cur) ==
    LET yes == Block(s[3], Fork(cur, c.f), spec)
        no == Block(s[4], Fork(cur, n.f), spec)
    IN  IF ~c.ok \/ ~n.ok
        THEN Result(<<[st EXCEPT !.reads = n.reads, !.bad = TRUE]>>, scan.obl, TRUE)
        ELSE Result(yes.sts \o no.sts, scan.obl \union yes.obl \union no.obl, TRUE)

\* The paths after a loop, whose invariant is known if it is trusted.
Leave(t, names, inv, trusted) ==
    LET h == Havoc(t, names)
    IN  [IF trusted THEN AssumeInvariant(inv, h) ELSE [h EXCEPT !.bad = TRUE] EXCEPT
           !.ax = @ \union ElemAxioms(inv)]
LeaveAll(done, n, s, obl, trusted) ==
    Result(IF ~n.ok THEN <<[done EXCEPT !.bad = TRUE, !.ax = @ \union ElemAxioms(s[3])]>>
           ELSE [i \in 1..Cardinality(n.f) |-> Leave(Fork(done, n.f)[i], Assigned(s[4]), s[3], trusted)],
           obl, trusted)

\* The body was executed once from the invariant, if the loop is entered at all.
AfterBody(s, done, n, obl, enter, once) ==
    LeaveAll(done, n, s, obl \union once.obl,
             /\ enter
             /\ \A i \in DOMAIN once.sts : ~once.sts[i].bad /\ InvariantProved(s[3], once.sts[i]))

LoopHead(s, st) == AssumeInvariant(s[3], Havoc(st, Assigned(s[4])))
LoopOn(s, spec, scan, c, n, cur, enter) ==
    AfterBody(s, [cur EXCEPT !.reads = n.reads], n, scan.obl, enter,
              IF ~enter THEN Result(<<>>, {}, TRUE)
              ELSE Block(s[4], [i \in 1..Cardinality(c.f) |-> LoopHead(s, Fork(cur, c.f)[i])], spec))

\* The condition is read before the assigned variables are given fresh values.  ok is
\* FALSE once the invariant could not be proved on an earlier path.
ExecWhile(s, spec, ok, scan, c, n, cur) ==
    LoopOn(s, spec, scan, c, n, cur, ok /\ c.ok /\ InvariantProved(s[3], scan.sts[1]))

\* The condition of an if or a while was scanned; it is read, and its negation is.
BothWays(p, env, reads) ==
    FoldLeft(LAMBDA acc, neg : Append(acc, Dnf(p, env, Last(acc).reads, neg)), <<NoDnf(reads)>>, <<FALSE, TRUE>>)
ExecCur(s, st, spec, ok, scan, c, n, cur) ==
    IF s[1] = "if" THEN ExecIf(s, st, spec, scan, c, n, cur) ELSE ExecWhile(s, spec, ok, scan, c, n, cur)
ExecWays(s, st, spec, ok, scan, ways) ==
    ExecCur(s, st, spec, ok, scan, ways[2], ways[3], Known(st, ways[IF s[1] = "if" THEN 3 ELSE 2].reads))
ExecCond(s, st, spec, ok, scan) == ExecWays(s, st, spec, ok, scan, BothWays(s[2], st.env, scan.sts[1].reads))

ExecAssume(p, st, d) ==
    CASE p[1] = "elem" -> [st EXCEPT !.ax = @ \union ElemAxioms(p)]
      [] d.ok /\ Cardinality(d.f) = 1 -> Assume([st EXCEPT !.reads = d.reads], UNION d.f)
      [] OTHER -> [st EXCEPT !.reads = d.reads, !.bad = TRUE]

\* The expressions of a statement.
Operands(s) == CASE s[1] \in {"let", "set", "call", "get"} -> <<s[3]>>
                 [] s[1] \in {"return", "retget", "push"} -> <<s[2]>>
                 [] s[1] = "put" -> <<s[2], s[3]>>

Called(s, r, obl, ok) ==
    Result(<<Bind(r.st, s[2], [r.res EXCEPT !.reads = r.st.reads])>>, obl \union r.obl, ok)

\* Statements that use the value r.res of their expression, which was read on the path
\* r.st; cur is that path with what is true of the operations.
ExecValue(s, spec, ok, obl, r, cur) ==
    CASE s[1] \in {"let", "set"} -> Result(<<Bind(r.st, s[2], r.res)>>, obl, ok)
      [] s[1] = "get" -> Result(<<Bind(r.st, s[2], Nonlin(r.st.reads))>>, obl \union r.obl, ok)
      [] s[1] = "call" -> Called(s, EvalUserCall(r.res, r.st, cur, spec), obl, ok)
      [] OTHER -> Result(<<>>, obl \union r.obl \union ReturnObl(r.res, cur), ok)
ExecOn(s, spec, ok, obl, r) == ExecValue(s, spec, ok, obl, r, Known(r.st, r.res.reads))
ExecRead(s, st, spec, ok, obl, val) ==
    ExecOn(s, spec, ok, obl, IF s[1] \in {"get", "retget"} THEN ReadElem(val, st, spec.req)
                             ELSE [st |-> st, res |-> val, obl |-> {}])

\* Statements without a condition, once their operations were scanned.  A push makes the
\* vector longer before its value is read.
ExecScanned(s, st, spec, ok, obl) ==
    IF s[1] \in {"push", "put"}
    THEN Result(<<KeepAxioms(Last(s), IF s[1] = "put" THEN st
                                      ELSE Bind(st, "len", Sym(LinShift(LenOf(st), 1), st.reads)))>>, obl, ok)
    ELSE ExecRead(s, st, spec, ok, obl, SeFromAst(Operands(s)[1], st.env, st.reads))
ExecPlain(s, spec, ok, scan) == ExecScanned(s, scan.sts[1], spec, ok, scan.obl)

\* symexec_stmts, one statement on one path.
Exec(s, st, spec, ok) ==
    CASE s[1] = "assume" -> Result(<<ExecAssume(s[2], st, Dnf(s[2], st.env, st.reads, FALSE))>>, {}, ok)
      [] s[1] \in {"if", "while"} -> ExecCond(s, st, spec, ok, ScanCond(s[2], st))
      [] OTHER -> ExecPlain(s, spec, ok, ScanAll(Operands(s), st))
=============================================================================

----------------------------- MODULE SymAxioms ------------------------------
(***************************************************************************)
(* An author writes an expression under assumptions about its inputs, and  *)
(* what the verifier believes of the expression is compared with what the  *)
(* program computes.                                                       *)
(***************************************************************************)
EXTENDS SymExpr

CONSTANTS Leaves,      \* the expressions of which larger ones are built
          Ops,         \* the operators they are built with
          OuterOps,    \* those of them that may stand above another operator
          Givens,      \* sets of comparisons <<x, cmp, k>> assumed of the inputs
          Inputs,      \* the names of the inputs
          Values,      \* the values of inputs that are tried
          MaxDepth     \* how deep expressions are

VARIABLES expr, given

-----------------------------------------------------------------------------
(* Writing an expression.                                                  *)

RECURSIVE Depth(_)
Depth(e) == IF e \in Leaves THEN 0
            ELSE 1 + LET a == Depth(e[2]) b == Depth(e[3]) IN IF a < b THEN b ELSE a

SymInit == expr \in Leaves /\ given \in Givens

\* The expression becomes an operand of another operator.
Enclose == \E l \in Leaves, op \in Ops :
             /\ Depth(expr) < MaxDepth
             /\ Depth(expr) > 0 => op \in OuterOps
             /\ expr' \in {<<op, expr, l>>, <<op, l, expr>>}
             /\ UNCHANGED given

\* Both operands are the expression, as in n * n * (n * n).
Double == /\ Depth(expr) \in 1..(MaxDepth - 1)
          /\ expr' = <<"*", expr, expr>>
          /\ UNCHANGED given

\* The quotient and the remainder by one divisor, put together again.
Recompose == \E l \in Leaves :
               /\ Depth(expr) = 0
               /\ expr' = <<"+", <<"*", <<"/", expr, l>>, l>>, <<"%", expr, l>> >>
               /\ UNCHANGED given

SymNext == Enclose \/ Double \/ Recompose

-----------------------------------------------------------------------------
(* What it means.                                                          *)

\* The value of an expression as <<n>>, or <<>> when an operation in it is undefined or
\* leaves the range of i64.
RECURSIVE Concrete(_, _)
Concrete(e, val) ==
    CASE e[1] = "int" -> <<e[2]>>
      [] e[1] = "var" -> <<val[e[2]]>>
      [] OTHER -> LET a == Concrete(e[2], val)
                      b == Concrete(e[3], val)
                  IN  IF a = <<>> \/ b = <<>> THEN <<>>
                      ELSE IF ~Defined(e[1], a[1], b[1]) THEN <<>>
                      ELSE LET n == Apply(e[1], a[1], b[1]) IN IF Fits(n) THEN <<n>> ELSE <<>>

\* Inputs, and the operations remembered up to the i-th, as values of symbolic variables.
RECURSIVE Derived(_, _, _)
Derived(val, reads, i) ==
    IF i = 0 THEN [v \in {<<"in", x>> : x \in Inputs} |-> val[v[2]]]
    ELSE LET below == Derived(val, reads, i - 1)
             e == reads[i]
             op == IF e.op = "mask" THEN "&" ELSE e.op
         IN  [v \in DOMAIN below \union {e.var} |->
                IF v = e.var THEN Apply(op, Eval(e.fa, below), Eval(e.fb, below)) ELSE below[v]]

GivenPath == {AtomToCons(LinVar(<<"in", g[1]>>), g[2], LinInt(g[3]), FALSE)[1] : g \in given}
Holds(g, val) == IF g[2] = "<=" THEN val[g[1]] <= g[3] ELSE val[g[1]] >= g[3]

\* The form and the facts are true of the values of the expression.
Believed(sym, facts) ==
    \A val \in [Inputs -> Values] :
      LET n == Concrete(expr, val)
          all == Derived(val, sym.reads, Len(sym.reads))
      IN  (n # <<>> /\ \A g \in given : Holds(g, val)) =>
            /\ ~sym.nl => Eval(sym.lin, all) = n[1]
            /\ \A c \in facts : Untrusted(c) \/ Satisfies(c, all)

\* What the verifier believes of an expression is true of every run: the form it is read
\* as has the value the program computes, and every fact added to the path holds of the
\* operations that are replaced by variables - for operands of either sign, quotients
\* that round towards zero, shifts that round down, masks and powers.
SymbolicTrue ==
    LET about(sym) == Believed(sym, InjectProdAxioms(GivenPath, sym.reads))
    IN  about(SeFromAst(expr, <<>>, <<>>))
=============================================================================

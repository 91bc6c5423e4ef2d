----------------------------- MODULE Ownership -----------------------------
(***************************************************************************)
(* Who owns what in the code that the C backend emits under --rc: the      *)
(* last-use analysis (rc_lu, rc_is_move), the elision of borrowed pairs     *)
(* (rc_be), the scopes of tracked locals and the retain and release that   *)
(* every kind of statement emits.                                          *)
(*                                                                         *)
(* A behaviour writes the body of a function with one parameter, statement *)
(* by statement; compiles it; and runs what was emitted, with every choice *)
(* at a branch.  Types are str, vec (Vec<str>), rec (struct S { f:         *)
(* Vec<str> }) and opt (enum with a str payload); a rec and an opt are     *)
(* values that hold one reference, so at run time a variable of any type   *)
(* is the number of a counted block.                                       *)
(***************************************************************************)
EXTENDS Integers, SequencesExt, FiniteSetsExt

CONSTANTS Order,      \* for each type, the names a let may bind, in order
          MaxStmts,   \* longest body
          MaxTurns,   \* longest loop
          Holes       \* which of the unsound shapes below a body may contain

VARIABLES prog, code, pc, rt

Param == "p"
Bound == "m"          \* what a match arm binds to the payload; tracked nowhere
Names(t) == Range(Order[t])
TypeOf(x) == IF x = Param THEN "rec" ELSE IF x = Bound THEN "str" ELSE CHOOSE t \in DOMAIN Order : x \in Names(t)

-----------------------------------------------------------------------------
(* Statements and expressions.  The kinds of expression are id (a name),   *)
(* get (vec_get(c, 0) or vec_get(c.f, 0)), fld (c.f), new (a call that     *)
(* returns a fresh value), tget and tfld (vec_get(mk(), 0) and mk().f, of  *)
(* a fresh value that has no name), lit (S { f: e }), some (Some(e)) and   *)
(* ife (if as an expression); xs are the names that are mentioned.         *)

E(kind, xs) == [k |-> kind, xs |-> xs, in |-> "id"]
Wrap(kind, e) == [k |-> kind, xs |-> e.xs, in |-> e.k]
New == E("new", << >>)
NoE == E("none", << >>)

S(op, x, e) == [op |-> op, x |-> x, e |-> e]

IsId(e, x) == e.k = "id" /\ e.xs[1] = x

\* rc_tmp_collect: whether the value is read out of a fresh one, which the
\* statement has to release.
OfTemp(kind) == kind \in {"tget", "tfld"}

\* rc_borrowed_init.
Borrowed(kind) == kind \in {"get", "fld"} \/ OfTemp(kind)

Opens == {"if", "loop", "match"}

\* The names a statement uses, in the order of the text: the target of a plain
\* assignment is written, not used.
Uses(s) == IF s.op \in {"let", "asg"} THEN s.e.xs
           ELSE IF s.x = "" THEN s.e.xs ELSE <<s.x>> \o s.e.xs

Depth(b, i) == Cardinality({j \in 1..i : b[j].op \in Opens})
                 - Cardinality({j \in 1..i : b[j].op = "end"})

\* The statements that open the blocks around statement i.
Around(b, i) == {j \in 1..(i - 1) : b[j].op \in Opens
                    /\ \A m \in (j + 1)..(i - 1) : Depth(b, m) >= Depth(b, j)}

CloserOf(b, i) == Min({j \in (i + 1)..Len(b) : b[j].op = "end" /\ Depth(b, j) = Depth(b, i) - 1})

-----------------------------------------------------------------------------
(* Last uses.                                                              *)

LoopOf(b, i) == Max({0} \union {j \in Around(b, i) : b[j].op = "loop"})

\* rc_lu_use, rc_lu_expr, rc_lu_stmt: what the walk over the body records for
\* a name.  A site is a statement and the place among its uses.
RcUse(b, x) ==
    LET sites == {<<i, j>> \in (1..Len(b)) \X (1..3) :
                     j <= Len(Uses(b[i])) /\ Uses(b[i])[j] = x}
        site  == CHOOSE s \in sites : \A u \in sites : u[1] < s[1] \/ (u[1] = s[1] /\ u[2] <= s[2])
        lets  == {i \in 1..Len(b) : b[i].op = "let" /\ b[i].x = x}
        Blocks(i) == {b[j].op : j \in Around(b, i)}
    IN  [site         |-> site,
         site_loop    |-> LoopOf(b, site[1]),
         site_in_cond |-> b[site[1]].e.k = "ife" \/ Blocks(site[1]) \intersect {"if", "match"} # {},
         in_match     |-> \E s \in sites : "match" \in Blocks(s[1]),
         n_lets       |-> Cardinality(lets),
         decl_loop    |-> IF lets = {} THEN 0 ELSE LoopOf(b, Min(lets))]

\* rc_is_move, of a local that is tracked and not a parameter.
LastUse(u, at) ==
    /\ u.site = at /\ u.n_lets = 1 /\ ~u.in_match
    /\ u.site_loop = u.decl_loop
    /\ ~(u.site_loop # 0 /\ u.site_in_cond)
RcIsMove(b, x, at) == LastUse(RcUse(b, x), at)

-----------------------------------------------------------------------------
(* Borrowed pairs.                                                         *)

\* rc_be_expr: what spoils the elision inside an expression.
SpoilsE(e, x, src) ==
    \/ e.k = "lit" /\ e.in = "id" /\ e.xs[1] \in {x, src}
    \/ e.k = "some" /\ e.in \in {"id", "fld"} /\ e.xs[1] = src

\* rc_be_call: x let out, or src changed, by a call.
SpoilsCall(s, x, src) ==
    \/ s.op \in {"push", "set"} /\ (s.x \in {x, src} \/ (s.e.k = "id" /\ s.e.xs[1] \in {x, src}))
    \/ s.op = "drop" /\ s.x \in {x, src}
    \/ s.op = "call" /\ s.x = src

\* rc_be_stmt.
Spoils(s, x, src) ==
    \/ s.op = "let" /\ s.e.k = "id" /\ s.e.xs[1] \in {x, src}
    \/ s.op = "asg" /\ (s.x \in {x, src} \/ (s.e.k = "id" /\ s.e.xs[1] \in {x, src}))
    \/ s.op = "fasg" /\ (s.x = src \/ (s.e.k = "id" /\ s.e.xs[1] \in {x, src}))
    \/ SpoilsCall(s, x, src)
    \/ s.op = "ret" /\ IsId(s.e, x)
    \/ SpoilsE(s.e, x, src)

\* The statements after i up to the end of its block.
Rest(b, i) == LET ends == {j \in (i + 1)..Len(b) : Depth(b, j) < Depth(b, i)
                                                  \/ (b[j].op = "else" /\ Depth(b, j) = Depth(b, i))}
              IN  (i + 1)..(IF ends = {} THEN Len(b) ELSE Min(ends) - 1)

\* Mutant: the tail of the block is not looked at.
RcBeOkNoTail(b, i, x, src) ==
    /\ x # src
    /\ \A j \in 1..Len(b) : ~Spoils(b[j], "", src)

\* rc_be_ok: nothing in the function renames or stores src, nothing in the
\* rest of the block lets x out or changes src.
RcBeOk(b, i, x, src) ==
    /\ x # src
    /\ \A j \in 1..Len(b) : ~Spoils(b[j], "", src)
    /\ \A j \in Rest(b, i) : ~Spoils(b[j], x, src)

-----------------------------------------------------------------------------
(* Emission.  The compiler keeps the tracked locals (rc_locals), each with *)
(* a dead flag that stays set for the rest of the text, and the scopes     *)
(* (rc_scopes).  What a statement emits is a sequence of operations on     *)
(* C variables; "t" is the temporary of a statement.                       *)

Op(o, d, s) == [o |-> o, d |-> d, s |-> s]
RetainOf(x) == Op("retain", x, << >>)
ReleaseOf(x) == Op("release", x, << >>)
Copy(d, s) == Op("copy", d, <<s>>)

\* rc_find.
Find(cs, x) == LET is == {i \in DOMAIN cs.locals : cs.locals[i].x = x}
               IN  IF is = {} THEN 0 ELSE Max(is)
Tracked(cs, x) == Find(cs, x) # 0
Alive(cs, x) == Tracked(cs, x) /\ ~cs.locals[Find(cs, x)].dead
IsParam(cs, x) == cs.locals[Find(cs, x)].param
Owned(cs, x) == Alive(cs, x) /\ ~IsParam(cs, x)

Moves(cs, x, at) == Owned(cs, x) /\ RcIsMove(cs.body, x, at)

\* rc_do_move: the source is dead from here on.
Kill(cs, x) == IF Tracked(cs, x) THEN [cs EXCEPT !.locals[Find(cs, x)].dead = TRUE] ELSE cs

\* rc_register_node.
Register(cs, x) == [cs EXCEPT !.locals = Append(@, [x |-> x, param |-> FALSE, dead |-> FALSE])]

Emit(cs, ops) == [cs EXCEPT !.out[cs.at] = @ \o ops]

\* rc_emit_release for the tracked locals from top on, last first, but one.
ReleasesFrom(cs, top, but) ==
    LET live == SelectSeq([i \in 1..(Len(cs.locals) - top) |-> cs.locals[top + i]],
                          LAMBDA e : ~e.param /\ ~e.dead /\ e.x # but)
    IN  [i \in DOMAIN live |-> ReleaseOf(live[Len(live) + 1 - i].x)]

\* Mutant: only the innermost scope is released.
ReleaseInnermost(cs, but) == Emit(cs, ReleasesFrom(cs, Last(cs.scopes).top, but))

\* rc_push_scope, rc_pop_scope, rc_release_all.
PushScope(cs, loop) == [cs EXCEPT !.scopes = Append(@, [top |-> Len(cs.locals), loop |-> loop])]
PopScope(cs) == LET top == Last(cs.scopes).top
                IN  [Emit(cs, ReleasesFrom(cs, top, "")) EXCEPT
                        !.scopes = Front(@), !.locals = SubSeq(@, 1, top)]
ReleaseAll(cs, but) == Emit(cs, ReleasesFrom(cs, 0, but))

\* rc_release_to_loop.
ReleaseToLoop(cs) ==
    LET in == Max({i \in DOMAIN cs.scopes : cs.scopes[i].loop})
    IN  Emit(cs, ReleasesFrom(cs, cs.scopes[in].top, ""))

\* A tracked name is copied: a move, or a retain of the copy.
Share(cs, x, at) == IF ~Alive(cs, x) THEN cs
                    ELSE IF Moves(cs, x, at) THEN Kill(cs, x)
                    ELSE Emit(cs, <<RetainOf("t")>>)

\* The literal and the constructor own what they are built of: a borrowed part
\* is retained, and so is a name that is tracked nowhere; a tracked one is
\* retained or moved, a fresh one is owned already.  First the payload of a
\* constructor.
EmbedPayload(cs, e, at) ==
    IF e.in = "id" /\ Tracked(cs, e.xs[1]) THEN Share(cs, e.xs[1], at)
    ELSE IF e.in = "id" \/ Borrowed(e.in) THEN Emit(cs, <<RetainOf("t")>>) ELSE cs

\* The field of a literal: the retains first, the moves after the literal.
Embed(cs, e, moved) ==
    IF moved THEN Kill(cs, e.xs[1])
    ELSE IF Borrowed(e.in) \/ (e.in = "id" /\ (~Tracked(cs, e.xs[1]) \/ Alive(cs, e.xs[1])))
         THEN Emit(cs, <<RetainOf("t")>>) ELSE cs
EmbedField(cs, e, at) == Embed(cs, e, e.in = "id" /\ Moves(cs, e.xs[1], at))

\* The value of an if as an expression: that of the branch, as it is.
Pick(e) == <<Op("pick", "t", e.xs)>>

\* emit_expr of e into the temporary; rc_tmp_begin declares what it is read
\* out of before the statement, as "u".
Loaded(kind, e) ==
    CASE kind = "new"  -> <<Op("new", "t", << >>)>>
      [] kind = "get"  -> <<Op("get", "t", e.xs)>>
      [] kind = "ife"  -> Pick(e)
      [] kind = "tget" -> <<Op("newv", "u", << >>), Op("get", "t", <<"u">>)>>
      [] kind = "tfld" -> <<Op("new", "u", << >>), Copy("t", "u")>>
      [] OTHER         -> <<Op("copy", "t", e.xs)>>
Own(cs, e, at) == CASE e.k = "lit"  -> EmbedField(cs, e, at)
                    [] e.k = "some" -> EmbedPayload(cs, e, at)
                    [] OTHER        -> cs
Load(cs, e, at) == Own(Emit(cs, Loaded(IF e.k \in {"lit", "some"} THEN e.in ELSE e.k, e)), e, at)

\* rc_tmp_release_all, after the statement or before its return.  An assignment
\* in a match arm collects no temporaries.
ReleaseTemps(cs, i, s) ==
    IF OfTemp(s.e.k) /\ ~(s.op \in {"asg", "fasg"} /\ \E j \in Around(cs.body, i) : cs.body[j].op = "match")
    THEN Emit(cs, <<ReleaseOf("u")>>) ELSE cs

\* emit_stmt, NODE_LET, once the variable has its value.
LetOwned(cs, i, s) ==
    CASE s.e.k = "id"      -> Register(Share(cs, s.e.xs[1], <<i, 1>>), s.x)
      [] Borrowed(s.e.k)   -> IF ~OfTemp(s.e.k) /\ RcBeOk(cs.body, i, s.x, s.e.xs[1]) THEN cs
                              ELSE Register(Emit(cs, <<RetainOf(s.x)>>), s.x)
      [] OTHER             -> Register(cs, s.x)
EmitLet(cs, i, s) == LetOwned(Emit(Load(cs, s.e, <<i, 1>>), <<Copy(s.x, "t")>>), i, s)

\* What a target held is released, if the target was an owner.
Overwrite(cs, x, owned) == Emit(cs, (IF owned THEN <<ReleaseOf(x)>> ELSE << >>) \o <<Copy(x, "t")>>)

\* emit_expr, NODE_ASSIGN to a name.  A target that is not an owner is not
\* released: a parameter, a dead local, a name that was never tracked.
AssignOwned(cs, s, at, alive, owned) ==
    CASE s.e.k = "id" /\ ~IsId(s.e, s.x) -> Share(cs, s.e.xs[1], at)
      [] IsId(s.e, s.x) /\ alive         -> Emit(cs, <<RetainOf("t")>>)
      [] Borrowed(s.e.k) /\ owned        -> Emit(cs, <<RetainOf("t")>>)
      [] OTHER -> cs
EmitAssign(cs, i, s) ==
    Overwrite(AssignOwned(Load(cs, s.e, <<i, 1>>), s, <<i, 1>>, Alive(cs, s.x), Owned(cs, s.x)),
              s.x, Owned(cs, s.x))

\* rc_field_assign_tag: what a field held is released in a tracked local only.
FieldReleased(cs, x) == Owned(cs, x)

\* NODE_ASSIGN to a field.
FieldOwned(cs, s, at, released) ==
    CASE s.e.k = "id" -> Share(cs, s.e.xs[1], at)
      [] Borrowed(s.e.k) /\ released -> Emit(cs, <<RetainOf("t")>>)
      [] OTHER -> cs
EmitFieldAssign(cs, i, s) ==
    Overwrite(FieldOwned(Load(cs, s.e, <<i, 2>>), s, <<i, 2>>, FieldReleased(cs, s.x)),
              s.x, FieldReleased(cs, s.x))

\* vec_push and vec_set: the _move variant for a last use and for a temporary,
\* else the helper retains.
StoreOwned(cs, s, moved) ==
    IF moved THEN Kill(cs, s.e.xs[1])
    ELSE IF s.e.k = "new" THEN cs ELSE Emit(cs, <<RetainOf("t")>>)
EmitStore(cs, i, s) ==
    Emit(StoreOwned(Load(cs, s.e, <<i, 2>>), s, s.e.k = "id" /\ Moves(cs, s.e.xs[1], <<i, 2>>)),
         <<Op(s.op, s.x, <<"t">>)>>)

\* emit_return_val: a local that is returned is not released, what is not owned
\* is retained.
ReturnOwned(cs, i, s, x, owned, tracked) ==
    CASE owned -> ReleaseAll(cs, x)
      [] tracked \/ s.e.k \in {"new", "lit", "some"} -> ReleaseAll(cs, "")
      [] OTHER -> ReleaseAll(ReleaseTemps(Emit(cs, <<RetainOf("t")>>), i, s), "")
EmitReturn(cs, i, s) ==
    IF s.e.k = "none" THEN Emit(ReleaseAll(cs, ""), <<Op("halt", "t", << >>)>>)
    ELSE Emit(ReturnOwned(Load(cs, s.e, <<i, 1>>), i, s, s.e.xs[1],
                          s.e.k = "id" /\ Owned(cs, s.e.xs[1]),
                          s.e.k = "id" /\ Tracked(cs, s.e.xs[1]) /\ ~Alive(cs, s.e.xs[1])),
              <<Op("ret", "t", << >>)>>)

\* drop(x): a release, and the name is dead from here on.
EmitDrop(cs, x) == Kill(Emit(cs, <<ReleaseOf(x)>>), x)

\* NODE_MATCH.  A fresh value that is matched is kept as "w" until the arms are
\* done.
EmitMatch(cs, x) == Emit(cs, IF x = "" THEN <<Op("new", "w", << >>), Copy(Bound, "w")>>
                             ELSE <<Copy(Bound, x)>>)
EmitMatchEnd(cs, x) == IF x = "" THEN Emit(cs, <<ReleaseOf("w")>>) ELSE cs

\* emit_stmt, emit_block_scoped.
EmitStmt(cs, i, s) ==
    CASE s.op = "let"  -> ReleaseTemps(EmitLet(cs, i, s), i, s)
      [] s.op = "asg"  -> ReleaseTemps(EmitAssign(cs, i, s), i, s)
      [] s.op = "fasg" -> ReleaseTemps(EmitFieldAssign(cs, i, s), i, s)
      [] s.op \in {"push", "set"} -> ReleaseTemps(EmitStore(cs, i, s), i, s)
      [] s.op = "drop" -> EmitDrop(cs, s.x)
      [] s.op = "call" -> Emit(cs, <<Op("new", "t", << >>), Op("set", s.x, <<"t">>)>>)
      [] s.op = "if"   -> PushScope(cs, FALSE)
      [] s.op = "loop" -> PushScope(cs, TRUE)
      [] s.op = "match" -> EmitMatch(cs, s.x)
      [] s.op = "else" -> PushScope(PopScope(cs), FALSE)
      [] s.op = "end"  -> LET o == cs.body[Max(Around(cs.body, i))]
                          IN  IF o.op = "match" THEN EmitMatchEnd(cs, o.x) ELSE PopScope(cs)
      [] s.op \in {"break", "continue"} -> ReleaseToLoop(cs)
      [] s.op = "ret"  -> EmitReturn(cs, i, s)

\* emit_fn: the parameter is tracked and never released.
Dead(cs) == {l.x : l \in {e \in Range(cs.locals) : e.dead}}
Emitted(cs, dead) == [cs |-> cs, dead |-> Append(dead, Dead(cs))]
Closed(done, n) == [ops |-> PopScope([done.cs EXCEPT !.at = n]).out, dead |-> done.dead]
Compile(b) ==
    Closed(FoldLeft(LAMBDA acc, i : Emitted(EmitStmt([acc.cs EXCEPT !.at = i], i, b[i]), acc.dead),
                    [cs |-> [body |-> b, at |-> 1, out |-> [i \in 1..(Len(b) + 1) |-> << >>],
                             locals |-> <<[x |-> Param, param |-> TRUE, dead |-> FALSE]>>,
                             scopes |-> <<[top |-> 0, loop |-> FALSE]>>],
                     dead |-> <<{}>>],
                    [i \in 1..Len(b) |-> i]),
           Len(b) + 1)

-----------------------------------------------------------------------------
(* Running.  A block has a count and, if it is a vector, elements; blocks  *)
(* are numbered as they are allocated and a number is not used again, so a *)
(* reference to a freed block is seen to be one.  Block 1 is the string    *)
(* that the caller's vector, block 2, holds.                               *)

Fresh == [rc |-> 1, es |-> << >>]
VecOf(o) == [rc |-> 1, es |-> <<o>>]
Start == [heap |-> <<Fresh, VecOf(1)>>,
          env |-> [x \in {Param} |-> 2], err |-> FALSE, end |-> "no", turns |-> 0]

Freed(h, o) == h[o].rc = 0
Fault(m) == [m EXCEPT !.err = TRUE]

\* baga_rc_retain and baga_rc_release_*: the elements go with their vector.
Retain(m, o) == IF Freed(m.heap, o) THEN Fault(m) ELSE [m EXCEPT !.heap[o].rc = @ + 1]
ReleaseStr(m, o) == IF Freed(m.heap, o) THEN Fault(m) ELSE [m EXCEPT !.heap[o].rc = @ - 1]
Release(m, o) ==
    LET n == ReleaseStr(m, o)
    IN  IF n.err \/ n.heap[o].rc > 0 THEN n ELSE FoldLeft(ReleaseStr, n, n.heap[o].es)

Bind(m, d, o) == [m EXCEPT !.env = [x \in DOMAIN m.env \union {d} |-> IF x = d THEN o ELSE m.env[x]]]

\* vec_get and vec_set stop the program on an empty vector.
AtFirst(m, c, then) == IF Freed(m.heap, m.env[c]) THEN Fault(m)
                       ELSE IF m.heap[m.env[c]].es = << >> THEN [m EXCEPT !.end = "exit"]
                       ELSE then

\* The outcomes of one operation.
Do(m, op) ==
    CASE op.o = "new"     -> {Bind([m EXCEPT !.heap = Append(@, Fresh)], op.d, Len(m.heap) + 1)}
      [] op.o = "newv"    -> {Bind([m EXCEPT !.heap = @ \o <<Fresh, VecOf(Len(m.heap) + 1)>>], op.d, Len(m.heap) + 2)}
      [] op.o = "copy"    -> {Bind(m, op.d, m.env[op.s[1]])}
      [] op.o = "pick"    -> {Bind(m, "t", m.env[op.s[i]]) : i \in 1..2}
      [] op.o = "get"     -> {AtFirst(m, op.s[1], Bind(m, "t", m.heap[m.env[op.s[1]]].es[1]))}
      [] op.o = "retain"  -> {Retain(m, m.env[op.d])}
      [] op.o = "release" -> {Release(m, m.env[op.d])}
      [] op.o = "push"    -> {IF Freed(m.heap, m.env[op.d]) THEN Fault(m)
                              ELSE [m EXCEPT !.heap[m.env[op.d]].es = Append(@, m.env["t"])]}
      [] op.o = "set"     -> {AtFirst(m, op.d, Release([m EXCEPT !.heap[m.env[op.d]].es[1] = m.env["t"]],
                                                       m.heap[m.env[op.d]].es[1]))}
      [] op.o \in {"ret", "halt"} -> {[m EXCEPT !.end = op.o]}

DoAll(m, ops) ==
    FoldLeft(LAMBDA ms, op : UNION {IF n.err \/ n.end # "no" THEN {n} ELSE Do(n, op) : n \in ms},
             {m}, ops)

\* Where statement i may continue.
Next1(b, i, m) ==
    CASE i > Len(b) -> {i}
      [] b[i].op = "if" ->
            LET c == CloserOf(b, i)
                es == {j \in i..c : b[j].op = "else" /\ Depth(b, j) = Depth(b, i)}
            IN  {i + 1, (IF es = {} THEN c ELSE Min(es)) + 1}
      [] b[i].op = "match" -> {i + 1, CloserOf(b, i)}
      [] b[i].op = "loop" -> {CloserOf(b, i) + 1} \union (IF m.turns < MaxTurns THEN {i + 1} ELSE {})
      [] b[i].op = "else" -> {CloserOf(b, Max(Around(b, i))) + 1}
      [] b[i].op = "end" -> LET o == Max(Around(b, i)) IN {IF b[o].op = "loop" THEN o ELSE i + 1}
      [] b[i].op = "break" -> {CloserOf(b, LoopOf(b, i)) + 1}
      [] b[i].op = "continue" -> {LoopOf(b, i)}
      [] OTHER -> {i + 1}

Run ==
    /\ pc > 0 /\ rt.end = "no" /\ ~rt.err
    /\ \E m \in DoAll(rt, code.ops[pc]) :
         IF m.err \/ m.end # "no" THEN rt' = m /\ UNCHANGED pc
         ELSE IF pc > Len(prog) THEN rt' = [m EXCEPT !.end = "halt"] /\ UNCHANGED pc
         ELSE \E n \in Next1(prog, pc, m) :
                /\ pc' = n
                /\ rt' = IF prog[pc].op = "loop" /\ n = pc + 1 THEN [m EXCEPT !.turns = @ + 1] ELSE m
    /\ UNCHANGED <<prog, code>>

-----------------------------------------------------------------------------
(* Writing a body.                                                         *)

Open(b) == {j \in 1..Len(b) : b[j].op \in Opens
                /\ \A m \in j..Len(b) : Depth(b, m) >= Depth(b, j)}

\* Names that a statement after b may mention: those of the blocks that are
\* still open, and not dropped.
InScope(b) == {b[j].x : j \in {i \in 1..Len(b) : b[i].op = "let" /\ Rest(b, i) = (i + 1)..Len(b)}}
                 \ {b[j].x : j \in {i \in 1..Len(b) : b[i].op = "drop"}}

InMatch(b) == \E j \in Open(b) : b[j].op = "match"
InLoop(b) == \E j \in Open(b) : b[j].op = "loop"

Of(b, t) == {x \in InScope(b) : TypeOf(x) = t}
Strs(b) == Of(b, "str") \union (IF InMatch(b) THEN {Bound} ELSE {})
Conts(b) == Of(b, "vec") \union Of(b, "rec") \union {Param}
Recs(b) == Of(b, "rec") \union {Param}

Simple(b, t) ==
    CASE t = "str" -> {New, E("tget", << >>)} \union {E("id", <<x>>) : x \in Strs(b)} \union {E("get", <<c>>) : c \in Conts(b)}
      [] t = "vec" -> {New, E("tfld", << >>)} \union {E("id", <<x>>) : x \in Of(b, "vec")} \union {E("fld", <<c>>) : c \in Recs(b)}

Exprs(b, t) ==
    CASE t = "str" -> Simple(b, "str")
                        \union {E("ife", <<x, y>>) : x, y \in Of(b, "str")}
      [] t = "vec" -> Simple(b, "vec")
      [] t = "rec" -> {New} \union {E("id", <<x>>) : x \in Recs(b)} \union {Wrap("lit", e) : e \in Simple(b, "vec")}
      [] t = "opt" -> {E("id", <<x>>) : x \in Of(b, "opt")} \union {Wrap("some", e) : e \in Simple(b, "str")}

\* The next name of a type.
NextName(b, t) == LET n == Cardinality({j \in 1..Len(b) : b[j].op = "let" /\ TypeOf(b[j].x) = t})
                  IN  IF n < Len(Order[t]) THEN {Order[t][n + 1]} ELSE {}

Lets(b) == UNION {{S("let", x, e) : x \in NextName(b, t), e \in Exprs(b, t)} : t \in DOMAIN Order}
Assigns(b) == UNION {{S("asg", x, e) : e \in Exprs(b, TypeOf(x))} : x \in InScope(b)}
Fields(b) == {S("fasg", x, e) : x \in Recs(b), e \in Simple(b, "vec")}
Stores(b) == {S(op, x, e) : op \in {"push", "set"}, x \in Conts(b), e \in Simple(b, "str")}
Others(b) == {S("drop", x, NoE) : x \in IF Open(b) = {} THEN Of(b, "vec") ELSE {}}
               \union {S("call", x, NoE) : x \in Conts(b)}

Blocks(b) == {S(op, "", NoE) : op \in {"if", "loop"}} \union {S("match", x, NoE) : x \in Of(b, "opt") \union {""}}
Returns(b) == {S("ret", "", e) : e \in {NoE} \union UNION {Exprs(b, t) : t \in DOMAIN Order}}

Jumps == {"ret", "break", "continue"}

\* The length of a body: the ends of blocks and the jumps of loops do not count.
Size(b) == Cardinality({j \in 1..Len(b) : b[j].op \notin {"end", "break", "continue"}})

\* A match arm takes expression statements only, a jump ends its block, and
\* no block is empty.
Statements(b) ==
    LET last  == IF b = << >> THEN "" ELSE Last(b).op
        inner == IF Open(b) = {} THEN "" ELSE b[Max(Open(b))].op
        room  == Size(b) < MaxStmts
    IN  (IF room /\ last \notin Jumps
         THEN Assigns(b) \union Fields(b) \union Stores(b) \union Others(b)
                \union (IF InMatch(b) THEN {} ELSE Lets(b) \union Blocks(b) \union Returns(b)) ELSE {})
        \union (IF last \in Jumps \/ InMatch(b) \/ ~InLoop(b) THEN {}
                ELSE {S(op, "", NoE) : op \in {"break", "continue"}})
        \union (IF inner = "" \/ last \in Opens \union {"else"} THEN {} ELSE {S("end", "", NoE)})
        \union (IF room /\ inner = "if" /\ last # "if" /\ \A j \in Max(Open(b))..Len(b) : b[j].op # "else"
                THEN {S("else", "", NoE)} ELSE {})

\* The shapes that the analysis does not see through.  alias: a vector whose
\* element is borrowed without a count has a second name.  ifexpr: the value of
\* an if is a name.  matchbind: the payload of a match is assigned, or the value
\* that is matched is.  param: a field of the parameter is assigned.  These leak
\* only: branchmove, a local is moved in a branch; deadassign, a moved local is
\* assigned; lefttemp, a temporary is read in a literal, in a constructor or by
\* an assignment in a match arm.
Shapes(b, c) ==
    LET In(i, op) == \E j \in Around(b, i) : b[j].op = op
        Shares(i, x) == /\ b[i].op \in {"let", "asg", "fasg"} /\ TypeOf(b[i].x) \in {"vec", "rec"}
                        /\ b[i].e.xs # << >> /\ x \in Range(Append(b[i].e.xs, b[i].x))
        Assigned(i) == b[i].op \in {"asg", "fasg"}
        LetOf(x) == CHOOSE i \in 1..Len(b) : b[i].op = "let" /\ b[i].x = x
        Is(shape, i) ==
            CASE shape = "alias" -> /\ b[i].op = "let" /\ b[i].e.k = "get"
                                    /\ RcBeOk(b, i, b[i].x, b[i].e.xs[1])
                                    /\ \E j \in 1..Len(b) : Shares(j, b[i].e.xs[1])
              [] shape = "ifexpr" -> b[i].e.k = "ife" /\ b[i].op # "ret"
              [] shape = "matchbind" -> Assigned(i) /\ \E j \in Around(b, i) : b[j].op = "match"
                                          /\ (b[i].x = b[j].x \/ b[i].e.xs = <<Bound>>)
              [] shape = "branchmove" -> \E x \in c.dead[i + 1] \ c.dead[i] :
                                            In(i, "if") /\ Around(b, i) # Around(b, LetOf(x))
              [] shape = "deadassign" -> Assigned(i) /\ b[i].x \in c.dead[i]
              [] shape = "param" -> Assigned(i) /\ b[i].x = Param
              [] shape = "lefttemp" -> OfTemp(b[i].e.in) \/ (OfTemp(b[i].e.k) /\ Assigned(i) /\ In(i, "match"))
    IN  {shape \in {"alias", "ifexpr", "matchbind", "branchmove", "deadassign", "param", "lefttemp"} :
            \E i \in 1..Len(b) : Is(shape, i)}

Write == /\ pc = 0
         /\ \E s \in Statements(prog) : prog' = Append(prog, s)
         /\ UNCHANGED <<code, pc, rt>>

Begin == /\ pc = 0 /\ prog # << >> /\ Open(prog) = {}
         /\ code' = Compile(prog)
         /\ Shapes(prog, code') \subseteq Holes
         /\ pc' = 1
         /\ UNCHANGED <<prog, rt>>

OwnInit == prog = << >> /\ code = << >> /\ pc = 0 /\ rt = Start

OwnNext == Write \/ Begin \/ Run

-----------------------------------------------------------------------------

\* No emitted statement touches a block that was freed, and a name that is in
\* scope and was not given away refers to a block that was not.
NoDangling ==
    /\ ~rt.err
    /\ pc > 0 /\ rt.end = "no" =>
         \A x \in InScope(SubSeq(prog, 1, pc - 1)) \ code.dead[pc] : ~Freed(rt.heap, rt.env[x])

\* When the function returns, every block counts the references that are left:
\* the caller's two, those of living vectors, and the result.
RefsLeft(o) ==
    (IF o = 2 THEN 1 ELSE 0)
      + MapThenSumSet(LAMBDA v : IF Freed(rt.heap, v) THEN 0
                                 ELSE Cardinality({i \in DOMAIN rt.heap[v].es : rt.heap[v].es[i] = o}),
                      DOMAIN rt.heap)
      + (IF rt.end = "ret" /\ rt.env["t"] = o THEN 1 ELSE 0)

Balanced == rt.end \in {"ret", "halt"} => \A o \in DOMAIN rt.heap : rt.heap[o].rc = RefsLeft(o)
=============================================================================

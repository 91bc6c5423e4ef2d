------------------------------ MODULE MCVerify ------------------------------
(* The functions and specifications that the verifier is tried on.         *)
EXTENDS Integers, Sequences

CONSTANT Holes

Num(k) == <<"int", k>>
VarN == <<"var", "n">>
VarX == <<"var", "x">>
VarR == <<"var", "r">>
Out == <<"var", "output">>
VecLen == <<"var", "len">>

SpecOf(req, ens, dec, vec) == [req |-> req, ens |-> ens, dec |-> dec, vec |-> vec]

VSpecs ==
    {SpecOf(<<"true">>, <<">=", Out, Num(0)>>, <<>>, FALSE),
     SpecOf(<<">=", VarN, Num(0)>>, <<">=", Out, VarN>>, VarN, FALSE),
     SpecOf(<<"and", <<">=", VarN, Num(-2)>>, <<"<=", VarN, Num(3)>> >>,
            <<"or", <<"<=", Out, Num(0)>>, <<"==", Out, Num(3)>> >>, <<>>, FALSE),
     SpecOf(<<">=", VarN, Num(1)>>, <<">=", Out, Num(3)>>, <<>>, FALSE),
     SpecOf(<<">=", VecLen, Num(1)>>, <<"<=", Out, Num(3)>>, <<>>, TRUE),
     SpecOf(<<"elem", IF "elem" \in Holes THEN ">=" ELSE "<=", 1>>,
            <<IF "elem" \in Holes THEN ">=" ELSE "<=", Out, Num(2)>>, <<>>, TRUE)}

VStmts ==
    {<<"let", "x", e>> : e \in {Num(0), <<"+", VarN, Num(1)>>, <<"*", VarN, VarN>>,
                                <<"%", VarN, Num(2)>>, <<"/", Num(3), VarN>>}}
    \union {<<"return", e>> : e \in {VarN, VarX, VarR, <<"+", VarR, Num(1)>>, <<"*", VarX, VarN>>}}
    \union {<<"set", "x", <<"-", VarX, VarN>> >>,
            <<"if", <<"<=", VarN, Num(0)>>, <<<<"return", Num(0)>> >>, <<>> >>,
            <<"if", <<"and", <<">", VarN, Num(0)>>, <<"<", VarX, Num(3)>> >>,
                    <<<<"set", "x", VarN>> >>, <<<<"return", VarX>> >> >>,
            <<"while", <<"<", VarX, VarN>>, <<">=", VarX, Num(0)>>,
                       <<<<"set", "x", <<"+", VarX, Num(1)>> >> >> >>,
            <<"assume", <<">=", VarN, Num(1)>> >>,
            <<"call", "r", <<"-", VarN, Num(1)>> >>,
            <<"call", "r", VarN>>,
            <<"get", "r", Num(0)>>, <<"push", VarN>>, <<"push", Num(1)>>,
            <<"put", Num(0), VarN>>, <<"retget", Num(0)>>}

VContents == {<<>>, <<0>>, <<1>>, <<3>>, <<-1>>, <<-2>>, <<3, 1>>}

\* Expressions of the symbolic evaluator and what is assumed of their inputs.
VGivens == {{}, {<<"x", ">=", 0>>, <<"y", ">=", 1>>}, {<<"x", "<=", -1>>, <<"y", ">=", 1>>},
            {<<"x", "<=", -1>>, <<"y", "<=", -2>>}}
VLeaves == {<<"var", "x">>, <<"var", "y">>, Num(3), Num(-2)}
VOps == {"+", "-", "*", "/", "%", "&", "|", "^", "<<", ">>", ">>>"}

\* The workers of the wait-for analysis; the last ones only with their hole.
Recv == [op |-> "recv"]
Send == [op |-> "send"]
If(a, b) == [op |-> "if", a |-> a, b |-> b]
For(k, b) == [op |-> "for", k |-> k, body |-> b]
While(k, i0, b) == [op |-> "while", k |-> k, i0 |-> i0, body |-> b]
Loop(b) == [op |-> "loop", body |-> b]
Child(b) == [op |-> "go", h |-> "k", body |-> b]
Kid(op) == [op |-> op, h |-> "k"]
Do(op) == [op |-> op]

VBodies ==
    {<<Send>>, <<Recv>>, <<For(2, <<Recv>>)>>, <<If(<<Send>>, <<Send, Send>>)>>,
     <<While(2, 0, <<Send>>)>>, <<Loop(<<Recv, If(<<Do("brk")>>, <<>>)>>)>>, <<Loop(<<>>)>>,
     <<Child(<<Send>>), Kid("join")>>, <<Child(<<Recv>>), Kid("detach")>>, <<Do("try"), Send>>}
    \union (IF "mixed" \in Holes THEN {<<Recv, Send>>, <<Child(<<Recv>>), Send, Send, Kid("join")>>} ELSE {})
    \union (IF "early" \in Holes THEN {<<If(<<Do("ret")>>, <<>>), Send>>} ELSE {})
    \union (IF "counter" \in Holes THEN {<<While(2, 1, <<Send>>)>>} ELSE {})
    \union (IF "stray" \in Holes THEN {<<Child(<<Send>>), Kid("detach")>>} ELSE {})
    \union (IF "closer" \in Holes THEN {<<Do("close"), Recv>>} ELSE {})

-----------------------------------------------------------------------------
(* Functions of bits, each with a promise, and formulas for the solver.    *)

VarM == <<"var", "m">>
Bits(op) == <<op, VarN, VarM>>
BExprs == {Bits(op) : op \in {"+", "-", "&", "|", "^", "<<", ">>>"}}
    \union {<<"+", Bits("&"), Bits("|")>>, <<"^", Bits("^"), VarM>>, <<">>", VarN, Num(1)>>, <<"+", VarN, VarN>>}
BProms == {<<"==", Out, e>> : e \in {Bits("+"), Bits("<<"), VarN}} \union {<<"<=", Out, VarN>>}

Fn(req, b, ens) == [req |-> req, body |-> b, ens |-> ens]
Ret(e) == <<"return", e>>
Odd == <<"==", <<"&", VarN, Num(1)>>, Num(1)>>
BFns ==
    {Fn(<<"true">>, <<Ret(e)>>, p) : e \in BExprs, p \in BProms}
    \union {Fn(<<"<", VarN, VarM>>, <<<<"if", c, <<Ret(Bits("-"))>>, <<Ret(<<"-", VarM, VarN>>)>> >> >>, p) :
               c \in {<<">=", VarN, VarM>>, <<"or", Odd, <<">", VarN, Num(3)>> >>},
               p \in {<<"!=", Out, Num(0)>>, <<">=", Out, Num(0)>>}}
    \union {Fn(<<">=", VarN, Num(0)>>,
               <<<<"let", "x", VarN>>, <<"if", Odd, <<<<"set", "x", <<"^", VarX, Num(1)>> >> >>, <<>> >>,
                 Ret(<<">>", VarX, e>>)>>, p) :
               e \in {Num(1), VarM},
               p \in {<<"<=", Out, VarN>>, <<"and", <<">=", Out, Num(0)>>, <<"not", <<">", Out, VarN>> >> >>,
                      <<"==", <<"&", Out, Num(1)>>, Num(0)>> }}
    \union IF "overwritten" \notin Holes THEN {}
           ELSE {Fn(<<"true">>, <<<<"if", Odd, <<Ret(Bits("&"))>>, <<>> >>, Ret(Num(0))>>, <<"==", Out, Num(0)>>)}

\* Every choice from some clauses over four variables.
Pool == <<<<1, 2>>, <<-1, 3>>, <<-1, -3, 4>>, <<-2, 4>>, <<-4, 1, 2>>, <<-4, 3>>, <<-3, -4>>, <<1, -2, -3>>, <<2, 3, 4>> >>
BFormulas == {[n |-> 4, cls |-> SelectSeq(Pool, LAMBDA c : c \in chosen)] :
                chosen \in SUBSET {Pool[i] : i \in DOMAIN Pool}}
=============================================================================

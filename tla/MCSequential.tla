---------------------------- MODULE MCSequential ----------------------------
(***************************************************************************)
(* The parts of the system that run in one thread, one at a time: a        *)
(* behaviour is one of the world cache, of the region of a world, of       *)
(* vectors and maps in both backends, of the code that the C backend emits *)
(* for a function or of a part of the verifier, and the other parts rest.  *)
(***************************************************************************)
EXTENDS MCVerify, WorldCache, WorldRegion, FourierMotzkin, WorldProtocol

CONSTANTS Parts, SharedSlices, MaxStmts

\* Keys of the cache and of world maps; two of them collide.
CacheHash == [k \in Keys |-> IF k = 3 THEN 1 ELSE k]

\* Coefficients and constants of the comparisons.
FmCoeffs == {-3, 0, 2}
FmConsts == {-2, 1}

\* Two strings with the same bytes, and the empty literal; one chain for all.
StrContent == [o \in 0..2 |-> IF o = 0 THEN 0 ELSE 1]
StrHash == [c \in 0..1 |-> 0]

\* The locals of a function body.
Locals == [str |-> <<"s1", "s2">>, vec |-> <<"v1">>, rec |-> <<"r1">>, opt |-> <<"o1">>]

\* One world over a channel, and two worlds without one.
PSetups == {[worlds |-> {1}, tasks |-> 1..3, chan |-> TRUE],
            [worlds |-> {1, 2}, tasks |-> 1..3, chan |-> FALSE]}

VARIABLES part,
          hc, hl, loc, seqs, pairs, twin,
          prog, code, pc, rt,
          expr, assumed,
          spec, body, sym, verdict,
          chans, joins, at, claim, stmts, buf, closed, procs,
          goal, sat

H == INSTANCE Containers WITH Objs <- 1..2, Vecs <- 4..5, Content <- StrContent,
        Hash <- StrHash, Cap0 <- 1, Nb0 <- 1, MaxLoc <- 1, MaxLen <- 2, MaxLive <- 2,
        VecKinds <- {"i64", "str", "bytes", "vec"},
        MapKinds <- {<<"str", "box">>, <<"i64", "str">>},
        SharedVecs <- {"i64", "str", "bytes", "vec"},
        SharedKeys <- {"str", "i64"}, SharedVals <- {"str"}
O == INSTANCE Ownership WITH Order <- Locals, MaxTurns <- 2
A == INSTANCE SymAxioms WITH given <- assumed, IntMax <- 127, Leaves <- VLeaves, Ops <- VOps,
        OuterOps <- {"*", "/"}, Givens <- VGivens, Inputs <- {"x", "y"},
        Values <- {-128, -5, -2, -1, 0, 1, 3, 4, 127}, MaxDepth <- 2
V == INSTANCE Verifier WITH IntMax <- 1023, Specs <- VSpecs, Stmts <- VStmts, MaxBody <- 3,
        Cands <- {-2, -1, 0, 1, 3}, BigCands <- {1023, -1024, 600}, Contents <- VContents,
        Fuel <- 4
B == INSTANCE WaitFor WITH Chans <- {"a", "b"}, Cap <- [a |-> 1, b |-> 2],
        Bodies <- [a |-> VBodies, b |-> {<<Send>>, <<Recv>>}], MaxStmts <- 4, MaxWorkers <- 2
Q == INSTANCE BitBlast WITH Width <- 4, Layers <- 2, Params <- <<"n", "m">>, Goals <- BFns \union BFormulas,
        Budget <- 8

ASSUME CacheAssumption /\ RegionAssumption /\ FmAssumption /\ ProtocolAssumption

hvars == <<hc, hl, loc, seqs, pairs, twin>>
ovars == <<prog, code, pc, rt>>
avars == <<expr, assumed>>
vvars == <<spec, body, sym, verdict>>
bvars == <<chans, joins, at, claim, stmts, buf, closed, procs>>
qvars == <<goal, sat>>
all == <<part, cacheVars, regionVars, hvars, ovars, fmVars, avars, vvars, bvars, pvars, qvars>>

\* The parts that rest have no state, but the cache, the region, the elimination
\* and the protocol of worlds, which rest in an initial state.
Rests(x) == x = Null
Init ==
    /\ part \in Parts
    /\ IF part = "bits" THEN Q!BitsInit ELSE Rests(goal) /\ Rests(sat)
    /\ IF part = "verifier" THEN V!VerInit ELSE Rests(spec) /\ Rests(body) /\ Rests(sym) /\ Rests(verdict)
    /\ CacheInit
    /\ RegionInit
    /\ IF part = "containers" THEN H!ContInit
       ELSE Rests(hc) /\ Rests(hl) /\ Rests(loc) /\ Rests(seqs) /\ Rests(pairs) /\ Rests(twin)
    /\ IF part = "ownership" THEN O!OwnInit ELSE Rests(prog) /\ Rests(code) /\ Rests(pc) /\ Rests(rt)
    /\ FmInit
    /\ IF part = "symbolic" THEN A!SymInit ELSE Rests(expr) /\ Rests(assumed)
    /\ IF part = "waitfor" THEN B!WaitForInit
       ELSE Rests(chans) /\ Rests(joins) /\ Rests(at) /\ Rests(claim) /\ Rests(stmts) /\ Rests(buf) /\ Rests(closed) /\ Rests(procs)
    /\ ProtocolInit /\ (part # "worlds" => ch.ghost = "never")

Next ==
    \/ part = "cache" /\ CacheNext /\ UNCHANGED <<part, regionVars, hvars, ovars, fmVars, avars, vvars, bvars, pvars, qvars>>
    \/ part = "region" /\ RegionNext /\ UNCHANGED <<part, cacheVars, hvars, ovars, fmVars, avars, vvars, bvars, pvars, qvars>>
    \/ part = "containers" /\ H!ContNext /\ UNCHANGED <<part, cacheVars, regionVars, ovars, fmVars, avars, vvars, bvars, pvars, qvars>>
    \/ part = "ownership" /\ O!OwnNext /\ UNCHANGED <<part, cacheVars, regionVars, hvars, fmVars, avars, vvars, bvars, pvars, qvars>>
    \/ part = "fm" /\ FmNext /\ UNCHANGED <<part, cacheVars, regionVars, hvars, ovars, avars, vvars, bvars, pvars, qvars>>
    \/ part = "symbolic" /\ A!SymNext /\ UNCHANGED <<part, cacheVars, regionVars, hvars, ovars, fmVars, vvars, bvars, pvars, qvars>>
    \/ part = "verifier" /\ V!VerNext /\ UNCHANGED <<part, cacheVars, regionVars, hvars, ovars, fmVars, avars, bvars, pvars, qvars>>
    \/ part = "waitfor" /\ B!WaitForNext /\ UNCHANGED <<part, cacheVars, regionVars, hvars, ovars, fmVars, avars, vvars, pvars, qvars>>
    \/ part = "worlds" /\ ProtocolNext /\ UNCHANGED <<part, cacheVars, regionVars, hvars, ovars, fmVars, avars, vvars, bvars, qvars>>
    \/ part = "bits" /\ Q!BitsNext /\ UNCHANGED <<part, cacheVars, regionVars, hvars, ovars, fmVars, avars, vvars, bvars, pvars>>

Spec == Init /\ [][Next]_all

-----------------------------------------------------------------------------
(* The properties of the parts.                                            *)

\* In both backends the count of a block is the number of references to it, and what
\* nobody refers to has been given back.
BlocksExact == part = "containers" => H!CountsExact /\ H!NoCellLeft

\* Both backends keep in vectors and maps what was put there, and list keys alike.
BackendsAgree == part = "containers" => H!ContentsRight /\ H!SameKeyOrder
NoDangling == part = "ownership" => O!NoDangling
Balanced == part = "ownership" => O!Balanced

\* The verifier: what it believes of an expression is true, and its verdicts are true.
SymbolicTrue == part = "symbolic" => A!SymbolicTrue
VerdictTrue == part = "verifier" => V!VerdictTrue

\* What the wait-for analysis says of a blocking statement is what happens.
WaitForTrue == part = "waitfor" => B!ClaimsTrue

\* What the solver and the circuits of the verifier prove is true.
BitsTrue == part = "bits" => Q!BitsTrue
=============================================================================

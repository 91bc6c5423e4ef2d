----------------------------- MODULE FoldLemmas -----------------------------
(***************************************************************************)
(* Induction and sums.                                                     *)
(***************************************************************************)
EXTENDS Integers, Functions, FiniteSetTheorems, WellFoundedInduction, TLAPS

-----------------------------------------------------------------------------
(* Induction over finite sets.                                             *)

(* A set of finite sets that has the empty set, and each of its sets with  *)
(* one more element, has every finite set.                                 *)
LEMMA SetInduction ==
    ASSUME NEW S, IsFiniteSet(S), NEW T, {} \in T,
           \A A \in SUBSET S : \A x \in S \ A : A \in T => A \cup {x} \in T
    PROVE  S \in T
<1> SUFFICES ASSUME S \notin T PROVE FALSE
  OBVIOUS
<1> DEFINE Bad == {A \in SUBSET S : A \notin T}
<1>1. IsWellFoundedOn(StrictSubsetOrdering(S), SUBSET S)
  BY FS_StrictSubsetOrderingWellFounded, FS_FiniteSubsetsOfFinite
<1>2. Bad \subseteq SUBSET S /\ Bad # {}
  OBVIOUS
<1>3. PICK A \in Bad : \A B \in Bad : <<B, A>> \notin StrictSubsetOrdering(S)
  BY <1>1, <1>2, WFMin
<1>4. PICK x \in A : TRUE
  BY <1>3
<1>5. A \ {x} \in SUBSET S /\ <<A \ {x}, A>> \in StrictSubsetOrdering(S)
  BY <1>3, <1>4 DEF StrictSubsetOrdering
<1>6. A \ {x} \in T
  BY <1>3, <1>5
<1>7. (A \ {x}) \cup {x} = A /\ x \in S \ (A \ {x})
  BY <1>3, <1>4
<1>8. QED
  BY <1>3, <1>5, <1>6, <1>7

(* A set of numbers that has 0, and the successor of each of its numbers,  *)
(* has every natural number.                                               *)
LEMMA NumberInduction ==
    ASSUME NEW T, 0 \in T, \A n \in Nat : n \in T => n + 1 \in T
    PROVE  \A n \in Nat : n \in T
<1> SUFFICES ASSUME NEW b \in Nat, b \notin T PROVE FALSE
  OBVIOUS
<1> DEFINE Bad == {n \in Nat : n \notin T}
           R == {p \in Nat \X Nat : p[1] < p[2]}
<1>1. IsWellFoundedOn(R, Nat)
  BY NatLessThanWellFounded DEF OpToRel
<1>2. Bad \subseteq Nat /\ Bad # {}
  OBVIOUS
<1>3. PICK n \in Bad : \A m \in Bad : <<m, n>> \notin R
  <2> HIDE DEF R
  <2>1. QED
    BY <1>1, <1>2, WFMin
<1>4. n - 1 \in Nat /\ n - 1 < n
  BY <1>3
<1>5. n - 1 \in T
  BY <1>3, <1>4
<1>6. QED
  BY <1>3, <1>4, <1>5

-----------------------------------------------------------------------------
(* Sums over finite sets.                                                  *)

Picked(s) == CHOOSE x \in s : TRUE

\* What the iteration of a sum over S is: a function on the subsets of S.
SumIteration(f, S, it) ==
    it = [s \in SUBSET S |-> IF s = {} THEN 0
                             ELSE LET x == Picked(s) IN f[x] + it[s \ {x}]]

(* A sum is an iteration, if there is one.                                 *)
LEMMA SumIsIteration ==
    ASSUME NEW f, NEW S
    PROVE  SumFunctionOnSet(f, S) = (CHOOSE it : SumIteration(f, S, it))[S]
  BY DEF SumFunctionOnSet, FoldFunctionOnSet, MapThenFoldSet, SumIteration, Picked

\* The subsets of S with at most n elements.
Small(S, n) == {s \in SUBSET S : Cardinality(s) <= n}

(* What is picked from a set that is not empty, and what it leaves.        *)
LEMMA PickedLeaves ==
    ASSUME NEW S, IsFiniteSet(S), NEW s \in SUBSET S, s # {}
    PROVE  /\ Picked(s) \in s /\ s \ {Picked(s)} \in SUBSET S
           /\ IsFiniteSet(s) /\ Cardinality(s) \in Nat \ {0}
           /\ Cardinality(s \ {Picked(s)}) = Cardinality(s) - 1
<1>1. Picked(s) \in s
  BY DEF Picked
<1>2. IsFiniteSet(s)
  BY FS_Subset
<1>3. QED
  BY <1>1, <1>2, FS_RemoveElement, FS_CardinalityType, FS_EmptySet

(* Over a finite set there is an iteration.                                *)
LEMMA SumIterationExists ==
    ASSUME NEW f, NEW S, IsFiniteSet(S)
    PROVE  \E it : SumIteration(f, S, it)
<1> DEFINE Body(s, it) == IF s = {} THEN 0 ELSE f[Picked(s)] + it[s \ {Picked(s)}]
           Partial(n, it) == it = [s \in Small(S, n) |-> Body(s, it)]
           T == {n \in Nat : \E it : Partial(n, it)}
<1>1. 0 \in T
  <2> DEFINE it == [s \in Small(S, 0) |-> 0]
  <2>1. \A s \in Small(S, 0) : s = {}
    BY FS_Subset, FS_EmptySet, FS_CardinalityType DEF Small
  <2>2. Partial(0, it)
    BY <2>1
  <2>3. QED
    BY <2>2
<1>2. ASSUME NEW n \in Nat, n \in T PROVE n + 1 \in T
  <2>1. PICK it : Partial(n, it)
    BY <1>2
  <2> DEFINE new == [s \in Small(S, n + 1) |-> Body(s, it)]
  <2>2. ASSUME NEW s \in Small(S, n + 1), s # {}
        PROVE  s \ {Picked(s)} \in Small(S, n) /\ s \ {Picked(s)} \in Small(S, n + 1)
    BY <2>2, PickedLeaves DEF Small
  <2>3. \A s \in Small(S, n) : s \in Small(S, n + 1)
    BY FS_Subset, FS_CardinalityType DEF Small
  <2>4. \A s \in Small(S, n) : new[s] = it[s]
    BY <2>1, <2>3
  <2>5. ASSUME NEW s \in Small(S, n + 1) PROVE Body(s, it) = Body(s, new)
    BY <2>2, <2>4
  <2>6. Partial(n + 1, new)
    <3> HIDE DEF Body
    <3>1. new = [s \in Small(S, n + 1) |-> Body(s, new)]
      BY <2>5, Zenon
    <3>2. QED
      BY <3>1
  <2>7. QED
    <3> HIDE DEF new, Partial
    <3>1. QED
      BY <2>6
<1>3. Cardinality(S) \in T
  <2> HIDE DEF T
  <2>1. QED
    BY <1>1, <1>2, NumberInduction, FS_CardinalityType
<1>4. Small(S, Cardinality(S)) = SUBSET S
  BY FS_Subset DEF Small
<1>5. QED
  BY <1>3, <1>4 DEF SumIteration

(* Two iterations agree where both are defined and the functions agree.    *)
LEMMA SumIterationsAgree ==
    ASSUME NEW f, NEW g, NEW S, IsFiniteSet(S), NEW R \in SUBSET S,
           \A x \in R : f[x] = g[x],
           NEW i, SumIteration(f, R, i), NEW j, SumIteration(g, S, j)
    PROVE  i[R] = j[R]
<1> DEFINE T == {n \in Nat : \A s \in SUBSET R : Cardinality(s) = n => i[s] = j[s]}
<1>1. IsFiniteSet(R) /\ Cardinality(R) \in Nat
  BY FS_Subset, FS_CardinalityType
<1>2. i[{}] = 0 /\ j[{}] = 0
  BY DEF SumIteration
<1>3. 0 \in T
  BY <1>1, <1>2, FS_Subset, FS_EmptySet
<1>4. ASSUME NEW n \in Nat, n \in T PROVE n + 1 \in T
  <2> SUFFICES ASSUME NEW s \in SUBSET R, Cardinality(s) = n + 1 PROVE i[s] = j[s]
    OBVIOUS
  <2>1. s # {}
    BY FS_EmptySet
  <2> DEFINE x == Picked(s)
  <2>2. x \in s /\ s \ {x} \in SUBSET R /\ Cardinality(s \ {x}) = n
    BY <1>1, <2>1, PickedLeaves
  <2>3. i[s \ {x}] = j[s \ {x}]
    BY <1>4, <2>2
  <2>4. i[s] = f[x] + i[s \ {x}]
    BY <2>1 DEF SumIteration
  <2>5. j[s] = g[x] + j[s \ {x}]
    BY <2>1 DEF SumIteration
  <2>6. QED
    BY <2>2, <2>3, <2>4, <2>5
<1>5. Cardinality(R) \in T
  <2> HIDE DEF T
  <2>1. QED
    BY <1>1, <1>3, <1>4, NumberInduction
<1>6. QED
  BY <1>5

(* The iteration that a sum takes its value from.                          *)
LEMMA SumOfIteration ==
    ASSUME NEW f, NEW S, IsFiniteSet(S)
    PROVE  \E it : SumIteration(f, S, it) /\ SumFunctionOnSet(f, S) = it[S]
<1> DEFINE it == CHOOSE it : SumIteration(f, S, it)
<1>1. SumIteration(f, S, it)
  BY SumIterationExists
<1>2. QED
  BY <1>1, SumIsIteration

(* The sum depends on the values over the set only.                        *)
LEMMA SumSame ==
    ASSUME NEW f, NEW g, NEW S, IsFiniteSet(S), \A x \in S : f[x] = g[x]
    PROVE  SumFunctionOnSet(f, S) = SumFunctionOnSet(g, S)
<1>1. PICK i : SumIteration(f, S, i) /\ SumFunctionOnSet(f, S) = i[S]
  BY SumOfIteration
<1>2. PICK j : SumIteration(g, S, j) /\ SumFunctionOnSet(g, S) = j[S]
  BY SumOfIteration
<1>3. QED
  BY <1>1, <1>2, SumIterationsAgree

(* The sum over the empty set.                                             *)
LEMMA SumEmpty == \A f : SumFunctionOnSet(f, {}) = 0
<1> TAKE f
<1>1. PICK it : SumIteration(f, {}, it) /\ SumFunctionOnSet(f, {}) = it[{}]
  BY SumOfIteration, FS_EmptySet
<1>2. QED
  BY <1>1 DEF SumIteration

(* The first step of a sum.                                                *)
LEMMA SumPicked ==
    ASSUME NEW f, NEW S, IsFiniteSet(S), S # {}
    PROVE  SumFunctionOnSet(f, S) = f[Picked(S)] + SumFunctionOnSet(f, S \ {Picked(S)})
<1> DEFINE R == S \ {Picked(S)}
<1>1. IsFiniteSet(R) /\ R \in SUBSET S
  BY FS_Subset
<1>2. PICK i : SumIteration(f, R, i) /\ SumFunctionOnSet(f, R) = i[R]
  BY <1>1, SumOfIteration
<1>3. PICK j : SumIteration(f, S, j) /\ SumFunctionOnSet(f, S) = j[S]
  BY SumOfIteration
<1>4. i[R] = j[R]
  <2> HIDE DEF R
  <2>1. QED
    BY <1>1, <1>2, <1>3, SumIterationsAgree
<1>5. j[S] = f[Picked(S)] + j[R]
  BY <1>3 DEF SumIteration
<1>6. QED
  BY <1>2, <1>3, <1>4, <1>5

(* The sum of integers is an integer, and it is the value at any element   *)
(* and the sum over the others.                                            *)
LEMMA SumRemove ==
    ASSUME NEW f, NEW S, IsFiniteSet(S), \A x \in S : f[x] \in Int
    PROVE  /\ SumFunctionOnSet(f, S) \in Int
           /\ \A x \in S : SumFunctionOnSet(f, S) = f[x] + SumFunctionOnSet(f, S \ {x})
<1> DEFINE Right(A) == /\ SumFunctionOnSet(f, A) \in Int
                       /\ \A x \in A : SumFunctionOnSet(f, A) = f[x] + SumFunctionOnSet(f, A \ {x})
           T == {n \in Nat : \A A \in SUBSET S : Cardinality(A) <= n => Right(A)}
<1>0. ASSUME NEW A \in SUBSET S PROVE IsFiniteSet(A) /\ Cardinality(A) \in Nat
  BY FS_Subset, FS_CardinalityType
<1>1. 0 \in T
  <2> SUFFICES ASSUME NEW A \in SUBSET S, Cardinality(A) <= 0 PROVE Right(A)
    OBVIOUS
  <2>1. A = {}
    BY <1>0, FS_EmptySet
  <2>2. QED
    BY <2>1, SumEmpty
<1>2. ASSUME NEW n \in Nat, n \in T PROVE n + 1 \in T
  <2> SUFFICES ASSUME NEW A \in SUBSET S, Cardinality(A) = n + 1 PROVE Right(A)
    BY <1>0, <1>2
  <2>1. IsFiniteSet(A) /\ A # {}
    BY <1>0, FS_EmptySet
  <2>2. PICK p \in A : SumFunctionOnSet(f, A) = f[p] + SumFunctionOnSet(f, A \ {p})
    <3>1. Picked(A) \in A
      BY <1>0, <2>1, PickedLeaves
    <3>2. SumFunctionOnSet(f, A) = f[Picked(A)] + SumFunctionOnSet(f, A \ {Picked(A)})
      BY <2>1, SumPicked
    <3>3. QED
      BY <3>1, <3>2, Zenon
  <2>3. ASSUME NEW x \in A PROVE Cardinality(A \ {x}) = n /\ A \ {x} \in SUBSET S
    <3>1. Cardinality(A \ {x}) = Cardinality(A) - 1
      BY <2>1, <2>3, FS_RemoveElement
    <3>2. QED
      BY <2>3, <3>1
  <2>4. \A x \in A : Right(A \ {x})
    BY <1>2, <2>3
  <2>5. SumFunctionOnSet(f, A) \in Int
    BY <2>2, <2>4
  <2>6. ASSUME NEW x \in A, x # p
        PROVE  SumFunctionOnSet(f, A) = f[x] + SumFunctionOnSet(f, A \ {x})
    <3> DEFINE B == (A \ {p}) \ {x}
               y == SumFunctionOnSet(f, B)
    <3>1. B \in SUBSET S /\ Cardinality(B) <= n
      <4>1. B \in SUBSET (A \ {p}) /\ IsFiniteSet(A \ {p}) /\ Cardinality(A \ {p}) = n
        BY <1>0, <2>3
      <4>2. QED
        BY <4>1, FS_Subset
    <3>2. y \in Int /\ f[x] \in Int /\ f[p] \in Int
      BY <1>2, <3>1
    <3>3. SumFunctionOnSet(f, A \ {p}) = f[x] + y
      BY <2>4, <2>6
    <3>4. SumFunctionOnSet(f, A \ {x}) = f[p] + y
      <4>1. p \in A \ {x} /\ (A \ {x}) \ {p} = B
        BY <2>6
      <4>2. QED
        BY <2>4, <4>1
    <3> HIDE DEF y
    <3>5. QED
      BY <2>2, <3>2, <3>3, <3>4
  <2>7. QED
    BY <2>2, <2>5, <2>6
<1>3. Cardinality(S) \in T
  <2> HIDE DEF T
  <2>1. QED
    BY <1>1, <1>2, NumberInduction, FS_CardinalityType
<1>4. QED
  BY <1>3

(* The same, at a given element.                                           *)
LEMMA SumWithout ==
    ASSUME NEW f, NEW S, IsFiniteSet(S), \A x \in S : f[x] \in Int, NEW x \in S
    PROVE  SumFunctionOnSet(f, S) = f[x] + SumFunctionOnSet(f, S \ {x})
  BY SumRemove

(* The sum over a set and one more element.                                *)
LEMMA SumAdd ==
    ASSUME NEW f, NEW S, IsFiniteSet(S), NEW x, x \notin S, \A y \in S \cup {x} : f[y] \in Int
    PROVE  SumFunctionOnSet(f, S \cup {x}) = f[x] + SumFunctionOnSet(f, S)
<1>1. IsFiniteSet(S \cup {x})
  BY FS_AddElement
<1>2. (S \cup {x}) \ {x} = S
  OBVIOUS
<1>3. QED
  BY <1>1, <1>2, SumRemove

(* A sum is the sum over a part and the sum over the rest.                 *)
LEMMA SumSplit ==
    ASSUME NEW f, NEW S, IsFiniteSet(S), \A x \in S : f[x] \in Int, NEW D \in SUBSET S
    PROVE  SumFunctionOnSet(f, S) = SumFunctionOnSet(f, D) + SumFunctionOnSet(f, S \ D)
<1> DEFINE T == {A \in SUBSET D : SumFunctionOnSet(f, S)
                                      = SumFunctionOnSet(f, A) + SumFunctionOnSet(f, S \ A)}
<1>1. \A A \in SUBSET S : IsFiniteSet(A) /\ SumFunctionOnSet(f, A) \in Int
  <2> TAKE A \in SUBSET S
  <2>1. IsFiniteSet(A) /\ \A x \in A : f[x] \in Int
    BY FS_Subset
  <2>2. QED
    BY <2>1, SumRemove
<1>2. {} \in T
  <2>1. S \ {} = S /\ SumFunctionOnSet(f, S) \in Int
    BY <1>1
  <2>2. QED
    BY <2>1, SumEmpty
<1>3. ASSUME NEW A \in SUBSET D, NEW x \in D \ A, A \in T PROVE A \cup {x} \in T
  <2> DEFINE a == SumFunctionOnSet(f, A)
             r == SumFunctionOnSet(f, S \ (A \cup {x}))
  <2>1. SumFunctionOnSet(f, A \cup {x}) = f[x] + a
    <3>1. IsFiniteSet(A) /\ \A y \in A \cup {x} : f[y] \in Int
      BY <1>1
    <3>2. QED
      BY <1>3, <3>1, SumAdd
  <2>2. SumFunctionOnSet(f, S \ A) = f[x] + r
    <3>1. IsFiniteSet(S \ A) /\ \A y \in S \ A : f[y] \in Int
      BY <1>1
    <3>2. x \in S \ A /\ (S \ A) \ {x} = S \ (A \cup {x})
      BY <1>3
    <3>3. QED
      BY <3>1, <3>2, SumRemove
  <2>3. a \in Int /\ r \in Int /\ f[x] \in Int
    BY <1>1
  <2>4. SumFunctionOnSet(f, S) = a + SumFunctionOnSet(f, S \ A)
    BY <1>3
  <2> HIDE DEF a, r
  <2>5. SumFunctionOnSet(f, S) = SumFunctionOnSet(f, A \cup {x}) + r
    BY <2>1, <2>2, <2>3, <2>4
  <2>6. QED
    BY <2>5 DEF r
<1>4. D \in T
  <2>1. IsFiniteSet(D)
    BY <1>1
  <2> HIDE DEF T
  <2>2. QED
    BY <1>2, <1>3, <2>1, SetInduction
<1>5. QED
  BY <1>4

(* The sum after the values at one element changed.                        *)
LEMMA SumUpdate ==
    ASSUME NEW f, NEW g, NEW S, IsFiniteSet(S), NEW x \in S,
           \A y \in S : f[y] \in Int, g[x] \in Int, \A y \in S \ {x} : g[y] = f[y]
    PROVE  SumFunctionOnSet(g, S) = SumFunctionOnSet(f, S) + g[x] - f[x]
<1> DEFINE R == S \ {x}
<1>1. IsFiniteSet(R)
  BY FS_Subset
<1>2. SumFunctionOnSet(g, R) = SumFunctionOnSet(f, R)
  BY <1>1, SumSame
<1>3. SumFunctionOnSet(f, S) = f[x] + SumFunctionOnSet(f, R)
  BY SumRemove
<1>4. SumFunctionOnSet(g, S) = g[x] + SumFunctionOnSet(g, R)
  <2>1. \A y \in S : g[y] \in Int
    OBVIOUS
  <2>2. QED
    BY <2>1, SumRemove
<1>5. SumFunctionOnSet(f, R) \in Int
  <2>1. \A y \in R : f[y] \in Int
    OBVIOUS
  <2>2. QED
    BY <1>1, <2>1, SumRemove
<1> HIDE DEF R
<1>6. QED
  BY <1>2, <1>3, <1>4, <1>5

(* The sum of natural numbers is one.                                      *)
LEMMA SumNatural ==
    ASSUME NEW f, NEW S, IsFiniteSet(S), \A x \in S : f[x] \in Nat
    PROVE  SumFunctionOnSet(f, S) \in Nat
<1> DEFINE T == {A \in SUBSET S : SumFunctionOnSet(f, A) \in Nat}
<1>1. {} \in T
  BY SumEmpty
<1>2. ASSUME NEW A \in SUBSET S, NEW x \in S \ A, A \in T PROVE A \cup {x} \in T
  <2>1. IsFiniteSet(A) /\ \A y \in A \cup {x} : f[y] \in Int
    BY FS_Subset
  <2>2. SumFunctionOnSet(f, A \cup {x}) = f[x] + SumFunctionOnSet(f, A)
    BY <1>2, <2>1, SumAdd
  <2>3. f[x] \in Nat /\ SumFunctionOnSet(f, A) \in Nat
    BY <1>2
  <2>4. QED
    BY <2>2, <2>3
<1>3. S \in T
  <2> HIDE DEF T
  <2>1. QED
    BY <1>1, <1>2, SetInduction
<1>4. QED
  BY <1>3

(* The sum of nothing but zeros.                                           *)
LEMMA SumZero ==
    ASSUME NEW f, NEW S, IsFiniteSet(S), \A x \in S : f[x] = 0
    PROVE  SumFunctionOnSet(f, S) = 0
<1> DEFINE T == {A \in SUBSET S : SumFunctionOnSet(f, A) = 0}
<1>1. {} \in T
  BY SumEmpty
<1>2. ASSUME NEW A \in SUBSET S, NEW x \in S \ A, A \in T PROVE A \cup {x} \in T
  <2>1. IsFiniteSet(A) /\ \A y \in A \cup {x} : f[y] \in Int
    BY FS_Subset
  <2>2. SumFunctionOnSet(f, A \cup {x}) = f[x] + SumFunctionOnSet(f, A)
    BY <1>2, <2>1, SumAdd
  <2>3. QED
    BY <1>2, <2>2
<1>3. S \in T
  <2> HIDE DEF T
  <2>1. QED
    BY <1>1, <1>2, SetInduction
<1>4. QED
  BY <1>3

\* On S, h is a times f and b times g.
Combines(h, S, f, a, g, b) ==
    /\ a \in Int /\ b \in Int
    /\ \A x \in S : f[x] \in Int /\ g[x] \in Int /\ h[x] = f[x] * a + g[x] * b

(* The sum of a combination of two functions is that of their sums.        *)
LEMMA SumLinear ==
    ASSUME NEW f, NEW g, NEW h, NEW S, IsFiniteSet(S), NEW a, NEW b, Combines(h, S, f, a, g, b)
    PROVE  SumFunctionOnSet(h, S) = SumFunctionOnSet(f, S) * a + SumFunctionOnSet(g, S) * b
<1> DEFINE T == {A \in SUBSET S : /\ SumFunctionOnSet(f, A) \in Int /\ SumFunctionOnSet(g, A) \in Int
                                 /\ SumFunctionOnSet(h, A) = SumFunctionOnSet(f, A) * a
                                                                + SumFunctionOnSet(g, A) * b}
<1>1. a \in Int /\ b \in Int /\ \A x \in S : f[x] \in Int /\ g[x] \in Int /\ h[x] = f[x] * a + g[x] * b
  BY DEF Combines
<1>2. {} \in T
  BY <1>1, SumEmpty
<1>3. ASSUME NEW A \in SUBSET S, NEW x \in S \ A, A \in T PROVE A \cup {x} \in T
  <2>1. IsFiniteSet(A)
    BY FS_Subset
  <2>2. \A y \in A \cup {x} : f[y] \in Int /\ g[y] \in Int /\ h[y] \in Int
    BY <1>1
  <2>3. /\ SumFunctionOnSet(f, A \cup {x}) = f[x] + SumFunctionOnSet(f, A)
        /\ SumFunctionOnSet(g, A \cup {x}) = g[x] + SumFunctionOnSet(g, A)
        /\ SumFunctionOnSet(h, A \cup {x}) = h[x] + SumFunctionOnSet(h, A)
    BY <2>1, <2>2, SumAdd
  <2>4. PICK s, t, u \in Int : /\ s = SumFunctionOnSet(f, A) /\ t = SumFunctionOnSet(g, A)
                               /\ u = SumFunctionOnSet(h, A) /\ u = s * a + t * b
    BY <1>1, <1>3
  <2>5. PICK y, z, w \in Int : y = f[x] /\ z = g[x] /\ w = h[x] /\ w = y * a + z * b
    BY <1>1, <2>2
  <2>6. w + u = (y + s) * a + (z + t) * b
    BY <1>1, <2>4, <2>5
  <2>7. QED
    BY <1>3, <2>3, <2>4, <2>5, <2>6
<1>4. S \in T
  <2> HIDE DEF T
  <2>1. QED
    BY <1>2, <1>3, SetInduction
<1>5. QED
  BY <1>4

(* The sum over a range of places, one place further on.                   *)
LEMMA SumShift ==
    ASSUME NEW f, NEW g, NEW n \in Nat, \A i \in 1 .. n : g[i] \in Int /\ f[i + 1] = g[i]
    PROVE  SumFunctionOnSet(f, 2 .. n + 1) = SumFunctionOnSet(g, 1 .. n)
<1> DEFINE T == {m \in Nat : m <= n => SumFunctionOnSet(f, 2 .. m + 1) = SumFunctionOnSet(g, 1 .. m)}
<1>1. 0 \in T
  <2>1. 2 .. 0 + 1 = {} /\ 1 .. 0 = {}
    OBVIOUS
  <2>2. QED
    BY <2>1, SumEmpty
<1>2. ASSUME NEW m \in Nat, m \in T PROVE m + 1 \in T
  <2> SUFFICES ASSUME m + 1 <= n
               PROVE  SumFunctionOnSet(f, 2 .. (m + 1) + 1) = SumFunctionOnSet(g, 1 .. m + 1)
    OBVIOUS
  <2>1. /\ 2 .. (m + 1) + 1 = (2 .. m + 1) \cup {m + 2} /\ m + 2 \notin 2 .. m + 1
        /\ 1 .. m + 1 = (1 .. m) \cup {m + 1} /\ m + 1 \notin 1 .. m
    OBVIOUS
  <2>2. IsFiniteSet(2 .. m + 1) /\ IsFiniteSet(1 .. m)
    BY FS_Interval
  <2>3. \A i \in (1 .. m) \cup {m + 1} : g[i] \in Int
    OBVIOUS
  <2>4. ASSUME NEW i \in (2 .. m + 1) \cup {m + 2} PROVE f[i] \in Int
    <3>1. i - 1 \in 1 .. n /\ (i - 1) + 1 = i
      OBVIOUS
    <3>2. QED
      BY <3>1
  <2>5. SumFunctionOnSet(f, (2 .. m + 1) \cup {m + 2}) = f[m + 2] + SumFunctionOnSet(f, 2 .. m + 1)
    BY <2>1, <2>2, <2>4, SumAdd
  <2>6. SumFunctionOnSet(g, (1 .. m) \cup {m + 1}) = g[m + 1] + SumFunctionOnSet(g, 1 .. m)
    BY <2>1, <2>2, <2>3, SumAdd
  <2>7. f[m + 2] = g[m + 1]
    <3>1. m + 1 \in 1 .. n /\ (m + 1) + 1 = m + 2
      OBVIOUS
    <3>2. QED
      BY <3>1
  <2>8. SumFunctionOnSet(f, 2 .. m + 1) = SumFunctionOnSet(g, 1 .. m)
    BY <1>2
  <2>9. QED
    BY <2>1, <2>5, <2>6, <2>7, <2>8
<1>3. n \in T
  <2> HIDE DEF T
  <2>1. QED
    BY <1>1, <1>2, NumberInduction
<1>4. QED
  BY <1>3
=============================================================================

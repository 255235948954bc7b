------------------------------ MODULE FiniteData ------------------------------
(***************************************************************************)
(* Finite sets of numbers, and sums over finite sets.  An induction over    *)
(* the subsets of a finite set takes the set of those for which the claim   *)
(* holds where a rule of induction would take the claim itself.             *)
(***************************************************************************)
EXTENDS Integers, FiniteSetsExt, FiniteSetTheorems, WellFoundedInduction, TLAPS

LEMMA SubsetInduction ==
    ASSUME NEW W, IsFiniteSet(W), NEW Good,
           \A A \in SUBSET W : (\A a \in A : A \ {a} \in Good) => A \in Good
    PROVE  W \in Good
<1> DEFINE Bad == FiniteSubsetsOf(W) \ Good
<1>1. SUFFICES ASSUME Bad # {} PROVE FALSE
  BY DEF FiniteSubsetsOf
<1>2. PICK A \in Bad : \A B \in Bad : <<B, A>> \notin StrictSubsetOrdering(W)
  BY <1>1, FS_StrictSubsetOrderingWellFounded, WFMin
<1>3. A \subseteq W /\ IsFiniteSet(A)
  BY DEF FiniteSubsetsOf
<1>4. ASSUME NEW a \in A PROVE A \ {a} \in Good
  <2>1. A \ {a} \in FiniteSubsetsOf(W)
    BY <1>3, FS_RemoveElement DEF FiniteSubsetsOf
  <2>2. <<A \ {a}, A>> \in StrictSubsetOrdering(W)
    BY <1>3 DEF StrictSubsetOrdering
  <2>3. QED
    BY <1>2, <2>1, <2>2
<1>5. QED
  BY <1>3, <1>4

LEMMA GreatestNumber ==
    ASSUME NEW W, IsFiniteSet(W), W # {}, NEW f, \A w \in W : f[w] \in Nat
    PROVE  \E w \in W : \A v \in W : f[v] <= f[w]
<1> DEFINE Good == {A \in SUBSET W : A # {} => \E w \in A : \A v \in A : f[v] <= f[w]}
<1>1. ASSUME NEW A \in SUBSET W, \A a \in A : A \ {a} \in Good, A # {}
      PROVE  \E w \in A : \A v \in A : f[v] <= f[w]
  <2>1. PICK a \in A : TRUE
    BY <1>1
  <2>2. CASE A = {a}
    BY <2>2
  <2>3. CASE A # {a}
    <3>1. PICK w \in A \ {a} : \A v \in A \ {a} : f[v] <= f[w]
      BY <1>1, <2>1, <2>3
    <3>2. f[w] \in Nat /\ f[a] \in Nat
      OBVIOUS
    <3>3. CASE f[a] <= f[w]
      BY <3>1, <3>3
    <3>4. CASE ~(f[a] <= f[w])
      <4>1. \A v \in A : f[v] <= f[a]
        BY <3>1, <3>2, <3>4
      <4>2. QED
        BY <4>1
    <3>5. QED
      BY <3>3, <3>4
  <2>4. QED
    BY <2>2, <2>3
<1>2. \A A \in SUBSET W : (\A a \in A : A \ {a} \in Good) => A \in Good
  BY <1>1
<1>3. W \in Good
  <2> HIDE DEF Good
  <2>1. QED
    BY <1>2, SubsetInduction
<1>4. QED
  BY <1>3

-----------------------------------------------------------------------------
(* Sums.  SumFunctionOnSet takes the elements of the set in the order in     *)
(* which CHOOSE gives them; the lemmas show that it does not matter.         *)

Pick(s) == CHOOSE x \in s : TRUE

\* g adds up f over s as the recursion does.
AddsUp(f, g, s) == g[s] = IF s = {} THEN 0 ELSE f[Pick(s)] + g[s \ {Pick(s)}]

LEMMA PickOne ==
    ASSUME NEW s, s # {}
    PROVE  Pick(s) \in s
BY DEF Pick

LEMMA RecursionUnique ==
    ASSUME NEW S, IsFiniteSet(S), NEW f, NEW g, NEW h,
           \A s \in SUBSET S : AddsUp(f, g, s) /\ AddsUp(f, h, s)
    PROVE  g[S] = h[S]
<1> DEFINE Good == {s \in SUBSET S : g[s] = h[s]}
<1>1. ASSUME NEW A \in SUBSET S, \A a \in A : A \ {a} \in Good
      PROVE  A \in Good
  <2>1. CASE A = {}
    BY <2>1 DEF AddsUp
  <2>2. CASE A # {}
    <3>1. Pick(A) \in A
      BY <2>2, PickOne
    <3>2. g[A \ {Pick(A)}] = h[A \ {Pick(A)}]
      BY <1>1, <3>1
    <3>3. QED
      BY <2>2, <3>2 DEF AddsUp
  <2>3. QED
    BY <2>1, <2>2
<1>2. S \in Good
  <2> HIDE DEF Good
  <2>1. QED
    BY <1>1, SubsetInduction
<1>3. QED
  BY <1>2

LEMMA RecursionExists ==
    ASSUME NEW S, IsFiniteSet(S), NEW f
    PROVE  \E g : \A s \in SUBSET S : AddsUp(f, g, s)
<1> DEFINE Good == {A \in SUBSET S : \E g : \A s \in SUBSET A : AddsUp(f, g, s)}
<1>1. ASSUME NEW A \in SUBSET S, \A a \in A : A \ {a} \in Good
      PROVE  A \in Good
  <2> DEFINE G == [a \in A |-> CHOOSE g : \A s \in SUBSET (A \ {a}) : AddsUp(f, g, s)]
             h == [s \in SUBSET A |->
                      IF s = {} THEN 0 ELSE f[Pick(s)] + G[Pick(s)][s \ {Pick(s)}]]
  <2>1. ASSUME NEW a \in A, NEW s \in SUBSET (A \ {a})
        PROVE  AddsUp(f, G[a], s)
    <3>1. \E g : \A t \in SUBSET (A \ {a}) : AddsUp(f, g, t)
      BY <1>1
    <3>2. \A t \in SUBSET (A \ {a}) : AddsUp(f, G[a], t)
      BY <3>1
    <3>3. QED
      BY <3>2
  <2>2. \A s \in SUBSET A : h[s] = IF s = {} THEN 0 ELSE f[Pick(s)] + G[Pick(s)][s \ {Pick(s)}]
    OBVIOUS
  <2> HIDE DEF G, h
  <2>3. ASSUME NEW a \in A, NEW t \in SUBSET (A \ {a})
        PROVE  h[t] = G[a][t]
    <3>1. CASE t = {}
      BY <2>1, <2>2, <3>1 DEF AddsUp
    <3>2. CASE t # {}
      <4> DEFINE b == Pick(t)
                 u == t \ {b}
      <4>1. b \in t /\ b \in A /\ u \in SUBSET (A \ {a}) /\ u \in SUBSET (A \ {b})
        BY <3>2, PickOne
      <4>2. IsFiniteSet(u)
        BY <4>1, FS_Subset
      <4>3. \A s \in SUBSET u : s \in SUBSET (A \ {a}) /\ s \in SUBSET (A \ {b})
        BY <4>1
      <4> HIDE DEF u
      <4>4. \A s \in SUBSET u : AddsUp(f, G[a], s) /\ AddsUp(f, G[b], s)
        BY <2>1, <4>1, <4>3
      <4>5. G[a][u] = G[b][u]
        BY <4>2, <4>4, RecursionUnique
      <4>6. G[a][t] = f[b] + G[a][u]
        BY <2>1, <3>2 DEF AddsUp, u
      <4>7. h[t] = f[b] + G[b][u]
        BY <2>2, <3>2 DEF u
      <4>8. QED
        BY <4>5, <4>6, <4>7
    <3>3. QED
      BY <3>1, <3>2
  <2>4. ASSUME NEW s \in SUBSET A
        PROVE  AddsUp(f, h, s)
    <3>1. CASE s = {}
      BY <2>2, <3>1 DEF AddsUp
    <3>2. CASE s # {}
      <4>1. Pick(s) \in A /\ s \ {Pick(s)} \in SUBSET (A \ {Pick(s)})
        BY <3>2, PickOne
      <4>2. h[s \ {Pick(s)}] = G[Pick(s)][s \ {Pick(s)}]
        BY <2>3, <4>1
      <4>3. QED
        BY <2>2, <3>2, <4>2 DEF AddsUp
    <3>3. QED
      BY <3>1, <3>2
  <2>5. QED
    BY <2>4
<1>2. S \in Good
  <2> HIDE DEF Good
  <2>1. QED
    BY <1>1, SubsetInduction
<1>3. QED
  BY <1>2

LEMMA SumRecursion ==
    ASSUME NEW S, IsFiniteSet(S), NEW f
    PROVE  \E g : /\ \A s \in SUBSET S : AddsUp(f, g, s)
                  /\ g[S] = SumFunctionOnSet(f, S)
<1> DEFINE iter(i) == i = [s \in SUBSET S |-> IF s = {} THEN 0
                          ELSE f[CHOOSE x \in s : TRUE] + i[s \ {CHOOSE x \in s : TRUE}]]
<1>1. SumFunctionOnSet(f, S) = (CHOOSE i : iter(i))[S]
  BY DEF SumFunctionOnSet, FoldFunctionOnSet, MapThenFoldSet
<1>2. PICK g : \A s \in SUBSET S : AddsUp(f, g, s)
  BY RecursionExists
<1>3. \E i : iter(i)
  <2> DEFINE i == [s \in SUBSET S |-> g[s]]
  <2>1. ASSUME NEW s \in SUBSET S
        PROVE  i[s] = IF s = {} THEN 0
                      ELSE f[CHOOSE x \in s : TRUE] + i[s \ {CHOOSE x \in s : TRUE}]
    BY <1>2, PickOne DEF AddsUp, Pick
  <2>2. iter(i)
    BY <2>1
  <2>3. QED
    BY <2>2
<1>4. iter(CHOOSE i : iter(i))
  <2> HIDE DEF iter
  <2>1. QED
    BY <1>3
<1> DEFINE c == CHOOSE i : iter(i)
<1>5. \A s \in SUBSET S : c[s] = IF s = {} THEN 0
                          ELSE f[CHOOSE x \in s : TRUE] + c[s \ {CHOOSE x \in s : TRUE}]
  BY <1>4
<1> HIDE DEF c
<1>6. \A s \in SUBSET S : AddsUp(f, c, s)
  BY <1>5 DEF AddsUp, Pick
<1>7. QED
  BY <1>1, <1>6 DEF c

LEMMA SumOfNone == ASSUME NEW f PROVE SumFunctionOnSet(f, {}) = 0
<1>1. PICK g : AddsUp(f, g, {}) /\ g[{}] = SumFunctionOnSet(f, {})
  BY SumRecursion, FS_EmptySet
<1>2. QED
  BY <1>1 DEF AddsUp

LEMMA SumPicked ==
    ASSUME NEW S, IsFiniteSet(S), S # {}, NEW f
    PROVE  SumFunctionOnSet(f, S) = f[Pick(S)] + SumFunctionOnSet(f, S \ {Pick(S)})
<1> DEFINE T == S \ {Pick(S)}
<1>1. T \in SUBSET S /\ IsFiniteSet(T)
  BY FS_RemoveElement
<1>2. PICK g : (\A s \in SUBSET S : AddsUp(f, g, s)) /\ g[S] = SumFunctionOnSet(f, S)
  BY SumRecursion
<1>3. PICK h : (\A s \in SUBSET T : AddsUp(f, h, s)) /\ h[T] = SumFunctionOnSet(f, T)
  BY <1>1, SumRecursion
<1> HIDE DEF T
<1>4. \A s \in SUBSET T : AddsUp(f, g, s) /\ AddsUp(f, h, s)
  BY <1>1, <1>2, <1>3
<1>5. g[T] = h[T]
  BY <1>1, <1>4, RecursionUnique
<1>6. g[S] = f[Pick(S)] + g[T]
  BY <1>2 DEF AddsUp, T
<1>7. QED
  BY <1>2, <1>3, <1>5, <1>6 DEF T

LEMMA SumIsInt ==
    ASSUME NEW S, IsFiniteSet(S), NEW f, \A x \in S : f[x] \in Int
    PROVE  SumFunctionOnSet(f, S) \in Int
<1> DEFINE Good == {A \in SUBSET S : SumFunctionOnSet(f, A) \in Int}
<1>1. ASSUME NEW A \in SUBSET S, \A a \in A : A \ {a} \in Good
      PROVE  A \in Good
  <2>1. CASE A = {}
    BY <2>1, SumOfNone
  <2>2. CASE A # {}
    <3>1. Pick(A) \in A /\ IsFiniteSet(A)
      BY <2>2, PickOne, FS_Subset
    <3>2. SumFunctionOnSet(f, A \ {Pick(A)}) \in Int /\ f[Pick(A)] \in Int
      BY <1>1, <3>1
    <3>3. SumFunctionOnSet(f, A) = f[Pick(A)] + SumFunctionOnSet(f, A \ {Pick(A)})
      BY <2>2, <3>1, SumPicked
    <3>4. SumFunctionOnSet(f, A) \in Int
      BY <3>2, <3>3
    <3>5. QED
      BY <3>4
  <2>3. QED
    BY <2>1, <2>2
<1>2. S \in Good
  <2> HIDE DEF Good
  <2>1. QED
    BY <1>1, SubsetInduction
<1>3. QED
  BY <1>2

\* Any element may be taken out first.
LEMMA SumTakeOut ==
    ASSUME NEW S, IsFiniteSet(S), NEW f, \A y \in S : f[y] \in Int, NEW x \in S
    PROVE  SumFunctionOnSet(f, S) = f[x] + SumFunctionOnSet(f, S \ {x})
<1> DEFINE Out(A, a) == SumFunctionOnSet(f, A) = f[a] + SumFunctionOnSet(f, A \ {a})
           Good == {A \in SUBSET S : \A a \in A : Out(A, a)}
<1>1. ASSUME NEW A \in SUBSET S, \A a \in A : A \ {a} \in Good, NEW a \in A
      PROVE  Out(A, a)
  <2> DEFINE p == Pick(A)
             rest == (A \ {p}) \ {a}
  <2>1. p \in A /\ IsFiniteSet(A)
    BY PickOne, FS_Subset
  <2>2. SumFunctionOnSet(f, A) = f[p] + SumFunctionOnSet(f, A \ {p})
    BY <2>1, SumPicked
  <2> HIDE DEF p
  <2>3. CASE a = p
    BY <2>2, <2>3
  <2>4. CASE a # p
    <3>1. SumFunctionOnSet(f, A \ {p}) = f[a] + SumFunctionOnSet(f, rest)
      BY <1>1, <2>1, <2>4
    <3>2. SumFunctionOnSet(f, A \ {a}) = f[p] + SumFunctionOnSet(f, rest)
      <4>1. Out(A \ {a}, p)
        BY <1>1, <2>1, <2>4
      <4>2. (A \ {a}) \ {p} = rest
        OBVIOUS
      <4>3. QED
        BY <4>1, <4>2
    <3>3. SumFunctionOnSet(f, rest) \in Int /\ f[p] \in Int /\ f[a] \in Int
      <4>1. IsFiniteSet(rest) /\ \A y \in rest : f[y] \in Int
        BY <2>1, FS_RemoveElement
      <4> HIDE DEF rest
      <4>2. QED
        BY <2>1, <4>1, SumIsInt
    <3>4. QED
      BY <2>2, <3>1, <3>2, <3>3
  <2>5. QED
    BY <2>3, <2>4
<1>2. S \in Good
  <2>1. \A A \in SUBSET S : (\A a \in A : A \ {a} \in Good) => A \in Good
    BY <1>1
  <2> HIDE DEF Good
  <2>2. QED
    BY <2>1, SubsetInduction
<1>3. QED
  BY <1>2

\* A sum of larger numbers is larger; sums of the same numbers are the same.
LEMMA SumMonotone ==
    ASSUME NEW S, IsFiniteSet(S), NEW f, NEW g,
           \A x \in S : f[x] \in Int /\ g[x] \in Int /\ f[x] <= g[x]
    PROVE  SumFunctionOnSet(f, S) <= SumFunctionOnSet(g, S)
<1> DEFINE Good == {A \in SUBSET S : SumFunctionOnSet(f, A) <= SumFunctionOnSet(g, A)}
<1>1. ASSUME NEW A \in SUBSET S, \A a \in A : A \ {a} \in Good
      PROVE  A \in Good
  <2>1. CASE A = {}
    BY <2>1, SumOfNone
  <2>2. CASE A # {}
    <3> DEFINE p == Pick(A)
               B == A \ {p}
    <3>1. p \in A /\ IsFiniteSet(A) /\ IsFiniteSet(B)
      BY <2>2, PickOne, FS_Subset, FS_RemoveElement
    <3>2. SumFunctionOnSet(f, B) <= SumFunctionOnSet(g, B)
      BY <1>1, <3>1
    <3>3. SumFunctionOnSet(f, B) \in Int /\ SumFunctionOnSet(g, B) \in Int
      <4>1. \A x \in B : f[x] \in Int /\ g[x] \in Int
        OBVIOUS
      <4> HIDE DEF B
      <4>2. QED
        BY <3>1, <4>1, SumIsInt
    <3>4. /\ SumFunctionOnSet(f, A) = f[p] + SumFunctionOnSet(f, B)
          /\ SumFunctionOnSet(g, A) = g[p] + SumFunctionOnSet(g, B)
      BY <2>2, <3>1, SumPicked
    <3>5. f[p] \in Int /\ g[p] \in Int /\ f[p] <= g[p]
      BY <3>1
    <3> HIDE DEF p, B
    <3>6. SumFunctionOnSet(f, A) <= SumFunctionOnSet(g, A)
      BY <3>2, <3>3, <3>4, <3>5
    <3>7. QED
      BY <3>6
  <2>3. QED
    BY <2>1, <2>2
<1>2. S \in Good
  <2> HIDE DEF Good
  <2>1. QED
    BY <1>1, SubsetInduction
<1>3. QED
  BY <1>2

LEMMA SumSame ==
    ASSUME NEW S, IsFiniteSet(S), NEW f, NEW g, \A x \in S : f[x] \in Int /\ g[x] = f[x]
    PROVE  SumFunctionOnSet(g, S) = SumFunctionOnSet(f, S)
<1>1. /\ SumFunctionOnSet(f, S) \in Int /\ SumFunctionOnSet(g, S) \in Int
  BY SumIsInt
<1>2. SumFunctionOnSet(f, S) <= SumFunctionOnSet(g, S)
  BY SumMonotone
<1>3. SumFunctionOnSet(g, S) <= SumFunctionOnSet(f, S)
  BY SumMonotone
<1>4. QED
  BY <1>1, <1>2, <1>3

LEMMA SumIsNat ==
    ASSUME NEW S, IsFiniteSet(S), NEW f, \A x \in S : f[x] \in Nat
    PROVE  SumFunctionOnSet(f, S) \in Nat
<1> DEFINE Good == {A \in SUBSET S : SumFunctionOnSet(f, A) \in Nat}
<1>1. ASSUME NEW A \in SUBSET S, \A a \in A : A \ {a} \in Good
      PROVE  A \in Good
  <2>1. CASE A = {}
    BY <2>1, SumOfNone
  <2>2. CASE A # {}
    <3>1. Pick(A) \in A /\ IsFiniteSet(A)
      BY <2>2, PickOne, FS_Subset
    <3>2. SumFunctionOnSet(f, A \ {Pick(A)}) \in Nat /\ f[Pick(A)] \in Nat
      BY <1>1, <3>1
    <3>3. SumFunctionOnSet(f, A) = f[Pick(A)] + SumFunctionOnSet(f, A \ {Pick(A)})
      BY <2>2, <3>1, SumPicked
    <3>4. SumFunctionOnSet(f, A) \in Nat
      BY <3>2, <3>3
    <3>5. QED
      BY <3>4
  <2>3. QED
    BY <2>1, <2>2
<1>2. S \in Good
  <2> HIDE DEF Good
  <2>1. QED
    BY <1>1, SubsetInduction
<1>3. QED
  BY <1>2
LEMMA SumAdds ==
    ASSUME NEW S, IsFiniteSet(S), NEW f, NEW g, NEW h,
           \A x \in S : f[x] \in Int /\ g[x] \in Int /\ h[x] = f[x] + g[x]
    PROVE  SumFunctionOnSet(h, S) = SumFunctionOnSet(f, S) + SumFunctionOnSet(g, S)
<1> DEFINE Good == {A \in SUBSET S :
                       SumFunctionOnSet(h, A) = SumFunctionOnSet(f, A) + SumFunctionOnSet(g, A)}
<1>1. ASSUME NEW A \in SUBSET S, \A a \in A : A \ {a} \in Good
      PROVE  A \in Good
  <2>1. CASE A = {}
    BY <2>1, SumOfNone
  <2>2. CASE A # {}
    <3> DEFINE p == Pick(A)
               B == A \ {p}
    <3>1. p \in A /\ IsFiniteSet(A) /\ IsFiniteSet(B)
      BY <2>2, PickOne, FS_Subset, FS_RemoveElement
    <3>2. SumFunctionOnSet(h, B) = SumFunctionOnSet(f, B) + SumFunctionOnSet(g, B)
      BY <1>1, <3>1
    <3>3. SumFunctionOnSet(f, B) \in Int /\ SumFunctionOnSet(g, B) \in Int
      <4>1. \A x \in B : f[x] \in Int /\ g[x] \in Int
        OBVIOUS
      <4> HIDE DEF B
      <4>2. QED
        BY <3>1, <4>1, SumIsInt
    <3>4. /\ SumFunctionOnSet(f, A) = f[p] + SumFunctionOnSet(f, B)
          /\ SumFunctionOnSet(g, A) = g[p] + SumFunctionOnSet(g, B)
          /\ SumFunctionOnSet(h, A) = h[p] + SumFunctionOnSet(h, B)
      BY <2>2, <3>1, SumPicked
    <3>5. f[p] \in Int /\ g[p] \in Int /\ h[p] = f[p] + g[p]
      BY <3>1
    <3> HIDE DEF p, B
    <3>6. SumFunctionOnSet(h, A) = SumFunctionOnSet(f, A) + SumFunctionOnSet(g, A)
      BY <3>2, <3>3, <3>4, <3>5
    <3>7. QED
      BY <3>6
  <2>3. QED
    BY <2>1, <2>2
<1>2. S \in Good
  <2> HIDE DEF Good
  <2>1. QED
    BY <1>1, SubsetInduction
<1>3. QED
  BY <1>2

LEMMA SumOfPart ==
    ASSUME NEW S, IsFiniteSet(S), NEW f, \A x \in S : f[x] \in Nat, NEW T \in SUBSET S
    PROVE  SumFunctionOnSet(f, T) <= SumFunctionOnSet(f, S)
<1> DEFINE Good == {A \in SUBSET S : \A B \in SUBSET A :
                       SumFunctionOnSet(f, B) <= SumFunctionOnSet(f, A)}
<1>1. ASSUME NEW A \in SUBSET S, \A a \in A : A \ {a} \in Good, NEW B \in SUBSET A
      PROVE  SumFunctionOnSet(f, B) <= SumFunctionOnSet(f, A)
  <2>1. IsFiniteSet(A) /\ \A x \in A : f[x] \in Int /\ f[x] >= 0
    BY FS_Subset
  <2>2. SumFunctionOnSet(f, A) \in Int
    BY <2>1, SumIsInt
  <2>3. CASE B = A
    BY <2>2, <2>3
  <2>4. CASE B # A
    <3>1. PICK a \in A : a \notin B
      BY <2>4
    <3> DEFINE R == A \ {a}
    <3>2. SumFunctionOnSet(f, B) <= SumFunctionOnSet(f, R)
      BY <1>1, <3>1
    <3>3. SumFunctionOnSet(f, A) = f[a] + SumFunctionOnSet(f, R)
      BY <2>1, SumTakeOut
    <3>4. /\ IsFiniteSet(R) /\ IsFiniteSet(B)
          /\ (\A x \in R : f[x] \in Int) /\ (\A x \in B : f[x] \in Int)
      BY <2>1, FS_RemoveElement, FS_Subset
    <3> HIDE DEF R
    <3>5. SumFunctionOnSet(f, R) \in Int /\ SumFunctionOnSet(f, B) \in Int
      BY <3>4, SumIsInt
    <3>6. f[a] \in Int /\ f[a] >= 0
      BY <2>1
    <3>7. QED
      BY <3>2, <3>3, <3>5, <3>6
  <2>5. QED
    BY <2>3, <2>4
<1>2. S \in Good
  <2>1. \A A \in SUBSET S : (\A a \in A : A \ {a} \in Good) => A \in Good
    BY <1>1
  <2> HIDE DEF Good
  <2>2. QED
    BY <2>1, SubsetInduction
<1>3. QED
  BY <1>2

\* A sum is the sum of its parts inside and outside any set.
LEMMA SumSplit ==
    ASSUME NEW S, IsFiniteSet(S), NEW f, \A x \in S : f[x] \in Int, NEW T
    PROVE  SumFunctionOnSet(f, S) = SumFunctionOnSet(f, S \cap T) + SumFunctionOnSet(f, S \ T)
<1> DEFINE Good == {A \in SUBSET S :
                       SumFunctionOnSet(f, A) =
                          SumFunctionOnSet(f, A \cap T) + SumFunctionOnSet(f, A \ T)}
<1>1. ASSUME NEW A \in SUBSET S, \A a \in A : A \ {a} \in Good
      PROVE  SumFunctionOnSet(f, A) =
                SumFunctionOnSet(f, A \cap T) + SumFunctionOnSet(f, A \ T)
  <2>1. CASE A = {}
    <3>1. A \cap T = {} /\ A \ T = {} /\ SumFunctionOnSet(f, {}) = 0
      BY <2>1, SumOfNone
    <3>2. QED
      BY <2>1, <3>1
  <2>2. CASE A # {}
    <3>1. PICK a \in A : TRUE
      BY <2>2
    <3> DEFINE R == A \ {a}
               I == A \cap T
               O == A \ T
    <3>2. SumFunctionOnSet(f, R) = SumFunctionOnSet(f, R \cap T) + SumFunctionOnSet(f, R \ T)
      BY <1>1
    <3>3. /\ IsFiniteSet(A) /\ IsFiniteSet(I) /\ IsFiniteSet(O)
          /\ IsFiniteSet(R \cap T) /\ IsFiniteSet(R \ T)
      <4>1. \A B \in SUBSET S : IsFiniteSet(B)
        BY FS_Subset
      <4>2. A \in SUBSET S /\ I \in SUBSET S /\ O \in SUBSET S
            /\ R \cap T \in SUBSET S /\ R \ T \in SUBSET S
        OBVIOUS
      <4>3. QED
        BY <4>1, <4>2
    <3>4. /\ \A x \in A : f[x] \in Int
          /\ \A x \in I : f[x] \in Int
          /\ \A x \in O : f[x] \in Int
          /\ \A x \in R \cap T : f[x] \in Int
          /\ \A x \in R \ T : f[x] \in Int
      OBVIOUS
    <3>5. SumFunctionOnSet(f, A) = f[a] + SumFunctionOnSet(f, R)
      BY <3>3, <3>4, SumTakeOut
    <3>6. /\ SumFunctionOnSet(f, R \cap T) \in Int /\ SumFunctionOnSet(f, R \ T) \in Int
          /\ f[a] \in Int
      <4> HIDE DEF R
      <4>1. QED
        BY <3>3, <3>4, SumIsInt
    <3>7. CASE a \in T
      <4>1. a \in I /\ I \ {a} = R \cap T /\ O = R \ T
        BY <3>7
      <4>2. SumFunctionOnSet(f, I) = f[a] + SumFunctionOnSet(f, I \ {a})
        <5> HIDE DEF I
        <5>1. QED
          BY <3>3, <3>4, <4>1, SumTakeOut
      <4>3. SumFunctionOnSet(f, I \ {a}) = SumFunctionOnSet(f, R \cap T)
        BY <4>1
      <4>4. SumFunctionOnSet(f, O) = SumFunctionOnSet(f, R \ T)
        BY <4>1
      <4> DEFINE in == SumFunctionOnSet(f, R \cap T)
                 out == SumFunctionOnSet(f, R \ T)
      <4>5. /\ SumFunctionOnSet(f, I) = f[a] + in
            /\ SumFunctionOnSet(f, O) = out
            /\ SumFunctionOnSet(f, A) = f[a] + (in + out)
            /\ in \in Int /\ out \in Int
        BY <3>2, <3>5, <3>6, <4>2, <4>3, <4>4
      <4> HIDE DEF R, I, O, in, out
      <4>6. SumFunctionOnSet(f, A) = SumFunctionOnSet(f, I) + SumFunctionOnSet(f, O)
        BY <3>6, <4>5
      <4>7. QED
        BY <4>6 DEF I, O
    <3>8. CASE a \notin T
      <4>1. a \in O /\ O \ {a} = R \ T /\ I = R \cap T
        BY <3>8
      <4>2. SumFunctionOnSet(f, O) = f[a] + SumFunctionOnSet(f, O \ {a})
        <5> HIDE DEF O
        <5>1. QED
          BY <3>3, <3>4, <4>1, SumTakeOut
      <4>3. SumFunctionOnSet(f, O \ {a}) = SumFunctionOnSet(f, R \ T)
        BY <4>1
      <4>4. SumFunctionOnSet(f, I) = SumFunctionOnSet(f, R \cap T)
        BY <4>1
      <4> DEFINE in == SumFunctionOnSet(f, R \cap T)
                 out == SumFunctionOnSet(f, R \ T)
      <4>5. /\ SumFunctionOnSet(f, O) = f[a] + out
            /\ SumFunctionOnSet(f, I) = in
            /\ SumFunctionOnSet(f, A) = f[a] + (in + out)
            /\ in \in Int /\ out \in Int
        BY <3>2, <3>5, <3>6, <4>2, <4>3, <4>4
      <4> HIDE DEF R, I, O, in, out
      <4>6. SumFunctionOnSet(f, A) = SumFunctionOnSet(f, I) + SumFunctionOnSet(f, O)
        BY <3>6, <4>5
      <4>7. QED
        BY <4>6 DEF I, O
    <3>9. QED
      BY <3>7, <3>8
  <2>3. QED
    BY <2>1, <2>2
<1>2. S \in Good
  <2>1. \A A \in SUBSET S : (\A a \in A : A \ {a} \in Good) => A \in Good
    BY <1>1
  <2> HIDE DEF Good
  <2>2. QED
    BY <2>1, SubsetInduction
<1>3. QED
  BY <1>2

\* Numbers found again, each once and with the other sign, under other names.
LEMMA SumOpposite ==
    ASSUME NEW S, IsFiniteSet(S), NEW f, \A x \in S : f[x] \in Int,
           NEW b, \A x, y \in S : b[x] = b[y] => x = y,
           NEW g, \A x \in S : g[b[x]] = -f[x]
    PROVE  SumFunctionOnSet(g, {b[x] : x \in S}) = -SumFunctionOnSet(f, S)
<1> DEFINE Image(A) == {b[x] : x \in A}
           Good == {A \in SUBSET S : SumFunctionOnSet(g, Image(A)) = -SumFunctionOnSet(f, A)}
<1>1. ASSUME NEW A \in SUBSET S, \A a \in A : A \ {a} \in Good
      PROVE  SumFunctionOnSet(g, Image(A)) = -SumFunctionOnSet(f, A)
  <2>1. CASE A = {}
    <3>1. Image(A) = {} /\ SumFunctionOnSet(f, {}) = 0 /\ SumFunctionOnSet(g, {}) = 0
      BY <2>1, SumOfNone
    <3>2. QED
      BY <2>1, <3>1
  <2>2. CASE A # {}
    <3>1. PICK a \in A : TRUE
      BY <2>2
    <3> DEFINE R == A \ {a}
    <3>2. SumFunctionOnSet(g, Image(R)) = -SumFunctionOnSet(f, R)
      BY <1>1
    <3>3. Image(R) = Image(A) \ {b[a]} /\ b[a] \in Image(A)
      OBVIOUS
    <3>4. IsFiniteSet(A) /\ IsFiniteSet(R) /\ (\A x \in A : f[x] \in Int)
          /\ (\A x \in R : f[x] \in Int)
      BY FS_Subset, FS_RemoveElement
    <3>5. IsFiniteSet(Image(A))
      <4> DEFINE h == [x \in A |-> b[x]]
      <4>1. Image(A) = {h[x] : x \in A}
        OBVIOUS
      <4>2. h \in Surjection(A, Image(A))
        BY DEF Surjection
      <4> HIDE DEF h, Image
      <4>3. QED
        BY <3>4, <4>2, FS_Surjection
    <3>6. \A z \in Image(A) : g[z] \in Int
      <4>1. \A x \in A : g[b[x]] = -f[x] /\ f[x] \in Int
        OBVIOUS
      <4>2. \A x \in A : g[b[x]] \in Int
        BY <4>1
      <4>3. QED
        BY <4>2
    <3>7. SumFunctionOnSet(f, A) = f[a] + SumFunctionOnSet(f, R)
      BY <3>4, SumTakeOut
    <3> DEFINE J == Image(A)
               K == Image(R)
    <3>8. SumFunctionOnSet(g, J) = g[b[a]] + SumFunctionOnSet(g, K)
      <4>1. K = J \ {b[a]} /\ b[a] \in J /\ IsFiniteSet(J) /\ \A z \in J : g[z] \in Int
        BY <3>3, <3>5, <3>6
      <4> HIDE DEF J, K
      <4>2. QED
        BY <4>1, SumTakeOut
    <3>9. g[b[a]] = -f[a] /\ f[a] \in Int
      BY <3>1
    <3>10. SumFunctionOnSet(f, R) \in Int
      <4> HIDE DEF R
      <4>1. QED
        BY <3>4, SumIsInt
    <3>11. SumFunctionOnSet(g, K) = -SumFunctionOnSet(f, R)
      BY <3>2
    <3> HIDE DEF R, J, K
    <3>12. SumFunctionOnSet(g, J) = -SumFunctionOnSet(f, A)
      BY <3>7, <3>8, <3>9, <3>10, <3>11
    <3>13. QED
      BY <3>12 DEF J
  <2>3. QED
    BY <2>1, <2>2
<1>2. S \in Good
  <2>1. \A A \in SUBSET S : (\A a \in A : A \ {a} \in Good) => A \in Good
    BY <1>1
  <2> HIDE DEF Good
  <2>2. QED
    BY <2>1, SubsetInduction
<1>3. QED
  BY <1>2

-----------------------------------------------------------------------------
(* Numbers.                                                                 *)

LEMMA UpTo ==
    ASSUME NEW n \in Nat, NEW Good, 0 \in Good, \A k \in 1..n : k - 1 \in Good => k \in Good
    PROVE  n \in Good
<1> DEFINE Bad == (0..n) \ Good
           f == [k \in Bad |-> n - k]
<1>1. SUFFICES ASSUME Bad # {} PROVE FALSE
  OBVIOUS
<1>2. IsFiniteSet(Bad)
  <2>1. IsFiniteSet(0..n) /\ Bad \subseteq 0..n
    BY FS_Interval
  <2> HIDE DEF Bad
  <2>2. QED
    BY <2>1, FS_Subset
<1>3. \A k \in Bad : f[k] = n - k /\ f[k] \in Nat
  OBVIOUS
<1>4. PICK k \in Bad : \A m \in Bad : f[m] <= f[k]
  <2> HIDE DEF Bad, f
  <2>1. QED
    BY <1>1, <1>2, <1>3, GreatestNumber
<1>5. \A m \in Bad : k <= m
  BY <1>3, <1>4
<1>6. k \in 1..n /\ k \notin Good
  OBVIOUS
<1>7. k - 1 \notin Bad /\ k - 1 \in 0..n
  BY <1>5, <1>6
<1>8. QED
  BY <1>6, <1>7

\* The steps of a walk add up to the way from where it began to where it ends.
LEMMA Telescope ==
    ASSUME NEW n \in Nat, NEW at, NEW step, \A k \in 0..n : at[k] \in Int,
           \A k \in 1..n : at[k] = at[k - 1] + step[k] /\ step[k] \in Int
    PROVE  SumFunctionOnSet(step, 1..n) = at[n] - at[0]
<1> DEFINE Good == {k \in 0..n : SumFunctionOnSet(step, 1..k) = at[k] - at[0]}
<1>1. 0 \in Good
  <2>1. 1..0 = {} /\ at[0] \in Int
    OBVIOUS
  <2>2. SumFunctionOnSet(step, {}) = 0
    BY SumOfNone
  <2>3. QED
    BY <2>1, <2>2
<1>2. ASSUME NEW k \in 1..n, k - 1 \in Good PROVE k \in Good
  <2> DEFINE S == 1..k
             R == 1..(k - 1)
  <2>1. IsFiniteSet(S) /\ k \in S /\ S \ {k} = R /\ \A i \in S : step[i] \in Int
    <3>1. IsFiniteSet(S)
      BY FS_Interval
    <3>2. k \in S /\ S \ {k} = R
      OBVIOUS
    <3>3. \A i \in S : i \in 1..n
      OBVIOUS
    <3>4. QED
      BY <3>1, <3>2, <3>3
  <2>2. SumFunctionOnSet(step, R) = at[k - 1] - at[0]
    BY <1>2
  <2>3. at[k] = at[k - 1] + step[k] /\ step[k] \in Int /\ at[k - 1] \in Int /\ at[0] \in Int
    OBVIOUS
  <2> HIDE DEF S, R
  <2>4. SumFunctionOnSet(step, S) = step[k] + SumFunctionOnSet(step, R)
    BY <2>1, SumTakeOut
  <2>5. SumFunctionOnSet(step, S) = at[k] - at[0]
    BY <2>2, <2>3, <2>4
  <2>6. QED
    BY <2>5 DEF S
<1>3. n \in Good
  <2> HIDE DEF Good
  <2>1. QED
    BY <1>1, <1>2, UpTo
<1>4. QED
  BY <1>3
=============================================================================

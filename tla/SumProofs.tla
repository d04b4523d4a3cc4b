----------------------------- MODULE SumProofs -----------------------------
(***************************************************************************)
(* What the proofs of several components need of finite sets and numbers:  *)
(* induction over the subsets of a finite set and over the naturals, and   *)
(* sums of a function over a finite set.                                   *)
(***************************************************************************)
EXTENDS FiniteSetsExt, FiniteSetTheorems, WellFoundedInduction, TLAPS

-----------------------------------------------------------------------------
(* Induction over the subsets of a finite set, and over the naturals. *)

(* A set of subsets that holds each subset once it holds all its proper    *)
(* parts holds the whole finite set.                                       *)
LEMMA SubsetInduction ==
  ASSUME NEW S, IsFiniteSet(S), NEW G \in SUBSET SUBSET S,
         \A T \in SUBSET S : (\A U \in SUBSET T : U # T => U \in G) => T \in G
  PROVE  S \in G
<1> DEFINE B == (SUBSET S) \ G
<1> SUFFICES ASSUME B # {} PROVE FALSE
  OBVIOUS
<1>1. B \subseteq FiniteSubsetsOf(S)
  BY FS_FiniteSubsetsOfFinite
<1> HIDE DEF B
<1>2. PICK T \in B : \A U \in B : ~ (<<U, T>> \in StrictSubsetOrdering(S))
  BY <1>1, FS_StrictSubsetOrderingWellFounded, WFMin
<1>3. \A U \in SUBSET T : U # T => U \in G
  BY <1>2 DEF StrictSubsetOrdering, B
<1> QED
  BY <1>2, <1>3 DEF B

(* A set of naturals has a least element. *)
LEMMA NatLeast ==
  ASSUME NEW S \in SUBSET Nat, S # {}
  PROVE  \E n \in S : \A k \in S : n =< k
<1>1. PICK n \in S : TRUE
  OBVIOUS
<1> DEFINE T == {0..k : k \in {i \in S : i =< n}}
<1>2. T \subseteq FiniteSubsetsOf(0..n) /\ T # {}
  <2>1. \A k \in S : k =< n => 0..k \subseteq 0..n /\ IsFiniteSet(0..k)
    BY FS_Interval
  <2> QED
    BY <1>1, <2>1 DEF FiniteSubsetsOf
<1>3. PICK X \in T : \A U \in T : ~ (<<U, X>> \in StrictSubsetOrdering(0..n))
  <2> HIDE DEF T
  <2> QED
  BY <1>2, FS_StrictSubsetOrderingWellFounded, WFMin
<1>4. PICK m \in S : m =< n /\ X = 0..m
  BY <1>3
<1>5. ASSUME NEW k \in S, k < m PROVE FALSE
  <2>1. 0..k \in T /\ X = 0..m
    BY <1>4, <1>5
  <2>2. 0..k \subseteq 0..m /\ 0..m \subseteq 0..n /\ m \in 0..m /\ m \notin 0..k
    BY <1>4, <1>5
  <2> QED
    BY <1>3, <2>1, <2>2 DEF StrictSubsetOrdering
<1> QED
  BY <1>4, <1>5

(* A set of numbers that has one has a least. *)
LEMMA MinIsLeast ==
  ASSUME NEW S \in SUBSET Nat, NEW n \in S
  PROVE  Min(S) \in S /\ \A k \in S : Min(S) =< k
<1>1. \E x \in S : \A y \in S : x =< y
  BY NatLeast
<1> QED
  BY <1>1 DEF Min

(* Two numbers have a greatest and a least. *)
LEMMA OfTwo ==
  ASSUME NEW a \in Int, NEW b \in Int
  PROVE  Max({a, b}) = (IF a >= b THEN a ELSE b) /\ Min({a, b}) = (IF a =< b THEN a ELSE b)
<1>1. Max({a, b}) = CHOOSE x \in {a, b} : \A y \in {a, b} : x >= y
  BY DEF Max
<1>2. Min({a, b}) = CHOOSE x \in {a, b} : \A y \in {a, b} : x =< y
  BY DEF Min
<1>3. Max({a, b}) \in {a, b} /\ \A y \in {a, b} : Max({a, b}) >= y
  <2>1. \E x \in {a, b} : \A y \in {a, b} : x >= y
    OBVIOUS
  <2> QED
    BY <1>1, <2>1
<1>4. Min({a, b}) \in {a, b} /\ \A y \in {a, b} : Min({a, b}) =< y
  <2>1. \E x \in {a, b} : \A y \in {a, b} : x =< y
    OBVIOUS
  <2> QED
    BY <1>2, <2>1
<1> QED
  BY <1>3, <1>4

(* A set that holds 0 and every successor holds all naturals. *)
LEMMA NatInd ==
  ASSUME NEW S \in SUBSET Nat, 0 \in S, \A k \in S : k + 1 \in S
  PROVE  S = Nat
<1> SUFFICES ASSUME Nat \ S # {} PROVE FALSE
  OBVIOUS
<1>1. PICK n \in Nat \ S : \A k \in Nat \ S : n =< k
  BY NatLeast
<1>2. n # 0 /\ n - 1 \in Nat /\ n - 1 \in S
  BY <1>1
<1> QED
  BY <1>1, <1>2

-----------------------------------------------------------------------------
(* Sums over finite sets. *)

(* How SumFunctionOnSet adds up: one element, any, is taken away each time. *)
OneOf(s) == CHOOSE x \in s : TRUE
Adds(h, f, S) == h = [s \in SUBSET S |-> IF s = {} THEN 0 ELSE f[OneOf(s)] + h[s \ {OneOf(s)}]]

(* The library's sum is the value of such a function at the whole set. *)
LEMMA SumIsOne == \A f, S : SumFunctionOnSet(f, S) = (CHOOSE h : Adds(h, f, S))[S]
BY DEF SumFunctionOnSet, FoldFunctionOnSet, MapThenFoldSet, Adds, OneOf

(* What adding up does at each set. *)
LEMMA AddsStep ==
  ASSUME NEW h, NEW f, NEW S, Adds(h, f, S)
  PROVE  /\ h[{}] = 0
         /\ \A s \in SUBSET S : s # {} => OneOf(s) \in s /\ h[s] = f[OneOf(s)] + h[s \ {OneOf(s)}]
<1>1. {} \in SUBSET S
  OBVIOUS
<1>2. \A s \in SUBSET S : h[s] = IF s = {} THEN 0 ELSE f[OneOf(s)] + h[s \ {OneOf(s)}]
  BY Zenon DEF Adds
<1>3. \A s : s # {} => OneOf(s) \in s
  BY DEF OneOf
<1> QED
  BY <1>1, <1>2, <1>3, Zenon

(* Adding up in two ways gives the same. *)
LEMMA AddsSame ==
  ASSUME NEW S, NEW T, NEW f, NEW g, NEW h, NEW k, Adds(h, f, S), Adds(k, g, T),
         NEW U, IsFiniteSet(U), U \subseteq S, U \subseteq T, \A x \in U : f[x] = g[x]
  PROVE  h[U] = k[U]
<1> DEFINE G == {V \in SUBSET U : h[V] = k[V]}
<1>1. ASSUME NEW V \in SUBSET U, \A W \in SUBSET V : W # V => W \in G
      PROVE  V \in G
  <2>1. CASE V = {}
    BY <2>1, AddsStep
  <2>2. CASE V # {}
    <3> DEFINE W == V \ {OneOf(V)}
    <3>1. /\ OneOf(V) \in V /\ h[V] = f[OneOf(V)] + h[W] /\ k[V] = g[OneOf(V)] + k[W]
      <4>1. V \in SUBSET S /\ V \in SUBSET T
        OBVIOUS
      <4> QED
        BY <2>2, <4>1, AddsStep
    <3>2. W \in SUBSET V /\ W # V
      BY <3>1
    <3>3. h[W] = k[W] /\ f[OneOf(V)] = g[OneOf(V)]
      BY <1>1, <3>1, <3>2
    <3> QED
      BY <3>1, <3>3
  <2> QED
    BY <2>1, <2>2
<1>2. U \in G
  <2>1. G \in SUBSET SUBSET U
    OBVIOUS
  <2> HIDE DEF G
  <2> QED
    BY <1>1, <2>1, SubsetInduction
<1> QED
  BY <1>2

(* The order of adding does not matter. *)
LEMMA AddsAny ==
  ASSUME NEW S, NEW f, NEW h, IsFiniteSet(S), Adds(h, f, S), \A x \in S : f[x] \in Nat
  PROVE  h[S] \in Nat /\ \A x \in S : h[S] = h[S \ {x}] + f[x]
<1> DEFINE Q(V) == h[V] \in Nat /\ \A x \in V : h[V] = h[V \ {x}] + f[x]
           G == {V \in SUBSET S : Q(V)}
<1>1. ASSUME NEW V \in SUBSET S, \A W \in SUBSET V : W # V => W \in G
      PROVE  V \in G
  <2>1. CASE V = {}
    BY <2>1, AddsStep
  <2>2. CASE V # {}
    <3> DEFINE c == OneOf(V)
    <3>1. c \in V /\ h[V] = f[c] + h[V \ {c}] /\ f[c] \in Nat
      <4>1. c \in V /\ h[V] = f[c] + h[V \ {c}]
        BY <2>2, AddsStep
      <4> HIDE DEF c
      <4> QED
        BY <4>1
    <3> HIDE DEF c
    <3>2. V \ {c} \in G
      BY <1>1, <3>1
    <3>3. h[V \ {c}] \in Nat /\ h[V] \in Nat
      BY <3>1, <3>2
    <3>4. ASSUME NEW x \in V, x # c
          PROVE  h[V] = h[V \ {x}] + f[x]
      <4> DEFINE W == (V \ {c}) \ {x}
      <4>1. V \ {x} \in G /\ c \in V \ {x} /\ x \in V \ {c} /\ W = (V \ {x}) \ {c}
        BY <1>1, <3>1, <3>4
      <4>2. h[V \ {c}] = h[W] + f[x] /\ h[V \ {x}] = h[W] + f[c]
        BY <3>2, <4>1
      <4>3. W \in SUBSET V /\ W # V
        BY <3>1
      <4>4. h[W] \in Nat /\ f[x] \in Nat
        BY <1>1, <4>3
      <4> HIDE DEF W
      <4> QED
        BY <3>1, <4>2, <4>4
    <3>5. \A x \in V : h[V] = h[V \ {x}] + f[x]
      <4>1. h[V] = h[V \ {c}] + f[c]
        BY <3>1, <3>3
      <4> QED
        BY <3>4, <4>1
    <3> QED
      BY <3>3, <3>5
  <2> QED
    BY <2>1, <2>2
<1>2. S \in G
  <2>1. G \in SUBSET SUBSET S
    OBVIOUS
  <2> HIDE DEF G
  <2> QED
    BY <1>1, <2>1, SubsetInduction
<1> QED
  BY <1>2

(* The sums of the sets of at most k elements. *)
Deeper(F, f, S) == [s \in SUBSET S |-> IF s = {} THEN 0 ELSE f[OneOf(s)] + F[s \ {OneOf(s)}]]

(* A finite set can be added up. *)
LEMMA AddsExists ==
  ASSUME NEW S, NEW f, IsFiniteSet(S), \A x \in S : f[x] \in Nat
  PROVE  \E h : Adds(h, f, S)
<1> DEFINE Upto(n) == \E F \in [SUBSET S -> Nat] :
                        \A s \in SUBSET S : Cardinality(s) =< n =>
                          F[s] = IF s = {} THEN 0 ELSE f[OneOf(s)] + F[s \ {OneOf(s)}]
           T == {n \in Nat : Upto(n)}
<1>1. Upto(0)
  <2> DEFINE F == [s \in SUBSET S |-> 0]
  <2>1. F \in [SUBSET S -> Nat]
    OBVIOUS
  <2>2. \A s \in SUBSET S : Cardinality(s) =< 0 => s = {}
    <3> SUFFICES ASSUME NEW s \in SUBSET S, Cardinality(s) =< 0 PROVE s = {}
      OBVIOUS
    <3>1. IsFiniteSet(s) /\ Cardinality(s) \in Nat
      BY FS_Subset, FS_CardinalityType
    <3> QED
      BY <3>1, FS_EmptySet
  <2>3. \A s \in SUBSET S : Cardinality(s) =< 0 =>
          F[s] = IF s = {} THEN 0 ELSE f[OneOf(s)] + F[s \ {OneOf(s)}]
    BY <2>2
  <2> HIDE DEF F
  <2> QED
    BY <2>1, <2>3
<1>2. ASSUME NEW n \in Nat, Upto(n) PROVE Upto(n + 1)
  <2>1. PICK F \in [SUBSET S -> Nat] :
          \A s \in SUBSET S : Cardinality(s) =< n =>
            F[s] = IF s = {} THEN 0 ELSE f[OneOf(s)] + F[s \ {OneOf(s)}]
    BY <1>2
  <2> DEFINE H == Deeper(F, f, S)
  <2>2. \A s \in SUBSET S : H[s] = IF s = {} THEN 0 ELSE f[OneOf(s)] + F[s \ {OneOf(s)}]
    BY DEF Deeper
  <2>3. \A s \in SUBSET S : s # {} => OneOf(s) \in s /\ OneOf(s) \in S /\ s \ {OneOf(s)} \in SUBSET S
    BY DEF OneOf
  <2> HIDE DEF H
  <2>4. H \in [SUBSET S -> Nat]
    <3>1. \A s \in SUBSET S : H[s] \in Nat
      <4> SUFFICES ASSUME NEW s \in SUBSET S PROVE H[s] \in Nat
        OBVIOUS
      <4>1. CASE s = {}
        <5>1. H[s] = 0
          BY <2>2, <4>1, Zenon
        <5> QED
          BY <5>1
      <4>2. CASE s # {}
        <5>1. f[OneOf(s)] \in Nat /\ F[s \ {OneOf(s)}] \in Nat
          BY <2>1, <2>3, <4>2
        <5>2. H[s] = f[OneOf(s)] + F[s \ {OneOf(s)}]
          BY <2>2, <4>2
        <5> QED
          BY <5>1, <5>2
      <4> QED
        BY <4>1, <4>2
    <3> QED
      BY <3>1 DEF H, Deeper
  <2>5. ASSUME NEW s \in SUBSET S, Cardinality(s) =< n
        PROVE  H[s] = F[s]
    BY <2>1, <2>2, <2>5
  <2>6. ASSUME NEW s \in SUBSET S, Cardinality(s) =< n + 1, s # {}
        PROVE  H[s] = f[OneOf(s)] + H[s \ {OneOf(s)}]
    <3> DEFINE r == s \ {OneOf(s)}
    <3>1. IsFiniteSet(s) /\ Cardinality(s) \in Nat
      BY FS_Subset, FS_CardinalityType
    <3>2. Cardinality(r) = Cardinality(s) - 1 /\ r \in SUBSET S
      BY <2>3, <2>6, <3>1, FS_RemoveElement
    <3>3. Cardinality(r) =< n
      BY <2>6, <3>1, <3>2
    <3>4. H[r] = F[r]
      BY <2>5, <3>2, <3>3
    <3> QED
      BY <2>2, <2>6, <3>4
  <2>7. \A s \in SUBSET S : Cardinality(s) =< n + 1 =>
          H[s] = IF s = {} THEN 0 ELSE f[OneOf(s)] + H[s \ {OneOf(s)}]
    BY <2>2, <2>6
  <2> QED
    BY <2>4, <2>7
<1> HIDE DEF Upto
<1>3. T = Nat
  <2>1. 0 \in T /\ \A m \in T : m + 1 \in T
    BY <1>1, <1>2
  <2>2. T \subseteq Nat
    OBVIOUS
  <2> HIDE DEF T
  <2> QED
    BY <2>1, <2>2, NatInd
<1>4. Cardinality(S) \in Nat /\ \A s \in SUBSET S : Cardinality(s) =< Cardinality(S)
  BY FS_CardinalityType, FS_Subset
<1>5. Upto(Cardinality(S))
  BY <1>3, <1>4
<1>6. PICK F \in [SUBSET S -> Nat] :
        \A s \in SUBSET S : Cardinality(s) =< Cardinality(S) =>
          F[s] = IF s = {} THEN 0 ELSE f[OneOf(s)] + F[s \ {OneOf(s)}]
  BY <1>5 DEF Upto
<1>7. \A s \in SUBSET S : F[s] = IF s = {} THEN 0 ELSE f[OneOf(s)] + F[s \ {OneOf(s)}]
  BY <1>4, <1>6
<1>8. F = Deeper(F, f, S)
  BY <1>7 DEF Deeper
<1> QED
  BY <1>8 DEF Adds, Deeper

Sum(f, S) == SumFunctionOnSet(f, S)

(* Sums of naturals over a finite set: a natural, to which each element    *)
(* contributes its own.                                                    *)
LEMMA SumTakes ==
  ASSUME NEW S, NEW f, IsFiniteSet(S), \A x \in S : f[x] \in Nat
  PROVE  /\ Sum(f, S) \in Nat
         /\ \A x \in S : Sum(f, S) = Sum(f, S \ {x}) + f[x]
<1> DEFINE h == CHOOSE h : Adds(h, f, S)
<1>1. Adds(h, f, S) /\ Sum(f, S) = h[S]
  BY AddsExists, SumIsOne DEF Sum
<1>2. ASSUME NEW x \in S PROVE Sum(f, S \ {x}) = h[S \ {x}]
  <2> DEFINE U == S \ {x}
             k == CHOOSE k : Adds(k, f, U)
  <2>1. IsFiniteSet(U) /\ \A y \in U : f[y] \in Nat
    BY FS_Subset
  <2>2. Adds(k, f, U) /\ Sum(f, U) = k[U]
    BY <2>1, AddsExists, SumIsOne DEF Sum
  <2> HIDE DEF k, h
  <2>3. k[U] = h[U]
    BY <1>1, <2>1, <2>2, AddsSame
  <2> QED
    BY <2>2, <2>3
<1> HIDE DEF h
<1> QED
  BY <1>1, <1>2, AddsAny

(* Nothing adds up to 0. *)
LEMMA SumEmpty == \A f : Sum(f, {}) = 0
<1> SUFFICES ASSUME NEW f PROVE Sum(f, {}) = 0
  OBVIOUS
<1> DEFINE h == CHOOSE h : Adds(h, f, {})
<1>1. Adds(h, f, {}) /\ Sum(f, {}) = h[{}]
  BY AddsExists, SumIsOne, FS_EmptySet DEF Sum
<1> HIDE DEF h
<1> QED
  BY <1>1, AddsStep

(* Functions that agree on a set have the same sum over it. *)
LEMMA SumSame ==
  ASSUME NEW S, NEW f, NEW g, IsFiniteSet(S), \A x \in S : f[x] \in Nat /\ f[x] = g[x]
  PROVE  Sum(f, S) = Sum(g, S)
<1> DEFINE h == CHOOSE h : Adds(h, f, S)
           k == CHOOSE k : Adds(k, g, S)
<1>1. Adds(h, f, S) /\ Sum(f, S) = h[S]
  BY AddsExists, SumIsOne DEF Sum
<1>2. Adds(k, g, S) /\ Sum(g, S) = k[S]
  BY AddsExists, SumIsOne DEF Sum
<1> HIDE DEF h, k
<1> QED
  BY <1>1, <1>2, AddsSame

(* What is 0 may be left out. *)
LEMMA SumWithout ==
  ASSUME NEW S, NEW T \in SUBSET S, NEW f, IsFiniteSet(S), \A x \in S : f[x] \in Nat,
         \A x \in S \ T : f[x] = 0
  PROVE  Sum(f, S) = Sum(f, T)
<1> DEFINE G == {V \in SUBSET S : Sum(f, V) = Sum(f, V \cap T)}
<1>1. ASSUME NEW V \in SUBSET S, \A W \in SUBSET V : W # V => W \in G
      PROVE  V \in G
  <2>1. CASE V \subseteq T
    <3>1. V \cap T = V
      BY <2>1
    <3> QED
      BY <3>1
  <2>2. ASSUME NEW x \in V, x \notin T PROVE V \in G
    <3>1. Sum(f, V \ {x}) = Sum(f, V \cap T)
      <4>1. V \ {x} \in G /\ (V \ {x}) \cap T = V \cap T
        BY <1>1, <2>2
      <4> QED
        BY <4>1
    <3>2. IsFiniteSet(V) /\ \A y \in V : f[y] \in Nat
      BY FS_Subset
    <3>3. Sum(f, V) = Sum(f, V \ {x}) + f[x]
      BY <3>2, SumTakes
    <3>4. Sum(f, V \ {x}) \in Nat
      BY <3>2, SumTakes, FS_Subset
    <3>5. f[x] = 0
      BY <2>2
    <3>6. Sum(f, V) = Sum(f, V \cap T)
      <4> HIDE DEF G
      <4> QED
        BY <3>1, <3>3, <3>4, <3>5
    <3> QED
      BY <3>6
  <2> QED
    BY <2>1, <2>2
<1>2. S \in G
  <2>1. G \in SUBSET SUBSET S
    OBVIOUS
  <2> HIDE DEF G
  <2> QED
    BY <1>1, <2>1, SubsetInduction
<1>3. S \cap T = T
  OBVIOUS
<1> QED
  BY <1>2, <1>3

(* A set of numbers up to n has a greatest one. *)
LEMMA MaxIsIn ==
  ASSUME NEW n \in Nat, NEW S \in SUBSET (1..n), S # {}
  PROVE  Max(S) \in S /\ \A k \in S : Max(S) >= k
<1> DEFINE D == {n - k : k \in S}
<1>1. D \in SUBSET Nat
  <2>1. \A k \in S : n - k \in Nat
    OBVIOUS
  <2>2. QED BY <2>1
<1>2. D # {}
  <2>1. PICK k \in S : TRUE
    OBVIOUS
  <2>2. n - k \in D
    BY <2>1
  <2>3. QED BY <2>2
<1>3. PICK d \in D : \A k \in D : d =< k
  <2> HIDE DEF D
  <2> QED BY <1>1, <1>2, NatLeast
<1>4. PICK x \in S : d = n - x
  OBVIOUS
<1>5. ASSUME NEW k \in S PROVE x >= k
  <2>1. n - x =< n - k
    BY <1>3, <1>4
  <2>2. QED BY <2>1
<1>6. QED BY <1>4, <1>5 DEF Max

(* An interval has as many elements as its bounds tell. *)
LEMMA IntervalCount ==
  ASSUME NEW a \in Nat, NEW b \in Nat, a =< b
  PROVE  IsFiniteSet((a + 1)..b) /\ Cardinality((a + 1)..b) = b - a
<1>1. a + 1 \in Int /\ b \in Int
  OBVIOUS
<1>2. IsFiniteSet((a + 1)..b)
      /\ Cardinality((a + 1)..b) = IF a + 1 > b THEN 0 ELSE b - (a + 1) + 1
  BY <1>1, FS_Interval, Zenon
<1>3. QED BY <1>2

=============================================================================

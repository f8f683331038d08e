------------------------------- MODULE FiniteSetFacts -------------------------------
(***************************************************************************)
(* What the proofs need of sums and extremes of finite sets.  The library  *)
(* defines SumFunctionOnSet by recursion over the subsets, in an order     *)
(* CHOOSE picks; its theorems on induction take an operator, which the     *)
(* provers cannot instantiate, so every induction here is by a least       *)
(* counterexample, a set that WFMin finds.                                 *)
(***************************************************************************)
EXTENDS FiniteSetsExt, FiniteSetTheorems, TLAPS

First(s) == CHOOSE x \in s : TRUE

\* g is the function that the sum over subsets of S is defined by.
Adds(f, S, g) ==
  g = [s \in SUBSET S |-> IF s = {} THEN 0 ELSE f[First(s)] + g[s \ {First(s)}]]

(***************************************************************************)
(* A non-empty set of subsets of a finite set has a least element, one no  *)
(* other is strictly contained in.                                         *)
(***************************************************************************)
LEMMA LeastSubset ==
  ASSUME NEW S, IsFiniteSet(S), NEW B \in SUBSET SUBSET S, B # {}
  PROVE  \E m \in B : \A t \in B : t \subseteq m => t = m
<1>1. IsWellFoundedOn(StrictSubsetOrdering(S), SUBSET S)
  BY FS_StrictSubsetOrderingWellFounded, FS_FiniteSubsetsOfFinite
<1>2. PICK m \in B : \A t \in B : <<t, m>> \notin StrictSubsetOrdering(S)
  BY <1>1, WFMin
<1> QED
  BY <1>2 DEF StrictSubsetOrdering

(***************************************************************************)
(* A finite set of integers that is not empty has a greatest and a least   *)
(* member: one with as few as possible above it, or below it.              *)
(***************************************************************************)
LEMMA MaxIsGreatest ==
  ASSUME NEW S, S \subseteq Int, IsFiniteSet(S), S # {}
  PROVE  Max(S) \in S /\ \A u \in S : u <= Max(S)
<1>0. \A B \in SUBSET SUBSET S : B # {} => \E a \in B : \A b \in B : b \subseteq a => b = a
  BY ONLY IsFiniteSet(S), LeastSubset
<1> DEFINE Above(v) == {u \in S : u > v}
           B == {Above(v) : v \in S}
<1>1. B \in SUBSET SUBSET S /\ B # {}
  OBVIOUS
<1>2. \E a \in B : \A b \in B : b \subseteq a => b = a
  <2> HIDE DEF B
  <2> QED
    BY <1>1, <1>0
<1>3. PICK v \in S : \A b \in B : b \subseteq Above(v) => b = Above(v)
  BY <1>2
<1>4. \A u \in S : u <= v
  <2> SUFFICES ASSUME NEW u \in S, u > v
               PROVE  FALSE
    OBVIOUS
  <2>1. u \in Int /\ v \in Int /\ \A w \in S : w \in Int
    OBVIOUS
  <2>2. \A w \in S : w > u => w > v
    BY <2>1
  <2>3. u \in Above(v) /\ u \notin Above(u)
    BY <2>1
  <2> QED
    BY <1>3, <2>2, <2>3
<1> QED
  BY <1>4 DEF Max

LEMMA MinIsLeast ==
  ASSUME NEW S, S \subseteq Int, IsFiniteSet(S), S # {}
  PROVE  Min(S) \in S /\ \A u \in S : Min(S) <= u
<1>0. \A B \in SUBSET SUBSET S : B # {} => \E a \in B : \A b \in B : b \subseteq a => b = a
  BY ONLY IsFiniteSet(S), LeastSubset
<1> DEFINE Below(v) == {u \in S : u < v}
           B == {Below(v) : v \in S}
<1>1. B \in SUBSET SUBSET S /\ B # {}
  OBVIOUS
<1>2. \E a \in B : \A b \in B : b \subseteq a => b = a
  <2> HIDE DEF B
  <2> QED
    BY <1>1, <1>0
<1>3. PICK v \in S : \A b \in B : b \subseteq Below(v) => b = Below(v)
  BY <1>2
<1>4. \A u \in S : v <= u
  <2> SUFFICES ASSUME NEW u \in S, u < v
               PROVE  FALSE
    OBVIOUS
  <2>1. u \in Int /\ v \in Int /\ \A w \in S : w \in Int
    OBVIOUS
  <2>2. \A w \in S : w < u => w < v
    BY <2>1
  <2>3. u \in Below(v) /\ u \notin Below(u)
    BY <2>1
  <2> QED
    BY <1>3, <2>2, <2>3
<1> QED
  BY <1>4 DEF Min

LEMMA SumByRecursion ==
  ASSUME NEW f, NEW S
  PROVE  SumFunctionOnSet(f, S) = (CHOOSE g : Adds(f, S, g))[S]
BY Zenon DEF SumFunctionOnSet, FoldFunctionOnSet, MapThenFoldSet, Adds, First

(***************************************************************************)
(* There is one such function.                                             *)
(***************************************************************************)
LEMMA AddsUnique ==
  ASSUME NEW f, NEW S, IsFiniteSet(S), NEW g, NEW h, Adds(f, S, g), Adds(f, S, h)
  PROVE  g = h
<1> DEFINE B == {s \in SUBSET S : g[s] # h[s]}
<1>1. CASE B = {}
  BY <1>1 DEF Adds
<1>2. CASE B # {}
  <2> DEFINE Least(m) == \A t \in B : t \subseteq m => t = m
  <2>0. \E m \in B : Least(m)
    <3>1. B \in SUBSET SUBSET S
      OBVIOUS
    <3> HIDE DEF B
    <3> QED
      BY <1>2, <3>1, LeastSubset
  <2>1. PICK m \in B : Least(m)
    BY <2>0
  <2>2. CASE m = {}
    BY <2>1, <2>2 DEF Adds
  <2>3. CASE m # {}
    <3>1. First(m) \in m
      BY <2>3 DEF First
    <3>2. g[m \ {First(m)}] = h[m \ {First(m)}]
      BY <2>1, <3>1
    <3> QED
      BY <2>1, <2>3, <3>2 DEF Adds
  <2> QED
    BY <2>2, <2>3
<1> QED
  BY <1>1, <1>2

LEMMA AddsRestricted ==
  ASSUME NEW f, NEW S, NEW g, Adds(f, S, g), NEW T \in SUBSET S
  PROVE  Adds(f, T, [s \in SUBSET T |-> g[s]])
BY DEF Adds

(***************************************************************************)
(* It exists.                                                              *)
(***************************************************************************)
LEMMA AddsExtended ==
  ASSUME NEW f, NEW S, IsFiniteSet(S),
         \A t \in SUBSET S : t # S => \E g : Adds(f, t, g)
  PROVE  \E g : Adds(f, S, g)
<1> DEFINE G(t) == CHOOSE g : Adds(f, t, g)
           v == [t \in SUBSET S |-> IF t = S THEN IF S = {} THEN 0 ELSE
                   f[First(S)] + G(S \ {First(S)})[S \ {First(S)}] ELSE G(t)[t]]
<1>1. \A t \in SUBSET S : t # S => Adds(f, t, G(t))
  OBVIOUS
<1>2. ASSUME NEW s \in SUBSET S
      PROVE  v[s] = IF s = {} THEN 0 ELSE f[First(s)] + v[s \ {First(s)}]
  <2>1. CASE s = {}
    <3>1. CASE s = S
      BY <2>1, <3>1
    <3>2. CASE s # S
      BY <1>1, <2>1, <3>2 DEF Adds
    <3> QED
      BY <3>1, <3>2
  <2>2. CASE s # {}
    <3> DEFINE r == s \ {First(s)}
    <3>1. First(s) \in s /\ r \in SUBSET S /\ r # s /\ r # S
      BY <2>2 DEF First
    <3>2. v[r] = G(r)[r]
      BY <3>1
    <3>3. CASE s = S
      BY <2>2, <3>2, <3>3
    <3>4. CASE s # S
      <4>1. Adds(f, s, G(s)) /\ Adds(f, r, G(r))
        BY <1>1, <3>1, <3>4
      <4>2. IsFiniteSet(r)
        BY <3>1, FS_Subset
      <4>3. Adds(f, r, [t \in SUBSET r |-> G(s)[t]])
        <5>1. r \in SUBSET s
          OBVIOUS
        <5> HIDE DEF G, r
        <5> QED
          BY <4>1, <5>1, AddsRestricted
      <4>4. [t \in SUBSET r |-> G(s)[t]] = G(r)
        <5> HIDE DEF G, r
        <5> QED
          BY <4>1, <4>2, <4>3, AddsUnique
      <4>5. G(s)[r] = G(r)[r]
        <5> HIDE DEF G
        <5>1. [t \in SUBSET r |-> G(s)[t]][r] = G(s)[r]
          OBVIOUS
        <5> QED
          BY <4>4, <5>1
      <4>6. G(s)[s] = f[First(s)] + G(s)[r]
        <5> HIDE DEF G
        <5> QED
          BY <2>2, <4>1 DEF Adds
      <4> QED
        BY <2>2, <3>2, <3>4, <4>5, <4>6
    <3> QED
      BY <3>3, <3>4
  <2> QED
    BY <2>1, <2>2
<1>3. v = [s \in SUBSET S |-> IF s = {} THEN 0 ELSE f[First(s)] + v[s \ {First(s)}]]
  <2>1. v = [s \in SUBSET S |-> v[s]]
    OBVIOUS
  <2> HIDE DEF v
  <2> QED
    BY <1>2, <2>1
<1> QED
  BY <1>3 DEF Adds

LEMMA AddsExists ==
  ASSUME NEW f, NEW S, IsFiniteSet(S)
  PROVE  \E g : Adds(f, S, g)
<1> DEFINE B == {s \in SUBSET S : ~ \E g : Adds(f, s, g)}
           Least(m) == \A t \in B : t \subseteq m => t = m
<1>1. B = {}
  <2>1. SUFFICES ASSUME B # {} PROVE FALSE
    OBVIOUS
  <2>2. \E m \in B : Least(m)
    <3>1. B \in SUBSET SUBSET S
      OBVIOUS
    <3> HIDE DEF B
    <3> QED
      BY <2>1, <3>1, LeastSubset
  <2>3. PICK m \in B : Least(m)
    BY <2>2
  <2>4. \A t \in SUBSET m : t # m => \E g : Adds(f, t, g)
    BY <2>3
  <2>5. IsFiniteSet(m)
    BY <2>3, FS_Subset
  <2> QED
    BY <2>3, <2>4, <2>5, AddsExtended
<1> QED
  BY <1>1

(***************************************************************************)
(* The sum of nothing is 0; any other is that of one element and the rest. *)
(***************************************************************************)
LEMMA SumEmpty == ASSUME NEW f PROVE SumFunctionOnSet(f, {}) = 0
<1>1. PICK g : g = CHOOSE h : Adds(f, {}, h)
  OBVIOUS
<1>2. Adds(f, {}, g)
  BY <1>1, AddsExists, FS_EmptySet
<1> QED
  BY <1>1, <1>2, SumByRecursion DEF Adds

LEMMA SumFirst ==
  ASSUME NEW f, NEW S, IsFiniteSet(S), S # {}
  PROVE  /\ First(S) \in S
         /\ SumFunctionOnSet(f, S) =
              f[First(S)] + SumFunctionOnSet(f, S \ {First(S)})
<1> DEFINE r == S \ {First(S)}
<1>1. First(S) \in S
  BY DEF First
<1>2. PICK g : g = CHOOSE h : Adds(f, S, h)
  OBVIOUS
<1>3. PICK h : h = CHOOSE i : Adds(f, r, i)
  OBVIOUS
<1>4. Adds(f, S, g)
  BY <1>2, AddsExists
<1>5. IsFiniteSet(r)
  BY FS_Subset
<1>6. Adds(f, r, h)
  BY <1>3, <1>5, AddsExists
<1>7. Adds(f, r, [t \in SUBSET r |-> g[t]])
  BY <1>4, AddsRestricted
<1>8. [t \in SUBSET r |-> g[t]] = h
  BY <1>5, <1>6, <1>7, AddsUnique
<1>9. g[r] = h[r]
  BY <1>8
<1>10. g[S] = f[First(S)] + g[r]
  BY <1>4 DEF Adds
<1>11. SumFunctionOnSet(f, S) = g[S] /\ SumFunctionOnSet(f, r) = h[r]
  BY <1>2, <1>3, SumByRecursion
<1> QED
  BY <1>1, <1>9, <1>10, <1>11

(***************************************************************************)
(* A sum of naturals is a natural.                                         *)
(***************************************************************************)
LEMMA SumType ==
  ASSUME NEW f, NEW S, IsFiniteSet(S), \A s \in S : f[s] \in Nat
  PROVE  SumFunctionOnSet(f, S) \in Nat
<1> DEFINE B == {s \in SUBSET S : SumFunctionOnSet(f, s) \notin Nat}
           Least(m) == \A t \in B : t \subseteq m => t = m
<1>1. B = {}
  <2>1. SUFFICES ASSUME B # {} PROVE FALSE
    OBVIOUS
  <2>2. \E m \in B : Least(m)
    <3>1. B \in SUBSET SUBSET S
      OBVIOUS
    <3> HIDE DEF B
    <3> QED
      BY <2>1, <3>1, LeastSubset
  <2>3. PICK m \in B : Least(m)
    BY <2>2
  <2>4. m # {}
    <3>1. SumFunctionOnSet(f, {}) \in Nat
      BY SumEmpty
    <3> QED
      BY <2>3, <3>1
  <2>5. IsFiniteSet(m)
    BY <2>3, FS_Subset
  <2>6. First(m) \in m /\ SumFunctionOnSet(f, m) =
          f[First(m)] + SumFunctionOnSet(f, m \ {First(m)})
    BY <2>4, <2>5, SumFirst
  <2>7. SumFunctionOnSet(f, m \ {First(m)}) \in Nat
    BY <2>3, <2>6
  <2> QED
    BY <2>3, <2>6, <2>7
<1> QED
  BY <1>1

(***************************************************************************)
(* An element more adds its value, whichever order CHOOSE takes them in.   *)
(***************************************************************************)
LEMMA SumWith ==
  ASSUME NEW f, NEW S, IsFiniteSet(S), NEW x, x \notin S,
         \A s \in S \cup {x} : f[s] \in Nat
  PROVE  SumFunctionOnSet(f, S \cup {x}) = SumFunctionOnSet(f, S) + f[x]
<1> DEFINE U == S \cup {x}
           Sum(s) == SumFunctionOnSet(f, s)
           B == {s \in SUBSET U : \E y \in U \ s : Sum(s \cup {y}) # Sum(s) + f[y]}
           Least(m) == \A t \in B : t \subseteq m => t = m
<1>0. IsFiniteSet(U)
  BY FS_AddElement
<1>1. \A s \in SUBSET U : IsFiniteSet(s) /\ Sum(s) \in Nat
  BY <1>0, FS_Subset, SumType
<1>2. B = {}
  <2>1. SUFFICES ASSUME B # {} PROVE FALSE
    OBVIOUS
  <2>2. \E m \in B : Least(m)
    <3>1. B \in SUBSET SUBSET U
      OBVIOUS
    <3> HIDE DEF B, U
    <3> QED
      BY <1>0, <2>1, <3>1, LeastSubset
  <2>3. PICK m \in B : Least(m)
    BY <2>2
  <2>4. PICK y \in U \ m : Sum(m \cup {y}) # Sum(m) + f[y]
    BY <2>3
  <2> DEFINE e == First(m \cup {y})
             r == m \ {e}
  <2>5. m \in SUBSET U
    BY <2>3
  <2>6. e \in m \cup {y} /\ Sum(m \cup {y}) = f[e] + Sum((m \cup {y}) \ {e})
    <3>1. IsFiniteSet(m \cup {y})
      BY <1>1, <2>4, <2>5
    <3> QED
      BY <3>1, SumFirst
  <2>7. Sum(m) \in Nat /\ f[y] \in Nat
    BY <1>1, <2>4, <2>5
  <2>8. CASE e = y
    <3>1. (m \cup {y}) \ {e} = m
      BY <2>4, <2>8
    <3> QED
      BY <2>4, <2>6, <2>7, <2>8, <3>1
  <2>9. CASE e # y
    <3>1. e \in m /\ r \in SUBSET U /\ (m \cup {y}) \ {e} = r \cup {y} /\ r \cup {e} = m
      BY <2>4, <2>5, <2>6, <2>9
    <3>2. r \notin B
      BY <2>3, <3>1
    <3>3. Sum(r \cup {y}) = Sum(r) + f[y] /\ Sum(r \cup {e}) = Sum(r) + f[e]
      BY <2>4, <2>5, <3>1, <3>2
    <3>4. Sum(r) \in Nat /\ f[e] \in Nat
      BY <1>1, <2>5, <3>1
    <3>5. Sum(m) = Sum(r) + f[e]
      BY <3>1, <3>3
    <3>6. Sum(m \cup {y}) = f[e] + (Sum(r) + f[y])
      BY <2>6, <3>1, <3>3
    <3> HIDE DEF Sum, B, r, e
    <3>7. f[e] + (Sum(r) + f[y]) = (Sum(r) + f[e]) + f[y]
      BY <2>7, <3>4
    <3> QED
      BY <2>4, <3>5, <3>6, <3>7
  <2> QED
    BY <2>8, <2>9
<1> QED
  BY <1>2

(***************************************************************************)
(* Adding a set of elements does not make a sum of naturals smaller.       *)
(***************************************************************************)
LEMMA SumWithin ==
  ASSUME NEW f, NEW S, IsFiniteSet(S), NEW T \in SUBSET S, \A s \in S : f[s] \in Nat
  PROVE  SumFunctionOnSet(f, T) <= SumFunctionOnSet(f, S)
<1> DEFINE Sum(s) == SumFunctionOnSet(f, s)
           B == {s \in SUBSET S : T \subseteq s /\ ~(Sum(T) <= Sum(s))}
           Least(m) == \A t \in B : t \subseteq m => t = m
<1>1. \A s \in SUBSET S : IsFiniteSet(s) /\ Sum(s) \in Nat
  BY FS_Subset, SumType
<1>2. B = {}
  <2>1. SUFFICES ASSUME B # {} PROVE FALSE
    OBVIOUS
  <2>2. \E m \in B : Least(m)
    <3>1. B \in SUBSET SUBSET S
      OBVIOUS
    <3> HIDE DEF B
    <3> QED
      BY <2>1, <3>1, LeastSubset
  <2>3. PICK m \in B : Least(m)
    BY <2>2
  <2>4. m # T /\ m \in SUBSET S /\ T \subseteq m
    BY <1>1, <2>3
  <2>5. PICK x \in m : x \notin T
    BY <2>4
  <2> DEFINE r == m \ {x}
  <2>6. r \in SUBSET S /\ T \subseteq r /\ r # m /\ r \cup {x} = m /\ x \notin r
    BY <2>4, <2>5
  <2>7. Sum(T) <= Sum(r)
    BY <2>3, <2>6
  <2>8. Sum(m) = Sum(r) + f[x]
    <3>1. IsFiniteSet(r) /\ \A s \in r \cup {x} : f[s] \in Nat
      BY <1>1, <2>4, <2>6
    <3> HIDE DEF r
    <3>2. Sum(r \cup {x}) = Sum(r) + f[x]
      BY <2>6, <3>1, SumWith
    <3> QED
      BY <2>6, <3>2
  <2>9. Sum(T) \in Nat /\ Sum(r) \in Nat /\ f[x] \in Nat
    BY <1>1, <2>4, <2>6
  <2> HIDE DEF Sum, r
  <2>10. Sum(T) <= Sum(m)
    BY <2>7, <2>8, <2>9
  <2> QED
    BY <2>3, <2>10 DEF Sum
<1> QED
  BY <1>2

(***************************************************************************)
(* A sum depends on the values in its set only.                            *)
(***************************************************************************)
LEMMA SumSame ==
  ASSUME NEW f, NEW g, NEW S, IsFiniteSet(S), \A s \in S : f[s] = g[s]
  PROVE  SumFunctionOnSet(f, S) = SumFunctionOnSet(g, S)
<1> DEFINE B == {s \in SUBSET S : SumFunctionOnSet(f, s) # SumFunctionOnSet(g, s)}
           Least(m) == \A t \in B : t \subseteq m => t = m
<1>1. B = {}
  <2>1. SUFFICES ASSUME B # {} PROVE FALSE
    OBVIOUS
  <2>2. \E m \in B : Least(m)
    <3>1. B \in SUBSET SUBSET S
      OBVIOUS
    <3> HIDE DEF B
    <3> QED
      BY <2>1, <3>1, LeastSubset
  <2>3. PICK m \in B : Least(m)
    BY <2>2
  <2>4. m # {}
    BY <2>3, SumEmpty
  <2>5. IsFiniteSet(m)
    BY <2>3, FS_Subset
  <2>6. /\ First(m) \in m
        /\ SumFunctionOnSet(f, m) = f[First(m)] + SumFunctionOnSet(f, m \ {First(m)})
        /\ SumFunctionOnSet(g, m) = g[First(m)] + SumFunctionOnSet(g, m \ {First(m)})
    BY <2>4, <2>5, SumFirst
  <2>7. SumFunctionOnSet(f, m \ {First(m)}) = SumFunctionOnSet(g, m \ {First(m)})
    BY <2>3, <2>6
  <2> QED
    BY <2>3, <2>6, <2>7
<1> QED
  BY <1>1

(***************************************************************************)
(* A sum follows a change of one value.                                    *)
(***************************************************************************)
LEMMA SumChanged ==
  ASSUME NEW f, NEW g, NEW S, IsFiniteSet(S), NEW x \in S,
         \A s \in S : f[s] \in Nat /\ g[s] \in Nat, \A s \in S \ {x} : f[s] = g[s]
  PROVE  SumFunctionOnSet(g, S) + f[x] = SumFunctionOnSet(f, S) + g[x]
<1> DEFINE T == S \ {x}
<1>1. IsFiniteSet(T) /\ x \notin T /\ S = T \cup {x}
  BY FS_RemoveElement
<1>2. SumFunctionOnSet(f, T) = SumFunctionOnSet(g, T)
  BY <1>1, SumSame
<1>3. SumFunctionOnSet(f, T) \in Nat /\ SumFunctionOnSet(g, T) \in Nat
  BY <1>1, SumType
<1> HIDE DEF T
<1>4. SumFunctionOnSet(f, T \cup {x}) = SumFunctionOnSet(f, T) + f[x]
  BY <1>1, SumWith
<1>5. SumFunctionOnSet(g, T \cup {x}) = SumFunctionOnSet(g, T) + g[x]
  BY <1>1, SumWith
<1> QED
  BY <1>1, <1>2, <1>3, <1>4, <1>5

LEMMA SumOfZeros ==
  ASSUME NEW f, NEW S, IsFiniteSet(S), \A s \in S : f[s] = 0
  PROVE  SumFunctionOnSet(f, S) = 0
<1> DEFINE B == {s \in SUBSET S : SumFunctionOnSet(f, s) # 0}
           Least(m) == \A t \in B : t \subseteq m => t = m
<1>1. B = {}
  <2>1. SUFFICES ASSUME B # {} PROVE FALSE
    OBVIOUS
  <2>2. \E m \in B : Least(m)
    <3>1. B \in SUBSET SUBSET S
      OBVIOUS
    <3> HIDE DEF B
    <3> QED
      BY <2>1, <3>1, LeastSubset
  <2>3. PICK m \in B : Least(m)
    BY <2>2
  <2>4. m # {}
    BY <2>3, SumEmpty
  <2>5. IsFiniteSet(m)
    BY <2>3, FS_Subset
  <2>6. First(m) \in m /\ SumFunctionOnSet(f, m) = f[First(m)] + SumFunctionOnSet(f, m \ {First(m)})
    BY <2>4, <2>5, SumFirst
  <2>7. SumFunctionOnSet(f, m \ {First(m)}) = 0
    BY <2>3, <2>6
  <2> QED
    BY <2>3, <2>6, <2>7
<1> QED
  BY <1>1

(***************************************************************************)
(* A sum of so many numbers is at most so often their bound.               *)
(***************************************************************************)
LEMMA SumBounded ==
  ASSUME NEW f, NEW k \in Nat, NEW S, IsFiniteSet(S), \A s \in S : f[s] \in 0..k
  PROVE  SumFunctionOnSet(f, S) <= k * Cardinality(S)
<1> DEFINE B == {s \in SUBSET S : ~(SumFunctionOnSet(f, s) <= k * Cardinality(s))}
           Least(m) == \A t \in B : t \subseteq m => t = m
<1>1. B = {}
  <2>1. SUFFICES ASSUME B # {} PROVE FALSE
    OBVIOUS
  <2>2. \E m \in B : Least(m)
    <3>1. B \in SUBSET SUBSET S
      OBVIOUS
    <3> HIDE DEF B
    <3> QED
      BY <2>1, <3>1, LeastSubset
  <2>3. PICK m \in B : Least(m)
    BY <2>2
  <2> DEFINE x == First(m)
             r == m \ {x}
  <2>4. m # {}
    <3>1. SumFunctionOnSet(f, {}) = 0 /\ Cardinality({}) = 0
      BY SumEmpty, FS_EmptySet
    <3>2. SumFunctionOnSet(f, {}) <= k * Cardinality({})
      BY ONLY <3>1, k \in Nat
    <3> QED
      BY ONLY <2>3, <3>2 DEF B
  <2>5. IsFiniteSet(m) /\ IsFiniteSet(r) /\ r \in SUBSET S
    BY <2>3, FS_Subset
  <2>6. x \in m /\ SumFunctionOnSet(f, m) = f[x] + SumFunctionOnSet(f, r)
    BY <2>4, <2>5, SumFirst
  <2>7. SumFunctionOnSet(f, r) <= k * Cardinality(r)
    BY <2>3, <2>5, <2>6
  <2>8. Cardinality(r) \in Nat /\ Cardinality(m) = Cardinality(r) + 1
    <3>1. x \notin r /\ m = r \cup {x}
      BY <2>6
    <3> HIDE DEF r, x
    <3> QED
      BY <2>5, <3>1, FS_AddElement, FS_CardinalityType
  <2>9. SumFunctionOnSet(f, r) \in Nat /\ f[x] \in 0..k
    <3>1. \A s \in r : f[s] \in Nat
      BY <2>5
    <3> HIDE DEF r
    <3> QED
      BY <2>3, <2>5, <2>6, <3>1, SumType
  <2>10. SumFunctionOnSet(f, m) <= k * Cardinality(m)
    <3> HIDE DEF B, Least, r, x
    <3>1. k * (Cardinality(r) + 1) = k * Cardinality(r) + k
      BY <2>8
    <3>2. k * Cardinality(r) \in Nat
      BY <2>8
    <3> QED
      BY <2>6, <2>7, <2>8, <2>9, <3>1, <3>2
  <2> QED
    BY <2>3, <2>10
<1> QED
  BY <1>1

(***************************************************************************)
(* An induction over an interval, for a set that is closed under the next  *)
(* number.                                                                 *)
(***************************************************************************)
LEMMA IntervalInduction ==
  ASSUME NEW n \in Nat, NEW S, 0 \in S, \A k \in 0..n : k \in S /\ k < n => k + 1 \in S
  PROVE  \A k \in 0..n : k \in S
<1> DEFINE B == {k \in 0..n : k \notin S}
<1>1. SUFFICES ASSUME B # {} PROVE FALSE
  OBVIOUS
<1>2. IsFiniteSet(0..n) /\ B \in SUBSET (0..n) /\ B \subseteq Int
  BY FS_Interval
<1>3. IsFiniteSet(B)
  BY <1>2, FS_Subset
<1> HIDE DEF B
<1>4. PICK m \in B : \A k \in B : m <= k
  BY <1>1, <1>2, <1>3, MinIsLeast
<1>5. m \in 0..n /\ m \notin S
  BY <1>4 DEF B
<1>6. m - 1 \in 0..n /\ m - 1 < n /\ ~(m <= m - 1) /\ (m - 1) + 1 = m
  BY <1>5
<1>7. m - 1 \in S
  BY <1>4, <1>6 DEF B
<1> QED
  BY <1>5, <1>6, <1>7

(***************************************************************************)
(* The greatest of some of the first numbers, and of all.                  *)
(***************************************************************************)
LEMMA MaxOfSubset ==
  /\ \A m \in Nat : \A s \in SUBSET (1..m) : s # {} => Max(s) \in s /\ \A k \in s : k <= Max(s)
  /\ \A m \in Nat : m # 0 => Max(1..m) = m
<1>1. \A m \in Nat : \A s \in SUBSET (1..m) : s # {} => Max(s) \in s /\ \A k \in s : k <= Max(s)
  <2> SUFFICES ASSUME NEW m \in Nat, NEW s \in SUBSET (1..m), s # {}
               PROVE  Max(s) \in s /\ \A k \in s : k <= Max(s)
    OBVIOUS
  <2>1. IsFiniteSet(1..m)
    BY FS_Interval
  <2>2. s \subseteq Int
    OBVIOUS
  <2>3. IsFiniteSet(s)
    BY <2>1, FS_Subset
  <2> QED
    BY <2>2, <2>3, MaxIsGreatest
<1>2. ASSUME NEW m \in Nat, m # 0
      PROVE  Max(1..m) = m
  <2>1. m \in 1..m
    BY <1>2
  <2>2. Max(1..m) \in 1..m /\ \A k \in 1..m : k <= Max(1..m)
    BY <1>1, <2>1
  <2> QED
    BY <2>1, <2>2
<1> QED
  BY <1>1, <1>2

=============================================================================

---------------------------- MODULE Sums_proofs ----------------------------
(***************************************************************************)
(* What the library's sum SumFunctionOnSet computes: it is the base of the *)
(* proofs about exposure (ScopeState's Units) and about slots (NodeSlots). *)
(* The library's induction theorems take an operator as a parameter, so the*)
(* inductions here are over sets of numbers: the set of the cardinalities  *)
(* for which a fact holds is Nat.                                          *)
(***************************************************************************)
EXTENDS Integers, FiniteSets, Functions, FiniteSetTheorems, WellFoundedInduction, TLAPS

(* A nonempty set of naturals has a least element.                         *)
LEMMA LeastNat ==
  ASSUME NEW T, T \subseteq Nat, T # {}
  PROVE  \E m \in T : \A k \in T : m <= k
<1>1. PICK m \in T : \A k \in T : ~ (<<k, m>> \in OpToRel(<, Nat))
  BY NatLessThanWellFounded, WFMin
<1>2. \A k \in T : ~ (k < m)
  BY <1>1 DEF OpToRel
<1>3. \A k \in T : m <= k
  BY <1>2
<1>4. QED
  BY <1>3

(* Induction: a set of naturals closed under successor and holding 0.      *)
LEMMA NatSetInduction ==
  ASSUME NEW T, T \subseteq Nat, 0 \in T, \A n \in T : n + 1 \in T
  PROVE  T = Nat
<1>1. SUFFICES ASSUME Nat \ T # {} PROVE FALSE
  OBVIOUS
<1>2. PICK m \in Nat \ T : \A k \in Nat \ T : m <= k
  BY <1>1, LeastNat
<1>3. m # 0 /\ m - 1 \in Nat /\ m - 1 \in T
  BY <1>2
<1>4. QED
  BY <1>2, <1>3

-----------------------------------------------------------------------------
Pick(s) == CHOOSE x \in s : TRUE

(* One unfolding of the fold that the sum is.                              *)
Unfold(v, sum, s) ==
  IF s = {} THEN 0 ELSE v[Pick(s)] + sum[s \ {Pick(s)}]

(* The values of S can be summed: S is finite, and they are naturals.      *)
Addends(v, S) == IsFiniteSet(S) /\ \A id \in S : v[id] \in Nat

LEMMA PickIn == ASSUME NEW s, s # {} PROVE Pick(s) \in s
BY DEF Pick

LEMMA SubsetCardinality ==
  ASSUME NEW S, IsFiniteSet(S), NEW s \in SUBSET S
  PROVE  /\ IsFiniteSet(s)
         /\ Cardinality(s) \in Nat
         /\ Cardinality(s) <= Cardinality(S)
         /\ Cardinality(s) = 0 <=> s = {}
         /\ \A x \in s : Cardinality(s \ {x}) = Cardinality(s) - 1
BY FS_Subset, FS_CardinalityType, FS_EmptySet, FS_RemoveElement

(* The recursion defines a function, with natural values.                  *)
LEMMA UnfoldExists ==
  ASSUME NEW S, NEW v, Addends(v, S)
  PROVE  \E g \in [SUBSET S -> Nat] : \A s \in SUBSET S : g[s] = Unfold(v, g, s)
<1> DEFINE Upto(g, n) == \A s \in SUBSET S : Cardinality(s) <= n => g[s] = Unfold(v, g, s)
           T == {n \in Nat : \E g \in [SUBSET S -> Nat] : Upto(g, n)}
<1>0. IsFiniteSet(S) /\ \A s \in SUBSET S : IsFiniteSet(s) /\ Cardinality(s) \in Nat
  BY SubsetCardinality DEF Addends
<1>1. 0 \in T
  <2> DEFINE zero == [s \in SUBSET S |-> 0]
  <2>1. zero \in [SUBSET S -> Nat]
    OBVIOUS
  <2>2. \A s \in SUBSET S : Cardinality(s) <= 0 => s = {}
    BY <1>0, SubsetCardinality
  <2>3. Upto(zero, 0)
    BY <2>2 DEF Unfold
  <2>4. QED
    BY <2>1, <2>3
<1>2. ASSUME NEW n \in T PROVE n + 1 \in T
  <2>1. PICK g \in [SUBSET S -> Nat] : Upto(g, n)
    BY <1>2
  <2> DEFINE h == [s \in SUBSET S |-> Unfold(v, g, s)]
  <2>2. h \in [SUBSET S -> Nat]
    BY PickIn DEF Unfold, Addends
  <2>3. ASSUME NEW s \in SUBSET S, Cardinality(s) <= n + 1 PROVE h[s] = Unfold(v, h, s)
    <3>1. CASE s = {}
      BY <3>1 DEF Unfold
    <3>2. CASE s # {}
      <4> DEFINE t == s \ {Pick(s)}
      <4>1. Pick(s) \in s /\ t \in SUBSET S
        BY <3>2, PickIn
      <4>2. Cardinality(t) <= n
        BY <4>1, <2>3, <1>0, FS_RemoveElement
      <4>3. h[t] = g[t]
        BY <4>1, <4>2, <2>1
      <4>4. QED
        BY <3>2, <4>1, <4>3 DEF Unfold
    <3>3. QED
      BY <3>1, <3>2
  <2>4. Upto(h, n + 1)
    BY <2>3
  <2>5. \E k \in [SUBSET S -> Nat] : Upto(k, n + 1)
    <3> HIDE DEF Upto, h
    <3>1. QED
      BY <2>2, <2>4
  <2>6. n + 1 \in Nat
    OBVIOUS
  <2> HIDE DEF Upto
  <2>7. QED
    BY <2>5, <2>6
<1>3. T = Nat
  <2>1. T \subseteq Nat
    OBVIOUS
  <2> HIDE DEF T
  <2>2. QED
    BY <1>1, <1>2, <2>1, NatSetInduction
<1>4. PICK g \in [SUBSET S -> Nat] : Upto(g, Cardinality(S))
  BY <1>0, <1>3
<1>5. \A s \in SUBSET S : Cardinality(s) <= Cardinality(S)
  BY <1>0, SubsetCardinality
<1>6. QED
  BY <1>4, <1>5

(* The sum is the value at S of a function that satisfies the recursion.   *)
LEMMA SumUnfolds ==
  ASSUME NEW S, NEW v, Addends(v, S)
  PROVE  \E g \in [SUBSET S -> Nat] :
           /\ \A s \in SUBSET S : g[s] = Unfold(v, g, s)
           /\ SumFunctionOnSet(v, S) = g[S]
<1>1. PICK h \in [SUBSET S -> Nat] : \A s \in SUBSET S : h[s] = Unfold(v, h, s)
  BY UnfoldExists
<1>2. h = [s \in SUBSET S |-> Unfold(v, h, s)]
  BY <1>1
<1> DEFINE f == CHOOSE g : g = [s \in SUBSET S |-> Unfold(v, g, s)]
<1>3. f = [s \in SUBSET S |-> Unfold(v, f, s)]
  BY <1>2
<1>4. SumFunctionOnSet(v, S) = f[S]
  BY DEF SumFunctionOnSet, FoldFunctionOnSet, MapThenFoldSet, Unfold, Pick
<1> HIDE DEF f
<1>5. \A s \in SUBSET S : f[s] = Unfold(v, f, s)
  BY <1>3
<1>6. IsFiniteSet(S)
  BY DEF Addends
<1> DEFINE T == {n \in Nat : \A s \in SUBSET S : Cardinality(s) = n => f[s] \in Nat}
<1>7. 0 \in T
  <2>1. \A s \in SUBSET S : Cardinality(s) = 0 => s = {}
    BY <1>6, SubsetCardinality
  <2>2. f[{}] = 0
    BY <1>5 DEF Unfold
  <2>3. QED
    BY <2>1, <2>2
<1>8. ASSUME NEW n \in T PROVE n + 1 \in T
  <2>1. ASSUME NEW s \in SUBSET S, Cardinality(s) = n + 1 PROVE f[s] \in Nat
    <3>1. s # {} /\ Pick(s) \in s
      BY <2>1, <1>6, SubsetCardinality, PickIn
    <3>2. Cardinality(s \ {Pick(s)}) = n
      BY <2>1, <3>1, <1>6, SubsetCardinality
    <3>3. f[s \ {Pick(s)}] \in Nat
      BY <3>2
    <3>4. v[Pick(s)] \in Nat
      BY <3>1 DEF Addends
    <3>5. f[s] = v[Pick(s)] + f[s \ {Pick(s)}]
      BY <3>1, <1>5 DEF Unfold
    <3>6. QED
      BY <3>3, <3>4, <3>5
  <2>2. QED
    BY <2>1
<1>9. T = Nat
  <2>1. T \subseteq Nat
    OBVIOUS
  <2> HIDE DEF T
  <2>2. QED
    BY <1>7, <1>8, <2>1, NatSetInduction
<1>10. \A s \in SUBSET S : f[s] \in Nat
  BY <1>6, <1>9, SubsetCardinality
<1>11. f \in [SUBSET S -> Nat]
  BY <1>3, <1>10
<1>12. QED
  BY <1>4, <1>5, <1>11

(* What is defined by the recursion on S agrees with it on each subset.    *)
LEMMA UnfoldUnique ==
  ASSUME NEW S, NEW v, Addends(v, S),
         NEW g, \A s \in SUBSET S : g[s] = Unfold(v, g, s),
         NEW U \in SUBSET S,
         NEW h, \A s \in SUBSET U : h[s] = Unfold(v, h, s)
  PROVE  \A s \in SUBSET U : g[s] = h[s]
<1>1. IsFiniteSet(S)
  BY DEF Addends
<1> DEFINE T == {n \in Nat : \A s \in SUBSET U : Cardinality(s) = n => g[s] = h[s]}
<1>2. 0 \in T
  BY <1>1, SubsetCardinality DEF Unfold
<1>3. ASSUME NEW n \in T PROVE n + 1 \in T
  <2>1. ASSUME NEW s \in SUBSET U, Cardinality(s) = n + 1 PROVE g[s] = h[s]
    <3>1. s # {} /\ Pick(s) \in s /\ s \in SUBSET S
      BY <2>1, <1>1, SubsetCardinality, PickIn
    <3>2. Cardinality(s \ {Pick(s)}) = n
      BY <2>1, <3>1, <1>1, SubsetCardinality
    <3>3. g[s \ {Pick(s)}] = h[s \ {Pick(s)}]
      BY <3>2
    <3>4. QED
      BY <3>1, <3>3 DEF Unfold
  <2>2. QED
    BY <2>1
<1>4. T = Nat
  <2>1. T \subseteq Nat
    OBVIOUS
  <2> HIDE DEF T
  <2>2. QED
    BY <1>2, <1>3, <2>1, NatSetInduction
<1>5. QED
  BY <1>1, <1>4, SubsetCardinality

-----------------------------------------------------------------------------
(* The sum of no values, and of some: the one the fold picks first.        *)
LEMMA SumEmpty == ASSUME NEW v PROVE SumFunctionOnSet(v, {}) = 0
<1>1. Addends(v, {})
  BY FS_EmptySet DEF Addends
<1>2. QED
  BY <1>1, SumUnfolds DEF Unfold

LEMMA SumPick ==
  ASSUME NEW S, NEW v, Addends(v, S), S # {}
  PROVE  SumFunctionOnSet(v, S) = v[Pick(S)] + SumFunctionOnSet(v, S \ {Pick(S)})
<1> DEFINE R == S \ {Pick(S)}
<1>1. Pick(S) \in S
  BY PickIn
<1>2. Addends(v, R) /\ R \in SUBSET S
  BY <1>1, FS_Subset DEF Addends
<1>3. PICK g \in [SUBSET S -> Nat] :
        (\A s \in SUBSET S : g[s] = Unfold(v, g, s)) /\ SumFunctionOnSet(v, S) = g[S]
  BY SumUnfolds
<1>4. PICK h \in [SUBSET R -> Nat] :
        (\A s \in SUBSET R : h[s] = Unfold(v, h, s)) /\ SumFunctionOnSet(v, R) = h[R]
  BY <1>2, SumUnfolds
<1>5. \A s \in SUBSET R : g[s] = h[s]
  BY <1>2, <1>3, <1>4, UnfoldUnique
<1>6. g[S] = v[Pick(S)] + g[R]
  BY <1>3 DEF Unfold
<1>7. QED
  BY <1>3, <1>4, <1>5, <1>6

(* A sum of naturals is a natural.                                         *)
LEMMA SumNat ==
  ASSUME NEW S, NEW v, Addends(v, S)
  PROVE  SumFunctionOnSet(v, S) \in Nat
<1>1. PICK g \in [SUBSET S -> Nat] : SumFunctionOnSet(v, S) = g[S]
  BY SumUnfolds
<1>2. S \in SUBSET S
  OBVIOUS
<1>3. QED
  BY <1>1, <1>2

(* Any value can be taken out of the sum first.                            *)
LEMMA SumRemove ==
  ASSUME NEW S, NEW v, Addends(v, S), NEW x \in S
  PROVE  SumFunctionOnSet(v, S) = v[x] + SumFunctionOnSet(v, S \ {x})
<1>0. IsFiniteSet(S)
  BY DEF Addends
<1> DEFINE Taken(s) == \A y \in s : SumFunctionOnSet(v, s) = v[y] + SumFunctionOnSet(v, s \ {y})
           T == {n \in Nat : \A s \in SUBSET S : Cardinality(s) = n => Taken(s)}
<1>1. 0 \in T
  <2>1. \A s \in SUBSET S : Cardinality(s) = 0 => s = {}
    BY <1>0, SubsetCardinality
  <2>2. QED
    BY <2>1
<1>2. ASSUME NEW n \in T PROVE n + 1 \in T
  <2>1. ASSUME NEW s \in SUBSET S, Cardinality(s) = n + 1, NEW y \in s
        PROVE  SumFunctionOnSet(v, s) = v[y] + SumFunctionOnSet(v, s \ {y})
    <3> DEFINE p == Pick(s)
    <3>1. p \in s
      BY PickIn
    <3>2. \A r \in SUBSET S : Addends(v, r)
      BY FS_Subset DEF Addends
    <3>3. SumFunctionOnSet(v, s) = v[p] + SumFunctionOnSet(v, s \ {p})
      BY <3>1, <3>2, SumPick
    <3>4. CASE p = y
      BY <3>3, <3>4
    <3>5. CASE p # y
      <4>1. Cardinality(s \ {p}) = n /\ Cardinality(s \ {y}) = n
        BY <2>1, <3>1, <1>0, SubsetCardinality
      <4>2. Taken(s \ {p}) /\ Taken(s \ {y})
        BY <4>1
      <4> HIDE DEF p
      <4>3. SumFunctionOnSet(v, s \ {p}) = v[y] + SumFunctionOnSet(v, (s \ {p}) \ {y})
        BY <4>2, <3>5
      <4>4. SumFunctionOnSet(v, s \ {y}) = v[p] + SumFunctionOnSet(v, (s \ {y}) \ {p})
        BY <4>2, <3>1, <3>5
      <4>5. (s \ {y}) \ {p} = (s \ {p}) \ {y}
        OBVIOUS
      <4>6. SumFunctionOnSet(v, (s \ {p}) \ {y}) \in Nat
        <5>1. (s \ {p}) \ {y} \in SUBSET S
          OBVIOUS
        <5>2. QED
          BY <5>1, <3>2, SumNat
      <4>7. v[p] \in Nat /\ v[y] \in Nat
        BY <3>1 DEF Addends
      <4>8. SumFunctionOnSet(v, s \ {y}) = v[p] + SumFunctionOnSet(v, (s \ {p}) \ {y})
        BY <4>4, <4>5
      <4>9. SumFunctionOnSet(v, s) =
              v[p] + (v[y] + SumFunctionOnSet(v, (s \ {p}) \ {y}))
        BY <3>3, <4>3
      <4>10. QED
        BY <4>6, <4>7, <4>8, <4>9
    <3>6. QED
      BY <3>4, <3>5
  <2>2. QED
    BY <2>1
<1>3. T = Nat
  <2>1. T \subseteq Nat
    OBVIOUS
  <2> HIDE DEF T
  <2>2. QED
    BY <1>1, <1>2, <2>1, NatSetInduction
<1>4. Cardinality(S) \in Nat /\ S \in SUBSET S
  BY <1>0, FS_CardinalityType
<1>5. Taken(S)
  BY <1>3, <1>4
<1>6. QED
  BY <1>5
-----------------------------------------------------------------------------
(* One more index adds its value.                                          *)
LEMMA SumAdd ==
  ASSUME NEW S, NEW v, NEW x, x \notin S, Addends(v, S \cup {x})
  PROVE  SumFunctionOnSet(v, S \cup {x}) = v[x] + SumFunctionOnSet(v, S)
<1>1. (S \cup {x}) \ {x} = S
  OBVIOUS
<1>2. QED
  BY <1>1, SumRemove

(* Only the values at the indices summed matter.                           *)
LEMMA SumSame ==
  ASSUME NEW S, NEW v, NEW u, Addends(v, S),
         \A id \in S : u[id] = v[id]
  PROVE  SumFunctionOnSet(u, S) = SumFunctionOnSet(v, S)
<1>0. IsFiniteSet(S)
  BY DEF Addends
<1> DEFINE T == {n \in Nat : \A s \in SUBSET S :
                   Cardinality(s) = n => SumFunctionOnSet(u, s) = SumFunctionOnSet(v, s)}
<1>1. 0 \in T
  BY <1>0, SubsetCardinality, SumEmpty
<1>2. ASSUME NEW n \in T PROVE n + 1 \in T
  <2>1. ASSUME NEW s \in SUBSET S, Cardinality(s) = n + 1
        PROVE  SumFunctionOnSet(u, s) = SumFunctionOnSet(v, s)
    <3>1. PICK x : x \in s
      BY <2>1, <1>0, SubsetCardinality
    <3>2. Addends(v, s) /\ Addends(u, s)
      BY FS_Subset DEF Addends
    <3>3. /\ SumFunctionOnSet(v, s) = v[x] + SumFunctionOnSet(v, s \ {x})
          /\ SumFunctionOnSet(u, s) = u[x] + SumFunctionOnSet(u, s \ {x})
      BY <3>1, <3>2, SumRemove
    <3>4. Cardinality(s \ {x}) = n
      BY <2>1, <3>1, <1>0, SubsetCardinality
    <3>5. SumFunctionOnSet(u, s \ {x}) = SumFunctionOnSet(v, s \ {x})
      BY <3>4
    <3>6. QED
      BY <3>1, <3>3, <3>5
  <2>2. QED
    BY <2>1
<1>3. T = Nat
  <2>1. T \subseteq Nat
    OBVIOUS
  <2> HIDE DEF T
  <2>2. QED
    BY <1>1, <1>2, <2>1, NatSetInduction
<1>4. Cardinality(S) \in Nat /\ S \in SUBSET S
  BY <1>0, FS_CardinalityType
<1>5. QED
  BY <1>3, <1>4

(* The sums over two disjoint sets add up.                                 *)
LEMMA SumSplit ==
  ASSUME NEW S, NEW v, Addends(v, S), NEW R \in SUBSET S
  PROVE  SumFunctionOnSet(v, S) = SumFunctionOnSet(v, R) + SumFunctionOnSet(v, S \ R)
<1>0. IsFiniteSet(S) /\ \A r \in SUBSET S : Addends(v, r)
  BY FS_Subset DEF Addends
<1> DEFINE T == {n \in Nat : \A r \in SUBSET S :
                   Cardinality(r) = n =>
                     SumFunctionOnSet(v, S) = SumFunctionOnSet(v, r) + SumFunctionOnSet(v, S \ r)}
<1>1. 0 \in T
  <2>1. \A r \in SUBSET S : Cardinality(r) = 0 => r = {} /\ S \ r = S
    BY <1>0, SubsetCardinality
  <2>2. SumFunctionOnSet(v, S) = SumFunctionOnSet(v, {}) + SumFunctionOnSet(v, S)
    BY SumEmpty, SumNat
  <2>3. QED
    BY <2>1, <2>2
<1>2. ASSUME NEW n \in T PROVE n + 1 \in T
  <2>1. ASSUME NEW r \in SUBSET S, Cardinality(r) = n + 1
        PROVE  SumFunctionOnSet(v, S) = SumFunctionOnSet(v, r) + SumFunctionOnSet(v, S \ r)
    <3>1. PICK x : x \in r
      BY <2>1, <1>0, SubsetCardinality
    <3> DEFINE q == r \ {x}
    <3>2. Cardinality(q) = n /\ q \in SUBSET S
      BY <2>1, <3>1, <1>0, SubsetCardinality
    <3>3. SumFunctionOnSet(v, S) = SumFunctionOnSet(v, q) + SumFunctionOnSet(v, S \ q)
      BY <3>2
    <3>4. SumFunctionOnSet(v, r) = v[x] + SumFunctionOnSet(v, q)
      BY <3>1, <1>0, SumRemove
    <3>5. SumFunctionOnSet(v, S \ q) = v[x] + SumFunctionOnSet(v, S \ r)
      <4>1. x \in S \ q /\ (S \ q) \ {x} = S \ r /\ S \ q \in SUBSET S
        BY <3>1
      <4>2. SumFunctionOnSet(v, S \ q) = v[x] + SumFunctionOnSet(v, (S \ q) \ {x})
        BY <4>1, <1>0, SumRemove
      <4>3. QED
        BY <4>1, <4>2
    <3>6. /\ SumFunctionOnSet(v, q) \in Nat /\ SumFunctionOnSet(v, S \ r) \in Nat
          /\ v[x] \in Nat
      <4>1. S \ r \in SUBSET S
        OBVIOUS
      <4>2. QED
        BY <4>1, <3>1, <3>2, <1>0, SumNat DEF Addends
    <3> HIDE DEF q
    <3>7. QED
      BY <3>3, <3>4, <3>5, <3>6
  <2>2. QED
    BY <2>1
<1>3. T = Nat
  <2>1. T \subseteq Nat
    OBVIOUS
  <2> HIDE DEF T
  <2>2. QED
    BY <1>1, <1>2, <2>1, NatSetInduction
<1>4. Cardinality(R) \in Nat
  BY <1>0, SubsetCardinality
<1>5. QED
  BY <1>3, <1>4

(* Values of at most m add up to at most m for each.                       *)
LEMMA SumBound ==
  ASSUME NEW S, NEW v, Addends(v, S), NEW m \in Nat,
         \A id \in S : v[id] <= m
  PROVE  SumFunctionOnSet(v, S) <= Cardinality(S) * m
<1>0. IsFiniteSet(S) /\ \A r \in SUBSET S : Addends(v, r)
  BY FS_Subset DEF Addends
<1> DEFINE T == {n \in Nat : \A r \in SUBSET S :
                   Cardinality(r) = n => SumFunctionOnSet(v, r) <= n * m}
<1>1. 0 \in T
  <2>1. \A r \in SUBSET S : Cardinality(r) = 0 => r = {}
    BY <1>0, SubsetCardinality
  <2>2. SumFunctionOnSet(v, {}) <= 0 * m
    BY SumEmpty
  <2>3. QED
    BY <2>1, <2>2
<1>2. ASSUME NEW n \in T PROVE n + 1 \in T
  <2>1. ASSUME NEW r \in SUBSET S, Cardinality(r) = n + 1
        PROVE  SumFunctionOnSet(v, r) <= (n + 1) * m
    <3>1. PICK x : x \in r
      BY <2>1, <1>0, SubsetCardinality
    <3>2. Cardinality(r \ {x}) = n /\ r \ {x} \in SUBSET S
      BY <2>1, <3>1, <1>0, SubsetCardinality
    <3>3. SumFunctionOnSet(v, r) = v[x] + SumFunctionOnSet(v, r \ {x})
      BY <3>1, <1>0, SumRemove
    <3>4. SumFunctionOnSet(v, r \ {x}) <= n * m
      BY <3>2
    <3>5. v[x] \in Nat /\ v[x] <= m /\ SumFunctionOnSet(v, r \ {x}) \in Nat
      BY <3>1, <3>2, <1>0, SumNat DEF Addends
    <3>6. (n + 1) * m = n * m + m /\ n * m \in Nat
      OBVIOUS
    <3>7. QED
      BY <3>3, <3>4, <3>5, <3>6
  <2>2. QED
    BY <2>1
<1>3. T = Nat
  <2>1. T \subseteq Nat
    OBVIOUS
  <2> HIDE DEF T
  <2>2. QED
    BY <1>1, <1>2, <2>1, NatSetInduction
<1>4. Cardinality(S) \in Nat /\ S \in SUBSET S
  BY <1>0, FS_CardinalityType
<1>5. QED
  BY <1>3, <1>4

(* Changing the value at one index changes the sum by as much.             *)
LEMMA SumExcept ==
  ASSUME NEW S, NEW v, NEW u, NEW x \in S, Addends(v, S), Addends(u, S),
         \A y \in S \ {x} : u[y] = v[y]
  PROVE  SumFunctionOnSet(u, S) = SumFunctionOnSet(v, S) - v[x] + u[x]
<1>1. Addends(v, S \ {x}) /\ Addends(u, S \ {x})
  BY FS_Subset DEF Addends
<1>2. /\ SumFunctionOnSet(v, S) = v[x] + SumFunctionOnSet(v, S \ {x})
      /\ SumFunctionOnSet(u, S) = u[x] + SumFunctionOnSet(u, S \ {x})
  BY SumRemove
<1>3. SumFunctionOnSet(u, S \ {x}) = SumFunctionOnSet(v, S \ {x})
  BY <1>1, SumSame
<1>4. SumFunctionOnSet(v, S \ {x}) \in Nat /\ v[x] \in Nat /\ u[x] \in Nat
  BY <1>1, SumNat DEF Addends
<1>5. QED
  BY <1>2, <1>3, <1>4
(* A sum of nothing but zeros.                                             *)
LEMMA SumZero ==
  ASSUME NEW v, NEW S, Addends(v, S), \A x \in S : v[x] = 0
  PROVE  SumFunctionOnSet(v, S) = 0
<1>1. SumFunctionOnSet(v, S) \in Nat
  BY SumNat
<1>2. SumFunctionOnSet(v, S) <= Cardinality(S) * 0
  BY SumBound
<1>3. Cardinality(S) \in Nat
  BY FS_CardinalityType DEF Addends
<1>4. QED
  BY <1>1, <1>2, <1>3

-----------------------------------------------------------------------------
(* Larger values add up to more.                                           *)
LEMMA SumMonotone ==
  ASSUME NEW S, NEW v, NEW u, Addends(v, S), Addends(u, S), \A x \in S : u[x] <= v[x]
  PROVE  SumFunctionOnSet(u, S) <= SumFunctionOnSet(v, S)
<1>0. IsFiniteSet(S) /\ \A r \in SUBSET S : Addends(v, r) /\ Addends(u, r)
  BY FS_Subset DEF Addends
<1> DEFINE T == {n \in Nat : \A r \in SUBSET S :
                   Cardinality(r) = n => SumFunctionOnSet(u, r) <= SumFunctionOnSet(v, r)}
<1>1. 0 \in T
  <2>1. \A r \in SUBSET S : Cardinality(r) = 0 => r = {}
    BY <1>0, SubsetCardinality
  <2>2. SumFunctionOnSet(u, {}) <= SumFunctionOnSet(v, {})
    BY SumEmpty
  <2>3. QED
    BY <2>1, <2>2
<1>2. ASSUME NEW n \in T PROVE n + 1 \in T
  <2>1. ASSUME NEW r \in SUBSET S, Cardinality(r) = n + 1
        PROVE  SumFunctionOnSet(u, r) <= SumFunctionOnSet(v, r)
    <3>1. PICK x : x \in r
      BY <2>1, <1>0, SubsetCardinality
    <3>2. Cardinality(r \ {x}) = n /\ r \ {x} \in SUBSET S
      BY <2>1, <3>1, <1>0, SubsetCardinality
    <3>3. /\ SumFunctionOnSet(v, r) = v[x] + SumFunctionOnSet(v, r \ {x})
          /\ SumFunctionOnSet(u, r) = u[x] + SumFunctionOnSet(u, r \ {x})
      BY <3>1, <1>0, SumRemove
    <3>4. SumFunctionOnSet(u, r \ {x}) <= SumFunctionOnSet(v, r \ {x})
      BY <3>2
    <3>5. /\ v[x] \in Nat /\ SumFunctionOnSet(v, r \ {x}) \in Nat
          /\ u[x] \in Nat /\ SumFunctionOnSet(u, r \ {x}) \in Nat
      BY <3>1, <3>2, <1>0, SumNat DEF Addends
    <3>6. u[x] <= v[x]
      BY <3>1
    <3>7. QED
      BY <3>3, <3>4, <3>5, <3>6
  <2>2. QED
    BY <2>1
<1>3. T = Nat
  <2>1. T \subseteq Nat
    OBVIOUS
  <2> HIDE DEF T
  <2>2. QED
    BY <1>1, <1>2, <2>1, NatSetInduction
<1>4. Cardinality(S) \in Nat /\ S \in SUBSET S
  BY <1>0, FS_CardinalityType
<1>5. QED
  BY <1>3, <1>4

(* Fewer values add up to less.                                            *)
LEMMA SumWithin ==
  ASSUME NEW S, NEW v, Addends(v, S), NEW R \in SUBSET S
  PROVE  /\ Addends(v, R) /\ SumFunctionOnSet(v, R) \in Nat
         /\ SumFunctionOnSet(v, R) <= SumFunctionOnSet(v, S)
<1>1. Addends(v, R) /\ Addends(v, S \ R)
  BY FS_Subset DEF Addends
<1>2. SumFunctionOnSet(v, R) \in Nat /\ SumFunctionOnSet(v, S \ R) \in Nat
  BY <1>1, SumNat
<1>3. SumFunctionOnSet(v, S) = SumFunctionOnSet(v, R) + SumFunctionOnSet(v, S \ R)
  BY SumSplit
<1>4. QED
  BY <1>1, <1>2, <1>3

(* Values that are 0 outside R only count in R.                            *)
LEMMA SumSupport ==
  ASSUME NEW S, NEW v, Addends(v, S), NEW R \in SUBSET S, \A x \in S \ R : v[x] = 0
  PROVE  SumFunctionOnSet(v, S) = SumFunctionOnSet(v, R)
<1>1. Addends(v, R) /\ Addends(v, S \ R)
  BY FS_Subset DEF Addends
<1>2. SumFunctionOnSet(v, S \ R) = 0
  BY <1>1, SumZero
<1>3. SumFunctionOnSet(v, R) \in Nat
  BY <1>1, SumNat
<1>4. SumFunctionOnSet(v, S) = SumFunctionOnSet(v, R) + SumFunctionOnSet(v, S \ R)
  BY SumSplit
<1>5. QED
  BY <1>2, <1>3, <1>4
=============================================================================

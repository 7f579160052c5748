-------------------------- MODULE GateFilter_proofs --------------------------
(***************************************************************************)
(* Theorems about the gate's filter, for every set of calls, requests,     *)
(* configurations, statuses and spellings of identities: that nothing is   *)
(* forwarded unreserved, that one party's calls together stay within the   *)
(* budget, that a reservation is charged as its own call was answered, that*)
(* what is harmless passes untouched, that monitor mode hides no breach,   *)
(* and that a denial answers each request once.                            *)
(*                                                                         *)
(* The inductive invariant (Inv) has four parts.  A forwarded call that may*)
(* run is backed: its entry is its own party's and covers its whole weight *)
(* (Backed).  That needs the two facts about the operators that come first:*)
(* the price of a body is at least what upstream may run of it             *)
(* (PriceCovers), and an identity the gate accepts is the sender's         *)
(* (IdentityFacts).  An entry is as far as its call and the clock say      *)
(* (Timed).  What a scope is charged and holds, late charges aside, fits   *)
(* the budget where admission enforced it (Within): every step but an      *)
(* admission only takes from that sum.  The rest is what a denied or       *)
(* harmless call was given (CallOK).                                       *)
(*                                                                         *)
(* A fold over a sequence is a sum or a list only by induction over its    *)
(* places.  FoldExists builds the fold's function place by place, so that  *)
(* the fold can be unfolded (TallySteps, EchoSteps) into a sum (TallyIsSum)*)
(* or into the ids that are answered, counted (EchoCounts).                *)
(***************************************************************************)
EXTENDS GateFilter, Sums_proofs

(* The greatest of some of 1 .. n.                                         *)
LEMMA MaxIn ==
  ASSUME NEW n \in Nat, NEW s \in SUBSET (1 .. n), s # {}
  PROVE  Max(s) \in s /\ \A y \in s : y <= Max(s)
<1> DEFINE T == {n - y : y \in s}
<1>0. \A y \in s : y \in Int /\ n - y \in Nat
  OBVIOUS
<1>1. T \subseteq Nat /\ T # {}
  BY <1>0
<1>2. PICK m \in T : \A k \in T : m <= k
  BY <1>1, LeastNat
<1>3. PICK x \in s : m = n - x
  BY <1>2
<1>4. \A y \in s : x >= y
  <2> SUFFICES ASSUME NEW y \in s PROVE x >= y
    OBVIOUS
  <2>1. n - x <= n - y
    BY <1>2, <1>3
  <2>2. QED
    BY <2>1, <1>0
<1>5. Max(s) \in s /\ \A y \in s : Max(s) >= y
  BY <1>4 DEF Max
<1>6. QED
  BY <1>0, <1>5

(* The last of the places 1 .. k, and the places before it.                *)
LEMMA PrefixMax ==
  ASSUME NEW n \in Nat, NEW k \in 1 .. n
  PROVE  Max(1 .. k) = k /\ (1 .. k) \ {k} = 1 .. (k - 1)
<1>1. 1 .. k \in SUBSET (1 .. n) /\ 1 .. k # {} /\ k \in 1 .. k
  OBVIOUS
<1>2. Max(1 .. k) \in 1 .. k /\ k <= Max(1 .. k)
  BY <1>1, MaxIn
<1>3. QED
  BY <1>2

(* A fold over the places 1 .. n, from left to right, of a function.       *)
FoldOne(base, next, f, s) ==
  IF s = {} THEN base ELSE next[<<f[s \ {Max(s)}], Max(s)>>]

IsStep(next, n, A) == next \in [A \X (1 .. n) -> A]

IsFold(f, base, next, n, A) ==
  /\ f \in [SUBSET (1 .. n) -> A]
  /\ \A s \in SUBSET (1 .. n) : f[s] = FoldOne(base, next, f, s)

LEMMA FoldExists ==
  ASSUME NEW n \in Nat, NEW A, NEW base \in A, NEW next, IsStep(next, n, A)
  PROVE  \E f : IsFold(f, base, next, n, A)
<1> USE DEF IsStep
<1> DEFINE D == 1 .. n
           Upto(f, m) == \A s \in SUBSET D : Cardinality(s) <= m => f[s] = FoldOne(base, next, f, s)
           T == {m \in Nat : \E f \in [SUBSET D -> A] : Upto(f, m)}
<1>0. IsFiniteSet(D) /\ \A s \in SUBSET D : IsFiniteSet(s) /\ Cardinality(s) \in Nat
  <2>1. IsFiniteSet(D)
    BY FS_Interval
  <2> HIDE DEF D
  <2>2. QED
    BY <2>1, SubsetCardinality
<1>1. 0 \in T
  <2> DEFINE none == [s \in SUBSET D |-> base]
  <2>1. none \in [SUBSET D -> A]
    OBVIOUS
  <2>2. \A s \in SUBSET D : Cardinality(s) <= 0 => s = {}
    BY <1>0, SubsetCardinality
  <2>3. Upto(none, 0)
    BY <2>2 DEF FoldOne
  <2> HIDE DEF none, Upto
  <2>4. QED
    BY <2>1, <2>3
<1>2. ASSUME NEW m \in T PROVE m + 1 \in T
  <2>1. PICK g \in [SUBSET D -> A] : Upto(g, m)
    BY <1>2
  <2> DEFINE h == [s \in SUBSET D |-> FoldOne(base, next, g, s)]
  <2>2. h \in [SUBSET D -> A]
    <3> SUFFICES ASSUME NEW s \in SUBSET D PROVE FoldOne(base, next, g, s) \in A
      OBVIOUS
    <3>1. CASE s = {}
      BY <3>1 DEF FoldOne
    <3>2. CASE s # {}
      <4>1. Max(s) \in D /\ s \ {Max(s)} \in SUBSET D
        BY <3>2, MaxIn
      <4>2. QED
        BY <3>2, <4>1 DEF FoldOne
    <3>3. QED
      BY <3>1, <3>2
  <2>3. ASSUME NEW s \in SUBSET D, Cardinality(s) <= m + 1 PROVE h[s] = FoldOne(base, next, h, s)
    <3>1. CASE s = {}
      BY <3>1 DEF FoldOne
    <3>2. CASE s # {}
      <4> DEFINE t == s \ {Max(s)}
      <4>1. Max(s) \in s /\ t \in SUBSET D
        BY <3>2, MaxIn
      <4>2. Cardinality(t) <= m
        <5>1. IsFiniteSet(s) /\ Cardinality(s) \in Nat /\ m \in Nat
          BY <1>0
        <5>2. Cardinality(t) = Cardinality(s) - 1
          BY <4>1, <5>1, FS_RemoveElement
        <5>3. QED
          BY <5>1, <5>2, <2>3
      <4>3. h[t] = g[t]
        BY <4>1, <4>2, <2>1
      <4>4. QED
        BY <3>2, <4>1, <4>3 DEF FoldOne
    <3>3. QED
      BY <3>1, <3>2
  <2>4. Upto(h, m + 1)
    BY <2>3
  <2>5. \E k \in [SUBSET D -> A] : Upto(k, m + 1)
    <3> HIDE DEF Upto, h
    <3>1. QED
      BY <2>2, <2>4
  <2>6. m + 1 \in Nat
    OBVIOUS
  <2> HIDE DEF Upto
  <2>7. QED
    BY <2>5, <2>6
<1>3. T = Nat
  <2>1. T \subseteq Nat
    OBVIOUS
  <2> HIDE DEF T
  <2>2. QED
    BY <1>1, <1>2, <2>1, NatSetInduction
<1>4. PICK g \in [SUBSET D -> A] : Upto(g, Cardinality(D))
  BY <1>0, <1>3
<1>5. \A s \in SUBSET D : Cardinality(s) <= Cardinality(D)
  BY <1>0, SubsetCardinality
<1>6. QED
  BY <1>4, <1>5 DEF IsFold

-----------------------------------------------------------------------------
(* The spend amounts of the items at the places in chosen, added up as     *)
(* price does.                                                             *)
Tally(chosen, items) ==
  FoldLeftDomain(LAMBDA total, i : IF i \in chosen
                   THEN AddAmount(total, items[i]) ELSE total, 0, items)

(* A running total is an integer, a marker when it is out of range.        *)
LEMMA AddAmountInt ==
  ASSUME NEW total \in Int, NEW item \in ItemType PROVE AddAmount(total, item) \in Int
BY DEF AddAmount, ItemType, Unpriceable, OutOfRange

(* One step of that fold: what f tells of s, by its last place.            *)
TallyOne(chosen, items, f, s) ==
  IF s = {} THEN 0
  ELSE LET x == Max(s)
       IN  IF [i \in DOMAIN items |-> i][x] \in chosen
           THEN AddAmount(f[s \ {x}], items[[i \in DOMAIN items |-> i][x]])
           ELSE f[s \ {x}]

(* The tally is the last value of a function given place by place.         *)
LEMMA TallyUnfolds ==
  ASSUME NEW items \in Seq(ItemType), NEW chosen
  PROVE  \E f : /\ \A s \in SUBSET (DOMAIN items) : f[s] = TallyOne(chosen, items, f, s)
                /\ Tally(chosen, items) = f[DOMAIN items]
<1> DEFINE n == Len(items)
           D == DOMAIN items
           step(a, i) == IF i \in chosen THEN AddAmount(a, items[i]) ELSE a
           next == [p \in Int \X (1 .. n) |-> step(p[1], p[2])]
<1>1. n \in Nat /\ D = 1 .. n /\ \A i \in D : items[i] \in ItemType
  OBVIOUS
<1>2. next \in [Int \X (1 .. n) -> Int]
  <2> SUFFICES ASSUME NEW a \in Int, NEW i \in 1 .. n PROVE step(a, i) \in Int
    OBVIOUS
  <2>1. QED
    BY <1>1, AddAmountInt
<1>3. PICK h : IsFold(h, 0, next, n, Int)
  <2> HIDE DEF next, n
  <2>1. n \in Nat /\ 0 \in Int /\ IsStep(next, n, Int)
    BY <1>1, <1>2 DEF IsStep
  <2>2. QED
    BY <2>1, FoldExists
<1>4. ASSUME NEW s \in SUBSET D PROVE h[s] = TallyOne(chosen, items, h, s)
  <2>1. CASE s = {}
    BY <2>1, <1>1, <1>3 DEF FoldOne, TallyOne, IsFold
  <2>2. CASE s # {}
    <3> DEFINE x == Max(s)
    <3>1. x \in 1 .. n /\ s \ {x} \in SUBSET (1 .. n)
      BY <1>1, <2>2, MaxIn
    <3>2. h[s] = next[<<h[s \ {x}], x>>] /\ h[s \ {x}] \in Int
      BY <1>1, <1>3, <2>2, <3>1 DEF FoldOne, IsFold
    <3> HIDE DEF x
    <3>3. h[s] = step(h[s \ {x}], x)
      BY <3>1, <3>2
    <3>4. [i \in DOMAIN items |-> i][x] = x
      BY <3>1, <1>1
    <3>5. QED
      BY <3>3, <3>4, <2>2 DEF TallyOne, x
  <2>3. QED
    BY <2>1, <2>2
<1>5. h = [s \in SUBSET D |-> TallyOne(chosen, items, h, s)]
  BY <1>1, <1>3, <1>4 DEF IsFold
<1> DEFINE f == CHOOSE g : g = [s \in SUBSET D |-> TallyOne(chosen, items, g, s)]
<1>6. f = [s \in SUBSET D |-> TallyOne(chosen, items, f, s)]
  BY <1>5
<1>7. Tally(chosen, items) = f[D]
  BY DEF Tally, FoldLeftDomain, FoldLeft, MapThenFoldSet, TallyOne
<1> HIDE DEF f
<1>8. QED
  BY <1>6, <1>7

(* Place by place: what the first k places come to.                        *)
LEMMA TallySteps ==
  ASSUME NEW items \in Seq(ItemType), NEW chosen
  PROVE  \E p : /\ p[0] = 0 /\ Tally(chosen, items) = p[Len(items)]
                /\ \A k \in 1 .. Len(items) :
                     p[k] = IF k \in chosen THEN AddAmount(p[k - 1], items[k]) ELSE p[k - 1]
<1> DEFINE n == Len(items)
           D == DOMAIN items
<1>1. n \in Nat /\ D = 1 .. n
  OBVIOUS
<1>2. PICK f : /\ \A s \in SUBSET D : f[s] = TallyOne(chosen, items, f, s)
               /\ Tally(chosen, items) = f[D]
  BY TallyUnfolds
<1> DEFINE p == [k \in 0 .. n |-> f[1 .. k]]
<1>3. p[0] = 0
  <2>1. 1 .. 0 = {} /\ {} \in SUBSET D /\ 0 \in 0 .. n
    BY <1>1
  <2>2. f[{}] = 0
    BY <1>2, <2>1 DEF TallyOne
  <2>3. QED
    BY <2>1, <2>2
<1>4. ASSUME NEW k \in 1 .. n
      PROVE  p[k] = IF k \in chosen THEN AddAmount(p[k - 1], items[k]) ELSE p[k - 1]
  <2>1. 1 .. k \in SUBSET D /\ 1 .. k # {} /\ k \in D /\ k \in 0 .. n /\ k - 1 \in 0 .. n
    <3>1. n \in Nat /\ k \in Int /\ 1 <= k /\ k <= n
      BY <1>1
    <3>2. 1 .. k \subseteq 1 .. n /\ k \in 1 .. k
      BY <3>1
    <3> HIDE DEF n
    <3>3. k \in 1 .. n /\ k \in 0 .. n /\ k - 1 \in 0 .. n
      BY <3>1
    <3>4. QED
      BY <3>2, <3>3, <1>1
  <2>2. Max(1 .. k) = k /\ (1 .. k) \ {k} = 1 .. (k - 1)
    BY <1>1, PrefixMax
  <2>3. [i \in DOMAIN items |-> i][k] = k
    BY <2>1
  <2>4. f[1 .. k] = TallyOne(chosen, items, f, 1 .. k)
    BY <1>2, <2>1
  <2>5. f[1 .. k] = IF k \in chosen THEN AddAmount(f[1 .. (k - 1)], items[k])
                    ELSE f[1 .. (k - 1)]
    BY <2>1, <2>2, <2>3, <2>4 DEF TallyOne
  <2>6. p[k] = f[1 .. k] /\ p[k - 1] = f[1 .. (k - 1)]
    BY <2>1
  <2>7. QED
    BY <2>5, <2>6
<1>5. Tally(chosen, items) = p[n]
  BY <1>1, <1>2
<1> HIDE DEF p
<1>6. QED
  BY <1>3, <1>4, <1>5

(* The total fails or is the sum of the chosen amounts, each of which is   *)
(* one.                                                                    *)
LEMMA TallyIsSum ==
  ASSUME NEW items \in Seq(ItemType), NEW chosen \in SUBSET DOMAIN items
  PROVE  LET amounts == [i \in DOMAIN items |-> items[i].amount]
         IN  \/ Tally(chosen, items) \in {Unpriceable, OutOfRange}
             \/ /\ Addends(amounts, chosen)
                /\ Tally(chosen, items) = SumFunctionOnSet(amounts, chosen)
<1> DEFINE n == Len(items)
           v == [i \in DOMAIN items |-> items[i].amount]
           C(k) == chosen \cap (1 .. k)
<1>1. /\ n \in Nat /\ DOMAIN items = 1 .. n
      /\ \A i \in 1 .. n : items[i] \in ItemType /\ v[i] = items[i].amount /\ v[i] \in Int
  <2>1. n \in Nat /\ DOMAIN items = 1 .. n /\ \A i \in 1 .. n : items[i] \in ItemType
    OBVIOUS
  <2>2. QED
    BY <2>1 DEF ItemType
<1>2. PICK p : /\ p[0] = 0 /\ Tally(chosen, items) = p[n]
               /\ \A k \in 1 .. n :
                    p[k] = IF k \in chosen THEN AddAmount(p[k - 1], items[k]) ELSE p[k - 1]
  BY TallySteps
<1> DEFINE Good(k) == \/ p[k] \in {Unpriceable, OutOfRange}
                      \/ /\ \A i \in C(k) : v[i] \in Nat
                         /\ p[k] = SumFunctionOnSet(v, C(k))
           T == {k \in Nat : k <= n => Good(k)}
<1>3. \A k \in Nat : IsFiniteSet(C(k))
  <2> SUFFICES ASSUME NEW k \in Nat PROVE IsFiniteSet(C(k))
    OBVIOUS
  <2>1. IsFiniteSet(1 .. k)
    BY FS_Interval
  <2>2. QED
    BY <2>1, FS_Subset
<1> HIDE DEF v, n
<1>4. 0 \in T
  <2>1. C(0) = {}
    OBVIOUS
  <2>2. SumFunctionOnSet(v, C(0)) = 0
    BY <2>1, SumEmpty
  <2>3. QED
    BY <2>1, <2>2, <1>2
<1>5. ASSUME NEW k \in T PROVE k + 1 \in T
  <2> SUFFICES ASSUME k + 1 <= n PROVE Good(k + 1)
    OBVIOUS
  <2>1. k \in Nat /\ k + 1 \in 1 .. n /\ (k + 1) - 1 = k /\ Good(k)
    BY <1>1, <1>5
  <2>2. CASE k + 1 \notin chosen
    <3>1. C(k + 1) = C(k)
      BY <2>2, <2>1
    <3>2. p[k + 1] = p[k]
      BY <2>1, <2>2, <1>2
    <3>3. QED
      BY <3>1, <3>2, <2>1
  <2>3. CASE k + 1 \in chosen
    <3>1. /\ C(k + 1) = C(k) \cup {k + 1} /\ k + 1 \notin C(k)
          /\ p[k + 1] = AddAmount(p[k], items[k + 1])
      BY <2>1, <2>3, <1>2
    <3>2. CASE p[k] \in {Unpriceable, OutOfRange}
      BY <3>1, <3>2 DEF AddAmount
    <3>3. CASE /\ \A i \in C(k) : v[i] \in Nat
               /\ p[k] = SumFunctionOnSet(v, C(k)) /\ p[k] \notin {Unpriceable, OutOfRange}
      <4>1. Addends(v, C(k)) /\ p[k] \in Nat
        BY <1>3, <2>1, <3>3, SumNat DEF Addends
      <4>2. v[k + 1] = items[k + 1].amount /\ v[k + 1] \in Int
        BY <1>1, <2>1
      <4>3. CASE v[k + 1] \notin 0 .. U64Max
        BY <3>1, <3>3, <4>1, <4>2, <4>3 DEF AddAmount
      <4>4. CASE v[k + 1] \in 0 .. U64Max
        <5>1. v[k + 1] \in Nat
          BY <4>4, UnitsAssumption
        <5>2. p[k + 1] \in {OutOfRange, p[k] + v[k + 1]}
          BY <3>1, <3>3, <4>1, <4>2, <4>4 DEF AddAmount
        <5>3. Addends(v, C(k) \cup {k + 1})
          <6>1. IsFiniteSet(C(k) \cup {k + 1})
            BY <1>3, <2>1, FS_AddElement
          <6>2. QED
            BY <6>1, <5>1, <4>1 DEF Addends
        <5>4. SumFunctionOnSet(v, C(k) \cup {k + 1}) = v[k + 1] + SumFunctionOnSet(v, C(k))
          BY <3>1, <5>3, SumAdd
        <5>5. CASE p[k + 1] = OutOfRange
          BY <5>5
        <5>6. CASE p[k + 1] = p[k] + v[k + 1]
          <6>1. p[k + 1] = SumFunctionOnSet(v, C(k + 1))
            <7> HIDE DEF C
            <7>1. SumFunctionOnSet(v, C(k + 1)) = v[k + 1] + p[k]
              BY <3>1, <3>3, <5>4
            <7>2. p[k] \in Int /\ v[k + 1] \in Int
              BY <4>1, <4>2
            <7>3. QED
              BY <7>1, <7>2, <5>6
          <6>2. \A i \in C(k + 1) : v[i] \in Nat
            <7> HIDE DEF C
            <7>1. QED
              BY <3>1, <5>3 DEF Addends
          <6>3. QED
            BY <6>1, <6>2
        <5>7. QED
          BY <5>2, <5>5, <5>6
      <4>5. QED
        BY <4>3, <4>4
    <3>4. QED
      BY <2>1, <3>2, <3>3
  <2>4. QED
    BY <2>2, <2>3
<1>6. T = Nat
  <2>1. T \subseteq Nat
    OBVIOUS
  <2> HIDE DEF T
  <2>2. QED
    BY <1>4, <1>5, <2>1, NatSetInduction
<1>7. Good(n) /\ C(n) = chosen
  BY <1>1, <1>6
<1>8. IsFiniteSet(chosen)
  BY <1>1, <1>3, <1>7
<1>9. CASE p[n] \in {Unpriceable, OutOfRange}
  BY <1>2, <1>9
<1>10. CASE p[n] \notin {Unpriceable, OutOfRange}
  <2>1. (\A i \in chosen : v[i] \in Nat) /\ p[n] = SumFunctionOnSet(v, chosen)
    BY <1>7, <1>10
  <2>2. Addends(v, chosen) /\ Tally(chosen, items) = SumFunctionOnSet(v, chosen)
    BY <1>2, <1>8, <2>1 DEF Addends
  <2>3. QED
    BY <2>2 DEF v
<1>11. QED
  BY <1>9, <1>10 DEF v

(* The items price counts.                                                 *)
Governed(methods, items) == {i \in DOMAIN items : IsGoverned(methods, items[i])}

(* What the item at each place weighs.                                     *)
Weights(items) == [i \in DOMAIN items |-> IF Runs(items[i]) THEN ItemWeight(items[i]) ELSE 0]

(* The gate and the rules, as built from a valid configuration.            *)
GateOK(g, r) ==
  /\ g.source \in {"shared", "authentication", "trusted-header"}
  /\ g.source = "authentication" => g.field \in {"client_id", "principal", "property"}
  /\ g.contribution \in Contributions
  /\ g.fixed_weight \in Nat /\ g.estimated_tokens \in Nat
  /\ g.governed_methods \cap {None, Invalid} = {}
  /\ r.block \in BOOLEAN /\ r.provisional \in BOOLEAN /\ r.budget \in Nat

LEMMA PriceTallies ==
  ASSUME gate.contribution = "spend-amount", NEW items,
         Governed(gate.governed_methods, items) # {}
  PROVE  Price(gate, items) = Tally(Governed(gate.governed_methods, items), items)
BY DEF Price, Tally, Governed, FoldLeftDomain, FoldLeft, MapThenFoldSet

(* A per-item total is the product or out of range, never a wrapped one.   *)
LEMMA PerItem ==
  ASSUME NEW w \in Nat, NEW k \in Nat
  PROVE  \/ PerItemTotal(w, k) = OutOfRange
         \/ PerItemTotal(w, k) = w * k /\ PerItemTotal(w, k) \in Nat
<1>1. w * k \in Nat
  OBVIOUS
<1>2. QED
  BY <1>1 DEF PerItemTotal

(* A body is ungoverned only when none of its items is governed.           *)
LEMMA PriceUngoverned ==
  ASSUME GateOK(gate, rules), NEW items \in Seq(ItemType)
  PROVE  Price(gate, items) = Ungoverned <=> Governed(gate.governed_methods, items) = {}
<1> DEFINE G == Governed(gate.governed_methods, items)
<1>1. G \in SUBSET DOMAIN items /\ IsFiniteSet(G) /\ Cardinality(G) \in Nat
  <2>1. DOMAIN items = 1 .. Len(items) /\ Len(items) \in Nat
    OBVIOUS
  <2>2. IsFiniteSet(DOMAIN items) /\ G \subseteq DOMAIN items
    BY <2>1, FS_Interval DEF Governed
  <2>3. QED
    BY <2>2, FS_Subset, FS_CardinalityType
<1> HIDE DEF G
<1>2. G = {i \in DOMAIN items : IsGoverned(gate.governed_methods, items[i])}
  BY DEF G, Governed
<1>3. CASE G = {}
  BY <1>2, <1>3 DEF Price, G
<1>4. CASE G # {} /\ gate.contribution = "fixed-weight"
  <2>1. Price(gate, items) = PerItemTotal(gate.fixed_weight, Cardinality(G))
    BY <1>2, <1>4 DEF Price
  <2>2. Price(gate, items) = OutOfRange \/ Price(gate, items) \in Nat
    BY <2>1, <1>1, PerItem DEF GateOK
  <2>3. Price(gate, items) # Ungoverned
    BY <2>2 DEF Ungoverned, OutOfRange
  <2>4. QED
    BY <2>3, <1>4 DEF G
<1>5. CASE G # {} /\ gate.contribution = "estimated-token-weight"
  <2>1. Price(gate, items) = PerItemTotal(gate.estimated_tokens, Cardinality(G))
    BY <1>2, <1>5 DEF Price
  <2>2. Price(gate, items) = OutOfRange \/ Price(gate, items) \in Nat
    BY <2>1, <1>1, PerItem DEF GateOK
  <2>3. Price(gate, items) # Ungoverned
    BY <2>2 DEF Ungoverned, OutOfRange
  <2>4. QED
    BY <2>3, <1>5 DEF G
<1>6. CASE G # {} /\ gate.contribution = "spend-amount"
  <2>1. Price(gate, items) = Tally(G, items)
    BY <1>6, PriceTallies DEF G
  <2>2. Tally(G, items) # Ungoverned
    <3> DEFINE v == [i \in DOMAIN items |-> items[i].amount]
    <3>1. CASE Tally(G, items) \in {Unpriceable, OutOfRange}
      BY <3>1 DEF Unpriceable, OutOfRange, Ungoverned
    <3>2. CASE Addends(v, G) /\ Tally(G, items) = SumFunctionOnSet(v, G)
      <4> HIDE DEF v
      <4>1. QED
        BY <3>2, SumNat DEF Ungoverned
    <3>3. QED
      BY <1>1, <3>1, <3>2, TallyIsSum
  <2>3. QED
    BY <2>1, <2>2, <1>6 DEF G
<1>7. QED
  BY <1>3, <1>4, <1>5, <1>6 DEF GateOK, Contributions

(* What price comes to covers everything upstream may run.                 *)
LEMMA PriceCovers ==
  ASSUME GateOK(gate, rules), NEW items \in Seq(ItemType), Price(gate, items) >= 0
  PROVE  /\ Price(gate, items) \in Nat
         /\ Addends(Weights(items), DOMAIN items)
         /\ SumFunctionOnSet(Weights(items), DOMAIN items) <= Price(gate, items)
<1> DEFINE G == Governed(gate.governed_methods, items)
           D == DOMAIN items
           w == Weights(items)
<1>1. G \in SUBSET D /\ IsFiniteSet(D) /\ IsFiniteSet(G) /\ Cardinality(G) \in Nat
  <2>1. D = 1 .. Len(items) /\ Len(items) \in Nat
    OBVIOUS
  <2>2. IsFiniteSet(D) /\ G \subseteq D
    BY <2>1, FS_Interval DEF Governed
  <2>3. QED
    BY <2>2, FS_Subset, FS_CardinalityType
<1>2. /\ \A i \in D \ G : w[i] = 0
      /\ \A i \in G : w[i] = 0 \/ w[i] = ItemWeight(items[i])
  <2>1. \A i \in D : Runs(items[i]) => i \in G
    BY DEF Runs, IsGoverned, Governed
  <2>2. QED
    BY <2>1, <1>1 DEF Weights
<1> HIDE DEF G, w, D
<1>3. G = {i \in DOMAIN items : IsGoverned(gate.governed_methods, items[i])}
  BY DEF G, Governed
<1>4. ASSUME NEW m \in Nat, \A i \in G : ItemWeight(items[i]) = m,
             Price(gate, items) = PerItemTotal(m, Cardinality(G))
      PROVE  /\ Price(gate, items) \in Nat
             /\ Addends(w, D) /\ SumFunctionOnSet(w, G) <= Price(gate, items)
  <2>1. Addends(w, D) /\ Addends(w, G) /\ \A i \in G : w[i] <= m
    BY <1>1, <1>2, <1>4 DEF Addends
  <2>2. Price(gate, items) = m * Cardinality(G) /\ m * Cardinality(G) \in Nat
    BY <1>1, <1>4, PerItem DEF OutOfRange
  <2>3. SumFunctionOnSet(w, G) <= Cardinality(G) * m
    BY <2>1, SumBound
  <2>4. Cardinality(G) * m = m * Cardinality(G)
    BY <1>1
  <2>5. QED
    BY <2>1, <2>2, <2>3, <2>4
<1>5. G # {}
  BY PriceUngoverned DEF Ungoverned, G
<1>6. CASE gate.contribution = "fixed-weight"
  <2>1. Price(gate, items) = PerItemTotal(gate.fixed_weight, Cardinality(G))
    BY <1>3, <1>5, <1>6 DEF Price
  <2>2. \A i \in G : ItemWeight(items[i]) = gate.fixed_weight
    BY <1>6 DEF ItemWeight
  <2>3. QED
    BY <2>1, <2>2, <1>1, <1>2, <1>4, SumSupport DEF GateOK, w, D
<1>7. CASE gate.contribution = "estimated-token-weight"
  <2>1. Price(gate, items) = PerItemTotal(gate.estimated_tokens, Cardinality(G))
    BY <1>3, <1>5, <1>7 DEF Price
  <2>2. \A i \in G : ItemWeight(items[i]) = gate.estimated_tokens
    BY <1>7 DEF ItemWeight
  <2>3. QED
    BY <2>1, <2>2, <1>1, <1>2, <1>4, SumSupport DEF GateOK, w, D
<1>8. CASE gate.contribution = "spend-amount"
  <2> DEFINE v == [i \in DOMAIN items |-> items[i].amount]
  <2>1. Price(gate, items) = Tally(G, items)
    BY <1>5, <1>8, PriceTallies DEF G
  <2>2. Addends(v, G) /\ Tally(G, items) = SumFunctionOnSet(v, G)
    BY <1>1, <2>1, TallyIsSum DEF Unpriceable, OutOfRange, D
  <2>3. \A i \in G : ItemWeight(items[i]) = v[i]
    BY <1>1, <1>8 DEF ItemWeight, D
  <2> HIDE DEF v
  <2>4. Addends(w, D) /\ Addends(w, G) /\ \A i \in G : w[i] <= v[i]
    BY <1>1, <1>2, <2>2, <2>3 DEF Addends
  <2>5. SumFunctionOnSet(w, G) <= SumFunctionOnSet(v, G) /\ SumFunctionOnSet(v, G) \in Nat
    BY <2>2, <2>4, SumMonotone, SumNat
  <2>6. SumFunctionOnSet(w, D) = SumFunctionOnSet(w, G)
    BY <1>1, <1>2, <2>4, SumSupport
  <2>7. QED
    BY <2>1, <2>2, <2>4, <2>5, <2>6 DEF w, D
<1>9. QED
  BY <1>6, <1>7, <1>8 DEF GateOK, Contributions

-----------------------------------------------------------------------------
(* What the properties say of a request, of the gate g.                    *)
RunsBy(g, item) == ~item.object \/ item.method \in g.governed_methods \cup {Invalid}

CostBy(g, item) ==
  CASE g.contribution = "fixed-weight" -> g.fixed_weight
    [] g.contribution = "estimated-token-weight" -> g.estimated_tokens
    [] OTHER -> item.amount

WeightBy(g, request) ==
  SumFunction([i \in DOMAIN request.body.items |->
                 IF RunsBy(g, request.body.items[i]) THEN CostBy(g, request.body.items[i]) ELSE 0])

MayRunBy(g, request) ==
  /\ request.contains_body
  /\ ~Readable(request) \/ \E item \in ToSet(request.body.items) : RunsBy(g, item)

PartyBy(g, request) == IF g.source = "shared" THEN Shared ELSE request.who

HarmlessBy(g, request) ==
  \/ ~request.contains_body
  \/ /\ Readable(request) /\ request.body.items # <<>>
     /\ \A item \in ToSet(request.body.items) :
          /\ item.object /\ item.jsonrpc
          /\ \/ item.method \notin g.governed_methods \cup {None, Invalid}
             \/ item.method = None /\ item.id # None /\ item.result # item.error

(* They say of the gate in force what GateFilter says.                     *)
LEMMA ByGate ==
  ASSUME NEW request
  PROVE  /\ Weight(request) = WeightBy(gate, request)
         /\ MayRun(request) <=> MayRunBy(gate, request)
         /\ Party(request) = PartyBy(gate, request)
         /\ Harmless(request) <=> HarmlessBy(gate, request)
<1>1. \A item : /\ Runs(item) <=> RunsBy(gate, item)
               /\ ItemWeight(item) = CostBy(gate, item)
  BY DEF Runs, RunsBy, ItemWeight, CostBy
<1>2. Weight(request) = WeightBy(gate, request)
  BY <1>1 DEF Weight, WeightBy
<1>3. MayRun(request) <=> MayRunBy(gate, request)
  BY <1>1 DEF MayRun, MayRunBy
<1>4. Party(request) = PartyBy(gate, request)
  BY DEF Party, PartyBy
<1>5. Harmless(request) <=> HarmlessBy(gate, request)
  BY DEF Harmless, HarmlessBy
<1>6. QED
  BY <1>2, <1>3, <1>4, <1>5

-----------------------------------------------------------------------------
(* The invariant, of the gate g, the rules r, the calls cs, the entries es *)
(* and the time now.                                                       *)
Keys == {Folded[raw] : raw \in DOMAIN Folded} \cup {Missing, Invalid, Shared}

EntryType == [scope : Keys, units : Nat, deadline : Nat,
              status : {"held", "lapsed", "closed"}, charged : {Ledger!Uncharged, 0}]

Sent == {"upstream", "answered", "lost"}

(* What the filter was given of a request's body, and what that says of it.*)
Given(request, raw) ==
  \/ raw = "absent" /\ ~request.contains_body
  \/ raw = "uninspectable" /\ request.contains_body /\ ~Readable(request)
  \/ /\ raw = "present" /\ request.contains_body
     /\ Readable(request) <=> Strict(request.body)

(* A call by itself: what its stages record of it, that a harmless one     *)
(* passed untouched, what a denied one was answered, and that monitor mode *)
(* denied none.                                                            *)
CallType(call) ==
  /\ call.at \in {"arrived", "body", "denied"} \cup Sent
  /\ call.request \in Arriving
  /\ call.at = "body" => call.request.contains_body /\ Inspectable(call.request)
  /\ call.at \in Sent => call.violations \in {0, 1} /\ call.reserved \in BOOLEAN
  /\ call.at = "upstream" =>
       DOMAIN call = {"at", "request", "reserved", "violations", "since"}
  /\ call.at = "answered" => call.status \in Statuses /\ call.answered \in Nat

Spared(g, call) ==
  HarmlessBy(g, call.request) /\ call.at \notin {"arrived", "body"} =>
    call.at \in Sent /\ ~call.reserved /\ call.violations = 0

Denial(g, call) ==
  call.at = "denied" =>
    \E raw : /\ Given(call.request, raw)
             /\ call.answer = DenyResponse(g, raw, call.request.body)

CallOK(g, r, call) ==
  /\ CallType(call)
  /\ Spared(g, call)
  /\ Denial(g, call)
  /\ ~r.block => call.at # "denied"

(* A call and its entry: what the filter forwarded is covered by what the  *)
(* ledger holds.                                                           *)
Backed(g, r, call, entry) ==
  r.block /\ call.at \in Sent /\ MayRunBy(g, call.request) =>
    /\ Readable(call.request) /\ call.reserved
    /\ WeightBy(g, call.request) \in Nat
    /\ entry.scope = PartyBy(g, call.request)
    /\ entry.units >= WeightBy(g, call.request)
    /\ entry.deadline = call.since + Ttl

(* How far an entry may be, given its call and the time.                   *)
Timed(r, call, entry, now) ==
  /\ entry.status = "held" => entry.charged = Ledger!Uncharged /\ call.at # "answered"
  /\ entry.status = "lapsed" =>
       /\ now >= entry.deadline /\ call.at # "answered"
       /\ entry.charged = IF r.provisional THEN 0 ELSE Ledger!Uncharged
  /\ call.at # "answered" /\ entry.units > 0 =>
       /\ now < entry.deadline => entry.status = "held"
       /\ now < entry.deadline + Ttl => entry.status # "closed"
  /\ call.at = "answered" /\ entry.units > 0 /\ call.answered < entry.deadline + Ttl =>
       (entry.charged = 0 <=> call.status < 400)
  /\ r.provisional /\ entry.units > 0 /\ (call.at = "answered" => call.status < 400) =>
       entry.status = "held" \/ entry.charged = 0

(* The exposure of a scope that no late answer charged, and when it is     *)
(* bound by the budget.                                                    *)
Late(call, entry) == call.at = "answered" /\ call.answered >= entry.deadline

Counts(r, call, entry) ==
  /\ entry.status = "held" \/ entry.charged = 0
  /\ r.provisional \/ ~Late(call, entry)

Kept(r, cs, es, scope) ==
  {slot \in DOMAIN es : es[slot].scope = scope /\ Counts(r, cs[slot], es[slot])}

Clean(r, cs, es, scope) ==
  r.block \/ \A slot \in DOMAIN es : es[slot].scope = scope => cs[slot].violations = 0

UnitsOf(es) == [slot \in DOMAIN es |-> es[slot].units]

Within(r, cs, es) ==
  \A scope \in Keys :
    Clean(r, cs, es, scope) =>
      SumFunctionOnSet(UnitsOf(es), Kept(r, cs, es, scope)) <= r.budget

EntriesOK(r, cs, es, now) ==
  /\ DOMAIN es \subseteq Slots
  /\ \A slot \in Slots : slot \in DOMAIN es <=> cs[slot].at \in Sent /\ cs[slot].reserved
  /\ \A slot \in DOMAIN es : es[slot] \in EntryType /\ Timed(r, cs[slot], es[slot], now)

CallsOK(g, r, cs, es) ==
  /\ DOMAIN cs = Slots
  /\ \A slot \in Slots : CallOK(g, r, cs[slot]) /\ Backed(g, r, cs[slot], es[slot])

Inv(g, r, cs, es, now) ==
  /\ GateOK(g, r) /\ now \in Nat
  /\ CallsOK(g, r, cs, es)
  /\ EntriesOK(r, cs, es, now)
  /\ Within(r, cs, es)

GInv == Inv(gate, rules, calls, entries, clock)

(* What time may have made of an entry.                                    *)
Ages(e, f) ==
  /\ f \in EntryType
  /\ f.scope = e.scope /\ f.units = e.units /\ f.deadline = e.deadline
  /\ \/ f = e
     \/ /\ e.status = "held" /\ f.status = "lapsed" /\ clock >= e.deadline
        /\ f.charged = IF rules.provisional THEN 0 ELSE e.charged
     \/ /\ e.status = "held" /\ f.status = "closed" /\ clock >= e.deadline + Ttl
        /\ f.charged = IF rules.provisional THEN 0 ELSE e.charged
     \/ /\ e.status = "lapsed" /\ f.status = "closed" /\ clock >= e.deadline + Ttl
        /\ f.charged = e.charged

(* Without a window there is one period.                                   *)
LEMMA OnePeriod ==
  ASSUME clock \in Nat
  PROVE  Ledger!PeriodOf(clock) = 0 /\ Ledger!Current = {0}
BY DEF Ledger!PeriodOf, Ledger!Current

(* What a lapse or a reclaim makes of the entries is what time may.        *)
LEMMA AgedFacts ==
  ASSUME clock \in Nat, rules.provisional \in BOOLEAN,
         \A slot \in DOMAIN entries : entries[slot] \in EntryType,
         NEW map \in Ledger!Aged
  PROVE  /\ DOMAIN map = DOMAIN entries
         /\ \A slot \in DOMAIN entries : Ages(entries[slot], map[slot])
<1>1. PICK lapsed \in SUBSET Ledger!Overdue, at \in [Ledger!Overdue -> Ledger!Current],
           forgotten \in SUBSET Ledger!Stale :
        map = Ledger!Forgotten(Ledger!Lapsed(lapsed, at), forgotten)
  BY DEF Ledger!Aged
<1> DEFINE mid == Ledger!Lapsed(lapsed, at)
<1>2. /\ DOMAIN mid = DOMAIN entries
      /\ \A slot \in DOMAIN entries :
           mid[slot] = IF slot \notin lapsed THEN entries[slot]
                       ELSE [entries[slot] EXCEPT !.status = "lapsed",
                               !.charged = IF rules.provisional THEN at[slot] ELSE @]
  BY DEF Ledger!Lapsed
<1> HIDE DEF mid
<1>3. /\ DOMAIN map = DOMAIN entries
      /\ \A slot \in DOMAIN entries :
           map[slot] = IF slot \in forgotten /\ mid[slot].status = "lapsed"
                       THEN [mid[slot] EXCEPT !.status = "closed"] ELSE mid[slot]
  BY <1>1, <1>2 DEF Ledger!Forgotten, mid
<1>4. ASSUME NEW slot \in DOMAIN entries PROVE Ages(entries[slot], map[slot])
  <2> DEFINE e == entries[slot]
             m == mid[slot]
             f == map[slot]
  <2>0. e \in EntryType
    OBVIOUS
  <2>1. slot \in lapsed => e.status = "held" /\ clock >= e.deadline /\ at[slot] = 0
    BY OnePeriod DEF Ledger!Overdue
  <2>2. slot \in forgotten => clock >= e.deadline + Ttl
    BY DEF Ledger!Stale
  <2>3. m = IF slot \notin lapsed THEN e
            ELSE [e EXCEPT !.status = "lapsed", !.charged = IF rules.provisional THEN at[slot] ELSE @]
    BY <1>2
  <2>4. f = IF slot \in forgotten /\ m.status = "lapsed" THEN [m EXCEPT !.status = "closed"] ELSE m
    BY <1>3
  <2> HIDE DEF e, m, f
  <2>5. /\ m \in EntryType /\ m.scope = e.scope /\ m.units = e.units /\ m.deadline = e.deadline
        /\ \/ m = e
           \/ /\ slot \in lapsed /\ m.status = "lapsed"
              /\ m.charged = IF rules.provisional THEN 0 ELSE e.charged
    BY <2>0, <2>1, <2>3 DEF EntryType
  <2>6. /\ f \in EntryType /\ f.scope = m.scope /\ f.units = m.units /\ f.deadline = m.deadline
        /\ \/ f = m
           \/ /\ slot \in forgotten /\ m.status = "lapsed" /\ f.status = "closed"
              /\ f.charged = m.charged
    BY <2>4, <2>5 DEF EntryType
  <2>7. Ages(e, f)
    BY <2>1, <2>2, <2>5, <2>6 DEF Ages
  <2>8. QED
    BY <2>7 DEF e, f
<1>5. QED
  BY <1>3, <1>4

(* An entry's timing stays right when it ages, and when time passes.       *)
LEMMA AgesTimed ==
  ASSUME clock \in Nat, rules.provisional \in BOOLEAN,
         NEW call, NEW e \in EntryType, NEW f, Ages(e, f), Timed(rules, call, e, clock)
  PROVE  /\ Timed(rules, call, f, clock)
         /\ Counts(rules, call, f) => Counts(rules, call, e)
<1>1. e.deadline \in Nat /\ f.deadline = e.deadline /\ f.units = e.units
  BY DEF EntryType, Ages
<1>2. Timed(rules, call, f, clock)
  BY <1>1, TimeAssumption DEF Ages, Timed
<1>3. f.status = "held" \/ f.charged = 0 => e.status = "held" \/ e.charged = 0
  BY DEF Ages
<1>4. QED
  BY <1>1, <1>2, <1>3 DEF Counts, Late

(* An entry is as far as a later time allows, too.                         *)
LEMMA TickTimed ==
  ASSUME NEW r, NEW now \in Nat, NEW call, NEW e \in EntryType, Timed(r, call, e, now)
  PROVE  Timed(r, call, e, now + 1)
<1>1. e.deadline \in Nat /\ Ttl \in Nat
  BY TimeAssumption DEF EntryType
<1>2. QED
  BY <1>1 DEF Timed

(* Fewer entries of the same units keep within the budget.                 *)
LEMMA KeptShrinks ==
  ASSUME NEW cs, NEW es, NEW now, NEW r, r.budget \in Nat, EntriesOK(r, cs, es, now), NEW scope,
         SumFunctionOnSet(UnitsOf(es), Kept(r, cs, es, scope)) <= r.budget,
         NEW ds, NEW fs, Kept(r, ds, fs, scope) \subseteq Kept(r, cs, es, scope),
         \A slot \in Kept(r, ds, fs, scope) : slot \in DOMAIN fs /\ fs[slot].units = es[slot].units
  PROVE  SumFunctionOnSet(UnitsOf(fs), Kept(r, ds, fs, scope)) <= r.budget
<1> DEFINE K == Kept(r, cs, es, scope)
           L == Kept(r, ds, fs, scope)
           u == UnitsOf(es)
           v == UnitsOf(fs)
<1>1. Addends(u, K)
  <2>1. K \subseteq DOMAIN es /\ DOMAIN es \subseteq Slots
    BY DEF Kept, EntriesOK
  <2>2. \A slot \in DOMAIN es : u[slot] \in Nat
    BY DEF EntriesOK, EntryType, UnitsOf
  <2> HIDE DEF K, u
  <2>3. IsFiniteSet(K)
    BY <2>1, SlotsAssumption, FS_Subset
  <2>4. QED
    BY <2>1, <2>2, <2>3 DEF Addends
<1>2. \A slot \in L : v[slot] = u[slot]
  BY DEF UnitsOf, Kept
<1>3. L \subseteq K /\ SumFunctionOnSet(u, K) <= r.budget
  OBVIOUS
<1> HIDE DEF K, L, u, v
<1>4. Addends(u, L) /\ SumFunctionOnSet(u, L) \in Nat
      /\ SumFunctionOnSet(u, L) <= SumFunctionOnSet(u, K) /\ SumFunctionOnSet(u, K) \in Nat
  BY <1>1, <1>3, SumWithin, SumNat
<1>5. SumFunctionOnSet(v, L) = SumFunctionOnSet(u, L)
  BY <1>2, <1>4, SumSame
<1>6. SumFunctionOnSet(v, L) <= r.budget
  BY <1>3, <1>4, <1>5
<1>7. QED
  BY <1>6 DEF v, L

-----------------------------------------------------------------------------
(* Deciding a call.                                                        *)
LEMMA ArrivingItems ==
  ASSUME NEW request \in Arriving
  PROVE  /\ request.body.items \in Seq(ItemType)
         /\ Items(request.body) \in Seq(ItemType) /\ Items(request.body) # <<>>
         /\ request.body.items # <<>> => Items(request.body) = request.body.items
<1>1. Scalar \in ItemType
  <2>1. Inexact \in Int
    BY DEF Inexact
  <2>2. QED
    BY <2>1 DEF Scalar, ItemType
<1>2. <<Scalar>> \in Seq(ItemType) /\ <<Scalar>> # <<>>
  BY <1>1
<1>3. QED
  BY <1>2, ItemsAssumption DEF Items

(* What upstream may run is governed.                                      *)
LEMMA RunsGoverned ==
  ASSUME NEW item, Runs(item) PROVE IsGoverned(gate.governed_methods, item)
BY DEF Runs, IsGoverned

(* The weight of a request is a sum over its places.                       *)
LEMMA WeightSum ==
  ASSUME NEW request
  PROVE  Weight(request) = SumFunctionOnSet(Weights(request.body.items), DOMAIN request.body.items)
<1>1. Weight(request) = SumFunction(Weights(request.body.items))
  BY DEF Weight, Weights
<1>2. DOMAIN Weights(request.body.items) = DOMAIN request.body.items
  BY DEF Weights
<1>3. QED
  BY <1>1, <1>2 DEF SumFunction

(* What compute_contribution answers covers what upstream may run: nothing *)
(* to run if it is ungoverned, the whole weight if it is a price.          *)
LEMMA OutcomeFacts ==
  ASSUME GateOK(gate, rules), NEW slot, NEW request \in Arriving, calls[slot].request = request,
         NEW raw, Given(request, raw)
  PROVE  /\ Outcome(slot, raw) = Ungoverned => ~MayRun(request)
         /\ Outcome(slot, raw) >= 0 =>
              /\ Outcome(slot, raw) \in Nat /\ Readable(request) /\ request.contains_body
              /\ MayRun(request) =>
                   Weight(request) \in Nat /\ Weight(request) <= Outcome(slot, raw)
         /\ Harmless(request) => Outcome(slot, raw) = Ungoverned
<1> DEFINE items == request.body.items
           priced == Items(request.body)
           price == Price(gate, priced)
           out == Outcome(slot, raw)
<1>1. out = CASE raw = "absent" -> Ungoverned
              [] raw = "uninspectable" \/ (raw = "present" /\ ~Strict(request.body)) -> Unpriceable
              [] OTHER -> price
  BY DEF Outcome, ComputeContribution
<1>2. /\ items \in Seq(ItemType) /\ priced \in Seq(ItemType) /\ priced # <<>>
      /\ items # <<>> => priced = items
  BY ArrivingItems
<1> DEFINE G == Governed(gate.governed_methods, priced)
<1>3. price = Ungoverned <=> G = {}
  BY <1>2, PriceUngoverned
<1>4. DOMAIN items = 1 .. Len(items) /\ ToSet(items) = {items[i] : i \in DOMAIN items}
  BY <1>2 DEF ToSet
<1>5. priced # items => 1 \in G
  <2>1. SUFFICES ASSUME priced # items PROVE 1 \in G
    OBVIOUS
  <2>2. priced = <<Scalar>>
    BY <2>1 DEF Items
  <2>3. IsGoverned(gate.governed_methods, Scalar)
    BY DEF IsGoverned, Scalar
  <2>4. QED
    BY <2>2, <2>3 DEF Governed
<1>6. CASE raw = "absent"
  BY <1>1, <1>6 DEF Given, MayRun, Ungoverned
<1>7. CASE raw = "uninspectable" \/ (raw = "present" /\ ~Strict(request.body))
  <2>1. out = Unpriceable
    BY <1>1, <1>7
  <2>2. request.contains_body /\ ~Readable(request)
    BY <1>7 DEF Given
  <2> HIDE DEF out
  <2>3. QED
    BY <2>1, <2>2 DEF Unpriceable, Ungoverned, Harmless, out
<1>8. CASE raw = "present" /\ Strict(request.body)
  <2>1. out = price /\ request.contains_body /\ Readable(request)
    BY <1>1, <1>8 DEF Given
  <2>2. ASSUME out = Ungoverned PROVE ~MayRun(request)
    <3>1. G = {} /\ priced = items
      BY <1>3, <1>5, <2>1, <2>2
    <3>2. \A i \in DOMAIN items : ~Runs(items[i])
      BY <3>1, RunsGoverned DEF Governed
    <3>3. QED
      BY <2>1, <3>2, <1>4 DEF MayRun
  <2>3. ASSUME out >= 0
        PROVE  /\ out \in Nat
               /\ MayRun(request) => Weight(request) \in Nat /\ Weight(request) <= out
    <3>1. price \in Nat /\ Addends(Weights(priced), DOMAIN priced)
          /\ SumFunctionOnSet(Weights(priced), DOMAIN priced) <= price
      BY <1>2, <2>1, <2>3, PriceCovers
    <3>2. SumFunctionOnSet(Weights(priced), DOMAIN priced) \in Nat
      BY <3>1, SumNat
    <3>3. MayRun(request) => items # <<>>
      BY <2>1, <1>4 DEF MayRun
    <3>4. QED
      BY <3>1, <3>2, <3>3, <1>2, <2>1, WeightSum
  <2>4. ASSUME Harmless(request) PROVE out = Ungoverned
    <3>1. /\ items # <<>> /\ priced = items
          /\ \A i \in DOMAIN items :
               /\ items[i].object /\ items[i].jsonrpc
               /\ \/ items[i].method \notin gate.governed_methods \cup {None, Invalid}
                  \/ /\ items[i].method = None /\ items[i].id # None
                     /\ items[i].result # items[i].error
      BY <2>1, <2>4, <1>2, <1>4 DEF Harmless
    <3>2. None \notin gate.governed_methods /\ None # Invalid
      BY DEF GateOK, None, Invalid
    <3>3. \A i \in DOMAIN items : ~IsGoverned(gate.governed_methods, items[i])
      BY <3>1, <3>2 DEF IsGoverned, IsJsonRpcResponse
    <3>4. G = {}
      BY <3>1, <3>3 DEF Governed
    <3>5. QED
      BY <2>1, <3>4, <1>3
  <2>5. QED
    BY <2>1, <2>2, <2>3, <2>4
<1>9. QED
  BY <1>6, <1>7, <1>8 DEF Given

(* An identity is a ledger key, and when accepted the key of who sent the  *)
(* request.                                                                *)
LEMMA IdentityFacts ==
  ASSUME GateOK(gate, rules), NEW request \in Arriving
  PROVE  /\ Identity(request) \in Keys
         /\ Identity(request) \notin {Missing, Invalid} => Identity(request) = Party(request)
<1>1. ASSUME NEW raw, raw \in DOMAIN Folded => Folded[raw] = request.who
      PROVE  /\ Canonical(raw) \in Keys
             /\ Canonical(raw) \notin {Missing, Invalid} => Canonical(raw) = request.who
  BY <1>1 DEF Canonical, Keys
<1>2. CASE gate.source = "shared"
  BY <1>2 DEF Identity, Party, Keys
<1>3. CASE gate.source = "authentication"
  <2>1. request.auth[gate.field] \in DOMAIN Folded =>
          Folded[request.auth[gate.field]] = request.who
    BY <1>3, IdentityAssumption DEF GateOK
  <2>2. Identity(request) = Canonical(request.auth[gate.field])
    BY <1>3 DEF Identity
  <2>3. Party(request) = request.who
    BY <1>3 DEF Party
  <2>4. QED
    BY <1>1, <2>1, <2>2, <2>3
<1>4. CASE gate.source = "trusted-header"
  <2>1. Identity(request) = CASE Len(request.headers) = 0 -> Missing
                              [] Len(request.headers) = 1 -> Canonical(request.headers[1])
                              [] OTHER -> Invalid
    BY <1>4 DEF Identity
  <2>2. CASE Len(request.headers) = 1
    <3>1. request.headers \in Seq(STRING) /\ 1 \in DOMAIN request.headers
      BY <2>2, IdentityAssumption
    <3>2. request.headers[1] \in ToSet(request.headers)
      BY <3>1 DEF ToSet
    <3>3. request.headers[1] \in DOMAIN Folded => Folded[request.headers[1]] = request.who
      BY <2>2, <3>2, IdentityAssumption
    <3>4. Identity(request) = Canonical(request.headers[1])
      BY <2>1, <2>2
    <3>5. Party(request) = request.who
      BY <1>4 DEF Party
    <3>6. QED
      BY <1>1, <3>3, <3>4, <3>5
  <2>3. CASE Len(request.headers) # 1
    <3>1. Identity(request) \in {Missing, Invalid}
      BY <2>1, <2>3
    <3>2. QED
      BY <3>1 DEF Keys
  <2>4. QED
    BY <2>2, <2>3
<1>5. QED
  BY <1>2, <1>3, <1>4 DEF GateOK

(* Both phases decide by what they were given.                             *)
LEMMA Decides ==
  ASSUME NEW slot \in Slots, CallOK(gate, rules, calls[slot]),
         DecideAtHeaders(slot) \/ DecideOnBody(slot)
  PROVE  \E raw : /\ Given(calls[slot].request, raw) /\ Decide(slot, raw, clock)
                  /\ calls[slot].at \in {"arrived", "body"}
<1> DEFINE request == calls[slot].request
<1>1. CASE DecideAtHeaders(slot)
  <2>1. /\ calls[slot].at = "arrived"
        /\ ~(request.contains_body /\ Inspectable(request))
        /\ Decide(slot, IF request.contains_body THEN "uninspectable" ELSE "absent", clock)
    BY <1>1 DEF DecideAtHeaders
  <2>2. request.contains_body => ~Readable(request)
    BY <2>1 DEF Inspectable, Readable
  <2>3. CASE request.contains_body
    BY <2>1, <2>2, <2>3 DEF Given
  <2>4. CASE ~request.contains_body
    BY <2>1, <2>4 DEF Given
  <2>5. QED
    BY <2>3, <2>4
<1>2. CASE DecideOnBody(slot)
  <2>1. /\ calls[slot].at = "body" /\ request.contains_body /\ Inspectable(request)
        /\ Decide(slot, IF request.size <= MaxBody THEN "present" ELSE "uninspectable", clock)
    BY <1>2 DEF DecideOnBody, Instant, CallOK, CallType
  <2>2. CASE request.size <= MaxBody
    <3>1. Readable(request) <=> Strict(request.body)
      BY <2>1, <2>2 DEF Readable, Inspectable
    <3>2. QED
      BY <2>1, <2>2, <3>1 DEF Given
  <2>3. CASE ~(request.size <= MaxBody)
    <3>1. ~Readable(request)
      BY <2>3 DEF Readable
    <3>2. QED
      BY <2>1, <2>3, <3>1 DEF Given
  <2>4. QED
    BY <2>2, <2>3
<1>3. QED
  BY <1>1, <1>2

-----------------------------------------------------------------------------
(* The initial states.                                                     *)
LEMMA StartsConfigured == ASSUME Init PROVE GateOK(gate, rules)
<1>1. PICK config \in Configs :
        /\ Valid(config) /\ gate = Build(config)
        /\ rules = [block |-> config.mode = "block", budget |-> config.aggregate_budget,
                    provisional |-> Provisional(config)]
  BY DEF Init
<1>2. /\ gate.source = (IF config.budget_scope = "fabric" THEN "shared" ELSE config.identity_source)
      /\ gate.field = config.identity_field /\ gate.contribution = config.contribution
      /\ gate.fixed_weight = config.fixed_weight
      /\ gate.estimated_tokens = config.estimated_tokens
      /\ gate.governed_methods = ToSet(config.governed_methods)
  BY <1>1 DEF Build
<1>3. /\ config.aggregate_budget \in Nat /\ config.fixed_weight \in Nat
      /\ config.estimated_tokens \in Nat /\ config.contribution \in Contributions
      /\ ValidIdentity(config)
  BY <1>1 DEF Valid
<1>4. ToSet(config.governed_methods) \cap {None, Invalid} = {}
  BY MethodsAssumption
<1>5. rules.block \in BOOLEAN /\ rules.provisional \in BOOLEAN /\ rules.budget \in Nat
  BY <1>1, <1>3 DEF Provisional
<1>6. /\ gate.source \in {"shared", "authentication", "trusted-header"}
      /\ gate.source = "authentication" => gate.field \in {"client_id", "principal", "property"}
  BY <1>2, <1>3 DEF ValidIdentity
<1>7. QED
  BY <1>2, <1>3, <1>4, <1>5, <1>6 DEF GateOK

(* The invariant holds at the start.                                       *)
LEMMA Starts == Init => GInv
<1> SUFFICES ASSUME Init PROVE GInv
  OBVIOUS
<1>1. PICK arrival \in Arrivals :
        calls = [slot \in Slots |-> [at |-> "arrived", request |-> arrival[slot]]]
  BY DEF Init
<1>2. entries = <<>> /\ clock = 0 /\ DOMAIN entries = {}
  BY DEF Init
<1>3. \A slot \in Slots : calls[slot].at = "arrived" /\ calls[slot].request \in Arriving
  BY <1>1 DEF Arriving
<1>4. CallsOK(gate, rules, calls, entries)
  BY <1>1, <1>3 DEF CallsOK, CallOK, CallType, Spared, Denial, Backed, Sent
<1>5. EntriesOK(rules, calls, entries, clock)
  BY <1>2, <1>3 DEF EntriesOK, Sent
<1>6. Within(rules, calls, entries)
  <2> SUFFICES ASSUME NEW scope \in Keys
               PROVE  SumFunctionOnSet(UnitsOf(entries), Kept(rules, calls, entries, scope))
                        <= rules.budget
    BY DEF Within
  <2>1. Kept(rules, calls, entries, scope) = {}
    BY <1>2 DEF Kept
  <2>2. rules.budget \in Nat
    BY StartsConfigured DEF GateOK
  <2>3. QED
    BY <2>1, <2>2, SumEmpty
<1>7. QED
  BY <1>2, <1>4, <1>5, <1>6, StartsConfigured DEF GInv, Inv

-----------------------------------------------------------------------------
(* The moves of the invariant: the entries age, time passes, a call moves  *)
(* on without the ledger, is admitted, or is settled.                      *)
LEMMA AgedInv ==
  ASSUME GInv, NEW map \in Ledger!Aged
  PROVE  Inv(gate, rules, calls, map, clock)
<1>1. /\ GateOK(gate, rules) /\ clock \in Nat /\ CallsOK(gate, rules, calls, entries)
      /\ EntriesOK(rules, calls, entries, clock) /\ Within(rules, calls, entries)
  BY DEF GInv, Inv
<1>2. /\ DOMAIN map = DOMAIN entries
      /\ \A slot \in DOMAIN entries : Ages(entries[slot], map[slot])
  BY <1>1, AgedFacts DEF GateOK, EntriesOK
<1>3. ASSUME NEW slot \in DOMAIN entries
      PROVE  /\ map[slot] \in EntryType /\ map[slot].scope = entries[slot].scope
             /\ map[slot].units = entries[slot].units
             /\ map[slot].deadline = entries[slot].deadline
             /\ Timed(rules, calls[slot], map[slot], clock)
             /\ Counts(rules, calls[slot], map[slot]) => Counts(rules, calls[slot], entries[slot])
  <2>1. entries[slot] \in EntryType /\ Timed(rules, calls[slot], entries[slot], clock)
    BY <1>1 DEF EntriesOK
  <2>2. rules.provisional \in BOOLEAN
    BY <1>1 DEF GateOK
  <2>3. QED
    BY <1>1, <1>2, <2>1, <2>2, AgesTimed DEF Ages
<1>4. EntriesOK(rules, calls, map, clock)
  BY <1>1, <1>2, <1>3 DEF EntriesOK
<1>5. CallsOK(gate, rules, calls, map)
  BY <1>1, <1>2, <1>3 DEF CallsOK, Backed, EntriesOK
<1>6. Within(rules, calls, map)
  <2> SUFFICES ASSUME NEW scope \in Keys, Clean(rules, calls, map, scope)
               PROVE  SumFunctionOnSet(UnitsOf(map), Kept(rules, calls, map, scope))
                        <= rules.budget
    BY DEF Within
  <2>1. Clean(rules, calls, entries, scope)
    BY <1>2, <1>3 DEF Clean
  <2>2. Kept(rules, calls, map, scope) \subseteq Kept(rules, calls, entries, scope)
    BY <1>2, <1>3 DEF Kept
  <2>3. \A slot \in Kept(rules, calls, map, scope) :
          slot \in DOMAIN map /\ map[slot].units = entries[slot].units
    BY <1>2, <1>3 DEF Kept
  <2>4. SumFunctionOnSet(UnitsOf(entries), Kept(rules, calls, entries, scope)) <= rules.budget
    BY <1>1, <2>1 DEF Within
  <2>5. rules.budget \in Nat
    BY <1>1 DEF GateOK
  <2>6. QED
    BY <1>1, <2>2, <2>3, <2>4, <2>5, KeptShrinks
<1>7. QED
  BY <1>1, <1>4, <1>5, <1>6 DEF Inv

(* Time passing keeps the invariant.                                       *)
LEMMA TickInv ==
  ASSUME NEW g, NEW r, NEW cs, NEW es, NEW now, Inv(g, r, cs, es, now)
  PROVE  Inv(g, r, cs, es, now + 1)
<1>1. EntriesOK(r, cs, es, now) /\ now \in Nat
  BY DEF Inv
<1>2. \A slot \in DOMAIN es : Timed(r, cs[slot], es[slot], now + 1)
  <2> SUFFICES ASSUME NEW slot \in DOMAIN es PROVE Timed(r, cs[slot], es[slot], now + 1)
    OBVIOUS
  <2>1. es[slot] \in EntryType /\ Timed(r, cs[slot], es[slot], now)
    BY <1>1 DEF EntriesOK
  <2>2. QED
    BY <1>1, <2>1, TickTimed
<1>3. EntriesOK(r, cs, es, now + 1)
  BY <1>1, <1>2 DEF EntriesOK
<1>4. QED
  BY <1>1, <1>3 DEF Inv

(* The other entries count as before; the entry of slot no more than that. *)
LEMMA WithinMoves ==
  ASSUME NEW r, r.budget \in Nat, NEW cs, NEW es, NEW now, EntriesOK(r, cs, es, now),
         Within(r, cs, es), DOMAIN cs = Slots,
         NEW slot \in Slots, NEW ds, NEW fs,
         DOMAIN fs = DOMAIN es,
         \A o \in DOMAIN es \ {slot} : ds[o] = cs[o] /\ fs[o] = es[o],
         slot \in DOMAIN es =>
           /\ fs[slot].scope = es[slot].scope /\ fs[slot].units = es[slot].units
           /\ ds[slot].violations = cs[slot].violations
           /\ Counts(r, ds[slot], fs[slot]) => Counts(r, cs[slot], es[slot])
  PROVE  Within(r, ds, fs)
<1> SUFFICES ASSUME NEW scope \in Keys, Clean(r, ds, fs, scope)
             PROVE  SumFunctionOnSet(UnitsOf(fs), Kept(r, ds, fs, scope)) <= r.budget
  BY DEF Within
<1>1. Clean(r, cs, es, scope)
  BY DEF Clean
<1>2. Kept(r, ds, fs, scope) \subseteq Kept(r, cs, es, scope)
  BY DEF Kept
<1>3. \A o \in Kept(r, ds, fs, scope) : o \in DOMAIN fs /\ fs[o].units = es[o].units
  BY DEF Kept
<1>4. SumFunctionOnSet(UnitsOf(es), Kept(r, cs, es, scope)) <= r.budget
  BY <1>1 DEF Within
<1>5. QED
  BY <1>2, <1>3, <1>4, KeptShrinks

(* A call may move on when it is still backed and its entry, if it has one,*)
(* is as far as it may be.                                                 *)
LEMMA CallMoves ==
  ASSUME NEW g, NEW r, NEW cs, NEW es, NEW now, Inv(g, r, cs, es, now),
         NEW slot \in Slots, NEW call,
         CallOK(g, r, call), Backed(g, r, call, es[slot]),
         \/ slot \notin DOMAIN es /\ ~(call.at \in Sent /\ call.reserved)
         \/ /\ slot \in DOMAIN es /\ call.at = "lost" /\ call.reserved
            /\ cs[slot].at = "upstream" /\ call.violations = cs[slot].violations
  PROVE  Inv(g, r, [cs EXCEPT ![slot] = call], es, now)
<1> DEFINE ds == [cs EXCEPT ![slot] = call]
<1>1. /\ GateOK(g, r) /\ now \in Nat /\ CallsOK(g, r, cs, es)
      /\ EntriesOK(r, cs, es, now) /\ Within(r, cs, es)
  BY DEF Inv
<1>2. /\ DOMAIN ds = Slots /\ ds[slot] = call
      /\ \A o \in Slots \ {slot} : ds[o] = cs[o]
  BY <1>1 DEF CallsOK
<1> HIDE DEF ds
<1>3. CallsOK(g, r, ds, es)
  BY <1>1, <1>2 DEF CallsOK
<1>4. slot \in DOMAIN es =>
        Timed(r, call, es[slot], now) /\ (Counts(r, call, es[slot]) => Counts(r, cs[slot], es[slot]))
  BY <1>1 DEF EntriesOK, Timed, Counts, Late
<1>5. EntriesOK(r, ds, es, now)
  BY <1>1, <1>2, <1>4 DEF EntriesOK, Sent
<1>6. Within(r, ds, es)
  <2>1. r.budget \in Nat /\ DOMAIN cs = Slots
    BY <1>1 DEF GateOK, CallsOK
  <2>2. \A o \in DOMAIN es \ {slot} : ds[o] = cs[o]
    BY <1>1, <1>2 DEF EntriesOK
  <2>3. QED
    BY <1>1, <1>2, <1>4, <2>1, <2>2, WithinMoves
<1>7. QED
  BY <1>1, <1>3, <1>5, <1>6 DEF Inv, ds

(* The call's own settlement is applied to its entry.                      *)
LEMMA SettleMoves ==
  ASSUME NEW g, NEW r, NEW cs, NEW es, NEW now, Inv(g, r, cs, es, now),
         NEW slot \in DOMAIN es, cs[slot].at = "upstream",
         NEW status \in Statuses, NEW call,
         call.at = "answered" /\ call.status = status /\ call.answered = now,
         call.request = cs[slot].request /\ call.reserved = cs[slot].reserved,
         call.violations = cs[slot].violations /\ call.since = cs[slot].since
  PROVE  Inv(g, r, [cs EXCEPT ![slot] = call],
             [es EXCEPT ![slot] = Ledger!Settled(es[slot], IsSuccess(status), 0)], now)
<1> DEFINE e == es[slot]
           f == Ledger!Settled(e, IsSuccess(status), 0)
           ds == [cs EXCEPT ![slot] = call]
           fs == [es EXCEPT ![slot] = f]
<1>1. /\ GateOK(g, r) /\ now \in Nat /\ CallsOK(g, r, cs, es)
      /\ EntriesOK(r, cs, es, now) /\ Within(r, cs, es)
  BY DEF Inv
<1>2. /\ slot \in Slots /\ cs[slot].reserved
      /\ e \in EntryType /\ Timed(r, cs[slot], e, now)
  BY <1>1 DEF EntriesOK
<1>3. /\ f \in EntryType /\ f.scope = e.scope /\ f.units = e.units /\ f.deadline = e.deadline
      /\ f.status = "closed"
      /\ IF e.status = "closed" THEN f.charged = e.charged
         ELSE IF IsSuccess(status) THEN f.charged = 0 ELSE f.charged = Ledger!Uncharged
  <2> HIDE DEF e
  <2>1. e.status \in {"held", "lapsed", "closed"} /\ e.charged \in {-1, 0}
    BY <1>2 DEF EntryType, Ledger!Uncharged
  <2>2. QED
    BY <1>2, <2>1 DEF Ledger!Settled, Ledger!Uncharged, EntryType
<1>4. IsSuccess(status) <=> status < 400
  <2>1. status \in Int /\ 200 <= status /\ status <= 599
    BY StatusesAssumption
  <2>2. QED
    BY <2>1 DEF IsSuccess
<1>5. /\ DOMAIN ds = Slots /\ ds[slot] = call
      /\ \A o \in Slots \ {slot} : ds[o] = cs[o]
  BY <1>1, <1>2 DEF CallsOK
<1>6. /\ DOMAIN fs = DOMAIN es /\ fs[slot] = f
      /\ \A o \in DOMAIN es \ {slot} : fs[o] = es[o]
  BY <1>2
<1> HIDE DEF e, f, ds, fs
<1>7. CallOK(g, r, call)
  <2>1. CallOK(g, r, cs[slot])
    BY <1>1, <1>2 DEF CallsOK
  <2>2. CallType(call)
    BY <1>1, <2>1 DEF CallOK, CallType, Sent
  <2>3. Spared(g, call)
    BY <2>1 DEF CallOK, Spared, Sent
  <2>4. QED
    BY <2>1, <2>2, <2>3 DEF CallOK, Denial
<1>8. Backed(g, r, call, f)
  <2>1. Backed(g, r, cs[slot], e)
    BY <1>1, <1>2 DEF CallsOK, e
  <2>2. QED
    BY <1>3, <2>1 DEF Backed, Sent
<1>9. CallsOK(g, r, ds, fs)
  <2>1. ASSUME NEW o \in Slots \ {slot} PROVE CallOK(g, r, ds[o]) /\ Backed(g, r, ds[o], fs[o])
    <3>1. CallOK(g, r, cs[o]) /\ Backed(g, r, cs[o], es[o]) /\ ds[o] = cs[o]
      BY <1>1, <1>5 DEF CallsOK
    <3>2. CASE o \in DOMAIN es
      BY <3>1, <3>2, <1>6
    <3>3. CASE o \notin DOMAIN es
      <4>1. ~(cs[o].at \in Sent /\ cs[o].reserved)
        BY <1>1, <3>3 DEF EntriesOK
      <4>2. QED
        BY <3>1, <4>1 DEF Backed
    <3>4. QED
      BY <3>2, <3>3
  <2>2. QED
    BY <2>1, <1>5, <1>6, <1>7, <1>8 DEF CallsOK
<1>10. e.deadline \in Nat /\ e.units \in Nat
  BY <1>2 DEF EntryType
<1>11. /\ Timed(r, call, f, now)
       /\ Counts(r, call, f) => Counts(r, cs[slot], e)
  <2>1. e.units > 0 /\ now < e.deadline + Ttl => e.status \in {"held", "lapsed"}
    BY <1>2 DEF Timed, EntryType
  <2>2. Ledger!Uncharged = -1
    BY DEF Ledger!Uncharged
  <2>3. Timed(r, call, f, now)
    <3>1. f.units > 0 /\ call.answered < f.deadline + Ttl => (f.charged = 0 <=> call.status < 400)
      BY <1>3, <1>4, <2>1, <2>2
    <3>2. r.provisional /\ f.units > 0 /\ call.status < 400 => f.charged = 0
      <4>1. r.provisional /\ e.units > 0 => e.status = "held" \/ e.charged = 0
        BY <1>2 DEF Timed
      <4>2. QED
        BY <1>3, <1>4, <4>1
    <3>3. QED
      BY <1>3, <3>1, <3>2 DEF Timed
  <2>4. ASSUME Counts(r, call, f) PROVE Counts(r, cs[slot], e)
    <3>1. f.charged = 0 /\ (r.provisional \/ now < e.deadline)
      BY <1>1, <1>3, <1>10, <2>4 DEF Counts, Late
    <3>2. CASE e.status = "closed"
      BY <1>3, <3>1, <3>2 DEF Counts, Late
    <3>3. CASE e.status = "held"
      BY <3>3 DEF Counts, Late
    <3>4. CASE e.status = "lapsed"
      <4>1. now >= e.deadline /\ e.charged = IF r.provisional THEN 0 ELSE Ledger!Uncharged
        BY <1>2, <3>4 DEF Timed
      <4>2. r.provisional /\ e.charged = 0
        BY <1>1, <1>10, <3>1, <4>1
      <4>3. QED
        BY <4>2 DEF Counts
    <3>5. QED
      BY <1>2, <3>2, <3>3, <3>4 DEF EntryType
  <2>5. QED
    BY <2>3, <2>4
<1>12. EntriesOK(r, ds, fs, now)
  <2>1. \A o \in Slots : o \in DOMAIN fs <=> ds[o].at \in Sent /\ ds[o].reserved
    BY <1>1, <1>2, <1>5, <1>6 DEF EntriesOK, Sent
  <2>2. DOMAIN fs \subseteq Slots
    BY <1>1, <1>6 DEF EntriesOK
  <2>3. \A o \in DOMAIN fs : fs[o] \in EntryType /\ Timed(r, ds[o], fs[o], now)
    BY <1>1, <1>3, <1>5, <1>6, <1>11 DEF EntriesOK
  <2>4. QED
    BY <2>1, <2>2, <2>3 DEF EntriesOK
<1>13. Within(r, ds, fs)
  <2>1. r.budget \in Nat /\ DOMAIN cs = Slots
    BY <1>1 DEF GateOK, CallsOK
  <2>2. \A o \in DOMAIN es \ {slot} : ds[o] = cs[o] /\ fs[o] = es[o]
    BY <1>1, <1>5, <1>6 DEF EntriesOK
  <2>3. /\ fs[slot].scope = es[slot].scope /\ fs[slot].units = es[slot].units
        /\ ds[slot].violations = cs[slot].violations
        /\ Counts(r, ds[slot], fs[slot]) => Counts(r, cs[slot], es[slot])
    BY <1>3, <1>5, <1>6, <1>11 DEF e
  <2>4. QED
    BY <1>1, <1>2, <1>6, <2>1, <2>2, <2>3, WithinMoves
<1>14. QED
  BY <1>1, <1>9, <1>12, <1>13 DEF Inv, ds, fs, f, e

(* All that is exposed in a scope.                                         *)
AllIn(es, scope) ==
  {slot \in DOMAIN es :
     es[slot].scope = scope /\ (es[slot].status = "held" \/ es[slot].charged = 0)}

(* The units of a scope's entries can be summed.                           *)
LEMMA AllInUnits ==
  ASSUME NEW es, IsFiniteSet(DOMAIN es), \A slot \in DOMAIN es : es[slot] \in EntryType,
         NEW scope
  PROVE  /\ Addends(UnitsOf(es), DOMAIN es) /\ Addends(UnitsOf(es), AllIn(es, scope))
         /\ SumFunction([slot \in AllIn(es, scope) |-> es[slot].units]) =
              SumFunctionOnSet(UnitsOf(es), AllIn(es, scope))
<1> DEFINE K == AllIn(es, scope)
           u == UnitsOf(es)
           w == [slot \in K |-> es[slot].units]
<1>1. K \subseteq DOMAIN es /\ \A slot \in DOMAIN es : u[slot] \in Nat
  BY DEF AllIn, UnitsOf, EntryType
<1>2. \A slot \in K : w[slot] = u[slot]
  BY <1>1 DEF UnitsOf
<1>3. SumFunction(w) = SumFunctionOnSet(w, K)
  BY DEF SumFunction
<1> HIDE DEF K, u, w
<1>4. Addends(u, DOMAIN es) /\ Addends(u, K)
  BY <1>1, FS_Subset DEF Addends
<1>5. SumFunctionOnSet(w, K) = SumFunctionOnSet(u, K)
  BY <1>2, <1>4, SumSame
<1>6. QED
  BY <1>3, <1>4, <1>5 DEF K, u, w

(* A new entry keeps the invariant when its scope still fits the budget or *)
(* its call tells of the breach.                                           *)
LEMMA AdmitMoves ==
  ASSUME NEW g, NEW r, NEW cs, NEW es, NEW now, Inv(g, r, cs, es, now),
         NEW slot \in Slots, slot \notin DOMAIN es, NEW scope \in Keys, NEW units \in Nat,
         NEW fs,
         fs = [i \in DOMAIN es \cup {slot} |->
                 IF i = slot THEN Ledger!Entry(scope, units, now) ELSE es[i]],
         NEW call, call.at = "upstream", call.reserved = TRUE,
         CallOK(g, r, call), Backed(g, r, call, Ledger!Entry(scope, units, now)),
         r.block \/ call.violations = 0 =>
           SumFunctionOnSet(UnitsOf(fs), AllIn(fs, scope)) <= r.budget
  PROVE  Inv(g, r, [cs EXCEPT ![slot] = call], fs, now)
<1> DEFINE ds == [cs EXCEPT ![slot] = call]
           e == Ledger!Entry(scope, units, now)
<1>1. /\ GateOK(g, r) /\ now \in Nat /\ CallsOK(g, r, cs, es)
      /\ EntriesOK(r, cs, es, now) /\ Within(r, cs, es)
  BY DEF Inv
<1>2. /\ DOMAIN ds = Slots /\ ds[slot] = call
      /\ \A o \in Slots \ {slot} : ds[o] = cs[o]
  BY <1>1 DEF CallsOK
<1>3. /\ DOMAIN fs = DOMAIN es \cup {slot} /\ fs[slot] = e
      /\ \A o \in DOMAIN es : o # slot /\ fs[o] = es[o]
  OBVIOUS
<1>4. /\ e \in EntryType /\ e.scope = scope /\ e.units = units /\ e.deadline = now + Ttl
      /\ e.charged = Ledger!Uncharged
      /\ e.status = IF units = 0 THEN "closed" ELSE "held"
  BY <1>1, TimeAssumption DEF Ledger!Entry, EntryType
<1>5. Timed(r, call, e, now)
  BY <1>4 DEF Timed
<1> HIDE DEF ds, e
<1>6. CallsOK(g, r, ds, fs)
  <2>1. ASSUME NEW o \in Slots \ {slot} PROVE CallOK(g, r, ds[o]) /\ Backed(g, r, ds[o], fs[o])
    <3>1. CallOK(g, r, cs[o]) /\ Backed(g, r, cs[o], es[o]) /\ ds[o] = cs[o]
      BY <1>1, <1>2 DEF CallsOK
    <3>2. CASE o \in DOMAIN es
      BY <3>1, <3>2, <1>3
    <3>3. CASE o \notin DOMAIN es
      <4>1. ~(cs[o].at \in Sent /\ cs[o].reserved)
        BY <1>1, <3>3 DEF EntriesOK
      <4>2. QED
        BY <3>1, <4>1 DEF Backed
    <3>4. QED
      BY <3>2, <3>3
  <2>2. CallOK(g, r, ds[slot]) /\ Backed(g, r, ds[slot], fs[slot])
    BY <1>2, <1>3 DEF e
  <2>3. QED
    BY <2>1, <2>2, <1>2 DEF CallsOK
<1>7. EntriesOK(r, ds, fs, now)
  <2>1. \A o \in Slots : o \in DOMAIN fs <=> ds[o].at \in Sent /\ ds[o].reserved
    BY <1>1, <1>2, <1>3 DEF EntriesOK, Sent
  <2>2. DOMAIN fs \subseteq Slots
    BY <1>1, <1>3 DEF EntriesOK
  <2>3. ASSUME NEW o \in DOMAIN fs PROVE fs[o] \in EntryType /\ Timed(r, ds[o], fs[o], now)
    <3>1. CASE o = slot
      BY <3>1, <1>2, <1>3, <1>4, <1>5
    <3>2. CASE o # slot
      <4>1. o \in DOMAIN es /\ o \in Slots
        BY <3>2, <1>1, <1>3 DEF EntriesOK
      <4>2. QED
        BY <3>2, <4>1, <1>1, <1>2, <1>3 DEF EntriesOK
    <3>3. QED
      BY <3>1, <3>2
  <2>4. QED
    BY <2>1, <2>2, <2>3 DEF EntriesOK
<1>8. Within(r, ds, fs)
  <2> SUFFICES ASSUME NEW s \in Keys, Clean(r, ds, fs, s)
               PROVE  SumFunctionOnSet(UnitsOf(fs), Kept(r, ds, fs, s)) <= r.budget
    BY DEF Within
  <2>0. r.budget \in Nat
    BY <1>1 DEF GateOK
  <2>1. CASE s = scope
    <3>1. r.block \/ call.violations = 0
      BY <2>1, <1>2, <1>3, <1>4 DEF Clean
    <3>2. IsFiniteSet(DOMAIN fs) /\ \A o \in DOMAIN fs : fs[o] \in EntryType
      BY <1>7, SlotsAssumption, FS_Subset DEF EntriesOK
    <3>3. Addends(UnitsOf(fs), AllIn(fs, scope))
      BY <3>2, AllInUnits
    <3>4. Kept(r, ds, fs, scope) \in SUBSET AllIn(fs, scope)
      BY DEF Kept, AllIn, Counts
    <3>5. /\ SumFunctionOnSet(UnitsOf(fs), Kept(r, ds, fs, scope)) \in Nat
          /\ SumFunctionOnSet(UnitsOf(fs), Kept(r, ds, fs, scope))
               <= SumFunctionOnSet(UnitsOf(fs), AllIn(fs, scope))
          /\ SumFunctionOnSet(UnitsOf(fs), AllIn(fs, scope)) \in Nat
      BY <3>3, <3>4, SumWithin, SumNat
    <3>6. SumFunctionOnSet(UnitsOf(fs), AllIn(fs, scope)) <= r.budget
      BY <3>1
    <3>7. QED
      BY <2>0, <2>1, <3>5, <3>6
  <2>2. CASE s # scope
    <3>1. \A o \in DOMAIN fs : fs[o].scope = s => o \in DOMAIN es /\ o \in Slots \ {slot}
      BY <2>2, <1>1, <1>3, <1>4 DEF EntriesOK
    <3>2. Clean(r, cs, es, s)
      BY <1>1, <1>2, <1>3 DEF Clean, EntriesOK
    <3>3. Kept(r, ds, fs, s) \subseteq Kept(r, cs, es, s)
      BY <3>1, <1>2, <1>3 DEF Kept
    <3>4. \A o \in Kept(r, ds, fs, s) : o \in DOMAIN fs /\ fs[o].units = es[o].units
      BY <3>1, <1>3 DEF Kept
    <3>5. SumFunctionOnSet(UnitsOf(es), Kept(r, cs, es, s)) <= r.budget
      BY <1>1, <3>2 DEF Within
    <3>6. QED
      BY <1>1, <2>0, <3>3, <3>4, <3>5, KeptShrinks
  <2>3. QED
    BY <2>1, <2>2
<1>9. QED
  BY <1>1, <1>6, <1>7, <1>8 DEF Inv, ds

-----------------------------------------------------------------------------
(* The steps.                                                              *)
LEMMA SameSum == \A f : Ledger!SumFunction(f) = SumFunction(f)
BY DEF Ledger!SumFunction, Ledger!SumFunctionOnSet, Ledger!FoldFunctionOnSet,
       Ledger!MapThenFoldSet, SumFunction, SumFunctionOnSet, FoldFunctionOnSet,
       MapThenFoldSet

(* Exposure after a step is the sum of the entries after it.               *)
LEMMA ExposureNext ==
  ASSUME clock' = clock, clock \in Nat, NEW scope
  PROVE  Ledger!Exposure(scope)' =
           SumFunction([slot \in AllIn(entries', scope) |-> entries'[slot].units])
<1>1. Ledger!PeriodOf(clock)' = 0
  BY DEF Ledger!PeriodOf
<1>2. Ledger!Exposed(scope)' = AllIn(entries', scope)
  BY <1>1 DEF Ledger!Exposed, AllIn
<1>3. Ledger!Exposure(scope)' =
        Ledger!SumFunction([slot \in Ledger!Exposed(scope)' |-> entries'[slot].units])
  BY DEF Ledger!Exposure
<1>4. QED
  BY <1>2, <1>3, SameSum

(* The steps of the filter, one by one.  decide:                           *)
LEMMA DecideKeeps ==
  ASSUME GInv, NEW slot \in Slots, NEW raw, Given(calls[slot].request, raw),
         calls[slot].at \in {"arrived", "body"}, Decide(slot, raw, clock)
  PROVE  GInv'
<1> DEFINE request == calls[slot].request
           out == Outcome(slot, raw)
<1>1. /\ GateOK(gate, rules) /\ clock \in Nat /\ DOMAIN calls = Slots
      /\ CallOK(gate, rules, calls[slot]) /\ EntriesOK(rules, calls, entries, clock)
      /\ request \in Arriving /\ slot \notin DOMAIN entries
  BY DEF GInv, Inv, CallsOK, CallOK, CallType, EntriesOK, Sent
<1>2. /\ out = Ungoverned => ~MayRunBy(gate, request)
      /\ out >= 0 =>
           /\ out \in Nat /\ Readable(request)
           /\ MayRunBy(gate, request) =>
                WeightBy(gate, request) \in Nat /\ WeightBy(gate, request) <= out
      /\ HarmlessBy(gate, request) => out = Ungoverned
  BY <1>1, OutcomeFacts, ByGate
<1> DEFINE passed(reserved, violations) ==
             [at |-> "upstream", request |-> request, reserved |-> reserved,
              violations |-> violations, since |-> clock]
           denied(violations) ==
             [at |-> "denied", request |-> request, violations |-> violations,
              answer |-> DenyResponse(gate, raw, request.body)]
<1>3. ASSUME NEW reserved \in BOOLEAN, NEW violations \in {0, 1},
             HarmlessBy(gate, request) => ~reserved /\ violations = 0
      PROVE  CallOK(gate, rules, passed(reserved, violations))
  <2>1. CallType(passed(reserved, violations))
    BY <1>1, <1>3 DEF CallType, Sent
  <2>2. QED
    BY <1>3, <2>1 DEF CallOK, Spared, Denial, Sent
<1>4. ASSUME NEW violations, rules.block, ~HarmlessBy(gate, request)
      PROVE  CallOK(gate, rules, denied(violations))
  <2>1. CallType(denied(violations))
    BY <1>1, <1>4 DEF CallType, Sent
  <2>2. Denial(gate, denied(violations))
    BY DEF Denial
  <2>3. QED
    BY <1>4, <2>1, <2>2 DEF CallOK, Spared, Sent
<1>5. ASSUME NEW call, calls' = [calls EXCEPT ![slot] = call], UNCHANGED <<gate, ledger>>,
             CallOK(gate, rules, call), ~(call.at \in Sent /\ call.reserved),
             rules.block /\ call.at \in Sent => ~MayRunBy(gate, call.request)
      PROVE  GInv'
  <2>1. Backed(gate, rules, call, entries[slot])
    BY <1>5 DEF Backed
  <2>2. Inv(gate, rules, [calls EXCEPT ![slot] = call], entries, clock)
    BY <1>1, <1>5, <2>1, CallMoves DEF GInv
  <2>3. QED
    BY <1>5, <2>2 DEF GInv, ledger
<1>6. ASSUME NEW reserved, NEW violations, Continue(slot, reserved, violations)
      PROVE  calls' = [calls EXCEPT ![slot] = passed(reserved, violations)]
  BY <1>6, <1>1 DEF Continue
<1>7. ASSUME NEW violations, Break(slot, raw, violations)
      PROVE  calls' = [calls EXCEPT ![slot] = denied(violations)]
  BY <1>7, <1>1 DEF Break
<1>8. /\ \A violations :
           /\ passed(FALSE, violations).at = "upstream"
           /\ passed(FALSE, violations).request = request
           /\ ~passed(FALSE, violations).reserved
           /\ passed(TRUE, violations).at = "upstream"
           /\ passed(TRUE, violations).request = request
           /\ passed(TRUE, violations).reserved = TRUE
           /\ passed(TRUE, violations).violations = violations
           /\ passed(TRUE, violations).since = clock
      /\ \A violations : denied(violations).at = "denied"
      /\ "upstream" \in Sent /\ "denied" \notin Sent
  BY DEF Sent
<1> HIDE DEF passed, denied, out, request
<1>9. CASE PassUngoverned(slot, raw)
  <2>1. calls' = [calls EXCEPT ![slot] = passed(FALSE, 0)] /\ UNCHANGED <<gate, ledger>>
        /\ out = Ungoverned
    BY <1>6, <1>9 DEF PassUngoverned, out
  <2>2. CallOK(gate, rules, passed(FALSE, 0))
    BY <1>3
  <2>3. /\ ~(passed(FALSE, 0).at \in Sent /\ passed(FALSE, 0).reserved)
        /\ ~MayRunBy(gate, passed(FALSE, 0).request)
    BY <1>2, <1>8, <2>1
  <2>4. QED
    BY <1>5, <2>1, <2>2, <2>3
<1>10. CASE Refuse(slot, raw)
  <2>1. /\ calls' = [calls EXCEPT ![slot] = denied(0)] /\ UNCHANGED <<gate, ledger>>
        /\ rules.block /\ out # Ungoverned
    BY <1>7, <1>10 DEF Refuse, Refuses, out
  <2>2. CallOK(gate, rules, denied(0))
    BY <1>2, <1>4, <2>1
  <2>3. QED
    BY <1>5, <1>8, <2>1, <2>2
<1>11. CASE PassUnpriced(slot, raw)
  <2>1. /\ calls' = [calls EXCEPT ![slot] = passed(FALSE, 0)] /\ UNCHANGED <<gate, ledger>>
        /\ ~rules.block
    BY <1>6, <1>11 DEF PassUnpriced
  <2>2. CallOK(gate, rules, passed(FALSE, 0))
    BY <1>3
  <2>3. QED
    BY <1>5, <1>8, <2>1, <2>2
<1>12. CASE AdmitRefused(slot, raw)
  <2>1. out >= 0 /\ UNCHANGED <<gate, ledger>>
    BY <1>12 DEF AdmitRefused, out
  <2>2. ~HarmlessBy(gate, request)
    BY <1>2, <2>1 DEF Ungoverned
  <2>3. CASE rules.block
    <3>1. calls' = [calls EXCEPT ![slot] = denied(1)]
      BY <1>7, <1>12, <2>3 DEF AdmitRefused
    <3>2. CallOK(gate, rules, denied(1))
      BY <1>4, <2>2, <2>3
    <3>3. QED
      BY <1>5, <1>8, <2>1, <3>1, <3>2
  <2>4. CASE ~rules.block
    <3>1. calls' = [calls EXCEPT ![slot] = passed(FALSE, 1)]
      BY <1>6, <1>12, <2>4 DEF AdmitRefused
    <3>2. CallOK(gate, rules, passed(FALSE, 1))
      BY <1>3, <2>2
    <3>3. QED
      BY <1>5, <1>8, <2>1, <2>4, <3>1, <3>2
  <2>5. QED
    BY <2>3, <2>4
<1>13. CASE Admit(slot, raw, clock)
  <2>0. /\ ~Refuses(slot, raw) /\ out >= 0 /\ out \in Nat
        /\ gate' = gate
    BY <1>2, <1>13 DEF Admit, out
  <2> PICK scope \in {Identity(request)} :
        /\ Ledger!Admit(slot, scope, out, clock)
        /\ Continue(slot, TRUE, IF ~rules.block /\ Breached(scope) THEN 1 ELSE 0)
    BY <1>13 DEF Admit, out, request
  <2> DEFINE breach == IF ~rules.block /\ Breached(scope) THEN 1 ELSE 0
             call == passed(TRUE, breach)
             e == Ledger!Entry(scope, out, clock)
  <2>1. /\ ~Refuses(slot, raw) /\ out >= 0 /\ out \in Nat
        /\ Ledger!Admit(slot, scope, out, clock)
        /\ calls' = [calls EXCEPT ![slot] = call]
        /\ gate' = gate
    BY <2>0, <1>6
  <2>2. PICK map \in Ledger!Aged :
          entries' = [i \in DOMAIN map \cup {slot} |-> IF i = slot THEN e ELSE map[i]]
    BY <2>1 DEF Ledger!Admit
  <2>3. /\ rules' = rules /\ clock' = clock
        /\ rules.block => Ledger!Exposure(scope)' <= rules.budget
    BY <2>1 DEF Ledger!Admit
  <2>4. Inv(gate, rules, calls, map, clock)
    BY AgedInv
  <2>5. DOMAIN map = DOMAIN entries
    BY <1>1, AgedFacts DEF GateOK, EntriesOK
  <2>6. /\ scope \in Keys
        /\ scope \notin {Missing, Invalid} => scope = PartyBy(gate, request)
    BY <1>1, IdentityFacts, ByGate
  <2>7. ~HarmlessBy(gate, request)
    BY <1>2, <2>1 DEF Ungoverned
  <2>8. CallOK(gate, rules, call)
    BY <1>3, <2>7
  <2>9. Backed(gate, rules, call, e)
    <3>1. e.scope = scope /\ e.units = out /\ e.deadline = clock + Ttl
      BY DEF Ledger!Entry
    <3>2. rules.block => scope \notin {Missing, Invalid}
      BY <2>1 DEF Refuses, Ungoverned, out, request
    <3> HIDE DEF e
    <3>3. QED
      BY <1>2, <1>8, <2>1, <2>6, <3>1, <3>2 DEF Backed, call
  <2>10. entries' = [o \in DOMAIN map \cup {slot} |-> IF o = slot THEN e ELSE map[o]]
    BY <2>2
  <2>11. e \in EntryType
    BY <1>1, <2>1, <2>6, TimeAssumption DEF Ledger!Entry, EntryType
  <2>12. slot \notin DOMAIN map /\ call.at = "upstream" /\ call.reserved = TRUE
         /\ call.violations = breach
    BY <1>1, <1>8, <2>5
  <2>13. breach = IF ~rules.block /\ Breached(scope) THEN 1 ELSE 0
    OBVIOUS
  <2> HIDE DEF call, e, breach
  <2>14. /\ SumFunctionOnSet(UnitsOf(entries'), AllIn(entries', scope)) \in Nat
         /\ Ledger!Exposure(scope)' =
              SumFunctionOnSet(UnitsOf(entries'), AllIn(entries', scope))
    <3>1. \A o \in DOMAIN entries' : entries'[o] \in EntryType
      BY <2>4, <2>10, <2>11 DEF Inv, EntriesOK
    <3>2. IsFiniteSet(DOMAIN entries')
      <4>1. DOMAIN entries' \subseteq Slots
        BY <2>4, <2>10 DEF Inv, EntriesOK
      <4>2. QED
        BY <4>1, SlotsAssumption, FS_Subset
    <3>3. /\ Addends(UnitsOf(entries'), AllIn(entries', scope))
          /\ SumFunction([o \in AllIn(entries', scope) |-> entries'[o].units]) =
               SumFunctionOnSet(UnitsOf(entries'), AllIn(entries', scope))
      BY <3>1, <3>2, AllInUnits
    <3>4. Ledger!Exposure(scope)' =
            SumFunction([o \in AllIn(entries', scope) |-> entries'[o].units])
      BY <1>1, <2>3, ExposureNext
    <3>5. QED
      BY <3>3, <3>4, SumNat
  <2>15. ASSUME rules.block \/ call.violations = 0
         PROVE  SumFunctionOnSet(UnitsOf(entries'), AllIn(entries', scope)) <= rules.budget
    <3>1. CASE rules.block
      BY <2>3, <2>14, <3>1
    <3>2. CASE ~rules.block
      <4>1. ~Breached(scope)
        BY <2>12, <2>13, <2>15, <3>2
      <4>2. ~(SumFunctionOnSet(UnitsOf(entries'), AllIn(entries', scope)) > rules.budget)
        BY <2>14, <4>1 DEF Breached
      <4>3. QED
        BY <1>1, <2>14, <4>2 DEF GateOK
    <3>3. QED
      BY <3>1, <3>2
  <2>16. Inv(gate, rules, [calls EXCEPT ![slot] = call], entries', clock)
    <3>1. /\ Backed(gate, rules, call, Ledger!Entry(scope, out, clock))
          /\ entries' = [o \in DOMAIN map \cup {slot} |->
                          IF o = slot THEN Ledger!Entry(scope, out, clock) ELSE map[o]]
      BY <2>9, <2>10 DEF e
    <3>2. /\ out \in Nat /\ scope \in Keys /\ slot \notin DOMAIN map
          /\ call.at = "upstream" /\ call.reserved = TRUE
      BY <2>1, <2>6, <2>12
    <3>3. rules.block \/ call.violations = 0 =>
            SumFunctionOnSet(UnitsOf(entries'), AllIn(entries', scope)) <= rules.budget
      BY <2>15
    <3> HIDE DEF out
    <3>4. QED
      BY <2>4, <2>8, <3>1, <3>2, <3>3, AdmitMoves
  <2>17. QED
    BY <2>1, <2>3, <2>16 DEF GInv
<1>14. QED
  BY <1>9, <1>10, <1>11, <1>12, <1>13 DEF Decide

(* A call waits for its body.                                              *)
LEMMA AwaitKeeps ==
  ASSUME GInv, NEW slot \in Slots, AwaitBody(slot)
  PROVE  GInv'
<1> DEFINE call == [at |-> "body", request |-> calls[slot].request, seen |-> clock]
<1>1. /\ DOMAIN calls = Slots /\ CallOK(gate, rules, calls[slot])
      /\ EntriesOK(rules, calls, entries, clock)
  BY DEF GInv, Inv, CallsOK
<1>2. /\ calls[slot].at = "arrived" /\ UNCHANGED <<gate, ledger>>
      /\ calls[slot].request.contains_body /\ Inspectable(calls[slot].request)
      /\ calls' = [calls EXCEPT ![slot] = call]
  BY <1>1 DEF AwaitBody
<1>3. CallOK(gate, rules, call) /\ call.at \notin Sent
  BY <1>1, <1>2 DEF CallOK, CallType, Spared, Denial, Sent
<1>4. Backed(gate, rules, call, entries[slot])
  BY <1>3 DEF Backed
<1>5. slot \notin DOMAIN entries
  BY <1>1, <1>2 DEF EntriesOK, Sent
<1> HIDE DEF call
<1>6. Inv(gate, rules, [calls EXCEPT ![slot] = call], entries, clock)
  BY <1>3, <1>4, <1>5, CallMoves DEF GInv
<1>7. QED
  BY <1>2, <1>6 DEF GInv, ledger

(* response_filter settles.                                                *)
LEMMA RespondKeeps ==
  ASSUME GInv, NEW slot \in Slots, NEW status \in Statuses, Respond(slot, status)
  PROVE  GInv'
<1> DEFINE old == calls[slot]
           call == [at |-> "answered", request |-> old.request, reserved |-> old.reserved,
                    violations |-> old.violations, since |-> old.since,
                    status |-> status, answered |-> clock]
<1>1. /\ DOMAIN calls = Slots /\ CallOK(gate, rules, old) /\ clock \in Nat
      /\ Backed(gate, rules, old, entries[slot])
      /\ EntriesOK(rules, calls, entries, clock) /\ GateOK(gate, rules)
  BY DEF GInv, Inv, CallsOK
<1>2. /\ old.at = "upstream" /\ gate' = gate
      /\ calls' = [calls EXCEPT ![slot] = call]
  BY <1>1 DEF Respond
<1>3. /\ call.at = "answered" /\ call.status = status /\ call.answered = clock
      /\ call.request = old.request /\ call.reserved = old.reserved
      /\ call.violations = old.violations /\ call.since = old.since
  OBVIOUS
<1>4. old.reserved \in BOOLEAN /\ (slot \in DOMAIN entries <=> old.reserved)
  BY <1>1, <1>2 DEF CallOK, CallType, EntriesOK, Sent
<1>5. CASE old.reserved
  <2>1. Ledger!Settle(slot, IsSuccess(status))
    BY <1>5 DEF Respond
  <2>2. rules' = rules /\ clock' = clock
    BY <2>1 DEF Ledger!Settle
  <2>3. PICK map \in Ledger!Aged :
          entries' = [map EXCEPT ![slot] =
                        Ledger!Settled(map[slot], IsSuccess(status), Ledger!PeriodOf(clock))]
    BY <2>1 DEF Ledger!Settle
  <2>4. Inv(gate, rules, calls, map, clock)
    BY AgedInv
  <2>5. slot \in DOMAIN map
    BY <1>1, <1>4, <1>5, AgedFacts DEF GateOK, EntriesOK
  <2>6. Ledger!PeriodOf(clock) = 0
    BY <1>1, OnePeriod
  <2> HIDE DEF call
  <2>7. Inv(gate, rules, [calls EXCEPT ![slot] = call],
            [map EXCEPT ![slot] = Ledger!Settled(map[slot], IsSuccess(status), 0)], clock)
    BY <1>2, <1>3, <2>4, <2>5, SettleMoves
  <2>8. QED
    BY <1>2, <2>2, <2>3, <2>6, <2>7 DEF GInv
<1>6. CASE ~old.reserved
  <2>1. UNCHANGED ledger
    BY <1>6 DEF Respond
  <2>2. CallOK(gate, rules, call)
    BY <1>1, <1>2, <1>3 DEF CallOK, CallType, Spared, Denial, Sent
  <2>3. Backed(gate, rules, call, entries[slot])
    BY <1>1, <1>2, <1>3, <1>6 DEF Backed, Sent
  <2> HIDE DEF call
  <2>4. Inv(gate, rules, [calls EXCEPT ![slot] = call], entries, clock)
    BY <1>3, <1>4, <1>6, <2>2, <2>3, CallMoves DEF GInv
  <2>5. QED
    BY <1>2, <2>1, <2>4 DEF GInv, ledger
<1>7. QED
  BY <1>5, <1>6

(* A response never comes.                                                 *)
LEMMA LoseKeeps ==
  ASSUME GInv, NEW slot \in Slots, Lose(slot)
  PROVE  GInv'
<1> DEFINE old == calls[slot]
           call == [old EXCEPT !.at = "lost"]
<1>1. /\ DOMAIN calls = Slots /\ CallOK(gate, rules, old)
      /\ Backed(gate, rules, old, entries[slot])
      /\ EntriesOK(rules, calls, entries, clock)
  BY DEF GInv, Inv, CallsOK
<1>2. /\ old.at = "upstream" /\ UNCHANGED <<gate, ledger>>
      /\ calls' = [calls EXCEPT ![slot] = call]
  BY <1>1 DEF Lose
<1>3. DOMAIN old = {"at", "request", "reserved", "violations", "since"}
  BY <1>1, <1>2 DEF CallOK, CallType
<1>4. /\ call.at = "lost" /\ call.request = old.request /\ call.reserved = old.reserved
      /\ call.violations = old.violations /\ call.since = old.since
  BY <1>3
<1> HIDE DEF call
<1>5. old.reserved \in BOOLEAN /\ (slot \in DOMAIN entries <=> old.reserved)
  BY <1>1, <1>2 DEF CallOK, CallType, EntriesOK, Sent
<1>6. CallOK(gate, rules, call)
  BY <1>1, <1>2, <1>4 DEF CallOK, CallType, Spared, Denial, Sent
<1>7. Backed(gate, rules, call, entries[slot])
  BY <1>1, <1>2, <1>4 DEF Backed, Sent
<1>8. Inv(gate, rules, [calls EXCEPT ![slot] = call], entries, clock)
  BY <1>2, <1>4, <1>5, <1>6, <1>7, CallMoves DEF GInv
<1>9. QED
  BY <1>2, <1>8 DEF GInv, ledger

(* Every step keeps the invariant, and so it always holds.                 *)
LEMMA NextKeeps == ASSUME GInv, [Next]_vars PROVE GInv'
<1>1. ASSUME NEW slot \in Slots, DecideAtHeaders(slot) \/ DecideOnBody(slot) PROVE GInv'
  <2>1. CallOK(gate, rules, calls[slot])
    BY DEF GInv, Inv, CallsOK
  <2>2. QED
    BY <1>1, <2>1, Decides, DecideKeeps
<1>2. CASE Reclaim
  <2>1. entries' \in Ledger!Aged /\ UNCHANGED <<gate, calls, rules, clock>>
    BY <1>2 DEF Reclaim, Ledger!Age
  <2>2. Inv(gate, rules, calls, entries', clock)
    BY <2>1, AgedInv
  <2>3. QED
    BY <2>1, <2>2 DEF GInv
<1>3. CASE Tick
  <2>1. clock' = clock + 1 /\ UNCHANGED <<gate, calls, rules, entries>>
    BY <1>3 DEF Tick, Ledger!Tick
  <2>2. Inv(gate, rules, calls, entries, clock + 1)
    BY TickInv DEF GInv
  <2>3. QED
    BY <2>1, <2>2 DEF GInv
<1>4. CASE UNCHANGED vars
  BY <1>4 DEF vars, GInv
<1>5. QED
  BY <1>1, <1>2, <1>3, <1>4, AwaitKeeps, RespondKeeps, LoseKeeps DEF Next

LEMMA Always == Spec => []GInv
<1>1. GInv /\ [Next]_vars => GInv'
  BY NextKeeps
<1>2. QED
  BY <1>1, Starts, PTL DEF Spec

-----------------------------------------------------------------------------
(* What the invariant says of a call that was forwarded.                   *)
LEMMA Forwards ==
  ASSUME GInv, NEW slot \in Slots, rules.block, Forwarded(slot), MayRun(calls[slot].request)
  PROVE  /\ Readable(calls[slot].request) /\ calls[slot].reserved
         /\ slot \in DOMAIN entries
         /\ Weight(calls[slot].request) \in Nat
         /\ entries[slot].scope = Party(calls[slot].request)
         /\ entries[slot].units >= Weight(calls[slot].request)
         /\ entries[slot].deadline = calls[slot].since + Ttl
<1>1. /\ Backed(gate, rules, calls[slot], entries[slot])
      /\ EntriesOK(rules, calls, entries, clock)
  BY DEF GInv, Inv, CallsOK
<1>2. calls[slot].at \in Sent
  BY DEF Forwarded, Sent
<1>3. QED
  BY <1>1, <1>2, ByGate DEF Backed, EntriesOK

(* In block mode whatever may run a governed call is reserved for in full, *)
(* by its own party, before it is forwarded, and for the whole timeout from*)
(* then on: what decide lets through, however a batch, a shape, a spelling *)
(* or a wait for the body disguises it.                                    *)
THEOREM NothingUnreserved == Spec => []ForwardedIsReserved
<1>1. GInv => ForwardedIsReserved
  BY Forwards DEF ForwardedIsReserved
<1>2. QED
  BY <1>1, Always, PTL

(* A forwarded call has an entry exactly if it was reserved for, and an    *)
(* answer in time leaves it charged if and only if that answer was a       *)
(* success: response_filter settles by its own call's status alone, in     *)
(* whatever order answers, lapses and reclaims come.                       *)
THEOREM ChargedAsAnswered == Spec => []SettledAsAnswered
<1>1. ASSUME GInv PROVE SettledAsAnswered
  <2> SUFFICES ASSUME NEW slot \in Slots
               PROVE  /\ slot \in DOMAIN entries <=> Forwarded(slot) /\ calls[slot].reserved
                      /\ calls[slot].at = "answered" /\ slot \in DOMAIN entries
                           /\ calls[slot].answered < entries[slot].deadline + Ttl
                           /\ entries[slot].units > 0 =>
                             (entries[slot].charged # Ledger!Uncharged
                                <=> calls[slot].status < 400)
    BY DEF SettledAsAnswered
  <2>1. EntriesOK(rules, calls, entries, clock)
    BY <1>1 DEF GInv, Inv
  <2>2. slot \in DOMAIN entries <=> Forwarded(slot) /\ calls[slot].reserved
    BY <2>1 DEF EntriesOK, Forwarded, Sent
  <2>3. slot \in DOMAIN entries =>
          /\ Timed(rules, calls[slot], entries[slot], clock)
          /\ entries[slot].charged # Ledger!Uncharged <=> entries[slot].charged = 0
    BY <2>1 DEF EntriesOK, EntryType, Ledger!Uncharged
  <2>4. QED
    BY <2>2, <2>3 DEF Timed
<1>2. QED
  BY <1>1, Always, PTL

(* What is surely no governed call passes, in every mode and configuration,*)
(* without a reservation and without a violation: decide returns before    *)
(* the ledger and before any refusal.                                      *)
THEOREM HarmlessUntouched == Spec => []HarmlessPasses
<1>1. ASSUME GInv PROVE HarmlessPasses
  <2> SUFFICES ASSUME NEW slot \in Slots, Harmless(calls[slot].request),
                      calls[slot].at \notin {"arrived", "body"}
               PROVE  Forwarded(slot) /\ ~calls[slot].reserved /\ calls[slot].violations = 0
    BY DEF HarmlessPasses
  <2>1. Spared(gate, calls[slot])
    BY <1>1 DEF GInv, Inv, CallsOK, CallOK
  <2>2. QED
    BY <2>1, ByGate DEF Spared, Forwarded, Sent
<1>2. QED
  BY <1>1, Always, PTL

(* A scope's exposure is the sum of its entries held or charged.           *)
LEMMA ExposureIs ==
  ASSUME GInv, NEW scope
  PROVE  /\ Addends(UnitsOf(entries), DOMAIN entries)
         /\ Ledger!Exposure(scope) = SumFunctionOnSet(UnitsOf(entries), AllIn(entries, scope))
<1>1. /\ clock \in Nat /\ DOMAIN entries \subseteq Slots
      /\ \A slot \in DOMAIN entries : entries[slot] \in EntryType
  BY DEF GInv, Inv, EntriesOK
<1>2. IsFiniteSet(DOMAIN entries)
  BY <1>1, SlotsAssumption, FS_Subset
<1>3. Ledger!Exposed(scope) = AllIn(entries, scope)
  BY <1>1, OnePeriod DEF Ledger!Exposed, AllIn
<1>4. Ledger!Exposure(scope) =
        SumFunction([slot \in AllIn(entries, scope) |-> entries[slot].units])
  BY <1>3, SameSum DEF Ledger!Exposure
<1>5. QED
  BY <1>1, <1>2, <1>4, AllInUnits

(* In block mode, where an expired hold stays charged, what one party got  *)
(* through costs at most the budget, all its calls and identities together:*)
(* pricing, identity, admission and settlement compose.                    *)
THEOREM PartiesWithinBudget == Spec => []AggregateHeld
<1>1. ASSUME GInv PROVE AggregateHeld
  <2> SUFFICES ASSUME rules.block, rules.provisional, NEW party
               PROVE  LET counted == {slot \in Slots :
                            LET call == calls[slot]
                            IN  /\ Forwarded(slot) /\ MayRun(call.request)
                                /\ Party(call.request) = party
                                /\ call.at = "answered" => call.status < 400}
                      IN  SumFunction([slot \in counted |-> Weight(calls[slot].request)])
                            <= rules.budget
    BY DEF AggregateHeld
  <2> DEFINE C == {slot \in Slots :
                     /\ Forwarded(slot) /\ MayRun(calls[slot].request)
                     /\ Party(calls[slot].request) = party
                     /\ calls[slot].at = "answered" => calls[slot].status < 400}
             w == [slot \in C |-> Weight(calls[slot].request)]
             u == UnitsOf(entries)
             A == AllIn(entries, party)
  <2>1. \A slot \in C :
          /\ slot \in DOMAIN entries /\ entries[slot].scope = party
          /\ w[slot] \in Nat /\ w[slot] <= u[slot]
    BY <1>1, Forwards DEF UnitsOf
  <2>2. /\ Addends(u, DOMAIN entries) /\ C \in SUBSET DOMAIN entries /\ A \in SUBSET DOMAIN entries
        /\ Ledger!Exposure(party) = SumFunctionOnSet(u, A)
    BY <1>1, <2>1, ExposureIs DEF AllIn
  <2>3. \A slot \in C \ A : u[slot] = 0
    <3> SUFFICES ASSUME NEW slot \in C, slot \notin A PROVE u[slot] = 0
      OBVIOUS
    <3>1. slot \in DOMAIN entries /\ entries[slot].scope = party
      BY <2>1
    <3>2. ~(entries[slot].status = "held" \/ entries[slot].charged = 0)
      BY <3>1 DEF AllIn
    <3>3. entries[slot] \in EntryType /\ Timed(rules, calls[slot], entries[slot], clock)
      BY <1>1, <3>1 DEF GInv, Inv, EntriesOK
    <3>4. ~(entries[slot].units > 0) /\ entries[slot].units \in Nat
      BY <3>2, <3>3 DEF Timed, EntryType
    <3>5. QED
      BY <3>1, <3>4 DEF UnitsOf
  <2>4. \E scope : scope = party /\ (C # {} => scope \in Keys)
    BY <1>1, <2>1 DEF GInv, Inv, EntriesOK, EntryType
  <2>5. rules.budget \in Nat
    BY <1>1 DEF GInv, Inv, GateOK
  <2>6. C # {} => SumFunctionOnSet(u, A) <= rules.budget
    <3>1. Kept(rules, calls, entries, party) = A
      BY DEF Kept, Counts, AllIn
    <3>2. Clean(rules, calls, entries, party)
      BY DEF Clean
    <3>3. Within(rules, calls, entries)
      BY <1>1 DEF GInv, Inv
    <3>4. QED
      BY <2>4, <3>1, <3>2, <3>3 DEF Within
  <2>7. SumFunction(w) = SumFunctionOnSet(w, C)
    BY DEF SumFunction
  <2> HIDE DEF C, w, u, A
  <2>8. Addends(w, C) /\ Addends(u, C) /\ Addends(u, C \cap A) /\ Addends(u, A)
    BY <2>1, <2>2, FS_Subset, SumWithin DEF Addends
  <2>9. SumFunctionOnSet(w, C) <= SumFunctionOnSet(u, C)
    BY <2>1, <2>8, SumMonotone
  <2>10. SumFunctionOnSet(u, C) = SumFunctionOnSet(u, C \cap A)
    BY <2>3, <2>8, SumSupport
  <2>11. SumFunctionOnSet(u, C \cap A) <= SumFunctionOnSet(u, A)
    BY <2>8, SumWithin
  <2>12. /\ SumFunctionOnSet(w, C) \in Nat /\ SumFunctionOnSet(u, C) \in Nat
         /\ SumFunctionOnSet(u, C \cap A) \in Nat /\ SumFunctionOnSet(u, A) \in Nat
    BY <2>8, SumNat
  <2>13. SumFunction(w) <= rules.budget
    <3>1. CASE C = {}
      BY <2>5, <2>7, <3>1, SumEmpty
    <3>2. CASE C # {}
      BY <2>5, <2>6, <2>7, <2>9, <2>10, <2>11, <2>12, <3>2
    <3>3. QED
      BY <3>1, <3>2
  <2>14. QED
    BY <2>13 DEF C, w
<1>2. QED
  BY <1>1, Always, PTL

(* Monitor mode denies nothing, and a budget that is overrun shows in a    *)
(* violation of one of its calls, but for what was charged too late: the   *)
(* breach flag of an admission in monitor mode misses none.                *)
THEOREM BreachesShow == Spec => []BreachReported
<1>1. ASSUME GInv PROVE BreachReported
  <2> SUFFICES ASSUME ~rules.block
               PROVE  /\ \A slot \in Slots : calls[slot].at # "denied"
                      /\ \A scope \in {entries[slot].scope : slot \in DOMAIN entries} :
                           LET own  == {slot \in DOMAIN entries : entries[slot].scope = scope}
                               late == {slot \in own :
                                          /\ calls[slot].at = "answered"
                                          /\ calls[slot].answered >= entries[slot].deadline}
                           IN  Ledger!Exposure(scope) > rules.budget
                                 + SumFunction([slot \in late |-> entries[slot].units]) =>
                                 \E slot \in own : calls[slot].violations > 0
    BY DEF BreachReported
  <2>1. \A slot \in Slots : calls[slot].at # "denied"
    BY <1>1 DEF GInv, Inv, CallsOK, CallOK
  <2>2. ASSUME NEW scope \in {entries[slot].scope : slot \in DOMAIN entries}
        PROVE  LET own  == {slot \in DOMAIN entries : entries[slot].scope = scope}
                   late == {slot \in own : /\ calls[slot].at = "answered"
                                           /\ calls[slot].answered >= entries[slot].deadline}
               IN  Ledger!Exposure(scope) > rules.budget
                     + SumFunction([slot \in late |-> entries[slot].units]) =>
                     \E slot \in own : calls[slot].violations > 0
    <3> DEFINE own  == {slot \in DOMAIN entries : entries[slot].scope = scope}
               late == {slot \in own : /\ calls[slot].at = "answered"
                                       /\ calls[slot].answered >= entries[slot].deadline}
               w == [slot \in late |-> entries[slot].units]
               u == UnitsOf(entries)
               A == AllIn(entries, scope)
               K == Kept(rules, calls, entries, scope)
    <3>1. SUFFICES ASSUME \A slot \in own : ~(calls[slot].violations > 0)
                   PROVE  ~(Ledger!Exposure(scope) > rules.budget + SumFunction(w))
      OBVIOUS
    <3>2. /\ EntriesOK(rules, calls, entries, clock) /\ Within(rules, calls, entries)
          /\ rules.budget \in Nat
          /\ \A slot \in Slots : CallType(calls[slot])
      BY <1>1 DEF GInv, Inv, GateOK, CallsOK, CallOK
    <3>3. scope \in Keys
      BY <3>2 DEF EntriesOK, EntryType
    <3>4. Clean(rules, calls, entries, scope)
      <4> SUFFICES ASSUME NEW slot \in own PROVE calls[slot].violations = 0
        BY DEF Clean
      <4>1. calls[slot].violations \in {0, 1}
        BY <3>2 DEF EntriesOK, CallType
      <4>2. QED
        BY <3>1, <4>1
    <3>5. SumFunctionOnSet(u, K) <= rules.budget
      BY <3>2, <3>3, <3>4 DEF Within
    <3>6. /\ Addends(u, DOMAIN entries)
          /\ Ledger!Exposure(scope) = SumFunctionOnSet(u, A)
      BY <1>1, ExposureIs
    <3>7. A \in SUBSET DOMAIN entries /\ K \in SUBSET A /\ late \in SUBSET DOMAIN entries
      BY DEF AllIn, Kept, Counts
    <3>8. A \ K \in SUBSET late
      BY DEF AllIn, Kept, Counts, Late
    <3>9. \A slot \in late : w[slot] = u[slot]
      BY DEF UnitsOf
    <3>10. SumFunction(w) = SumFunctionOnSet(w, late)
      BY DEF SumFunction
    <3> HIDE DEF w, u, A, K, late
    <3>11. Addends(u, A) /\ Addends(u, K) /\ Addends(u, A \ K) /\ Addends(u, late)
      BY <3>6, <3>7, SumWithin
    <3>12. SumFunctionOnSet(u, A) = SumFunctionOnSet(u, K) + SumFunctionOnSet(u, A \ K)
      BY <3>7, <3>11, SumSplit
    <3>13. SumFunctionOnSet(u, A \ K) <= SumFunctionOnSet(u, late)
      BY <3>8, <3>11, SumWithin
    <3>14. SumFunctionOnSet(w, late) = SumFunctionOnSet(u, late)
      BY <3>9, <3>11, SumSame
    <3>15. /\ SumFunctionOnSet(u, K) \in Nat /\ SumFunctionOnSet(u, A \ K) \in Nat
           /\ SumFunctionOnSet(u, late) \in Nat
      BY <3>11, SumNat
    <3>16. QED
      BY <3>2, <3>5, <3>6, <3>10, <3>12, <3>13, <3>14, <3>15
  <2>3. QED
    BY <2>1, <2>2
<1>2. QED
  BY <1>1, Always, PTL

-----------------------------------------------------------------------------
(* The ids a denial answers.                                               *)
Id == STRING \cup {None, Invalid}

Echoed(body, i) == i \in Requested(body) /\ body.items[i].id # None

(* One step of the fold of ResponseIds.                                    *)
EchoOne(body, f, s) ==
  IF s = {} THEN <<>>
  ELSE LET x == Max(s)
           i == [j \in DOMAIN body.items |-> j][x]
       IN  IF i \in Requested(body) /\ body.items[i].id # None
           THEN Append(f[s \ {x}], body.items[i].id) ELSE f[s \ {x}]

(* The ids are the last value of a function given place by place.          *)
LEMMA EchoUnfolds ==
  ASSUME NEW body, body.items \in Seq(ItemType)
  PROVE  \E f : /\ \A s \in SUBSET (DOMAIN body.items) : f[s] = EchoOne(body, f, s)
                /\ ResponseIds(body) = f[DOMAIN body.items]
<1> DEFINE items == body.items
           n == Len(items)
           D == DOMAIN items
           step(a, i) == IF Echoed(body, i) THEN Append(a, items[i].id) ELSE a
           next == [p \in Seq(Id) \X (1 .. n) |-> step(p[1], p[2])]
<1>1. n \in Nat /\ D = 1 .. n /\ \A i \in D : items[i].id \in Id
  <2>1. n \in Nat /\ D = 1 .. n /\ \A i \in D : items[i] \in ItemType
    OBVIOUS
  <2>2. QED
    BY <2>1 DEF ItemType, Id
<1>2. next \in [Seq(Id) \X (1 .. n) -> Seq(Id)]
  <2> SUFFICES ASSUME NEW a \in Seq(Id), NEW i \in 1 .. n PROVE step(a, i) \in Seq(Id)
    OBVIOUS
  <2>1. QED
    BY <1>1
<1>3. PICK h : IsFold(h, <<>>, next, n, Seq(Id))
  <2> HIDE DEF next, n
  <2>1. n \in Nat /\ <<>> \in Seq(Id) /\ IsStep(next, n, Seq(Id))
    BY <1>1, <1>2 DEF IsStep
  <2>2. QED
    BY <2>1, FoldExists
<1>4. ASSUME NEW s \in SUBSET D PROVE h[s] = EchoOne(body, h, s)
  <2>1. CASE s = {}
    BY <2>1, <1>1, <1>3 DEF FoldOne, EchoOne, IsFold
  <2>2. CASE s # {}
    <3> DEFINE x == Max(s)
    <3>1. x \in 1 .. n /\ s \ {x} \in SUBSET (1 .. n)
      BY <1>1, <2>2, MaxIn
    <3>2. h[s] = next[<<h[s \ {x}], x>>] /\ h[s \ {x}] \in Seq(Id)
      BY <1>1, <1>3, <2>2, <3>1 DEF FoldOne, IsFold
    <3> HIDE DEF x
    <3>3. h[s] = step(h[s \ {x}], x)
      BY <3>1, <3>2
    <3>4. [j \in DOMAIN body.items |-> j][x] = x
      BY <3>1, <1>1
    <3>5. QED
      BY <3>3, <3>4, <2>2 DEF EchoOne, Echoed, x
  <2>3. QED
    BY <2>1, <2>2
<1>5. h = [s \in SUBSET D |-> EchoOne(body, h, s)]
  BY <1>1, <1>3, <1>4 DEF IsFold
<1> DEFINE f == CHOOSE g : g = [s \in SUBSET D |-> EchoOne(body, g, s)]
<1>6. f = [s \in SUBSET D |-> EchoOne(body, f, s)]
  BY <1>5
<1>7. ResponseIds(body) = f[D]
  BY DEF ResponseIds, FoldLeftDomain, FoldLeft, MapThenFoldSet, EchoOne
<1> HIDE DEF f
<1>8. QED
  BY <1>6, <1>7

LEMMA EchoSteps ==
  ASSUME NEW body, body.items \in Seq(ItemType)
  PROVE  \E p : /\ p[0] = <<>> /\ ResponseIds(body) = p[Len(body.items)]
                /\ \A k \in 1 .. Len(body.items) :
                     p[k] = IF Echoed(body, k) THEN Append(p[k - 1], body.items[k].id)
                            ELSE p[k - 1]
<1> DEFINE n == Len(body.items)
           D == DOMAIN body.items
<1>1. n \in Nat /\ D = 1 .. n
  OBVIOUS
<1>2. PICK f : /\ \A s \in SUBSET D : f[s] = EchoOne(body, f, s)
               /\ ResponseIds(body) = f[D]
  BY EchoUnfolds
<1> DEFINE p == [k \in 0 .. n |-> f[1 .. k]]
<1>3. p[0] = <<>>
  <2>1. 1 .. 0 = {} /\ {} \in SUBSET D /\ 0 \in 0 .. n
    BY <1>1
  <2>2. f[{}] = <<>>
    BY <1>2, <2>1 DEF EchoOne
  <2>3. QED
    BY <2>1, <2>2
<1>4. ASSUME NEW k \in 1 .. n
      PROVE  p[k] = IF Echoed(body, k) THEN Append(p[k - 1], body.items[k].id) ELSE p[k - 1]
  <2>1. 1 .. k \in SUBSET D /\ 1 .. k # {} /\ k \in D /\ k \in 0 .. n /\ k - 1 \in 0 .. n
    <3>1. n \in Nat /\ k \in Int /\ 1 <= k /\ k <= n
      BY <1>1
    <3>2. 1 .. k \subseteq 1 .. n /\ k \in 1 .. k
      BY <3>1
    <3> HIDE DEF n
    <3>3. k \in 1 .. n /\ k \in 0 .. n /\ k - 1 \in 0 .. n
      BY <3>1
    <3>4. QED
      BY <3>2, <3>3, <1>1
  <2>2. Max(1 .. k) = k /\ (1 .. k) \ {k} = 1 .. (k - 1)
    BY <1>1, PrefixMax
  <2>3. [j \in DOMAIN body.items |-> j][k] = k
    BY <2>1
  <2>4. f[1 .. k] = EchoOne(body, f, 1 .. k)
    BY <1>2, <2>1
  <2>5. f[1 .. k] = IF Echoed(body, k) THEN Append(f[1 .. (k - 1)], body.items[k].id)
                    ELSE f[1 .. (k - 1)]
    BY <2>1, <2>2, <2>3, <2>4 DEF EchoOne, Echoed
  <2>6. p[k] = f[1 .. k] /\ p[k - 1] = f[1 .. (k - 1)]
    BY <2>1
  <2>7. QED
    BY <2>5, <2>6
<1>5. ResponseIds(body) = p[n]
  BY <1>1, <1>2
<1> HIDE DEF p
<1>6. QED
  BY <1>3, <1>4, <1>5

(* How often an id occurs is a number, 0 if it does not.                   *)
LEMMA TimesNat ==
  ASSUME NEW S, NEW s \in Seq(S), NEW id
  PROVE  /\ IsFiniteSet({i \in DOMAIN s : s[i] = id}) /\ Times(id, s) \in Nat
         /\ Times(id, s) = 0 <=> \A i \in DOMAIN s : s[i] # id
<1>1. DOMAIN s = 1 .. Len(s) /\ Len(s) \in Nat
  OBVIOUS
<1>2. IsFiniteSet(DOMAIN s)
  BY <1>1, FS_Interval
<1>3. IsFiniteSet({i \in DOMAIN s : s[i] = id})
  BY <1>2, FS_Subset
<1>4. QED
  BY <1>3, FS_CardinalityType, FS_EmptySet DEF Times

(* One more id occurs once more.                                           *)
LEMMA TimesAppend ==
  ASSUME NEW S, NEW s \in Seq(S), NEW x \in S, NEW id
  PROVE  Times(id, Append(s, x)) = Times(id, s) + (IF x = id THEN 1 ELSE 0)
<1> DEFINE t == Append(s, x)
           n == Len(s)
           A == {i \in DOMAIN s : s[i] = id}
           B == {i \in DOMAIN t : t[i] = id}
<1>1. /\ n \in Nat /\ DOMAIN s = 1 .. n /\ DOMAIN t = 1 .. (n + 1)
      /\ t[n + 1] = x /\ \A i \in 1 .. n : t[i] = s[i]
  OBVIOUS
<1>2. IsFiniteSet(A) /\ Cardinality(A) \in Nat
  BY TimesNat DEF Times
<1>3. CASE x = id
  <2>1. B = A \cup {n + 1} /\ n + 1 \notin A
    BY <1>1, <1>3
  <2> HIDE DEF A, B
  <2>2. Cardinality(B) = Cardinality(A) + 1
    BY <1>2, <2>1, FS_AddElement
  <2>3. QED
    BY <1>3, <2>2 DEF Times, A, B
<1>4. CASE x # id
  <2>1. B = A
    BY <1>1, <1>4
  <2>2. Times(id, t) = Cardinality(B) /\ Times(id, s) = Cardinality(A)
    BY DEF Times
  <2> HIDE DEF A, B, t
  <2>3. Times(id, t) = Times(id, s) + (IF x = id THEN 1 ELSE 0)
    BY <1>2, <1>4, <2>1, <2>2
  <2>4. QED
    BY <2>3 DEF t
<1>5. QED
  BY <1>3, <1>4

(* The places, up to k, of the items that are answered with id.            *)
AskedAs(body, id, k) == {i \in 1 .. k : Echoed(body, i) /\ body.items[i].id = id}

(* An id is answered as often as a request to be answered carries it.      *)
LEMMA EchoCounts ==
  ASSUME NEW body, body.items \in Seq(ItemType)
  PROVE  /\ ResponseIds(body) \in Seq(Id)
         /\ \A id : Times(id, ResponseIds(body)) =
                      Cardinality(AskedAs(body, id, Len(body.items)))
<1> DEFINE n == Len(body.items)
<1>1. n \in Nat /\ \A i \in 1 .. n : body.items[i].id \in Id
  <2>1. n \in Nat /\ \A i \in 1 .. n : body.items[i] \in ItemType
    OBVIOUS
  <2>2. QED
    BY <2>1 DEF ItemType, Id
<1>2. PICK p : /\ p[0] = <<>> /\ ResponseIds(body) = p[n]
               /\ \A k \in 1 .. n :
                    p[k] = IF Echoed(body, k) THEN Append(p[k - 1], body.items[k].id)
                           ELSE p[k - 1]
  BY EchoSteps
<1> DEFINE Good(k) == /\ p[k] \in Seq(Id)
                      /\ \A id : Times(id, p[k]) = Cardinality(AskedAs(body, id, k))
           T == {k \in Nat : k <= n => Good(k)}
<1>3. ASSUME NEW k \in Nat, NEW id
      PROVE  IsFiniteSet(AskedAs(body, id, k)) /\ Cardinality(AskedAs(body, id, k)) \in Nat
  <2>1. IsFiniteSet(1 .. k) /\ AskedAs(body, id, k) \subseteq 1 .. k
    BY FS_Interval DEF AskedAs
  <2>2. QED
    BY <2>1, FS_Subset, FS_CardinalityType
<1> HIDE DEF n
<1>4. 0 \in T
  <2>1. ASSUME NEW id PROVE Times(id, p[0]) = Cardinality(AskedAs(body, id, 0))
    <3>1. AskedAs(body, id, 0) = {}
      BY DEF AskedAs
    <3>2. {i \in DOMAIN <<>> : <<>>[i] = id} = {}
      OBVIOUS
    <3>3. QED
      BY <1>2, <3>1, <3>2 DEF Times
  <2>2. p[0] \in Seq(Id)
    BY <1>2
  <2>3. QED
    BY <2>1, <2>2
<1>5. ASSUME NEW k \in T PROVE k + 1 \in T
  <2> SUFFICES ASSUME k + 1 <= n PROVE Good(k + 1)
    OBVIOUS
  <2>0. k \in Nat /\ (k <= n => Good(k))
    BY <1>5
  <2>1. k \in Nat /\ k + 1 \in 1 .. n /\ (k + 1) - 1 = k /\ Good(k)
    <3> HIDE DEF Good
    <3>1. QED
      BY <1>1, <2>0
  <2> DEFINE x == body.items[k + 1].id
  <2>2. x \in Id
    BY <1>1, <2>1
  <2>3. CASE ~Echoed(body, k + 1)
    <3>1. p[k + 1] = p[k]
      BY <1>2, <2>1, <2>3
    <3>2. \A id : AskedAs(body, id, k + 1) = AskedAs(body, id, k)
      BY <2>1, <2>3 DEF AskedAs
    <3>3. QED
      BY <2>1, <3>1, <3>2
  <2>4. CASE Echoed(body, k + 1)
    <3>1. p[k + 1] = Append(p[k], x)
      BY <1>2, <2>1, <2>4
    <3>2. p[k + 1] \in Seq(Id)
      BY <2>1, <2>2, <3>1
    <3>3. ASSUME NEW id PROVE Times(id, p[k + 1]) = Cardinality(AskedAs(body, id, k + 1))
      <4>1. Times(id, p[k + 1]) = Times(id, p[k]) + (IF x = id THEN 1 ELSE 0)
        <5> HIDE DEF x
        <5>1. QED
          BY <2>1, <2>2, <3>1, TimesAppend
      <4>2. IsFiniteSet(AskedAs(body, id, k)) /\ Cardinality(AskedAs(body, id, k)) \in Nat
        BY <1>3, <2>1
      <4>3. CASE x = id
        <5>1. /\ AskedAs(body, id, k + 1) = AskedAs(body, id, k) \cup {k + 1}
              /\ k + 1 \notin AskedAs(body, id, k)
          BY <2>1, <2>4, <4>3 DEF AskedAs
        <5>2. Cardinality(AskedAs(body, id, k + 1)) = Cardinality(AskedAs(body, id, k)) + 1
          BY <4>2, <5>1, FS_AddElement
        <5>3. QED
          BY <2>1, <4>1, <4>3, <5>2
      <4>4. CASE x # id
        <5>1. AskedAs(body, id, k + 1) = AskedAs(body, id, k)
          BY <2>1, <4>4 DEF AskedAs
        <5>2. QED
          BY <2>1, <4>1, <4>2, <4>4, <5>1
      <4>5. QED
        BY <4>3, <4>4
    <3>4. QED
      BY <3>2, <3>3
  <2>5. QED
    BY <2>3, <2>4
<1>6. T = Nat
  <2>1. T \subseteq Nat
    OBVIOUS
  <2> HIDE DEF T
  <2>2. QED
    BY <1>4, <1>5, <2>1, NatSetInduction
<1>7. Good(n)
  BY <1>1, <1>6
<1>8. QED
  BY <1>2, <1>7 DEF n

(* A denial is told in the caller's own ids exactly when the body is made  *)
(* of messages.                                                            *)
LEMMA EchoesSpoken ==
  ASSUME NEW body, body.items \in Seq(ItemType)
  PROVE  /\ Echoes("present", body) <=>
              /\ Strict(body) /\ body.items # <<>>
              /\ \A item \in ToSet(body.items) :
                   IsRequest(item) \/ (body.batch /\ IsJsonRpcResponse(item))
         /\ Echoes("present", body) =>
              \A i \in DOMAIN body.items : i \in Requested(body) <=> IsRequest(body.items[i])
<1> DEFINE items == body.items
<1>1. DOMAIN items = 1 .. Len(items) /\ ToSet(items) = {items[i] : i \in DOMAIN items}
  BY DEF ToSet
<1>2. \A i \in DOMAIN items : IsRequest(items[i]) => ~IsJsonRpcResponse(items[i])
  BY DEF IsRequest, IsJsonRpcResponse
<1>3. Echoes("present", body) <=>
        /\ Strict(body) /\ items # <<>>
        /\ \A i \in DOMAIN items : i \in Requested(body) => IsRequest(items[i])
  <2>1. Requested(body) \subseteq DOMAIN items
    BY DEF Requested
  <2>2. QED
    BY <2>1 DEF Echoes, IsRequest
<1>4. \A i \in DOMAIN items :
        i \in Requested(body) <=> (body.batch => ~IsJsonRpcResponse(items[i]))
  BY DEF Requested
<1> HIDE DEF items
<1>5. Echoes("present", body) <=>
        /\ Strict(body) /\ items # <<>>
        /\ \A i \in DOMAIN items :
             IsRequest(items[i]) \/ (body.batch /\ IsJsonRpcResponse(items[i]))
  BY <1>3, <1>4
<1>6. Echoes("present", body) =>
        \A i \in DOMAIN items : i \in Requested(body) <=> IsRequest(items[i])
  BY <1>2, <1>3, <1>4
<1>7. QED
  BY <1>1, <1>5, <1>6 DEF items

(* A denied body of requests, a client's responses among them or not, gets *)
(* one error for every id a request carries, as often as requests carry it,*)
(* and any other denial is the empty 403: deny_response answers nobody     *)
(* else's id and leaves no request without its answer.                     *)
THEOREM DenialsAnswer == Spec => []RequestsAnswered
<1>1. ASSUME GInv PROVE RequestsAnswered
  <2> SUFFICES ASSUME NEW slot \in Slots, calls[slot].at = "denied"
               PROVE  LET call == calls[slot]
                          body == call.request.body
                          asked == {item \in ToSet(body.items) : IsRequest(item)}
                          ids == [i \in DOMAIN body.items |->
                                    IF IsRequest(body.items[i]) THEN body.items[i].id ELSE None]
                          spoken == /\ gate.rpc_error /\ call.request.contains_body
                                    /\ Readable(call.request)
                                    /\ body.items # <<>>
                                    /\ \A item \in ToSet(body.items) :
                                         IsRequest(item)
                                           \/ (body.batch /\ IsJsonRpcResponse(item))
                      IN  IF spoken
                          THEN /\ \A id \in ToSet(ids) \cup ToSet(call.answer.ids) :
                                    id # None => Times(id, call.answer.ids) = Times(id, ids)
                               /\ call.answer.status =
                                    IF \A item \in asked : item.id = None THEN 202 ELSE 200
                          ELSE call.answer = [status |-> 403, ids |-> <<>>]
    BY DEF RequestsAnswered
  <2> DEFINE call == calls[slot]
             body == call.request.body
             items == body.items
             n == Len(items)
             ids == [i \in DOMAIN items |-> IF IsRequest(items[i]) THEN items[i].id ELSE None]
             asked == {item \in ToSet(items) : IsRequest(item)}
             spoken == /\ gate.rpc_error /\ call.request.contains_body /\ Readable(call.request)
                       /\ items # <<>>
                       /\ \A item \in ToSet(items) :
                            IsRequest(item) \/ (body.batch /\ IsJsonRpcResponse(item))
             echo == ResponseIds(body)
  <2>1. CallType(call) /\ Denial(gate, call)
    BY <1>1 DEF GInv, Inv, CallsOK, CallOK
  <2>2. items \in Seq(ItemType)
    BY <2>1, ArrivingItems DEF CallType
  <2>3. PICK raw : Given(call.request, raw) /\ call.answer = DenyResponse(gate, raw, body)
    BY <2>1 DEF Denial
  <2>4. gate.rpc_error /\ Echoes(raw, body) <=> spoken
    <3>1. CASE raw = "present"
      <4>1. call.request.contains_body /\ (Readable(call.request) <=> Strict(body))
        BY <2>3, <3>1 DEF Given
      <4>2. Echoes(raw, body) <=>
              /\ Strict(body) /\ items # <<>>
              /\ \A item \in ToSet(items) :
                   IsRequest(item) \/ (body.batch /\ IsJsonRpcResponse(item))
        BY <2>2, <3>1, EchoesSpoken
      <4>3. QED
        BY <4>1, <4>2
    <3>2. CASE raw # "present"
      <4>1. ~(call.request.contains_body /\ Readable(call.request))
        BY <2>3, <3>2 DEF Given
      <4>2. ~Echoes(raw, body)
        BY <3>2 DEF Echoes
      <4>3. QED
        BY <4>1, <4>2
    <3>3. QED
      BY <3>1, <3>2
  <2>5. CASE ~spoken
    <3>1. call.answer = [status |-> 403, ids |-> <<>>]
      BY <2>3, <2>4, <2>5 DEF DenyResponse
    <3>2. QED
      BY <2>5, <3>1
  <2>6. CASE spoken
    <3>1. /\ gate.rpc_error /\ Echoes(raw, body) /\ raw = "present"
          /\ \A i \in DOMAIN items : i \in Requested(body) <=> IsRequest(items[i])
      BY <2>2, <2>4, <2>6, EchoesSpoken DEF Echoes
    <3>2. /\ call.answer.ids = echo
          /\ call.answer.status = IF echo = <<>> THEN 202 ELSE 200
      BY <2>3, <3>1 DEF DenyResponse
    <3>3. n \in Nat /\ DOMAIN items = 1 .. n /\ DOMAIN ids = 1 .. n
          /\ ToSet(items) = {items[i] : i \in DOMAIN items}
      BY <2>2 DEF ToSet
    <3>4. echo \in Seq(Id) /\ \A id : Times(id, echo) = Cardinality(AskedAs(body, id, n))
      BY <2>2, EchoCounts
    <3>5. \A i \in 1 .. n : Echoed(body, i) <=> IsRequest(items[i]) /\ items[i].id # None
      BY <3>1, <3>3 DEF Echoed
    <3>6. \A id : id # None => AskedAs(body, id, n) = {i \in DOMAIN ids : ids[i] = id}
      BY <3>3, <3>5 DEF AskedAs
    <3>7. \A id : id # None => Times(id, echo) = Times(id, ids)
      BY <3>4, <3>6 DEF Times
    <3>8. echo = <<>> <=> \A item \in asked : item.id = None
      <4>1. ASSUME NEW item \in asked, item.id # None PROVE echo # <<>>
        <5>1. PICK i \in 1 .. n : items[i] = item /\ IsRequest(item)
          BY <3>3
        <5>2. i \in AskedAs(body, item.id, n)
          BY <3>5, <4>1, <5>1 DEF AskedAs
        <5>3. IsFiniteSet(AskedAs(body, item.id, n))
          <6>1. IsFiniteSet(1 .. n) /\ AskedAs(body, item.id, n) \subseteq 1 .. n
            BY <3>3, FS_Interval DEF AskedAs
          <6>2. QED
            BY <6>1, FS_Subset
        <5>4. Times(item.id, echo) # 0
          BY <3>4, <5>2, <5>3, FS_EmptySet
        <5>5. {k \in DOMAIN <<>> : <<>>[k] = item.id} = {}
          OBVIOUS
        <5>6. QED
          BY <5>4, <5>5, FS_EmptySet DEF Times
      <4>2. ASSUME echo # <<>> PROVE \E item \in asked : item.id # None
        <5>1. 1 \in DOMAIN echo
          BY <3>4, <4>2
        <5>2. Times(echo[1], echo) # 0
          BY <3>4, <5>1, TimesNat
        <5>3. AskedAs(body, echo[1], n) # {}
          BY <3>4, <5>2, FS_EmptySet
        <5>4. PICK i \in 1 .. n : Echoed(body, i)
          BY <5>3 DEF AskedAs
        <5>5. items[i] \in asked /\ items[i].id # None
          BY <3>3, <3>5, <5>4
        <5>6. QED
          BY <5>5
      <4>3. QED
        BY <4>1, <4>2
    <3>9. call.answer.status = IF \A item \in asked : item.id = None THEN 202 ELSE 200
      BY <3>2, <3>8
    <3>10. \A id : id # None => Times(id, call.answer.ids) = Times(id, ids)
      BY <3>2, <3>7
    <3> HIDE DEF call, ids, asked, spoken
    <3>11. IF spoken
           THEN /\ \A id \in ToSet(ids) \cup ToSet(call.answer.ids) :
                     id # None => Times(id, call.answer.ids) = Times(id, ids)
                /\ call.answer.status = IF \A item \in asked : item.id = None THEN 202 ELSE 200
           ELSE call.answer = [status |-> 403, ids |-> <<>>]
      BY <2>6, <3>9, <3>10
    <3>12. QED
      BY <3>11 DEF call, ids, asked, spoken
  <2>7. QED
    BY <2>5, <2>6
<1>2. QED
  BY <1>1, Always, PTL
=============================================================================

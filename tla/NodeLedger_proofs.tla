-------------------------- MODULE NodeLedger_proofs --------------------------
(***************************************************************************)
(* Theorems about the node ledger, for any workers, bounds, windows, caps, *)
(* timeouts and faults: its type invariant, that a hold stays on the       *)
(* shared record until its deadline, that the workers together never grant *)
(* past the one budget, that a commit answered as kept is charged, and     *)
(* that one answered as not active was charged or expired.                 *)
(*                                                                         *)
(* A worker computes from a record it read some steps ago, and writes with *)
(* a compare-and-swap.  The inductive invariant Inv therefore speaks of    *)
(* copies: the record, and every value a call holds, is a sound record of  *)
(* reservations already given out (Recorded), every call is at a step its  *)
(* operation has, with the values it has there (Calls), a queue holds only *)
(* commits that were answered (Queues), no two calls own one reservation   *)
(* (Apart), and one not given out yet is not charged (Fresh).  What a step *)
(* writes is the record itself, touched (LandedFacts): a theorem then only *)
(* has to show that Touched keeps what it says.                            *)
(*                                                                         *)
(* The module's parts, in order: what reconciling, charging and a whole    *)
(* touch do to a record; the shapes of a call, and the three kinds of step *)
(* every action is (StepKinds: a call begins, a call moves on, a restart), *)
(* on which each induction splits; Inv and the type invariant; then the    *)
(* theorems, each with what it needs beside Inv (Upheld, Budgeted,         *)
(* Keeping, OffStays).                                                     *)
(***************************************************************************)
EXTENDS NodeLedger, ScopeState_proofs

ChargeAll(state, ids) == FoldSet(LAMBDA id, st : Settle(st, id, TRUE), state, ids)

LEMMA ReconciledIs ==
  ASSUME NEW c
  PROVE  Reconciled(c) = ChargeAll(Unclaimed(c, c.read), c.owed)
BY DEF Reconciled, ChargeAll

(* One unfolding of the fold.                                              *)
ChargeOne(state, f, s) == IF s = {} THEN state ELSE Settle(f[s \ {Pick(s)}], Pick(s), TRUE)

LEMMA ChargeAllUnfolds ==
  ASSUME NEW S, IsFiniteSet(S), NEW state
  PROVE  \E f : /\ \A s \in SUBSET S : f[s] = ChargeOne(state, f, s)
                /\ ChargeAll(state, S) = f[S]
<1> DEFINE On(g) == g = [s \in SUBSET S |-> g[s]]
           Upto(g, n) == \A s \in SUBSET S : Cardinality(s) <= n => g[s] = ChargeOne(state, g, s)
           T == {n \in Nat : \E g : On(g) /\ Upto(g, n)}
<1>0. \A s \in SUBSET S : IsFiniteSet(s) /\ Cardinality(s) \in Nat
  BY SubsetCardinality
<1>1. 0 \in T
  <2> DEFINE none == [s \in SUBSET S |-> state]
  <2>1. On(none)
    OBVIOUS
  <2>2. \A s \in SUBSET S : Cardinality(s) <= 0 => s = {}
    BY <1>0, SubsetCardinality
  <2>3. Upto(none, 0)
    BY <2>2 DEF ChargeOne
  <2> HIDE DEF none, Upto, On
  <2>4. QED
    BY <2>1, <2>3
<1>2. ASSUME NEW n \in T PROVE n + 1 \in T
  <2>1. PICK g : On(g) /\ Upto(g, n)
    BY <1>2
  <2> DEFINE h == [s \in SUBSET S |-> ChargeOne(state, g, s)]
  <2>2. On(h)
    OBVIOUS
  <2>3. ASSUME NEW s \in SUBSET S, Cardinality(s) <= n + 1 PROVE h[s] = ChargeOne(state, h, s)
    <3>1. CASE s = {}
      BY <3>1 DEF ChargeOne
    <3>2. CASE s # {}
      <4> DEFINE t == s \ {Pick(s)}
      <4>1. Pick(s) \in s /\ t \in SUBSET S
        BY <3>2, PickIn
      <4>2. Cardinality(t) = Cardinality(s) - 1 /\ Cardinality(s) \in Nat /\ n \in Nat
        BY <4>1, <1>0, <1>2, SubsetCardinality
      <4>3. h[t] = g[t]
        <5>1. Cardinality(t) <= n
          BY <4>2, <2>3
        <5>2. g[t] = ChargeOne(state, g, t)
          BY <5>1, <4>1, <2>1
        <5>3. QED
          BY <5>2, <4>1
      <4>4. QED
        BY <3>2, <4>1, <4>3 DEF ChargeOne
    <3>3. QED
      BY <3>1, <3>2
  <2>4. Upto(h, n + 1)
    BY <2>3
  <2>5. \E k : On(k) /\ Upto(k, n + 1)
    <3> HIDE DEF Upto, h, On
    <3>1. QED
      BY <2>2, <2>4
  <2>6. n + 1 \in Nat
    OBVIOUS
  <2> HIDE DEF Upto, On
  <2>7. QED
    BY <2>5, <2>6
<1>3. T = Nat
  <2>1. T \subseteq Nat
    OBVIOUS
  <2> HIDE DEF T
  <2>2. QED
    BY <1>1, <1>2, <2>1, NatSetInduction
<1>4. PICK h : On(h) /\ Upto(h, Cardinality(S))
  <2>1. Cardinality(S) \in T
    BY <1>0, <1>3
  <2>2. QED
    BY <2>1
<1>5. \A s \in SUBSET S : h[s] = ChargeOne(state, h, s)
  <2>1. \A s \in SUBSET S : Cardinality(s) <= Cardinality(S)
    BY SubsetCardinality
  <2>2. QED
    BY <1>4, <2>1
<1>6. h = [s \in SUBSET S |-> ChargeOne(state, h, s)]
  BY <1>4, <1>5
<1> DEFINE f == CHOOSE g : g = [s \in SUBSET S |-> ChargeOne(state, g, s)]
<1>7. f = [s \in SUBSET S |-> ChargeOne(state, f, s)]
  BY <1>6
<1>8. ChargeAll(state, S) = f[S]
  BY DEF ChargeAll, FoldSet, MapThenFoldSet, ChargeOne, Pick
<1> HIDE DEF f
<1>9. QED
  BY <1>7, <1>8
-----------------------------------------------------------------------------
(* after is before without the entries of S.                               *)
Lacks(after, before, S) ==
  /\ DOMAIN after.active = DOMAIN before.active \ S
  /\ DOMAIN after.reclaimed = DOMAIN before.reclaimed \ S
  /\ \A id \in DOMAIN after.active : after.active[id] = before.active[id]
  /\ \A id \in DOMAIN after.reclaimed : after.reclaimed[id] = before.reclaimed[id]

LEMMA LacksNone ==
  ASSUME NEW state PROVE Lacks(state, state, {})
BY DEF Lacks

LEMMA LacksMore ==
  ASSUME NEW a, NEW b, NEW c, NEW S, NEW T, Lacks(b, c, S), Lacks(a, b, T)
  PROVE  Lacks(a, c, S \cup T)
<1>1. DOMAIN a.active = DOMAIN c.active \ (S \cup T)
      /\ DOMAIN a.reclaimed = DOMAIN c.reclaimed \ (S \cup T)
  BY DEF Lacks
<1>2. QED
  BY <1>1 DEF Lacks

LEMMA SettleLacks ==
  ASSUME NEW ids, IsFiniteSet(ids), NEW state, Sound(state, ids), NEW id,
         NEW commit \in BOOLEAN
  PROVE  Sound(Settle(state, id, commit), ids) /\ Lacks(Settle(state, id, commit), state, {id})
<1>1. Sound(Settle(state, id, commit), ids)
  BY SettleSound
<1>2. QED
  BY <1>1, SettleEntries DEF Lacks

(* Charging the reservations of S takes their entries away.                *)
LEMMA ChargeAllLacks ==
  ASSUME NEW ids, IsFiniteSet(ids), NEW state, Sound(state, ids), NEW S, IsFiniteSet(S)
  PROVE  Sound(ChargeAll(state, S), ids) /\ Lacks(ChargeAll(state, S), state, S)
<1>1. PICK f : /\ \A s \in SUBSET S : f[s] = ChargeOne(state, f, s)
               /\ ChargeAll(state, S) = f[S]
  BY ChargeAllUnfolds
<1> DEFINE Done(s) == Sound(f[s], ids) /\ Lacks(f[s], state, s)
           T == {n \in Nat : \A s \in SUBSET S : Cardinality(s) = n => Done(s)}
<1>2. 0 \in T
  <2>1. \A s \in SUBSET S : Cardinality(s) = 0 => s = {}
    BY SubsetCardinality
  <2>2. f[{}] = state
    BY <1>1 DEF ChargeOne
  <2>3. Done({})
    BY <2>2, LacksNone
  <2> HIDE DEF Done
  <2>4. QED
    BY <2>1, <2>3
<1>3. ASSUME NEW n \in T PROVE n + 1 \in T
  <2>1. ASSUME NEW s \in SUBSET S, Cardinality(s) = n + 1 PROVE Done(s)
    <3> DEFINE r == s \ {Pick(s)}
    <3>1. n \in Nat /\ s # {}
      BY <1>3, <2>1, SubsetCardinality
    <3>2. Pick(s) \in s /\ r \in SUBSET S /\ r \cup {Pick(s)} = s
      BY <3>1, PickIn
    <3>3. Cardinality(r) = n
      <4>1. Cardinality(r) = Cardinality(s) - 1
        BY <3>2, SubsetCardinality
      <4>2. QED
        BY <4>1, <3>1, <2>1
    <3>4. Done(r)
      BY <1>3, <3>2, <3>3
    <3>5. f[s] = Settle(f[r], Pick(s), TRUE)
      BY <1>1, <3>1 DEF ChargeOne
    <3>6. Sound(f[s], ids) /\ Lacks(f[s], f[r], {Pick(s)})
      BY <3>4, <3>5, SettleLacks
    <3>7. Lacks(f[s], state, r \cup {Pick(s)})
      BY <3>4, <3>6, LacksMore
    <3>8. QED
      BY <3>2, <3>6, <3>7
  <2>2. n + 1 \in Nat
    BY <1>3
  <2> HIDE DEF Done
  <2>3. QED
    BY <2>1, <2>2
<1>4. T = Nat
  <2>1. T \subseteq Nat
    OBVIOUS
  <2> HIDE DEF T
  <2>2. QED
    BY <1>2, <1>3, <2>1, NatSetInduction
<1>5. S \in SUBSET S /\ Cardinality(S) \in Nat
  BY FS_CardinalityType
<1>6. Done(S)
  <2>1. Cardinality(S) \in T
    BY <1>4, <1>5
  <2> HIDE DEF Done
  <2>2. QED
    BY <2>1, <1>5
<1>7. QED
  BY <1>1, <1>6

-----------------------------------------------------------------------------
(* A value of the scope's key, holding reservations among ids.             *)
ReadOK(value, ids) ==
  \/ value = Missing
  \/ value.kind = "vacant" /\ value.period \in Nat /\ value = Vacant(value.period)
  \/ value.kind = "live" /\ value = Live(value.state) /\ Sound(value.state, ids)

LEMMA EmptySound ==
  ASSUME NEW ids, NEW period \in Nat PROVE Sound(AtPeriod(period), ids)
<1> DEFINE state == AtPeriod(period)
<1>1. /\ DOMAIN state = {"period", "committed", "reserved", "active", "reclaimed", "indexed_at"}
      /\ state.period = period /\ state.committed = 0 /\ state.reserved = 0
      /\ state.active = <<>> /\ state.reclaimed = <<>>
  BY DEF AtPeriod
<1> HIDE DEF state
<1>2. DOMAIN state.active = {} /\ DOMAIN state.reclaimed = {}
  BY <1>1
<1>3. state.active \in [{} -> Held] /\ state.reclaimed \in [{} -> Held]
  BY <1>1
<1>4. Cardinality({}) = 0 /\ Units(state.active, {}) = 0
  BY FS_EmptySet, UnitsEmpty
<1>5. SoundMaps(state, ids)
  BY <1>2, <1>3 DEF SoundMaps
<1>6. Sound(state, ids)
  BY <1>1, <1>2, <1>4, <1>5, HeldAssumption DEF Sound
<1>7. QED
  BY <1>6 DEF state

LEMMA BaseSound ==
  ASSUME NEW ids, NEW value, ReadOK(value, ids)
  PROVE  /\ Sound(Base(value), ids)
         /\ value.kind = "live" => Base(value) = value.state
         /\ value.kind # "live" => \E p \in Nat : Base(value) = AtPeriod(p)
<1>1. CASE value = Missing
  BY <1>1, EmptySound DEF Missing, Base
<1>2. CASE value.kind = "vacant" /\ value.period \in Nat
  BY <1>2, EmptySound DEF Base
<1>3. CASE value.kind = "live" /\ Sound(value.state, ids)
  BY <1>3 DEF Base
<1>4. QED
  BY <1>1, <1>2, <1>3 DEF ReadOK

(* The settlement a touch applies before it claims (release mode), and the *)
(* one it applies last.                                                    *)
First(c) == IF Settling(c) /\ Timeout = "release" THEN {Subject(c)} ELSE {}
Last(c) == IF c.task = "charge" \/ (Settling(c) /\ Timeout # "release")
           THEN {Subject(c)} ELSE {}

(* A call that may write what it computes from what it read.               *)
Ready(c, ids) ==
  /\ IsFiniteSet(ids) /\ c.now \in Nat
  /\ c.task \in {"reserve", "settle", "resettle", "charge", "sweep"}
  /\ c.task = "charge" => Committing(c)
  /\ ReadOK(c.read, ids) /\ c.owed \subseteq Due(c, c.read)

LEMMA CommittingBoolean == ASSUME NEW c PROVE Committing(c) \in BOOLEAN
BY DEF Committing

LEMMA UnclaimedMaps ==
  ASSUME NEW c, NEW ids, IsFiniteSet(ids), c.now \in Nat, NEW value, ReadOK(value, ids)
  PROVE  /\ Sound(Unclaimed(c, value), ids)
         /\ Lacks(Unclaimed(c, value), Base(value), First(c))
<1> DEFINE base == Base(value)
           rolled == Roll(base, Period(c.now))
<1>1. Sound(base, ids)
  BY BaseSound
<1>2. Sound(rolled, ids)
  BY <1>1, PeriodNat, RollSound
<1>3. rolled.active = base.active /\ rolled.reclaimed = base.reclaimed
  <2> HIDE DEF base
  <2>1. QED
    BY <1>1 DEF Roll, Sound
<1>4. Lacks(rolled, base, {})
  BY <1>3 DEF Lacks
<1>5. CASE Settling(c) /\ Timeout = "release"
  <2>1. Unclaimed(c, value) = Settle(rolled, Subject(c), Committing(c)) /\ First(c) = {Subject(c)}
    BY <1>5 DEF Unclaimed, First
  <2> HIDE DEF base, rolled
  <2>2. /\ Sound(Settle(rolled, Subject(c), Committing(c)), ids)
        /\ Lacks(Settle(rolled, Subject(c), Committing(c)), rolled, {Subject(c)})
    BY <1>2, CommittingBoolean, SettleLacks
  <2>3. Lacks(Settle(rolled, Subject(c), Committing(c)), base, {} \cup {Subject(c)})
    BY <1>4, <2>2, LacksMore
  <2>4. {} \cup {Subject(c)} = {Subject(c)}
    OBVIOUS
  <2>5. QED
    BY <2>1, <2>2, <2>3, <2>4 DEF base
<1>6. CASE ~(Settling(c) /\ Timeout = "release")
  <2>1. Unclaimed(c, value) = rolled /\ First(c) = {}
    BY <1>6 DEF Unclaimed, First
  <2>2. QED
    BY <1>2, <1>4, <2>1
<1>7. QED
  BY <1>5, <1>6

(* What a touch turns to: what is due, and not settled by it first.        *)
LEMMA DueIs ==
  ASSUME NEW c, NEW ids, IsFiniteSet(ids), c.now \in Nat, NEW value, ReadOK(value, ids)
  PROVE  LET base == Base(value)
         IN  /\ Due(c, value) =
                  {id \in DOMAIN base.active \ First(c) : c.now >= base.active[id].expires_at}
                  \cup {id \in DOMAIN base.reclaimed \ First(c) :
                          c.now >= SatAdd(base.reclaimed[id].expires_at, Ttl)}
             /\ Due(c, value) \subseteq ids /\ IsFiniteSet(Due(c, value))
<1> DEFINE base == Base(value)
           state == Unclaimed(c, value)
<1>1. Sound(state, ids) /\ Lacks(state, base, First(c))
  BY UnclaimedMaps
<1>2. Due(c, value) = Expiring(state, c.now) \cup Dropping(state, c.now)
  BY DEF Due
<1> HIDE DEF base, state
<1>3. Expiring(state, c.now) =
        {id \in DOMAIN base.active \ First(c) : c.now >= base.active[id].expires_at}
  BY <1>1 DEF Expiring, Expired, Lacks
<1>4. Dropping(state, c.now) =
        {id \in DOMAIN base.reclaimed \ First(c) :
           c.now >= SatAdd(base.reclaimed[id].expires_at, Ttl)}
  BY <1>1 DEF Dropping, Lacks
<1>5. Due(c, value) \subseteq ids
  <2>1. DOMAIN state.active \subseteq ids /\ DOMAIN state.reclaimed \subseteq ids
    BY <1>1 DEF Sound, SoundMaps
  <2>2. QED
    BY <1>2, <2>1 DEF Expiring, Expired, Dropping
<1>6. IsFiniteSet(Due(c, value))
  BY <1>5, FS_Subset
<1>7. QED
  BY <1>2, <1>3, <1>4, <1>5, <1>6 DEF base

(* What a touch takes off the record before it reclaims.                   *)
Gone(c) == First(c) \cup c.owed

Lapsed(c) == Expired(Reconciled(c), c.now)

LEMMA ReconciledMaps ==
  ASSUME NEW c, NEW ids, Ready(c, ids)
  PROVE  Sound(Reconciled(c), ids) /\ Lacks(Reconciled(c), Base(c.read), Gone(c))
<1>1. /\ Sound(Unclaimed(c, c.read), ids)
      /\ Lacks(Unclaimed(c, c.read), Base(c.read), First(c))
  BY UnclaimedMaps DEF Ready
<1>2. IsFiniteSet(c.owed)
  BY DueIs, FS_Subset DEF Ready
<1>3. /\ Sound(ChargeAll(Unclaimed(c, c.read), c.owed), ids)
      /\ Lacks(ChargeAll(Unclaimed(c, c.read), c.owed), Unclaimed(c, c.read), c.owed)
  BY <1>1, <1>2, ChargeAllLacks DEF Ready
<1>4. QED
  BY <1>1, <1>3, ReconciledIs, LacksMore DEF Gone

(* Two entries for the same units until the same deadline.                 *)
SameHold(h, k) == h.contribution = k.contribution /\ h.expires_at = k.expires_at

LEMMA TouchedMaps ==
  ASSUME NEW c, NEW ids, Ready(c, ids)
  PROVE  LET base == Base(c.read)
             after == Touched(c)
         IN  /\ Sound(after, ids)
             /\ Lapsed(c) = {id \in DOMAIN base.active \ Gone(c) :
                               c.now >= base.active[id].expires_at}
             /\ DOMAIN after.active = (DOMAIN base.active \ Gone(c)) \ Lapsed(c)
             /\ \A id \in DOMAIN after.active : after.active[id] = base.active[id]
             /\ DOMAIN after.reclaimed =
                  {id \in (DOMAIN base.reclaimed \ Gone(c)) \cup Lapsed(c) :
                     c.now < SatAdd(Entry(base, id).expires_at, Ttl)}
             /\ \A id \in DOMAIN after.reclaimed :
                  SameHold(after.reclaimed[id], Entry(base, id))
<1> DEFINE base == Base(c.read)
           state == Reconciled(c)
           after == Touched(c)
           E == Lapsed(c)
<1>0. IsFiniteSet(ids) /\ c.now \in Nat /\ Sound(base, ids)
  BY BaseSound DEF Ready
<1>1. Sound(state, ids) /\ Lacks(state, base, Gone(c))
  BY ReconciledMaps
<1>2. after = Reclaim(state, c.now) /\ E = Expired(state, c.now)
  BY DEF Touched, Lapsed
<1> HIDE DEF base, state, after, E
<1>3. Sound(after, ids)
  BY <1>0, <1>1, <1>2, ReclaimSound
<1>4. /\ E \subseteq DOMAIN state.active
      /\ DOMAIN after.active = DOMAIN state.active \ E
      /\ \A id \in DOMAIN after.active : after.active[id] = state.active[id]
      /\ DOMAIN after.reclaimed =
           {id \in DOMAIN state.reclaimed \cup E : c.now < SatAdd(Entry(state, id).expires_at, Ttl)}
      /\ \A id \in DOMAIN after.reclaimed :
           after.reclaimed[id] = IF id \in E THEN Tombstone(state, id) ELSE state.reclaimed[id]
  BY <1>1, <1>2, ReclaimEntries
<1>5. E = {id \in DOMAIN base.active \ Gone(c) : c.now >= base.active[id].expires_at}
  BY <1>1, <1>2 DEF Expired, Lacks
<1>6. \A id : Holds(state, id) => Entry(state, id) = Entry(base, id)
  BY <1>0, <1>1 DEF Holds, Entry, Lacks, Sound, SoundMaps
<1>7. DOMAIN state.reclaimed = DOMAIN base.reclaimed \ Gone(c)
      /\ DOMAIN state.active = DOMAIN base.active \ Gone(c)
  BY <1>1 DEF Lacks
<1>8. DOMAIN after.reclaimed =
        {id \in (DOMAIN base.reclaimed \ Gone(c)) \cup E :
           c.now < SatAdd(Entry(base, id).expires_at, Ttl)}
  BY <1>4, <1>6, <1>7 DEF Holds
<1>9. ASSUME NEW id \in DOMAIN after.reclaimed
      PROVE  SameHold(after.reclaimed[id], Entry(base, id))
  <2>1. Holds(state, id) /\ Entry(state, id) = Entry(base, id)
    BY <1>4, <1>6 DEF Holds
  <2>2. CASE id \in E
    <3>1. after.reclaimed[id] = Tombstone(state, id) /\ id \in DOMAIN state.active
      BY <1>4, <2>2
    <3>2. state.active[id] \in Held
      BY <1>1, <3>1 DEF Sound, SoundMaps
    <3>3. /\ Tombstone(state, id).contribution = state.active[id].contribution
          /\ Tombstone(state, id).expires_at = state.active[id].expires_at
      BY <3>2 DEF Tombstone, Held
    <3>4. Entry(state, id) = state.active[id]
      BY <3>1 DEF Entry
    <3>5. QED
      BY <2>1, <3>1, <3>3, <3>4 DEF SameHold
  <2>3. CASE id \notin E
    <3>1. after.reclaimed[id] = state.reclaimed[id] /\ id \in DOMAIN state.reclaimed
      BY <1>4, <2>3
    <3>2. Entry(state, id) = state.reclaimed[id]
      BY <1>1, <3>1 DEF Entry, Sound, SoundMaps
    <3>3. QED
      BY <2>1, <3>1, <3>2 DEF SameHold
  <2>4. QED
    BY <2>2, <2>3
<1>10. DOMAIN after.active = (DOMAIN base.active \ Gone(c)) \ E
       /\ \A id \in DOMAIN after.active : after.active[id] = base.active[id]
  BY <1>1, <1>4, <1>7 DEF Lacks
<1>11. QED
  BY <1>3, <1>5, <1>8, <1>9, <1>10 DEF base, after, E

(* The reservation a touch adds.                                           *)
New(c) == IF c.task = "reserve" /\ ~RefusedOnRecord(c) THEN {c.id} ELSE {}

(* A call whose reservation is not on the record it read, or whose subject *)
(* is a reservation that was granted.                                      *)
Grantable(c, ids) ==
  c.task = "reserve" => /\ c.id \in ids /\ ~Holds(Base(c.read), c.id)
                        /\ c.units \in 1 .. MaxUnits

Chargeable(c) == c.task = "charge" => reservations[Subject(c)].contribution \in Nat

LEMMA UpdatedMaps ==
  ASSUME NEW c, NEW ids, Ready(c, ids), Grantable(c, ids), Chargeable(c)
  PROVE  LET before == Touched(c)
             after == Updated(c)
         IN  /\ Sound(after, ids)
             /\ DOMAIN after.active = (DOMAIN before.active \ Last(c)) \cup New(c)
             /\ DOMAIN after.reclaimed = DOMAIN before.reclaimed \ Last(c)
             /\ \A id \in DOMAIN after.active \ New(c) : after.active[id] = before.active[id]
             /\ \A id \in DOMAIN after.reclaimed : after.reclaimed[id] = before.reclaimed[id]
             /\ \A id \in New(c) : /\ after.active[id].contribution = c.units
                                   /\ after.active[id].expires_at = SatAdd(c.now, Ttl)
<1> DEFINE before == Touched(c)
           after == Updated(c)
           Fits == /\ Sound(after, ids)
                   /\ DOMAIN after.active = (DOMAIN before.active \ Last(c)) \cup New(c)
                   /\ DOMAIN after.reclaimed = DOMAIN before.reclaimed \ Last(c)
                   /\ \A id \in DOMAIN after.active \ New(c) : after.active[id] = before.active[id]
                   /\ \A id \in DOMAIN after.reclaimed : after.reclaimed[id] = before.reclaimed[id]
                   /\ \A id \in New(c) : /\ after.active[id].contribution = c.units
                                         /\ after.active[id].expires_at = SatAdd(c.now, Ttl)
<1>0. Sound(before, ids) /\ IsFiniteSet(ids) /\ c.now \in Nat
  BY TouchedMaps DEF Ready
<1>1. CASE Lacks(after, before, Last(c)) /\ Sound(after, ids) /\ New(c) = {}
  <2> HIDE DEF before, after
  <2>1. QED
    BY <1>1 DEF Lacks, before, after
<1>2. CASE after = before /\ Last(c) = {} /\ New(c) = {}
  BY <1>0, <1>2, <1>1, LacksNone
<1>3. CASE after = Settle(before, Subject(c), Committing(c)) /\ Last(c) = {Subject(c)}
           /\ New(c) = {}
  <2>1. /\ Sound(Settle(before, Subject(c), Committing(c)), ids)
        /\ Lacks(Settle(before, Subject(c), Committing(c)), before, {Subject(c)})
    <3> HIDE DEF before
    <3>1. QED
      BY <1>0, CommittingBoolean, SettleLacks
  <2>2. QED
    BY <1>1, <1>3, <2>1
<1>4. CASE c.task = "reserve"
  <2>1. Last(c) = {}
    BY <1>4 DEF Last, Settling
  <2>2. CASE RefusedOnRecord(c)
    <3>1. after = before /\ New(c) = {}
      BY <1>4, <2>2 DEF Updated, New, Settling
    <3>2. QED
      BY <1>2, <2>1, <3>1
  <2>3. CASE ~RefusedOnRecord(c)
    <3>1. after = Hold(before, c.id, c.units, c.now) /\ New(c) = {c.id}
      BY <1>4, <2>3 DEF Updated, New, Settling
    <3>2. /\ c.id \in ids /\ ~Holds(Base(c.read), c.id)
          /\ c.units \in 0 .. MaxUnits /\ c.units # 0
      BY <1>4, WidthAssumption DEF Grantable
    <3>3. ~Saturated(before)
      BY <2>3 DEF RefusedOnRecord
    <3>4. ~Holds(before, c.id)
      BY <3>2, TouchedMaps DEF Holds
    <3> HIDE DEF before
    <3>5. Sound(Hold(before, c.id, c.units, c.now), ids)
      BY <1>0, <3>2, <3>3, <3>4, HoldSound
    <3>6. LET new == Hold(before, c.id, c.units, c.now)
          IN  /\ DOMAIN new.active = DOMAIN before.active \cup {c.id}
              /\ new.reclaimed = before.reclaimed
              /\ \A id \in DOMAIN before.active \ {c.id} : new.active[id] = before.active[id]
              /\ new.active[c.id].contribution = c.units
              /\ new.active[c.id].expires_at = SatAdd(c.now, Ttl)
      BY <1>0, <3>2 DEF Hold, Sound
    <3> HIDE DEF after
    <3>7. QED
      BY <2>1, <3>1, <3>5, <3>6 DEF before, after
  <2>4. QED
    BY <2>2, <2>3
<1>5. CASE c.task = "charge"
  <2>1. Last(c) = {Subject(c)} /\ New(c) = {} /\ Committing(c)
    BY <1>5 DEF Last, New, Ready
  <2>2. CASE Applied(c) # "not-active"
    <3>1. after = Settle(before, Subject(c), Committing(c))
      BY <1>5, <2>1, <2>2, CommittingBoolean DEF Updated, Charge, Settling
    <3>2. QED
      BY <1>3, <2>1, <3>1
  <2>3. CASE Applied(c) = "not-active"
    <3>1. Outcome(before, Subject(c), Committing(c)) = "not-active"
      BY <1>5, <2>3 DEF Applied, Settling
    <3>2. ~Holds(before, Subject(c))
      <4> HIDE DEF before
      <4>1. QED
        BY <3>1 DEF Outcome, Holds
    <3>3. after = [before EXCEPT
                     !.committed = SatAdd(@, reservations[Subject(c)].contribution)]
      BY <1>5, <2>3 DEF Updated, Charge, Settling
    <3>4. reservations[Subject(c)].contribution \in Nat
      BY <1>5 DEF Chargeable
    <3> DEFINE units == reservations[Subject(c)].contribution
    <3> HIDE DEF before, after, units
    <3>5. SatAdd(before.committed, units) \in Nat
      BY <1>0, <3>4, SatAddFacts DEF Sound, units
    <3>6. /\ DOMAIN after = DOMAIN before /\ after.committed \in Nat
          /\ after.active = before.active /\ after.reclaimed = before.reclaimed
          /\ after.period = before.period /\ after.reserved = before.reserved
      BY <1>0, <3>3, <3>5 DEF Sound, units
    <3>7. Sound(after, ids)
      BY <1>0, <3>6 DEF Sound, SoundMaps
    <3>8. Lacks(after, before, Last(c))
      BY <2>1, <3>2, <3>6 DEF Lacks, Holds
    <3>9. QED
      BY <1>1, <2>1, <3>7, <3>8 DEF before, after
  <2>4. QED
    BY <2>2, <2>3
<1>6. CASE c.task = "sweep"
  BY <1>2, <1>6 DEF Updated, Last, New, Settling
<1>7. CASE Settling(c)
  <2>1. New(c) = {} /\ c.task # "charge"
    BY <1>7 DEF New, Settling
  <2>2. CASE Timeout = "release"
    BY <1>2, <1>7, <2>1, <2>2 DEF Updated, Last, Settling
  <2>3. CASE Timeout # "release"
    BY <1>3, <1>7, <2>1, <2>3 DEF Updated, Last, Settling
  <2>4. QED
    BY <2>2, <2>3
<1>8. QED
  BY <1>4, <1>5, <1>6, <1>7 DEF Ready, Settling

(* What a write leaves of the record that was read.                        *)
LEMMA WrittenMaps ==
  ASSUME NEW c, NEW ids, Ready(c, ids), Grantable(c, ids), Chargeable(c)
  PROVE  LET base == Base(c.read)
             after == Base(Written(c))
         IN  /\ ReadOK(Written(c), ids)
             /\ Lapsed(c) = {id \in DOMAIN base.active \ Gone(c) :
                               c.now >= base.active[id].expires_at}
             /\ DOMAIN after.active =
                  (((DOMAIN base.active \ Gone(c)) \ Lapsed(c)) \ Last(c)) \cup New(c)
             /\ DOMAIN after.reclaimed =
                  {id \in (DOMAIN base.reclaimed \ Gone(c)) \cup Lapsed(c) :
                     c.now < SatAdd(Entry(base, id).expires_at, Ttl)} \ Last(c)
             /\ \A id : Holds(after, id) /\ id \notin New(c) =>
                          Holds(base, id) /\ SameHold(Entry(after, id), Entry(base, id))
             /\ \A id \in New(c) : /\ after.active[id].contribution = c.units
                                   /\ after.active[id].expires_at = SatAdd(c.now, Ttl)
<1> DEFINE base == Base(c.read)
           mid == Touched(c)
           new == Updated(c)
           after == Base(Written(c))
<1>0. Sound(base, ids)
  BY BaseSound DEF Ready
<1>1. /\ Sound(new, ids)
      /\ DOMAIN new.active = (DOMAIN mid.active \ Last(c)) \cup New(c)
      /\ DOMAIN new.reclaimed = DOMAIN mid.reclaimed \ Last(c)
      /\ \A id \in DOMAIN new.active \ New(c) : new.active[id] = mid.active[id]
      /\ \A id \in DOMAIN new.reclaimed : new.reclaimed[id] = mid.reclaimed[id]
      /\ \A id \in New(c) : /\ new.active[id].contribution = c.units
                            /\ new.active[id].expires_at = SatAdd(c.now, Ttl)
  BY UpdatedMaps
<1>2. /\ Lapsed(c) = {id \in DOMAIN base.active \ Gone(c) :
                        c.now >= base.active[id].expires_at}
      /\ DOMAIN mid.active = (DOMAIN base.active \ Gone(c)) \ Lapsed(c)
      /\ \A id \in DOMAIN mid.active : mid.active[id] = base.active[id]
      /\ DOMAIN mid.reclaimed =
           {id \in (DOMAIN base.reclaimed \ Gone(c)) \cup Lapsed(c) :
              c.now < SatAdd(Entry(base, id).expires_at, Ttl)}
      /\ \A id \in DOMAIN mid.reclaimed : SameHold(mid.reclaimed[id], Entry(base, id))
  BY TouchedMaps
<1>3. CASE c.task = "sweep" /\ IsIdle(new)
  <2>1. Written(c) = Vacant(new.period) /\ New(c) = {}
    BY <1>3 DEF Written, New
  <2>2. new.period \in Nat /\ DOMAIN new.active = {} /\ DOMAIN new.reclaimed = {}
    BY <1>1, <1>3 DEF Sound, IsIdle
  <2>3. ReadOK(Written(c), ids) /\ after = AtPeriod(new.period)
    BY <2>1, <2>2 DEF ReadOK, Vacant, Base
  <2>4. DOMAIN after.active = {} /\ DOMAIN after.reclaimed = {}
    BY <2>3 DEF AtPeriod
  <2> HIDE DEF base, mid, new, after
  <2>5. QED
    BY <1>1, <1>2, <2>1, <2>2, <2>3, <2>4 DEF base, after, Holds
<1>4. CASE ~(c.task = "sweep" /\ IsIdle(new))
  <2>1. Written(c) = Live(new)
    BY <1>4 DEF Written
  <2>2. after = new /\ ReadOK(Written(c), ids)
    BY <1>1, <2>1 DEF ReadOK, Live, Base
  <2> HIDE DEF base, mid, new, after
  <2>3. ASSUME NEW id, Holds(new, id), id \notin New(c)
        PROVE  Holds(base, id) /\ SameHold(Entry(new, id), Entry(base, id))
    <3>1. CASE id \in DOMAIN new.active
      <4>1. id \in DOMAIN mid.active /\ Entry(new, id) = mid.active[id]
        BY <1>1, <2>3, <3>1 DEF Entry
      <4>2. id \in DOMAIN base.active /\ Entry(new, id) = Entry(base, id)
        BY <1>2, <4>1 DEF Entry
      <4>3. QED
        BY <4>2 DEF Holds, SameHold
    <3>2. CASE id \notin DOMAIN new.active
      <4>1. id \in DOMAIN mid.reclaimed /\ Entry(new, id) = mid.reclaimed[id]
        BY <1>1, <2>3, <3>2 DEF Entry, Holds
      <4>2. QED
        BY <1>2, <4>1 DEF Holds
    <3>3. QED
      BY <3>1, <3>2
  <2>4. QED
    BY <1>1, <1>2, <2>2, <2>3 DEF base, after
<1>5. QED
  BY <1>3, <1>4

(* How a settlement of a sound state turns out.                            *)
LEMMA OutcomeFacts ==
  ASSUME NEW ids, NEW state, Sound(state, ids), NEW id, NEW commit \in BOOLEAN
  PROVE  LET outcome == Outcome(state, id, commit)
         IN  /\ outcome \in {"committed", "released", "late-committed", "late-released",
                             "refunded", "already-charged", "not-active"}
             /\ outcome = "not-active" <=> ~Holds(state, id)
             /\ outcome = "committed" <=> commit /\ id \in DOMAIN state.active
             /\ outcome = "late-committed" <=>
                  commit /\ Timeout = "release" /\ id \in DOMAIN state.reclaimed
             /\ outcome = "refunded" =>
                  ~commit /\ Timeout = "commit" /\ id \in DOMAIN state.reclaimed
             /\ outcome \in {"released", "late-released"} => ~commit
             /\ outcome = "already-charged" =>
                  Timeout = "commit" /\ id \in DOMAIN state.reclaimed
<1>1. /\ DOMAIN state.active \cap DOMAIN state.reclaimed = {}
      /\ \A i \in DOMAIN state.reclaimed :
           state.reclaimed[i].provisional_period = NoPeriod <=> Timeout = "release"
  BY DEF Sound, SoundMaps
<1>2. CASE id \in DOMAIN state.active
  BY <1>1, <1>2 DEF Outcome, Holds
<1>3. CASE id \in DOMAIN state.reclaimed
  <2>1. id \notin DOMAIN state.active /\ Holds(state, id)
    BY <1>1, <1>3 DEF Holds
  <2>2. Outcome(state, id, commit) =
          LET charged == state.reclaimed[id].provisional_period
          IN  IF charged = NoPeriod
              THEN IF commit THEN "late-committed" ELSE "late-released"
              ELSE IF ~commit /\ charged = state.period THEN "refunded" ELSE "already-charged"
    BY <1>3, <2>1 DEF Outcome
  <2>3. QED
    BY <1>1, <1>3, <2>1, <2>2, TimeoutAssumption
<1>4. CASE ~Holds(state, id)
  BY <1>4 DEF Outcome, Holds
<1>5. QED
  BY <1>2, <1>3, <1>4 DEF Holds

(* The claimed commits are charged, those of a tombstone late.             *)
LEMMA OwedCharges ==
  ASSUME NEW c, NEW ids, Ready(c, ids)
  PROVE  /\ OwedAs(c, {"committed"}) = c.owed \cap DOMAIN Base(c.read).active
         /\ OwedAs(c, {"late-committed"}) =
              IF Timeout = "release" THEN c.owed \cap DOMAIN Base(c.read).reclaimed ELSE {}
         /\ c.owed \cap First(c) = {}
         /\ \A id \in c.owed : Holds(Base(c.read), id)
<1> DEFINE base == Base(c.read)
           state == Unclaimed(c, c.read)
<1>1. Sound(state, ids) /\ Lacks(state, base, First(c))
  BY UnclaimedMaps DEF Ready
<1>2. c.owed \cap First(c) = {} /\ \A id \in c.owed : Holds(base, id)
  BY DueIs DEF Ready, Holds
<1> HIDE DEF base, state
<1>3. \A id \in c.owed : /\ id \in DOMAIN state.active <=> id \in DOMAIN base.active
                         /\ id \in DOMAIN state.reclaimed <=> id \in DOMAIN base.reclaimed
  BY <1>1, <1>2 DEF Lacks
<1>4. \A id : /\ Outcome(state, id, TRUE) = "committed" <=> id \in DOMAIN state.active
              /\ Outcome(state, id, TRUE) = "late-committed" <=>
                   Timeout = "release" /\ id \in DOMAIN state.reclaimed
  BY <1>1, OutcomeFacts
<1>5. /\ OwedAs(c, {"committed"}) = {id \in c.owed : Outcome(state, id, TRUE) = "committed"}
      /\ OwedAs(c, {"late-committed"}) =
           {id \in c.owed : Outcome(state, id, TRUE) = "late-committed"}
  BY DEF OwedAs, state
<1>6. OwedAs(c, {"committed"}) = c.owed \cap DOMAIN base.active
  BY <1>3, <1>4, <1>5
<1>7. OwedAs(c, {"late-committed"}) =
        IF Timeout = "release" THEN c.owed \cap DOMAIN base.reclaimed ELSE {}
  BY <1>3, <1>4, <1>5
<1>8. QED
  BY <1>2, <1>6, <1>7 DEF base

(* A call that settles a reservation, or charges it.                       *)
Settles(c) == Settling(c) \/ c.task = "charge"

LEMMA AppliedFacts ==
  ASSUME NEW c, NEW ids, Ready(c, ids), Settles(c)
  PROVE  LET base == Base(c.read)
             id == Subject(c)
             applied == Applied(c)
         IN  /\ applied \in {"committed", "released", "late-committed", "late-released",
                             "refunded", "already-charged", "not-active"}
             /\ id \in First(c) \cup Last(c)
             /\ applied = "not-active" =>
                  IF Settling(c) /\ Timeout = "release" THEN ~Holds(base, id)
                  ELSE ~Holds(Touched(c), id)
             /\ applied = "committed" =>
                  /\ Committing(c) /\ id \in DOMAIN base.active
                  /\ id \notin c.owed /\ id \notin Lapsed(c)
             /\ applied = "late-committed" =>
                  Committing(c) /\ Timeout = "release" /\ id \notin c.owed /\ Holds(base, id)
             /\ applied \in {"refunded", "already-charged"} =>
                  /\ Timeout = "commit" /\ id \notin c.owed
                  /\ id \in DOMAIN base.reclaimed \cup Lapsed(c)
             /\ applied \in {"refunded", "released", "late-released"} => ~Committing(c)
<1> DEFINE base == Base(c.read)
           rolled == Roll(base, Period(c.now))
           touched == Touched(c)
           id == Subject(c)
           applied == Applied(c)
<1>1. Committing(c) \in BOOLEAN /\ IsFiniteSet(ids) /\ c.now \in Nat
  BY CommittingBoolean DEF Ready
<1>2. Sound(base, ids) /\ Sound(touched, ids)
  BY BaseSound, TouchedMaps DEF Ready
<1>3. CASE Settling(c) /\ Timeout = "release"
  <2>1. applied = Outcome(rolled, id, Committing(c)) /\ First(c) = {id}
    BY <1>3 DEF Applied, First
  <2>2. id \notin c.owed /\ id \notin Lapsed(c)
    <3>1. c.owed \cap First(c) = {}
      BY OwedCharges
    <3>2. Lapsed(c) \cap Gone(c) = {}
      BY TouchedMaps
    <3>3. QED
      BY <2>1, <3>1, <3>2 DEF Gone
  <2>3. Sound(rolled, ids)
    BY <1>1, <1>2, PeriodNat, RollSound
  <2>4. rolled.active = base.active /\ rolled.reclaimed = base.reclaimed
    <3> HIDE DEF base
    <3>1. QED
      BY <1>2 DEF Roll, Sound
  <2> HIDE DEF base, rolled, touched, id, applied
  <2>5. Holds(rolled, id) <=> Holds(base, id)
    BY <2>4 DEF Holds
  <2>6. \A i : i \in DOMAIN rolled.active \cup DOMAIN rolled.reclaimed => Holds(rolled, i)
    BY DEF Holds
  <2>7. QED
    BY <1>1, <1>3, <2>1, <2>2, <2>3, <2>4, <2>5, <2>6, OutcomeFacts DEF base, id, applied
<1>4. CASE ~(Settling(c) /\ Timeout = "release")
  <2>1. applied = Outcome(touched, id, Committing(c)) /\ Last(c) = {id}
    BY <1>4 DEF Applied, Last, Settles
  <2>2. /\ Lapsed(c) \subseteq DOMAIN base.active \ Gone(c)
        /\ DOMAIN touched.active = (DOMAIN base.active \ Gone(c)) \ Lapsed(c)
        /\ DOMAIN touched.reclaimed \subseteq (DOMAIN base.reclaimed \ Gone(c)) \cup Lapsed(c)
    BY TouchedMaps
  <2> HIDE DEF base, rolled, touched, id, applied
  <2>3. /\ id \in DOMAIN touched.active =>
             id \in DOMAIN base.active /\ id \notin c.owed /\ id \notin Lapsed(c)
        /\ id \in DOMAIN touched.reclaimed =>
             /\ id \in DOMAIN base.reclaimed \cup Lapsed(c)
             /\ id \notin c.owed /\ Holds(base, id)
    BY <2>2 DEF Gone, Holds
  <2>4. QED
    BY <1>1, <1>2, <1>4, <2>1, <2>3, OutcomeFacts DEF base, id, applied, touched
<1>5. QED
  BY <1>3, <1>4

(* The subject, when the write charges it.                                 *)
Paid(c) == SubjectIf(c, Settles(c) /\ \/ Applied(c) \in {"committed", "late-committed"}
                                      \/ c.task = "charge" /\ Applied(c) = "not-active")

LatePaid(c) == SubjectIf(c, Settles(c) /\ \/ Applied(c) = "late-committed"
                                          \/ c.task = "charge" /\ Applied(c) = "not-active")

Refunded(c) == SubjectIf(c, Settling(c) /\ Applied(c) = "refunded")

LEMMA ChargedSets ==
  ASSUME NEW c, NEW ids, Ready(c, ids)
  PROVE  /\ Charged(c) =
              (c.owed \cap DOMAIN Base(c.read).active) \cup Paid(c)
              \cup (IF Timeout = "release" THEN c.owed \cap DOMAIN Base(c.read).reclaimed
                    ELSE Lapsed(c))
         /\ ChargedLate(c) =
              LatePaid(c) \cup (IF Timeout = "release"
                                THEN c.owed \cap DOMAIN Base(c.read).reclaimed ELSE {})
<1>1. SubjectIf(c, \/ Settling(c) /\ Applied(c) = "late-committed"
                   \/ c.task = "charge" /\ Applied(c) \in {"late-committed", "not-active"})
        = LatePaid(c)
  BY DEF LatePaid, Settles, SubjectIf
<1>2. LatePaid(c) \cup SubjectIf(c, (Settling(c) \/ c.task = "charge") /\ Applied(c) = "committed")
        = Paid(c)
  BY DEF LatePaid, Paid, Settles, SubjectIf
<1>3. ChargedLate(c) = OwedAs(c, {"late-committed"}) \cup LatePaid(c)
  BY <1>1 DEF ChargedLate
<1>4. Charged(c) = OwedAs(c, {"late-committed"}) \cup Paid(c) \cup OwedAs(c, {"committed"})
                     \cup (IF Timeout = "commit" THEN Lapsed(c) ELSE {})
  BY <1>2, <1>3 DEF Charged, Lapsed
<1>5. QED
  BY <1>3, <1>4, OwedCharges, TimeoutAssumption

-----------------------------------------------------------------------------
(* The record is sound, its entries are the reservations granted, and the  *)
(* charges of what it holds are those its deadline has made.               *)
Recorded(rec, ids, res, chg, lt) ==
  /\ ReadOK(rec, ids)
  /\ \A id : Holds(Base(rec), id) =>
       /\ id \in DOMAIN res => SameHold(Entry(Base(rec), id), res[id])
       /\ id \notin lt
       /\ chg[id] = IF id \in DOMAIN Base(rec).reclaimed /\ Timeout = "commit" THEN 1 ELSE 0

(* The subject of a settlement is a reservation; what a reserve adds has   *)
(* never been charged.                                                     *)
Lawful(c, res, chg, lt) ==
  /\ Settles(c) => Subject(c) \in DOMAIN res
  /\ c.task = "reserve" => c.id \notin DOMAIN res /\ c.id \notin lt /\ chg[c.id] = 0

(* The write settles its subject without charging it.                      *)
Releases(c) == Settling(c) /\ ~Committing(c)

LEMMA LandFacts ==
  ASSUME NEW c, NEW ids, ids \subseteq 1 .. MaxId,
         Ready(c, ids), Grantable(c, ids), Chargeable(c),
         c.read = record, Recorded(record, ids, reservations, charges, late),
         charges \in [1 .. MaxId -> Nat], DOMAIN reservations \subseteq ids,
         Lawful(c, reservations, charges, late), Land(c)
  PROVE  LET before == Base(record)
             after == Base(record')
         IN  /\ charges' \in [1 .. MaxId -> Nat]
             /\ Recorded(record', ids, reservations, charges', late')
             /\ \A id : Holds(after, id) => Holds(before, id) \/ id \in New(c)
             /\ \A id \in New(c) : /\ id \in DOMAIN after.active
                                   /\ after.active[id].contribution = c.units
                                   /\ after.active[id].expires_at = SatAdd(c.now, Ttl)
             /\ \A id \in 1 .. MaxId :
                  charges'[id] >= charges[id] \/ (id = Subject(c) /\ Releases(c))
             /\ \A id \in 1 .. MaxId : ~Holds(before, id) /\ ~(Settles(c) /\ id = Subject(c)) =>
                  charges'[id] = charges[id] /\ (id \in late' => id \in late)
             /\ \A id : Holds(before, id) /\ ~Holds(after, id) =>
                  \/ charges'[id] > 0
                  \/ id = Subject(c) /\ Releases(c)
                  \/ /\ Timeout = "release" /\ id \in Due(c, c.read) \ c.owed
                     /\ c.now >= SatAdd(Entry(before, id).expires_at, Ttl)
             /\ \A id \in DOMAIN before.active :
                  \/ id \in DOMAIN after.active
                  \/ Settles(c) /\ id = Subject(c)
                  \/ c.now >= before.active[id].expires_at
             /\ Settles(c) => ~Holds(after, Subject(c))
             /\ /\ Settles(c) /\ Committing(c)
                /\ c.task = "charge" \/ (Timeout = "release" /\ Applied(c) # "not-active")
                => charges'[Subject(c)] > 0
<1> DEFINE before == Base(record)
           after == Base(record')
           s == Subject(c)
           paid == Charged(c)
           refunded == Refunded(c)
<1>1. record' = Written(c) /\ late' = late \cup ChargedLate(c)
  BY DEF Land
<1>2. /\ ReadOK(record', ids)
      /\ Lapsed(c) = {id \in DOMAIN before.active \ Gone(c) :
                        c.now >= before.active[id].expires_at}
      /\ DOMAIN after.active =
           (((DOMAIN before.active \ Gone(c)) \ Lapsed(c)) \ Last(c)) \cup New(c)
      /\ DOMAIN after.reclaimed =
           {id \in (DOMAIN before.reclaimed \ Gone(c)) \cup Lapsed(c) :
              c.now < SatAdd(Entry(before, id).expires_at, Ttl)} \ Last(c)
      /\ \A id : Holds(after, id) /\ id \notin New(c) =>
                   Holds(before, id) /\ SameHold(Entry(after, id), Entry(before, id))
      /\ \A id \in New(c) : /\ after.active[id].contribution = c.units
                            /\ after.active[id].expires_at = SatAdd(c.now, Ttl)
  BY <1>1, WrittenMaps
<1>3. /\ paid = (c.owed \cap DOMAIN before.active) \cup Paid(c)
                \cup (IF Timeout = "release" THEN c.owed \cap DOMAIN before.reclaimed
                      ELSE Lapsed(c))
      /\ ChargedLate(c) = LatePaid(c) \cup (IF Timeout = "release"
                                            THEN c.owed \cap DOMAIN before.reclaimed ELSE {})
  BY ChargedSets
<1>4. c.owed \cap First(c) = {} /\ \A id \in c.owed : Holds(before, id)
  BY OwedCharges
<1>5. Settles(c) =>
        /\ s \in First(c) \cup Last(c)
        /\ Applied(c) \in {"committed", "released", "late-committed", "late-released",
                           "refunded", "already-charged", "not-active"}
        /\ Applied(c) = "not-active" =>
             IF Settling(c) /\ Timeout = "release" THEN ~Holds(before, s)
             ELSE ~Holds(Touched(c), s)
        /\ Applied(c) = "committed" =>
             Committing(c) /\ s \in DOMAIN before.active /\ s \notin c.owed /\ s \notin Lapsed(c)
        /\ Applied(c) = "late-committed" =>
             Committing(c) /\ Timeout = "release" /\ s \notin c.owed /\ Holds(before, s)
        /\ Applied(c) \in {"refunded", "already-charged"} =>
             /\ Timeout = "commit" /\ s \notin c.owed
             /\ s \in DOMAIN before.reclaimed \cup Lapsed(c)
        /\ Applied(c) \in {"refunded", "released", "late-released"} => ~Committing(c)
  BY AppliedFacts
<1>6. /\ First(c) \cup Last(c) \subseteq {s}
      /\ (First(c) \cup Last(c) # {} => Settles(c))
      /\ Paid(c) = IF Settles(c) /\ (\/ Applied(c) \in {"committed", "late-committed"}
                                     \/ c.task = "charge" /\ Applied(c) = "not-active")
                   THEN {s} ELSE {}
      /\ LatePaid(c) = IF Settles(c) /\ (\/ Applied(c) = "late-committed"
                                         \/ c.task = "charge" /\ Applied(c) = "not-active")
                       THEN {s} ELSE {}
      /\ refunded = IF Settling(c) /\ Applied(c) = "refunded" THEN {s} ELSE {}
      /\ (Settling(c) => Settles(c)) /\ (c.task = "charge" => Settles(c) /\ Committing(c))
  BY DEF First, Last, Paid, LatePaid, Refunded, SubjectIf, Settles, Ready
<1>7. \A id \in 1 .. MaxId :
        charges'[id] = charges[id] + (IF id \in paid THEN 1 ELSE 0)
                                   - (IF id \in refunded THEN 1 ELSE 0)
  BY DEF Land, Refunded
<1>8. DOMAIN before.active \cap DOMAIN before.reclaimed = {}
      /\ DOMAIN before.active \subseteq ids /\ DOMAIN before.reclaimed \subseteq ids
  BY BaseSound DEF Recorded, Sound, SoundMaps
<1>9. DOMAIN after.active \cap DOMAIN after.reclaimed = {}
      /\ DOMAIN after.active \subseteq ids /\ DOMAIN after.reclaimed \subseteq ids
  BY <1>2, BaseSound DEF Sound, SoundMaps
<1>10. Gone(c) = First(c) \cup c.owed
  BY DEF Gone
<1>11. /\ Settles(c) => s \in DOMAIN reservations /\ s \in 1 .. MaxId
       /\ New(c) # {} => /\ New(c) = {c.id} /\ ~Settles(c) /\ c.id \notin DOMAIN reservations
                         /\ ~Holds(before, c.id) /\ c.id \notin late /\ charges[c.id] = 0
                         /\ c.id \in 1 .. MaxId
  BY DEF New, Lawful, Grantable, Settles, Settling
<1>12. \A id : /\ Holds(before, id) <=> id \in DOMAIN before.active \cup DOMAIN before.reclaimed
               /\ Holds(after, id) <=> id \in DOMAIN after.active \cup DOMAIN after.reclaimed
  BY DEF Holds
<1>13. charges \in [1 .. MaxId -> Nat] /\ DOMAIN charges' = 1 .. MaxId
  BY DEF Land
<1>14. \A id : Holds(before, id) =>
         /\ id \in 1 .. MaxId /\ id \notin late
         /\ id \in DOMAIN reservations => SameHold(Entry(before, id), reservations[id])
         /\ charges[id] = IF id \in DOMAIN before.reclaimed /\ Timeout = "commit" THEN 1 ELSE 0
  BY <1>8, <1>12 DEF Recorded
<1>15. Due(c, c.read) =
         {id \in DOMAIN before.active \ First(c) : c.now >= before.active[id].expires_at}
         \cup {id \in DOMAIN before.reclaimed \ First(c) :
                 c.now >= SatAdd(before.reclaimed[id].expires_at, Ttl)}
  BY DueIs DEF Ready
<1>16. c.owed \subseteq Due(c, c.read)
  BY DEF Ready
<1>17. c.now \in Nat /\ \A id : Holds(before, id) =>
         Entry(before, id).expires_at \in Nat /\ SatAdd(Entry(before, id).expires_at, Ttl) \in Nat
  <2>1. c.now \in Nat /\ Sound(before, ids)
    BY BaseSound DEF Ready, Recorded
  <2> HIDE DEF before
  <2>2. \A id : Holds(before, id) => Entry(before, id).expires_at \in Nat
    BY <2>1 DEF Sound, SoundMaps, Holds, Entry, Held
  <2>3. QED
    BY <2>1, <2>2, SatAddFacts, TtlAssumption
<1> HIDE DEF before, after, s, paid, refunded
<1>18. \A id \in refunded : /\ ~Committing(c) /\ id = s /\ Timeout = "commit"
                            /\ id \in paid \/ charges[id] = 1
                            /\ ~Holds(after, id)
  <2> SUFFICES ASSUME Settling(c), Applied(c) = "refunded"
               PROVE  /\ ~Committing(c) /\ Timeout = "commit" /\ ~Holds(after, s)
                      /\ s \in paid \/ charges[s] = 1
    BY <1>6
  <2>1. /\ Settles(c) /\ ~Committing(c) /\ Timeout = "commit" /\ s \notin New(c)
        /\ s \in DOMAIN before.reclaimed \cup Lapsed(c) /\ s \in First(c) \cup Last(c)
    BY <1>5, <1>6, <1>11
  <2>2. ~Holds(after, s)
    BY <2>1, <1>2, <1>10, <1>12
  <2>3. s \in paid \/ charges[s] = 1
    BY <2>1, <1>3, <1>12, <1>14
  <2>4. QED
    BY <2>1, <2>2, <2>3
<1>19. \A id \in 1 .. MaxId : charges'[id] \in Nat
  BY <1>7, <1>13, <1>18
<1>20. charges' \in [1 .. MaxId -> Nat]
  <2>1. charges' = [id \in DOMAIN charges |-> charges'[id]]
    BY <1>13 DEF Land
  <2>2. QED
    BY <2>1, <1>13, <1>19
<1>21. ASSUME NEW id, Holds(after, id), id \notin New(c)
       PROVE  /\ id \notin c.owed /\ id \notin ChargedLate(c) /\ id \notin refunded
              /\ id \in paid <=> (Timeout = "commit" /\ id \in Lapsed(c))
              /\ id \in DOMAIN after.reclaimed <=> id \in DOMAIN before.reclaimed \cup Lapsed(c)
  <2>1. id \notin c.owed /\ id \notin First(c) /\ id \notin Last(c)
    BY <1>2, <1>10, <1>12, <1>21
  <2>2. id \notin Paid(c) /\ id \notin LatePaid(c) /\ id \notin refunded
    BY <2>1, <1>5, <1>6
  <2>3. id \in DOMAIN after.reclaimed <=> id \in DOMAIN before.reclaimed \cup Lapsed(c)
    BY <1>2, <1>8, <1>9, <1>12, <1>21
  <2>4. QED
    BY <2>1, <2>2, <2>3, <1>3, TimeoutAssumption
<1>22. Recorded(record', ids, reservations, charges', late')
  <2>1. ASSUME NEW id, Holds(after, id)
        PROVE  /\ id \in DOMAIN reservations => SameHold(Entry(after, id), reservations[id])
               /\ id \notin late'
               /\ charges'[id] = IF id \in DOMAIN after.reclaimed /\ Timeout = "commit"
                                 THEN 1 ELSE 0
    <3>1. CASE id \in New(c)
      <4>1. id = c.id /\ ~Settles(c) /\ id \notin c.owed /\ id \notin late /\ charges[id] = 0
            /\ ~Holds(before, id) /\ id \notin DOMAIN reservations /\ id \in 1 .. MaxId
        BY <1>4, <1>11, <3>1
      <4>2. id \in DOMAIN after.active /\ id \notin DOMAIN after.reclaimed
        BY <1>2, <1>9, <3>1
      <4>3. id \notin Lapsed(c)
        BY <4>1, <1>2, <1>12
      <4>4. id \notin paid /\ id \notin refunded /\ id \notin ChargedLate(c)
        BY <4>1, <4>3, <1>3, <1>6
      <4>5. charges'[id] = 0
        BY <4>1, <4>4, <1>7
      <4>6. QED
        BY <4>1, <4>2, <4>4, <4>5, <1>1
    <3>2. CASE id \notin New(c)
      <4>1. Holds(before, id) /\ SameHold(Entry(after, id), Entry(before, id))
        BY <2>1, <3>2, <1>2
      <4>2. /\ id \notin ChargedLate(c) /\ id \notin refunded
            /\ id \in paid <=> (Timeout = "commit" /\ id \in Lapsed(c))
            /\ id \in DOMAIN after.reclaimed <=> id \in DOMAIN before.reclaimed \cup Lapsed(c)
        BY <2>1, <3>2, <1>21
      <4>3. Lapsed(c) \cap DOMAIN before.reclaimed = {}
        BY <1>2, <1>8
      <4>4. charges'[id] = IF id \in DOMAIN after.reclaimed /\ Timeout = "commit" THEN 1 ELSE 0
        BY <4>1, <4>2, <4>3, <1>7, <1>14
      <4>5. QED
        BY <4>1, <4>2, <4>4, <1>1, <1>14 DEF SameHold
    <3>3. QED
      BY <3>1, <3>2
  <2>2. QED
    BY <1>2, <2>1 DEF Recorded, after
<1>23. \A id \in 1 .. MaxId :
         charges'[id] >= charges[id] \/ (id = s /\ Releases(c))
  BY <1>6, <1>7, <1>13, <1>18 DEF Releases
<1>24. \A id \in 1 .. MaxId : ~Holds(before, id) /\ ~(Settles(c) /\ id = s) =>
         charges'[id] = charges[id] /\ (id \in late' => id \in late)
  BY <1>1, <1>2, <1>3, <1>4, <1>6, <1>7, <1>12, <1>13
<1>25. ASSUME NEW id, Holds(before, id), ~Holds(after, id)
       PROVE  \/ charges'[id] > 0
              \/ id = s /\ Releases(c)
              \/ /\ Timeout = "release" /\ id \in Due(c, c.read) \ c.owed
                 /\ c.now >= SatAdd(Entry(before, id).expires_at, Ttl)
  <2>0. id \in 1 .. MaxId /\ charges[id] \in Nat
        /\ charges'[id] = charges[id] + (IF id \in paid THEN 1 ELSE 0)
                                      - (IF id \in refunded THEN 1 ELSE 0)
    BY <1>7, <1>13, <1>14, <1>25
  <2>1. CASE id = s /\ Settles(c)
    <3>1. CASE ~Committing(c)
      BY <2>1, <3>1, <1>6 DEF Releases, Settles
    <3>2. CASE Committing(c)
      <4>1. id \notin refunded
        BY <3>2, <1>18
      <4>2. CASE id \in paid
        BY <2>0, <4>1, <4>2
      <4>3. CASE id \notin paid
        <5>1. Applied(c) \notin {"committed", "late-committed", "released", "late-released",
                                 "refunded"}
          BY <2>1, <3>2, <4>3, <1>3, <1>5, <1>6
        <5>2. CASE Applied(c) = "already-charged"
          <6>1. Timeout = "commit" /\ id \in DOMAIN before.reclaimed
            BY <2>1, <4>3, <5>2, <1>3, <1>5
          <6>2. charges[id] = 1
            BY <6>1, <1>14, <1>25
          <6>3. QED
            BY <2>0, <4>1, <4>3, <6>2
        <5>3. CASE Applied(c) = "not-active"
          <6>1. ~(Settling(c) /\ Timeout = "release") /\ ~Holds(Touched(c), id)
            BY <2>1, <5>3, <1>5, <1>25
          <6>2. First(c) = {}
            BY <6>1 DEF First
          <6>3. CASE id \in c.owed
            <7>1. Timeout # "release" /\ id \in DOMAIN before.reclaimed
              BY <4>3, <6>3, <1>3, <1>12, <1>25
            <7>2. charges[id] = 1
              BY <7>1, <1>14, <1>25, TimeoutAssumption
            <7>3. QED
              BY <2>0, <4>1, <4>3, <7>2
          <6>4. CASE id \notin c.owed
            <7>1. /\ id \notin Gone(c)
                  /\ DOMAIN Touched(c).active = (DOMAIN before.active \ Gone(c)) \ Lapsed(c)
                  /\ DOMAIN Touched(c).reclaimed =
                       {i \in (DOMAIN before.reclaimed \ Gone(c)) \cup Lapsed(c) :
                          c.now < SatAdd(Entry(before, i).expires_at, Ttl)}
              BY <1>10, <6>2, <6>4, TouchedMaps DEF before
            <7>2. id \in DOMAIN before.reclaimed \cup Lapsed(c)
                  /\ ~(c.now < SatAdd(Entry(before, id).expires_at, Ttl))
              BY <6>1, <7>1, <1>12, <1>25 DEF Holds
            <7>3. CASE Timeout = "release"
              <8>1. c.task = "charge"
                BY <2>1, <6>1, <7>3 DEF Settles
              <8>2. QED
                BY <2>1, <4>3, <5>3, <8>1, <1>3, <1>6
            <7>4. CASE Timeout # "release"
              <8>1. id \in DOMAIN before.reclaimed
                BY <4>3, <7>2, <7>4, <1>3
              <8>2. charges[id] = 1
                BY <7>4, <8>1, <1>14, <1>25, TimeoutAssumption
              <8>3. QED
                BY <2>0, <4>1, <4>3, <8>2
            <7>5. QED
              BY <7>3, <7>4
          <6>5. QED
            BY <6>3, <6>4
        <5>4. QED
          BY <2>1, <5>1, <5>2, <5>3, <1>5
      <4>4. QED
        BY <4>2, <4>3
    <3>3. QED
      BY <3>1, <3>2
  <2>2. CASE ~(id = s /\ Settles(c))
    <3>1. id \notin First(c) /\ id \notin Last(c) /\ id \notin refunded
      BY <2>2, <1>6
    <3>2. CASE id \in paid
      BY <2>0, <3>1, <3>2
    <3>3. CASE id \notin paid /\ Timeout # "release"
      <4>1. id \in DOMAIN before.reclaimed
        <5>1. CASE id \in c.owed
          BY <3>3, <5>1, <1>3, <1>12, <1>25
        <5>2. CASE id \notin c.owed
          BY <3>1, <3>3, <5>2, <1>2, <1>3, <1>10, <1>12, <1>25
        <5>3. QED
          BY <5>1, <5>2
      <4>2. charges[id] = 1
        BY <3>3, <4>1, <1>14, <1>25, TimeoutAssumption
      <4>3. QED
        BY <2>0, <3>1, <3>3, <4>2
    <3>4. CASE id \notin paid /\ Timeout = "release"
      <4>1. id \notin c.owed
        BY <3>4, <1>3, <1>12, <1>25
      <4>2. id \notin Gone(c)
        BY <3>1, <4>1, <1>10
      <4>3. id \in DOMAIN before.reclaimed \cup Lapsed(c)
            /\ ~(c.now < SatAdd(Entry(before, id).expires_at, Ttl))
        BY <3>1, <4>2, <1>2, <1>12, <1>25
      <4>4. c.now >= SatAdd(Entry(before, id).expires_at, Ttl)
        BY <4>3, <1>17, <1>25
      <4>5. id \in Due(c, c.read)
        <5>1. CASE id \in Lapsed(c)
          BY <5>1, <3>1, <1>2, <1>15
        <5>2. CASE id \in DOMAIN before.reclaimed
          <6>1. Entry(before, id) = before.reclaimed[id]
            BY <5>2, <1>8 DEF Entry
          <6>2. QED
            BY <5>2, <6>1, <4>4, <3>1, <1>15
        <5>3. QED
          BY <4>3, <5>1, <5>2
      <4>6. QED
        BY <3>4, <4>1, <4>4, <4>5
    <3>5. QED
      BY <3>2, <3>3, <3>4
  <2>3. QED
    BY <2>1, <2>2
<1>26. ASSUME NEW id \in DOMAIN before.active
       PROVE  \/ id \in DOMAIN after.active
              \/ Settles(c) /\ id = s
              \/ c.now >= before.active[id].expires_at
  <2>1. CASE id \in c.owed
    BY <2>1, <1>8, <1>15, <1>16
  <2>2. CASE id \notin c.owed
    BY <2>2, <1>2, <1>6, <1>10
  <2>3. QED
    BY <2>1, <2>2
<1>27. Settles(c) => ~Holds(after, s)
  BY <1>2, <1>5, <1>10, <1>11, <1>12
<1>28. /\ Settles(c) /\ Committing(c)
       /\ c.task = "charge" \/ (Timeout = "release" /\ Applied(c) # "not-active")
       => charges'[s] > 0
  <2> SUFFICES ASSUME Settles(c), Committing(c),
                      c.task = "charge" \/ (Timeout = "release" /\ Applied(c) # "not-active")
               PROVE  charges'[s] > 0
    OBVIOUS
  <2>1. s \in 1 .. MaxId /\ s \notin refunded /\ charges[s] \in Nat
    BY <1>11, <1>13, <1>18
  <2>2. CASE s \in paid
    BY <2>1, <2>2, <1>7
  <2>3. CASE s \notin paid
    <3>1. c.task = "charge" /\ Applied(c) = "already-charged"
      BY <2>3, <1>3, <1>5, <1>6
    <3>2. Timeout = "commit" /\ s \in DOMAIN before.reclaimed
      BY <2>3, <3>1, <1>3, <1>5
    <3>3. charges[s] = 1
      BY <3>2, <1>12, <1>14
    <3>4. QED
      BY <2>1, <2>3, <3>3, <1>7
  <2>4. QED
    BY <2>2, <2>3
<1>29. \A id : Holds(after, id) => Holds(before, id) \/ id \in New(c)
  BY <1>2
<1>30. \A id \in New(c) : /\ id \in DOMAIN after.active
                          /\ after.active[id].contribution = c.units
                          /\ after.active[id].expires_at = SatAdd(c.now, Ttl)
  BY <1>2
<1>31. QED
  BY <1>20, <1>22, <1>23, <1>24, <1>25, <1>26, <1>27, <1>28, <1>29, <1>30 DEF before, after, s

-----------------------------------------------------------------------------
(* Budgets: what the record holds and the reservations kept as charged fit *)
(* one budget, and the record has committed what those cost.               *)
Costed(res) ==
  IsFiniteSet(DOMAIN res) /\ \A id \in DOMAIN res : res[id].contribution \in 1 .. MaxUnits

Agrees(state, res) ==
  \A id : Holds(state, id) /\ id \in DOMAIN res =>
    Entry(state, id).contribution = res[id].contribution

Fits(state, res, kept) ==
  /\ kept \in SUBSET DOMAIN res
  /\ state.reserved + Units(res, kept) <= Budget
  /\ Units(res, kept) <= state.committed

LEMMA BudgetBounds == Budget \in Nat /\ U64Max \in Nat /\ Budget < U64Max
<1>1. MaxHeld \in Nat \ {0} /\ MaxUnits \in Nat \ {0} /\ U64Max \in Nat
      /\ MaxHeld * MaxUnits < U64Max
  BY HeldAssumption, WidthAssumption
<1>2. PICK d \in Nat : MaxHeld = 1 + d
  <2>1. MaxHeld - 1 \in Nat /\ MaxHeld = 1 + (MaxHeld - 1)
    BY <1>1
  <2>2. QED
    BY <2>1
<1>3. MaxHeld * MaxUnits = MaxUnits + d * MaxUnits /\ d * MaxUnits \in Nat
  BY <1>1, <1>2
<1>4. MaxUnits < U64Max
  BY <1>1, <1>3
<1>5. QED
  BY <1>1, <1>4, BudgetAssumption

LEMMA CostedSums ==
  ASSUME NEW res, Costed(res), NEW S \in SUBSET DOMAIN res
  PROVE  Summable(res, S) /\ Units(res, S) \in Nat
<1>1. IsFiniteSet(S)
  BY FS_Subset DEF Costed
<1>2. \A id \in S : res[id].contribution \in Nat
  BY WidthAssumption DEF Costed
<1>3. Summable(res, S)
  BY <1>1, <1>2 DEF Summable
<1>4. QED
  BY <1>3, UnitsNat

LEMMA CostedLess ==
  ASSUME NEW res, Costed(res), NEW S \in SUBSET DOMAIN res, NEW R \in SUBSET S
  PROVE  Units(res, R) <= Units(res, S)
<1>1. R \in SUBSET DOMAIN res /\ S \ R \in SUBSET DOMAIN res
  OBVIOUS
<1>2. Units(res, R) \in Nat /\ Units(res, S \ R) \in Nat /\ Summable(res, S)
  BY <1>1, CostedSums
<1>3. Units(res, S) = Units(res, R) + Units(res, S \ R)
  BY <1>2, UnitsSplit
<1>4. QED
  BY <1>2, <1>3

LEMMA FitsLess ==
  ASSUME NEW ids, IsFiniteSet(ids), NEW state, Sound(state, ids), NEW res, Costed(res),
         NEW kept, Fits(state, res, kept), NEW less \in SUBSET kept
  PROVE  Fits(state, res, less)
<1>1. kept \in SUBSET DOMAIN res /\ less \in SUBSET DOMAIN res
  BY DEF Fits
<1>2. Units(res, kept) \in Nat /\ Units(res, less) \in Nat /\ Units(res, less) <= Units(res, kept)
  BY <1>1, CostedSums, CostedLess
<1>3. state.reserved \in Nat /\ state.committed \in Nat
  BY SoundSums DEF Sound
<1>4. QED
  BY <1>1, <1>2, <1>3, BudgetBounds DEF Fits

(* Holding less, and committing no less.                                   *)
LEMMA FitsKeep ==
  ASSUME NEW ids, IsFiniteSet(ids), NEW state, Sound(state, ids), NEW res, Costed(res),
         NEW kept, Fits(state, res, kept), NEW after, Sound(after, ids),
         after.reserved <= state.reserved,
         \/ after.committed = state.committed
         \/ \E u \in Nat : after.committed = SatAdd(state.committed, u)
  PROVE  Fits(after, res, kept)
<1> DEFINE v == Units(res, kept)
<1>1. v \in Nat /\ kept \in SUBSET DOMAIN res
  BY CostedSums DEF Fits
<1>2. /\ state.reserved \in Nat /\ after.reserved \in Nat
      /\ state.committed \in Nat /\ after.committed \in Nat
  BY SoundSums DEF Sound
<1>3. state.reserved + v <= Budget /\ v <= state.committed
  BY DEF Fits
<1> HIDE DEF v
<1>4. after.reserved + v <= Budget
  BY <1>1, <1>2, <1>3, BudgetBounds
<1>5. v <= after.committed
  <2>1. CASE after.committed = state.committed
    BY <2>1, <1>3
  <2>2. CASE \E u \in Nat : after.committed = SatAdd(state.committed, u)
    <3>1. PICK u \in Nat : after.committed = SatAdd(state.committed, u)
      BY <2>2
    <3>2. \/ SatAdd(state.committed, u) = state.committed + u
          \/ SatAdd(state.committed, u) = U64Max
      BY DEF SatAdd
    <3>3. v < U64Max
      BY <1>1, <1>2, <1>3, BudgetBounds
    <3>4. QED
      BY <1>1, <1>2, <1>3, <3>1, <3>2, <3>3, BudgetBounds
  <2>3. QED
    BY <2>1, <2>2
<1>6. QED
  BY <1>1, <1>4, <1>5 DEF Fits, v

(* What leaves the active entries leaves the reserved total.               *)
LEMMA ReservedSplit ==
  ASSUME NEW ids, IsFiniteSet(ids), NEW state, Sound(state, ids), NEW after, Sound(after, ids),
         NEW out \in SUBSET DOMAIN state.active,
         DOMAIN after.active = DOMAIN state.active \ out,
         \A id \in DOMAIN after.active : after.active[id] = state.active[id]
  PROVE  /\ state.reserved = Units(state.active, out) + after.reserved
         /\ Units(state.active, out) \in Nat
         /\ state.reserved \in Nat /\ after.reserved \in Nat
<1> DEFINE D == DOMAIN state.active
<1>1. D \in SUBSET D /\ D \ out \in SUBSET D
  OBVIOUS
<1>2. Summable(state.active, D) /\ Summable(state.active, out) /\ Summable(state.active, D \ out)
  BY <1>1, SoundSums
<1>3. Units(state.active, D) = Units(state.active, out) + Units(state.active, D \ out)
  BY <1>2, UnitsSplit
<1>4. Units(after.active, D \ out) = Units(state.active, D \ out)
  BY <1>2, UnitsSame
<1>5. state.reserved = Units(state.active, D) /\ after.reserved = Units(after.active, D \ out)
  BY DEF Sound
<1>6. Units(state.active, out) \in Nat /\ state.reserved \in Nat /\ after.reserved \in Nat
  BY <1>2, UnitsNat, SoundSums
<1>7. QED
  BY <1>3, <1>4, <1>5, <1>6

(* Active entries charged: what they held is now committed.                *)
LEMMA FitsCharged ==
  ASSUME NEW ids, IsFiniteSet(ids), NEW state, Sound(state, ids), NEW after, Sound(after, ids),
         NEW res, Costed(res), Agrees(state, res), NEW kept, Fits(state, res, kept),
         NEW out \in SUBSET DOMAIN state.active,
         DOMAIN after.active = DOMAIN state.active \ out,
         \A id \in DOMAIN after.active : after.active[id] = state.active[id],
         after.committed = SatAdd(state.committed, Units(state.active, out))
  PROVE  Fits(after, res, kept \cup (out \cap DOMAIN res))
<1> DEFINE more == (out \cap DOMAIN res) \ kept
           all == kept \cup (out \cap DOMAIN res)
           u == Units(state.active, out)
           v == Units(res, kept)
           m == Units(res, more)
<1>1. kept \in SUBSET DOMAIN res /\ more \in SUBSET DOMAIN res /\ all \in SUBSET DOMAIN res
      /\ more \in SUBSET out /\ kept \in SUBSET all /\ all \ kept = more
  BY DEF Fits
<1>2. v \in Nat /\ m \in Nat /\ Summable(res, all) /\ Summable(res, more)
  BY <1>1, CostedSums
<1>3. Units(res, all) = v + m
  BY <1>1, <1>2, UnitsSplit
<1>4. u \in Nat /\ state.reserved = u + after.reserved
      /\ state.reserved \in Nat /\ after.reserved \in Nat
  BY ReservedSplit
<1>5. m <= u
  <2>1. out \in SUBSET DOMAIN state.active /\ more \in SUBSET DOMAIN state.active
        /\ out \ more \in SUBSET DOMAIN state.active
    BY <1>1
  <2>2. /\ Summable(state.active, out) /\ Summable(state.active, more)
        /\ Summable(state.active, out \ more)
    BY <2>1, SoundSums
  <2>3. u = Units(state.active, more) + Units(state.active, out \ more)
    BY <1>1, <2>2, UnitsSplit
  <2>4. \A id \in more : res[id].contribution = state.active[id].contribution
    BY <1>1, <2>1 DEF Agrees, Holds, Entry
  <2>5. m = Units(state.active, more)
    BY <2>2, <2>4, UnitsSame
  <2>6. Units(state.active, out \ more) \in Nat
    BY <2>2, UnitsNat
  <2> HIDE DEF more, all, u, v, m
  <2>7. QED
    BY <1>2, <2>3, <2>5, <2>6
<1>6. state.reserved + v <= Budget /\ v <= state.committed
  BY DEF Fits
<1>7. state.committed \in Nat /\ after.committed = SatAdd(state.committed, u)
  BY DEF Sound
<1> HIDE DEF more, all, u, v, m
<1>8. after.reserved + (v + m) <= Budget
  BY <1>2, <1>4, <1>5, <1>6, BudgetBounds
<1>9. v + m <= after.committed
  <2>1. v + m <= U64Max
    BY <1>2, <1>4, <1>8, BudgetBounds
  <2>2. v + m <= state.committed + u
    BY <1>2, <1>4, <1>5, <1>6, <1>7
  <2>3. after.committed = state.committed + u \/ after.committed = U64Max
    BY <1>7 DEF SatAdd
  <2>4. QED
    BY <2>1, <2>2, <2>3
<1>10. Fits(after, res, all)
  BY <1>1, <1>3, <1>8, <1>9 DEF Fits
<1>11. QED
  BY <1>10 DEF all

LEMMA FitsSettle ==
  ASSUME NEW ids, IsFiniteSet(ids), NEW state, Sound(state, ids), NEW res, Costed(res),
         Agrees(state, res), NEW kept, Fits(state, res, kept), NEW id, NEW commit \in BOOLEAN,
         Outcome(state, id, commit) # "refunded"
  PROVE  Fits(Settle(state, id, commit), res,
              IF Outcome(state, id, commit) = "committed"
              THEN kept \cup ({id} \cap DOMAIN res) ELSE kept)
<1> DEFINE after == Settle(state, id, commit)
           outcome == Outcome(state, id, commit)
           units == Entry(state, id).contribution
<1>1. Sound(after, ids) /\ after.reserved <= state.reserved /\ Lacks(after, state, {id})
  BY SettleSound, SettleLacks
<1>2. /\ outcome \in {"committed", "late-committed"} =>
           Holds(state, id) /\ after.committed = SatAdd(state.committed, units)
      /\ outcome = "committed" => id \in DOMAIN state.active
      /\ outcome \notin {"committed", "late-committed", "refunded"} =>
           after.committed = state.committed
  BY SettleEntries
<1>3. Holds(state, id) => units \in Nat
  BY WidthAssumption DEF Holds, Entry, Sound, SoundMaps, Held
<1> HIDE DEF after, outcome, units
<1>4. CASE outcome = "committed"
  <2>1. id \in DOMAIN state.active /\ after.committed = SatAdd(state.committed, units)
    BY <1>2, <1>4
  <2>2. Units(state.active, {id}) = units
    <3>1. {id} \in SUBSET DOMAIN state.active /\ {id} \ {id} = {}
      BY <2>1
    <3>2. Summable(state.active, {id})
      BY <3>1, SoundSums
    <3>3. Units(state.active, {id}) = state.active[id].contribution + Units(state.active, {})
      BY <3>1, <3>2, UnitsRemove
    <3>4. units = state.active[id].contribution /\ units \in Nat
      BY <2>1, <1>3 DEF Entry, Holds, units
    <3>5. QED
      BY <3>3, <3>4, UnitsEmpty
  <2>3. Fits(after, res, kept \cup ({id} \cap DOMAIN res))
    <3>1. {id} \in SUBSET DOMAIN state.active
      BY <2>1
    <3>2. DOMAIN after.active = DOMAIN state.active \ {id}
          /\ \A i \in DOMAIN after.active : after.active[i] = state.active[i]
      BY <1>1 DEF Lacks
    <3>3. after.committed = SatAdd(state.committed, Units(state.active, {id}))
      BY <2>1, <2>2
    <3>4. QED
      BY <3>1, <3>2, <3>3, <1>1, FitsCharged
  <2>4. QED
    BY <1>4, <2>3 DEF after, outcome
<1>5. CASE outcome # "committed"
  <2>1. after.committed = state.committed
        \/ \E u \in Nat : after.committed = SatAdd(state.committed, u)
    BY <1>2, <1>3, <1>5 DEF outcome
  <2>2. Fits(after, res, kept)
    BY <2>1, <1>1, FitsKeep
  <2>3. QED
    BY <1>5, <2>2 DEF after, outcome
<1>6. QED
  BY <1>4, <1>5

(* A refund takes back what was charged.                                   *)
LEMMA FitsRefund ==
  ASSUME NEW ids, IsFiniteSet(ids), NEW state, Sound(state, ids), NEW res, Costed(res),
         Agrees(state, res), NEW kept, Fits(state, res, kept), NEW id \in kept,
         NEW commit \in BOOLEAN, Outcome(state, id, commit) = "refunded"
  PROVE  Fits(Settle(state, id, commit), res, kept \ {id})
<1> DEFINE after == Settle(state, id, commit)
           units == Entry(state, id).contribution
           v == Units(res, kept)
           w == Units(res, kept \ {id})
<1>1. Sound(after, ids) /\ after.reserved <= state.reserved
  BY SettleSound
<1>2. Holds(state, id) /\ after.committed = SatSub(state.committed, units)
  BY SettleEntries
<1>3. kept \in SUBSET DOMAIN res /\ kept \ {id} \in SUBSET DOMAIN res
      /\ id \in DOMAIN res
  BY DEF Fits
<1>4. Summable(res, kept) /\ v \in Nat /\ w \in Nat
  BY <1>3, CostedSums
<1>5. v = units + w
  <2>1. v = res[id].contribution + w
    BY <1>4, UnitsRemove
  <2>2. units = res[id].contribution
    BY <1>2, <1>3 DEF Agrees
  <2>3. QED
    BY <2>1, <2>2
<1>6. units \in Nat
  BY <1>2, WidthAssumption DEF Holds, Entry, Sound, SoundMaps, Held
<1>7. state.reserved + v <= Budget /\ v <= state.committed
  BY DEF Fits
<1>8. state.reserved \in Nat /\ after.reserved \in Nat /\ state.committed \in Nat
  BY <1>1, SoundSums DEF Sound
<1> HIDE DEF after, units, v, w
<1>9. after.committed = state.committed - units
  <2>1. units <= state.committed
    BY <1>4, <1>5, <1>6, <1>7, <1>8
  <2>2. SatSub(state.committed, units) = state.committed - units
    BY <2>1, <1>6, <1>8, SatSubFacts
  <2>3. QED
    BY <2>2, <1>2
<1>10. after.reserved + w <= Budget /\ w <= after.committed
  BY <1>1, <1>4, <1>5, <1>6, <1>7, <1>8, <1>9, BudgetBounds
<1>11. QED
  BY <1>3, <1>10 DEF Fits, after, w

LEMMA FitsReclaim ==
  ASSUME NEW ids, IsFiniteSet(ids), NEW state, Sound(state, ids), NEW res, Costed(res),
         Agrees(state, res), NEW kept, Fits(state, res, kept), NEW now \in Nat
  PROVE  Fits(Reclaim(state, now), res,
              IF Timeout = "commit" THEN kept \cup (Expired(state, now) \cap DOMAIN res) ELSE kept)
<1> DEFINE after == Reclaim(state, now)
           expired == Expired(state, now)
<1>1. Sound(after, ids) /\ after.reserved <= state.reserved
  BY ReclaimSound
<1>2. /\ expired \in SUBSET DOMAIN state.active
      /\ after.committed = (IF Timeout = "commit"
                            THEN SatAdd(state.committed, Units(state.active, expired))
                            ELSE state.committed)
      /\ DOMAIN after.active = DOMAIN state.active \ expired
      /\ \A id \in DOMAIN after.active : after.active[id] = state.active[id]
  BY ReclaimEntries
<1> HIDE DEF after, expired
<1>3. CASE Timeout = "commit"
  <2>1. Fits(after, res, kept \cup (expired \cap DOMAIN res))
    BY <1>1, <1>2, <1>3, FitsCharged
  <2>2. QED
    BY <1>3, <2>1 DEF after, expired
<1>4. CASE Timeout # "commit"
  <2>1. Fits(after, res, kept)
    BY <1>1, <1>2, <1>4, FitsKeep
  <2>2. QED
    BY <1>4, <2>1 DEF after
<1>5. QED
  BY <1>3, <1>4

LEMMA LacksAgrees ==
  ASSUME NEW ids, NEW state, Sound(state, ids), NEW after, NEW S, Lacks(after, state, S),
         NEW res, Agrees(state, res)
  PROVE  Agrees(after, res)
BY DEF Lacks, Agrees, Holds, Entry, Sound, SoundMaps

LEMMA FitsChargeAll ==
  ASSUME NEW ids, IsFiniteSet(ids), NEW state, Sound(state, ids), NEW res, Costed(res),
         Agrees(state, res), NEW kept, Fits(state, res, kept), NEW S, IsFiniteSet(S)
  PROVE  Fits(ChargeAll(state, S), res, kept \cup (S \cap DOMAIN state.active \cap DOMAIN res))
<1>1. PICK f : /\ \A s \in SUBSET S : f[s] = ChargeOne(state, f, s)
               /\ ChargeAll(state, S) = f[S]
  BY ChargeAllUnfolds
<1> DEFINE All(s) == kept \cup (s \cap DOMAIN state.active \cap DOMAIN res)
           Done(s) == Sound(f[s], ids) /\ Lacks(f[s], state, s) /\ Fits(f[s], res, All(s))
           T == {n \in Nat : \A s \in SUBSET S : Cardinality(s) = n => Done(s)}
<1>2. 0 \in T
  <2>1. \A s \in SUBSET S : Cardinality(s) = 0 => s = {}
    BY SubsetCardinality
  <2>2. f[{}] = state /\ All({}) = kept
    BY <1>1 DEF ChargeOne
  <2>3. Done({})
    BY <2>2, LacksNone
  <2> HIDE DEF Done
  <2>4. QED
    BY <2>1, <2>3
<1>3. ASSUME NEW n \in T PROVE n + 1 \in T
  <2>1. ASSUME NEW s \in SUBSET S, Cardinality(s) = n + 1 PROVE Done(s)
    <3> DEFINE x == Pick(s)
               r == s \ {x}
    <3>1. n \in Nat /\ s # {}
      BY <1>3, <2>1, SubsetCardinality
    <3>2. x \in s /\ r \in SUBSET S /\ r \cup {x} = s
      BY <3>1, PickIn
    <3>3. Cardinality(r) = n
      <4>1. Cardinality(r) = Cardinality(s) - 1
        BY <3>2, SubsetCardinality
      <4>2. QED
        BY <4>1, <3>1, <2>1
    <3>4. Done(r)
      BY <1>3, <3>2, <3>3
    <3>5. f[s] = Settle(f[r], x, TRUE)
      BY <1>1, <3>1 DEF ChargeOne
    <3> HIDE DEF x
    <3>6. Sound(f[s], ids) /\ Lacks(f[s], f[r], {x})
      BY <3>4, <3>5, SettleLacks
    <3>7. Lacks(f[s], state, r \cup {x})
      BY <3>4, <3>6, LacksMore
    <3>8. Agrees(f[r], res)
      BY <3>4, LacksAgrees
    <3>9. /\ Outcome(f[r], x, TRUE) # "refunded"
          /\ Outcome(f[r], x, TRUE) = "committed" <=> x \in DOMAIN f[r].active
      BY <3>4, OutcomeFacts
    <3>10. x \in DOMAIN f[r].active <=> x \in DOMAIN state.active
      BY <3>4 DEF Lacks
    <3> DEFINE more == IF Outcome(f[r], x, TRUE) = "committed"
                       THEN All(r) \cup ({x} \cap DOMAIN res) ELSE All(r)
    <3>11. Fits(f[s], res, more)
      <4> HIDE DEF All, r
      <4>1. Fits(f[r], res, All(r)) /\ Sound(f[r], ids)
        BY <3>4
      <4>2. Fits(Settle(f[r], x, TRUE), res, more)
        BY <4>1, <3>8, <3>9, FitsSettle
      <4>3. QED
        BY <4>2, <3>5
    <3>12. more = All(s)
      BY <3>2, <3>9, <3>10
    <3>13. QED
      BY <3>2, <3>6, <3>7, <3>11, <3>12
  <2>2. n + 1 \in Nat
    BY <1>3
  <2> HIDE DEF Done
  <2>3. QED
    BY <2>1, <2>2
<1>4. T = Nat
  <2>1. T \subseteq Nat
    OBVIOUS
  <2> HIDE DEF T
  <2>2. QED
    BY <1>2, <1>3, <2>1, NatSetInduction
<1>5. S \in SUBSET S /\ Cardinality(S) \in Nat
  BY FS_CardinalityType
<1>6. Done(S)
  <2>1. Cardinality(S) \in T
    BY <1>4, <1>5
  <2> HIDE DEF Done
  <2>2. QED
    BY <2>1, <1>5
<1>7. QED
  BY <1>1, <1>6

(* What the budget check lets through fits: it never saturates.            *)
LEMMA FitsHold ==
  ASSUME NEW ids, IsFiniteSet(ids), NEW state, Sound(state, ids), NEW res, Costed(res),
         NEW kept, Fits(state, res, kept), NEW id \in ids, ~Holds(state, id),
         NEW units \in 1 .. MaxUnits, NEW now \in Nat,
         ~Saturated(state), ~OverBudget(state, units, Budget)
  PROVE  Fits(Hold(state, id, units, now), res, kept)
<1> DEFINE after == Hold(state, id, units, now)
           v == Units(res, kept)
<1>1. units \in 0 .. MaxUnits /\ units \in Nat
  BY WidthAssumption
<1>2. after.committed = state.committed /\ after.reserved = state.reserved + units
  BY <1>1, HoldSound
<1>3. state.reserved \in Nat /\ state.committed \in Nat
  BY SoundSums DEF Sound
<1>4. kept \in SUBSET DOMAIN res /\ v \in Nat /\ v <= state.committed
  BY CostedSums DEF Fits
<1>5. ~(SatAdd(SatAdd(state.committed, state.reserved), units) > Budget)
  BY DEF OverBudget, Total
<1> HIDE DEF after, v
<1>6. state.committed + state.reserved + units <= Budget
  <2>1. SatAdd(state.committed, state.reserved) = state.committed + state.reserved
        \/ SatAdd(state.committed, state.reserved) = U64Max
    BY DEF SatAdd
  <2>2. SatAdd(SatAdd(state.committed, state.reserved), units)
          = SatAdd(state.committed, state.reserved) + units
        \/ SatAdd(SatAdd(state.committed, state.reserved), units) = U64Max
    BY DEF SatAdd
  <2>3. SatAdd(state.committed, state.reserved) \in Nat
    BY <1>3, SatAddFacts
  <2>4. SatAdd(SatAdd(state.committed, state.reserved), units) \in Nat
    BY <2>3, <1>1, SatAddFacts
  <2>5. SatAdd(SatAdd(state.committed, state.reserved), units) # U64Max
    BY <2>4, <1>5, BudgetBounds
  <2>6. SatAdd(state.committed, state.reserved) + units <= Budget
    BY <2>2, <2>4, <2>5, <1>5, BudgetBounds
  <2>7. SatAdd(state.committed, state.reserved) # U64Max
    BY <2>3, <2>6, <1>1, BudgetBounds
  <2>8. QED
    BY <2>1, <2>6, <2>7
<1>7. after.reserved + v <= Budget /\ v <= after.committed
  BY <1>1, <1>2, <1>3, <1>4, <1>6, BudgetBounds
<1>8. QED
  BY <1>4, <1>7 DEF Fits, after, v

(* The reservations charged, other than those charged late.                *)
KeptOf(res, chg, lt) == {id \in DOMAIN res \ lt : chg[id] > 0}

LEMMA LandFits ==
  ASSUME NEW c, NEW ids, ids \subseteq 1 .. MaxId,
         Ready(c, ids), Grantable(c, ids), Chargeable(c),
         c.read = record, Recorded(record, ids, reservations, charges, late),
         charges \in [1 .. MaxId -> Nat], DOMAIN reservations \subseteq ids,
         Lawful(c, reservations, charges, late), Land(c),
         Mode = "block", Window = 0, Costed(reservations),
         Fits(Base(record), reservations, KeptOf(reservations, charges, late))
  PROVE  Fits(Base(record'), reservations, KeptOf(reservations, charges', late'))
<1> DEFINE base == Base(record)
           unclaimed == Unclaimed(c, c.read)
           reconciled == Reconciled(c)
           touched == Touched(c)
           new == Updated(c)
           s == Subject(c)
           res == reservations
           kept == KeptOf(reservations, charges, late)
           first == IF Settling(c) /\ Timeout = "release" /\ Applied(c) = "committed"
                    THEN {s} \cap DOMAIN res ELSE {}
           last == IF Last(c) # {} /\ Applied(c) = "committed"
                   THEN {s} \cap DOMAIN res ELSE {}
           k1 == kept \cup first
           k2 == k1 \cup (c.owed \cap DOMAIN base.active \cap DOMAIN res)
           k3 == IF Timeout = "commit" THEN k2 \cup (Lapsed(c) \cap DOMAIN res) ELSE k2
           k4 == IF Last(c) # {} /\ Applied(c) = "refunded" THEN k3 \ {s} ELSE k3 \cup last
<1>1. /\ IsFiniteSet(ids) /\ c.now \in Nat /\ Sound(base, ids) /\ Agrees(base, res)
      /\ Fits(base, res, kept) /\ Committing(c) \in BOOLEAN
  BY BaseSound, CommittingBoolean DEF Ready, Recorded, Agrees, SameHold
<1>2. Roll(base, Period(c.now)) = base
  <2>1. Period(c.now) = 0 /\ base.period \in Nat
    BY <1>1 DEF Period, Sound
  <2>2. QED
    BY <2>1 DEF Roll
<1>3. Sound(unclaimed, ids) /\ Lacks(unclaimed, base, First(c))
  BY UnclaimedMaps DEF Ready
<1>4. Agrees(unclaimed, res)
  BY <1>1, <1>3, LacksAgrees
<1>5. Fits(unclaimed, res, k1)
  <2>1. CASE Settling(c) /\ Timeout = "release"
    <3>1. /\ unclaimed = Settle(base, s, Committing(c))
          /\ Applied(c) = Outcome(base, s, Committing(c))
      BY <1>2, <2>1 DEF Unclaimed, Applied
    <3> HIDE DEF base, unclaimed, s, res, kept
    <3>2. Outcome(base, s, Committing(c)) # "refunded"
      BY <1>1, <2>1, OutcomeFacts
    <3>3. Fits(unclaimed, res, IF Outcome(base, s, Committing(c)) = "committed"
                               THEN kept \cup ({s} \cap DOMAIN res) ELSE kept)
      BY <1>1, <3>1, <3>2, FitsSettle DEF res
    <3>4. k1 = IF Outcome(base, s, Committing(c)) = "committed"
               THEN kept \cup ({s} \cap DOMAIN res) ELSE kept
      BY <2>1, <3>1
    <3>5. QED
      BY <3>3, <3>4
  <2>2. CASE ~(Settling(c) /\ Timeout = "release")
    <3>1. unclaimed = base
      BY <1>2, <2>2 DEF Unclaimed
    <3>2. k1 = kept
      BY <2>2
    <3>3. QED
      BY <1>1, <3>1, <3>2
  <2>3. QED
    BY <2>1, <2>2
<1>6. Sound(reconciled, ids) /\ Lacks(reconciled, base, Gone(c))
  BY ReconciledMaps
<1>7. Agrees(reconciled, res)
  BY <1>1, <1>6, LacksAgrees
<1>8. Fits(reconciled, res, k2)
  <2>1. reconciled = ChargeAll(unclaimed, c.owed)
    BY ReconciledIs
  <2>2. IsFiniteSet(c.owed)
    BY DueIs, FS_Subset DEF Ready
  <2>3. c.owed \cap First(c) = {}
    BY OwedCharges
  <2> HIDE DEF base, unclaimed, reconciled, k1, res
  <2>4. Fits(ChargeAll(unclaimed, c.owed), res,
             k1 \cup (c.owed \cap DOMAIN unclaimed.active \cap DOMAIN res))
    BY <1>1, <1>3, <1>4, <1>5, <2>2, FitsChargeAll DEF res
  <2>5. c.owed \cap DOMAIN unclaimed.active = c.owed \cap DOMAIN base.active
    BY <1>3, <2>3 DEF Lacks
  <2>6. QED
    BY <2>1, <2>4, <2>5
<1>9. Sound(touched, ids) /\ Agrees(touched, res)
  <2>1. Sound(touched, ids)
    BY TouchedMaps
  <2>2. Shrinks(touched, reconciled)
    BY <1>1, <1>6, ReclaimSound DEF Touched
  <2> HIDE DEF touched, reconciled
  <2>3. QED
    BY <2>1, <2>2, <1>7 DEF Agrees, Shrinks
<1>10. Fits(touched, res, k3)
  <2>1. touched = Reclaim(reconciled, c.now) /\ Lapsed(c) = Expired(reconciled, c.now)
    BY DEF Touched, Lapsed
  <2> HIDE DEF touched, reconciled, k2, res
  <2>2. Fits(Reclaim(reconciled, c.now), res,
             IF Timeout = "commit" THEN k2 \cup (Expired(reconciled, c.now) \cap DOMAIN res)
             ELSE k2)
    BY <1>1, <1>6, <1>7, <1>8, FitsReclaim DEF res
  <2>3. QED
    BY <2>1, <2>2
<1>11. /\ Sound(new, ids)
       /\ c.task = "reserve" => c.id \in ids /\ ~Holds(base, c.id) /\ c.units \in 1 .. MaxUnits
  BY UpdatedMaps DEF Grantable
<1>12. Fits(new, res, k4)
  <2>1. CASE new = touched /\ Last(c) = {}
    BY <1>10, <2>1
  <2>2. CASE Last(c) = {s} /\ Applied(c) = Outcome(touched, s, Committing(c))
             /\ new = Settle(touched, s, Committing(c))
    <3>1. CASE Applied(c) = "refunded"
      <4>1. Settles(c) /\ s \in DOMAIN res
        <5>1. Settles(c)
          BY <2>2 DEF Last, Settles
        <5>2. QED
          BY <5>1 DEF Lawful
      <4>2. Timeout = "commit" /\ s \in DOMAIN base.reclaimed \cup Lapsed(c)
        BY <3>1, <4>1, AppliedFacts
      <4>3. s \in k3
        <5>1. CASE s \in Lapsed(c)
          BY <4>1, <4>2, <5>1
        <5>2. CASE s \in DOMAIN base.reclaimed
          <6>1. s \notin late /\ charges[s] = 1
            BY <4>2, <5>2 DEF Recorded, Holds
          <6>2. s \in kept
            BY <4>1, <6>1 DEF KeptOf
          <6>3. QED
            BY <4>2, <6>2
        <5>3. QED
          BY <4>2, <5>1, <5>2
      <4> HIDE DEF touched, new, s, res, k3
      <4>4. Fits(Settle(touched, s, Committing(c)), res, k3 \ {s})
        BY <1>1, <1>9, <1>10, <2>2, <3>1, <4>3, FitsRefund DEF res
      <4>5. QED
        BY <2>2, <3>1, <4>4
    <3>2. CASE Applied(c) # "refunded"
      <4> HIDE DEF touched, new, s, res, k3
      <4>1. Fits(Settle(touched, s, Committing(c)), res,
                 IF Outcome(touched, s, Committing(c)) = "committed"
                 THEN k3 \cup ({s} \cap DOMAIN res) ELSE k3)
        BY <1>1, <1>9, <1>10, <2>2, <3>2, FitsSettle DEF res
      <4>2. k4 = IF Outcome(touched, s, Committing(c)) = "committed"
                 THEN k3 \cup ({s} \cap DOMAIN res) ELSE k3
        BY <2>2, <3>2
      <4>3. QED
        BY <2>2, <4>1, <4>2
    <3>3. QED
      BY <3>1, <3>2
  <2>3. CASE c.task = "reserve"
    <3>1. Last(c) = {}
      BY <2>3 DEF Last, Settling
    <3>2. CASE RefusedOnRecord(c)
      <4>1. new = touched
        BY <2>3, <3>2 DEF Updated, Settling
      <4>2. QED
        BY <2>1, <3>1, <4>1
    <3>3. CASE ~RefusedOnRecord(c)
      <4>1. new = Hold(touched, c.id, c.units, c.now)
        BY <2>3, <3>3 DEF Updated, Settling
      <4>2. ~Saturated(touched) /\ ~OverBudget(touched, c.units, Budget)
        BY <3>3 DEF RefusedOnRecord
      <4>3. ~Holds(touched, c.id)
        BY <1>11, <2>3, TouchedMaps DEF Holds
      <4>4. k4 = k3
        BY <3>1
      <4> HIDE DEF touched, new, res, k3
      <4>5. Fits(Hold(touched, c.id, c.units, c.now), res, k3)
        BY <1>1, <1>9, <1>10, <1>11, <2>3, <4>2, <4>3, FitsHold DEF res
      <4>6. QED
        BY <4>1, <4>4, <4>5
    <3>4. QED
      BY <3>2, <3>3
  <2>4. CASE c.task = "charge"
    <3>1. Last(c) = {s} /\ Committing(c) /\ ~Settling(c)
      BY <2>4 DEF Last, Ready, Settling
    <3>2. Applied(c) = Outcome(touched, s, Committing(c))
      BY <3>1 DEF Applied
    <3>3. CASE Applied(c) # "not-active"
      <4>1. new = Settle(touched, s, Committing(c))
        BY <2>4, <3>1, <3>3 DEF Updated, Charge, Settling
      <4>2. QED
        BY <2>2, <3>1, <3>2, <4>1
    <3>4. CASE Applied(c) = "not-active"
      <4> DEFINE units == reservations[Subject(c)].contribution
      <4>1. new = [touched EXCEPT !.committed = SatAdd(@, units)] /\ units \in Nat
        BY <2>4, <3>4 DEF Updated, Charge, Settling, Chargeable
      <4>2. k4 = k3
        BY <3>4
      <4> HIDE DEF touched, new, units, res, k3
      <4>3. new.committed = SatAdd(touched.committed, units) /\ new.reserved = touched.reserved
        BY <1>9, <4>1 DEF Sound
      <4>4. touched.reserved \in Nat
        BY <1>1, <1>9, SoundSums
      <4>5. \E u \in Nat : new.committed = SatAdd(touched.committed, u)
        BY <4>1, <4>3
      <4>6. new.reserved <= touched.reserved
        BY <4>3, <4>4
      <4>7. Fits(new, res, k3)
        BY <1>1, <1>9, <1>10, <1>11, <4>5, <4>6, FitsKeep DEF res
      <4>8. QED
        BY <4>2, <4>7
    <3>5. QED
      BY <3>3, <3>4
  <2>5. CASE c.task = "sweep"
    BY <2>1, <2>5 DEF Updated, Last, Settling
  <2>6. CASE Settling(c)
    <3>1. CASE Timeout = "release"
      BY <2>1, <2>6, <3>1 DEF Updated, Last, Settling
    <3>2. CASE Timeout # "release"
      BY <2>2, <2>6, <3>2 DEF Updated, Last, Settling, Applied
    <3>3. QED
      BY <3>1, <3>2
  <2>7. QED
    BY <2>3, <2>4, <2>5, <2>6 DEF Ready, Settling
<1>13. Fits(Base(record'), res, k4)
  <2>1. record' = Written(c)
    BY DEF Land
  <2>2. CASE c.task = "sweep" /\ IsIdle(new)
    <3>1. Base(record') = AtPeriod(new.period)
      BY <2>1, <2>2 DEF Written, Vacant, Base
    <3>2. new.committed = 0 /\ DOMAIN new.active = {}
      BY <2>2 DEF IsIdle
    <3> HIDE DEF new
    <3>3. new.reserved = 0
      BY <1>11, <3>2, UnitsEmpty DEF Sound
    <3>4. Base(record').reserved = 0 /\ Base(record').committed = 0
      BY <3>1 DEF AtPeriod
    <3>5. QED
      BY <1>12, <3>2, <3>3, <3>4 DEF Fits
  <2>3. CASE ~(c.task = "sweep" /\ IsIdle(new))
    <3>1. Base(record') = new
      BY <2>1, <2>3 DEF Written, Live, Base
    <3>2. QED
      BY <1>12, <3>1
  <2>4. QED
    BY <2>2, <2>3
<1>14. KeptOf(res, charges', late') \in SUBSET k4
  <2>1. /\ Charged(c) =
             (c.owed \cap DOMAIN base.active) \cup Paid(c)
             \cup (IF Timeout = "release" THEN c.owed \cap DOMAIN base.reclaimed ELSE Lapsed(c))
        /\ ChargedLate(c) = LatePaid(c) \cup (IF Timeout = "release"
                                              THEN c.owed \cap DOMAIN base.reclaimed ELSE {})
    BY ChargedSets
  <2>2. \A id \in 1 .. MaxId :
          charges'[id] = charges[id] + (IF id \in Charged(c) THEN 1 ELSE 0)
                                     - (IF id \in Refunded(c) THEN 1 ELSE 0)
    BY DEF Land, Refunded
  <2>3. late' = late \cup ChargedLate(c)
    BY DEF Land
  <2>4. /\ Paid(c) \subseteq LatePaid(c) \cup (IF Settles(c) /\ Applied(c) = "committed"
                                              THEN {s} ELSE {})
        /\ Refunded(c) = IF Settling(c) /\ Applied(c) = "refunded" THEN {s} ELSE {}
    BY DEF Paid, LatePaid, Refunded, SubjectIf
  <2>5. Settles(c) => /\ (Settling(c) /\ Timeout = "release") \/ Last(c) # {}
                      /\ Applied(c) = "refunded" =>
                           /\ ~Committing(c) /\ Timeout = "commit" /\ s \notin c.owed
                           /\ s \in DOMAIN base.reclaimed \cup Lapsed(c)
    BY AppliedFacts DEF Settles, Last
  <2>6. Last(c) # {} => Settles(c)
    BY DEF Last, Settles
  <2>7. \A id \in DOMAIN res : id \in 1 .. MaxId /\ charges[id] \in Nat
    OBVIOUS
  <2>8. /\ c.task = "charge" => Committing(c)
        /\ Settles(c) <=> Settling(c) \/ c.task = "charge"
    BY DEF Ready, Settles
  <2> SUFFICES ASSUME NEW id \in DOMAIN res, id \notin late', charges'[id] > 0
               PROVE  id \in k4
    BY DEF KeptOf
  <2> HIDE DEF base, s, res
  <2>9. CASE id \in Refunded(c)
    <3>1. id = s /\ Settling(c) /\ Applied(c) = "refunded"
      BY <2>4, <2>9
    <3>2. Timeout = "commit" /\ s \in DOMAIN base.reclaimed \cup Lapsed(c) /\ s \notin Paid(c)
          /\ s \notin c.owed
      BY <2>5, <2>8, <3>1 DEF Paid, SubjectIf, s
    <3>3. charges'[id] = 0
      <4>0. charges'[id] = charges[id] + (IF id \in Charged(c) THEN 1 ELSE 0) - 1
        BY <2>2, <2>7, <2>9
      <4>1. CASE s \in DOMAIN base.reclaimed
        <5>1. charges[s] = 1 /\ s \notin DOMAIN base.active
          BY <1>1, <3>2, <4>1 DEF Recorded, Holds, base, Sound, SoundMaps
        <5>2. s \notin Lapsed(c)
          BY <5>1, TouchedMaps DEF base
        <5>3. s \notin Charged(c)
          BY <2>1, <3>2, <5>2
        <5>4. QED
          BY <3>1, <4>0, <5>1, <5>3
      <4>2. CASE s \in Lapsed(c)
        <5>1. s \in DOMAIN base.active
          BY <4>2, TouchedMaps DEF base
        <5>2. charges[s] = 0
          BY <1>1, <5>1 DEF Recorded, Holds, base, Sound, SoundMaps
        <5>3. s \in Charged(c)
          BY <2>1, <3>2, <4>2
        <5>4. QED
          BY <3>1, <4>0, <5>2, <5>3
      <4>3. QED
        BY <3>2, <4>1, <4>2
    <3>4. QED
      BY <3>3
  <2>10. CASE id \notin Refunded(c)
    <3>1. id \notin late /\ id \notin ChargedLate(c)
      BY <2>3
    <3>2. charges[id] > 0 \/ id \in Charged(c)
      BY <2>2, <2>7, <2>10
    <3>3. id \in kept \cup first \cup last \cup (c.owed \cap DOMAIN base.active)
          \/ (Timeout = "commit" /\ id \in Lapsed(c))
      <4>1. CASE charges[id] > 0
        BY <3>1, <4>1 DEF KeptOf, res
      <4>2. CASE id \in c.owed \cap DOMAIN base.active
        BY <4>2
      <4>3. CASE id \in Paid(c)
        <5>1. id = s /\ Settles(c) /\ Applied(c) = "committed"
          BY <2>1, <2>4, <3>1, <4>3
        <5>2. QED
          BY <2>5, <5>1
      <4>4. CASE id \in IF Timeout = "release" THEN c.owed \cap DOMAIN base.reclaimed
                        ELSE Lapsed(c)
        BY <2>1, <3>1, <4>4, TimeoutAssumption
      <4>5. QED
        BY <2>1, <3>2, <4>1, <4>2, <4>3, <4>4
    <3>4. ~(Last(c) # {} /\ Applied(c) = "refunded") \/ id # s
      <4>1. CASE Last(c) # {} /\ Applied(c) = "refunded"
        <5>1. Settling(c)
          BY <2>5, <2>6, <2>8, <4>1
        <5>2. QED
          BY <2>4, <2>10, <4>1, <5>1
      <4>2. QED
        BY <4>1
    <3>5. id \in DOMAIN res
      OBVIOUS
    <3> HIDE DEF kept, first, last
    <3>6. id \in k2 \/ id \in last \/ (Timeout = "commit" /\ id \in Lapsed(c))
      BY <3>3, <3>5
    <3> HIDE DEF k2
    <3>7. id \in k3 \/ id \in last
      BY <3>5, <3>6
    <3> HIDE DEF k3
    <3>8. CASE Last(c) # {} /\ Applied(c) = "refunded"
      <4>1. last = {}
        BY <3>8 DEF last
      <4>2. id # s
        BY <3>4, <3>8
      <4>3. QED
        BY <3>7, <3>8, <4>1, <4>2
    <3>9. CASE ~(Last(c) # {} /\ Applied(c) = "refunded")
      BY <3>7, <3>9
    <3>10. QED
      BY <3>8, <3>9
  <2>11. QED
    BY <2>9, <2>10
<1>15. Sound(Base(record'), ids)
  <2>1. ReadOK(record', ids)
    BY LandFacts DEF Recorded
  <2>2. QED
    BY <2>1, BaseSound
<1>16. Fits(Base(record'), res, KeptOf(res, charges', late'))
  <2> HIDE DEF k4, res
  <2>1. QED
    BY <1>1, <1>13, <1>14, <1>15, FitsLess DEF res
<1>17. QED
  BY <1>16

-----------------------------------------------------------------------------
(* The queues, as sets of entries.                                         *)
Entries ==
  {e \in [id : Nat \ {0}, persisted : BOOLEAN, attempts : 0 .. MissingAttempts - 1,
          blocked : BOOLEAN] : ~(e.persisted /\ e.blocked)}

Elements(queue) == {queue[i] : i \in DOMAIN queue}

(* The entries of a worker: its queue's, and the one its call works on.    *)
Carried(queue, c) ==
  Elements(queue) \cup (IF c # Idle /\ c.entry # NoEntry THEN {c.entry} ELSE {})

LEMMA ElementsAppend ==
  ASSUME NEW S, NEW queue \in Seq(S), NEW e \in S
  PROVE  Append(queue, e) \in Seq(S) /\ Elements(Append(queue, e)) = Elements(queue) \cup {e}
<1> DEFINE longer == Append(queue, e)
<1>1. /\ longer \in Seq(S) /\ Len(queue) \in Nat /\ DOMAIN queue = 1 .. Len(queue)
      /\ DOMAIN longer = 1 .. (Len(queue) + 1)
      /\ \A i \in 1 .. Len(queue) : longer[i] = queue[i]
      /\ longer[Len(queue) + 1] = e
  OBVIOUS
<1> HIDE DEF longer
<1>2. \A x \in Elements(longer) : x \in Elements(queue) \cup {e}
  BY <1>1 DEF Elements
<1>3. \A x \in Elements(queue) : x \in Elements(longer)
  BY <1>1 DEF Elements
<1>4. e \in Elements(longer)
  BY <1>1 DEF Elements
<1>5. QED
  BY <1>1, <1>2, <1>3, <1>4 DEF longer

LEMMA ElementsFirst ==
  ASSUME NEW S, NEW queue \in Seq(S), NEW e \in S
  PROVE  <<e>> \o queue \in Seq(S) /\ Elements(<<e>> \o queue) = Elements(queue) \cup {e}
<1> DEFINE longer == <<e>> \o queue
<1>1. /\ longer \in Seq(S) /\ Len(queue) \in Nat /\ DOMAIN queue = 1 .. Len(queue)
      /\ DOMAIN longer = 1 .. (Len(queue) + 1)
      /\ \A i \in 1 .. Len(queue) : longer[i + 1] = queue[i]
      /\ longer[1] = e
  OBVIOUS
<1> HIDE DEF longer
<1>2. \A i \in 1 .. (Len(queue) + 1) : i = 1 \/ (i - 1 \in 1 .. Len(queue) /\ longer[i] = queue[i - 1])
  <2> TAKE i \in 1 .. (Len(queue) + 1)
  <2>1. i # 1 => i - 1 \in 1 .. Len(queue) /\ (i - 1) + 1 = i
    BY <1>1
  <2>2. QED
    BY <1>1, <2>1
<1>3. \A x \in Elements(longer) : x \in Elements(queue) \cup {e}
  BY <1>1, <1>2 DEF Elements
<1>4. \A i \in 1 .. Len(queue) : i + 1 \in 1 .. (Len(queue) + 1)
  BY <1>1
<1>5. \A x \in Elements(queue) : x \in Elements(longer)
  BY <1>1, <1>4 DEF Elements
<1>6. e \in Elements(longer)
  BY <1>1 DEF Elements
<1>7. QED
  BY <1>1, <1>3, <1>5, <1>6 DEF longer

LEMMA ElementsNext ==
  ASSUME NEW S, NEW queue \in Seq(S), queue # <<>>
  PROVE  /\ Head(queue) \in S /\ Tail(queue) \in Seq(S)
         /\ Elements(queue) = Elements(Tail(queue)) \cup {Head(queue)}
<1> DEFINE rest == Tail(queue)
           first == Head(queue)
<1>1. /\ first \in S /\ rest \in Seq(S) /\ queue = <<first>> \o rest
  OBVIOUS
<1> HIDE DEF rest, first
<1>2. Elements(queue) = Elements(rest) \cup {first}
  BY <1>1, ElementsFirst
<1>3. QED
  BY <1>1, <1>2 DEF rest, first

LEMMA ElementsNone == Elements(<<>>) = {} /\ \A S : <<>> \in Seq(S)
BY DEF Elements

LEMMA EntryFacts ==
  /\ \A e \in Entries : /\ e.id \in Nat \ {0} /\ e # NoEntry
                        /\ e.persisted \in BOOLEAN /\ e.blocked \in BOOLEAN
                        /\ ~(e.persisted /\ e.blocked)
                        /\ e.attempts \in 0 .. MissingAttempts - 1
  /\ NoEntry.id = 0 /\ NoEntry \notin Entries
BY DEF Entries, NoEntry

-----------------------------------------------------------------------------
(* What a call is, wherever it stands.                                     *)
Fields == {"at", "op", "id", "units", "now", "rounds", "entry", "task", "read", "todo",
           "owed", "claim", "mark"}

Whole(c) ==
  /\ DOMAIN c = Fields
  /\ c.op \in {"reserve", "commit", "release", "sweep", "collect"}
  /\ c.now \in Nat /\ c.rounds \in Nat
  /\ c.entry = NoEntry \/ c.entry \in Entries
  /\ c.op \in {"sweep", "collect"} => c.entry = NoEntry

(* The call is still the same, and works on the same entry.                *)
SameCall(d, c) == d.op = c.op /\ d.id = c.id /\ d.units = c.units /\ d.now = c.now

(* A task the call may put to the record.                                  *)
Suits(c, task) ==
  /\ task \in {"reserve", "settle", "resettle", "charge", "sweep"}
  /\ task \in {"settle", "resettle"} => c.entry # NoEntry \/ c.op \in {"commit", "release"}
  /\ task \in {"charge", "resettle"} => Committing(c)
  /\ task = "reserve" => c.op = "reserve" /\ c.entry = NoEntry
  /\ task = "sweep" <=> c.op = "sweep"
  /\ task = "settle" /\ c.entry # NoEntry => c.entry.persisted
  /\ c.op # "collect"

TaskOK(c) == Suits(c, c.task)

(* A touch under way: between its read of the record and its write.        *)
Touching(c) == \/ c.at \in {"claim", "put"}
               \/ c.at \in {"slot", "mark", "unslot"} /\ c.claim # 0

(* A commit being marked.                                                  *)
Marking(c) == c.at \in {"remark", "slot", "mark", "unslot"} /\ c.claim = 0

Collecting(c) == c.at \in {"collecting", "delete", "restore", "uncount"}

(* What a touch knows of the record it read and of its claims.             *)
Reading(c, ids) ==
  /\ ReadOK(c.read, ids)
  /\ Settling(c) \/ c.task = "sweep" => c.read.kind = "live"
  /\ c.todo \cup c.owed \subseteq Due(c, c.read)
  /\ c.claim # 0 => c.claim \in c.todo /\ c.mark # "commit"
  /\ c.claim = 0 <=> c.at \in {"claim", "put"}
  /\ c.at = "put" => c.todo = {}

Taken(c, ids) ==
  /\ c.claim \in ids /\ c.claim # 0
  /\ c.mark \in Marks /\ c.read \in [mark : Marks, expires_at : Nat]

Places == {"read", "claim", "put", "slot", "mark", "unslot", "persist", "remark", "room",
           "charge", "held", "collecting", "delete", "restore", "uncount"}

(* A call between two steps.                                               *)
Shaped(c, ids) ==
  /\ Whole(c) /\ c.at \in Places
  /\ c.at = "read" => TaskOK(c)
  /\ Touching(c) => TaskOK(c) /\ Reading(c, ids)
  /\ c.at \in {"persist", "charge"} \/ Marking(c) => Committing(c)
  /\ c.at = "room" => c.entry # NoEntry
  /\ c.at = "remark" => c.claim = 0
  /\ c.op = "collect" <=> Collecting(c) \/ c.at = "held"
  /\ c.op = "collect" => Taken(c, ids)
  /\ c.mark \in Marks \cup {NoMark}

(* The call has moved, and nothing else about it has changed.              *)
Resembles(d, c) ==
  /\ DOMAIN d = Fields /\ SameCall(d, c)
  /\ d.rounds = c.rounds /\ d.entry = c.entry /\ d.task = c.task

LEMMA ResemblesWhole ==
  ASSUME NEW c, NEW d, Whole(c), Resembles(d, c)
  PROVE  /\ Whole(d) /\ Committing(d) = Committing(c) /\ Subject(d) = Subject(c)
         /\ Settling(d) = Settling(c) /\ TaskOK(d) = TaskOK(c) /\ SameCall(d, c)
         /\ \A value : Due(d, value) = Due(c, value)
<1>1. Whole(d)
  BY DEF Resembles, SameCall, Whole
<1>2. Committing(d) = Committing(c) /\ Subject(d) = Subject(c) /\ Settling(d) = Settling(c)
  BY DEF Resembles, SameCall, Committing, Subject, Settling
<1>3. TaskOK(d) = TaskOK(c)
  <2>1. d.op = c.op /\ d.entry = c.entry /\ d.task = c.task
    BY DEF Resembles, SameCall
  <2>2. QED
    BY <1>2, <2>1 DEF TaskOK, Suits
<1>4. \A value : Due(d, value) = Due(c, value)
  <2>1. d.now = c.now
    BY DEF Resembles, SameCall
  <2>2. \A value : Unclaimed(d, value) = Unclaimed(c, value)
    BY <1>2, <2>1 DEF Unclaimed
  <2>3. QED
    BY <2>1, <2>2 DEF Due
<1>5. QED
  BY <1>1, <1>2, <1>3, <1>4 DEF Resembles

LEMMA AtFields ==
  ASSUME NEW c, DOMAIN c = Fields, NEW at
  PROVE  /\ Resembles(At(c, at), c) /\ At(c, at).at = at
         /\ At(c, at).read = Missing /\ At(c, at).todo = {} /\ At(c, at).owed = {}
         /\ At(c, at).claim = 0 /\ At(c, at).mark = NoMark
BY DEF At, Resembles, SameCall, Fields

LEMMA ClaimingFields ==
  ASSUME NEW c, DOMAIN c = Fields, NEW todo, NEW owed
  PROVE  LET d == Claiming(c, todo, owed)
         IN  /\ Resembles(d, c) /\ d.at = (IF todo = {} THEN "put" ELSE "claim")
             /\ d.read = c.read /\ d.todo = todo /\ d.owed = owed
             /\ d.claim = 0 /\ d.mark = NoMark
BY DEF Claiming, Resembles, SameCall, Fields

(* A call that waits to turn to the record or to a marker.                 *)
LEMMA AtShaped ==
  ASSUME NEW ids, NEW c, Whole(c), c.op # "collect", Committing(c),
         NEW at \in {"persist", "charge", "remark", "room"},
         at = "room" => c.entry # NoEntry
  PROVE  LET d == At(c, at)
         IN  /\ Shaped(d, ids) /\ Resembles(d, c) /\ d # Idle /\ d.at = at
             /\ ~Touching(d) /\ ~Collecting(d) /\ (Marking(d) <=> at = "remark")
<1> DEFINE d == At(c, at)
<1>1. /\ Resembles(d, c) /\ d.at = at /\ d.claim = 0 /\ d.mark = NoMark
  BY AtFields DEF Whole
<1> HIDE DEF d
<1>2. Whole(d) /\ Committing(d) /\ d.op = c.op /\ d.entry = c.entry
  BY <1>1, ResemblesWhole DEF Resembles, SameCall
<1>3. /\ ~Touching(d) /\ ~Collecting(d) /\ (Marking(d) <=> at = "remark")
      /\ at \in Places /\ at # "held" /\ at # "read"
  BY <1>1 DEF Touching, Collecting, Marking, Places
<1>4. Shaped(d, ids)
  BY <1>1, <1>2, <1>3 DEF Shaped
<1>5. d # Idle
  BY <1>1 DEF Idle
<1>6. QED
  BY <1>1, <1>3, <1>4, <1>5 DEF d

LEMMA AttemptShaped ==
  ASSUME NEW ids, NEW c, Whole(c), NEW task, Suits(c, task)
  PROVE  LET d == Attempt(c, task)
         IN  /\ Shaped(d, ids) /\ SameCall(d, c) /\ d.entry = c.entry /\ d.task = task
             /\ d.at = "read" /\ d # Idle
             /\ ~Touching(d) /\ ~Collecting(d) /\ ~Marking(d)
<1> DEFINE d == Attempt(c, task)
<1>1. /\ DOMAIN d = Fields /\ SameCall(d, c) /\ d.rounds = c.rounds
      /\ d.entry = c.entry /\ d.task = task
      /\ d.at = "read" /\ d.claim = 0 /\ d.mark = NoMark
  <2>1. /\ Resembles(At(c, "read"), c) /\ At(c, "read").at = "read"
        /\ At(c, "read").claim = 0 /\ At(c, "read").mark = NoMark
    BY AtFields DEF Whole
  <2>2. QED
    BY <2>1 DEF Attempt, Resembles, SameCall, Fields
<1> HIDE DEF d
<1>2. Whole(d)
  BY <1>1 DEF Whole, SameCall
<1>3. TaskOK(d)
  BY <1>1 DEF TaskOK, Suits, SameCall, Committing
<1>4. ~Touching(d) /\ ~Collecting(d) /\ ~Marking(d) /\ d.op # "collect"
  BY <1>1 DEF Touching, Collecting, Marking, Suits, SameCall
<1>5. Shaped(d, ids)
  BY <1>1, <1>2, <1>3, <1>4 DEF Shaped, Places
<1>6. d # Idle
  BY <1>1 DEF Idle
<1>7. QED
  BY <1>1, <1>4, <1>5, <1>6 DEF d

LEMMA ClaimingShaped ==
  ASSUME NEW ids, NEW c, Whole(c), TaskOK(c), ReadOK(c.read, ids),
         Settling(c) \/ c.task = "sweep" => c.read.kind = "live",
         NEW todo, NEW owed, todo \cup owed \subseteq Due(c, c.read)
  PROVE  LET d == Claiming(c, todo, owed)
         IN  /\ Shaped(d, ids) /\ Resembles(d, c) /\ d # Idle
             /\ d.read = c.read /\ d.todo = todo /\ d.owed = owed /\ d.claim = 0
             /\ Touching(d) /\ ~Collecting(d) /\ ~Marking(d)
<1> DEFINE d == Claiming(c, todo, owed)
<1>1. /\ Resembles(d, c) /\ d.at = (IF todo = {} THEN "put" ELSE "claim")
      /\ d.read = c.read /\ d.todo = todo /\ d.owed = owed
      /\ d.claim = 0 /\ d.mark = NoMark
  BY ClaimingFields DEF Whole
<1> HIDE DEF d
<1>2. /\ Whole(d) /\ TaskOK(d) /\ Settling(d) = Settling(c) /\ d.task = c.task
      /\ Due(d, d.read) = Due(c, c.read) /\ d.op = c.op /\ c.op # "collect"
  BY <1>1, ResemblesWhole DEF Resembles, SameCall, TaskOK, Suits
<1>3. Reading(d, ids)
  BY <1>1, <1>2 DEF Reading
<1>4. Touching(d) /\ ~Collecting(d) /\ ~Marking(d)
  BY <1>1 DEF Touching, Collecting, Marking
<1>5. Shaped(d, ids)
  BY <1>1, <1>2, <1>3, <1>4 DEF Shaped, Places
<1>6. d # Idle
  BY <1>1 DEF Idle
<1>7. QED
  BY <1>1, <1>4, <1>5, <1>6 DEF d

-----------------------------------------------------------------------------
(* How a call goes on, in two parts: where it and its queue come to, and   *)
(* what becomes of the entries it carried and of the answers given.        *)
Free(c) == ~Touching(c) /\ ~Collecting(c) /\ ~Marking(c)

Turns(worker, d, queue) ==
  /\ call' = [call EXCEPT ![worker] = d]
  /\ pending' = [pending EXCEPT ![worker] = queue]

Goes(c, d, ids) == d # Idle => Shaped(d, ids) /\ SameCall(d, c)

LEMMA ResumeMoves ==
  ASSUME NEW ids, NEW worker, NEW c, Whole(c), c.entry = NoEntry,
         c.op \in {"reserve", "commit", "release"}, c.task # "resettle",
         NEW queue \in Seq(Entries), Resume(worker, c, queue)
  PROVE  \E d, q : /\ Turns(worker, d, q) /\ q \in Seq(Entries)
                   /\ Carried(q, d) = Elements(queue)
                   /\ Goes(c, d, ids) /\ (d = Idle => c.op = "reserve")
                   /\ d # Idle => Free(d) /\ d.task # "resettle"
<1>1. CASE c.rounds > 0 /\ queue # <<>>
  <2> DEFINE next == [c EXCEPT !.rounds = @ - 1, !.entry = Head(queue)]
             d == IF next.entry.blocked THEN At(next, "persist") ELSE DrainStep(next)
             q == Tail(queue)
  <2>1. Turns(worker, d, q)
    BY <1>1 DEF Resume, Turns
  <2>2. /\ Head(queue) \in Entries /\ q \in Seq(Entries)
        /\ Elements(queue) = Elements(q) \cup {Head(queue)}
    BY <1>1, ElementsNext
  <2>3. /\ DOMAIN next = Fields /\ SameCall(next, c) /\ next.task = c.task
        /\ next.rounds = c.rounds - 1 /\ next.entry = Head(queue)
    BY DEF Whole, Fields, SameCall
  <2> HIDE DEF next, q
  <2>4. /\ Whole(next) /\ Committing(next) /\ next.op = c.op /\ next.entry # NoEntry
    BY <1>1, <2>2, <2>3, EntryFacts DEF Whole, SameCall, Committing
  <2>5. /\ Shaped(d, ids) /\ SameCall(d, next) /\ d.entry = next.entry /\ d # Idle
        /\ Free(d) /\ d.task # "resettle"
    <3>1. CASE next.entry.blocked \/ ~next.entry.persisted
      <4> DEFINE at == IF next.entry.blocked THEN "persist" ELSE "charge"
      <4>1. d = At(next, at)
        BY <3>1 DEF DrainStep
      <4>2. at \in {"persist", "charge"} /\ next.op # "collect"
        BY <2>4
      <4> HIDE DEF d, at
      <4>3. /\ Shaped(d, ids) /\ Resembles(d, next) /\ d # Idle
            /\ ~Touching(d) /\ ~Collecting(d) /\ ~Marking(d)
        BY <2>4, <4>1, <4>2, AtShaped
      <4>4. QED
        BY <2>3, <4>3 DEF Resembles, Free
    <3>2. CASE ~next.entry.blocked /\ next.entry.persisted
      <4>1. d = Attempt(next, "settle")
        BY <3>2 DEF DrainStep
      <4>2. Suits(next, "settle")
        BY <2>4, <3>2 DEF Suits
      <4> HIDE DEF d
      <4>3. /\ Shaped(d, ids) /\ SameCall(d, next) /\ d.entry = next.entry /\ d.task = "settle"
            /\ d # Idle /\ ~Touching(d) /\ ~Collecting(d) /\ ~Marking(d)
        BY <2>4, <4>1, <4>2, AttemptShaped
      <4>4. QED
        BY <4>3 DEF Free
    <3>3. QED
      BY <2>2, <2>3, <3>1, <3>2, EntryFacts
  <2> HIDE DEF d
  <2>6. SameCall(d, c)
    BY <2>3, <2>5 DEF SameCall
  <2>7. Carried(q, d) = Elements(queue)
    BY <2>2, <2>3, <2>4, <2>5 DEF Carried
  <2>8. QED
    BY <2>1, <2>2, <2>5, <2>6, <2>7 DEF Goes
<1>2. CASE ~(c.rounds > 0 /\ queue # <<>>)
  <2> DEFINE d == IF c.op # "reserve" THEN Attempt(c, "settle")
                  ELSE IF Cardinality(Unpersisted(queue)) >= PendingLimit THEN Idle
                  ELSE Attempt(c, "reserve")
  <2>1. Turns(worker, d, queue)
    BY <1>2 DEF Resume, Turns
  <2>2. CASE d = Idle /\ c.op = "reserve"
    BY <2>1, <2>2 DEF Goes, Carried
  <2>3. CASE ~(d = Idle /\ c.op = "reserve")
    <3>1. PICK task \in {"settle", "reserve"} :
            d = Attempt(c, task) /\ (c.op = "reserve" <=> task = "reserve")
      BY <2>3
    <3> HIDE DEF d
    <3>2. Suits(c, task)
      BY <3>1 DEF Suits
    <3>3. /\ Shaped(d, ids) /\ SameCall(d, c) /\ d.entry = c.entry /\ d.task = task
          /\ d # Idle /\ ~Touching(d) /\ ~Collecting(d) /\ ~Marking(d)
      BY <3>1, <3>2, AttemptShaped
    <3>4. Carried(queue, d) = Elements(queue)
      BY <3>3 DEF Carried
    <3>5. QED
      BY <2>1, <3>3, <3>4 DEF Goes, Free
  <2>4. QED
    BY <2>2, <2>3
<1>3. QED
  BY <1>1, <1>2

(* The results that end an attempt for good.                               *)
Final == {"done", "gone", "not-active"}

Results == Final \cup {"refused", "capacity", "mismatch", "failed"}

(* The call goes on, or ends if it is not a commit; every entry is carried *)
(* on, unless it is given up or its own attempt has ended for good.        *)
Keeps(worker, c, d, q, result) ==
  /\ UNCHANGED <<answers, marked>> /\ lost \subseteq lost'
  /\ d = Idle => c.op # "commit"
  /\ \A e \in Carried(q, d) :
       \E f \in Carried(pending[worker], c) : e.id = f.id /\ e.persisted = f.persisted
  /\ \A f \in Carried(pending[worker], c) :
       \/ \E e \in Carried(q, d) : e.id = f.id
       \/ f.id \in lost'
       \/ f = c.entry /\ result \in Final

(* A commit is answered by the end of its own attempt.                     *)
Answers(worker, c, d, q, result) ==
  /\ c.op = "commit" /\ c.entry = NoEntry /\ d = Idle /\ q = pending[worker]
  /\ result \in Final
  /\ answers' = Put(answers, c.id, IF result = "done" THEN "charged" ELSE "not-active")
  /\ UNCHANGED <<marked, lost>>

(* A commit is answered as deferred: queued, or marked.                    *)
Defers(worker, c, d, q, result) ==
  /\ c.op = "commit" /\ c.entry = NoEntry /\ d = Idle
  /\ answers' = Put(answers, c.id, "deferred") /\ UNCHANGED lost
  /\ \E e \in Entries :
       /\ e.id = c.id
       /\ \/ ~e.persisted /\ q = Append(pending[worker], e) /\ UNCHANGED marked
          \/ /\ e.persisted /\ result = "marked" /\ marked' = marked \cup {c.id}
             /\ q = Append(pending[worker], e) \/ q = pending[worker]

(* A queued commit is marked, and is then only settled.                    *)
Persists(worker, c, d, q, result) ==
  /\ c.entry # NoEntry /\ result = "marked" /\ d # Idle /\ q = pending[worker]
  /\ d.entry \in Entries /\ d.entry.id = c.entry.id /\ d.entry.persisted
  /\ marked' = marked \cup {c.entry.id} /\ UNCHANGED <<answers, lost>>

Moves(worker, c, d, q, ids, result) ==
  /\ Turns(worker, d, q) /\ q \in Seq(Entries) /\ Goes(c, d, ids)
  /\ \/ Keeps(worker, c, d, q, result)
     \/ Answers(worker, c, d, q, result)
     \/ Defers(worker, c, d, q, result)
     \/ Persists(worker, c, d, q, result)

(* What is known of the call that moves.                                   *)
Moving(worker, c) ==
  /\ worker \in Workers /\ pending \in [Workers -> Seq(Entries)] /\ Whole(c)
  /\ c.op = "commit" => c.id \in Nat \ {0}

LEMMA WaitingFields ==
  ASSUME NEW c, Whole(c), c.op \notin {"sweep", "collect"}, NEW rounds \in Nat
  PROVE  LET d == [Waiting(c) EXCEPT !.rounds = rounds]
         IN  /\ Whole(d) /\ d.entry = NoEntry /\ d.op = c.op /\ SameCall(d, c)
             /\ d.task = "none" /\ d.op \in {"reserve", "commit", "release"}
<1> DEFINE d == [Waiting(c) EXCEPT !.rounds = rounds]
<1>1. Resembles(At(c, "drain"), c)
  BY AtFields DEF Whole
<1>2. /\ DOMAIN d = Fields /\ SameCall(d, c) /\ d.entry = NoEntry /\ d.task = "none"
      /\ d.rounds = rounds
  BY <1>1 DEF Waiting, Resembles, SameCall, Fields
<1> HIDE DEF d
<1>3. d.op \in {"reserve", "commit", "release"}
  BY <1>2 DEF Whole, SameCall
<1>4. QED
  BY <1>2, <1>3 DEF Whole, SameCall, d

LEMMA DrainedMoves ==
  ASSUME NEW ids, NEW worker, NEW c, Moving(worker, c), c # Idle, c.entry # NoEntry,
         NEW result \in Results, Drained(worker, c, result)
  PROVE  \E d, q : /\ Moves(worker, c, d, q, ids, result)
                   /\ d # Idle => Free(d) /\ d.task # "resettle"
<1> DEFINE queue == pending[worker]
           again == c.entry.attempts + 1
           full == result = "capacity" /\ ~c.entry.blocked /\ record.kind # "live"
           given_up == full /\ again >= MissingAttempts
           rest == CASE result \in {"done", "gone", "not-active"} \/ given_up -> queue
                     [] result = "failed"  -> <<c.entry>> \o queue
                     [] full /\ ~given_up -> Append(queue, [c.entry EXCEPT !.attempts = again])
                     [] OTHER -> Append(queue, c.entry)
           waiting == [Waiting(c) EXCEPT !.rounds = IF result = "failed" THEN 0 ELSE @]
<1>1. /\ Resume(worker, waiting, rest)
      /\ lost' = IF given_up THEN lost \cup {c.entry.id} ELSE lost
      /\ UNCHANGED <<answers, marked>>
  BY DEF Drained
<1>2. /\ queue \in Seq(Entries) /\ c.entry \in Entries /\ c.op \notin {"sweep", "collect"}
      /\ Whole(c)
  BY DEF Moving, Whole
<1>3. /\ Whole(waiting) /\ waiting.entry = NoEntry /\ waiting.op = c.op
      /\ SameCall(waiting, c) /\ waiting.task = "none"
      /\ waiting.op \in {"reserve", "commit", "release"}
  <2> DEFINE rounds == IF result = "failed" THEN 0 ELSE Waiting(c).rounds
  <2>1. rounds \in Nat
    <3>1. Waiting(c).rounds = c.rounds
      BY <1>2 DEF Waiting, At, Whole, Fields
    <3>2. QED
      BY <1>2, <3>1 DEF Whole
  <2>2. waiting = [Waiting(c) EXCEPT !.rounds = rounds]
    OBVIOUS
  <2> HIDE DEF waiting, rounds
  <2>3. QED
    BY <1>2, <2>1, <2>2, WaitingFields
<1>4. /\ rest \in Seq(Entries)
      /\ \A e \in Elements(rest) : \E f \in Elements(queue) \cup {c.entry} :
           e.id = f.id /\ e.persisted = f.persisted
      /\ Elements(queue) \subseteq Elements(rest)
      /\ \/ \E e \in Elements(rest) : e.id = c.entry.id
         \/ c.entry.id \in lost' \/ result \in Final
  <2>1. CASE result \in {"done", "gone", "not-active"} \/ given_up
    <3>1. rest = queue /\ (c.entry.id \in lost' \/ result \in Final)
      BY <1>1, <2>1 DEF Final
    <3> HIDE DEF rest
    <3>2. QED
      BY <1>2, <3>1
  <2>2. CASE ~(result \in {"done", "gone", "not-active"} \/ given_up)
    <3>1. \/ rest = <<c.entry>> \o queue
          \/ full /\ rest = Append(queue, [c.entry EXCEPT !.attempts = again])
          \/ rest = Append(queue, c.entry)
      <4> HIDE DEF queue, again
      <4>1. CASE result = "failed"
        BY <2>2, <4>1
      <4>2. CASE result # "failed" /\ full
        BY <2>2, <4>2
      <4>3. CASE result # "failed" /\ ~full
        BY <2>2, <4>3
      <4>4. QED
        BY <4>1, <4>2, <4>3
    <3>2. full => \E e \in Entries : /\ e = [c.entry EXCEPT !.attempts = again]
                                     /\ e.id = c.entry.id /\ e.persisted = c.entry.persisted
      <4> HAVE full
      <4>1. again \in 0 .. MissingAttempts - 1
        BY <1>2, <2>2, EntryFacts, LimitsAssumption
      <4>2. c.entry \in [id : Nat \ {0}, persisted : BOOLEAN, attempts : 0 .. MissingAttempts - 1,
                         blocked : BOOLEAN] /\ ~(c.entry.persisted /\ c.entry.blocked)
        BY <1>2 DEF Entries
      <4> DEFINE e == [c.entry EXCEPT !.attempts = again]
      <4> HIDE DEF again
      <4>3. /\ e \in [id : Nat \ {0}, persisted : BOOLEAN, attempts : 0 .. MissingAttempts - 1,
                      blocked : BOOLEAN]
            /\ e.id = c.entry.id /\ e.persisted = c.entry.persisted
            /\ e.blocked = c.entry.blocked
        BY <4>1, <4>2
      <4> HIDE DEF e
      <4>4. e \in Entries
        BY <4>2, <4>3 DEF Entries
      <4>5. QED
        BY <4>3, <4>4 DEF e
    <3>3. \E e \in Entries : /\ rest = <<e>> \o queue \/ rest = Append(queue, e)
                             /\ e.id = c.entry.id /\ e.persisted = c.entry.persisted
      <4> HIDE DEF rest, queue, again, full
      <4>1. QED
        BY <1>2, <3>1, <3>2
    <3>4. PICK e \in Entries : /\ rest = <<e>> \o queue \/ rest = Append(queue, e)
                               /\ e.id = c.entry.id /\ e.persisted = c.entry.persisted
      BY <3>3
    <3> HIDE DEF rest, queue
    <3>5. rest \in Seq(Entries) /\ Elements(rest) = Elements(queue) \cup {e}
      <4>1. CASE rest = <<e>> \o queue
        BY <1>2, <4>1, ElementsFirst
      <4>2. CASE rest = Append(queue, e)
        BY <1>2, <4>2, ElementsAppend
      <4>3. QED
        BY <3>4, <4>1, <4>2
    <3>6. QED
      BY <3>4, <3>5
  <2>3. QED
    BY <2>1, <2>2
<1> HIDE DEF rest, waiting, queue
<1>5. PICK d, q : /\ Turns(worker, d, q) /\ q \in Seq(Entries)
                  /\ Carried(q, d) = Elements(rest)
                  /\ Goes(waiting, d, ids) /\ (d = Idle => waiting.op = "reserve")
                  /\ d # Idle => Free(d) /\ d.task # "resettle"
  BY <1>1, <1>3, <1>4, ResumeMoves
<1>6. Goes(c, d, ids)
  BY <1>3, <1>5 DEF Goes, SameCall
<1>7. Carried(pending[worker], c) = Elements(queue) \cup {c.entry}
  BY DEF Carried, queue
<1>8. Keeps(worker, c, d, q, result)
  <2>1. lost \subseteq lost'
    BY <1>1
  <2>2. QED
    BY <1>1, <1>3, <1>4, <1>5, <1>7, <2>1 DEF Keeps
<1>9. QED
  BY <1>5, <1>6, <1>8 DEF Moves

LEMMA GoMoves ==
  ASSUME NEW ids, NEW worker, NEW c, Moving(worker, c), NEW d, Go(worker, d), NEW result,
         Goes(c, d, ids),
         IF d = Idle THEN c.op # "commit" /\ c.entry = NoEntry
         ELSE d.entry = c.entry /\ (c # Idle \/ c.entry = NoEntry)
  PROVE  \E q : Moves(worker, c, d, q, ids, result)
<1>1. /\ call' = [call EXCEPT ![worker] = d]
      /\ UNCHANGED <<pending, answers, marked, lost>>
  BY DEF Go, ending
<1>2. pending' = [pending EXCEPT ![worker] = pending[worker]] /\ pending[worker] \in Seq(Entries)
  BY <1>1 DEF Moving
<1>3. Carried(pending[worker], d) = Carried(pending[worker], c)
  BY DEF Carried
<1>4. Keeps(worker, c, d, pending[worker], result)
  BY <1>1, <1>3 DEF Keeps
<1>5. QED
  BY <1>1, <1>2, <1>4 DEF Moves, Turns

LEMMA DeferMoves ==
  ASSUME NEW ids, NEW worker, NEW c, Moving(worker, c), c.entry = NoEntry, c.op = "commit",
         NEW persisted \in BOOLEAN, NEW blocked \in BOOLEAN, ~(persisted /\ blocked),
         Defer(worker, c, persisted, blocked)
  PROVE  \E q : Moves(worker, c, Idle, q, ids, IF persisted THEN "marked" ELSE "failed")
<1> DEFINE entry == [id |-> c.id, persisted |-> persisted, attempts |-> 0, blocked |-> blocked]
           queue == pending[worker]
           q == IF ~persisted \/ Len(queue) < PendingLimit THEN Append(queue, entry) ELSE queue
<1>1. /\ Turns(worker, Idle, q) /\ Answer(c, "deferred") /\ UNCHANGED lost
      /\ marked' = IF persisted THEN marked \cup {c.id} ELSE marked
  BY DEF Defer, Turns
<1>2. /\ entry \in Entries /\ entry.id = c.id /\ (entry.persisted <=> persisted)
      /\ entry.persisted \in BOOLEAN
  <2>1. 0 \in 0 .. MissingAttempts - 1
    BY LimitsAssumption
  <2>2. QED
    BY <2>1 DEF Entries, Moving
<1>3. queue \in Seq(Entries)
  BY DEF Moving
<1> HIDE DEF entry, queue
<1>4. q \in Seq(Entries)
  BY <1>2, <1>3, ElementsAppend
<1>5. /\ q = Append(queue, entry) \/ q = queue
      /\ ~persisted => q = Append(queue, entry)
  OBVIOUS
<1> HIDE DEF q
<1>6. Defers(worker, c, Idle, q, IF persisted THEN "marked" ELSE "failed")
  BY <1>1, <1>2, <1>5 DEF Defers, Answer, queue
<1>7. QED
  BY <1>1, <1>4, <1>6 DEF Moves, Goes

LEMMA CommittedMoves ==
  ASSUME NEW ids, NEW worker, NEW c, Moving(worker, c), c # Idle, c.entry = NoEntry,
         c.op = "commit", NEW result \in Results, Committed(worker, c, result)
  PROVE  \E d, q : /\ Moves(worker, c, d, q, ids, result)
                   /\ d # Idle => Free(d) /\ d.task = c.task
<1>1. Whole(c) /\ Committing(c) /\ c.op # "collect"
  BY DEF Moving, Committing
<1>2. ASSUME NEW at \in {"charge", "persist"}, Go(worker, At(c, at))
      PROVE  \E d, q : /\ Moves(worker, c, d, q, ids, result)
                       /\ d # Idle => Free(d) /\ d.task = c.task
  <2> DEFINE d == At(c, at)
  <2>1. /\ Shaped(d, ids) /\ Resembles(d, c) /\ d # Idle
        /\ ~Touching(d) /\ ~Collecting(d) /\ ~Marking(d)
    BY <1>1, AtShaped
  <2>2. Go(worker, d)
    BY <1>2
  <2> HIDE DEF d
  <2>3. PICK q : Moves(worker, c, d, q, ids, result)
    BY <2>1, <2>2, GoMoves DEF Goes, Resembles
  <2>4. QED
    BY <2>1, <2>3 DEF Resembles, Free
<1>3. ASSUME NEW answer, answer = (IF result = "done" THEN "charged" ELSE "not-active"),
             call' = [call EXCEPT ![worker] = Idle], Answer(c, answer),
             UNCHANGED <<pending, marked, lost>>, result \in Final
      PROVE  Moves(worker, c, Idle, pending[worker], ids, result)
  <2>1. pending' = [pending EXCEPT ![worker] = pending[worker]] /\ pending[worker] \in Seq(Entries)
    BY <1>3 DEF Moving
  <2>2. Answers(worker, c, Idle, pending[worker], result)
    BY <1>3 DEF Answers, Answer
  <2>3. QED
    BY <1>3, <2>1, <2>2 DEF Moves, Turns, Goes
<1>4. CASE result = "done"
  <2>1. /\ call' = [call EXCEPT ![worker] = Idle] /\ Answer(c, "charged")
        /\ UNCHANGED <<pending, marked, lost>>
    BY <1>4 DEF Committed
  <2>2. QED
    BY <1>3, <1>4, <2>1 DEF Final
<1>5. CASE result = "gone" /\ c.task = "settle" /\ InWindow(c)
  BY <1>2, <1>5 DEF Committed
<1>6. CASE result = "not-active" \/ (result = "gone" /\ ~(c.task = "settle" /\ InWindow(c)))
  <2>1. /\ call' = [call EXCEPT ![worker] = Idle] /\ Answer(c, "not-active")
        /\ UNCHANGED <<pending, marked, lost>>
    BY <1>6 DEF Committed
  <2>2. result \in Final /\ result # "done"
    BY <1>6 DEF Final
  <2>3. QED
    BY <1>3, <2>1, <2>2
<1>7. CASE result \notin Final
  <2>1. IF c.task = "settle" THEN Go(worker, At(c, "persist"))
        ELSE Defer(worker, c, FALSE, FALSE)
    BY <1>7 DEF Committed, Final
  <2>2. CASE c.task = "settle"
    BY <1>2, <2>1, <2>2
  <2>3. CASE c.task # "settle"
    <3>1. PICK q : Moves(worker, c, Idle, q, ids, "failed")
      <4>1. Defer(worker, c, FALSE, FALSE)
        BY <2>1, <2>3
      <4>2. \E q : Moves(worker, c, Idle, q, ids, IF FALSE THEN "marked" ELSE "failed")
        BY <4>1, DeferMoves
      <4>3. QED
        BY <4>2
    <3>2. Moves(worker, c, Idle, q, ids, result)
      BY <3>1 DEF Moves, Keeps, Answers, Defers, Persists, Final
    <3>3. QED
      BY <3>2
  <2>4. QED
    BY <2>2, <2>3
<1>8. QED
  BY <1>4, <1>5, <1>6, <1>7 DEF Results, Final

LEMMA FinishMoves ==
  ASSUME NEW ids, NEW worker, NEW c, Moving(worker, c), c # Idle,
         NEW result \in Results, Finish(worker, c, result)
  PROVE  \E d, q : /\ Moves(worker, c, d, q, ids, result)
                   /\ d # Idle => Free(d) /\ (d.task = "resettle" => c.task = "resettle")
<1> DEFINE reported == IF c.task = "resettle" /\ result = "mismatch" THEN "failed" ELSE result
<1>1. reported \in Results
  BY DEF Results
<1>2. \A d, q : Moves(worker, c, d, q, ids, reported) => Moves(worker, c, d, q, ids, result)
  <2>1. CASE reported = result
    BY <2>1
  <2>2. CASE reported # result
    <3>1. result = "mismatch" /\ reported = "failed"
      BY <2>2
    <3>2. QED
      BY <3>1 DEF Moves, Keeps, Answers, Defers, Persists, Final
  <2>3. QED
    BY <2>1, <2>2
<1>3. IF c.entry # NoEntry THEN Drained(worker, c, reported)
      ELSE IF c.op = "commit" THEN Committed(worker, c, reported)
      ELSE Go(worker, Idle)
  BY DEF Finish
<1> HIDE DEF reported
<1>4. CASE c.entry # NoEntry
  <2>1. Drained(worker, c, reported)
    BY <1>3, <1>4
  <2>2. \E d, q : /\ Moves(worker, c, d, q, ids, reported)
                  /\ d # Idle => Free(d) /\ d.task # "resettle"
    BY <1>1, <1>4, <2>1, DrainedMoves
  <2>3. QED
    BY <1>2, <2>2
<1>5. CASE c.entry = NoEntry /\ c.op = "commit"
  <2>1. Committed(worker, c, reported)
    BY <1>3, <1>5
  <2>2. \E d, q : /\ Moves(worker, c, d, q, ids, reported)
                  /\ d # Idle => Free(d) /\ d.task = c.task
    BY <1>1, <1>5, <2>1, CommittedMoves
  <2>3. QED
    BY <1>2, <2>2
<1>6. CASE c.entry = NoEntry /\ c.op # "commit"
  <2>1. Go(worker, Idle)
    BY <1>3, <1>6
  <2>2. \E q : Moves(worker, c, Idle, q, ids, result)
    BY <1>6, <2>1, GoMoves DEF Goes
  <2>3. QED
    BY <2>2
<1>7. QED
  BY <1>4, <1>5, <1>6

-----------------------------------------------------------------------------
(* What a call finds out as it moves.  Passed is what a touch takes off    *)
(* the record although it found no commit on its marker.                   *)
InTime(id) == clock < SatAdd(reservations[id].expires_at, Ttl)

Passed(c) == (Due(c, c.read) \ (c.todo \cup c.owed)) \cup (IF c.claim = 0 THEN {} ELSE {c.claim})

Rereads(c, d) ==
  \/ /\ Touching(c) /\ d.read = c.read /\ d.task = c.task /\ d.entry = c.entry
     /\ \A id \in Passed(d) \ Passed(c) : MarkOf(id) # "commit" \/ "misread" \in Faults
  \/ Passed(d) = {} /\ (d.read = record \/ d.read = Missing)

Collects(c, d) ==
  /\ c.op = "collect" /\ d.claim = c.claim /\ d.mark = c.mark /\ d.read = c.read
  /\ Collecting(c) \/ ~OnRecord(c.claim) \/ "misread" \in Faults

Learns(c, d) ==
  /\ d.task = "resettle" =>
       c.task = "resettle" \/ Timeout = "commit" \/ MarkOf(Subject(c)) = "provisional"
  /\ Touching(d) => Rereads(c, d)
  /\ Marking(d) => d.entry = c.entry /\ (Marking(c) \/ InTime(Subject(c)))
  /\ d.op = "collect" => Collects(c, d)

Steps(worker, c, d, q, ids, result) ==
  Moves(worker, c, d, q, ids, result) /\ (d # Idle => Learns(c, d))

LEMMA FreeLearns ==
  ASSUME NEW c, NEW d, Free(d), d.task = "resettle" => c.task = "resettle", d.op # "collect"
  PROVE  Learns(c, d)
BY DEF Learns, Free

LEMMA FinishSteps ==
  ASSUME NEW ids, NEW worker, NEW c, Moving(worker, c), c # Idle, c.op # "collect",
         NEW result \in Results, Finish(worker, c, result)
  PROVE  \E d, q : Steps(worker, c, d, q, ids, result)
<1>1. PICK d, q : /\ Moves(worker, c, d, q, ids, result)
                  /\ d # Idle => Free(d) /\ (d.task = "resettle" => c.task = "resettle")
  BY FinishMoves
<1>2. d # Idle => d.op = c.op
  BY <1>1 DEF Moves, Goes, SameCall
<1>3. QED
  BY <1>1, <1>2, FreeLearns DEF Steps

LEMMA PersistedSteps ==
  ASSUME NEW ids, NEW worker, NEW c, Moving(worker, c), c # Idle, c.op # "collect",
         Committing(c), NEW persisted \in BOOLEAN, NEW blocked \in BOOLEAN,
         ~(persisted /\ blocked), Persisted(worker, c, persisted, blocked)
  PROVE  \E d, q : Steps(worker, c, d, q, ids, IF persisted THEN "marked" ELSE "failed")
<1>1. CASE c.entry = NoEntry
  <2>1. c.op = "commit" /\ Defer(worker, c, persisted, blocked)
    BY <1>1 DEF Committing, Persisted
  <2>2. \E q : Moves(worker, c, Idle, q, ids, IF persisted THEN "marked" ELSE "failed")
    BY <1>1, <2>1, DeferMoves
  <2>3. QED
    BY <2>2 DEF Steps
<1>2. CASE c.entry # NoEntry /\ persisted
  <2> DEFINE e == [c EXCEPT !.entry.persisted = TRUE, !.entry.blocked = FALSE]
             d == Attempt(e, "settle")
  <2>1. /\ call' = [call EXCEPT ![worker] = d]
        /\ marked' = marked \cup {c.entry.id}
        /\ UNCHANGED <<pending, answers, lost>>
    BY <1>2 DEF Persisted
  <2>2. c.entry \in Entries /\ Whole(c)
    BY <1>2 DEF Moving, Whole
  <2>3. /\ DOMAIN e = Fields /\ SameCall(e, c) /\ e.rounds = c.rounds
        /\ e.entry = [c.entry EXCEPT !.persisted = TRUE, !.blocked = FALSE]
    BY <2>2 DEF Whole, Fields, SameCall
  <2> HIDE DEF e
  <2>4. e.entry \in Entries /\ e.entry.id = c.entry.id /\ e.entry.persisted
    <3>1. c.entry \in [id : Nat \ {0}, persisted : BOOLEAN, attempts : 0 .. MissingAttempts - 1,
                       blocked : BOOLEAN]
      BY <2>2 DEF Entries
    <3> DEFINE entry == [c.entry EXCEPT !.persisted = TRUE, !.blocked = FALSE]
    <3>2. /\ entry \in [id : Nat \ {0}, persisted : BOOLEAN, attempts : 0 .. MissingAttempts - 1,
                        blocked : BOOLEAN]
          /\ entry.id = c.entry.id /\ entry.persisted /\ ~entry.blocked
      BY <3>1
    <3> HIDE DEF entry
    <3>3. entry \in Entries
      BY <3>2 DEF Entries
    <3>4. QED
      BY <2>3, <3>2, <3>3 DEF entry
  <2>5. Whole(e) /\ e.op = c.op
    BY <1>2, <2>2, <2>3, <2>4 DEF Whole, SameCall
  <2>6. Suits(e, "settle")
    BY <1>2, <2>2, <2>4, <2>5, EntryFacts DEF Suits, Whole
  <2>7. /\ Shaped(d, ids) /\ SameCall(d, e) /\ d.entry = e.entry /\ d.task = "settle"
        /\ d # Idle /\ ~Touching(d) /\ ~Collecting(d) /\ ~Marking(d)
    BY <2>5, <2>6, AttemptShaped
  <2> HIDE DEF d
  <2>8. Goes(c, d, ids) /\ d.op # "collect"
    BY <2>3, <2>7 DEF Goes, SameCall
  <2>9. pending' = [pending EXCEPT ![worker] = pending[worker]] /\ pending[worker] \in Seq(Entries)
    BY <2>1 DEF Moving
  <2>10. Persists(worker, c, d, pending[worker], "marked")
    BY <1>2, <2>1, <2>4, <2>7 DEF Persists
  <2>11. Moves(worker, c, d, pending[worker], ids, "marked")
    BY <2>1, <2>8, <2>9, <2>10 DEF Moves, Turns
  <2>12. Learns(c, d)
    BY <2>7, <2>8, FreeLearns DEF Free
  <2>13. QED
    BY <1>2, <2>11, <2>12 DEF Steps
<1>3. CASE c.entry # NoEntry /\ ~persisted
  <2> DEFINE d == At(c, "room")
  <2>1. Go(worker, d)
    BY <1>3 DEF Persisted
  <2>2. /\ Shaped(d, ids) /\ Resembles(d, c) /\ d # Idle
        /\ ~Touching(d) /\ ~Collecting(d) /\ ~Marking(d)
    BY <1>3, AtShaped DEF Moving
  <2> HIDE DEF d
  <2>3. /\ Goes(c, d, ids) /\ d.op # "collect" /\ d.entry = c.entry /\ d.task = c.task
    BY <2>2 DEF Goes, Resembles, SameCall
  <2>4. PICK q : Moves(worker, c, d, q, ids, "failed")
    BY <2>1, <2>2, <2>3, GoMoves
  <2>5. Learns(c, d)
    BY <2>2, <2>3, FreeLearns DEF Free
  <2>6. QED
    BY <1>3, <2>4, <2>5 DEF Steps
<1>4. QED
  BY <1>1, <1>2, <1>3

(* A touch goes on to its next claim, or to its write.                     *)
LEMMA ClaimingSteps ==
  ASSUME NEW ids, NEW worker, NEW c, Moving(worker, c), Shaped(c, ids), Touching(c),
         NEW todo \in SUBSET c.todo, NEW owed, c.owed \subseteq owed, owed \subseteq c.owed \cup c.todo,
         \A id \in c.todo \ (todo \cup owed) :
           \/ c.claim # 0 /\ id = c.claim
           \/ MarkOf(id) # "commit" \/ "misread" \in Faults,
         Go(worker, Claiming(c, todo, owed)), NEW result
  PROVE  \E d, q : Steps(worker, c, d, q, ids, result)
<1> DEFINE d == Claiming(c, todo, owed)
<1>1. /\ Whole(c) /\ TaskOK(c) /\ Reading(c, ids) /\ c.op # "collect" /\ c # Idle
  <2>1. c # Idle
    BY DEF Touching, Idle
  <2>2. QED
    BY <2>1 DEF Shaped, TaskOK, Suits
<1>2. todo \cup owed \subseteq Due(c, c.read)
  BY <1>1 DEF Reading
<1>3. /\ Shaped(d, ids) /\ Resembles(d, c) /\ d # Idle
      /\ d.read = c.read /\ d.todo = todo /\ d.owed = owed /\ d.claim = 0
      /\ Touching(d) /\ ~Collecting(d) /\ ~Marking(d)
  BY <1>1, <1>2, ClaimingShaped DEF Reading
<1> HIDE DEF d
<1>4. Due(d, d.read) = Due(c, c.read) /\ d.entry = c.entry /\ d.task = c.task /\ d.op = c.op
  BY <1>1, <1>3, ResemblesWhole DEF Resembles, SameCall
<1>5. Rereads(c, d)
  <2>1. \A id \in Passed(d) \ Passed(c) : MarkOf(id) # "commit" \/ "misread" \in Faults
    <3> TAKE id \in Passed(d) \ Passed(c)
    <3>1. id \in Due(c, c.read) /\ id \notin todo \cup owed
      BY <1>3, <1>4 DEF Passed
    <3>2. id \in c.todo \cup c.owed
      BY <3>1 DEF Passed
    <3>3. id \in c.todo \ (todo \cup owed)
      BY <3>1, <3>2
    <3>4. c.claim # id \/ c.claim = 0
      BY DEF Passed
    <3>5. QED
      <4>1. CASE id = c.claim
        BY <3>3, <3>4, <4>1
      <4>2. CASE id # c.claim
        BY <3>3, <4>2
      <4>3. QED
        BY <4>1, <4>2
  <2>2. QED
    BY <1>3, <1>4, <2>1 DEF Rereads
<1>6. Learns(c, d)
  BY <1>1, <1>3, <1>4, <1>5 DEF Learns
<1>7. Goes(c, d, ids)
  BY <1>3 DEF Goes, Resembles
<1>8. Go(worker, d)
  BY DEF d
<1>9. PICK q : Moves(worker, c, d, q, ids, result)
  BY <1>1, <1>3, <1>4, <1>7, <1>8, GoMoves
<1>10. QED
  BY <1>6, <1>9 DEF Steps

LEMMA AtSteps ==
  ASSUME NEW ids, NEW worker, NEW c, Moving(worker, c), c # Idle, c.op # "collect",
         Committing(c), NEW at \in {"persist", "charge", "remark", "room"},
         at = "room" => c.entry # NoEntry,
         at = "remark" => Marking(c) \/ InTime(Subject(c)),
         Go(worker, At(c, at)), NEW result
  PROVE  \E d, q : Steps(worker, c, d, q, ids, result)
<1> DEFINE d == At(c, at)
<1>1. /\ Shaped(d, ids) /\ Resembles(d, c) /\ d # Idle
      /\ ~Touching(d) /\ ~Collecting(d) /\ (Marking(d) <=> at = "remark")
  BY AtShaped DEF Moving
<1>2. Go(worker, d)
  OBVIOUS
<1> HIDE DEF d
<1>3. /\ Goes(c, d, ids) /\ d.op # "collect" /\ d.entry = c.entry /\ d.task = c.task
  BY <1>1 DEF Goes, Resembles, SameCall
<1>4. PICK q : Moves(worker, c, d, q, ids, result)
  BY <1>1, <1>2, <1>3, GoMoves
<1>5. Learns(c, d)
  BY <1>1, <1>3 DEF Learns
<1>6. QED
  BY <1>4, <1>5 DEF Steps

LEMMA AttemptSteps ==
  ASSUME NEW ids, NEW worker, NEW c, Moving(worker, c), c # Idle \/ c.entry = NoEntry,
         NEW task, Suits(c, task),
         task = "resettle" =>
           c.task = "resettle" \/ Timeout = "commit" \/ MarkOf(Subject(c)) = "provisional",
         Go(worker, Attempt(c, task)), NEW result
  PROVE  \E d, q : Steps(worker, c, d, q, ids, result)
<1> DEFINE d == Attempt(c, task)
<1>1. /\ Shaped(d, ids) /\ SameCall(d, c) /\ d.entry = c.entry /\ d.task = task
      /\ d # Idle /\ ~Touching(d) /\ ~Collecting(d) /\ ~Marking(d)
  BY AttemptShaped DEF Moving
<1>2. Go(worker, d)
  OBVIOUS
<1> HIDE DEF d
<1>3. /\ Goes(c, d, ids) /\ d.op # "collect"
  BY <1>1 DEF Goes, SameCall, Suits
<1>4. PICK q : Moves(worker, c, d, q, ids, result)
  BY <1>1, <1>2, <1>3, GoMoves
<1>5. Learns(c, d)
  BY <1>1, <1>3 DEF Learns
<1>6. QED
  BY <1>4, <1>5 DEF Steps

LEMMA MarkEndsSteps ==
  ASSUME NEW ids, NEW worker, NEW c, Moving(worker, c), Shaped(c, ids),
         c.at \in {"slot", "mark", "unslot"},
         NEW outcome \in {"marked", "full", "failed", "mismatch"}, MarkEnds(worker, c, outcome)
  PROVE  \E d, q, result : /\ Steps(worker, c, d, q, ids, result) /\ result \notin Final
                           /\ result = "marked" => Marking(c) /\ outcome = "marked"
<1>1. /\ c # Idle /\ c.op # "collect"
  <2>1. ~Collecting(c) /\ c.at # "held"
    BY DEF Collecting
  <2>2. QED
    BY <2>1 DEF Idle, Shaped
<1>2. CASE c.claim = 0
  <2>1. Marking(c) /\ Committing(c)
    BY <1>2 DEF Marking, Shaped
  <2>2. Persisted(worker, c, outcome = "marked", outcome = "full")
    BY <1>2 DEF MarkEnds, Persisting
  <2> DEFINE persisted == outcome = "marked"
             blocked == outcome = "full"
  <2>3. persisted \in BOOLEAN /\ blocked \in BOOLEAN /\ ~(persisted /\ blocked)
    OBVIOUS
  <2>4. Persisted(worker, c, persisted, blocked)
    BY <2>2
  <2> HIDE DEF persisted, blocked
  <2>5. \E d, q : Steps(worker, c, d, q, ids, IF persisted THEN "marked" ELSE "failed")
    BY <1>1, <2>1, <2>3, <2>4, PersistedSteps
  <2>6. QED
    BY <2>1, <2>5 DEF Final, persisted
<1>3. CASE c.claim # 0
  <2>1. Touching(c)
    BY <1>3 DEF Touching
  <2>2. CASE outcome \in {"failed", "mismatch"}
    <3>1. Finish(worker, c, outcome) /\ outcome \in Results
      BY <1>3, <2>2 DEF MarkEnds, Persisting, Results
    <3>2. \E d, q : Steps(worker, c, d, q, ids, outcome)
      BY <1>1, <3>1, FinishSteps
    <3>3. QED
      BY <2>2, <3>2 DEF Final
  <2>3. CASE outcome \notin {"failed", "mismatch"}
    <3>1. Go(worker, Claiming(c, c.todo \ {c.claim}, c.owed))
      BY <1>3, <2>3 DEF MarkEnds, Persisting
    <3> DEFINE todo == c.todo \ {c.claim}
    <3>2. /\ todo \in SUBSET c.todo
          /\ \A id \in c.todo \ (todo \cup c.owed) :
               \/ c.claim # 0 /\ id = c.claim
               \/ MarkOf(id) # "commit" \/ "misread" \in Faults
      BY <1>3
    <3>3. Go(worker, Claiming(c, todo, c.owed))
      BY <3>1
    <3> HIDE DEF todo
    <3>4. \E d, q : Steps(worker, c, d, q, ids, "full")
      BY <2>1, <3>2, <3>3, ClaimingSteps
    <3>5. QED
      BY <3>4 DEF Final
  <2>4. QED
    BY <2>2, <2>3
<1>4. QED
  BY <1>2, <1>3

LEMMA MarkAgainSteps ==
  ASSUME NEW ids, NEW worker, NEW c, Moving(worker, c), Shaped(c, ids),
         c.at \in {"slot", "mark", "unslot"}, MarkAgain(worker, c)
  PROVE  \E d, q : Steps(worker, c, d, q, ids, "mismatch")
<1>1. /\ c # Idle /\ c.op # "collect"
  <2>1. ~Collecting(c) /\ c.at # "held"
    BY DEF Collecting
  <2>2. QED
    BY <2>1 DEF Idle, Shaped
<1>2. CASE c.claim = 0
  <2>1. Marking(c) /\ Committing(c)
    BY <1>2 DEF Marking, Shaped
  <2>2. Go(worker, At(c, "remark"))
    BY <1>2 DEF MarkAgain, Persisting
  <2>3. QED
    BY <1>1, <2>1, <2>2, AtSteps
<1>3. CASE c.claim # 0
  <2>1. Touching(c) /\ TaskOK(c)
    BY <1>3 DEF Touching, Shaped
  <2>2. CASE Go(worker, Claiming(c, c.todo, c.owed))
    BY <2>1, <2>2, ClaimingSteps
  <2>3. CASE Go(worker, Attempt(c, c.task))
    BY <1>1, <2>1, <2>3, AttemptSteps DEF TaskOK
  <2>4. QED
    BY <1>3, <2>2, <2>3 DEF MarkAgain, Persisting
<1>4. QED
  BY <1>2, <1>3

-----------------------------------------------------------------------------
(* The invariant every theorem rests on: the types of the shared data and  *)
(* of the calls; that what a call and a queue refer to is where the call's *)
(* history puts it; and that no two calls own one reservation.             *)
Typed ==
  /\ clock \in Nat /\ next_id \in 1 .. (MaxId + 1) /\ marker_count \in Nat
  /\ charges \in [1 .. MaxId -> Nat]
  /\ DOMAIN call = Workers /\ pending \in [Workers -> Seq(Entries)]
  /\ DOMAIN markers \subseteq Ids
  /\ \A id \in DOMAIN markers : markers[id] \in [mark : Marks, expires_at : Nat]
  /\ DOMAIN reservations \subseteq Ids
  /\ \A id \in DOMAIN reservations :
       reservations[id] \in [contribution : Contributions, expires_at : Nat]
  /\ settled \subseteq DOMAIN reservations /\ DOMAIN answers \subseteq settled
  /\ marked \subseteq DOMAIN answers

Bound(c) ==
  /\ c.now <= clock
  /\ c.op = "reserve" =>
       /\ c.id \in Ids \ DOMAIN reservations /\ ~Holds(Base(record), c.id)
       /\ charges[c.id] = 0 /\ c.id \notin late /\ c.units \in Contributions
  /\ c.op \in {"commit", "release"} => c.id \in settled \ DOMAIN answers

Calls == \A worker \in Workers :
  call[worker] # Idle => Shaped(call[worker], Ids) /\ Bound(call[worker])

Queues == \A worker \in Workers : \A e \in Carried(pending[worker], call[worker]) :
  e.id \in DOMAIN answers /\ (e.persisted => e.id \in marked)

Owning(c) == c # Idle /\ c.op \in {"reserve", "commit", "release"}

Apart == \A w, x \in Workers :
  w # x /\ Owning(call[w]) /\ Owning(call[x]) => call[w].id # call[x].id

(* What has not been given out has not been charged.                       *)
Fresh == \A id \in next_id .. MaxId : charges[id] = 0 /\ id \notin late

Inv == /\ Typed /\ Calls /\ Queues /\ Apart /\ Fresh
       /\ Recorded(record, Ids, reservations, charges, late)

LEMMA IdsFinite ==
  ASSUME Typed PROVE Ids \subseteq 1 .. MaxId /\ IsFiniteSet(Ids) /\ Ids \subseteq Nat \ {0}
<1>1. Ids \subseteq 1 .. MaxId /\ Ids = 1 .. (next_id - 1) /\ next_id - 1 \in Int
  BY BoundsAssumption DEF Typed, Ids
<1>2. IsFiniteSet(1 .. (next_id - 1))
  BY <1>1, FS_Interval
<1>3. QED
  BY <1>1, <1>2

LEMMA CallFacts ==
  ASSUME Inv, NEW worker \in Workers, call[worker] # Idle
  PROVE  /\ Moving(worker, call[worker]) /\ Shaped(call[worker], Ids) /\ Bound(call[worker])
         /\ call[worker].entry # NoEntry =>
              /\ call[worker].entry.id \in DOMAIN answers
              /\ call[worker].entry.persisted => call[worker].entry.id \in marked
         /\ (Settles(call[worker]) /\ TaskOK(call[worker])) \/ Committing(call[worker]) =>
              Subject(call[worker]) \in settled
<1> DEFINE c == call[worker]
<1>1. Shaped(c, Ids) /\ Bound(c) /\ Whole(c) /\ pending \in [Workers -> Seq(Entries)]
  BY DEF Inv, Calls, Shaped, Typed
<1>2. c.entry # NoEntry => /\ c.entry.id \in DOMAIN answers
                           /\ c.entry.persisted => c.entry.id \in marked
  BY DEF Inv, Queues, Carried
<1>3. /\ settled \subseteq DOMAIN reservations /\ DOMAIN answers \subseteq settled
      /\ DOMAIN reservations \subseteq Ids /\ Ids \subseteq Nat \ {0}
  BY IdsFinite DEF Inv, Typed
<1> HIDE DEF c
<1>4. Moving(worker, c)
  BY <1>1, <1>3 DEF Moving, Bound
<1>5. (Settles(c) /\ TaskOK(c)) \/ Committing(c) => Subject(c) \in settled
  <2> HAVE (Settles(c) /\ TaskOK(c)) \/ Committing(c)
  <2>1. c.entry # NoEntry \/ c.op \in {"commit", "release"}
    BY DEF Settles, TaskOK, Suits, Committing, Settling
  <2>2. QED
    BY <1>1, <1>2, <1>3, <2>1 DEF Subject, Bound
<1>6. QED
  BY <1>1, <1>2, <1>4, <1>5 DEF c

(* A call whose write is due computes what it may write.                   *)
LEMMA PutFacts ==
  ASSUME Inv, NEW worker \in Workers, call[worker].at = "put"
  PROVE  LET c == call[worker]
         IN  /\ c # Idle /\ Ready(c, Ids) /\ c.todo = {} /\ TaskOK(c) /\ Touching(c)
             /\ Settling(c) \/ c.task = "sweep" => c.read.kind = "live"
             /\ Chargeable(c) /\ Lawful(c, reservations, charges, late)
             /\ c.task = "reserve" => c.id \in Ids /\ c.units \in 1 .. MaxUnits
             /\ Settles(c) => Subject(c) \in settled
<1> DEFINE c == call[worker]
<1>1. c # Idle
  BY DEF Idle
<1>2. /\ Shaped(c, Ids) /\ Bound(c)
      /\ Settles(c) /\ TaskOK(c) => Subject(c) \in settled
  BY <1>1, CallFacts
<1>3. Touching(c)
  BY DEF Touching
<1> HIDE DEF c
<1>4. TaskOK(c) /\ Reading(c, Ids) /\ Whole(c) /\ c.at = "put" /\ Shaped(c, Ids) /\ Bound(c)
  BY <1>2, <1>3 DEF Shaped, c
<1>5. Settles(c) => Subject(c) \in settled
  BY <1>2, <1>4
<1>6. Ready(c, Ids)
  BY <1>4, IdsFinite DEF Ready, Inv, Reading, Whole, TaskOK, Suits
<1>7. c.todo = {} /\ (Settling(c) \/ c.task = "sweep" => c.read.kind = "live")
  BY <1>4 DEF Reading
<1>8. Chargeable(c)
  <2> SUFFICES ASSUME c.task = "charge" PROVE reservations[Subject(c)].contribution \in Nat
    BY DEF Chargeable
  <2>1. Subject(c) \in DOMAIN reservations
    BY <1>5 DEF Settles, Inv, Typed
  <2>2. reservations[Subject(c)].contribution \in 1 .. MaxUnits
    BY <2>1, ContributionsAssumption DEF Inv, Typed
  <2>3. QED
    BY <2>2, WidthAssumption
<1>9. c.task = "reserve" => /\ c.op = "reserve" /\ c.id \in Ids \ DOMAIN reservations
                            /\ charges[c.id] = 0 /\ c.id \notin late
                            /\ c.units \in Contributions
  BY <1>4 DEF TaskOK, Suits, Bound
<1>10. Lawful(c, reservations, charges, late)
  BY <1>5, <1>9 DEF Lawful, Inv, Typed
<1>11. QED
  BY <1>1, <1>3, <1>4, <1>5, <1>6, <1>7, <1>8, <1>9, <1>10, ContributionsAssumption DEF c

-----------------------------------------------------------------------------
(* What a step of a call does.                                             *)
MarkIn(map, id) == IF id \in DOMAIN map THEN map[id].mark ELSE NoMark

stored == <<record, charges, late, reservations>>

Granted(c) ==
  /\ c.task = "reserve" /\ ~RefusedOnRecord(c)
  /\ reservations' = Put(reservations, c.id,
                         [contribution |-> c.units, expires_at |-> SatAdd(c.now, Ttl)])

Landed(c) == /\ c.at = "put" /\ c.read = record /\ Land(c)
             /\ UNCHANGED reservations \/ Granted(c)

Remarked(c) ==
  \/ UNCHANGED markers
  \/ c.at = "mark" /\ MarkWins(MarkId(c), c.mark) /\ markers' = Stamped(c)
  \/ /\ Collecting(c)
     /\ \/ markers' = MarkAs(c, "collecting") \/ markers' = MarkAs(c, c.mark)
        \/ markers' = Restrict(markers, DOMAIN markers \ {c.claim})

(* An attempt that has ended for good found no record, or found nothing to *)
(* settle, or wrote what it is for.                                        *)
Ended(c, result) ==
  \/ /\ c.at = "read" /\ result = "gone"
     /\ Settling(c) \/ c.task = "sweep"
     /\ record.kind # "live" \/ "misread" \in Faults
  \/ /\ c.at = "put" /\ result = "not-active" /\ Settling(c) /\ Applied(c) = "not-active"
     /\ Landed(c) \/ (Unwritten(c) /\ UNCHANGED stored)
  \/ /\ c.at = "put" /\ result = "done"
     /\ Settles(c) => Landed(c) /\ (Settling(c) => Applied(c) # "not-active")

Does(worker, c, d, q, result) ==
  /\ Steps(worker, c, d, q, Ids, result)
  /\ UNCHANGED <<clock, next_id, settled>> /\ marker_count' \in Nat
  /\ Landed(c) \/ UNCHANGED stored
  /\ Remarked(c)
  /\ c.at = "put" /\ c.task = "reserve" /\ c.read = record => d = Idle
  /\ result = "marked" => Marking(c) /\ MarkIn(markers', Subject(c)) \in {"commit", "provisional"}
  /\ result \in Final => Ended(c, result)

(* A step that leaves the record alone.                                    *)
LEMMA QuietDoes ==
  ASSUME NEW worker, NEW c, NEW d, NEW q, NEW result, Steps(worker, c, d, q, Ids, result),
         UNCHANGED <<clock, next_id, settled, record, charges, late, reservations>>,
         marker_count' \in Nat, Remarked(c), c.at # "put",
         result = "marked" => Marking(c) /\ MarkIn(markers', Subject(c)) \in {"commit", "provisional"},
         result \in Final => Ended(c, result)
  PROVE  Does(worker, c, d, q, result)
BY DEF Does, stored

LEMMA ReadRecordDoes ==
  ASSUME Inv, NEW worker \in Workers, ReadRecord(worker)
  PROVE  \E d, q, result : Does(worker, call[worker], d, q, result)
<1> DEFINE c == call[worker]
<1>1. PICK answer \in ReadAnswers :
        /\ HostRead(answer)
        /\ IF answer = "error" THEN Finish(worker, c, "failed")
           ELSE Found(worker, c, IF answer = "value" THEN record ELSE Missing)
  BY DEF ReadRecord
<1>2. /\ c.at = "read" /\ UNCHANGED <<clock, next_id, settled, record, charges, late, reservations>>
      /\ Remarked(c) /\ marker_count' \in Nat
  BY DEF ReadRecord, shared, Remarked, Inv, Typed
<1>3. /\ c # Idle /\ Moving(worker, c) /\ Shaped(c, Ids)
  <2>1. c # Idle
    BY <1>2 DEF Idle
  <2>2. QED
    BY <2>1, CallFacts
<1> HIDE DEF c
<1>4. /\ Whole(c) /\ TaskOK(c) /\ c.op # "collect"
  BY <1>2, <1>3 DEF Shaped, TaskOK, Suits
<1>5. ASSUME NEW d, NEW q, NEW result, Steps(worker, c, d, q, Ids, result),
             result # "marked", result \in Final => Ended(c, result)
      PROVE  \E e, p, r : Does(worker, c, e, p, r)
  BY <1>2, <1>5, QuietDoes
<1>6. CASE answer = "error"
  <2>1. Finish(worker, c, "failed")
    BY <1>1, <1>6
  <2>2. PICK d, q : Steps(worker, c, d, q, Ids, "failed")
    BY <1>3, <1>4, <2>1, FinishSteps DEF Results
  <2>3. QED
    BY <1>5, <2>2 DEF Final, c
<1>7. CASE answer # "error"
  <2> DEFINE value == IF answer = "value" THEN record ELSE Missing
  <2>1. Found(worker, c, value)
    BY <1>1, <1>7
  <2>2. /\ ReadOK(value, Ids) /\ (value = record \/ value = Missing)
        /\ value = record \/ "misread" \in Faults
    BY <1>1, <1>7 DEF Inv, Recorded, ReadOK, ReadAnswers, HostRead, Fails
  <2> HIDE DEF value
  <2>3. CASE value.kind # "live" /\ (Settling(c) \/ c.task = "sweep")
    <3>1. Finish(worker, c, "gone")
      BY <2>1, <2>3 DEF Found
    <3>2. PICK d, q : Steps(worker, c, d, q, Ids, "gone")
      BY <1>3, <1>4, <3>1, FinishSteps DEF Results, Final
    <3>3. Ended(c, "gone")
      BY <1>2, <2>2, <2>3 DEF Ended
    <3>4. QED
      BY <1>5, <3>2, <3>3 DEF c
  <2>4. CASE ~(value.kind # "live" /\ (Settling(c) \/ c.task = "sweep"))
    <3> DEFINE b == [c EXCEPT !.read = value]
               d == Claiming(b, Due(c, value), {})
    <3>1. Go(worker, d)
      BY <2>1, <2>4 DEF Found
    <3>2. Resembles(b, c) /\ b.read = value
      BY <1>4 DEF Resembles, SameCall, Whole, Fields
    <3> HIDE DEF b
    <3>3. /\ Whole(b) /\ TaskOK(b) /\ Settling(b) = Settling(c) /\ b.task = c.task
          /\ Due(b, b.read) = Due(c, value)
      BY <1>4, <3>2, ResemblesWhole DEF Resembles
    <3> DEFINE todo == Due(c, value)
               none == {}
    <3>4. todo \cup none \subseteq Due(b, b.read) /\ ReadOK(b.read, Ids)
          /\ (Settling(b) \/ b.task = "sweep" => b.read.kind = "live")
      BY <2>2, <2>4, <3>2, <3>3
    <3>5. d = Claiming(b, todo, none)
      OBVIOUS
    <3> HIDE DEF todo, d, none
    <3>6. /\ Shaped(d, Ids) /\ Resembles(d, b) /\ d # Idle
          /\ d.read = b.read /\ d.todo = todo /\ d.owed = none /\ d.claim = 0
          /\ Touching(d) /\ ~Collecting(d) /\ ~Marking(d)
      <4>1. Whole(b)
        BY <3>3
      <4>2. TaskOK(b)
        BY <3>3
      <4>3. ReadOK(b.read, Ids)
        BY <3>4
      <4>4. Settling(b) \/ b.task = "sweep" => b.read.kind = "live"
        BY <3>4
      <4>5. todo \cup none \subseteq Due(b, b.read)
        BY <3>4
      <4>6. QED
        BY <3>5, <4>1, <4>2, <4>3, <4>4, <4>5, ClaimingShaped
    <3>7. Resembles(d, c)
      BY <3>2, <3>6 DEF Resembles, SameCall
    <3>8. Due(d, d.read) = todo /\ d.entry = c.entry /\ d.task = c.task /\ d.op = c.op
      BY <1>4, <3>2, <3>6, <3>7, ResemblesWhole DEF Resembles, SameCall, todo
    <3>9. Rereads(c, d)
      BY <2>2, <3>2, <3>6, <3>8 DEF Rereads, Passed
    <3>10. Learns(c, d)
      BY <1>4, <3>6, <3>8, <3>9 DEF Learns
    <3>11. Goes(c, d, Ids)
      BY <3>6, <3>7 DEF Goes, Resembles
    <3>12. PICK q : Moves(worker, c, d, q, Ids, "failed")
      BY <1>3, <3>1, <3>6, <3>8, <3>11, GoMoves
    <3>13. Steps(worker, c, d, q, Ids, "failed")
      BY <3>10, <3>12 DEF Steps
    <3>14. QED
      BY <1>5, <3>13 DEF Final, c
  <2>5. QED
    BY <2>3, <2>4
<1>8. QED
  BY <1>6, <1>7

(* A call that turns to a marker, or from its slot to its write.           *)
LEMMA PlaceSteps ==
  ASSUME NEW ids, NEW worker, NEW c, Moving(worker, c), Shaped(c, ids),
         c.at \in {"slot", "mark", "unslot"}, NEW at \in {"slot", "mark", "unslot"},
         Go(worker, [c EXCEPT !.at = at])
  PROVE  \E d, q : Steps(worker, c, d, q, ids, "failed")
<1> DEFINE d == [c EXCEPT !.at = at]
<1>1. Whole(c)
  BY DEF Moving
<1>2. /\ Resembles(d, c) /\ d.at = at /\ d.read = c.read /\ d.todo = c.todo /\ d.owed = c.owed
      /\ d.claim = c.claim /\ d.mark = c.mark
  BY <1>1 DEF Whole, Resembles, SameCall, Fields
<1>3. Go(worker, d)
  OBVIOUS
<1> HIDE DEF d
<1>4. /\ Whole(d) /\ TaskOK(d) = TaskOK(c) /\ Settling(d) = Settling(c) /\ d.task = c.task
      /\ Committing(d) = Committing(c) /\ Due(d, d.read) = Due(c, c.read)
      /\ d.op = c.op /\ d.entry = c.entry
  BY <1>1, <1>2, ResemblesWhole DEF Resembles, SameCall
<1>5. /\ Touching(d) <=> Touching(c)
      /\ Marking(d) <=> Marking(c)
      /\ ~Collecting(d) /\ ~Collecting(c)
  <2>1. Touching(d) <=> Touching(c)
    BY <1>2 DEF Touching
  <2>2. Marking(d) <=> Marking(c)
    BY <1>2 DEF Marking
  <2>3. ~Collecting(d) /\ ~Collecting(c)
    BY <1>2 DEF Collecting
  <2>4. QED
    BY <2>1, <2>2, <2>3
<1>6. c.op # "collect" /\ (Touching(c) => TaskOK(c) /\ Reading(c, ids))
      /\ (Marking(c) => Committing(c)) /\ c.mark \in Marks \cup {NoMark}
  BY <1>5 DEF Shaped
<1>7. Touching(c) => Reading(d, ids)
  BY <1>2, <1>4, <1>6 DEF Reading
<1>8. Shaped(d, ids)
  BY <1>2, <1>4, <1>5, <1>6, <1>7 DEF Shaped, Places
<1>9. Rereads(c, d) \/ ~Touching(c)
  <2>1. Passed(d) = Passed(c)
    BY <1>2, <1>4 DEF Passed
  <2>2. QED
    BY <1>2, <1>4, <2>1 DEF Rereads
<1>10. Learns(c, d)
  BY <1>4, <1>5, <1>6, <1>9 DEF Learns
<1>11. d # Idle /\ c # Idle
  BY <1>2 DEF Idle
<1>12. Goes(c, d, ids)
  BY <1>2, <1>8 DEF Goes, Resembles
<1>13. PICK q : Moves(worker, c, d, q, ids, "failed")
  BY <1>3, <1>4, <1>11, <1>12, GoMoves
<1>14. QED
  BY <1>10, <1>13 DEF Steps

LEMMA ClaimDoes ==
  ASSUME Inv, NEW worker \in Workers, Claim(worker)
  PROVE  \E d, q, result : Does(worker, call[worker], d, q, result)
<1> DEFINE c == call[worker]
<1>1. PICK id \in c.todo, answer \in ReadAnswers :
        /\ HostRead(answer)
        /\ IF answer = "error" THEN Finish(worker, c, "failed")
           ELSE ClaimSees(worker, c, id, IF answer = "value" THEN MarkOf(id) ELSE NoMark)
  BY DEF Claim
<1>2. /\ c.at = "claim" /\ UNCHANGED <<clock, next_id, settled, record, charges, late, reservations>>
      /\ Remarked(c) /\ marker_count' \in Nat
  BY DEF Claim, shared, Remarked, Inv, Typed
<1>3. /\ c # Idle /\ Moving(worker, c) /\ Shaped(c, Ids)
  <2>1. c # Idle
    BY <1>2 DEF Idle
  <2>2. QED
    BY <2>1, CallFacts
<1> HIDE DEF c
<1>4. /\ Whole(c) /\ Touching(c) /\ TaskOK(c) /\ Reading(c, Ids) /\ c.op # "collect"
  <2>1. Touching(c)
    BY <1>2 DEF Touching
  <2>2. QED
    BY <1>3, <2>1 DEF Shaped, TaskOK, Suits
<1>5. ASSUME NEW d, NEW q, NEW result, Steps(worker, c, d, q, Ids, result),
             result \notin Final \cup {"marked"}
      PROVE  \E e, p, r : Does(worker, c, e, p, r)
  BY <1>2, <1>5, QuietDoes
<1>6. CASE answer = "error"
  <2>1. Finish(worker, c, "failed")
    BY <1>1, <1>6
  <2>2. PICK d, q : Steps(worker, c, d, q, Ids, "failed")
    BY <1>3, <1>4, <2>1, FinishSteps DEF Results
  <2>3. QED
    BY <1>5, <2>2 DEF Final, c
<1>7. CASE answer # "error"
  <2> DEFINE mark == IF answer = "value" THEN MarkOf(id) ELSE NoMark
  <2>1. ClaimSees(worker, c, id, mark)
    BY <1>1, <1>7
  <2>2. /\ mark = MarkOf(id) \/ "misread" \in Faults
        /\ mark \in Marks \cup {NoMark}
    BY <1>1, <1>7 DEF Inv, Typed, MarkOf, ReadAnswers, HostRead, Fails
  <2>3. id \in Due(c, c.read) /\ id # 0
    <3>1. id \in Due(c, c.read)
      BY <1>1, <1>4 DEF Reading
    <3>2. Due(c, c.read) \subseteq Ids
      BY <1>4, IdsFinite, DueIs DEF Inv, Reading, Whole
    <3>3. QED
      BY <3>1, <3>2, IdsFinite DEF Inv
  <2> HIDE DEF mark
  <2>4. CASE IsCommit(mark)
    <3>1. Go(worker, Claiming(c, c.todo \ {id}, c.owed \cup {id}))
      BY <2>1, <2>4 DEF ClaimSees
    <3> DEFINE todo == c.todo \ {id}
               owed == c.owed \cup {id}
    <3>2. /\ todo \in SUBSET c.todo /\ c.owed \subseteq owed /\ owed \subseteq c.owed \cup c.todo
          /\ c.todo \ (todo \cup owed) = {}
      BY <1>1
    <3>3. Go(worker, Claiming(c, todo, owed))
      BY <3>1
    <3> HIDE DEF todo, owed
    <3>4. PICK d, q : Steps(worker, c, d, q, Ids, "failed")
      BY <1>3, <1>4, <3>2, <3>3, ClaimingSteps
    <3>5. QED
      BY <1>5, <3>4 DEF Final, c
  <2>5. CASE ~IsCommit(mark) /\ IsClaimed(c, id, mark)
    <3>1. Go(worker, Claiming(c, c.todo \ {id}, c.owed))
      BY <2>1, <2>5 DEF ClaimSees
    <3> DEFINE todo == c.todo \ {id}
    <3>2. /\ todo \in SUBSET c.todo
          /\ \A i \in c.todo \ (todo \cup c.owed) : i = id
      BY <1>1
    <3>3. Go(worker, Claiming(c, todo, c.owed))
      BY <3>1
    <3> HIDE DEF todo
    <3>4. \A i \in c.todo \ (todo \cup c.owed) :
            \/ c.claim # 0 /\ i = c.claim
            \/ MarkOf(i) # "commit" \/ "misread" \in Faults
      BY <2>2, <2>5, <3>2 DEF IsCommit
    <3>5. PICK d, q : Steps(worker, c, d, q, Ids, "failed")
      BY <1>3, <1>4, <3>2, <3>3, <3>4, ClaimingSteps
    <3>6. QED
      BY <1>5, <3>5 DEF Final, c
  <2>6. CASE ~IsCommit(mark) /\ ~IsClaimed(c, id, mark)
    <3> DEFINE d == [c EXCEPT !.at = IF mark = NoMark THEN "slot" ELSE "mark",
                              !.claim = id, !.mark = mark]
    <3>1. Go(worker, d)
      BY <2>1, <2>6 DEF ClaimSees
    <3>2. /\ Resembles(d, c) /\ d.at \in {"slot", "mark"}
          /\ d.read = c.read /\ d.todo = c.todo /\ d.owed = c.owed
          /\ d.claim = id /\ d.mark = mark
      BY <1>4 DEF Whole, Resembles, SameCall, Fields
    <3> HIDE DEF d
    <3>3. /\ Whole(d) /\ TaskOK(d) /\ Settling(d) = Settling(c) /\ d.task = c.task
          /\ Due(d, d.read) = Due(c, c.read) /\ d.op = c.op /\ d.entry = c.entry
      BY <1>4, <3>2, ResemblesWhole DEF Resembles, SameCall
    <3>4. Touching(d) /\ ~Marking(d) /\ ~Collecting(d) /\ d # Idle
      BY <2>3, <3>2 DEF Touching, Marking, Collecting, Idle
    <3>5. mark # "commit" /\ c.claim = 0
      BY <1>2, <1>4, <2>6 DEF IsCommit, Reading
    <3>6. Reading(d, Ids)
      <4>1. /\ ReadOK(d.read, Ids) /\ d.todo \cup d.owed \subseteq Due(d, d.read)
            /\ d.claim \in d.todo /\ d.mark # "commit" /\ d.claim # 0
            /\ d.at \notin {"claim", "put"}
        BY <1>1, <1>4, <2>3, <3>2, <3>3, <3>5 DEF Reading
      <4>2. Settling(d) \/ d.task = "sweep" => d.read.kind = "live"
        BY <1>4, <3>2, <3>3 DEF Reading
      <4>3. QED
        BY <4>1, <4>2 DEF Reading
    <3>7. Shaped(d, Ids)
      BY <1>4, <2>2, <3>2, <3>3, <3>4, <3>6 DEF Shaped, Places
    <3>8. Rereads(c, d)
      <4>1. \A i \in Passed(d) \ Passed(c) : i = id
        BY <3>2, <3>3 DEF Passed
      <4>2. MarkOf(id) # "commit" \/ "misread" \in Faults
        BY <2>2, <3>5
      <4>3. QED
        BY <1>4, <3>2, <3>3, <4>1, <4>2 DEF Rereads
    <3>9. Learns(c, d)
      BY <1>4, <3>3, <3>4, <3>8 DEF Learns
    <3>10. Goes(c, d, Ids)
      BY <3>2, <3>7 DEF Goes, Resembles
    <3>11. PICK q : Moves(worker, c, d, q, Ids, "failed")
      BY <1>3, <3>1, <3>3, <3>4, <3>10, GoMoves
    <3>12. Steps(worker, c, d, q, Ids, "failed")
      BY <3>9, <3>11 DEF Steps
    <3>13. QED
      BY <1>5, <3>12 DEF Final, c
  <2>7. QED
    BY <2>4, <2>5, <2>6
<1>8. QED
  BY <1>6, <1>7

(* What every step on a marker finds.                                      *)
LEMMA MarkerCall ==
  ASSUME Inv, NEW worker \in Workers, call[worker].at \in {"slot", "mark", "unslot"}
  PROVE  /\ Moving(worker, call[worker]) /\ Shaped(call[worker], Ids) /\ call[worker] # Idle
         /\ Touching(call[worker]) \/ Marking(call[worker])
<1>1. call[worker] # Idle
  BY DEF Idle
<1>2. QED
  BY <1>1, CallFacts DEF Touching, Marking

LEMMA MarkerSlotDoes ==
  ASSUME Inv, NEW worker \in Workers, MarkerSlot(worker)
  PROVE  \E d, q, result : Does(worker, call[worker], d, q, result)
<1> DEFINE c == call[worker]
<1>1. /\ c.at = "slot" /\ UNCHANGED <<clock, next_id, settled, record, charges, late, reservations>>
      /\ Remarked(c)
  BY DEF MarkerSlot, Remarked
<1>2. marker_count' \in Nat
  <2>1. marker_count' = marker_count + 1 \/ marker_count' = marker_count
    BY DEF MarkerSlot
  <2>2. QED
    BY <2>1 DEF Inv, Typed
<1>3. \/ Go(worker, [c EXCEPT !.at = "mark"])
      \/ \E outcome \in {"full", "failed"} : MarkEnds(worker, c, outcome)
  BY DEF MarkerSlot
<1>4. Moving(worker, c) /\ Shaped(c, Ids) /\ c.at # "put"
  BY <1>1, MarkerCall
<1> HIDE DEF c
<1>5. CASE Go(worker, [c EXCEPT !.at = "mark"])
  <2>1. PICK d, q : Steps(worker, c, d, q, Ids, "failed")
    BY <1>1, <1>4, <1>5, PlaceSteps
  <2>2. Does(worker, c, d, q, "failed")
    BY <1>1, <1>2, <2>1, QuietDoes DEF Final
  <2>3. QED
    BY <2>2 DEF c
<1>6. CASE \E outcome \in {"full", "failed"} : MarkEnds(worker, c, outcome)
  <2>1. PICK outcome \in {"full", "failed"} : MarkEnds(worker, c, outcome)
    BY <1>6
  <2>2. PICK d, q, result : /\ Steps(worker, c, d, q, Ids, result) /\ result \notin Final
                            /\ result = "marked" => Marking(c) /\ outcome = "marked"
    BY <1>1, <1>4, <2>1, MarkEndsSteps
  <2>3. Does(worker, c, d, q, result)
    BY <1>1, <1>2, <1>4, <2>1, <2>2, QuietDoes
  <2>4. QED
    BY <2>3 DEF c
<1>7. QED
  BY <1>3, <1>5, <1>6

LEMMA PutMarkerDoes ==
  ASSUME Inv, NEW worker \in Workers, PutMarker(worker)
  PROVE  \E d, q, result : Does(worker, call[worker], d, q, result)
<1> DEFINE c == call[worker]
<1>1. PICK outcome \in {"marked", "mismatch", "failed"}, landed \in BOOLEAN :
        /\ IF outcome = "mismatch" THEN ~landed
           ELSE (landed => MarkWins(MarkId(c), c.mark)) /\ (outcome = "marked" => landed)
        /\ markers' = IF landed THEN Stamped(c) ELSE markers
        /\ \/ Go(worker, [c EXCEPT !.at = "unslot"])
           \/ MarkAgain(worker, c)
           \/ MarkEnds(worker, c, outcome)
  BY DEF PutMarker, HostWrite
<1>2. /\ c.at = "mark" /\ UNCHANGED <<clock, next_id, settled, record, charges, late, reservations>>
      /\ marker_count' \in Nat
  BY DEF PutMarker, Inv, Typed
<1>3. Remarked(c)
  BY <1>1, <1>2 DEF Remarked
<1>4. Moving(worker, c) /\ Shaped(c, Ids) /\ c.at # "put"
  BY <1>2, MarkerCall
<1> HIDE DEF c
<1>5. CASE Go(worker, [c EXCEPT !.at = "unslot"])
  <2>1. PICK d, q : Steps(worker, c, d, q, Ids, "failed")
    BY <1>2, <1>4, <1>5, PlaceSteps
  <2>2. Does(worker, c, d, q, "failed")
    BY <1>2, <1>3, <2>1, QuietDoes DEF Final
  <2>3. QED
    BY <2>2 DEF c
<1>6. CASE MarkAgain(worker, c)
  <2>1. PICK d, q : Steps(worker, c, d, q, Ids, "mismatch")
    BY <1>2, <1>4, <1>6, MarkAgainSteps
  <2>2. Does(worker, c, d, q, "mismatch")
    BY <1>2, <1>3, <2>1, QuietDoes DEF Final
  <2>3. QED
    BY <2>2 DEF c
<1>7. CASE MarkEnds(worker, c, outcome)
  <2>1. PICK d, q, result : /\ Steps(worker, c, d, q, Ids, result) /\ result \notin Final
                            /\ result = "marked" => Marking(c) /\ outcome = "marked"
    BY <1>1, <1>2, <1>4, <1>7, MarkEndsSteps
  <2>2. result = "marked" => MarkIn(markers', Subject(c)) = "commit"
    <3> HAVE result = "marked"
    <3>1. Marking(c) /\ markers' = Stamped(c) /\ c.claim = 0
      BY <1>1, <2>1 DEF Marking
    <3>2. \E t : markers' = Put(markers, Subject(c), [mark |-> "commit", expires_at |-> t])
      BY <3>1 DEF Stamped, MarkId, Persisting, Stamp
    <3>3. Subject(c) \in DOMAIN markers' /\ markers'[Subject(c)].mark = "commit"
      BY <3>2 DEF Put
    <3>4. QED
      BY <3>3 DEF MarkIn
  <2>3. Does(worker, c, d, q, result)
    BY <1>2, <1>3, <1>4, <2>1, <2>2, QuietDoes
  <2>4. QED
    BY <2>3 DEF c
<1>8. QED
  BY <1>1, <1>5, <1>6, <1>7

LEMMA ReleaseSlotDoes ==
  ASSUME Inv, NEW worker \in Workers, ReleaseSlot(worker)
  PROVE  \E d, q, result : Does(worker, call[worker], d, q, result)
<1> DEFINE c == call[worker]
<1>1. /\ c.at = "unslot" /\ UNCHANGED <<clock, next_id, settled, record, charges, late, reservations>>
      /\ Remarked(c)
      /\ MarkAgain(worker, c) \/ MarkEnds(worker, c, "mismatch")
  BY DEF ReleaseSlot, Remarked
<1>2. marker_count' \in Nat
  BY DEF ReleaseSlot, SatSub, Inv, Typed
<1>3. Moving(worker, c) /\ Shaped(c, Ids) /\ c.at # "put"
  BY <1>1, MarkerCall
<1> HIDE DEF c
<1>4. CASE MarkAgain(worker, c)
  <2>1. PICK d, q : Steps(worker, c, d, q, Ids, "mismatch")
    BY <1>1, <1>3, <1>4, MarkAgainSteps
  <2>2. Does(worker, c, d, q, "mismatch")
    BY <1>1, <1>2, <2>1, QuietDoes DEF Final
  <2>3. QED
    BY <2>2 DEF c
<1>5. CASE MarkEnds(worker, c, "mismatch")
  <2>1. PICK d, q, result : /\ Steps(worker, c, d, q, Ids, result) /\ result \notin Final
                            /\ result = "marked" => Marking(c) /\ "mismatch" = "marked"
    BY <1>1, <1>3, <1>5, MarkEndsSteps
  <2>2. Does(worker, c, d, q, result)
    BY <1>1, <1>2, <1>3, <2>1, QuietDoes
  <2>3. QED
    BY <2>2 DEF c
<1>6. QED
  BY <1>1, <1>4, <1>5

(* What every step of a commit that is marked or charged finds.            *)
LEMMA CommitCall ==
  ASSUME Inv, NEW worker \in Workers,
         call[worker].at \in {"persist", "remark", "room", "charge"}
  PROVE  /\ Moving(worker, call[worker]) /\ Shaped(call[worker], Ids) /\ call[worker] # Idle
         /\ call[worker].op # "collect" /\ Committing(call[worker])
         /\ ~Touching(call[worker])
         /\ call[worker].at = "remark" => Marking(call[worker])
         /\ call[worker].at = "room" => call[worker].entry # NoEntry
<1> DEFINE c == call[worker]
<1>1. c # Idle
  BY DEF Idle
<1>2. Moving(worker, c) /\ Shaped(c, Ids)
  BY <1>1, CallFacts
<1>3. c.at \in {"persist", "remark", "room", "charge"}
  OBVIOUS
<1> HIDE DEF c
<1>4. ~Collecting(c) /\ c.at # "held" /\ ~Touching(c)
  BY <1>3 DEF Collecting, Touching
<1>5. c.op # "collect" /\ (c.at = "room" => c.entry # NoEntry)
  BY <1>2, <1>4 DEF Shaped
<1>6. c.at = "remark" => Marking(c)
  <2> HAVE c.at = "remark"
  <2>1. c.claim = 0
    BY <1>2 DEF Shaped
  <2>2. QED
    BY <2>1 DEF Marking
<1>7. Committing(c)
  BY <1>2, <1>3, <1>5, <1>6 DEF Shaped, Committing
<1>8. QED
  BY <1>1, <1>2, <1>4, <1>5, <1>6, <1>7 DEF c

LEMMA PersistDoes ==
  ASSUME Inv, NEW worker \in Workers, Persist(worker)
  PROVE  \E d, q, result : Does(worker, call[worker], d, q, result)
<1> DEFINE c == call[worker]
<1>1. /\ c.at = "persist" /\ Remarked(c) /\ marker_count' \in Nat
      /\ UNCHANGED <<clock, next_id, settled, record, charges, late, reservations>>
      /\ IF clock >= SatAdd(reservations[Subject(c)].expires_at, Ttl)
         THEN Persisted(worker, c, FALSE, FALSE) ELSE Go(worker, At(c, "remark"))
  BY DEF Persist, shared, Remarked, Inv, Typed
<1>2. /\ Moving(worker, c) /\ Shaped(c, Ids) /\ c # Idle /\ c.op # "collect" /\ Committing(c)
      /\ Subject(c) \in settled
  BY <1>1, CommitCall, CallFacts
<1> HIDE DEF c
<1>3. \E d, q : Steps(worker, c, d, q, Ids, "failed")
  <2>1. CASE clock >= SatAdd(reservations[Subject(c)].expires_at, Ttl)
    <3>1. Persisted(worker, c, FALSE, FALSE)
      BY <1>1, <2>1
    <3>2. \E d, q : Steps(worker, c, d, q, Ids, IF FALSE THEN "marked" ELSE "failed")
      BY <1>2, <3>1, PersistedSteps
    <3>3. QED
      BY <3>2
  <2>2. CASE ~(clock >= SatAdd(reservations[Subject(c)].expires_at, Ttl))
    <3>1. InTime(Subject(c))
      <4>1. reservations[Subject(c)].expires_at \in Nat /\ clock \in Nat
        BY <1>2 DEF Inv, Typed
      <4>2. QED
        BY <2>2, <4>1, SatAddFacts, HeldAssumption, WidthAssumption, TtlAssumption DEF InTime
    <3>2. QED
      BY <1>1, <1>2, <2>2, <3>1, AtSteps
  <2>3. QED
    BY <2>1, <2>2
<1>4. PICK d, q : Steps(worker, c, d, q, Ids, "failed")
  BY <1>3
<1>5. Does(worker, c, d, q, "failed")
  BY <1>1, <1>4, QuietDoes DEF Final
<1>6. QED
  BY <1>5 DEF c

LEMMA ReadMarkDoes ==
  ASSUME Inv, NEW worker \in Workers, ReadMark(worker)
  PROVE  \E d, q, result : Does(worker, call[worker], d, q, result)
<1> DEFINE c == call[worker]
<1>1. PICK answer \in ReadAnswers :
        PersistSees(worker, c, CASE answer = "value" -> MarkOf(Subject(c))
                                 [] answer = "none"  -> NoMark
                                 [] answer = "error" -> "unread")
  BY DEF ReadMark
<1>2. /\ c.at = "remark" /\ Remarked(c) /\ marker_count' \in Nat /\ UNCHANGED markers
      /\ UNCHANGED <<clock, next_id, settled, record, charges, late, reservations>>
  BY DEF ReadMark, shared, Remarked, Inv, Typed
<1>3. /\ Moving(worker, c) /\ Shaped(c, Ids) /\ c # Idle /\ c.op # "collect" /\ Committing(c)
      /\ Marking(c)
  BY <1>2, CommitCall
<1> HIDE DEF c
<1>4. ASSUME NEW d, NEW q, NEW result, Steps(worker, c, d, q, Ids, result),
             result \notin Final,
             result = "marked" => MarkIn(markers, Subject(c)) \in {"commit", "provisional"}
      PROVE  \E e, p, r : Does(worker, call[worker], e, p, r)
  <2>1. Does(worker, c, d, q, result)
    BY <1>2, <1>3, <1>4, QuietDoes
  <2>2. QED
    BY <2>1 DEF c
<1> DEFINE mark == CASE answer = "value" -> MarkOf(Subject(c))
                     [] answer = "none"  -> NoMark
                     [] answer = "error" -> "unread"
<1>5. PersistSees(worker, c, mark)
  BY <1>1
<1>6. mark = MarkOf(Subject(c)) \/ mark = NoMark \/ mark = "unread"
  BY DEF ReadAnswers
<1> HIDE DEF mark
<1>7. CASE mark \in {NoMark, "expired"}
  <2> DEFINE d == [At(c, IF mark = NoMark THEN "slot" ELSE "mark") EXCEPT !.mark = mark]
             at == IF mark = NoMark THEN "slot" ELSE "mark"
  <2>1. Go(worker, d)
    BY <1>5, <1>7 DEF PersistSees
  <2>2. /\ Resembles(At(c, at), c) /\ At(c, at).at = at /\ At(c, at).claim = 0
    BY <1>3, AtFields DEF Moving, Whole
  <2>3. /\ Resembles(d, c) /\ d.at \in {"slot", "mark"} /\ d.claim = 0 /\ d.mark = mark
    BY <2>2 DEF Resembles, SameCall, Fields
  <2> HIDE DEF d, at
  <2>4. /\ Whole(d) /\ Committing(d) /\ d.op = c.op /\ d.entry = c.entry /\ d.task = c.task
    BY <1>3, <2>3, ResemblesWhole DEF Resembles, SameCall, Moving
  <2>5. ~Touching(d) /\ Marking(d) /\ ~Collecting(d) /\ d # Idle
    BY <2>3 DEF Touching, Marking, Collecting, Idle
  <2>6. Shaped(d, Ids)
    BY <1>3, <1>7, <2>3, <2>4, <2>5 DEF Shaped, Places, Marks, NoMark
  <2>7. Learns(c, d)
    BY <1>3, <2>4, <2>5 DEF Learns
  <2>8. Goes(c, d, Ids)
    BY <2>3, <2>6 DEF Goes, Resembles
  <2>9. PICK q : Moves(worker, c, d, q, Ids, "failed")
    BY <1>3, <2>1, <2>4, <2>5, <2>8, GoMoves
  <2>10. Steps(worker, c, d, q, Ids, "failed")
    BY <2>7, <2>9 DEF Steps
  <2>11. QED
    BY <1>4, <2>10 DEF Final
<1>8. CASE mark \notin {NoMark, "expired"}
  <2> DEFINE persisted == mark \in {"commit", "provisional"}
  <2>1. Persisted(worker, c, persisted, FALSE)
    BY <1>5, <1>8 DEF PersistSees
  <2>2. persisted \in BOOLEAN /\ ~(persisted /\ FALSE)
    OBVIOUS
  <2>3. persisted => MarkIn(markers, Subject(c)) \in {"commit", "provisional"}
    BY <1>6, <1>8 DEF MarkIn, MarkOf, NoMark
  <2> HIDE DEF persisted
  <2>4. PICK d, q : Steps(worker, c, d, q, Ids, IF persisted THEN "marked" ELSE "failed")
    BY <1>3, <2>1, <2>2, PersistedSteps
  <2>5. QED
    BY <1>4, <2>3, <2>4 DEF Final
<1>9. QED
  BY <1>7, <1>8

LEMMA ReadRoomDoes ==
  ASSUME Inv, NEW worker \in Workers, ReadRoom(worker)
  PROVE  \E d, q, result : Does(worker, call[worker], d, q, result)
<1> DEFINE c == call[worker]
<1>1. /\ c.at = "room" /\ Remarked(c) /\ marker_count' \in Nat
      /\ UNCHANGED <<clock, next_id, settled, record, charges, late, reservations>>
      /\ \/ Go(worker, At(c, "charge"))
         \/ /\ Resume(worker, Waiting(c), Append(pending[worker], c.entry))
            /\ UNCHANGED <<answers, marked, lost>>
  BY DEF ReadRoom, shared, Remarked, Inv, Typed
<1>2. /\ Moving(worker, c) /\ Shaped(c, Ids) /\ c # Idle /\ c.op # "collect" /\ Committing(c)
      /\ c.entry # NoEntry
  BY <1>1, CommitCall
<1> HIDE DEF c
<1>3. \E d, q : Steps(worker, c, d, q, Ids, "failed")
  <2>1. CASE Go(worker, At(c, "charge"))
    BY <1>2, <2>1, AtSteps
  <2>2. CASE /\ Resume(worker, Waiting(c), Append(pending[worker], c.entry))
             /\ UNCHANGED <<answers, marked, lost>>
    <3> DEFINE rest == Append(pending[worker], c.entry)
               waiting == [Waiting(c) EXCEPT !.rounds = c.rounds]
    <3>1. /\ c.entry \in Entries /\ c.op \notin {"sweep", "collect"} /\ Whole(c)
          /\ pending[worker] \in Seq(Entries) /\ c.rounds \in Nat
      BY <1>2 DEF Moving, Whole
    <3>2. waiting = Waiting(c)
      <4>1. DOMAIN Waiting(c) = Fields /\ Waiting(c).rounds = c.rounds
        BY <3>1 DEF Waiting, At, Whole, Fields
      <4>2. Waiting(c) = [f \in Fields |-> Waiting(c)[f]]
        BY <3>1 DEF Waiting, At, Whole, Fields
      <4>3. QED
        BY <4>1, <4>2
    <3>3. rest \in Seq(Entries) /\ Elements(rest) = Elements(pending[worker]) \cup {c.entry}
      BY <3>1, ElementsAppend
    <3>4. Resume(worker, Waiting(c), rest)
      BY <2>2
    <3> HIDE DEF rest, waiting
    <3>5. /\ Whole(waiting) /\ waiting.entry = NoEntry /\ waiting.op = c.op
          /\ SameCall(waiting, c) /\ waiting.task = "none"
          /\ waiting.op \in {"reserve", "commit", "release"}
      BY <3>1, WaitingFields DEF waiting
    <3>6. Resume(worker, waiting, rest)
      BY <3>2, <3>4
    <3>7. PICK d, q : /\ Turns(worker, d, q) /\ q \in Seq(Entries)
                      /\ Carried(q, d) = Elements(rest)
                      /\ Goes(waiting, d, Ids) /\ (d = Idle => waiting.op = "reserve")
                      /\ d # Idle => Free(d) /\ d.task # "resettle"
      BY <3>3, <3>5, <3>6, ResumeMoves
    <3>8. Goes(c, d, Ids)
      BY <3>5, <3>7 DEF Goes, SameCall
    <3>9. Carried(pending[worker], c) = Elements(rest)
      BY <1>2, <3>3 DEF Carried
    <3>10. Keeps(worker, c, d, q, "failed")
      BY <2>2, <3>5, <3>7, <3>9 DEF Keeps
    <3>11. d # Idle => d.op # "collect"
      BY <1>2, <3>8 DEF Goes, SameCall
    <3>12. QED
      BY <3>7, <3>8, <3>10, <3>11, FreeLearns DEF Steps, Moves
  <2>3. QED
    BY <1>1, <2>1, <2>2
<1>4. PICK d, q : Steps(worker, c, d, q, Ids, "failed")
  BY <1>3
<1>5. Does(worker, c, d, q, "failed")
  BY <1>1, <1>4, QuietDoes DEF Final
<1>6. QED
  BY <1>5 DEF c

LEMMA ReadChargedDoes ==
  ASSUME Inv, NEW worker \in Workers, ReadCharged(worker)
  PROVE  \E d, q, result : Does(worker, call[worker], d, q, result)
<1> DEFINE c == call[worker]
<1>1. PICK answer \in ReadAnswers :
        ChargeSees(worker, c, IF answer = "value" THEN MarkOf(Subject(c)) ELSE NoMark)
  BY DEF ReadCharged
<1>2. /\ c.at = "charge" /\ Remarked(c) /\ marker_count' \in Nat
      /\ UNCHANGED <<clock, next_id, settled, record, charges, late, reservations>>
  BY DEF ReadCharged, shared, Remarked, Inv, Typed
<1>3. /\ Moving(worker, c) /\ Shaped(c, Ids) /\ c # Idle /\ c.op # "collect" /\ Committing(c)
  BY <1>2, CommitCall
<1> HIDE DEF c
<1>4. PICK task \in {"resettle", "charge"} :
        /\ Go(worker, Attempt(c, task))
        /\ task = "resettle" => Timeout = "commit" \/ MarkOf(Subject(c)) = "provisional"
  BY <1>1 DEF ChargeSees, NoMark
<1>5. Suits(c, task)
  BY <1>3, <1>4 DEF Suits, Committing, Moving, Whole
<1>6. PICK d, q : Steps(worker, c, d, q, Ids, "failed")
  BY <1>3, <1>4, <1>5, AttemptSteps
<1>7. Does(worker, c, d, q, "failed")
  BY <1>2, <1>6, QuietDoes DEF Final
<1>8. QED
  BY <1>7 DEF c

LEMMA PutRecordDoes ==
  ASSUME Inv, NEW worker \in Workers, PutRecord(worker)
  PROVE  \E d, q, result : Does(worker, call[worker], d, q, result)
<1> DEFINE c == call[worker]
<1>1. PICK landed \in BOOLEAN, ending1 \in {"ok", "mismatch", "failed", "capacity"} :
        /\ PutEnds(c, Unwritten(c), ending1, landed)
        /\ IF landed THEN Land(c) ELSE UNCHANGED <<record, charges, late>>
        /\ IF landed /\ ending1 = "ok" THEN Grant(c) ELSE UNCHANGED reservations
        /\ \/ ending1 = "mismatch" /\ Go(worker, Attempt(c, c.task))
           \/ Finish(worker, c, IF ending1 = "ok" THEN Result(c) ELSE ending1)
  BY DEF PutRecord
<1>2. /\ c.at = "put" /\ Remarked(c) /\ marker_count' \in Nat
      /\ UNCHANGED <<clock, next_id, settled>>
  BY DEF PutRecord, Remarked, Inv, Typed
<1>3. /\ c # Idle /\ TaskOK(c) /\ c.op # "collect" /\ Moving(worker, c)
  <2>1. c # Idle /\ TaskOK(c)
    BY <1>2, PutFacts
  <2>2. QED
    BY <2>1, CallFacts DEF TaskOK, Suits
<1>4. DOMAIN call = Workers
  BY DEF Inv, Typed
<1>6. \A d : call' = [call EXCEPT ![worker] = d] => call'[worker] = d
  BY <1>4
<1> DEFINE after == call'[worker]
<1> HIDE DEF c, after
<1>7. Landed(c) \/ UNCHANGED stored
  BY <1>1, <1>2 DEF Landed, Granted, Grant, PutEnds, Wins, stored
<1>8. landed => Landed(c)
  BY <1>1, <1>2 DEF Landed, Granted, Grant, PutEnds, Wins
<1>9. ~landed => UNCHANGED stored
  BY <1>1 DEF stored
<1>10. CASE ending1 = "mismatch" /\ Go(worker, Attempt(c, c.task))
  <2>1. c.read # record
    BY <1>1, <1>10 DEF PutEnds, Wins
  <2>2. Suits(c, c.task)
    BY <1>3 DEF TaskOK
  <2>3. PICK d, q : Steps(worker, c, d, q, Ids, "failed")
    BY <1>3, <1>10, <2>2, AttemptSteps
  <2>4. Does(worker, c, d, q, "failed")
    BY <1>2, <1>7, <2>1, <2>3 DEF Does, Final
  <2>5. QED
    BY <2>4 DEF c
<1>11. CASE Finish(worker, c, IF ending1 = "ok" THEN Result(c) ELSE ending1)
  <2> DEFINE result == IF ending1 = "ok" THEN Result(c) ELSE ending1
  <2>1. Finish(worker, c, result)
    BY <1>11
  <2>2. result \in Results /\ result # "marked"
    BY DEF Result, Results, Final
  <2>3. result \in Final => ending1 = "ok" /\ result = Result(c)
    BY DEF Final
  <2> HIDE DEF result
  <2>4. PICK d, q : Steps(worker, c, d, q, Ids, result)
    BY <1>3, <2>1, <2>2, FinishSteps
  <2>5. c.task = "reserve" => d = Idle
    <3> HAVE c.task = "reserve"
    <3>1. c.op = "reserve" /\ c.entry = NoEntry
      BY <1>3 DEF TaskOK, Suits
    <3>2. Go(worker, Idle)
      BY <2>1, <3>1 DEF Finish
    <3>3. after = Idle
      BY <1>6, <3>2 DEF Go, after
    <3>4. after = d
      BY <1>6, <2>4 DEF Steps, Moves, Turns, after
    <3>5. QED
      BY <3>3, <3>4
  <2>6. result \in Final => Ended(c, result)
    <3> HAVE result \in Final
    <3>1. ending1 = "ok" /\ result = Result(c) /\ result \in Final
      BY <2>3
    <3>2. landed \/ Unwritten(c)
      BY <1>1, <3>1 DEF PutEnds
    <3>3. CASE Settling(c) /\ Applied(c) = "not-active"
      <4>1. c.task # "reserve"
        BY <3>3 DEF Settling
      <4>2. result = "not-active"
        BY <3>1, <3>3, <4>1 DEF Result
      <4>3. QED
        BY <1>2, <1>8, <1>9, <3>2, <3>3, <4>2 DEF Ended
    <3>4. CASE ~(Settling(c) /\ Applied(c) = "not-active")
      <4>1. result = "done"
        BY <3>1, <3>4 DEF Result, Final
      <4>2. Settles(c) => Landed(c)
        <5> SUFFICES ASSUME Settles(c), ~landed PROVE FALSE
          BY <1>8
        <5>1. Unwritten(c)
          BY <3>2
        <5>2. CASE c.task = "charge"
          BY <5>1, <5>2 DEF Unwritten, Settling
        <5>3. CASE Settling(c)
          <6>1. c.task \notin {"reserve", "charge", "sweep"}
            BY <5>3 DEF Settling
          <6>2. Applied(c) = "not-active"
            BY <5>1, <5>3, <6>1 DEF Unwritten
          <6>3. QED
            BY <3>4, <5>3, <6>2
        <5>4. QED
          BY <5>2, <5>3 DEF Settles
      <4>3. QED
        BY <1>2, <3>4, <4>1, <4>2 DEF Ended
    <3>5. QED
      BY <3>3, <3>4
  <2>7. Does(worker, c, d, q, result)
    BY <1>2, <1>7, <2>2, <2>4, <2>5, <2>6 DEF Does
  <2>8. QED
    BY <2>7 DEF c
<1>12. QED
  BY <1>1, <1>10, <1>11

(* A collection that goes on, or ends.                                     *)
LEMMA CollectSteps ==
  ASSUME NEW ids, NEW worker, NEW c, Moving(worker, c), Shaped(c, ids), c # Idle,
         c.op = "collect", NEW d, Go(worker, d),
         \/ d = Idle
         \/ \E at \in {"collecting", "delete", "restore", "uncount"} :
              /\ d = [c EXCEPT !.at = at]
              /\ Collecting(c) \/ ~OnRecord(c.claim) \/ "misread" \in Faults
  PROVE  \E q : Steps(worker, c, d, q, ids, "failed")
<1>1. Whole(c) /\ c.entry = NoEntry
  BY DEF Moving, Whole
<1>2. CASE d = Idle
  BY <1>1, <1>2, GoMoves DEF Goes, Steps
<1>3. CASE d # Idle
  <2>1. PICK at \in {"collecting", "delete", "restore", "uncount"} : d = [c EXCEPT !.at = at]
    BY <1>3
  <2>2. /\ Resembles(d, c) /\ d.at = at /\ d.read = c.read /\ d.claim = c.claim /\ d.mark = c.mark
    BY <1>1, <2>1 DEF Whole, Resembles, SameCall, Fields
  <2>3. Whole(d) /\ d.op = "collect" /\ d.entry = c.entry /\ d.task = c.task
    BY <1>1, <2>2, ResemblesWhole DEF Resembles, SameCall
  <2>4. Collecting(d) /\ ~Touching(d) /\ ~Marking(d)
    BY <2>2 DEF Collecting, Touching, Marking
  <2>5. Taken(d, ids) /\ d.mark \in Marks \cup {NoMark}
    BY <2>2 DEF Shaped, Taken
  <2>6. Shaped(d, ids)
    BY <2>2, <2>3, <2>4, <2>5 DEF Shaped, Places
  <2>7. Learns(c, d)
    BY <1>3, <2>2, <2>3, <2>4 DEF Learns, Collects
  <2>8. Goes(c, d, ids)
    BY <2>2, <2>6 DEF Goes, Resembles
  <2>9. PICK q : Moves(worker, c, d, q, ids, "failed")
    BY <1>3, <2>3, <2>8, GoMoves
  <2>10. QED
    BY <2>7, <2>9 DEF Steps
<1>4. QED
  BY <1>2, <1>3

LEMMA CollectCall ==
  ASSUME Inv, NEW worker \in Workers,
         call[worker].at = "held" \/ Collecting(call[worker])
  PROVE  /\ Moving(worker, call[worker]) /\ Shaped(call[worker], Ids) /\ call[worker] # Idle
         /\ call[worker].op = "collect" /\ Taken(call[worker], Ids)
<1>1. call[worker] # Idle
  BY DEF Idle, Collecting
<1>2. Moving(worker, call[worker]) /\ Shaped(call[worker], Ids)
  BY <1>1, CallFacts
<1>3. QED
  BY <1>1, <1>2 DEF Shaped

LEMMA CollectDoes ==
  ASSUME Inv, NEW worker \in Workers,
         CollectRead(worker) \/ CollectMark(worker) \/ CollectDelete(worker)
           \/ CollectRestore(worker) \/ CollectUncount(worker)
  PROVE  \E d, q, result : Does(worker, call[worker], d, q, result)
<1> DEFINE c == call[worker]
<1>1. /\ c.at = "held" \/ Collecting(c)
      /\ UNCHANGED <<clock, next_id, settled, record, charges, late, reservations>>
  BY DEF CollectRead, CollectMark, CollectDelete, CollectRestore, CollectUncount, Collecting,
         shared
<1>2. marker_count' \in Nat
  BY DEF CollectRead, CollectMark, CollectDelete, CollectRestore, CollectUncount, shared,
         SatSub, Inv, Typed
<1>3. Remarked(c)
  <2>1. CASE CollectRead(worker)
    BY <2>1 DEF CollectRead, shared, Remarked
  <2>2. CASE CollectMark(worker)
    BY <2>2 DEF CollectMark, Remarked, Collecting
  <2>3. CASE CollectDelete(worker)
    BY <2>3 DEF CollectDelete, Remarked, Collecting
  <2>4. CASE CollectRestore(worker)
    BY <2>4 DEF CollectRestore, Remarked, Collecting
  <2>5. CASE CollectUncount(worker)
    BY <2>5 DEF CollectUncount, Remarked
  <2>6. QED
    BY <2>1, <2>2, <2>3, <2>4, <2>5
<1>4. \E d : /\ Go(worker, d)
             /\ \/ d = Idle
                \/ \E at \in {"collecting", "delete", "restore", "uncount"} :
                     /\ d = [c EXCEPT !.at = at]
                     /\ Collecting(c) \/ ~OnRecord(c.claim) \/ "misread" \in Faults
  <2>1. CASE CollectRead(worker)
    <3>1. PICK answer \in ReadAnswers :
            /\ HostRead(answer)
            /\ IF answer = "error" THEN Go(worker, Idle)
               ELSE CollectSees(worker, c, IF answer = "value" THEN record ELSE Missing)
      BY <2>1 DEF CollectRead
    <3>2. CASE answer = "error"
      BY <3>1, <3>2
    <3>3. CASE answer = "none"
      <4>1. "misread" \in Faults
        BY <3>1, <3>3 DEF HostRead, Fails
      <4>2. Go(worker, Idle) \/ Go(worker, [c EXCEPT !.at = "collecting"])
        BY <3>1, <3>3 DEF CollectSees
      <4>3. QED
        BY <4>1, <4>2
    <3>4. CASE answer = "value"
      <4>1. CollectSees(worker, c, record)
        BY <3>1, <3>4
      <4>2. CASE (record.kind = "live" /\ Holds(record.state, c.claim)) \/ c.mark = "collecting"
        BY <4>1, <4>2 DEF CollectSees
      <4>3. CASE ~((record.kind = "live" /\ Holds(record.state, c.claim)) \/ c.mark = "collecting")
        BY <4>1, <4>3 DEF CollectSees, OnRecord
      <4>4. QED
        BY <4>2, <4>3
    <3>5. QED
      BY <3>1, <3>2, <3>3, <3>4 DEF ReadAnswers
  <2>2. CASE CollectMark(worker)
    <3>1. /\ Collecting(c)
          /\ Go(worker, Idle) \/ Go(worker, [c EXCEPT !.at = "delete"])
      BY <2>2 DEF CollectMark, Collecting
    <3>2. QED
      BY <3>1
  <2>3. CASE CollectDelete(worker)
    <3>1. /\ Collecting(c)
          /\ Go(worker, [c EXCEPT !.at = "restore"]) \/ Go(worker, [c EXCEPT !.at = "uncount"])
      BY <2>3 DEF CollectDelete, Collecting
    <3>2. QED
      BY <3>1
  <2>4. CASE CollectRestore(worker)
    <3>1. /\ Collecting(c)
          /\ Go(worker, Idle) \/ Go(worker, [c EXCEPT !.at = "uncount"])
      BY <2>4 DEF CollectRestore, Collecting
    <3>2. QED
      BY <3>1
  <2>5. CASE CollectUncount(worker)
    BY <2>5 DEF CollectUncount
  <2>6. QED
    BY <2>1, <2>2, <2>3, <2>4, <2>5
<1>5. PICK d : /\ Go(worker, d)
               /\ \/ d = Idle
                  \/ \E at \in {"collecting", "delete", "restore", "uncount"} :
                       /\ d = [c EXCEPT !.at = at]
                       /\ Collecting(c) \/ ~OnRecord(c.claim) \/ "misread" \in Faults
  BY <1>4
<1>6. Moving(worker, c) /\ Shaped(c, Ids) /\ c # Idle /\ c.op = "collect"
  BY <1>1, CollectCall
<1>7. c.at # "put"
  BY <1>1 DEF Collecting
<1> HIDE DEF c
<1>8. PICK q : Steps(worker, c, d, q, Ids, "failed")
  BY <1>5, <1>6, CollectSteps
<1>9. Does(worker, c, d, q, "failed")
  BY <1>1, <1>2, <1>3, <1>7, <1>8, QuietDoes DEF Final
<1>10. QED
  BY <1>9 DEF c

-----------------------------------------------------------------------------
(* A call begins: with the next queued commit, or with what it is for.     *)
Begins(worker, c, d, q) ==
  /\ call[worker] = Idle /\ Turns(worker, d, q) /\ q \in Seq(Entries)
  /\ Carried(q, d) = Elements(pending[worker]) /\ Goes(c, d, Ids')
  /\ d # Idle => Free(d) /\ d.task # "resettle"
  /\ c.now = clock
  /\ UNCHANGED <<shared, clock, reservations, charges, late, answers, marked, lost>>
  /\ \/ /\ c.op = "reserve" /\ c.id = next_id /\ c.units \in Contributions
        /\ next_id <= MaxId /\ next_id' = next_id + 1 /\ UNCHANGED settled
     \/ /\ c.op \in {"commit", "release"} /\ d # Idle /\ c.id \in DOMAIN reservations \ settled
        /\ settled' = settled \cup {c.id} /\ UNCHANGED next_id
     \/ /\ c.op = "sweep" /\ UNCHANGED <<settled, next_id>>
     \/ /\ c.op = "collect" /\ UNCHANGED <<settled, next_id>> /\ d # Idle
        /\ d.claim \in DOMAIN markers /\ d.mark = markers[d.claim].mark

LEMMA NewCallWhole ==
  ASSUME clock \in Nat, NEW op \in {"reserve", "commit", "release", "sweep", "collect"},
         NEW id, NEW units
  PROVE  LET c == NewCall(op, id, units)
         IN  /\ Whole(c) /\ c.entry = NoEntry /\ c.task = "none" /\ c.op = op /\ c.id = id
             /\ c.units = units /\ c.now = clock
<1>1. DrainPerCall \in Nat
  BY LimitsAssumption
<1>2. QED
  BY <1>1 DEF NewCall, Whole, Fields

LEMMA ReserveBegins ==
  ASSUME Inv, NEW worker \in Workers, NEW units \in Contributions, Reserve(worker, units)
  PROVE  \E c, d, q : Begins(worker, c, d, q)
<1> DEFINE c == NewCall("reserve", next_id, units)
<1>1. /\ Whole(c) /\ c.entry = NoEntry /\ c.task = "none" /\ c.op = "reserve" /\ c.id = next_id
      /\ c.units = units /\ c.now = clock
  BY NewCallWhole DEF Inv, Typed
<1>2. /\ call[worker] = Idle /\ next_id <= MaxId /\ next_id' = next_id + 1
      /\ Resume(worker, c, pending[worker])
      /\ UNCHANGED <<shared, clock, reservations, charges, late, settled, answers, marked, lost>>
  BY DEF Reserve
<1>3. pending[worker] \in Seq(Entries)
  BY DEF Inv, Typed
<1> HIDE DEF c
<1> DEFINE ids == Ids'
<1>4. \A i : \E d, q : /\ Turns(worker, d, q) /\ q \in Seq(Entries)
                       /\ Carried(q, d) = Elements(pending[worker])
                       /\ Goes(c, d, i) /\ (d = Idle => c.op = "reserve")
                       /\ d # Idle => Free(d) /\ d.task # "resettle"
  BY <1>1, <1>2, <1>3, ResumeMoves
<1>5. PICK d, q : /\ Turns(worker, d, q) /\ q \in Seq(Entries)
                  /\ Carried(q, d) = Elements(pending[worker])
                  /\ Goes(c, d, ids) /\ (d = Idle => c.op = "reserve")
                  /\ d # Idle => Free(d) /\ d.task # "resettle"
  BY <1>4
<1>6. Begins(worker, c, d, q)
  BY <1>1, <1>2, <1>5 DEF Begins
<1>7. QED
  BY <1>6

LEMMA SettleBegins ==
  ASSUME Inv, NEW worker \in Workers, NEW id, NEW op \in {"commit", "release"},
         SettleCall(worker, id, op)
  PROVE  \E c, d, q : Begins(worker, c, d, q)
<1> DEFINE c == NewCall(op, id, reservations[id].contribution)
<1>1. /\ Whole(c) /\ c.entry = NoEntry /\ c.task = "none" /\ c.op = op /\ c.id = id
      /\ c.now = clock
  BY NewCallWhole DEF Inv, Typed
<1>2. /\ call[worker] = Idle /\ id \in DOMAIN reservations \ settled
      /\ settled' = settled \cup {id} /\ Resume(worker, c, pending[worker])
      /\ UNCHANGED <<shared, clock, next_id, reservations, charges, late, answers, marked, lost>>
  BY DEF SettleCall
<1>3. pending[worker] \in Seq(Entries)
  BY DEF Inv, Typed
<1>4. Ids' = Ids
  BY <1>2 DEF Ids
<1> HIDE DEF c
<1>5. PICK d, q : /\ Turns(worker, d, q) /\ q \in Seq(Entries)
                  /\ Carried(q, d) = Elements(pending[worker])
                  /\ Goes(c, d, Ids) /\ (d = Idle => c.op = "reserve")
                  /\ d # Idle => Free(d) /\ d.task # "resettle"
  BY <1>1, <1>2, <1>3, ResumeMoves
<1>6. Begins(worker, c, d, q)
  BY <1>1, <1>2, <1>4, <1>5 DEF Begins
<1>7. QED
  BY <1>6

LEMMA SweepBegins ==
  ASSUME Inv, NEW worker \in Workers, Sweep(worker)
  PROVE  \E c, d, q : Begins(worker, c, d, q)
<1> DEFINE c == NewCall("sweep", 0, 0)
           d == Attempt(c, "sweep")
<1>1. Whole(c) /\ c.entry = NoEntry /\ c.op = "sweep" /\ c.now = clock
  BY NewCallWhole DEF Inv, Typed
<1>2. /\ call[worker] = Idle /\ Go(worker, d)
      /\ UNCHANGED <<shared, clock, next_id, reservations, charges, late, settled>>
  BY DEF Sweep
<1>3. Ids' = Ids
  BY <1>2 DEF Ids
<1> HIDE DEF c
<1>4. Suits(c, "sweep")
  BY <1>1 DEF Suits
<1>5. /\ Shaped(d, Ids) /\ SameCall(d, c) /\ d.entry = c.entry /\ d.task = "sweep"
      /\ d.at = "read" /\ d # Idle /\ ~Touching(d) /\ ~Collecting(d) /\ ~Marking(d)
  BY <1>1, <1>4, AttemptShaped
<1> HIDE DEF d
<1>6. /\ Turns(worker, d, pending[worker]) /\ pending[worker] \in Seq(Entries)
      /\ UNCHANGED <<answers, marked, lost>>
  BY <1>2 DEF Turns, Go, ending, Inv, Typed
<1>7. Carried(pending[worker], d) = Elements(pending[worker])
  BY <1>1, <1>5 DEF Carried
<1>8. Begins(worker, c, d, pending[worker])
  BY <1>1, <1>2, <1>3, <1>5, <1>6, <1>7 DEF Begins, Goes, Free
<1>9. QED
  BY <1>8

LEMMA CollectBegins ==
  ASSUME Inv, NEW worker \in Workers, NEW id \in DOMAIN markers, Collect(worker, id)
  PROVE  \E c, d, q : Begins(worker, c, d, q)
<1> DEFINE c == NewCall("collect", 0, 0)
           d == [At(c, "held") EXCEPT !.claim = id, !.mark = MarkOf(id), !.read = markers[id]]
<1>1. Whole(c) /\ c.entry = NoEntry /\ c.op = "collect" /\ c.now = clock /\ c.task = "none"
  BY NewCallWhole DEF Inv, Typed
<1>2. /\ call[worker] = Idle /\ Go(worker, d)
      /\ UNCHANGED <<shared, clock, next_id, reservations, charges, late, settled>>
  BY DEF Collect
<1>3. Ids' = Ids
  BY <1>2 DEF Ids
<1> HIDE DEF c
<1>4. Resembles(At(c, "held"), c) /\ At(c, "held").at = "held"
  BY <1>1, AtFields DEF Whole
<1>5. /\ Resembles(d, c) /\ d.at = "held" /\ d.claim = id /\ d.mark = MarkOf(id)
      /\ d.read = markers[id]
  BY <1>4 DEF Resembles, SameCall, Fields
<1> HIDE DEF d
<1>6. Whole(d) /\ d.op = "collect" /\ d.entry = NoEntry /\ d.task = "none" /\ d # Idle
  BY <1>1, <1>5, ResemblesWhole DEF Resembles, SameCall, Idle
<1>7. ~Touching(d) /\ ~Collecting(d) /\ ~Marking(d)
  BY <1>5 DEF Touching, Collecting, Marking
<1>8. MarkOf(id) = markers[id].mark /\ markers[id] \in [mark : Marks, expires_at : Nat]
      /\ id \in Ids /\ id # 0
  BY IdsFinite DEF MarkOf, Inv, Typed
<1>9. Taken(d, Ids) /\ d.mark \in Marks \cup {NoMark}
  BY <1>5, <1>8 DEF Taken
<1>10. Shaped(d, Ids)
  BY <1>5, <1>6, <1>7, <1>9 DEF Shaped, Places
<1>11. /\ Turns(worker, d, pending[worker]) /\ pending[worker] \in Seq(Entries)
       /\ UNCHANGED <<answers, marked, lost>>
  BY <1>2 DEF Turns, Go, ending, Inv, Typed
<1>12. Carried(pending[worker], d) = Elements(pending[worker])
  BY <1>6 DEF Carried
<1>13. Begins(worker, c, d, pending[worker])
  BY <1>1, <1>2, <1>3, <1>5, <1>6, <1>7, <1>8, <1>10, <1>11, <1>12
     DEF Begins, Goes, Free, Resembles
<1>14. QED
  BY <1>13

(* Every step begins a call, moves one, or restarts a worker.              *)
LEMMA StepKinds ==
  ASSUME Inv, NEW worker \in Workers, Step(worker)
  PROVE  \/ \E c, d, q : Begins(worker, c, d, q)
         \/ call[worker] # Idle /\ \E d, q, result : Does(worker, call[worker], d, q, result)
         \/ Restart(worker)
<1> DEFINE moves == call[worker] # Idle /\ \E d, q, result : Does(worker, call[worker], d, q, result)
           begins == \E c, d, q : Begins(worker, c, d, q)
<1>1. ASSUME NEW units \in Contributions, Reserve(worker, units) PROVE begins
  BY <1>1, ReserveBegins
<1>2. ASSUME NEW id \in DOMAIN reservations, NEW op \in {"commit", "release"},
             SettleCall(worker, id, op)
      PROVE  begins
  BY <1>2, SettleBegins
<1>3. CASE Sweep(worker)
  BY <1>3, SweepBegins
<1>4. ASSUME NEW id \in DOMAIN markers, Collect(worker, id) PROVE begins
  BY <1>4, CollectBegins
<1>5. CASE ReadRecord(worker)
  BY <1>5, ReadRecordDoes DEF ReadRecord, Idle
<1>6. CASE Claim(worker)
  BY <1>6, ClaimDoes DEF Claim, Idle
<1>7. CASE PutRecord(worker)
  BY <1>7, PutRecordDoes DEF PutRecord, Idle
<1>8. CASE MarkerSlot(worker)
  <2>1. call[worker] # Idle
    BY <1>8 DEF MarkerSlot, Idle
  <2>2. QED
    BY <1>8, <2>1, MarkerSlotDoes
<1>9. CASE PutMarker(worker)
  BY <1>9, PutMarkerDoes DEF PutMarker, Idle
<1>10. CASE ReleaseSlot(worker)
  BY <1>10, ReleaseSlotDoes DEF ReleaseSlot, Idle
<1>11. CASE Persist(worker)
  <2>1. call[worker] # Idle
    BY <1>11 DEF Persist, Idle
  <2>2. QED
    BY <1>11, <2>1, PersistDoes
<1>12. CASE ReadMark(worker)
  <2>1. call[worker] # Idle
    BY <1>12 DEF ReadMark, Idle
  <2>2. QED
    BY <1>12, <2>1, ReadMarkDoes
<1>13. CASE ReadRoom(worker)
  BY <1>13, ReadRoomDoes DEF ReadRoom, Idle
<1>14. CASE ReadCharged(worker)
  BY <1>14, ReadChargedDoes DEF ReadCharged, Idle
<1>15. CASE CollectRead(worker) \/ CollectMark(worker) \/ CollectDelete(worker)
              \/ CollectRestore(worker) \/ CollectUncount(worker)
  BY <1>15, CollectDoes
     DEF CollectRead, CollectMark, CollectDelete, CollectRestore, CollectUncount, Idle
<1> HIDE DEF moves, begins
<1>16. \/ \E units \in Contributions : Reserve(worker, units)
       \/ \E id \in DOMAIN reservations, op \in {"commit", "release"} : SettleCall(worker, id, op)
       \/ Sweep(worker) \/ \E id \in DOMAIN markers : Collect(worker, id)
       \/ ReadRecord(worker) \/ Claim(worker) \/ PutRecord(worker)
       \/ MarkerSlot(worker) \/ PutMarker(worker) \/ ReleaseSlot(worker)
       \/ Persist(worker) \/ ReadMark(worker) \/ ReadRoom(worker) \/ ReadCharged(worker)
       \/ CollectRead(worker) \/ CollectMark(worker) \/ CollectDelete(worker)
       \/ CollectRestore(worker) \/ CollectUncount(worker)
       \/ Restart(worker)
  BY DEF Step
<1>17. QED
  BY <1>1, <1>2, <1>3, <1>4, <1>5, <1>6, <1>7, <1>8, <1>9, <1>10, <1>11, <1>12, <1>13, <1>14,
     <1>15, <1>16 DEF moves, begins

-----------------------------------------------------------------------------
(* The invariant holds initially, and every step keeps it.                 *)
LEMMA ReadMore ==
  ASSUME NEW ids, NEW more, ids \subseteq more, NEW value, ReadOK(value, ids)
  PROVE  ReadOK(value, more)
BY DEF ReadOK, Sound, SoundMaps

LEMMA ShapedMore ==
  ASSUME NEW ids, NEW more, ids \subseteq more, NEW c, Shaped(c, ids)
  PROVE  Shaped(c, more)
<1>1. Reading(c, ids) => Reading(c, more)
  BY ReadMore DEF Reading
<1>2. Taken(c, ids) => Taken(c, more)
  BY DEF Taken
<1>3. QED
  BY <1>1, <1>2 DEF Shaped

LEMMA InitInv == Init => Inv
<1> SUFFICES ASSUME Init PROVE Inv
  OBVIOUS
<1>1. Ids = {}
  BY DEF Init, Ids
<1>2. Typed
  <2>1. pending \in [Workers -> Seq(Entries)] /\ DOMAIN call = Workers
    BY DEF Init
  <2>2. DOMAIN markers = {} /\ DOMAIN reservations = {} /\ DOMAIN answers = {}
    BY DEF Init
  <2>3. charges \in [1 .. MaxId -> Nat] /\ clock \in Nat /\ next_id \in 1 .. (MaxId + 1)
        /\ marker_count \in Nat /\ settled = {} /\ marked = {}
    BY BoundsAssumption DEF Init
  <2>4. QED
    BY <1>1, <2>1, <2>2, <2>3 DEF Typed
<1>3. Calls /\ Apart
  BY DEF Init, Calls, Apart, Owning
<1>4. Queues
  BY ElementsNone DEF Init, Queues, Carried
<1>5. Recorded(record, Ids, reservations, charges, late)
  <2>1. record = Missing /\ ReadOK(record, Ids) /\ Base(record) = AtPeriod(0)
    BY DEF Init, ReadOK, Base, Missing
  <2>2. \A id : ~Holds(Base(record), id)
    BY <2>1 DEF AtPeriod, Holds
  <2>3. QED
    BY <2>1, <2>2 DEF Recorded
<1>6. Fresh
  BY DEF Init, Fresh
<1>7. QED
  BY <1>2, <1>3, <1>4, <1>5, <1>6 DEF Inv

(* The write of a call whose attempt read the record as it still is.       *)
LEMMA LandedReady ==
  ASSUME Inv, NEW worker \in Workers, NEW c, c = call[worker], Landed(c)
  PROVE  /\ c # Idle /\ Whole(c) /\ Bound(c) /\ TaskOK(c)
         /\ Ids \subseteq 1 .. MaxId /\ Ready(c, Ids) /\ Grantable(c, Ids) /\ Chargeable(c)
         /\ c.read = record /\ Recorded(record, Ids, reservations, charges, late)
         /\ charges \in [1 .. MaxId -> Nat] /\ DOMAIN reservations \subseteq Ids
         /\ Lawful(c, reservations, charges, late) /\ Land(c)
         /\ c.todo = {} /\ Touching(c) /\ (Settles(c) => Subject(c) \in settled)
         /\ Settling(c) \/ c.task = "sweep" => record.kind = "live"
<1>1. /\ c # Idle /\ Ready(c, Ids) /\ c.todo = {} /\ TaskOK(c) /\ Touching(c)
      /\ Settling(c) \/ c.task = "sweep" => c.read.kind = "live"
      /\ Chargeable(c) /\ Lawful(c, reservations, charges, late)
      /\ c.task = "reserve" => c.id \in Ids /\ c.units \in 1 .. MaxUnits
      /\ Settles(c) => Subject(c) \in settled
  BY PutFacts DEF Landed
<1>2. Bound(c) /\ Shaped(c, Ids)
  BY <1>1, CallFacts
<1>3. Whole(c) /\ c.read = record /\ Land(c)
  BY <1>2 DEF Shaped, Landed
<1>4. Grantable(c, Ids)
  BY <1>1, <1>2, <1>3 DEF Grantable, Bound, TaskOK, Suits
<1>5. QED
  BY <1>1, <1>2, <1>3, <1>4, IdsFinite DEF Inv, Typed

LEMMA LandedFacts ==
  ASSUME Inv, NEW worker \in Workers, NEW c, c = call[worker], Landed(c)
  PROVE  /\ charges' \in [1 .. MaxId -> Nat]
         /\ Recorded(record', Ids, reservations', charges', late')
         /\ \A id : Holds(Base(record'), id) =>
              Holds(Base(record), id) \/ (c.task = "reserve" /\ c.op = "reserve" /\ id = c.id)
         /\ \A id \in 1 .. MaxId : ~Holds(Base(record), id) /\ id \notin settled =>
              charges'[id] = charges[id] /\ (id \in late' => id \in late)
         /\ \/ UNCHANGED reservations
            \/ /\ Granted(c) /\ c.op = "reserve" /\ c.id \in Ids /\ New(c) = {c.id}
               /\ DOMAIN reservations' = DOMAIN reservations \cup {c.id}
               /\ \A id \in DOMAIN reservations : reservations'[id] = reservations[id]
               /\ reservations'[c.id] \in [contribution : Contributions, expires_at : Nat]
               /\ reservations'[c.id].expires_at = SatAdd(c.now, Ttl)
<1>1. /\ c # Idle /\ Whole(c) /\ Bound(c) /\ TaskOK(c)
      /\ Ids \subseteq 1 .. MaxId /\ Ready(c, Ids) /\ Grantable(c, Ids) /\ Chargeable(c)
      /\ c.read = record /\ Recorded(record, Ids, reservations, charges, late)
      /\ charges \in [1 .. MaxId -> Nat] /\ DOMAIN reservations \subseteq Ids
      /\ Lawful(c, reservations, charges, late) /\ Land(c)
      /\ Settles(c) => Subject(c) \in settled
  BY LandedReady
<1>2. /\ charges' \in [1 .. MaxId -> Nat]
      /\ Recorded(record', Ids, reservations, charges', late')
      /\ \A id : Holds(Base(record'), id) => Holds(Base(record), id) \/ id \in New(c)
      /\ \A id \in New(c) : /\ id \in DOMAIN Base(record').active
                            /\ Base(record').active[id].contribution = c.units
                            /\ Base(record').active[id].expires_at = SatAdd(c.now, Ttl)
      /\ \A id \in 1 .. MaxId : ~Holds(Base(record), id) /\ ~(Settles(c) /\ id = Subject(c)) =>
           charges'[id] = charges[id] /\ (id \in late' => id \in late)
  BY <1>1, LandFacts
<1>3. \A id \in New(c) : c.task = "reserve" /\ c.op = "reserve" /\ id = c.id
  BY <1>1 DEF New, TaskOK, Suits
<1>4. \/ UNCHANGED reservations
      \/ /\ Granted(c) /\ c.op = "reserve" /\ c.id \in Ids /\ New(c) = {c.id}
         /\ DOMAIN reservations' = DOMAIN reservations \cup {c.id}
         /\ \A id \in DOMAIN reservations : reservations'[id] = reservations[id]
         /\ reservations'[c.id] = [contribution |-> c.units, expires_at |-> SatAdd(c.now, Ttl)]
         /\ c.units \in Contributions /\ SatAdd(c.now, Ttl) \in Nat
  <2> SUFFICES ASSUME ~UNCHANGED reservations
               PROVE  /\ Granted(c) /\ c.op = "reserve" /\ c.id \in Ids /\ New(c) = {c.id}
                      /\ DOMAIN reservations' = DOMAIN reservations \cup {c.id}
                      /\ \A id \in DOMAIN reservations : reservations'[id] = reservations[id]
                      /\ reservations'[c.id] =
                           [contribution |-> c.units, expires_at |-> SatAdd(c.now, Ttl)]
                      /\ c.units \in Contributions /\ SatAdd(c.now, Ttl) \in Nat
    OBVIOUS
  <2>1. Granted(c) /\ New(c) = {c.id}
    BY DEF Landed, Granted, New
  <2>2. c.op = "reserve" /\ c.id \in Ids \ DOMAIN reservations /\ c.units \in Contributions
    BY <1>1, <2>1 DEF Granted, TaskOK, Suits, Bound
  <2>3. SatAdd(c.now, Ttl) \in Nat
    BY <1>1, TtlAssumption, WidthAssumption DEF SatAdd, Ready
  <2>4. QED
    BY <2>1, <2>2, <2>3 DEF Granted, Put
<1>5. Recorded(record', Ids, reservations', charges', late')
  <2>1. CASE UNCHANGED reservations
    BY <1>2, <2>1
  <2>2. CASE ~UNCHANGED reservations
    <3>1. ASSUME NEW id, Holds(Base(record'), id), id \in DOMAIN reservations'
          PROVE  SameHold(Entry(Base(record'), id), reservations'[id])
      <4>1. CASE id \in DOMAIN reservations
        BY <1>2, <1>4, <2>2, <3>1, <4>1 DEF Recorded
      <4>2. CASE id \notin DOMAIN reservations
        <5>1. id = c.id /\ id \in New(c)
          BY <1>4, <2>2, <3>1, <4>2
        <5>2. QED
          BY <1>2, <1>4, <2>2, <5>1 DEF Entry, SameHold
      <4>3. QED
        BY <4>1, <4>2
    <3>2. QED
      BY <1>2, <3>1 DEF Recorded
  <2>3. QED
    BY <2>1, <2>2
<1>6. \/ UNCHANGED reservations
      \/ /\ Granted(c) /\ c.op = "reserve" /\ c.id \in Ids /\ New(c) = {c.id}
         /\ DOMAIN reservations' = DOMAIN reservations \cup {c.id}
         /\ \A id \in DOMAIN reservations : reservations'[id] = reservations[id]
         /\ reservations'[c.id] \in [contribution : Contributions, expires_at : Nat]
         /\ reservations'[c.id].expires_at = SatAdd(c.now, Ttl)
  BY <1>4
<1>7. \A id : Holds(Base(record'), id) =>
        Holds(Base(record), id) \/ (c.task = "reserve" /\ c.op = "reserve" /\ id = c.id)
  BY <1>2, <1>3
<1>8. \A id \in 1 .. MaxId : ~Holds(Base(record), id) /\ id \notin settled =>
        charges'[id] = charges[id] /\ (id \in late' => id \in late)
  BY <1>1, <1>2
<1>9. QED
  BY <1>2, <1>5, <1>6, <1>7, <1>8

(* A marker is written for a reservation, with what its hold says.         *)
LEMMA StampedFacts ==
  ASSUME Inv, NEW worker \in Workers, NEW c, c = call[worker], c.at = "mark"
  PROVE  /\ MarkId(c) \in Ids
         /\ \E m \in [mark : Marks, expires_at : Nat] :
              Stamped(c) = Put(markers, MarkId(c), m) /\ m.mark = Stamp(c)
<1>1. /\ Shaped(c, Ids) /\ c # Idle
      /\ Committing(c) => Subject(c) \in settled
  BY CallFacts DEF Idle
<1>2. Whole(c) /\ c.now \in Nat
  BY <1>1 DEF Shaped, Whole
<1>3. Stamp(c) \in Marks
  BY DEF Stamp, Marks
<1>4. CASE c.claim = 0
  <2>1. Subject(c) \in DOMAIN reservations /\ Subject(c) \in Ids
    BY <1>1, <1>4 DEF Shaped, Marking, Inv, Typed
  <2>2. reservations[Subject(c)].expires_at \in Nat
    BY <2>1 DEF Inv, Typed
  <2>3. QED
    BY <1>3, <1>4, <2>1, <2>2 DEF Stamped, MarkId, Persisting
<1>5. CASE c.claim # 0
  <2>1. Reading(c, Ids)
    BY <1>1, <1>5 DEF Shaped, Touching
  <2>2. c.claim \in Due(c, c.read) /\ ReadOK(c.read, Ids) /\ IsFiniteSet(Ids)
    BY <1>5, <2>1, IdsFinite DEF Reading, Inv
  <2>3. Sound(Unclaimed(c, c.read), Ids) /\ Due(c, c.read) \subseteq Ids
    BY <1>2, <2>2, UnclaimedMaps, DueIs
  <2> DEFINE state == Unclaimed(c, c.read)
             held == IF c.claim \in DOMAIN state.active THEN state.active ELSE state.reclaimed
  <2>4. c.claim \in DOMAIN state.active \cup DOMAIN state.reclaimed
    BY <2>2 DEF Due, Expiring, Expired, Dropping
  <2>5. held[c.claim].expires_at \in Nat
    BY <2>3, <2>4 DEF Sound, SoundMaps, Held
  <2>6. Stamped(c) = Put(markers, MarkId(c), [mark |-> Stamp(c), expires_at |-> held[c.claim].expires_at])
    BY <1>5 DEF Stamped, Persisting
  <2> HIDE DEF held, state
  <2>7. QED
    BY <1>3, <1>5, <2>2, <2>3, <2>5, <2>6 DEF MarkId, Persisting
<1>6. QED
  BY <1>4, <1>5

LEMMA RemarkedTyped ==
  ASSUME Inv, NEW worker \in Workers, NEW c, c = call[worker], c # Idle, Remarked(c)
  PROVE  /\ DOMAIN markers' \subseteq Ids
         /\ \A id \in DOMAIN markers' : markers'[id] \in [mark : Marks, expires_at : Nat]
<1>1. /\ DOMAIN markers \subseteq Ids
      /\ \A id \in DOMAIN markers : markers[id] \in [mark : Marks, expires_at : Nat]
  BY DEF Inv, Typed
<1>2. CASE UNCHANGED markers
  BY <1>1, <1>2
<1>3. ASSUME NEW key \in Ids, NEW m \in [mark : Marks, expires_at : Nat],
             markers' = Put(markers, key, m)
      PROVE  /\ DOMAIN markers' \subseteq Ids
             /\ \A id \in DOMAIN markers' : markers'[id] \in [mark : Marks, expires_at : Nat]
  BY <1>1, <1>3 DEF Put
<1>4. CASE c.at = "mark" /\ markers' = Stamped(c)
  BY <1>3, <1>4, StampedFacts
<1>5. CASE Collecting(c)
  <2>1. c.claim \in Ids /\ c.read \in [mark : Marks, expires_at : Nat] /\ c.mark \in Marks
    BY <1>5, CallFacts DEF Shaped, Taken
  <2>2. [c.read EXCEPT !.mark = "collecting"] \in [mark : Marks, expires_at : Nat]
        /\ [c.read EXCEPT !.mark = c.mark] \in [mark : Marks, expires_at : Nat]
    BY <2>1 DEF Marks
  <2>3. CASE markers' = MarkAs(c, "collecting") \/ markers' = MarkAs(c, c.mark)
    BY <1>3, <2>1, <2>2, <2>3 DEF MarkAs
  <2>4. CASE markers' = Restrict(markers, DOMAIN markers \ {c.claim})
    BY <1>1, <2>4 DEF Restrict
  <2>5. QED
    BY <1>2, <1>4, <1>5, <2>3, <2>4, Zenon DEF Remarked, Collecting
<1>6. QED
  BY <1>2, <1>4, <1>5 DEF Remarked

(* A write keeps what every other call relies on.                          *)
LEMMA LandedBound ==
  ASSUME Inv, NEW worker \in Workers, NEW c, c = call[worker], Landed(c),
         NEW id \in Ids \ DOMAIN reservations, ~Holds(Base(record), id), charges[id] = 0,
         id \notin late, c.op = "reserve" /\ c.task = "reserve" => id # c.id
  PROVE  /\ id \notin DOMAIN reservations' /\ ~Holds(Base(record'), id)
         /\ charges'[id] = 0 /\ id \notin late'
<1>1. /\ \A i : Holds(Base(record'), i) =>
           Holds(Base(record), i) \/ (c.task = "reserve" /\ c.op = "reserve" /\ i = c.id)
      /\ \A i \in 1 .. MaxId : ~Holds(Base(record), i) /\ i \notin settled =>
              charges'[i] = charges[i] /\ (i \in late' => i \in late)
  <2>1. \A i : Holds(Base(record'), i) =>
           Holds(Base(record), i) \/ (c.task = "reserve" /\ c.op = "reserve" /\ i = c.id)
    BY LandedFacts
  <2>2. \A i \in 1 .. MaxId : ~Holds(Base(record), i) /\ i \notin settled =>
              charges'[i] = charges[i] /\ (i \in late' => i \in late)
    BY LandedFacts
  <2>3. QED
    BY <2>1, <2>2
<1>2. id \in 1 .. MaxId /\ id \notin settled
  BY IdsFinite DEF Inv, Typed
<1>3. \/ UNCHANGED reservations
      \/ /\ Granted(c) /\ c.op = "reserve"
         /\ DOMAIN reservations' = DOMAIN reservations \cup {c.id}
  BY LandedFacts
<1>4. id \notin DOMAIN reservations'
  BY <1>3 DEF Granted
<1>5. QED
  BY <1>1, <1>2, <1>4

LEMMA StoreBound ==
  ASSUME Inv, NEW worker \in Workers, NEW c, c = call[worker],
         Landed(c) \/ UNCHANGED stored, UNCHANGED <<clock, next_id, settled>>,
         NEW x, Bound(x),
         Landed(c) /\ x.op = "reserve" /\ c.op = "reserve" /\ c.task = "reserve" => x.id # c.id,
         x.op \in {"commit", "release"} => x.id \notin DOMAIN answers'
  PROVE  Bound(x)'
<1>1. Ids' = Ids
  BY DEF Ids
<1>2. CASE UNCHANGED stored
  BY <1>1, <1>2 DEF stored, Bound
<1>3. CASE Landed(c)
  <2>1. x.op = "reserve" =>
          /\ x.id \notin DOMAIN reservations' /\ ~Holds(Base(record'), x.id)
          /\ charges'[x.id] = 0 /\ x.id \notin late'
    BY <1>3, LandedBound DEF Bound
  <2>2. Base(record)' = Base(record')
    OBVIOUS
  <2>3. QED
    BY <1>1, <2>1, <2>2 DEF Bound
<1>4. QED
  BY <1>2, <1>3

(* The answers and marks a step of a call adds are its own.                *)
LEMMA MovesAnswers ==
  ASSUME Inv, NEW worker \in Workers, NEW c, c = call[worker], c # Idle,
         NEW d, NEW q, NEW ids, NEW result, Moves(worker, c, d, q, ids, result)
  PROVE  /\ DOMAIN answers \subseteq DOMAIN answers'
         /\ marked \subseteq marked' /\ marked' \subseteq DOMAIN answers'
         /\ \/ UNCHANGED answers
            \/ /\ d = Idle /\ c.op = "commit" /\ c.entry = NoEntry
               /\ DOMAIN answers' = DOMAIN answers \cup {c.id}
               /\ \A id \in DOMAIN answers : id # c.id => answers'[id] = answers[id]
         /\ \A e \in Carried(q, d) :
              e.id \in DOMAIN answers' /\ (e.persisted => e.id \in marked')
<1>1. /\ marked \subseteq DOMAIN answers /\ pending[worker] \in Seq(Entries)
      /\ \A e \in Carried(pending[worker], c) :
           e.id \in DOMAIN answers /\ (e.persisted => e.id \in marked)
  BY DEF Inv, Typed, Queues
<1>2. CASE Keeps(worker, c, d, q, result)
  BY <1>1, <1>2 DEF Keeps
<1>3. CASE Answers(worker, c, d, q, result)
  <2>1. Carried(q, d) = Carried(pending[worker], c)
    BY <1>3 DEF Answers, Carried
  <2>2. /\ DOMAIN answers' = DOMAIN answers \cup {c.id}
        /\ \A id \in DOMAIN answers : id # c.id => answers'[id] = answers[id]
    BY <1>3 DEF Answers, Put
  <2>3. QED
    BY <1>1, <1>3, <2>1, <2>2 DEF Answers
<1>4. CASE Defers(worker, c, d, q, result)
  <2>1. PICK e \in Entries :
          /\ e.id = c.id
          /\ \/ ~e.persisted /\ q = Append(pending[worker], e) /\ UNCHANGED marked
             \/ /\ e.persisted /\ result = "marked" /\ marked' = marked \cup {c.id}
                /\ q = Append(pending[worker], e) \/ q = pending[worker]
    BY <1>4 DEF Defers
  <2>2. Elements(Append(pending[worker], e)) = Elements(pending[worker]) \cup {e}
    BY <1>1, ElementsAppend
  <2>3. Carried(q, d) \subseteq Carried(pending[worker], c) \cup {e}
    BY <1>4, <2>1, <2>2 DEF Defers, Carried
  <2>4. /\ DOMAIN answers' = DOMAIN answers \cup {c.id}
        /\ \A id \in DOMAIN answers : id # c.id => answers'[id] = answers[id]
    BY <1>4 DEF Defers, Put
  <2>5. marked \subseteq marked' /\ marked' \subseteq marked \cup {c.id}
        /\ (e.persisted => c.id \in marked')
    BY <2>1
  <2>6. QED
    BY <1>1, <1>4, <2>1, <2>3, <2>4, <2>5 DEF Defers
<1>5. CASE Persists(worker, c, d, q, result)
  <2>1. c.entry \in Carried(pending[worker], c)
    BY <1>5 DEF Persists, Carried
  <2>2. Carried(q, d) \subseteq Carried(pending[worker], c) \cup {d.entry}
    BY <1>5 DEF Persists, Carried
  <2>3. QED
    BY <1>1, <1>5, <2>1, <2>2 DEF Persists
<1>6. QED
  BY <1>2, <1>3, <1>4, <1>5 DEF Moves

(* A step of a call keeps the invariant.                                   *)
LEMMA DoesInv ==
  ASSUME Inv, NEW worker \in Workers, NEW c, c = call[worker], c # Idle,
         NEW d, NEW q, NEW result, Does(worker, c, d, q, result)
  PROVE  Inv'
<1>1. /\ Moves(worker, c, d, q, Ids, result)
      /\ UNCHANGED <<clock, next_id, settled>> /\ marker_count' \in Nat
      /\ Landed(c) \/ UNCHANGED stored
      /\ Remarked(c)
      /\ c.at = "put" /\ c.task = "reserve" /\ c.read = record => d = Idle
  BY DEF Does, Steps
<1>2. /\ call' = [call EXCEPT ![worker] = d] /\ pending' = [pending EXCEPT ![worker] = q]
      /\ q \in Seq(Entries) /\ Goes(c, d, Ids)
  BY <1>1 DEF Moves, Turns
<1>3. /\ DOMAIN call = Workers /\ pending \in [Workers -> Seq(Entries)]
  BY DEF Inv, Typed
<1>4. /\ DOMAIN call' = Workers /\ pending' \in [Workers -> Seq(Entries)]
      /\ call'[worker] = d /\ pending'[worker] = q
      /\ \A w \in Workers : w # worker => call'[w] = call[w] /\ pending'[w] = pending[w]
  BY <1>2, <1>3
<1>5. Ids' = Ids
  BY <1>1 DEF Ids
<1>6. /\ DOMAIN answers \subseteq DOMAIN answers'
      /\ marked \subseteq marked' /\ marked' \subseteq DOMAIN answers'
      /\ \/ UNCHANGED answers
         \/ /\ d = Idle /\ c.op = "commit" /\ c.entry = NoEntry
            /\ DOMAIN answers' = DOMAIN answers \cup {c.id}
      /\ \A e \in Carried(q, d) :
           e.id \in DOMAIN answers' /\ (e.persisted => e.id \in marked')
  BY <1>1, MovesAnswers
<1>7. Bound(c) /\ Shaped(c, Ids)
  BY CallFacts
<1>8. Typed'
  <2>1. /\ DOMAIN markers' \subseteq Ids
        /\ \A id \in DOMAIN markers' : markers'[id] \in [mark : Marks, expires_at : Nat]
    BY <1>1, RemarkedTyped
  <2>2. /\ charges' \in [1 .. MaxId -> Nat] /\ DOMAIN reservations' \subseteq Ids
        /\ settled \subseteq DOMAIN reservations'
        /\ \A id \in DOMAIN reservations' :
             reservations'[id] \in [contribution : Contributions, expires_at : Nat]
    <3>1. CASE UNCHANGED stored
      BY <3>1 DEF stored, Inv, Typed
    <3>2. CASE Landed(c)
      <4>1. /\ charges' \in [1 .. MaxId -> Nat]
            /\ \/ UNCHANGED reservations
               \/ /\ c.id \in Ids
                  /\ DOMAIN reservations' = DOMAIN reservations \cup {c.id}
                  /\ \A id \in DOMAIN reservations : reservations'[id] = reservations[id]
                  /\ reservations'[c.id] \in [contribution : Contributions, expires_at : Nat]
        BY <3>2, LandedFacts
      <4>2. QED
        BY <4>1 DEF Inv, Typed
    <3>3. QED
      BY <1>1, <3>1, <3>2
  <2>3. DOMAIN answers' \subseteq settled
    BY <1>6, <1>7 DEF Inv, Typed, Bound
  <2>4. clock \in Nat /\ next_id \in 1 .. (MaxId + 1)
    BY DEF Inv, Typed
  <2>5. QED
    BY <1>1, <1>4, <1>5, <1>6, <2>1, <2>2, <2>3, <2>4 DEF Typed
<1>9. Calls'
  <2> SUFFICES ASSUME NEW w \in Workers, call'[w] # Idle
               PROVE  Shaped(call'[w], Ids') /\ (Bound(call[w]))'
    BY DEF Calls, Idle
  <2>1. CASE w = worker
    <3>1. Shaped(d, Ids) /\ SameCall(d, c) /\ d # Idle
      BY <1>2, <1>4, <2>1 DEF Goes
    <3>2. Bound(d)
      BY <1>7, <3>1 DEF SameCall, Bound
    <3>3. d.op \in {"commit", "release"} => d.id \notin DOMAIN answers'
      BY <1>6, <3>1, <3>2 DEF Bound
    <3>4. ~(Landed(c) /\ c.task = "reserve")
      BY <1>1, <3>1 DEF Landed
    <3>5. Bound(d)'
      BY <1>1, <3>2, <3>3, <3>4, StoreBound
    <3>6. QED
      BY <1>4, <1>5, <2>1, <3>1, <3>5 DEF Bound
  <2>2. CASE w # worker
    <3>1. PICK x : x = call[w]
      OBVIOUS
    <3>2. x # Idle /\ Shaped(x, Ids) /\ Bound(x) /\ call'[w] = x
      BY <1>4, <2>2, <3>1, CallFacts
    <3>3. x.op = "reserve" /\ c.op = "reserve" => x.id # c.id
      BY <2>2, <3>1, <3>2 DEF Inv, Apart, Owning
    <3>4. x.op \in {"commit", "release"} => x.id \notin DOMAIN answers'
      BY <1>6, <2>2, <3>1, <3>2 DEF Inv, Apart, Owning, Bound
    <3>5. Bound(x)'
      BY <1>1, <3>2, <3>3, <3>4, StoreBound
    <3>6. QED
      BY <1>5, <3>2, <3>5 DEF Bound
  <2>3. QED
    BY <2>1, <2>2
<1>10. Queues'
  <2> SUFFICES ASSUME NEW w \in Workers, NEW e \in Carried(pending'[w], call'[w])
               PROVE  e.id \in DOMAIN answers' /\ (e.persisted => e.id \in marked')
    BY DEF Queues, Carried, Elements, Idle
  <2>1. CASE w = worker
    BY <1>4, <1>6, <2>1
  <2>2. CASE w # worker
    <3>1. e \in Carried(pending[w], call[w])
      BY <1>4, <2>2
    <3>2. QED
      BY <1>6, <3>1 DEF Inv, Queues
  <2>3. QED
    BY <2>1, <2>2
<1>11. Apart'
  <2>1. \A w \in Workers : Owning(call'[w]) => Owning(call[w]) /\ call[w].id = call'[w].id
    BY <1>2, <1>4 DEF Owning, Goes, SameCall
  <2>2. QED
    BY <2>1 DEF Apart, Inv, Owning, Idle
<1>12. Fresh'
  <2> SUFFICES ASSUME NEW id \in next_id .. MaxId PROVE charges'[id] = 0 /\ id \notin late'
    BY <1>1 DEF Fresh
  <2>1. charges[id] = 0 /\ id \notin late
    BY DEF Inv, Fresh
  <2>2. CASE UNCHANGED stored
    BY <2>1, <2>2 DEF stored
  <2>3. CASE Landed(c)
    <3>1. id \in 1 .. MaxId /\ id \notin Ids
      BY DEF Ids, Inv, Typed
    <3>2. id \notin settled
      BY <3>1 DEF Inv, Typed
    <3>3. ~Holds(Base(record), id)
      <4>1. Sound(Base(record), Ids)
        BY BaseSound DEF Inv, Recorded
      <4>2. QED
        BY <3>1, <4>1 DEF Sound, SoundMaps, Holds
    <3>4. QED
      BY <2>1, <2>3, <3>1, <3>2, <3>3, LandedFacts
  <2>4. QED
    BY <1>1, <2>2, <2>3
<1>13. Recorded(record, Ids, reservations, charges, late)'
  <2>1. CASE UNCHANGED stored
    BY <1>5, <2>1 DEF stored, Inv
  <2>2. CASE Landed(c)
    BY <1>5, <2>2, LandedFacts
  <2>3. QED
    BY <1>1, <2>1, <2>2
<1>14. QED
  BY <1>8, <1>9, <1>10, <1>11, <1>12, <1>13 DEF Inv

(* The beginning of a call keeps the invariant.                            *)
LEMMA BeginsInv ==
  ASSUME Inv, NEW worker \in Workers, NEW c, NEW d, NEW q, Begins(worker, c, d, q)
  PROVE  Inv'
<1>1. /\ call' = [call EXCEPT ![worker] = d] /\ pending' = [pending EXCEPT ![worker] = q]
      /\ q \in Seq(Entries) /\ Goes(c, d, Ids') /\ Carried(q, d) = Elements(pending[worker])
      /\ call[worker] = Idle /\ c.now = clock
      /\ UNCHANGED <<record, markers, marker_count, clock, reservations, charges, late,
                     answers, marked, lost>>
  BY DEF Begins, Turns, shared
<1>2. /\ DOMAIN call = Workers /\ pending \in [Workers -> Seq(Entries)]
  BY DEF Inv, Typed
<1>3. /\ DOMAIN call' = Workers /\ pending' \in [Workers -> Seq(Entries)]
      /\ call'[worker] = d /\ pending'[worker] = q
      /\ \A w \in Workers : w # worker => call'[w] = call[w] /\ pending'[w] = pending[w]
  BY <1>1, <1>2
<1>4. /\ next_id' \in next_id .. (MaxId + 1) /\ next_id \in 1 .. (MaxId + 1)
      /\ settled \subseteq settled' /\ settled' \subseteq DOMAIN reservations
      /\ c.op = "reserve" => /\ c.id = next_id /\ next_id' = next_id + 1 /\ next_id <= MaxId
                             /\ c.units \in Contributions
      /\ c.op \in {"commit", "release"} =>
           c.id \in DOMAIN reservations \ settled /\ settled' = settled \cup {c.id}
  BY BoundsAssumption DEF Begins, Inv, Typed
<1>5. Ids \subseteq Ids' /\ next_id \notin Ids /\ (c.op = "reserve" => next_id \in Ids')
  <2>1. /\ next_id \in Nat /\ next_id' \in Nat /\ next_id >= 1 /\ next_id' >= next_id
        /\ c.op = "reserve" => next_id' = next_id + 1
    BY <1>4, BoundsAssumption
  <2>2. /\ \A id : id \in Ids <=> id \in Nat /\ 1 <= id /\ id < next_id
        /\ \A id : id \in Ids' <=> id \in Nat /\ 1 <= id /\ id < next_id'
    BY <2>1 DEF Ids
  <2>3. QED
    BY <2>1, <2>2
<1>6. Typed'
  BY <1>1, <1>3, <1>4, <1>5 DEF Inv, Typed
<1>7. /\ DOMAIN reservations \subseteq Ids /\ DOMAIN answers \subseteq settled
      /\ settled \subseteq DOMAIN reservations
  BY DEF Inv, Typed
<1>8. ~Holds(Base(record), next_id)
  <2>1. Sound(Base(record), Ids)
    BY BaseSound DEF Inv, Recorded
  <2>2. QED
    BY <1>5, <2>1 DEF Sound, SoundMaps, Holds
<1>9. Calls'
  <2> SUFFICES ASSUME NEW w \in Workers, call'[w] # Idle
               PROVE  Shaped(call'[w], Ids') /\ (Bound(call[w]))'
    BY DEF Calls, Idle
  <2>1. CASE w = worker
    <3>1. Shaped(d, Ids') /\ SameCall(d, c)
      BY <1>1, <1>3, <2>1 DEF Goes
    <3>2. d.op = "reserve" => /\ d.id \in Ids' \ DOMAIN reservations /\ ~Holds(Base(record), d.id)
                              /\ charges[d.id] = 0 /\ d.id \notin late /\ d.units \in Contributions
      BY <1>4, <1>5, <1>7, <1>8, <3>1 DEF SameCall, Inv, Fresh
    <3>3. d.op \in {"commit", "release"} => d.id \in settled' \ DOMAIN answers
      BY <1>4, <1>7, <3>1 DEF SameCall
    <3>4. d.now <= clock /\ Base(record') = Base(record)
      BY <1>1, <3>1 DEF SameCall, Inv, Typed
    <3>5. QED
      BY <1>1, <1>3, <2>1, <3>1, <3>2, <3>3, <3>4 DEF Bound
  <2>2. CASE w # worker
    <3>1. call'[w] = call[w] /\ Shaped(call[w], Ids) /\ Bound(call[w])
      BY <1>3, <2>2, CallFacts
    <3>2. Shaped(call[w], Ids')
      BY <1>5, <3>1, ShapedMore
    <3>3. Base(record') = Base(record)
      BY <1>1
    <3>4. QED
      BY <1>1, <1>4, <1>5, <3>1, <3>2, <3>3 DEF Bound
  <2>3. QED
    BY <2>1, <2>2
<1>10. Queues'
  <2> SUFFICES ASSUME NEW w \in Workers, NEW e \in Carried(pending'[w], call'[w])
               PROVE  e.id \in DOMAIN answers /\ (e.persisted => e.id \in marked)
    BY <1>1 DEF Queues, Carried, Elements, Idle
  <2>1. e \in Carried(pending[w], call[w])
    BY <1>1, <1>3 DEF Carried
  <2>2. QED
    BY <2>1 DEF Inv, Queues
<1>11. Apart'
  <2> SUFFICES ASSUME NEW w \in Workers, NEW x \in Workers, w # x, Owning(call'[w]),
                      Owning(call'[x])
               PROVE  call'[w].id # call'[x].id
    BY DEF Apart, Owning, Idle
  <2>1. ASSUME NEW y \in Workers, y # worker, Owning(call'[y])
        PROVE  Owning(d) => call[y].id # c.id
    <3>1. call'[y] = call[y] /\ Owning(call[y]) /\ Bound(call[y])
      BY <1>3, <2>1, CallFacts DEF Owning
    <3>2. Owning(d) => c.op = d.op /\ c.op \in {"reserve", "commit", "release"}
      BY <1>1 DEF Owning, Goes, SameCall
    <3>3. call[y].id \in Ids /\ (call[y].op = "reserve" => call[y].id \notin DOMAIN reservations)
          /\ (call[y].op # "reserve" => call[y].id \in settled)
      BY <1>7, <3>1 DEF Bound, Owning
    <3>4. QED
      BY <1>4, <1>5, <3>1, <3>2, <3>3
  <2>2. \A y \in Workers : y # worker /\ Owning(call'[y]) => call'[y] = call[y] /\ Owning(call[y])
    BY <1>3
  <2>3. Owning(d) => d.id = c.id
    BY <1>1 DEF Owning, Goes, SameCall
  <2>4. CASE w # worker /\ x # worker
    BY <2>2, <2>4 DEF Inv, Apart
  <2>5. CASE w = worker \/ x = worker
    BY <1>3, <2>1, <2>2, <2>3, <2>5
  <2>6. QED
    BY <2>4, <2>5
<1>12. Fresh'
  BY <1>1, <1>4 DEF Inv, Fresh
<1>13. Recorded(record, Ids, reservations, charges, late)'
  <2>1. ReadOK(record, Ids')
    BY <1>5, ReadMore DEF Inv, Recorded
  <2>2. QED
    BY <1>1, <2>1 DEF Inv, Recorded
<1>14. QED
  BY <1>6, <1>9, <1>10, <1>11, <1>12, <1>13 DEF Inv

LEMMA RestartInv ==
  ASSUME Inv, NEW worker \in Workers, Restart(worker)
  PROVE  Inv'
<1>1. /\ call' = [call EXCEPT ![worker] = Idle] /\ pending' = [pending EXCEPT ![worker] = <<>>]
      /\ UNCHANGED <<record, markers, marker_count, clock, next_id, reservations, charges, late,
                     settled, answers, marked>>
  BY DEF Restart, shared
<1>2. /\ DOMAIN call = Workers /\ pending \in [Workers -> Seq(Entries)]
  BY DEF Inv, Typed
<1>3. /\ DOMAIN call' = Workers /\ pending' \in [Workers -> Seq(Entries)]
      /\ call'[worker] = Idle /\ pending'[worker] = <<>>
      /\ \A w \in Workers : w # worker => call'[w] = call[w] /\ pending'[w] = pending[w]
  BY <1>1, <1>2
<1>4. Ids' = Ids
  BY <1>1 DEF Ids
<1>5. Typed'
  BY <1>1, <1>3, <1>4 DEF Inv, Typed
<1>6. Calls'
  <2> SUFFICES ASSUME NEW w \in Workers, call'[w] # Idle
               PROVE  Shaped(call'[w], Ids') /\ (Bound(call[w]))'
    BY DEF Calls, Idle
  <2>1. call'[w] = call[w] /\ Shaped(call[w], Ids) /\ Bound(call[w]) /\ Base(record') = Base(record)
    BY <1>1, <1>3, CallFacts
  <2>2. QED
    BY <1>1, <1>4, <2>1 DEF Bound
<1>7. Queues'
  <2> SUFFICES ASSUME NEW w \in Workers, NEW e \in Carried(pending'[w], call'[w])
               PROVE  e.id \in DOMAIN answers /\ (e.persisted => e.id \in marked)
    BY <1>1 DEF Queues, Carried, Elements, Idle
  <2>1. e \in Carried(pending[w], call[w])
    BY <1>3, ElementsNone DEF Carried
  <2>2. QED
    BY <2>1 DEF Inv, Queues
<1>8. Apart'
  BY <1>3 DEF Inv, Apart, Owning, Idle
<1>9. Fresh' /\ Recorded(record, Ids, reservations, charges, late)'
  BY <1>1, <1>4 DEF Inv, Fresh
<1>10. QED
  BY <1>5, <1>6, <1>7, <1>8, <1>9 DEF Inv

LEMMA TickInv == Inv /\ Tick => Inv'
<1> SUFFICES ASSUME Inv, Tick PROVE Inv'
  OBVIOUS
<1>1. /\ UNCHANGED <<record, markers, marker_count, pending, call, next_id, reservations, seen,
                     charges, late, settled, answers, marked, lost>>
      /\ clock' = clock + 1
  BY DEF Tick, shared, history
<1>2. Ids' = Ids
  BY <1>1 DEF Ids
<1>3. Typed'
  BY <1>1, <1>2 DEF Inv, Typed
<1>4. Calls'
  <2> SUFFICES ASSUME NEW w \in Workers, call'[w] # Idle
               PROVE  Shaped(call'[w], Ids') /\ (Bound(call[w]))'
    BY DEF Calls, Idle
  <2>1. call'[w] = call[w] /\ Shaped(call[w], Ids) /\ Bound(call[w]) /\ Base(record') = Base(record)
    BY <1>1, CallFacts
  <2>2. call[w].now \in Nat /\ clock \in Nat
    BY <2>1 DEF Shaped, Whole, Inv, Typed
  <2>3. QED
    BY <1>1, <1>2, <2>1, <2>2 DEF Bound
<1>5. Queues' /\ Apart' /\ Fresh' /\ Recorded(record, Ids, reservations, charges, late)'
  BY <1>1, <1>2 DEF Inv, Queues, Apart, Fresh
<1>6. QED
  BY <1>3, <1>4, <1>5 DEF Inv

LEMMA StutterInv == Inv /\ UNCHANGED vars => Inv'
<1> SUFFICES ASSUME Inv, UNCHANGED vars PROVE Inv'
  OBVIOUS
<1>1. Ids' = Ids
  BY DEF vars, Ids
<1>2. Typed' /\ Queues' /\ Apart' /\ Fresh' /\ Recorded(record, Ids, reservations, charges, late)'
  BY <1>1 DEF vars, Inv, Typed, Queues, Apart, Fresh
<1>3. Calls'
  BY <1>1 DEF vars, Inv, Calls, Bound
<1>4. QED
  BY <1>2, <1>3 DEF Inv

LEMMA NextInv == Inv /\ [Next]_vars => Inv'
<1> SUFFICES ASSUME Inv, [Next]_vars PROVE Inv'
  OBVIOUS
<1>1. ASSUME NEW worker \in Workers, Step(worker) PROVE Inv'
  <2>1. CASE \E c, d, q : Begins(worker, c, d, q)
    BY <2>1, BeginsInv
  <2>2. CASE call[worker] # Idle /\ \E d, q, result : Does(worker, call[worker], d, q, result)
    <3>1. PICK d, q, result : Does(worker, call[worker], d, q, result)
      BY <2>2
    <3>2. QED
      BY <2>2, <3>1, DoesInv
  <2>3. CASE Restart(worker)
    BY <2>3, RestartInv
  <2>4. QED
    BY <1>1, <2>1, <2>2, <2>3, StepKinds
<1>2. QED
  BY <1>1, TickInv, StutterInv DEF Next

LEMMA AlwaysInv == Spec => []Inv
<1>1. Inv /\ [Next]_vars => Inv'
  BY NextInv
<1>2. QED
  BY <1>1, InitInv, PTL DEF Spec

-----------------------------------------------------------------------------
(* The type invariant TypeOK: whatever the workers' interleaving, faults   *)
(* and restarts, the shared record stays well formed and reserved is the   *)
(* sum of its active holds (ScopeState::reserved, touched by every worker's*)
(* compare-and-swap), and every queued commit is one that was settled.     *)
LEMMA InvType == Inv => TypeOK
<1> SUFFICES ASSUME Inv PROVE TypeOK
  OBVIOUS
<1>1. ReadOK(record, Ids)
  BY DEF Inv, Recorded
<1>2. record.kind \in {"missing", "vacant", "live"} /\ (record.kind = "vacant" => record.period \in Nat)
  BY <1>1 DEF ReadOK, Missing, Vacant, Live
<1>3. record.kind = "live" =>
        /\ StateOK(record.state)
        /\ record.state.reserved = Units(record.state.active, DOMAIN record.state.active)
  <2> SUFFICES ASSUME record.kind = "live"
               PROVE  /\ StateOK(record.state)
                      /\ record.state.reserved =
                           Units(record.state.active, DOMAIN record.state.active)
    OBVIOUS
  <2>1. Sound(record.state, Ids)
    BY <1>1 DEF ReadOK, Missing, Vacant
  <2>2. record.state.reserved \in Nat
    BY <2>1, IdsFinite, SoundSums DEF Inv
  <2>3. QED
    BY <2>1, <2>2 DEF Sound, SoundMaps, StateOK
<1>4. /\ DOMAIN markers \subseteq Ids
      /\ \A id \in DOMAIN markers : markers[id].mark \in Marks /\ markers[id].expires_at \in Nat
      /\ marker_count \in Nat
      /\ DOMAIN reservations \subseteq Ids /\ settled \subseteq DOMAIN reservations
      /\ DOMAIN answers \subseteq settled
      /\ \A id \in DOMAIN charges : charges[id] \in Nat
  BY DEF Inv, Typed
<1>5. ASSUME NEW worker \in Workers, NEW entry \in QueuedBy(worker) PROVE EntryOK(entry)
  <2>1. entry \in Carried(pending[worker], call[worker])
    BY <1>5 DEF QueuedBy, Carried, Elements
  <2>2. entry.id \in settled
    BY <2>1 DEF Inv, Queues, Typed
  <2>3. entry \in Entries
    <3>1. CASE entry \in Elements(pending[worker])
      <4>1. pending[worker] \in Seq(Entries)
        BY DEF Inv, Typed
      <4>2. QED
        BY <3>1, <4>1 DEF Elements
    <3>2. CASE call[worker] # Idle /\ call[worker].entry # NoEntry /\ entry = call[worker].entry
      BY <3>2, CallFacts DEF Shaped, Whole
    <3>3. QED
      BY <2>1, <3>1, <3>2 DEF Carried
  <2>4. QED
    BY <2>2, <2>3, EntryFacts DEF EntryOK
<1>6. QED
  BY <1>2, <1>3, <1>4, <1>5 DEF TypeOK

(* Every reachable state has its declared types: the record, the markers,  *)
(* the queues and every call are at steps the code has, with the values it *)
(* has there, whatever the host refuses, misreads or loses.                *)
THEOREM TypeCorrect == Spec => []TypeOK
BY AlwaysInv, InvType, PTL

-----------------------------------------------------------------------------
(* What a write does to the reservations on the record.                    *)
LEMMA LandedHolds ==
  ASSUME Inv, NEW worker \in Workers, NEW c, c = call[worker], Landed(c)
  PROVE  LET before == Base(record)
             after == Base(record')
         IN  /\ \A id \in New(c) : /\ id \in DOMAIN after.active
                                   /\ after.active[id].expires_at = SatAdd(c.now, Ttl)
             /\ \A id \in 1 .. MaxId :
                  charges'[id] >= charges[id] \/ (id = Subject(c) /\ Releases(c))
             /\ \A id : Holds(before, id) /\ ~Holds(after, id) =>
                  \/ charges'[id] > 0
                  \/ id = Subject(c) /\ Releases(c)
                  \/ /\ Timeout = "release" /\ id \in Due(c, c.read) \ c.owed
                     /\ c.now >= SatAdd(Entry(before, id).expires_at, Ttl)
             /\ \A id \in DOMAIN before.active :
                  \/ id \in DOMAIN after.active
                  \/ Settles(c) /\ id = Subject(c)
                  \/ c.now >= before.active[id].expires_at
             /\ Settles(c) => ~Holds(after, Subject(c))
             /\ /\ Settles(c) /\ Committing(c)
                /\ c.task = "charge" \/ (Timeout = "release" /\ Applied(c) # "not-active")
                => charges'[Subject(c)] > 0
<1>1. /\ Ids \subseteq 1 .. MaxId /\ Ready(c, Ids) /\ Grantable(c, Ids) /\ Chargeable(c)
      /\ c.read = record /\ Recorded(record, Ids, reservations, charges, late)
      /\ charges \in [1 .. MaxId -> Nat] /\ DOMAIN reservations \subseteq Ids
      /\ Lawful(c, reservations, charges, late) /\ Land(c)
  BY LandedReady
<1>2. QED
  BY <1>1, LandFacts

LEMMA OnRecordIs ==
  ASSUME ReadOK(record, Ids)
  PROVE  \A id : /\ OnRecord(id) <=> Holds(Base(record), id)
                 /\ OnRecord(id) /\ id \in DOMAIN record.state.active
                      <=> id \in DOMAIN Base(record).active
<1>1. CASE record.kind = "live"
  BY <1>1 DEF OnRecord, Base, Holds
<1>2. CASE record.kind # "live"
  <2>1. PICK p \in Nat : Base(record) = AtPeriod(p)
    BY <1>2, BaseSound
  <2>2. QED
    BY <1>2, <2>1 DEF OnRecord, AtPeriod, Holds
<1>3. QED
  BY <1>1, <1>2

(* The reservations not settled that have not reached their deadline.      *)
Upheld == \A id \in DOMAIN reservations \ settled :
  clock < reservations[id].expires_at => id \in DOMAIN Base(record).active

LEMMA UpheldIs == Inv => (Upheld <=> HeldUntilDeadline)
<1> SUFFICES ASSUME Inv PROVE Upheld <=> HeldUntilDeadline
  OBVIOUS
<1>1. ReadOK(record, Ids)
  BY DEF Inv, Recorded
<1>2. QED
  BY <1>1, OnRecordIs DEF Upheld, HeldUntilDeadline

LEMMA LandedUpheld ==
  ASSUME Inv, Upheld, NEW worker \in Workers, NEW c, c = call[worker], Landed(c),
         UNCHANGED <<clock, settled>>
  PROVE  Upheld'
<1> SUFFICES ASSUME NEW id \in DOMAIN reservations' \ settled, clock < reservations'[id].expires_at
             PROVE  id \in DOMAIN Base(record').active
  BY DEF Upheld
<1>1. /\ \A i \in New(c) : i \in DOMAIN Base(record').active
      /\ \A i \in DOMAIN Base(record).active :
           \/ i \in DOMAIN Base(record').active
           \/ Settles(c) /\ i = Subject(c)
           \/ c.now >= Base(record).active[i].expires_at
  BY LandedHolds
<1>2. \/ UNCHANGED reservations
      \/ /\ New(c) = {c.id}
         /\ DOMAIN reservations' = DOMAIN reservations \cup {c.id}
         /\ \A i \in DOMAIN reservations : reservations'[i] = reservations[i]
  BY LandedFacts
<1>3. CASE id \in New(c)
  BY <1>1, <1>3
<1>4. CASE id \notin New(c)
  <2>1. id \in DOMAIN reservations \ settled /\ clock < reservations[id].expires_at
    BY <1>2, <1>4
  <2>2. id \in DOMAIN Base(record).active
    BY <2>1 DEF Upheld
  <2>3. Base(record).active[id].expires_at = reservations[id].expires_at
    BY <2>1, <2>2 DEF Inv, Recorded, Holds, Entry, SameHold
  <2>4. c.now <= clock /\ c.now \in Nat /\ (Settles(c) => Subject(c) \in settled)
    BY LandedReady DEF Bound, Whole
  <2>5. clock \in Nat /\ reservations[id].expires_at \in Nat
    BY <2>1 DEF Inv, Typed
  <2>6. QED
    BY <1>1, <2>1, <2>2, <2>3, <2>4, <2>5
<1>5. QED
  BY <1>3, <1>4

LEMMA StepUpheld ==
  ASSUME Inv, Upheld, NEW worker \in Workers, Step(worker)
  PROVE  Upheld'
<1>1. ASSUME UNCHANGED <<record, clock, reservations>>, settled \subseteq settled' PROVE Upheld'
  BY <1>1 DEF Upheld
<1>2. CASE \E c, d, q : Begins(worker, c, d, q)
  BY <1>1, <1>2 DEF Begins, shared
<1>3. CASE call[worker] # Idle /\ \E d, q, result : Does(worker, call[worker], d, q, result)
  <2>1. PICK c : c = call[worker]
    OBVIOUS
  <2>2. (Landed(c) \/ UNCHANGED stored) /\ UNCHANGED <<clock, settled>>
    BY <1>3, <2>1 DEF Does
  <2>3. CASE Landed(c)
    BY <2>1, <2>2, <2>3, LandedUpheld
  <2>4. CASE UNCHANGED stored
    BY <1>1, <2>2, <2>4 DEF stored
  <2>5. QED
    BY <2>2, <2>3, <2>4
<1>4. CASE Restart(worker)
  BY <1>1, <1>4 DEF Restart, shared
<1>5. QED
  BY <1>2, <1>3, <1>4, StepKinds

(* A reservation that was granted and not yet settled stays on the shared  *)
(* record, holding its budget, until its deadline, whatever other workers  *)
(* write there and however often VMs restart (node_ledger.rs, mutate_core  *)
(* and reconcile: only a settlement or the deadline takes a hold off).     *)
THEOREM HoldsUntilDeadline == Spec => []HeldUntilDeadline
<1> DEFINE both == Inv /\ Upheld
<1>1. Init => both
  BY InitInv DEF Init, Upheld
<1>2. both /\ [Next]_vars => both'
  <2> SUFFICES ASSUME Inv, Upheld, [Next]_vars PROVE Upheld'
    BY NextInv
  <2>1. CASE Tick
    BY <2>1 DEF Tick, shared, history, Upheld, Inv, Typed
  <2>2. CASE UNCHANGED vars
    BY <2>2 DEF vars, Upheld
  <2>3. QED
    BY <2>1, <2>2, StepUpheld DEF Next
<1>3. both => HeldUntilDeadline
  BY UpheldIs
<1> HIDE DEF both
<1>4. QED
  BY <1>1, <1>2, <1>3, PTL DEF Spec

-----------------------------------------------------------------------------
(* What is charged and what is reserved together fit the budget.           *)
Budgeted == Mode = "block" /\ Window = 0 =>
  Fits(Base(record), reservations, KeptOf(reservations, charges, late))

LEMMA ReservationsCosted == Inv => Costed(reservations)
<1> SUFFICES ASSUME Inv PROVE Costed(reservations)
  OBVIOUS
<1>1. IsFiniteSet(Ids) /\ DOMAIN reservations \subseteq Ids
  BY IdsFinite DEF Inv, Typed
<1>2. IsFiniteSet(DOMAIN reservations)
  BY <1>1, FS_Subset
<1>3. QED
  BY <1>2, ContributionsAssumption DEF Inv, Typed, Costed

LEMMA LandedBudgeted ==
  ASSUME Inv, Budgeted, NEW worker \in Workers, NEW c, c = call[worker], Landed(c)
  PROVE  Budgeted'
<1> SUFFICES ASSUME Mode = "block", Window = 0
             PROVE  Fits(Base(record'), reservations', KeptOf(reservations', charges', late'))
  BY DEF Budgeted
<1> DEFINE kept == KeptOf(reservations, charges', late')
<1>1. /\ Ids \subseteq 1 .. MaxId /\ Ready(c, Ids) /\ Grantable(c, Ids) /\ Chargeable(c)
      /\ c.read = record /\ Recorded(record, Ids, reservations, charges, late)
      /\ charges \in [1 .. MaxId -> Nat] /\ DOMAIN reservations \subseteq Ids
      /\ Lawful(c, reservations, charges, late) /\ Land(c)
  BY LandedReady
<1>2. Costed(reservations) /\ Fits(Base(record), reservations, KeptOf(reservations, charges, late))
  BY ReservationsCosted DEF Budgeted
<1>3. Fits(Base(record'), reservations, kept)
  BY <1>1, <1>2, LandFits
<1>4. CASE UNCHANGED reservations
  BY <1>3, <1>4
<1>5. CASE ~UNCHANGED reservations
  <2>1. /\ Granted(c) /\ c.op = "reserve"
        /\ DOMAIN reservations' = DOMAIN reservations \cup {c.id}
        /\ \A id \in DOMAIN reservations : reservations'[id] = reservations[id]
        /\ \A id \in 1 .. MaxId : ~Holds(Base(record), id) /\ id \notin settled =>
             charges'[id] = charges[id]
    BY <1>5, LandedFacts
  <2>2. /\ c.id \in Ids \ DOMAIN reservations /\ ~Holds(Base(record), c.id)
        /\ charges[c.id] = 0
    BY <2>1, LandedReady DEF Bound
  <2>3. charges'[c.id] = 0
    BY <1>1, <2>1, <2>2 DEF Inv, Typed
  <2>4. KeptOf(reservations', charges', late') = kept
    BY <2>1, <2>3 DEF KeptOf
  <2>5. kept \in SUBSET DOMAIN reservations
    BY DEF KeptOf
  <2> HIDE DEF kept
  <2>6. Summable(reservations, kept)
    BY <1>2, <2>5, CostedSums
  <2>7. \A id \in kept : reservations'[id].contribution = reservations[id].contribution
    BY <2>1, <2>5
  <2>8. Units(reservations', kept) = Units(reservations, kept)
    BY <2>6, <2>7, UnitsSame
  <2>9. QED
    BY <1>3, <2>1, <2>4, <2>5, <2>8 DEF Fits
<1>6. QED
  BY <1>4, <1>5

LEMMA StepBudgeted ==
  ASSUME Inv, Budgeted, NEW worker \in Workers, Step(worker)
  PROVE  Budgeted'
<1>1. ASSUME UNCHANGED stored PROVE Budgeted'
  BY <1>1 DEF Budgeted, stored
<1>2. CASE \E c, d, q : Begins(worker, c, d, q)
  BY <1>1, <1>2 DEF Begins, shared, stored
<1>3. CASE call[worker] # Idle /\ \E d, q, result : Does(worker, call[worker], d, q, result)
  <2>1. PICK c : c = call[worker]
    OBVIOUS
  <2>2. Landed(c) \/ UNCHANGED stored
    BY <1>3, <2>1 DEF Does
  <2>3. QED
    BY <1>1, <2>1, <2>2, LandedBudgeted
<1>4. CASE Restart(worker)
  BY <1>1, <1>4 DEF Restart, shared, stored
<1>5. QED
  BY <1>2, <1>3, <1>4, StepKinds

LEMMA BudgetedBound == Inv /\ Upheld /\ Budgeted => BudgetHeld
<1> SUFFICES ASSUME Inv, Upheld, Budgeted, Mode = "block", Window = 0
             PROVE  LET in_flight == {id \in DOMAIN reservations \ settled :
                                        clock < reservations[id].expires_at}
                        charged   == {id \in DOMAIN reservations \ late : charges[id] > 0}
                    IN  Units(reservations, in_flight \cup charged) <= Budget
  BY DEF BudgetHeld
<1> DEFINE in_flight == {id \in DOMAIN reservations \ settled :
                           clock < reservations[id].expires_at}
           kept == KeptOf(reservations, charges, late)
           active == Base(record).active
<1>1. in_flight \subseteq DOMAIN active /\ in_flight \in SUBSET DOMAIN reservations
  BY DEF Upheld
<1>2. Sound(Base(record), Ids) /\ IsFiniteSet(Ids)
  BY BaseSound, IdsFinite DEF Inv, Recorded
<1>3. Summable(active, DOMAIN active) /\ Base(record).reserved \in Nat
      /\ Base(record).reserved = Units(active, DOMAIN active)
  <2>1. DOMAIN active \in SUBSET DOMAIN active
    OBVIOUS
  <2>2. QED
    BY <1>2, <2>1, SoundSums DEF Sound
<1>4. \A id \in in_flight : /\ reservations[id].contribution = active[id].contribution
                            /\ charges[id] = 0
  <2> SUFFICES ASSUME NEW id \in in_flight
               PROVE  reservations[id].contribution = active[id].contribution /\ charges[id] = 0
    OBVIOUS
  <2>1. id \in DOMAIN active /\ id \in DOMAIN reservations /\ Holds(Base(record), id)
    BY <1>1 DEF Holds
  <2>2. id \notin DOMAIN Base(record).reclaimed
    BY <1>2, <2>1 DEF Sound, SoundMaps
  <2>3. QED
    BY <2>1, <2>2 DEF Inv, Recorded, Entry, SameHold
<1>5. Units(reservations, in_flight) <= Base(record).reserved
      /\ Units(reservations, in_flight) \in Nat
  <2>1. Summable(active, in_flight)
    BY <1>1, <1>2, SoundSums
  <2>2. Units(reservations, in_flight) = Units(active, in_flight)
    BY <1>4, <2>1, UnitsSame
  <2>3. Units(active, DOMAIN active) =
          Units(active, in_flight) + Units(active, DOMAIN active \ in_flight)
    BY <1>1, <1>3, UnitsSplit
  <2>4. Summable(active, DOMAIN active \ in_flight)
    BY <1>2, SoundSums
  <2>5. Units(active, in_flight) \in Nat /\ Units(active, DOMAIN active \ in_flight) \in Nat
    BY <2>1, <2>4, UnitsNat
  <2>6. QED
    BY <1>3, <2>2, <2>3, <2>5
<1>6. kept \in SUBSET DOMAIN reservations /\ Costed(reservations)
      /\ Base(record).reserved + Units(reservations, kept) <= Budget
  BY ReservationsCosted DEF Budgeted, Fits
<1>7. in_flight \cap kept = {}
  BY <1>4 DEF KeptOf
<1>8. kept = {id \in DOMAIN reservations \ late : charges[id] > 0}
  BY DEF KeptOf
<1> HIDE DEF in_flight, kept, active
<1>9. Units(reservations, in_flight \cup kept)
        = Units(reservations, in_flight) + Units(reservations, kept)
  <2>1. Summable(reservations, in_flight \cup kept)
    BY <1>1, <1>6, CostedSums
  <2>2. (in_flight \cup kept) \ in_flight = kept /\ in_flight \in SUBSET (in_flight \cup kept)
    BY <1>7
  <2>3. QED
    BY <2>1, <2>2, UnitsSplit
<1>10. Units(reservations, kept) \in Nat
  BY <1>6, CostedSums
<1>11. Units(reservations, in_flight \cup kept) <= Budget
  BY <1>3, <1>5, <1>6, <1>9, <1>10, BudgetBounds
<1>12. QED
  BY <1>8, <1>11 DEF in_flight

(* In block mode, within one window, the workers together never grant past *)
(* the one budget, whatever they interleave, misread, lose or restart      *)
(* (node_ledger.rs, reserve: the budget is checked on the record that the  *)
(* compare-and-swap replaces).                                             *)
THEOREM BudgetBound == Spec => []BudgetHeld
<1> DEFINE all == Inv /\ Upheld /\ Budgeted
<1>1. Init => all
  <2> SUFFICES ASSUME Init PROVE Upheld /\ Budgeted
    BY InitInv
  <2>1. record = Missing /\ Base(record) = AtPeriod(0) /\ DOMAIN reservations = {}
    BY DEF Init, Base, Missing
  <2>2. KeptOf(reservations, charges, late) = {}
    BY <2>1 DEF KeptOf
  <2>3. Fits(AtPeriod(0), reservations, {})
    BY UnitsEmpty, BudgetBounds DEF Fits, AtPeriod
  <2>4. QED
    BY <2>1, <2>2, <2>3 DEF Upheld, Budgeted
<1>2. all /\ [Next]_vars => all'
  <2> SUFFICES ASSUME Inv, Upheld, Budgeted, [Next]_vars PROVE Upheld' /\ Budgeted'
    BY NextInv
  <2>1. CASE Tick
    BY <2>1 DEF Tick, shared, history, Upheld, Budgeted, Inv, Typed
  <2>2. CASE UNCHANGED vars
    BY <2>2 DEF vars, Upheld, Budgeted
  <2>3. QED
    BY <2>1, <2>2, StepUpheld, StepBudgeted DEF Next
<1>3. all => BudgetHeld
  BY BudgetedBound
<1> HIDE DEF all
<1>4. QED
  BY <1>1, <1>2, <1>3, PTL DEF Spec

-----------------------------------------------------------------------------
(* No reservation that may yet be charged, or whose commit was answered, is*)
(* lost before the end of its window: it is on the record, or charged.     *)
Alive(id) == Holds(Base(record), id) \/ charges[id] > 0

CommitCalls == {id \in Ids : \E w \in Workers :
                  call[w] # Idle /\ call[w].op = "commit" /\ call[w].id = id}

Awaited == (DOMAIN reservations \ settled) \cup DOMAIN answers \cup CommitCalls

StillThere == \A id \in Awaited : Timeout = "commit" \/ InTime(id) => Alive(id)

LEMMA AwaitedReserved == Inv => Awaited \subseteq DOMAIN reservations
<1> SUFFICES ASSUME Inv, NEW id \in CommitCalls PROVE id \in DOMAIN reservations
  BY DEF Awaited, Inv, Typed
<1>1. PICK w \in Workers : call[w] # Idle /\ call[w].op = "commit" /\ call[w].id = id
  BY DEF CommitCalls
<1>2. QED
  BY <1>1, CallFacts DEF Bound, Inv, Typed

(* A release takes nothing off the record that is awaited.                 *)
LEMMA NotReleased ==
  ASSUME Inv, NEW worker \in Workers, NEW c, c = call[worker], Landed(c), Releases(c)
  PROVE  Subject(c) \notin Awaited
<1>1. c # Idle /\ TaskOK(c) /\ Bound(c)
  BY LandedReady
<1>2. c.entry = NoEntry /\ c.op = "release"
  BY <1>1 DEF Releases, Committing, Settling, TaskOK, Suits
<1>3. Subject(c) = c.id /\ c.id \in settled \ DOMAIN answers
  BY <1>1, <1>2 DEF Subject, Bound
<1>4. c.id \notin CommitCalls
  <2> SUFFICES ASSUME NEW w \in Workers, call[w] # Idle, call[w].op = "commit", call[w].id = c.id
               PROVE  FALSE
    BY DEF CommitCalls
  <2>1. w # worker
    BY <1>2
  <2>2. Owning(call[w]) /\ Owning(call[worker])
    BY <1>1, <1>2 DEF Owning
  <2>3. QED
    BY <2>1, <2>2 DEF Inv, Apart
<1>5. QED
  BY <1>3, <1>4 DEF Awaited

LEMMA LandedAlive ==
  ASSUME Inv, NEW worker \in Workers, NEW c, c = call[worker], Landed(c),
         NEW id \in Awaited, Alive(id)
  PROVE  \/ Alive(id)'
         \/ /\ Timeout = "release" /\ id \in Due(c, c.read) \ c.owed
            /\ Holds(Base(record), id)
            /\ c.now >= SatAdd(reservations[id].expires_at, Ttl)
<1>1. /\ \A i \in 1 .. MaxId : charges'[i] >= charges[i] \/ (i = Subject(c) /\ Releases(c))
      /\ \A i : Holds(Base(record), i) /\ ~Holds(Base(record'), i) =>
           \/ charges'[i] > 0
           \/ i = Subject(c) /\ Releases(c)
           \/ /\ Timeout = "release" /\ i \in Due(c, c.read) \ c.owed
              /\ c.now >= SatAdd(Entry(Base(record), i).expires_at, Ttl)
  BY LandedHolds
<1>2. id \in DOMAIN reservations /\ id \in 1 .. MaxId
  BY AwaitedReserved, IdsFinite DEF Inv, Typed
<1>3. ~(id = Subject(c) /\ Releases(c))
  BY NotReleased
<1>4. CASE charges[id] > 0
  <2>1. charges[id] \in Nat /\ charges'[id] \in Nat
    BY <1>2, LandedFacts DEF Inv, Typed
  <2>2. charges'[id] > 0
    BY <1>1, <1>2, <1>3, <1>4, <2>1
  <2>3. QED
    BY <2>2 DEF Alive
<1>5. CASE Holds(Base(record), id)
  <2>1. Entry(Base(record), id).expires_at = reservations[id].expires_at
    BY <1>2, <1>5 DEF Inv, Recorded, SameHold
  <2>2. Base(record)' = Base(record')
    OBVIOUS
  <2>3. CASE Holds(Base(record'), id)
    BY <2>2, <2>3 DEF Alive
  <2>4. CASE ~Holds(Base(record'), id)
    BY <1>1, <1>3, <1>5, <2>1, <2>4 DEF Alive
  <2>5. QED
    BY <2>3, <2>4
<1>6. QED
  BY <1>4, <1>5 DEF Alive

(* A step of a call awaits only what it has granted, besides what was.     *)
LEMMA DoesAwaited ==
  ASSUME Inv, NEW worker \in Workers, NEW c, c = call[worker], c # Idle,
         NEW d, NEW q, NEW result, Does(worker, c, d, q, result)
  PROVE  /\ \A id \in DOMAIN reservations :
              id \in DOMAIN reservations' /\ reservations'[id] = reservations[id]
         /\ \A id \in Awaited' : id \in Awaited \/ (Landed(c) /\ id \in New(c))
<1>1. /\ Moves(worker, c, d, q, Ids, result)
      /\ UNCHANGED <<clock, next_id, settled>>
      /\ Landed(c) \/ UNCHANGED stored
  BY DEF Does, Steps
<1>2. /\ \A id \in DOMAIN reservations :
           id \in DOMAIN reservations' /\ reservations'[id] = reservations[id]
      /\ \A id \in DOMAIN reservations' :
           id \in DOMAIN reservations \/ (Landed(c) /\ id \in New(c))
  <2>1. CASE UNCHANGED stored
    BY <2>1 DEF stored
  <2>2. CASE Landed(c)
    <3>1. \/ UNCHANGED reservations
          \/ /\ New(c) = {c.id}
             /\ DOMAIN reservations' = DOMAIN reservations \cup {c.id}
             /\ \A id \in DOMAIN reservations : reservations'[id] = reservations[id]
      BY <2>2, LandedFacts
    <3>2. QED
      BY <2>2, <3>1
  <2>3. QED
    BY <1>1, <2>1, <2>2
<1>3. DOMAIN call = Workers /\ call' = [call EXCEPT ![worker] = d] /\ Goes(c, d, Ids)
  BY <1>1 DEF Moves, Turns, Inv, Typed
<1>4. \A w \in Workers : call'[w] # Idle =>
        call[w] # Idle /\ call'[w].op = call[w].op /\ call'[w].id = call[w].id
  BY <1>3 DEF Goes, SameCall
<1>5. CommitCalls' \subseteq CommitCalls
  BY <1>1, <1>4 DEF CommitCalls, Ids, Idle
<1>6. c.op = "commit" => c.id \in CommitCalls
  <2>1. c.op = "commit" => c.id \in Ids
    BY CallFacts DEF Bound, Inv, Typed
  <2>2. QED
    BY <2>1 DEF CommitCalls
<1>7. DOMAIN answers' \subseteq DOMAIN answers \cup CommitCalls
  <2>1. \/ UNCHANGED answers
        \/ c.op = "commit" /\ DOMAIN answers' = DOMAIN answers \cup {c.id}
    BY <1>1, MovesAnswers
  <2>2. QED
    BY <1>6, <2>1
<1>8. Awaited' = (DOMAIN reservations' \ settled') \cup DOMAIN answers' \cup CommitCalls'
  BY DEF Awaited
<1> HIDE DEF Awaited
<1>9. \A id \in Awaited' : id \in Awaited \/ (Landed(c) /\ id \in New(c))
  BY <1>1, <1>2, <1>5, <1>7, <1>8 DEF Awaited
<1>10. QED
  BY <1>2, <1>9

LEMMA StillThereNext == Inv /\ StillThere /\ [Next]_vars => StillThere'
<1> SUFFICES ASSUME Inv, StillThere, [Next]_vars,
                    NEW id \in Awaited', Timeout = "commit" \/ InTime(id)'
             PROVE  Alive(id)'
  BY DEF StillThere
<1>1. ASSUME UNCHANGED <<record, charges, reservations>>, id \in Awaited,
             clock \in Nat, clock' >= clock
      PROVE  Alive(id)'
  <2>1. id \in DOMAIN reservations
    BY <1>1, AwaitedReserved
  <2>2. SatAdd(reservations[id].expires_at, Ttl) \in Nat /\ clock' \in Nat
    BY <2>1, NextInv, TtlAssumption, WidthAssumption DEF SatAdd, Inv, Typed
  <2>3. Timeout = "commit" \/ InTime(id)
    BY <1>1, <2>2 DEF InTime
  <2>4. Alive(id)
    BY <1>1, <2>3 DEF StillThere
  <2>5. QED
    BY <1>1, <2>4 DEF Alive
<1>2. clock \in Nat
  BY DEF Inv, Typed
<1>3. ASSUME NEW worker \in Workers, NEW c, NEW d, NEW q, Begins(worker, c, d, q)
      PROVE  Alive(id)'
  <2>1. /\ UNCHANGED <<record, charges, reservations, clock, answers>>
        /\ call' = [call EXCEPT ![worker] = d] /\ DOMAIN call = Workers /\ Goes(c, d, Ids')
    BY <1>3 DEF Begins, Turns, shared, Inv, Typed
  <2>2. /\ settled \subseteq settled'
        /\ c.op = "commit" => c.id \in DOMAIN reservations \ settled
    BY <1>3 DEF Begins
  <2>3. ASSUME id \in CommitCalls' PROVE id \in Awaited
    <3>1. PICK w \in Workers : call'[w] # Idle /\ call'[w].op = "commit" /\ call'[w].id = id
      BY <2>3 DEF CommitCalls, Idle
    <3>2. CASE w = worker
      BY <2>1, <2>2, <3>1, <3>2 DEF Goes, SameCall, Awaited
    <3>3. CASE w # worker
      <4>1. call[w] # Idle /\ call[w].op = "commit" /\ call[w].id = id
        BY <2>1, <3>1, <3>3
      <4>2. id \in Ids
        BY <4>1, CallFacts DEF Bound, Inv, Typed
      <4>3. QED
        BY <4>1, <4>2 DEF CommitCalls, Awaited
    <3>4. QED
      BY <3>2, <3>3
  <2>4. id \in Awaited
    BY <2>1, <2>2, <2>3 DEF Awaited
  <2>5. QED
    BY <1>1, <1>2, <2>1, <2>4
<1>4. ASSUME NEW worker \in Workers, call[worker] # Idle,
             NEW d, NEW q, NEW result, Does(worker, call[worker], d, q, result)
      PROVE  Alive(id)'
  <2>1. PICK c : c = call[worker]
    OBVIOUS
  <2>2. /\ \A i \in DOMAIN reservations :
             i \in DOMAIN reservations' /\ reservations'[i] = reservations[i]
        /\ id \in Awaited \/ (Landed(c) /\ id \in New(c))
        /\ Landed(c) \/ UNCHANGED stored
        /\ UNCHANGED clock
    BY <1>4, <2>1, DoesAwaited DEF Does
  <2>3. CASE Landed(c) /\ id \in New(c)
    <3>1. id \in DOMAIN Base(record').active
      BY <2>1, <2>3, LandedHolds
    <3>2. Base(record)' = Base(record')
      OBVIOUS
    <3>3. QED
      BY <3>1, <3>2 DEF Alive, Holds
  <2>4. CASE Landed(c) /\ id \in Awaited
    <3>1. id \in DOMAIN reservations /\ (Timeout = "commit" \/ InTime(id))
      BY <2>2, <2>4, AwaitedReserved DEF InTime
    <3>2. Alive(id)
      BY <2>4, <3>1 DEF StillThere
    <3>3. \/ Alive(id)'
          \/ /\ Timeout = "release"
             /\ c.now >= SatAdd(reservations[id].expires_at, Ttl)
      BY <2>1, <2>4, <3>2, LandedAlive
    <3>4. c.now <= clock /\ c.now \in Nat
      BY <2>1, <2>4, LandedReady DEF Bound, Whole
    <3>5. SatAdd(reservations[id].expires_at, Ttl) \in Nat
      BY <3>1, TtlAssumption, WidthAssumption DEF SatAdd, Inv, Typed
    <3>6. QED
      BY <1>2, <3>1, <3>3, <3>4, <3>5 DEF InTime
  <2>5. CASE UNCHANGED stored /\ id \in Awaited
    BY <1>1, <1>2, <2>2, <2>5 DEF stored
  <2>6. QED
    BY <2>2, <2>3, <2>4, <2>5
<1>5. ASSUME NEW worker \in Workers, Restart(worker) PROVE Alive(id)'
  <2>1. /\ UNCHANGED <<record, charges, reservations, clock, answers, settled, next_id>>
        /\ call' = [call EXCEPT ![worker] = Idle] /\ DOMAIN call = Workers
    BY <1>5 DEF Restart, shared, Inv, Typed
  <2>2. CommitCalls' \subseteq CommitCalls
    BY <2>1 DEF CommitCalls, Ids, Idle
  <2>3. id \in Awaited
    BY <2>1, <2>2 DEF Awaited
  <2>4. QED
    BY <1>1, <1>2, <2>1, <2>3
<1>6. CASE Tick \/ UNCHANGED vars
  <2>1. /\ UNCHANGED <<record, charges, reservations, answers, settled, next_id, call>>
        /\ clock' >= clock
    BY <1>2, <1>6 DEF Tick, shared, history, vars
  <2>2. id \in Awaited
    BY <2>1 DEF Awaited, CommitCalls, Ids
  <2>3. QED
    BY <1>1, <1>2, <2>1, <2>2
<1>7. ASSUME NEW worker \in Workers, Step(worker) PROVE Alive(id)'
  BY <1>3, <1>4, <1>5, <1>7, StepKinds
<1>8. QED
  BY <1>6, <1>7 DEF Next

-----------------------------------------------------------------------------
(* Release mode: no marker is provisional, and no settlement is one of a   *)
(* commit its deadline has charged.                                        *)
Plain ==
  /\ \A id \in DOMAIN markers : markers[id].mark # "provisional"
  /\ \A w \in Workers : call[w] # Idle =>
       /\ call[w].task # "resettle"
       /\ call[w].op = "collect" => call[w].mark # "provisional"

LEMMA BeginsPlain ==
  ASSUME Inv, Plain, NEW worker \in Workers, NEW c, NEW d, NEW q, Begins(worker, c, d, q)
  PROVE  Plain'
<1>1. /\ call' = [call EXCEPT ![worker] = d] /\ DOMAIN call = Workers
      /\ UNCHANGED markers /\ Goes(c, d, Ids')
      /\ d # Idle => Free(d) /\ d.task # "resettle"
      /\ c.op = "collect" => d.claim \in DOMAIN markers /\ d.mark = markers[d.claim].mark
  BY DEF Begins, Turns, shared, Inv, Typed
<1>2. d # Idle /\ d.op = "collect" => c.op = "collect"
  BY <1>1 DEF Goes, SameCall
<1>3. QED
  BY <1>1, <1>2 DEF Plain, Idle

LEMMA DoesPlain ==
  ASSUME Timeout = "release", Inv, Plain, NEW worker \in Workers, NEW c, c = call[worker],
         c # Idle, NEW d, NEW q, NEW result, Does(worker, c, d, q, result)
  PROVE  Plain'
<1>1. /\ call' = [call EXCEPT ![worker] = d] /\ DOMAIN call = Workers
      /\ d # Idle => Learns(c, d)
      /\ Remarked(c)
  BY DEF Does, Steps, Moves, Turns, Inv, Typed
<1>2. /\ \A id \in DOMAIN markers : markers[id].mark # "provisional"
      /\ c.task # "resettle"
      /\ c.op = "collect" => c.mark # "provisional"
  BY DEF Plain
<1>3. d # Idle => d.task # "resettle"
  BY <1>1, <1>2 DEF Learns, MarkOf, NoMark
<1>4. d # Idle /\ d.op = "collect" => d.mark # "provisional"
  BY <1>1, <1>2 DEF Learns, Collects
<1>5. \A id \in DOMAIN markers' : markers'[id].mark # "provisional"
  <2>1. ASSUME NEW key, NEW m, m.mark # "provisional", markers' = Put(markers, key, m)
        PROVE  \A id \in DOMAIN markers' : markers'[id].mark # "provisional"
    BY <1>2, <2>1 DEF Put
  <2>2. CASE c.at = "mark" /\ markers' = Stamped(c)
    <3>1. PICK m \in [mark : Marks, expires_at : Nat] :
            Stamped(c) = Put(markers, MarkId(c), m) /\ m.mark = Stamp(c)
      BY <2>2, StampedFacts
    <3>2. Stamp(c) # "provisional"
      BY DEF Stamp
    <3>3. QED
      BY <2>1, <2>2, <3>1, <3>2
  <2>3. CASE Collecting(c)
    <3>1. c.op = "collect" /\ c.read \in [mark : Marks, expires_at : Nat]
      BY <2>3, CallFacts DEF Shaped, Taken
    <3>2. [c.read EXCEPT !.mark = "collecting"].mark = "collecting"
          /\ [c.read EXCEPT !.mark = c.mark].mark = c.mark
      BY <3>1
    <3>3. CASE markers' = MarkAs(c, "collecting") \/ markers' = MarkAs(c, c.mark)
      BY <1>2, <2>1, <3>1, <3>2, <3>3 DEF MarkAs
    <3>4. CASE markers' = Restrict(markers, DOMAIN markers \ {c.claim})
      BY <1>2, <3>4 DEF Restrict
    <3>5. CASE UNCHANGED markers
      BY <1>2, <3>5
    <3>6. QED
      BY <1>1, <2>2, <2>3, <3>3, <3>4, <3>5, Zenon DEF Remarked
  <2>4. QED
    BY <1>1, <1>2, <2>2, <2>3 DEF Remarked
<1>6. QED
  BY <1>1, <1>3, <1>4, <1>5 DEF Plain, Idle

(* What a reserve is about to grant nobody has seen: it has no marker, no  *)
(* collector works on it, and no touch has read it.                        *)
Unknown(id) ==
  /\ id \notin DOMAIN markers
  /\ \A x \in Workers : call[x] # Idle =>
       /\ call[x].op = "collect" => call[x].claim # id
       /\ Touching(call[x]) => ~Holds(Base(call[x].read), id)

Unseen == \A w \in Workers : call[w] # Idle /\ call[w].op = "reserve" => Unknown(call[w].id)

LEMMA TouchRead ==
  ASSUME Inv, NEW worker \in Workers, NEW c, c = call[worker], Touching(c)
  PROVE  /\ c # Idle /\ ReadOK(c.read, Ids) /\ Sound(Base(c.read), Ids) /\ Reading(c, Ids)
         /\ \A id \in Due(c, c.read) : Holds(Base(c.read), id)
<1>1. c # Idle
  BY DEF Touching, Idle
<1>2. Reading(c, Ids) /\ ReadOK(c.read, Ids) /\ c.now \in Nat
  BY <1>1, CallFacts DEF Shaped, Reading, Whole
<1>3. IsFiniteSet(Ids)
  BY IdsFinite DEF Inv
<1>4. \A id \in Due(c, c.read) : Holds(Base(c.read), id)
  BY <1>2, <1>3, DueIs DEF Holds
<1>5. QED
  BY <1>1, <1>2, <1>4, BaseSound

LEMMA BeginsUnseen ==
  ASSUME Inv, Unseen, NEW worker \in Workers, NEW c, NEW d, NEW q, Begins(worker, c, d, q)
  PROVE  Unseen'
<1>1. /\ call' = [call EXCEPT ![worker] = d] /\ DOMAIN call = Workers
      /\ UNCHANGED markers /\ Goes(c, d, Ids') /\ call[worker] = Idle
      /\ d # Idle => ~Touching(d)
      /\ c.op = "collect" => d.claim \in DOMAIN markers
      /\ c.op = "reserve" => c.id = next_id
  BY DEF Begins, Free, Turns, shared, Inv, Typed
<1>2. d # Idle => d.op = c.op /\ d.id = c.id
  BY <1>1 DEF Goes, SameCall
<1>3. next_id \notin Ids
  BY DEF Ids, Inv, Typed
<1>4. Unknown(next_id)
  <2>1. next_id \notin DOMAIN markers
    BY <1>3 DEF Inv, Typed
  <2>2. ASSUME NEW x \in Workers, call[x] # Idle, call[x].op = "collect"
        PROVE  call[x].claim # next_id
    BY <1>3, <2>2, CallFacts DEF Shaped, Taken
  <2>3. ASSUME NEW x \in Workers, call[x] # Idle, Touching(call[x])
        PROVE  ~Holds(Base(call[x].read), next_id)
    BY <1>3, <2>3, TouchRead DEF Sound, SoundMaps, Holds
  <2>4. QED
    BY <2>1, <2>2, <2>3 DEF Unknown
<1>5. ASSUME NEW id, Unknown(id) PROVE Unknown(id)'
  <2>1. id \notin DOMAIN markers'
    BY <1>1, <1>5 DEF Unknown
  <2>2. ASSUME NEW x \in Workers, call'[x] # Idle
        PROVE  /\ call'[x].op = "collect" => call'[x].claim # id
               /\ Touching(call'[x]) => ~Holds(Base(call'[x].read), id)
    <3>1. CASE x = worker
      BY <1>1, <1>2, <1>5, <2>2, <3>1 DEF Unknown
    <3>2. CASE x # worker
      BY <1>1, <1>5, <2>2, <3>2 DEF Unknown
    <3>3. QED
      BY <3>1, <3>2
  <2>3. QED
    BY <2>1, <2>2 DEF Unknown, Idle, Touching, Base, Holds, AtPeriod
<1>6. ASSUME NEW w \in Workers, call'[w] # Idle, call'[w].op = "reserve"
      PROVE  Unknown(call'[w].id)
  <2>1. CASE w = worker
    BY <1>1, <1>2, <1>4, <1>6, <2>1
  <2>2. CASE w # worker
    BY <1>1, <1>6, <2>2 DEF Unseen
  <2>3. QED
    BY <2>1, <2>2
<1>7. ASSUME NEW w \in Workers, call'[w] # Idle, call'[w].op = "reserve"
      PROVE  (Unknown(call[w].id))'
  <2>1. PICK id : id = call'[w].id
    OBVIOUS
  <2>2. Unknown(id)'
    BY <1>5, <1>6, <1>7, <2>1
  <2>3. QED
    BY <2>1, <2>2 DEF Unknown
<1>8. QED
  BY <1>7 DEF Unseen, Idle

(* What a step of a call reads, the record held or had not yet held.       *)
LEMMA DoesUnseen ==
  ASSUME Inv, Unseen, NEW worker \in Workers, NEW c, c = call[worker], c # Idle,
         NEW d, NEW q, NEW result, Does(worker, c, d, q, result)
  PROVE  Unseen'
<1>1. /\ call' = [call EXCEPT ![worker] = d] /\ DOMAIN call = Workers
      /\ Goes(c, d, Ids)
      /\ d # Idle => Learns(c, d)
      /\ Remarked(c)
  BY DEF Does, Steps, Moves, Turns, Inv, Typed
<1>2. ASSUME NEW w \in Workers, call'[w] # Idle, call'[w].op = "reserve", NEW id, id = call'[w].id
      PROVE  Unknown(id)'
  <2>1. call[w] # Idle /\ call[w].op = "reserve" /\ call[w].id = id
    BY <1>1, <1>2 DEF Goes, SameCall
  <2>2. /\ Unknown(id) /\ ~Holds(Base(record), id) /\ id \notin DOMAIN reservations
    BY <2>1, CallFacts DEF Unseen, Bound
  <2>3. /\ id \notin DOMAIN markers
        /\ c.op = "collect" => c.claim # id
        /\ Touching(c) => ~Holds(Base(c.read), id)
    BY <2>2 DEF Unknown
  <2>4. id \notin DOMAIN markers'
    <3>1. CASE c.at = "mark" /\ markers' = Stamped(c)
      <4>1. MarkId(c) # id
        <5>1. CASE c.claim = 0
          <6>1. Subject(c) \in settled
            BY <3>1, <5>1, CallFacts DEF Shaped, Marking
          <6>2. QED
            BY <2>2, <5>1, <6>1 DEF MarkId, Persisting, Inv, Typed
        <5>2. CASE c.claim # 0
          <6>1. Touching(c)
            BY <3>1, <5>2 DEF Touching
          <6>2. Holds(Base(c.read), c.claim)
            BY <5>2, <6>1, TouchRead DEF Reading
          <6>3. QED
            BY <2>3, <5>2, <6>1, <6>2 DEF MarkId, Persisting
        <5>3. QED
          BY <5>1, <5>2
      <4>2. PICK m \in [mark : Marks, expires_at : Nat] : Stamped(c) = Put(markers, MarkId(c), m)
        BY <3>1, StampedFacts
      <4>3. QED
        BY <2>3, <3>1, <4>1, <4>2 DEF Put
    <3>2. CASE Collecting(c)
      <4>1. c.claim # id
        BY <2>3, <3>2, CallFacts DEF Shaped
      <4>2. CASE markers' = MarkAs(c, "collecting") \/ markers' = MarkAs(c, c.mark)
        BY <2>3, <4>1, <4>2 DEF MarkAs, Put
      <4>3. CASE markers' = Restrict(markers, DOMAIN markers \ {c.claim})
        BY <2>3, <4>3 DEF Restrict
      <4>4. CASE UNCHANGED markers
        BY <2>3, <4>4
      <4>5. QED
        BY <1>1, <3>1, <3>2, <4>2, <4>3, <4>4, Zenon DEF Remarked
    <3>3. QED
      BY <1>1, <2>3, <3>1, <3>2 DEF Remarked
  <2>5. d # Idle /\ d.op = "collect" => d.claim # id
    BY <1>1, <2>3 DEF Learns, Collects
  <2>6. d # Idle /\ Touching(d) => ~Holds(Base(d.read), id)
    <3> SUFFICES ASSUME d # Idle, Touching(d) PROVE ~Holds(Base(d.read), id)
      OBVIOUS
    <3>1. Rereads(c, d)
      BY <1>1 DEF Learns
    <3>2. CASE d.read = c.read /\ Touching(c)
      BY <2>3, <3>2
    <3>3. CASE d.read = record
      BY <2>2, <3>3
    <3>4. CASE d.read = Missing
      <4>1. Base(d.read) = AtPeriod(0)
        BY <3>4 DEF Base, Missing
      <4>2. QED
        BY <4>1 DEF AtPeriod, Holds
    <3>5. QED
      BY <3>1, <3>2, <3>3, <3>4 DEF Rereads
  <2>7. ASSUME NEW x \in Workers, call'[x] # Idle
        PROVE  /\ call'[x].op = "collect" => call'[x].claim # id
               /\ Touching(call'[x]) => ~Holds(Base(call'[x].read), id)
    <3>1. CASE x = worker
      BY <1>1, <2>5, <2>6, <2>7, <3>1
    <3>2. CASE x # worker
      BY <1>1, <2>2, <2>7, <3>2 DEF Unknown
    <3>3. QED
      BY <3>1, <3>2
  <2>8. QED
    BY <2>4, <2>7 DEF Unknown, Idle, Touching, Base, Holds, AtPeriod
<1>3. ASSUME NEW w \in Workers, call'[w] # Idle, call'[w].op = "reserve"
      PROVE  (Unknown(call[w].id))'
  <2>1. PICK id : id = call'[w].id
    OBVIOUS
  <2>2. Unknown(id)'
    BY <1>2, <1>3, <2>1
  <2>3. QED
    BY <2>1, <2>2 DEF Unknown
<1>4. QED
  BY <1>3 DEF Unseen, Idle

-----------------------------------------------------------------------------
(* A marked commit is alive, and while it is on the record its marker says *)
(* so: only a touch that sees the mark, and charges it, takes it off.      *)
MarkedKept == \A id \in marked :
  Alive(id) /\ (Holds(Base(record), id) => MarkIn(markers, id) = "commit")

(* What a call knows of the reservations it works on.                      *)
Knows(c) ==
  /\ Collecting(c) => ~Holds(Base(record), c.claim)
  /\ Marking(c) => InTime(Subject(c))
  /\ Touching(c) => \A id \in Passed(c) :
       id \in marked /\ c.now >= SatAdd(reservations[id].expires_at, Ttl)
         => ~Holds(Base(record), id)

Known == \A w \in Workers : call[w] # Idle => Knows(call[w])

(* A commit is marked by a step that found its marker, or wrote it.        *)
LEMMA MovesMarked ==
  ASSUME NEW worker, NEW c, NEW d, NEW q, NEW ids, NEW result,
         Moves(worker, c, d, q, ids, result)
  PROVE  UNCHANGED marked \/ (result = "marked" /\ marked' = marked \cup {Subject(c)})
BY DEF Moves, Keeps, Answers, Defers, Persists, Subject

LEMMA CommitAwaited ==
  ASSUME Inv, NEW worker \in Workers, NEW c, c = call[worker], c # Idle, Committing(c)
  PROVE  Subject(c) \in Awaited
<1>1. Bound(c) /\ (c.entry # NoEntry => c.entry.id \in DOMAIN answers)
  BY CallFacts
<1>2. CASE c.entry # NoEntry
  BY <1>1, <1>2 DEF Subject, Awaited
<1>3. CASE c.entry = NoEntry
  <2>1. c.op = "commit" /\ c.id \in settled
    BY <1>1, <1>3 DEF Committing, Bound
  <2>2. c.id \in CommitCalls
    BY <2>1 DEF CommitCalls, Inv, Typed
  <2>3. QED
    BY <1>3, <2>2 DEF Subject, Awaited
<1>4. QED
  BY <1>2, <1>3

LEMMA DoesMarked ==
  ASSUME Inv, StillThere, Known, Plain', NEW worker \in Workers, NEW c, c = call[worker],
         c # Idle, NEW d, NEW q, NEW result, Does(worker, c, d, q, result),
         NEW id \in marked' \ marked
  PROVE  /\ id = Subject(c) /\ Marking(c) /\ UNCHANGED stored
         /\ id \in DOMAIN reservations /\ InTime(id) /\ Alive(id)
         /\ MarkIn(markers', id) = "commit"
<1>1. /\ Moves(worker, c, d, q, Ids, result)
      /\ Landed(c) \/ UNCHANGED stored
      /\ result = "marked" =>
           Marking(c) /\ MarkIn(markers', Subject(c)) \in {"commit", "provisional"}
  BY DEF Does, Steps
<1>2. id = Subject(c) /\ result = "marked"
  BY <1>1, MovesMarked
<1>3. Marking(c) /\ MarkIn(markers', id) \in {"commit", "provisional"}
  BY <1>1, <1>2
<1>4. MarkIn(markers', id) # "provisional"
  BY DEF MarkIn, Plain, NoMark
<1>5. UNCHANGED stored
  BY <1>1, <1>3 DEF Landed, Marking
<1>6. Committing(c) /\ InTime(id)
  BY <1>2, <1>3, CallFacts DEF Shaped, Known, Knows
<1>7. id \in Awaited
  BY <1>2, <1>6, CommitAwaited
<1>8. QED
  BY <1>2, <1>3, <1>4, <1>5, <1>6, <1>7, AwaitedReserved DEF StillThere

(* No step takes the mark of a commit on the record away.                  *)
LEMMA MarkStays ==
  ASSUME Inv, NEW worker \in Workers, NEW c, c = call[worker], c # Idle, Remarked(c),
         Collecting(c) => ~Holds(Base(record), c.claim),
         NEW id, MarkIn(markers, id) = "commit", Holds(Base(record), id)
  PROVE  MarkIn(markers', id) = "commit"
<1>1. CASE UNCHANGED markers
  BY <1>1
<1>2. CASE c.at = "mark" /\ MarkWins(MarkId(c), c.mark) /\ markers' = Stamped(c)
  <2>1. PICK m \in [mark : Marks, expires_at : Nat] :
          Stamped(c) = Put(markers, MarkId(c), m) /\ m.mark = Stamp(c)
    BY <1>2, StampedFacts
  <2>2. CASE MarkId(c) # id
    BY <1>2, <2>1, <2>2 DEF MarkIn, Put
  <2>3. CASE MarkId(c) = id
    <3>1. c.mark = "commit"
      BY <1>2, <2>3 DEF MarkWins, MarkOf, MarkIn, NoMark
    <3>2. c.claim = 0
      <4>1. c.claim # 0 => Touching(c)
        BY <1>2 DEF Touching
      <4>2. QED
        BY <3>1, <4>1, TouchRead DEF Reading
    <3>3. m.mark = "commit"
      BY <2>1, <3>2 DEF Stamp, Persisting
    <3>4. QED
      BY <1>2, <2>1, <2>3, <3>3 DEF MarkIn, Put
  <2>4. QED
    BY <2>2, <2>3
<1>3. CASE Collecting(c)
  <2>1. c.claim # id
    BY <1>3
  <2>2. CASE markers' = MarkAs(c, "collecting") \/ markers' = MarkAs(c, c.mark)
    BY <2>1, <2>2 DEF MarkAs, Put, MarkIn
  <2>3. CASE markers' = Restrict(markers, DOMAIN markers \ {c.claim})
    BY <2>1, <2>3 DEF Restrict, MarkIn
  <2>4. QED
    BY <1>1, <1>2, <1>3, <2>2, <2>3, Zenon DEF Remarked
<1>4. QED
  BY <1>1, <1>2, <1>3 DEF Remarked

LEMMA DoesMarkedKept ==
  ASSUME Inv, StillThere, Known, MarkedKept, Plain', NEW worker \in Workers, NEW c,
         c = call[worker], c # Idle, NEW d, NEW q, NEW result, Does(worker, c, d, q, result)
  PROVE  MarkedKept'
<1>1. Remarked(c) /\ (Landed(c) \/ UNCHANGED stored)
  BY DEF Does
<1>2. ASSUME NEW id \in marked'
      PROVE  Alive(id)' /\ (Holds(Base(record'), id) => MarkIn(markers', id) = "commit")
  <2>1. CASE id \notin marked
    BY <1>2, <2>1, DoesMarked DEF Alive, stored
  <2>2. CASE id \in marked
    <3>1. Alive(id) /\ (Holds(Base(record), id) => MarkIn(markers, id) = "commit")
      BY <2>2 DEF MarkedKept
    <3>2. Holds(Base(record), id) => MarkIn(markers', id) = "commit"
      BY <1>1, <3>1, MarkStays DEF Known, Knows
    <3>3. CASE UNCHANGED stored
      BY <3>1, <3>2, <3>3 DEF stored, Alive
    <3>4. CASE Landed(c)
      <4>1. id \in Awaited /\ id \in DOMAIN reservations
        BY <2>2 DEF Inv, Typed, Awaited
      <4>2. Holds(Base(record'), id) => Holds(Base(record), id)
        <5>1. c.op = "reserve" => c.id \notin DOMAIN reservations
          BY <3>4, LandedReady DEF Bound
        <5>2. \A i : Holds(Base(record'), i) =>
                Holds(Base(record), i) \/ (c.task = "reserve" /\ c.op = "reserve" /\ i = c.id)
          BY <3>4, LandedFacts
        <5>3. QED
          BY <4>1, <5>1, <5>2
      <4>3. \/ Alive(id)'
            \/ /\ id \in Due(c, c.read) \ c.owed
               /\ Holds(Base(record), id)
               /\ c.now >= SatAdd(reservations[id].expires_at, Ttl)
        BY <3>1, <3>4, <4>1, LandedAlive
      <4>4. c.todo = {} /\ Touching(c)
        BY <3>4, LandedReady
      <4>5. id \in Due(c, c.read) \ c.owed => id \in Passed(c)
        BY <4>4 DEF Passed
      <4>6. Alive(id)'
        BY <2>2, <4>3, <4>4, <4>5 DEF Known, Knows
      <4>7. QED
        BY <3>2, <4>2, <4>6
    <3>5. QED
      BY <1>1, <3>3, <3>4
  <2>3. QED
    BY <2>1, <2>2
<1>3. QED
  BY <1>2 DEF MarkedKept

(* What the call knows after its step, of the state the step found.        *)
LEMMA DoesKnows ==
  ASSUME "misread" \notin Faults, Inv, Known, MarkedKept, NEW worker \in Workers, NEW c,
         c = call[worker], c # Idle, NEW d, d # Idle, NEW q, NEW result,
         Does(worker, c, d, q, result)
  PROVE  Knows(d) /\ SameCall(d, c) /\ Shaped(d, Ids)
<1>1. Learns(c, d) /\ SameCall(d, c) /\ Shaped(d, Ids) /\ Knows(c) /\ ReadOK(record, Ids)
  BY DEF Does, Steps, Moves, Goes, Known, Inv, Recorded
<1>2. Collecting(d) => ~Holds(Base(record), d.claim)
  <2> SUFFICES ASSUME Collecting(d) PROVE ~Holds(Base(record), d.claim)
    OBVIOUS
  <2>1. Collects(c, d)
    BY <1>1 DEF Shaped, Learns
  <2>2. QED
    BY <1>1, <2>1, OnRecordIs DEF Collects, Knows
<1>3. Marking(d) => InTime(Subject(d))
  <2> SUFFICES ASSUME Marking(d) PROVE InTime(Subject(d))
    OBVIOUS
  <2>1. Subject(d) = Subject(c)
    BY <1>1 DEF Learns, SameCall, Subject
  <2>2. QED
    BY <1>1, <2>1 DEF Learns, Knows
<1>4. Touching(d) => \A id \in Passed(d) :
        id \in marked /\ d.now >= SatAdd(reservations[id].expires_at, Ttl)
          => ~Holds(Base(record), id)
  <2> SUFFICES ASSUME Touching(d), NEW id \in Passed(d), id \in marked,
                      d.now >= SatAdd(reservations[id].expires_at, Ttl)
               PROVE  ~Holds(Base(record), id)
    OBVIOUS
  <2>1. Rereads(c, d)
    BY <1>1 DEF Learns
  <2>2. CASE Passed(d) = {}
    BY <2>2
  <2>3. CASE id \in Passed(c) /\ Touching(c)
    BY <1>1, <2>3 DEF Knows, SameCall
  <2>4. CASE MarkOf(id) # "commit"
    BY <2>4 DEF MarkedKept, MarkOf, MarkIn
  <2>5. QED
    BY <2>1, <2>2, <2>3, <2>4 DEF Rereads
<1>5. QED
  BY <1>1, <1>2, <1>3, <1>4 DEF Knows

LEMMA KnowsStays ==
  ASSUME Inv, StillThere, Known, Plain', NEW worker \in Workers, NEW c, c = call[worker],
         c # Idle, NEW d, NEW q, NEW result, Does(worker, c, d, q, result),
         NEW x, Knows(x), x.now \in Nat, x.now <= clock,
         Collecting(x) /\ c.op = "reserve" => x.claim # c.id,
         Marking(x) => Subject(x) \in DOMAIN reservations
  PROVE  Knows(x)'
<1>1. /\ \A id \in DOMAIN reservations :
           id \in DOMAIN reservations' /\ reservations'[id] = reservations[id]
      /\ Landed(c) \/ UNCHANGED stored
      /\ UNCHANGED clock
  BY DoesAwaited DEF Does
<1>2. /\ \A id : Holds(Base(record'), id) =>
           Holds(Base(record), id) \/ (c.op = "reserve" /\ id = c.id)
      /\ c.op = "reserve" => c.id \notin DOMAIN reservations
  <2>1. c.op = "reserve" => c.id \notin DOMAIN reservations
    BY CallFacts DEF Bound
  <2>2. CASE UNCHANGED stored
    BY <2>1, <2>2 DEF stored
  <2>3. CASE Landed(c)
    BY <2>1, <2>3, LandedFacts
  <2>4. QED
    BY <1>1, <2>2, <2>3
<1>3. Collecting(x) => ~Holds(Base(record'), x.claim)
  BY <1>2 DEF Knows
<1>4. Marking(x) => clock' < SatAdd(reservations'[Subject(x)].expires_at, Ttl)
  BY <1>1 DEF Knows, InTime
<1>5. Touching(x) => \A id \in Passed(x) :
        id \in marked' /\ x.now >= SatAdd(reservations'[id].expires_at, Ttl)
          => ~Holds(Base(record'), id)
  <2> SUFFICES ASSUME Touching(x), NEW id \in Passed(x), id \in marked',
                      x.now >= SatAdd(reservations'[id].expires_at, Ttl)
               PROVE  ~Holds(Base(record'), id)
    OBVIOUS
  <2>1. CASE id \in marked
    <3>1. id \in DOMAIN reservations
      BY <2>1 DEF Inv, Typed
    <3>2. QED
      BY <1>1, <1>2, <2>1, <3>1 DEF Knows
  <2>2. CASE id \notin marked
    <3>1. id \in DOMAIN reservations /\ InTime(id)
      BY <2>2, DoesMarked
    <3>2. SatAdd(reservations[id].expires_at, Ttl) \in Nat /\ clock \in Nat
      BY <3>1, TtlAssumption, WidthAssumption DEF SatAdd, Inv, Typed
    <3>3. QED
      BY <1>1, <3>1, <3>2 DEF InTime
  <2>3. QED
    BY <2>1, <2>2
<1>6. QED
  BY <1>3, <1>4, <1>5 DEF Knows, Collecting, Marking, Touching, Passed, Due, Subject, InTime

LEMMA DoesKnown ==
  ASSUME "misread" \notin Faults, Inv, StillThere, Unseen, Known, MarkedKept, Plain',
         NEW worker \in Workers, NEW c, c = call[worker], c # Idle,
         NEW d, NEW q, NEW result, Does(worker, c, d, q, result)
  PROVE  Known'
<1>1. call' = [call EXCEPT ![worker] = d] /\ DOMAIN call = Workers
  BY DEF Does, Steps, Moves, Turns, Inv, Typed
<1>2. Bound(c) /\ Shaped(c, Ids) /\ settled \subseteq DOMAIN reservations
  BY CallFacts DEF Inv, Typed
<1>3. ASSUME NEW w \in Workers, call'[w] # Idle, NEW x, x = call'[w] PROVE Knows(x)'
  <2>1. CASE w = worker
    <3>1. x = d /\ Knows(x) /\ SameCall(x, c) /\ Shaped(x, Ids)
      BY <1>1, <1>3, <2>1, DoesKnows
    <3>2. x.now \in Nat /\ x.now <= clock
      BY <1>2, <3>1 DEF SameCall, Bound, Shaped, Whole
    <3>3. ~(Collecting(x) /\ c.op = "reserve")
      BY <3>1 DEF Shaped, SameCall
    <3>4. Marking(x) => Subject(x) \in DOMAIN reservations
      <4> SUFFICES ASSUME Marking(x) PROVE Subject(x) \in DOMAIN reservations
        OBVIOUS
      <4>1. Learns(c, x)
        BY <1>3, <3>1 DEF Does, Steps
      <4>2. x.entry = c.entry
        BY <4>1 DEF Learns
      <4>3. Subject(x) = Subject(c) /\ Committing(x) = Committing(c) /\ Committing(x)
        BY <3>1, <4>2 DEF SameCall, Subject, Committing, Shaped
      <4>4. QED
        BY <1>2, <4>3, CallFacts
    <3>5. QED
      BY <3>1, <3>2, <3>3, <3>4, KnowsStays
  <2>2. CASE w # worker
    <3>1. x = call[w] /\ x # Idle
      BY <1>1, <1>3, <2>2
    <3>2. Knows(x) /\ Bound(x) /\ Shaped(x, Ids)
      BY <3>1, CallFacts DEF Known
    <3>3. x.now \in Nat /\ x.now <= clock
      BY <3>2 DEF Bound, Shaped, Whole
    <3>4. Collecting(x) /\ c.op = "reserve" => x.claim # c.id
      BY <3>1, <3>2 DEF Unseen, Unknown, Shaped
    <3>5. Marking(x) => Subject(x) \in DOMAIN reservations
      BY <1>2, <3>1, <3>2, CallFacts DEF Shaped
    <3>6. QED
      BY <3>2, <3>3, <3>4, <3>5, KnowsStays
  <2>3. QED
    BY <2>1, <2>2
<1>4. ASSUME NEW w \in Workers, call'[w] # Idle PROVE Knows(call[w])'
  <2>1. PICK x : x = call'[w]
    OBVIOUS
  <2>2. Knows(x)'
    BY <1>3, <1>4, <2>1
  <2>3. QED
    BY <2>1, <2>2
       DEF Knows, Collecting, Marking, Touching, Passed, Due, Subject, InTime
<1>5. QED
  BY <1>4 DEF Known, Idle

(* A commit whose answer promises it is charged, marked, queued or lost    *)
(* with its queue.                                                         *)
Waits(id) == charges[id] > 0 \/ id \in marked \/ Queued(id) \/ id \in lost

Deferred == \A id \in DOMAIN answers : answers[id] # "not-active" => Waits(id)

LEMMA QueuedIs ==
  \A id : Queued(id) <=>
    \E w \in Workers : \E e \in Carried(pending[w], call[w]) : e.id = id
<1>1. \A w \in Workers : QueuedBy(w) = Carried(pending[w], call[w])
  BY DEF QueuedBy, Carried, Elements
<1>2. QED
  BY <1>1 DEF Queued

(* An attempt that has ended for good has charged its commit, or was to    *)
(* settle a queued one, which is marked.                                   *)
LEMMA EndedCharged ==
  ASSUME Timeout = "release", "misread" \notin Faults, Inv, Plain,
         NEW worker \in Workers, NEW c, c = call[worker], c # Idle, Committing(c),
         NEW result, Ended(c, result), result \in Final
  PROVE  \/ charges'[Subject(c)] > 0
         \/ c.entry # NoEntry /\ c.entry.id \in marked
         \/ c.entry = NoEntry /\ result # "done"
<1>1. Shaped(c, Ids) /\ Bound(c) /\ c.task # "resettle"
  BY CallFacts DEF Plain
<1>2. c.entry # NoEntry /\ c.entry.persisted => c.entry.id \in marked
  BY CallFacts
<1>3. c.at \in {"read", "put"} /\ TaskOK(c)
  BY <1>1 DEF Ended, Shaped, Touching
<1>4. Settles(c)
  <2>1. c.op # "sweep" /\ c.task # "sweep"
    BY <1>1, <1>3 DEF Committing, TaskOK, Suits, Shaped, Whole
  <2>2. c.task # "reserve"
    BY <1>3 DEF Committing, TaskOK, Suits
  <2>3. QED
    BY <1>3, <2>1, <2>2 DEF TaskOK, Suits, Settles, Settling
<1>5. CASE result = "done"
  <2>1. Landed(c) /\ (Settling(c) => Applied(c) # "not-active")
    BY <1>4, <1>5 DEF Ended
  <2>2. c.task = "charge" \/ Applied(c) # "not-active"
    BY <1>4, <2>1 DEF Settles
  <2>3. charges'[Subject(c)] > 0
    BY <1>4, <2>1, <2>2, LandedHolds
  <2>4. QED
    BY <2>3
<1>6. CASE result # "done"
  <2>1. Settling(c)
    <3>1. c.task # "sweep"
      BY <1>4 DEF Settles, Settling
    <3>2. QED
      BY <1>6, <3>1 DEF Ended, Final
  <2>2. c.task = "settle"
    BY <1>1, <2>1 DEF Settling
  <2>3. c.entry # NoEntry => c.entry.persisted
    BY <1>3, <2>2 DEF TaskOK, Suits
  <2>4. QED
    BY <1>2, <1>6, <2>3
<1>7. QED
  BY <1>5, <1>6

LEMMA DoesDeferred ==
  ASSUME Timeout = "release", "misread" \notin Faults, Inv, Plain, Deferred,
         NEW worker \in Workers, NEW c, c = call[worker], c # Idle,
         NEW d, NEW q, NEW result, Does(worker, c, d, q, result)
  PROVE  Deferred'
<1>1. /\ Moves(worker, c, d, q, Ids, result)
      /\ Landed(c) \/ UNCHANGED stored
      /\ result \in Final => Ended(c, result)
  BY DEF Does, Steps
<1>2. /\ call' = [call EXCEPT ![worker] = d] /\ pending' = [pending EXCEPT ![worker] = q]
      /\ DOMAIN call = Workers /\ DOMAIN pending = Workers
  BY <1>1 DEF Moves, Turns, Inv, Typed
<1>3. /\ call'[worker] = d /\ pending'[worker] = q
      /\ \A w \in Workers : w # worker => call'[w] = call[w] /\ pending'[w] = pending[w]
  BY <1>2
<1>4. marked \subseteq marked' /\ lost \subseteq lost' /\ DOMAIN answers \subseteq DOMAIN answers'
  <2>1. marked \subseteq marked' /\ DOMAIN answers \subseteq DOMAIN answers'
    BY <1>1, MovesAnswers
  <2>2. lost \subseteq lost'
    BY <1>1 DEF Moves, Keeps, Answers, Defers, Persists
  <2>3. QED
    BY <2>1, <2>2
<1>5. ASSUME NEW e \in Carried(q, d) PROVE Queued(e.id)'
  <2>1. \E w \in Workers : \E f \in Carried(pending'[w], call'[w]) : f.id = e.id
    BY <1>3, <1>5
  <2>2. \E w \in Workers : \E f \in QueuedBy(w)' : f.id = e.id
    BY <2>1 DEF QueuedBy, Carried, Elements, Idle
  <2>3. QED
    BY <2>2 DEF Queued
<1>6. ASSUME NEW w \in Workers, w # worker, NEW e \in Carried(pending[w], call[w])
      PROVE  Queued(e.id)'
  <2>1. \E v \in Workers : \E f \in QueuedBy(v)' : f.id = e.id
    BY <1>3, <1>6 DEF QueuedBy, Carried, Elements, Idle
  <2>2. QED
    BY <2>1 DEF Queued
<1>7. ASSUME NEW id \in DOMAIN answers, charges[id] > 0 PROVE charges'[id] > 0
  <2>1. CASE UNCHANGED stored
    BY <1>7, <2>1 DEF stored
  <2>2. CASE Landed(c)
    <3>1. id \in 1 .. MaxId /\ id \in Awaited
      BY IdsFinite DEF Inv, Typed, Awaited
    <3>2. charges'[id] >= charges[id]
      BY <2>2, <3>1, LandedHolds, NotReleased
    <3>3. charges[id] \in Nat /\ charges'[id] \in Nat
      BY <2>2, <3>1, LandedFacts DEF Inv, Typed
    <3>4. QED
      BY <1>7, <3>2, <3>3
  <2>3. QED
    BY <1>1, <2>1, <2>2
<1>8. ASSUME NEW f \in Carried(pending[worker], c)
      PROVE  charges'[f.id] > 0 \/ f.id \in marked' \/ Queued(f.id)' \/ f.id \in lost'
  <2>1. CASE Keeps(worker, c, d, q, result)
    <3>1. \/ \E e \in Carried(q, d) : e.id = f.id
          \/ f.id \in lost'
          \/ f = c.entry /\ result \in Final
      BY <2>1 DEF Keeps
    <3>2. CASE f = c.entry /\ result \in Final
      <4>1. c.entry # NoEntry
        <5>1. f \in Entries
          <6>1. pending[worker] \in Seq(Entries) /\ Shaped(c, Ids)
            BY CallFacts DEF Inv, Typed
          <6>2. QED
            BY <6>1 DEF Carried, Elements, Shaped, Whole
        <5>2. QED
          BY <3>2, <5>1, EntryFacts
      <4>2. Committing(c) /\ Subject(c) = f.id
        BY <3>2, <4>1 DEF Committing, Subject
      <4>3. \/ charges'[Subject(c)] > 0
            \/ c.entry # NoEntry /\ c.entry.id \in marked
        BY <1>1, <3>2, <4>1, <4>2, EndedCharged
      <4>4. QED
        BY <1>4, <3>2, <4>2, <4>3
    <3>3. QED
      BY <1>5, <3>1, <3>2
  <2>2. CASE Answers(worker, c, d, q, result)
    <3>1. f \in Carried(q, d)
      BY <2>2 DEF Answers, Carried
    <3>2. QED
      BY <1>5, <3>1
  <2>3. CASE Defers(worker, c, d, q, result)
    <3>1. PICK e \in Entries : q = Append(pending[worker], e) \/ q = pending[worker]
      BY <2>3 DEF Defers
    <3>2. pending[worker] \in Seq(Entries)
      BY DEF Inv, Typed
    <3>3. f \in Elements(q)
      <4>1. f \in Elements(pending[worker])
        BY <2>3 DEF Defers, Carried
      <4>2. Elements(Append(pending[worker], e)) = Elements(pending[worker]) \cup {e}
        BY <3>2, ElementsAppend
      <4>3. QED
        BY <3>1, <4>1, <4>2
    <3>4. QED
      BY <1>5, <3>3 DEF Carried
  <2>4. CASE Persists(worker, c, d, q, result)
    <3>1. d.entry # NoEntry
      BY <2>4, EntryFacts DEF Persists
    <3>2. \E e \in Carried(q, d) : e.id = f.id
      BY <2>4, <3>1 DEF Persists, Carried
    <3>3. QED
      BY <1>5, <3>2
  <2>5. QED
    BY <1>1, <2>1, <2>2, <2>3, <2>4 DEF Moves
<1>9. ASSUME NEW id \in DOMAIN answers, Waits(id)
      PROVE  charges'[id] > 0 \/ id \in marked' \/ Queued(id)' \/ id \in lost'
  <2>1. CASE Queued(id)
    <3>1. PICK w \in Workers : \E e \in Carried(pending[w], call[w]) : e.id = id
      BY <2>1, QueuedIs
    <3>2. QED
      BY <1>6, <1>8, <3>1
  <2>2. QED
    BY <1>4, <1>7, <1>9, <2>1 DEF Waits
<1>10. ASSUME NEW id \in DOMAIN answers', answers'[id] # "not-active"
       PROVE  charges'[id] > 0 \/ id \in marked' \/ Queued(id)' \/ id \in lost'
  <2>1. CASE id \in DOMAIN answers /\ answers'[id] = answers[id]
    BY <1>9, <1>10, <2>1 DEF Deferred
  <2>2. CASE ~(id \in DOMAIN answers /\ answers'[id] = answers[id])
    <3>1. CASE Answers(worker, c, d, q, result)
      <4>1. id = c.id /\ result = "done" /\ Committing(c) /\ Subject(c) = id
        BY <1>10, <2>2, <3>1 DEF Answers, Put, Committing, Subject
      <4>2. charges'[Subject(c)] > 0
        BY <1>1, <3>1, <4>1, EndedCharged DEF Answers
      <4>3. QED
        BY <4>1, <4>2
    <3>2. CASE Defers(worker, c, d, q, result)
      <4>1. id = c.id
        BY <1>10, <2>2, <3>2 DEF Defers, Put
      <4>2. PICK e \in Entries :
              /\ e.id = c.id
              /\ \/ q = Append(pending[worker], e)
                 \/ marked' = marked \cup {c.id}
        BY <3>2 DEF Defers
      <4>3. pending[worker] \in Seq(Entries)
        BY DEF Inv, Typed
      <4>4. q = Append(pending[worker], e) => e \in Carried(q, d)
        BY <4>3, ElementsAppend DEF Carried
      <4>5. QED
        BY <1>5, <4>1, <4>2, <4>4
    <3>3. CASE UNCHANGED answers
      BY <1>10, <2>2, <3>3
    <3>4. QED
      BY <1>1, <3>1, <3>2, <3>3 DEF Moves, Keeps, Persists
  <2>3. QED
    BY <2>1, <2>2
<1>11. QED
  BY <1>10 DEF Deferred, Waits

LEMMA BeginsDeferred ==
  ASSUME Inv, Deferred, NEW worker \in Workers, NEW c, NEW d, NEW q, Begins(worker, c, d, q)
  PROVE  Deferred'
<1>1. /\ call' = [call EXCEPT ![worker] = d] /\ pending' = [pending EXCEPT ![worker] = q]
      /\ DOMAIN call = Workers /\ DOMAIN pending = Workers
      /\ Carried(q, d) = Elements(pending[worker]) /\ call[worker] = Idle
      /\ UNCHANGED <<charges, answers, marked, lost>>
  BY DEF Begins, Turns, Inv, Typed
<1>2. ASSUME NEW id, Queued(id) PROVE Queued(id)'
  <2>1. PICK w \in Workers : \E e \in Carried(pending[w], call[w]) : e.id = id
    BY <1>2, QueuedIs
  <2>2. Carried(pending'[w], call'[w]) = Carried(pending[w], call[w])
    BY <1>1 DEF Carried
  <2>3. \E e \in QueuedBy(w)' : e.id = id
    BY <2>1, <2>2 DEF QueuedBy, Carried, Elements, Idle
  <2>4. QED
    BY <2>3 DEF Queued
<1>3. QED
  BY <1>1, <1>2 DEF Deferred, Waits

LEMMA RestartDeferred ==
  ASSUME Inv, Deferred, NEW worker \in Workers, Restart(worker)
  PROVE  Deferred'
<1>1. /\ call' = [call EXCEPT ![worker] = Idle] /\ pending' = [pending EXCEPT ![worker] = <<>>]
      /\ DOMAIN call = Workers /\ DOMAIN pending = Workers
      /\ lost' = lost \cup {e.id : e \in {f \in QueuedBy(worker) : ~f.persisted}}
      /\ UNCHANGED <<charges, answers, marked>>
  BY DEF Restart, Inv, Typed
<1>2. ASSUME NEW id, Queued(id) PROVE Queued(id)' \/ id \in marked \/ id \in lost'
  <2>1. PICK w \in Workers : \E e \in Carried(pending[w], call[w]) : e.id = id
    BY <1>2, QueuedIs
  <2>2. CASE w = worker
    <3>1. PICK e \in Carried(pending[w], call[w]) : e.id = id
      BY <2>1
    <3>2. e.persisted => id \in marked
      BY <3>1 DEF Inv, Queues
    <3>3. e \in QueuedBy(worker)
      BY <2>2, <3>1 DEF QueuedBy, Carried, Elements
    <3>4. ~e.persisted => id \in lost'
      BY <1>1, <3>1, <3>3
    <3>5. QED
      BY <3>2, <3>4
  <2>3. CASE w # worker
    <3>1. Carried(pending'[w], call'[w]) = Carried(pending[w], call[w])
      BY <1>1, <2>3
    <3>2. \E e \in QueuedBy(w)' : e.id = id
      BY <2>1, <3>1 DEF QueuedBy, Carried, Elements, Idle
    <3>3. QED
      BY <3>2 DEF Queued
  <2>4. QED
    BY <2>2, <2>3
<1>3. QED
  BY <1>1, <1>2 DEF Deferred, Waits

-----------------------------------------------------------------------------
(* The invariant of release mode, where reads are honest and a commit is   *)
(* marked within one tick.                                                 *)
Reliable == Timeout = "release" /\ "misread" \notin Faults /\ ~SlowPersist

Keeping == Inv /\ StillThere /\ Plain /\ Unseen /\ Known /\ MarkedKept /\ Deferred

LEMMA QuietKeeping ==
  ASSUME Keeping, UNCHANGED <<record, markers, call, pending, next_id, reservations, charges,
                              late, settled, answers, marked, lost>>,
         Inv', StillThere',
         \A w \in Workers : call[w] # Idle /\ Marking(call[w]) => UNCHANGED clock
  PROVE  Keeping'
<1>1. Plain' /\ Unseen'
  BY DEF Keeping, Plain, Unseen, Unknown
<1>2. Known'
  <2> SUFFICES ASSUME NEW w \in Workers, call'[w] # Idle PROVE Knows(call[w])'
    BY DEF Known, Idle
  <2>1. Knows(call[w])
    BY DEF Keeping, Known
  <2>2. QED
    BY <2>1 DEF Knows, Collecting, Marking, Touching, Passed, Due, Subject, InTime
<1>3. MarkedKept'
  BY DEF Keeping, MarkedKept, Alive, MarkIn, NoMark
<1>4. Deferred'
  BY DEF Keeping, Deferred, Waits, Queued, QueuedBy
<1>5. QED
  BY <1>1, <1>2, <1>3, <1>4 DEF Keeping

LEMMA BeginsKnown ==
  ASSUME Inv, Known, NEW worker \in Workers, NEW c, NEW d, NEW q, Begins(worker, c, d, q)
  PROVE  Known'
<1>1. /\ call' = [call EXCEPT ![worker] = d] /\ DOMAIN call = Workers
      /\ d # Idle => Free(d)
      /\ UNCHANGED <<record, clock, reservations, marked>>
  BY DEF Begins, Turns, shared, Inv, Typed
<1>2. ASSUME NEW w \in Workers, call'[w] # Idle PROVE Knows(call[w])'
  <2>1. CASE w = worker
    BY <1>1, <1>2, <2>1 DEF Free, Knows, Touching, Collecting, Marking
  <2>2. CASE w # worker
    <3>1. call'[w] = call[w] /\ Knows(call[w])
      BY <1>1, <1>2, <2>2 DEF Known
    <3>2. QED
      BY <1>1, <3>1 DEF Knows, Collecting, Marking, Touching, Passed, Due, Subject, InTime
  <2>3. QED
    BY <2>1, <2>2
<1>3. QED
  BY <1>2 DEF Known, Idle

LEMMA RestartKeeping ==
  ASSUME Keeping, Inv', StillThere', NEW worker \in Workers, Restart(worker)
  PROVE  Keeping'
<1>1. /\ call' = [call EXCEPT ![worker] = Idle] /\ DOMAIN call = Workers
      /\ UNCHANGED <<record, markers, clock, reservations, charges, answers, marked>>
  BY DEF Restart, shared, Keeping, Inv, Typed
<1>2. \A w \in Workers : call'[w] # Idle => w # worker /\ call'[w] = call[w]
  BY <1>1
<1>3. Plain'
  BY <1>1, <1>2 DEF Keeping, Plain, Idle
<1>4. Unseen'
  <2> SUFFICES ASSUME NEW w \in Workers, call'[w] # Idle, call'[w].op = "reserve"
               PROVE  (Unknown(call[w].id))'
    BY DEF Unseen, Idle
  <2>1. call'[w] = call[w] /\ Unknown(call[w].id)
    BY <1>2 DEF Keeping, Unseen
  <2>2. \A x \in Workers : call'[x] # Idle => call'[x] = call[x] /\ call[x] # Idle
    BY <1>2
  <2>3. QED
    BY <1>1, <2>1, <2>2 DEF Unknown, Idle
<1>5. Known'
  <2> SUFFICES ASSUME NEW w \in Workers, call'[w] # Idle PROVE Knows(call[w])'
    BY DEF Known, Idle
  <2>1. call'[w] = call[w] /\ Knows(call[w])
    BY <1>2 DEF Keeping, Known
  <2>2. QED
    BY <1>1, <2>1 DEF Knows, Collecting, Marking, Touching, Passed, Due, Subject, InTime
<1>6. MarkedKept'
  BY <1>1 DEF Keeping, MarkedKept, Alive, MarkIn, NoMark
<1>7. Deferred'
  BY RestartDeferred DEF Keeping
<1>8. QED
  BY <1>3, <1>4, <1>5, <1>6, <1>7 DEF Keeping

LEMMA KeepingNext == Reliable /\ Keeping /\ [Next]_vars => Keeping'
<1> SUFFICES ASSUME Reliable, Keeping, [Next]_vars PROVE Keeping'
  OBVIOUS
<1>1. Inv' /\ StillThere'
  BY NextInv, StillThereNext DEF Keeping
<1>2. /\ Timeout = "release" /\ "misread" \notin Faults /\ ~SlowPersist
      /\ Inv /\ StillThere /\ Plain /\ Unseen /\ Known /\ MarkedKept /\ Deferred
  BY DEF Reliable, Keeping
<1>3. ASSUME NEW worker \in Workers, NEW c, NEW d, NEW q, Begins(worker, c, d, q)
      PROVE  Keeping'
  <2>1. Plain' /\ Unseen' /\ Known' /\ Deferred'
    BY <1>2, <1>3, BeginsPlain, BeginsUnseen, BeginsKnown, BeginsDeferred
  <2>2. MarkedKept'
    BY <1>2, <1>3 DEF Begins, shared, MarkedKept, Alive, MarkIn, NoMark
  <2>3. QED
    BY <1>1, <2>1, <2>2 DEF Keeping
<1>4. ASSUME NEW worker \in Workers, call[worker] # Idle,
             NEW d, NEW q, NEW result, Does(worker, call[worker], d, q, result)
      PROVE  Keeping'
  <2>1. PICK c : c = call[worker]
    OBVIOUS
  <2>2. c # Idle /\ Does(worker, c, d, q, result)
    BY <1>4, <2>1
  <2>3. Plain' /\ Unseen' /\ Deferred'
    BY <1>2, <2>1, <2>2, DoesPlain, DoesUnseen, DoesDeferred
  <2>4. Known' /\ MarkedKept'
    BY <1>2, <2>1, <2>2, <2>3, DoesKnown, DoesMarkedKept
  <2>5. QED
    BY <1>1, <2>3, <2>4 DEF Keeping
<1>5. ASSUME NEW worker \in Workers, Step(worker) PROVE Keeping'
  BY <1>1, <1>2, <1>3, <1>4, <1>5, StepKinds, RestartKeeping
<1>6. CASE Tick
  <2>1. /\ UNCHANGED <<record, markers, call, pending, next_id, reservations, charges,
                       late, settled, answers, marked, lost>>
        /\ \A w \in Workers : ~HeldUp(call[w])
    BY <1>6 DEF Tick, shared, history
  <2>2. \A w \in Workers : call[w] # Idle => ~Marking(call[w])
    BY <1>2, <2>1 DEF HeldUp, MarkingCommit, Marking, Persisting
  <2>3. QED
    BY <1>1, <2>1, <2>2, QuietKeeping
<1>7. CASE UNCHANGED vars
  BY <1>1, <1>7, QuietKeeping DEF vars
<1>8. QED
  BY <1>5, <1>6, <1>7 DEF Next

LEMMA KeepingKept == Timeout = "release" /\ Keeping => CommitsKept
<1> SUFFICES ASSUME Keeping, NEW id \in DOMAIN answers, answers[id] # "not-active"
             PROVE  \/ charges[id] > 0
                    \/ id \in marked /\ OnRecord(id) /\ MarkOf(id) \in {"commit", "provisional"}
                    \/ id \notin marked /\ (Queued(id) \/ id \in lost)
  BY DEF CommitsKept
<1>1. Waits(id) /\ ReadOK(record, Ids)
  BY DEF Keeping, Deferred, Inv, Recorded
<1>2. id \in marked => charges[id] > 0 \/ (OnRecord(id) /\ MarkOf(id) = "commit")
  BY <1>1, OnRecordIs DEF Keeping, MarkedKept, Alive, MarkOf, MarkIn
<1>3. QED
  BY <1>1, <1>2 DEF Waits

LEMMA CommitModeKept == Timeout = "commit" /\ Inv /\ StillThere => CommitsKept
<1> SUFFICES ASSUME Timeout = "commit", Inv, StillThere, NEW id \in DOMAIN answers
             PROVE  charges[id] > 0 \/ (OnRecord(id) /\ id \in DOMAIN record.state.active)
  BY DEF CommitsKept
<1>1. Alive(id)
  BY DEF StillThere, Awaited
<1>2. ReadOK(record, Ids)
  BY DEF Inv, Recorded
<1>3. CASE Holds(Base(record), id)
  <2>1. CASE id \in DOMAIN Base(record).active
    BY <1>2, <2>1, OnRecordIs
  <2>2. CASE id \in DOMAIN Base(record).reclaimed
    BY <1>3, <2>2 DEF Inv, Recorded
  <2>3. QED
    BY <1>3, <2>1, <2>2 DEF Holds
<1>4. QED
  BY <1>1, <1>3 DEF Alive

LEMMA InitKeeping == Init => Keeping
<1> SUFFICES ASSUME Init PROVE Keeping
  OBVIOUS
<1>1. Inv
  BY InitInv
<1>2. \A w \in Workers : call[w] = Idle
  BY DEF Init
<1>3. DOMAIN markers = {} /\ DOMAIN reservations = {} /\ DOMAIN answers = {} /\ marked = {}
  BY DEF Init
<1>4. StillThere
  BY <1>2, <1>3 DEF StillThere, Awaited, CommitCalls
<1>5. Plain /\ Unseen /\ Known /\ MarkedKept /\ Deferred
  BY <1>2, <1>3 DEF Plain, Unseen, Known, MarkedKept, Deferred
<1>6. QED
  BY <1>1, <1>4, <1>5 DEF Keeping

(* M2: a commit answered as written or deferred is charged, or its hold    *)
(* will be charged, or its mark is on the record's path, or it waits in a  *)
(* queue (node_ledger.rs, defer, persist_commit and reconcile).  With      *)
(* timeout "commit" this needs nothing; with "release", that the host does *)
(* not report a read error as no value, and that no time passes between    *)
(* persist_commit's look at the clock and its write.                       *)
THEOREM CommitsAreKept ==
  Timeout = "commit" \/ ("misread" \notin Faults /\ ~SlowPersist) => (Spec => []CommitsKept)
<1>1. CASE Timeout = "commit"
  <2> DEFINE kept == Inv /\ StillThere
  <2>1. Init => kept
    BY InitKeeping DEF Keeping
  <2>2. kept /\ [Next]_vars => kept'
    BY NextInv, StillThereNext
  <2>3. kept => CommitsKept
    BY <1>1, CommitModeKept
  <2> HIDE DEF kept
  <2>4. QED
    BY <2>1, <2>2, <2>3, PTL DEF Spec
<1>2. CASE Timeout = "release" /\ "misread" \notin Faults /\ ~SlowPersist
  <2>1. Keeping /\ [Next]_vars => Keeping'
    BY <1>2, KeepingNext DEF Reliable
  <2>2. Keeping => CommitsKept
    BY <1>2, KeepingKept
  <2>3. QED
    BY <2>1, <2>2, InitKeeping, PTL DEF Spec
<1>3. QED
  BY <1>1, <1>2, TimeoutAssumption

-----------------------------------------------------------------------------
(* What a settlement did not find in the record it read stays off it.      *)
Lacking(c) == Touching(c) /\ Settling(c) /\ ~Holds(Base(c.read), Subject(c))

OffStays == \A w \in Workers : Lacking(call[w]) => ~Holds(Base(record), Subject(call[w]))

LEMMA SettlingSubject ==
  ASSUME Inv, NEW worker \in Workers, NEW c, c = call[worker], Touching(c), Settling(c)
  PROVE  c # Idle /\ Subject(c) \in settled /\ c.read.kind = "live"
<1>1. c # Idle /\ Reading(c, Ids)
  BY TouchRead
<1>2. TaskOK(c)
  BY <1>1, CallFacts DEF Shaped
<1>3. QED
  BY <1>1, <1>2, CallFacts DEF Reading, Settles

LEMMA DoesOff ==
  ASSUME Inv, NEW worker \in Workers, NEW c, c = call[worker], c # Idle,
         NEW d, NEW q, NEW result, Does(worker, c, d, q, result), NEW id \in settled,
         ~Holds(Base(record), id)
  PROVE  ~Holds(Base(record'), id)
<1>1. Landed(c) \/ UNCHANGED stored
  BY DEF Does
<1>2. CASE UNCHANGED stored
  BY <1>2 DEF stored
<1>3. CASE Landed(c)
  <2>1. \A i : Holds(Base(record'), i) =>
          Holds(Base(record), i) \/ (c.task = "reserve" /\ c.op = "reserve" /\ i = c.id)
    BY <1>3, LandedFacts
  <2>2. c.op = "reserve" => c.id \notin settled
    BY CallFacts DEF Bound, Inv, Typed
  <2>3. QED
    BY <2>1, <2>2
<1>4. QED
  BY <1>1, <1>2, <1>3

LEMMA DoesOffStays ==
  ASSUME Inv, Inv', OffStays, NEW worker \in Workers, NEW c, c = call[worker], c # Idle,
         NEW d, NEW q, NEW result, Does(worker, c, d, q, result)
  PROVE  OffStays'
<1>1. /\ call' = [call EXCEPT ![worker] = d] /\ DOMAIN call = Workers
      /\ d # Idle => Learns(c, d) /\ SameCall(d, c) /\ Shaped(d, Ids)
      /\ UNCHANGED settled
  BY DEF Does, Steps, Moves, Turns, Goes, Inv, Typed
<1>2. ASSUME NEW w \in Workers, NEW x, x = call'[w], Lacking(x)
      PROVE  Subject(x) \in settled /\ ~Holds(Base(record), Subject(x))
  <2>1. CASE w # worker
    <3>1. x = call[w]
      BY <1>1, <1>2, <2>1
    <3>2. Subject(x) \in settled
      BY <1>2, <3>1, SettlingSubject DEF Lacking
    <3>3. QED
      BY <1>2, <3>1, <3>2 DEF OffStays
  <2>2. CASE w = worker
    <3>1. x = d /\ Touching(d) /\ Settling(d) /\ ~Holds(Base(d.read), Subject(d))
      BY <1>1, <1>2, <2>2 DEF Lacking
    <3>2. d # Idle
      BY <3>1 DEF Touching, Idle
    <3>3. Rereads(c, d)
      BY <1>1, <3>1, <3>2 DEF Learns
    <3>4. Subject(d) \in settled
      <4>1. TaskOK(d) /\ Whole(d) /\ (d.entry # NoEntry \/ d.op \in {"commit", "release"})
        BY <1>1, <3>1, <3>2 DEF Shaped, TaskOK, Suits, Settling
      <4>2. CASE d.entry # NoEntry
        <5>1. d.entry \in Carried(pending'[worker], call'[worker])
          BY <3>2, <4>2, <2>2, <1>2, <3>1 DEF Carried
        <5>2. d.entry.id \in DOMAIN answers'
          BY <5>1 DEF Inv, Queues, Carried, Elements, Idle
        <5>3. QED
          BY <1>1, <4>2, <5>2 DEF Subject, Inv, Typed
      <4>3. CASE d.entry = NoEntry
        <5>1. c.id \in settled
          BY <1>1, <3>2, <4>1, <4>3, CallFacts DEF SameCall, Bound
        <5>2. QED
          BY <1>1, <3>2, <4>3, <5>1 DEF Subject, SameCall
      <4>4. QED
        BY <4>2, <4>3
    <3>5. CASE Touching(c) /\ d.read = c.read /\ d.task = c.task /\ d.entry = c.entry
      <4>1. Subject(d) = Subject(c) /\ Settling(c)
        BY <1>1, <3>1, <3>2, <3>5 DEF Subject, Settling, SameCall
      <4>2. Lacking(c)
        BY <3>1, <3>5, <4>1 DEF Lacking
      <4>3. QED
        BY <3>1, <3>4, <4>1, <4>2 DEF OffStays
    <3>6. CASE d.read = record
      BY <3>1, <3>4, <3>6
    <3>7. CASE d.read = Missing
      <4>1. d.read.kind = "live"
        BY <1>1, <3>1, <3>2 DEF Shaped, Reading
      <4>2. QED
        BY <3>7, <4>1 DEF Missing
    <3>8. QED
      BY <3>3, <3>5, <3>6, <3>7 DEF Rereads
  <2>3. QED
    BY <2>1, <2>2
<1>3. ASSUME NEW w \in Workers, NEW x, x = call'[w], Lacking(x)
      PROVE  ~Holds(Base(record'), Subject(x))
  BY <1>2, <1>3, DoesOff
<1>4. ASSUME NEW w \in Workers, Lacking(call[w])' PROVE ~Holds(Base(record'), Subject(call'[w]))
  <2>1. PICK x : x = call'[w]
    OBVIOUS
  <2>2. Lacking(x)
    BY <1>4, <2>1 DEF Lacking, Touching, Settling, Base, Holds, Subject, AtPeriod
  <2>3. QED
    BY <1>3, <2>1, <2>2
<1>5. \A w \in Workers : Lacking(call[w])' => ~Holds(Base(record'), Subject(call'[w]))
  BY <1>4
<1>6. QED
  BY <1>5 DEF OffStays, Base, Holds, Subject, AtPeriod

LEMMA OffStaysNext == Inv /\ OffStays /\ [Next]_vars => OffStays'
<1> SUFFICES ASSUME Inv, OffStays, [Next]_vars PROVE OffStays'
  OBVIOUS
<1>1. Inv'
  BY NextInv
<1>2. ASSUME UNCHANGED record,
             \A w \in Workers : call'[w] # Idle =>
               call'[w] = call[w] \/ ~Touching(call'[w])
      PROVE  OffStays'
  <2> SUFFICES ASSUME NEW w \in Workers, Lacking(call[w])' PROVE (~Holds(Base(record), Subject(call[w])))'
    BY DEF OffStays
  <2>1. PICK x : x = call'[w]
    OBVIOUS
  <2>2. Lacking(x)
    BY <2>1 DEF Lacking, Touching, Settling, Base, Holds, Subject, AtPeriod
  <2>3. x # Idle /\ Touching(x)
    BY <2>2 DEF Lacking, Touching, Idle
  <2>4. x = call[w]
    BY <1>2, <2>1, <2>3
  <2>5. ~Holds(Base(record), Subject(x))
    BY <2>2, <2>4 DEF OffStays
  <2>6. QED
    BY <1>2, <2>1, <2>5 DEF Base, Holds, Subject, AtPeriod
<1>3. ASSUME NEW worker \in Workers, Step(worker) PROVE OffStays'
  <2>1. CASE \E c, d, q : Begins(worker, c, d, q)
    BY <1>2, <2>1 DEF Begins, Turns, Free, shared, Inv, Typed
  <2>2. CASE call[worker] # Idle /\ \E d, q, result : Does(worker, call[worker], d, q, result)
    BY <1>1, <2>2, DoesOffStays
  <2>3. CASE Restart(worker)
    BY <1>2, <2>3 DEF Restart, shared, Inv, Typed
  <2>4. QED
    BY <1>3, <2>1, <2>2, <2>3, StepKinds
<1>4. CASE Tick
  BY <1>2, <1>4 DEF Tick, shared, Inv, Typed
<1>5. CASE UNCHANGED vars
  BY <1>2, <1>5 DEF vars
<1>6. QED
  BY <1>3, <1>4, <1>5 DEF Next

LEMMA EndedGone ==
  ASSUME "misread" \notin Faults, Inv, OffStays, NEW worker \in Workers, NEW c,
         c = call[worker], c # Idle, Landed(c) \/ UNCHANGED stored,
         NEW result \in {"gone", "not-active"}, Ended(c, result), Committing(c)
  PROVE  ~Holds(Base(record'), Subject(c))
<1>1. CASE c.at = "read" /\ record.kind # "live"
  <2>1. UNCHANGED stored
    BY <1>1 DEF Landed
  <2>2. ReadOK(record, Ids)
    BY DEF Inv, Recorded
  <2>3. PICK p \in Nat : Base(record) = AtPeriod(p)
    BY <1>1, <2>2, BaseSound
  <2>4. QED
    BY <2>1, <2>3 DEF stored, AtPeriod, Holds
<1>2. CASE /\ c.at = "put" /\ Settling(c) /\ Applied(c) = "not-active"
           /\ Landed(c) \/ (Unwritten(c) /\ UNCHANGED stored)
  <2>1. CASE Landed(c)
    BY <1>2, <2>1, LandedHolds DEF Settles
  <2>2. CASE Unwritten(c) /\ UNCHANGED stored
    <3>1. Ready(c, Ids) /\ TaskOK(c) /\ Touching(c)
      BY <1>2, PutFacts
    <3>2. c.task # "reserve" /\ c.task # "charge" /\ c.task # "sweep"
      BY <1>2 DEF Settling
    <3>3. Updated(c) = Base(c.read)
      BY <1>2, <2>2, <3>2 DEF Unwritten
    <3>4. ~Holds(Base(c.read), Subject(c))
      <4>1. IF Timeout = "release" THEN ~Holds(Base(c.read), Subject(c))
            ELSE ~Holds(Touched(c), Subject(c))
        BY <1>2, <3>1, AppliedFacts DEF Settles
      <4>2. CASE Timeout = "release"
        BY <4>1, <4>2
      <4>3. CASE Timeout # "release"
        <5>1. Updated(c) = Settle(Touched(c), Subject(c), Committing(c))
          BY <1>2, <3>2, <4>3 DEF Updated
        <5>2. Outcome(Touched(c), Subject(c), Committing(c)) = "not-active"
          BY <1>2, <4>3 DEF Applied
        <5>3. Settle(Touched(c), Subject(c), Committing(c)) = Touched(c)
          BY <5>2 DEF Settle
        <5>4. QED
          BY <3>3, <4>1, <4>3, <5>1, <5>3
      <4>4. QED
        BY <4>2, <4>3
    <3>5. QED
      BY <1>2, <2>2, <3>1, <3>4 DEF OffStays, Lacking, stored
  <2>3. QED
    BY <1>2, <2>1, <2>2
<1>3. QED
  BY <1>1, <1>2 DEF Ended

(* A commit is answered not-active only for a reservation that is off the  *)
(* record, "charged too, never dropped", as long as the host does not      *)
(* report a read error as no value (node_ledger.rs, try_settle and commit).*)
THEOREM NotActiveMeansGone == "misread" \notin Faults => (Spec => NotActiveIsGone)
<1> SUFFICES ASSUME "misread" \notin Faults PROVE Spec => NotActiveIsGone
  OBVIOUS
<1> DEFINE known == Inv /\ OffStays
           OnlyGone == \A id \in DOMAIN answers' \ DOMAIN answers :
                      answers'[id] = "not-active" => ~OnRecord(id)'
<1>1. Init => known
  BY InitInv DEF Init, OffStays, Lacking, Touching, Idle
<1>2. known /\ [Next]_vars => known'
  BY NextInv, OffStaysNext
<1>3. known /\ [Next]_vars => [OnlyGone]_vars
  <2> SUFFICES ASSUME Inv, OffStays, [Next]_vars,
                      NEW id \in DOMAIN answers' \ DOMAIN answers, answers'[id] = "not-active"
               PROVE  ~OnRecord(id)'
    OBVIOUS
  <2>1. ASSUME NEW worker \in Workers, Step(worker) PROVE ~OnRecord(id)'
    <3>1. CASE \E c, d, q : Begins(worker, c, d, q)
      BY <3>1 DEF Begins
    <3>2. CASE Restart(worker)
      BY <3>2 DEF Restart
    <3>3. ASSUME NEW c, c = call[worker], c # Idle, NEW d, NEW q, NEW result,
                 Does(worker, c, d, q, result)
          PROVE  ~OnRecord(id)'
      <4>1. /\ Moves(worker, c, d, q, Ids, result)
            /\ Landed(c) \/ UNCHANGED stored
            /\ result \in Final => Ended(c, result)
        BY <3>3 DEF Does, Steps
      <4>2. CASE Answers(worker, c, d, q, result)
        <5>1. id = c.id /\ result \in {"gone", "not-active"} /\ Committing(c) /\ Subject(c) = id
          BY <4>2 DEF Answers, Put, Committing, Subject, Final
        <5>2. ~Holds(Base(record'), id)
          BY <3>3, <4>1, <5>1, EndedGone DEF Final
        <5>3. ReadOK(record', Ids')
          BY NextInv DEF Inv, Recorded
        <5>4. QED
          BY <5>2, <5>3 DEF ReadOK, OnRecord, Live, Base, Missing, Vacant
      <4>3. CASE Defers(worker, c, d, q, result)
        BY <4>3 DEF Defers, Put
      <4>4. QED
        BY <4>1, <4>2, <4>3 DEF Moves, Keeps, Persists
    <3>4. QED
      BY <2>1, <3>1, <3>2, <3>3, StepKinds
  <2>2. CASE Tick
    BY <2>2 DEF Tick, history
  <2>3. CASE UNCHANGED vars
    BY <2>3 DEF vars
  <2>4. QED
    BY <2>1, <2>2, <2>3 DEF Next
<1>4. known /\ [][Next]_vars => [][OnlyGone]_vars
  <2> HIDE DEF known, OnlyGone
  <2>1. QED
    BY <1>2, <1>3, PTL
<1>5. QED
  BY <1>1, <1>4 DEF Spec, NotActiveIsGone

-----------------------------------------------------------------------------
(* A collection goes on only with a marker whose reservation is off the    *)
(* record: it saw that, and no reservation comes back.                     *)
Off(c) == Collecting(c) => ~Holds(Base(record), c.claim)

Cleared == \A w \in Workers : call[w] # Idle => Off(call[w])

LEMMA NothingNew ==
  ASSUME Inv, NEW worker \in Workers, NEW c, c = call[worker], c # Idle,
         NEW d, NEW q, NEW result, Does(worker, c, d, q, result),
         NEW id, Holds(Base(record'), id)
  PROVE  Holds(Base(record), id) \/ (c.op = "reserve" /\ id = c.id)
<1>1. Landed(c) \/ UNCHANGED stored
  BY DEF Does
<1>2. CASE UNCHANGED stored
  BY <1>2 DEF stored
<1>3. CASE Landed(c)
  BY <1>3, LandedFacts
<1>4. QED
  BY <1>1, <1>2, <1>3

LEMMA DoesCleared ==
  ASSUME "misread" \notin Faults, Inv, Unseen, Cleared, NEW worker \in Workers,
         NEW c, c = call[worker], c # Idle, NEW d, NEW q, NEW result,
         Does(worker, c, d, q, result)
  PROVE  Cleared'
<1>1. /\ call' = [call EXCEPT ![worker] = d] /\ DOMAIN call = Workers
      /\ d # Idle => Learns(c, d) /\ SameCall(d, c) /\ Shaped(d, Ids)
      /\ ReadOK(record, Ids)
  BY DEF Does, Steps, Moves, Turns, Goes, Inv, Typed, Recorded
<1>2. ASSUME NEW w \in Workers, NEW x, x = call'[w], x # Idle, Collecting(x)
      PROVE  ~Holds(Base(record'), x.claim)
  <2>1. CASE w = worker
    <3>1. x = d /\ Collects(c, d)
      BY <1>1, <1>2, <2>1 DEF Shaped, Learns
    <3>2. c.op = "collect" /\ ~Holds(Base(record), d.claim)
      BY <1>1, <3>1, OnRecordIs DEF Collects, Cleared, Off
    <3>3. QED
      BY <3>1, <3>2, NothingNew
  <2>2. CASE w # worker
    <3>1. x = call[w] /\ ~Holds(Base(record), x.claim)
      BY <1>1, <1>2, <2>2 DEF Cleared, Off
    <3>2. x.op = "collect"
      BY <1>2, <3>1, CallFacts DEF Shaped
    <3>3. c.op = "reserve" => x.claim # c.id
      BY <1>2, <3>1, <3>2 DEF Unseen, Unknown
    <3>4. QED
      BY <3>1, <3>3, NothingNew
  <2>3. QED
    BY <2>1, <2>2
<1>3. ASSUME NEW w \in Workers, call'[w] # Idle PROVE Off(call[w])'
  <2>1. PICK x : x = call'[w]
    OBVIOUS
  <2>2. QED
    BY <1>2, <1>3, <2>1 DEF Off, Collecting
<1>4. QED
  BY <1>3 DEF Cleared, Idle

LEMMA FewerCleared ==
  ASSUME Unseen, Cleared, UNCHANGED <<record, markers>>,
         \A w \in Workers : call'[w] # Idle => call'[w] = call[w]
  PROVE  Unseen' /\ Cleared'
<1>1. Unseen'
  <2> SUFFICES ASSUME NEW w \in Workers, call'[w] # Idle, call'[w].op = "reserve"
               PROVE  (Unknown(call[w].id))'
    BY DEF Unseen, Idle
  <2>1. call'[w] = call[w] /\ Unknown(call[w].id)
    BY DEF Unseen
  <2>2. QED
    BY <2>1 DEF Unknown, Idle
<1>2. Cleared'
  BY DEF Cleared, Off, Collecting, Idle
<1>3. QED
  BY <1>1, <1>2

LEMMA ClearedNext ==
  "misread" \notin Faults /\ Inv /\ Unseen /\ Cleared /\ [Next]_vars => Unseen' /\ Cleared'
<1> SUFFICES ASSUME "misread" \notin Faults, Inv, Unseen, Cleared, [Next]_vars
             PROVE  Unseen' /\ Cleared'
  OBVIOUS
<1>1. ASSUME NEW worker \in Workers, NEW c, NEW d, NEW q, Begins(worker, c, d, q)
      PROVE  Unseen' /\ Cleared'
  <2>1. /\ call' = [call EXCEPT ![worker] = d] /\ DOMAIN call = Workers
        /\ d # Idle => Free(d)
        /\ UNCHANGED record
    BY <1>1 DEF Begins, Turns, shared, Inv, Typed
  <2>2. ASSUME NEW w \in Workers, call'[w] # Idle PROVE Off(call[w])'
    <3>1. CASE w = worker
      BY <2>1, <2>2, <3>1 DEF Free, Off, Collecting
    <3>2. CASE w # worker
      BY <2>1, <2>2, <3>2 DEF Cleared, Off, Collecting
    <3>3. QED
      BY <3>1, <3>2
  <2>3. Cleared'
    BY <2>2 DEF Cleared, Idle
  <2>4. QED
    BY <1>1, <2>3, BeginsUnseen
<1>2. ASSUME NEW worker \in Workers, call[worker] # Idle,
             NEW d, NEW q, NEW result, Does(worker, call[worker], d, q, result)
      PROVE  Unseen' /\ Cleared'
  BY <1>2, DoesUnseen, DoesCleared
<1>3. ASSUME NEW worker \in Workers, Restart(worker) PROVE Unseen' /\ Cleared'
  BY <1>3, FewerCleared DEF Restart, shared, Inv, Typed
<1>4. ASSUME NEW worker \in Workers, Step(worker) PROVE Unseen' /\ Cleared'
  BY <1>1, <1>2, <1>3, <1>4, StepKinds
<1>5. CASE Tick
  BY <1>5, FewerCleared DEF Tick, shared
<1>6. CASE UNCHANGED vars
  BY <1>6, FewerCleared DEF vars
<1>7. QED
  BY <1>4, <1>5, <1>6 DEF Next

(* What is on the record after a step keeps its marker, and its mark.      *)
LEMMA DoesMarksStand ==
  ASSUME Inv, Unseen, Cleared, NEW worker \in Workers, NEW c, c = call[worker], c # Idle,
         NEW d, NEW q, NEW result, Does(worker, c, d, q, result),
         NEW id \in DOMAIN markers, Holds(Base(record'), id)
  PROVE  /\ id \in DOMAIN markers'
         /\ MarkIn(markers, id) = "commit" => MarkIn(markers', id) = "commit"
<1>1. Holds(Base(record), id)
  BY NothingNew DEF Unseen, Unknown
<1>2. Remarked(c) /\ (Collecting(c) => ~Holds(Base(record), c.claim))
  BY DEF Does, Cleared, Off
<1>3. id \in DOMAIN markers'
  <2>1. CASE c.at = "mark" /\ markers' = Stamped(c)
    <3>1. PICK m \in [mark : Marks, expires_at : Nat] : Stamped(c) = Put(markers, MarkId(c), m)
      BY <2>1, StampedFacts
    <3>2. QED
      BY <2>1, <3>1 DEF Put
  <2>2. CASE markers' = MarkAs(c, "collecting") \/ markers' = MarkAs(c, c.mark)
    BY <2>2 DEF MarkAs, Put
  <2>3. CASE Collecting(c) /\ markers' = Restrict(markers, DOMAIN markers \ {c.claim})
    BY <1>1, <1>2, <2>3 DEF Restrict
  <2>4. QED
    BY <1>2, <2>1, <2>2, <2>3 DEF Remarked
<1>4. MarkIn(markers, id) = "commit" => MarkIn(markers', id) = "commit"
  BY <1>1, <1>2, MarkStays
<1>5. QED
  BY <1>3, <1>4

(* "Deletes marker key once no record can still hold its reservation"      *)
(* (node_ledger.rs:606, collect_marker): while a reservation is on the     *)
(* record, whatever workers touch, settle and collect at once, its marker  *)
(* stays and a marked commit stays marked, as long as the host does not    *)
(* report a read error as no value.                                        *)
THEOREM MarkersStand == "misread" \notin Faults => (Spec => MarksStand)
<1> SUFFICES ASSUME "misread" \notin Faults PROVE Spec => MarksStand
  OBVIOUS
<1> DEFINE known == Inv /\ Unseen /\ Cleared
           Stand == seen'["misread"] = 0 =>
                      \A id \in DOMAIN markers :
                        OnRecord(id)' => /\ id \in DOMAIN markers'
                                         /\ MarkOf(id) = "commit" => MarkOf(id)' = "commit"
<1>1. Init => known
  BY InitInv DEF Init, Unseen, Cleared
<1>2. known /\ [Next]_vars => known'
  BY NextInv, ClearedNext
<1>3. known /\ [Next]_vars => [Stand]_vars
  <2> SUFFICES ASSUME Inv, Unseen, Cleared, [Next]_vars,
                      NEW id \in DOMAIN markers, OnRecord(id)'
               PROVE  /\ id \in DOMAIN markers'
                      /\ MarkOf(id) = "commit" => MarkOf(id)' = "commit"
    OBVIOUS
  <2>1. ASSUME UNCHANGED markers
        PROVE  /\ id \in DOMAIN markers'
               /\ MarkOf(id) = "commit" => MarkOf(id)' = "commit"
    BY <2>1 DEF MarkOf
  <2>2. ASSUME NEW worker \in Workers, NEW c, c = call[worker], c # Idle, NEW d, NEW q,
               NEW result, Does(worker, c, d, q, result)
        PROVE  /\ id \in DOMAIN markers'
               /\ MarkOf(id) = "commit" => MarkOf(id)' = "commit"
    <3>1. Holds(Base(record'), id)
      BY DEF OnRecord, Base
    <3>2. QED
      BY <2>2, <3>1, DoesMarksStand DEF MarkOf, MarkIn
  <2>3. ASSUME NEW worker \in Workers, Step(worker)
        PROVE  /\ id \in DOMAIN markers'
               /\ MarkOf(id) = "commit" => MarkOf(id)' = "commit"
    <3>1. CASE \E c, d, q : Begins(worker, c, d, q)
      BY <2>1, <3>1 DEF Begins, shared
    <3>2. CASE Restart(worker)
      BY <2>1, <3>2 DEF Restart, shared
    <3>3. QED
      BY <2>2, <2>3, <3>1, <3>2, StepKinds
  <2>4. CASE Tick
    BY <2>1, <2>4 DEF Tick, shared
  <2>5. CASE UNCHANGED vars
    BY <2>1, <2>5 DEF vars
  <2>6. QED
    BY <2>3, <2>4, <2>5 DEF Next
<1>4. known /\ [][Next]_vars => [][Stand]_vars
  <2> HIDE DEF known, Stand
  <2>1. QED
    BY <1>2, <1>3, PTL
<1>5. QED
  BY <1>1, <1>4 DEF Spec, MarksStand

-----------------------------------------------------------------------------
(* Who still has to write a commit.  A queue names no commit twice, and    *)
(* the call of its worker works on none of those that wait.                *)
Distinct(queue) == \A i, j \in DOMAIN queue : queue[i].id = queue[j].id => i = j

Lone(queue, c) ==
  /\ Distinct(queue)
  /\ c # Idle /\ c.entry # NoEntry => \A e \in Elements(queue) : e.id # c.entry.id

(* A call that marks or charges a queued commit works on an unmarked one.  *)
Unmarked(c) == c.at \in {"persist", "charge", "room"} \/ Marking(c) \/ c.task = "charge"

Raw(c) == c # Idle /\ c.entry # NoEntry /\ Unmarked(c) => ~c.entry.persisted

Good(queue, c) == Lone(queue, c) /\ Raw(c)

LEMMA DistinctNone == Distinct(<<>>)
BY DEF Distinct

LEMMA DistinctAppend ==
  ASSUME NEW S, NEW queue \in Seq(S), NEW e \in S, Distinct(queue),
         \A x \in Elements(queue) : x.id # e.id
  PROVE  Distinct(Append(queue, e))
<1> DEFINE longer == Append(queue, e)
<1>1. /\ Len(queue) \in Nat /\ DOMAIN queue = 1 .. Len(queue)
      /\ DOMAIN longer = 1 .. (Len(queue) + 1)
      /\ \A i \in 1 .. Len(queue) : longer[i] = queue[i]
      /\ longer[Len(queue) + 1] = e
  OBVIOUS
<1> HIDE DEF longer
<1>2. \A i \in 1 .. Len(queue) : queue[i].id # e.id
  BY <1>1 DEF Elements
<1>3. ASSUME NEW i \in DOMAIN longer, NEW j \in DOMAIN longer, longer[i].id = longer[j].id
      PROVE  i = j
  <2>1. CASE i \in 1 .. Len(queue) /\ j \in 1 .. Len(queue)
    BY <1>1, <1>3, <2>1 DEF Distinct
  <2>2. CASE i = Len(queue) + 1 \/ j = Len(queue) + 1
    BY <1>1, <1>2, <1>3, <2>2
  <2>3. QED
    BY <1>1, <2>1, <2>2
<1>4. QED
  BY <1>3 DEF Distinct, longer

LEMMA DistinctFirst ==
  ASSUME NEW S, NEW queue \in Seq(S), NEW e \in S, Distinct(queue),
         \A x \in Elements(queue) : x.id # e.id
  PROVE  Distinct(<<e>> \o queue)
<1> DEFINE longer == <<e>> \o queue
<1>1. /\ Len(queue) \in Nat /\ DOMAIN queue = 1 .. Len(queue)
      /\ DOMAIN longer = 1 .. (Len(queue) + 1)
      /\ \A i \in 1 .. Len(queue) : longer[i + 1] = queue[i]
      /\ longer[1] = e
  OBVIOUS
<1> HIDE DEF longer
<1>2. \A i \in 1 .. Len(queue) : queue[i].id # e.id
  BY <1>1 DEF Elements
<1>3. \A i \in DOMAIN longer : i = 1 \/ (i - 1 \in 1 .. Len(queue) /\ longer[i] = queue[i - 1])
  <2> TAKE i \in DOMAIN longer
  <2>1. i # 1 => i - 1 \in 1 .. Len(queue) /\ (i - 1) + 1 = i
    BY <1>1
  <2>2. QED
    BY <1>1, <2>1
<1>4. ASSUME NEW i \in DOMAIN longer, NEW j \in DOMAIN longer, longer[i].id = longer[j].id
      PROVE  i = j
  <2>1. CASE i # 1 /\ j # 1
    <3>1. i - 1 = j - 1
      BY <1>1, <1>3, <1>4, <2>1 DEF Distinct
    <3>2. QED
      BY <1>1, <3>1
  <2>2. CASE i = 1 \/ j = 1
    BY <1>1, <1>2, <1>3, <1>4, <2>2
  <2>3. QED
    BY <2>1, <2>2
<1>5. QED
  BY <1>4 DEF Distinct, longer

LEMMA DistinctNext ==
  ASSUME NEW S, NEW queue \in Seq(S), queue # <<>>, Distinct(queue)
  PROVE  Distinct(Tail(queue)) /\ \A e \in Elements(Tail(queue)) : e.id # Head(queue).id
<1> DEFINE rest == Tail(queue)
<1>1. /\ Len(queue) \in Nat \ {0} /\ DOMAIN queue = 1 .. Len(queue)
      /\ DOMAIN rest = 1 .. (Len(queue) - 1)
      /\ \A i \in DOMAIN rest : rest[i] = queue[i + 1]
      /\ Head(queue) = queue[1]
  OBVIOUS
<1> HIDE DEF rest
<1>2. \A i \in DOMAIN rest : i + 1 \in DOMAIN queue /\ i + 1 # 1 /\ i \in Int
  BY <1>1
<1>3. 1 \in DOMAIN queue
  BY <1>1
<1>4. ASSUME NEW i \in DOMAIN rest, NEW j \in DOMAIN rest, rest[i].id = rest[j].id
      PROVE  i = j
  <2>1. i + 1 = j + 1
    BY <1>1, <1>2, <1>4 DEF Distinct
  <2>2. QED
    BY <1>2, <2>1
<1>5. ASSUME NEW i \in DOMAIN rest PROVE rest[i].id # Head(queue).id
  BY <1>1, <1>2, <1>3 DEF Distinct
<1>6. QED
  BY <1>4, <1>5 DEF Distinct, Elements, rest

(* The call that goes on, and the queue it leaves.                         *)
Running(worker) ==
  worker \in Workers /\ DOMAIN call = Workers /\ pending \in [Workers -> Seq(Entries)]

LEMMA ResumeGood ==
  ASSUME NEW worker, Running(worker), NEW c, Whole(c), c.entry = NoEntry, c.task # "charge",
         NEW queue \in Seq(Entries), Distinct(queue), Resume(worker, c, queue)
  PROVE  Good(pending'[worker], call'[worker])
<1>1. CASE c.rounds > 0 /\ queue # <<>>
  <2> DEFINE next == [c EXCEPT !.rounds = @ - 1, !.entry = Head(queue)]
             d == IF next.entry.blocked THEN At(next, "persist") ELSE DrainStep(next)
  <2>1. call'[worker] = d /\ pending'[worker] = Tail(queue)
    BY <1>1 DEF Resume, Running
  <2>2. DOMAIN next = Fields /\ next.entry = Head(queue) /\ next.task = c.task
    BY DEF Whole, Fields
  <2>3. /\ Head(queue) \in Entries /\ Distinct(Tail(queue))
        /\ \A e \in Elements(Tail(queue)) : e.id # Head(queue).id
    BY <1>1, ElementsNext, DistinctNext
  <2>4. Head(queue).blocked => ~Head(queue).persisted
    BY <2>3, EntryFacts
  <2> HIDE DEF next
  <2>5. d.entry = Head(queue) /\ (Unmarked(d) => ~d.entry.persisted)
    <3>1. CASE ~next.entry.blocked /\ next.entry.persisted
      <4>1. d = Attempt(next, "settle")
        BY <3>1 DEF DrainStep
      <4>2. d.at = "read" /\ d.task = "settle" /\ d.entry = next.entry
        BY <2>2, <4>1 DEF Attempt, At, Fields
      <4>3. QED
        BY <2>2, <4>2 DEF Unmarked, Marking
    <3>2. CASE next.entry.blocked \/ ~next.entry.persisted
      <4>1. d = At(next, "persist") \/ d = At(next, "charge")
        BY <3>2 DEF DrainStep
      <4>2. d.entry = next.entry
        BY <2>2, <4>1, AtFields DEF Resembles
      <4>3. QED
        BY <2>2, <2>4, <3>2, <4>2
    <3>3. QED
      BY <3>1, <3>2
  <2> HIDE DEF d
  <2>6. QED
    BY <2>1, <2>3, <2>5 DEF Good, Lone, Raw
<1>2. CASE ~(c.rounds > 0 /\ queue # <<>>)
  <2>1. /\ pending'[worker] = queue
        /\ \/ call'[worker] = Idle \/ call'[worker] = Attempt(c, "settle")
           \/ call'[worker] = Attempt(c, "reserve")
    BY <1>2 DEF Resume, Running
  <2>2. \A task : Attempt(c, task).entry = NoEntry
    BY DEF Attempt, At, Whole, Fields
  <2>3. call'[worker] = Idle \/ call'[worker].entry = NoEntry
    BY <2>1, <2>2
  <2>4. QED
    BY <2>1, <2>3 DEF Good, Lone, Raw
<1>3. QED
  BY <1>1, <1>2

(* A commit its own call answers is in no queue.                           *)
Unqueued(worker, c) == c.op = "commit" => \A e \in Carried(pending[worker], c) : e.id # c.id

(* The worker does not have to write the commit any more.                  *)
Over(worker, c) ==
  LET d == call'[worker]
  IN  /\ d # Idle /\ d.op = "commit" => d.id # Subject(c)
      /\ \A e \in Carried(pending'[worker], d) : e.id = Subject(c) => e.persisted

LEMMA DrainedGood ==
  ASSUME NEW worker, Running(worker), NEW c, Moving(worker, c), c # Idle, c.entry # NoEntry,
         Good(pending[worker], c), Unqueued(worker, c),
         NEW result \in Results, Drained(worker, c, result)
  PROVE  /\ Good(pending'[worker], call'[worker])
         /\ result \in Final => Over(worker, c)
<1> DEFINE queue == pending[worker]
           again == c.entry.attempts + 1
           full == result = "capacity" /\ ~c.entry.blocked /\ record.kind # "live"
           given_up == full /\ again >= MissingAttempts
           rest == CASE result \in {"done", "gone", "not-active"} \/ given_up -> queue
                     [] result = "failed"  -> <<c.entry>> \o queue
                     [] full /\ ~given_up -> Append(queue, [c.entry EXCEPT !.attempts = again])
                     [] OTHER -> Append(queue, c.entry)
           waiting == [Waiting(c) EXCEPT !.rounds = IF result = "failed" THEN 0 ELSE @]
<1>1. Resume(worker, waiting, rest)
  BY DEF Drained
<1>2. /\ queue \in Seq(Entries) /\ c.entry \in Entries /\ c.op \notin {"sweep", "collect"}
      /\ Whole(c) /\ Distinct(queue) /\ \A e \in Elements(queue) : e.id # c.entry.id
  BY DEF Moving, Whole, Good, Lone
<1>3. /\ Whole(waiting) /\ waiting.entry = NoEntry
      /\ SameCall(waiting, c) /\ waiting.task = "none"
      /\ waiting.op \in {"reserve", "commit", "release"}
  <2> DEFINE rounds == IF result = "failed" THEN 0 ELSE Waiting(c).rounds
  <2>1. rounds \in Nat
    <3>1. Waiting(c).rounds = c.rounds
      BY <1>2 DEF Waiting, At, Whole, Fields
    <3>2. QED
      BY <1>2, <3>1 DEF Whole
  <2>2. waiting = [Waiting(c) EXCEPT !.rounds = rounds]
    OBVIOUS
  <2> HIDE DEF waiting, rounds
  <2>3. QED
    BY <1>2, <2>1, <2>2, WaitingFields
<1>4. /\ rest \in Seq(Entries) /\ Distinct(rest)
      /\ result \in Final => rest = queue
  <2>1. CASE result \in {"done", "gone", "not-active"} \/ given_up
    <3>1. rest = queue
      BY <2>1
    <3>2. QED
      BY <1>2, <3>1
  <2>2. CASE ~(result \in {"done", "gone", "not-active"} \/ given_up)
    <3>1. \/ rest = <<c.entry>> \o queue
          \/ full /\ rest = Append(queue, [c.entry EXCEPT !.attempts = again])
          \/ rest = Append(queue, c.entry)
      <4> HIDE DEF queue, again
      <4>1. CASE result = "failed"
        BY <2>2, <4>1
      <4>2. CASE result # "failed" /\ full
        BY <2>2, <4>2
      <4>3. CASE result # "failed" /\ ~full
        BY <2>2, <4>3
      <4>4. QED
        BY <4>1, <4>2, <4>3
    <3>2. full => \E e \in Entries : e = [c.entry EXCEPT !.attempts = again] /\ e.id = c.entry.id
      <4> HAVE full
      <4>1. again \in 0 .. MissingAttempts - 1
        BY <1>2, <2>2, EntryFacts, LimitsAssumption
      <4> DEFINE e == [c.entry EXCEPT !.attempts = again]
      <4> HIDE DEF again
      <4>2. c.entry \in [id : Nat \ {0}, persisted : BOOLEAN, attempts : 0 .. MissingAttempts - 1,
                         blocked : BOOLEAN] /\ ~(c.entry.persisted /\ c.entry.blocked)
        BY <1>2 DEF Entries
      <4>3. /\ e \in [id : Nat \ {0}, persisted : BOOLEAN, attempts : 0 .. MissingAttempts - 1,
                      blocked : BOOLEAN]
            /\ e.id = c.entry.id /\ e.persisted = c.entry.persisted
            /\ e.blocked = c.entry.blocked
        BY <4>1, <4>2
      <4> HIDE DEF e
      <4>4. e \in Entries
        BY <4>2, <4>3 DEF Entries
      <4>5. QED
        BY <4>3, <4>4 DEF e
    <3>3. \E e \in Entries : /\ rest = <<e>> \o queue \/ rest = Append(queue, e)
                             /\ e.id = c.entry.id
      <4> HIDE DEF rest, queue, again, full
      <4>1. QED
        BY <1>2, <3>1, <3>2
    <3>4. PICK e \in Entries : /\ rest = <<e>> \o queue \/ rest = Append(queue, e)
                               /\ e.id = c.entry.id
      BY <3>3
    <3>5. result \notin Final
      BY <2>2 DEF Final
    <3> HIDE DEF rest, queue
    <3>6. rest \in Seq(Entries) /\ Distinct(rest)
      <4>1. CASE rest = <<e>> \o queue
        BY <1>2, <3>4, <4>1, ElementsFirst, DistinctFirst
      <4>2. CASE rest = Append(queue, e)
        BY <1>2, <3>4, <4>2, ElementsAppend, DistinctAppend
      <4>3. QED
        BY <3>4, <4>1, <4>2
    <3>7. QED
      BY <3>5, <3>6
  <2>3. QED
    BY <2>1, <2>2
<1> HIDE DEF rest, waiting, queue
<1>5. Good(pending'[worker], call'[worker])
  BY <1>1, <1>3, <1>4, ResumeGood
<1>6. PICK d, q : /\ Turns(worker, d, q) /\ Carried(q, d) = Elements(rest)
                  /\ Goes(waiting, d, {})
  BY <1>1, <1>3, <1>4, ResumeMoves
<1>7. call'[worker] = d /\ pending'[worker] = q
  BY <1>6 DEF Turns, Running
<1>8. result \in Final => Over(worker, c)
  <2> HAVE result \in Final
  <2>1. Subject(c) = c.entry.id
    BY DEF Subject
  <2>2. Carried(q, d) = Elements(queue)
    BY <1>4, <1>6
  <2>3. d # Idle /\ d.op = "commit" => d.id # c.entry.id
    <3> HAVE d # Idle /\ d.op = "commit"
    <3>1. c.op = "commit" /\ d.id = c.id
      BY <1>3, <1>6 DEF Goes, SameCall
    <3>2. c.entry \in Carried(pending[worker], c)
      BY DEF Carried
    <3>3. QED
      BY <3>1, <3>2 DEF Unqueued
  <2>4. QED
    BY <1>2, <1>7, <2>1, <2>2, <2>3 DEF Over
<1>9. QED
  BY <1>5, <1>8

LEMMA GoGood ==
  ASSUME NEW worker, Running(worker), NEW c, Good(pending[worker], c), NEW d, Go(worker, d),
         d # Idle => \/ d.entry = NoEntry
                     \/ /\ c # Idle /\ d.entry = c.entry
                        /\ Unmarked(d) => Unmarked(c) \/ ~c.entry.persisted
  PROVE  Good(pending'[worker], call'[worker])
<1>1. call'[worker] = d /\ pending'[worker] = pending[worker]
  BY DEF Go, ending, Running
<1>2. QED
  BY <1>1 DEF Good, Lone, Raw

LEMMA DeferGood ==
  ASSUME NEW worker, Running(worker), NEW c, Moving(worker, c), c.entry = NoEntry,
         c.op = "commit", Good(pending[worker], c), Unqueued(worker, c),
         NEW persisted \in BOOLEAN, NEW blocked \in BOOLEAN, ~(persisted /\ blocked),
         Defer(worker, c, persisted, blocked)
  PROVE  /\ Good(pending'[worker], call'[worker])
         /\ persisted => Over(worker, c)
<1> DEFINE entry == [id |-> c.id, persisted |-> persisted, attempts |-> 0, blocked |-> blocked]
           queue == pending[worker]
           q == IF ~persisted \/ Len(queue) < PendingLimit THEN Append(queue, entry) ELSE queue
<1>1. call'[worker] = Idle /\ pending'[worker] = q
  BY DEF Defer, Running
<1>2. entry \in Entries /\ entry.id = c.id /\ entry.persisted = persisted
  <2>1. 0 \in 0 .. MissingAttempts - 1
    BY LimitsAssumption
  <2>2. QED
    BY <2>1 DEF Entries, Moving
<1>3. /\ queue \in Seq(Entries) /\ Distinct(queue)
      /\ \A e \in Elements(queue) : e.id # c.id
  BY DEF Moving, Good, Lone, Unqueued, Carried
<1> HIDE DEF entry, queue
<1>4. q = Append(queue, entry) \/ q = queue
  OBVIOUS
<1>5. Distinct(q) /\ Elements(q) \subseteq Elements(queue) \cup {entry}
  BY <1>2, <1>3, <1>4, ElementsAppend, DistinctAppend
<1> HIDE DEF q
<1>6. Good(pending'[worker], call'[worker])
  BY <1>1, <1>5 DEF Good, Lone, Raw
<1>7. persisted => Over(worker, c)
  <2> HAVE persisted
  <2>1. \A e \in Carried(q, Idle) : e.id = c.id => e.persisted
    BY <1>2, <1>3, <1>5 DEF Carried
  <2>2. Subject(c) = c.id
    BY DEF Subject
  <2>3. QED
    BY <1>1, <2>1, <2>2 DEF Over
<1>8. QED
  BY <1>6, <1>7

LEMMA FinishGood ==
  ASSUME NEW worker, Running(worker), NEW c, Moving(worker, c), c # Idle,
         Good(pending[worker], c), Unqueued(worker, c),
         NEW result \in Results, Finish(worker, c, result)
  PROVE  /\ Good(pending'[worker], call'[worker])
         /\ result \in {"done", "not-active"} /\ Committing(c) => Over(worker, c)
<1> DEFINE reported == IF c.task = "resettle" /\ result = "mismatch" THEN "failed" ELSE result
<1>1. reported \in Results /\ (result \in {"done", "not-active"} => reported = result)
  BY DEF Results
<1>2. IF c.entry # NoEntry THEN Drained(worker, c, reported)
      ELSE IF c.op = "commit" THEN Committed(worker, c, reported)
      ELSE Go(worker, Idle)
  BY DEF Finish
<1> HIDE DEF reported
<1>3. CASE c.entry # NoEntry
  BY <1>1, <1>2, <1>3, DrainedGood DEF Final
<1>4. CASE c.entry = NoEntry /\ c.op = "commit"
  <2>1. Committed(worker, c, reported)
    BY <1>2, <1>4
  <2>2. CASE \E at \in {"charge", "persist"} : reported \notin {"done", "not-active"}
                                                /\ Go(worker, At(c, at))
    <3>1. PICK at \in {"charge", "persist"} : Go(worker, At(c, at))
      BY <2>2
    <3>2. At(c, at).entry = NoEntry
      BY <1>4, AtFields DEF Moving, Whole, Resembles
    <3>3. QED
      BY <1>1, <2>2, <3>1, <3>2, GoGood
  <2>3. CASE call' = [call EXCEPT ![worker] = Idle] /\ UNCHANGED pending
    <3>1. call'[worker] = Idle /\ pending'[worker] = pending[worker]
      BY <2>3 DEF Running
    <3>2. Subject(c) = c.id
      BY <1>4 DEF Subject
    <3>3. QED
      BY <1>4, <3>1, <3>2 DEF Good, Lone, Raw, Over, Unqueued, Carried
  <2>4. CASE reported \notin {"done", "not-active"} /\ Defer(worker, c, FALSE, FALSE)
    BY <1>1, <1>4, <2>4, DeferGood
  <2>5. QED
    BY <2>1, <2>2, <2>3, <2>4 DEF Committed
<1>5. CASE c.entry = NoEntry /\ c.op # "commit"
  <2>1. Go(worker, Idle) /\ ~Committing(c)
    BY <1>2, <1>5 DEF Committing
  <2>2. QED
    BY <2>1, GoGood
<1>6. QED
  BY <1>3, <1>4, <1>5

LEMMA PersistedGood ==
  ASSUME NEW worker, Running(worker), NEW c, Moving(worker, c), c # Idle, Committing(c),
         Good(pending[worker], c), Unqueued(worker, c), Unmarked(c),
         NEW persisted \in BOOLEAN, NEW blocked \in BOOLEAN, ~(persisted /\ blocked),
         Persisted(worker, c, persisted, blocked)
  PROVE  /\ Good(pending'[worker], call'[worker])
         /\ call'[worker] # Idle => ~Touching(call'[worker])
         /\ persisted => Over(worker, c)
<1>1. CASE c.entry = NoEntry
  <2>1. Defer(worker, c, persisted, blocked) /\ c.op = "commit"
    BY <1>1 DEF Committing, Persisted
  <2>2. call'[worker] = Idle
    BY <2>1 DEF Defer, Running
  <2>3. QED
    BY <1>1, <2>1, <2>2, DeferGood
<1>2. CASE c.entry # NoEntry /\ persisted
  <2> DEFINE e == [c EXCEPT !.entry.persisted = TRUE, !.entry.blocked = FALSE]
             d == Attempt(e, "settle")
  <2>1. call'[worker] = d /\ pending'[worker] = pending[worker]
    BY <1>2 DEF Persisted, Running
  <2>2. c.entry \in Entries /\ Whole(c)
    BY <1>2 DEF Moving, Whole
  <2>3. /\ DOMAIN e = Fields /\ e.op = c.op /\ e.id = c.id
        /\ e.entry = [c.entry EXCEPT !.persisted = TRUE, !.blocked = FALSE]
    BY <2>2 DEF Whole, Fields
  <2> HIDE DEF e
  <2>4. e.entry.id = c.entry.id /\ e.entry.persisted /\ e.entry # NoEntry
    <3>1. c.entry \in [id : Nat \ {0}, persisted : BOOLEAN, attempts : 0 .. MissingAttempts - 1,
                       blocked : BOOLEAN]
      BY <2>2 DEF Entries
    <3>2. [c.entry EXCEPT !.persisted = TRUE, !.blocked = FALSE].id = c.entry.id
          /\ [c.entry EXCEPT !.persisted = TRUE, !.blocked = FALSE].persisted
      BY <3>1
    <3>3. c.entry.id # 0
      BY <3>1
    <3>4. QED
      BY <2>3, <3>2, <3>3, EntryFacts
  <2>5. /\ d.entry = e.entry /\ d.at = "read" /\ d.task = "settle" /\ d.op = c.op /\ d.id = c.id
        /\ d # Idle
    BY <2>3 DEF Attempt, At, Fields, Idle
  <2> HIDE DEF d
  <2>6. ~Unmarked(d)
    BY <2>5 DEF Unmarked, Marking
  <2>7. Good(pending'[worker], d)
    BY <1>2, <2>1, <2>4, <2>5, <2>6 DEF Good, Lone, Raw
  <2>8. Over(worker, c)
    <3>1. Subject(c) = c.entry.id /\ c.entry \in Carried(pending[worker], c)
      BY <1>2 DEF Subject, Carried
    <3>2. d.op = "commit" => d.id # c.entry.id
      BY <2>5, <3>1 DEF Unqueued
    <3>3. \A f \in Carried(pending[worker], d) : f.id = c.entry.id => f.persisted
      BY <1>2, <2>4, <2>5 DEF Carried, Good, Lone
    <3>4. QED
      BY <2>1, <3>1, <3>2, <3>3 DEF Over
  <2>9. ~Touching(d)
    BY <2>5 DEF Touching
  <2>10. QED
    BY <2>1, <2>7, <2>8, <2>9
<1>3. CASE c.entry # NoEntry /\ ~persisted
  <2>1. Go(worker, At(c, "room")) /\ ~c.entry.persisted
    BY <1>3 DEF Persisted, Good, Raw
  <2>2. At(c, "room").entry = c.entry /\ At(c, "room").at = "room"
    BY AtFields DEF Moving, Whole, Resembles
  <2>3. call'[worker] = At(c, "room") /\ ~Touching(At(c, "room"))
    BY <2>1, <2>2 DEF Go, Running, Touching
  <2>4. QED
    BY <1>3, <2>1, <2>2, <2>3, GoGood
<1>4. QED
  BY <1>1, <1>2, <1>3

-----------------------------------------------------------------------------
(* What every step of a call keeps, and what it learns of the commits owed.*)
Tally == seen \in [FaultKinds \cup {"restart"} -> Nat]

Working == Inv /\ Tally /\ \A w \in Workers : Good(pending[w], call[w])

Owes(c, d) == d # Idle /\ Touching(d) =>
  \A id \in d.owed : MarkOf(id) = "commit" \/ (Touching(c) /\ id \in c.owed)

Proceeds(worker, c) == Good(pending'[worker], call'[worker]) /\ Owes(c, call'[worker])

LEMMA WorkingCall ==
  ASSUME Working, NEW worker \in Workers
  PROVE  /\ Running(worker) /\ Good(pending[worker], call[worker])
         /\ call[worker] # Idle =>
              /\ Moving(worker, call[worker]) /\ Shaped(call[worker], Ids)
              /\ Unqueued(worker, call[worker])
<1>1. Running(worker) /\ Good(pending[worker], call[worker])
  BY DEF Working, Running, Inv, Typed
<1>2. ASSUME call[worker] # Idle PROVE Unqueued(worker, call[worker])
  <2>1. Bound(call[worker])
    BY <1>2, CallFacts DEF Working
  <2>2. \A e \in Carried(pending[worker], call[worker]) : e.id \in DOMAIN answers
    BY DEF Working, Inv, Queues
  <2>3. QED
    BY <2>1, <2>2 DEF Bound, Unqueued
<1>3. QED
  BY <1>1, <1>2, CallFacts DEF Working

LEMMA FinishProceeds ==
  ASSUME Working, NEW worker \in Workers, NEW c, c = call[worker], c # Idle,
         NEW result \in Results, Finish(worker, c, result)
  PROVE  /\ Proceeds(worker, c)
         /\ result \in {"done", "not-active"} /\ Committing(c) => Over(worker, c)
<1>1. Running(worker) /\ Moving(worker, c) /\ Good(pending[worker], c) /\ Unqueued(worker, c)
  BY WorkingCall
<1>2. PICK d, q : Turns(worker, d, q) /\ (d # Idle => Free(d))
  BY <1>1, FinishMoves DEF Moves
<1>3. call'[worker] # Idle => ~Touching(call'[worker])
  BY <1>1, <1>2 DEF Turns, Running, Free
<1>4. QED
  BY <1>1, <1>3, FinishGood DEF Proceeds, Owes

LEMMA PersistedProceeds ==
  ASSUME Working, NEW worker \in Workers, NEW c, c = call[worker], c # Idle,
         Committing(c), Unmarked(c), NEW persisted \in BOOLEAN, NEW blocked \in BOOLEAN,
         ~(persisted /\ blocked), Persisted(worker, c, persisted, blocked)
  PROVE  Proceeds(worker, c) /\ (persisted => Over(worker, c))
<1>1. Running(worker) /\ Moving(worker, c) /\ Good(pending[worker], c) /\ Unqueued(worker, c)
  BY WorkingCall
<1>2. QED
  BY <1>1, PersistedGood DEF Proceeds, Owes

LEMMA GoProceeds ==
  ASSUME Working, NEW worker \in Workers, NEW c, c = call[worker], NEW d, Go(worker, d),
         d # Idle => \/ d.entry = NoEntry
                     \/ c # Idle /\ d.entry = c.entry /\ (Unmarked(d) => Unmarked(c)),
         Owes(c, d)
  PROVE  Proceeds(worker, c)
<1>1. Running(worker) /\ Good(pending[worker], c)
  BY WorkingCall
<1>2. call'[worker] = d
  BY <1>1 DEF Go, Running
<1>3. QED
  BY <1>1, <1>2, GoGood DEF Proceeds

LEMMA ClaimingProceeds ==
  ASSUME Working, NEW worker \in Workers, NEW c, c = call[worker], c # Idle,
         NEW b, DOMAIN b = Fields, b.entry = c.entry, b.task = c.task,
         NEW todo, NEW owed, Go(worker, Claiming(b, todo, owed)),
         \A id \in owed : MarkOf(id) = "commit" \/ (Touching(c) /\ id \in c.owed)
  PROVE  Proceeds(worker, c)
<1> DEFINE d == Claiming(b, todo, owed)
<1>1. /\ d.entry = c.entry /\ d.task = c.task /\ d.at \in {"put", "claim"} /\ d.owed = owed
  BY ClaimingFields DEF Resembles
<1>2. Go(worker, d)
  OBVIOUS
<1> HIDE DEF d
<1>3. Unmarked(d) => Unmarked(c)
  BY <1>1 DEF Unmarked, Marking
<1>4. QED
  BY <1>1, <1>2, <1>3, GoProceeds DEF Owes

LEMMA MarkEndsProceeds ==
  ASSUME Working, NEW worker \in Workers, NEW c, c = call[worker],
         c.at \in {"slot", "mark", "unslot"},
         NEW outcome \in {"marked", "full", "failed", "mismatch"}, MarkEnds(worker, c, outcome)
  PROVE  Proceeds(worker, c) /\ (outcome = "marked" /\ c.claim = 0 => Over(worker, c))
<1>1. /\ c # Idle /\ Moving(worker, c) /\ Shaped(c, Ids) /\ Whole(c)
  BY MarkerCall DEF Working, Moving
<1>2. CASE c.claim = 0
  <2>1. Marking(c) /\ Committing(c) /\ Unmarked(c)
    BY <1>1, <1>2 DEF Marking, Shaped, Unmarked
  <2>2. Persisted(worker, c, outcome = "marked", outcome = "full")
    BY <1>2 DEF MarkEnds, Persisting
  <2> DEFINE persisted == outcome = "marked"
             blocked == outcome = "full"
  <2>3. /\ Persisted(worker, c, persisted, blocked)
        /\ persisted \in BOOLEAN /\ blocked \in BOOLEAN /\ ~(persisted /\ blocked)
    BY <2>2
  <2>4. persisted <=> outcome = "marked"
    OBVIOUS
  <2> HIDE DEF persisted, blocked
  <2>5. QED
    BY <1>1, <2>1, <2>3, <2>4, PersistedProceeds
<1>3. CASE c.claim # 0
  <2>1. Touching(c)
    BY <1>3 DEF Touching
  <2>2. \/ outcome \in {"failed", "mismatch"} /\ Finish(worker, c, outcome)
        \/ Go(worker, Claiming(c, c.todo \ {c.claim}, c.owed))
    BY <1>3 DEF MarkEnds, Persisting
  <2>3. CASE outcome \in {"failed", "mismatch"} /\ Finish(worker, c, outcome)
    BY <1>1, <1>3, <2>3, FinishProceeds DEF Results
  <2>4. CASE Go(worker, Claiming(c, c.todo \ {c.claim}, c.owed))
    BY <1>1, <1>3, <2>1, <2>4, ClaimingProceeds DEF Whole
  <2>5. QED
    BY <2>2, <2>3, <2>4
<1>4. QED
  BY <1>2, <1>3

LEMMA AttemptProceeds ==
  ASSUME Working, NEW worker \in Workers, NEW c, c = call[worker], c # Idle, NEW task,
         Go(worker, Attempt(c, task)), task = "charge" => Unmarked(c)
  PROVE  Proceeds(worker, c)
<1> DEFINE d == Attempt(c, task)
<1>1. Whole(c)
  BY WorkingCall DEF Moving
<1>2. d.entry = c.entry /\ d.task = task /\ d.at = "read"
  BY <1>1 DEF Attempt, At, Whole, Fields
<1>3. Go(worker, d)
  OBVIOUS
<1> HIDE DEF d
<1>4. ~Touching(d) /\ (Unmarked(d) => Unmarked(c))
  BY <1>2 DEF Touching, Unmarked, Marking
<1>5. QED
  BY <1>2, <1>3, <1>4, GoProceeds DEF Owes

LEMMA AtProceeds ==
  ASSUME Working, NEW worker \in Workers, NEW c, c = call[worker], c # Idle, Unmarked(c),
         NEW at \in {"persist", "charge", "remark", "room"}, Go(worker, At(c, at))
  PROVE  Proceeds(worker, c)
<1> DEFINE d == At(c, at)
<1>1. d.entry = c.entry /\ d.at = at
  BY WorkingCall, AtFields DEF Moving, Whole, Resembles
<1>2. Go(worker, d)
  OBVIOUS
<1> HIDE DEF d
<1>3. ~Touching(d)
  BY <1>1 DEF Touching
<1>4. QED
  BY <1>1, <1>2, <1>3, GoProceeds DEF Owes

LEMMA MarkAgainProceeds ==
  ASSUME Working, NEW worker \in Workers, NEW c, c = call[worker],
         c.at \in {"slot", "mark", "unslot"}, MarkAgain(worker, c)
  PROVE  Proceeds(worker, c)
<1>1. /\ c # Idle /\ Moving(worker, c) /\ Shaped(c, Ids) /\ Whole(c)
  BY MarkerCall DEF Working, Moving
<1>2. CASE c.claim = 0
  <2>1. Unmarked(c) /\ Go(worker, At(c, "remark"))
    BY <1>2 DEF Unmarked, Marking, MarkAgain, Persisting
  <2>2. QED
    BY <1>1, <2>1, AtProceeds
<1>3. CASE c.claim # 0
  <2>1. Touching(c)
    BY <1>3 DEF Touching
  <2>2. CASE Go(worker, Claiming(c, c.todo, c.owed))
    BY <1>1, <2>1, <2>2, ClaimingProceeds DEF Whole
  <2>3. CASE Go(worker, Attempt(c, c.task))
    BY <1>1, <2>3, AttemptProceeds DEF Unmarked
  <2>4. QED
    BY <1>3, <2>2, <2>3 DEF MarkAgain, Persisting
<1>4. QED
  BY <1>2, <1>3

(* The faults a step may meet; one that landed is counted.                 *)
LEMMA FaultFacts ==
  ASSUME Tally
  PROVE  /\ Works => Tally' /\ seen'["landed"] = seen["landed"]
         /\ \A kind \in FaultKinds : Fails(kind) =>
              /\ Tally'
              /\ seen'["landed"] = seen["landed"] + (IF kind = "landed" THEN 1 ELSE 0)
<1>1. "landed" \in FaultKinds \cup {"restart"}
  BY DEF FaultKinds
<1>2. Works => Tally' /\ seen'["landed"] = seen["landed"]
  BY DEF Tally, Works
<1>3. ASSUME NEW kind \in FaultKinds, Fails(kind)
      PROVE  /\ Tally'
             /\ seen'["landed"] = seen["landed"] + (IF kind = "landed" THEN 1 ELSE 0)
  <2>1. seen' = [seen EXCEPT ![kind] = seen[kind] + 1]
    BY <1>3 DEF Fails
  <2>2. DOMAIN seen = FaultKinds \cup {"restart"} /\ \A k \in DOMAIN seen : seen[k] \in Nat
    BY DEF Tally
  <2>3. Tally'
    BY <2>1, <2>2 DEF Tally
  <2>4. QED
    BY <1>1, <2>1, <2>2, <2>3
<1>4. QED
  BY <1>2, <1>3

LEMMA HostFacts ==
  ASSUME Tally
  PROVE  /\ \A answer : HostRead(answer) => Tally' /\ seen'["landed"] = seen["landed"]
         /\ \A failed \in BOOLEAN, landed \in BOOLEAN : HostWrite(failed, landed) =>
              Tally' /\ (seen'["landed"] = 0 => seen["landed"] = 0 /\ ~(failed /\ landed))
<1>1. /\ {"misread", "unread", "unwritten", "landed"} \subseteq FaultKinds
      /\ seen["landed"] \in Nat
  BY DEF FaultKinds, Tally
<1>2. QED
  BY <1>1, FaultFacts DEF HostRead, HostWrite

(* What a step of a call does for the properties below, if no failed write *)
(* has landed: one that writes a commit has not to write it again.         *)
Unlanded == seen["landed"] = 0

Follows(worker, c) ==
  /\ Proceeds(worker, c) /\ Tally' /\ (Unlanded' => Unlanded)
  /\ Unlanded' /\ Committing(c) /\ Settles(c) /\ charges' # charges => Over(worker, c)
  /\ Unlanded' /\ c.at = "mark" /\ c.claim = 0 /\ markers' # markers => Over(worker, c)

LEMMA QuietFollows ==
  ASSUME NEW worker, NEW c, Proceeds(worker, c), Tally', seen'["landed"] = seen["landed"],
         UNCHANGED charges, c.at # "mark" \/ UNCHANGED markers
  PROVE  Follows(worker, c)
BY DEF Follows, Unlanded

LEMMA ReadRecordFollows ==
  ASSUME Working, NEW worker \in Workers, ReadRecord(worker)
  PROVE  Follows(worker, call[worker])
<1> DEFINE c == call[worker]
<1>1. PICK answer \in ReadAnswers :
        /\ HostRead(answer)
        /\ IF answer = "error" THEN Finish(worker, c, "failed")
           ELSE Found(worker, c, IF answer = "value" THEN record ELSE Missing)
  BY DEF ReadRecord
<1>2. c.at = "read" /\ UNCHANGED charges
  BY DEF ReadRecord
<1>3. Tally' /\ seen'["landed"] = seen["landed"]
  BY <1>1, HostFacts DEF Working
<1>4. c # Idle
  BY <1>2 DEF Idle
<1>5. Whole(c)
  BY <1>4, WorkingCall DEF Moving
<1> HIDE DEF c
<1>6. Proceeds(worker, c)
  <2>1. CASE \E result \in {"failed", "gone"} : Finish(worker, c, result)
    BY <1>4, <2>1, FinishProceeds DEF Results, Final, c
  <2>2. CASE \E value, todo : Go(worker, Claiming([c EXCEPT !.read = value], todo, {}))
    <3>1. PICK value, todo : Go(worker, Claiming([c EXCEPT !.read = value], todo, {}))
      BY <2>2
    <3> DEFINE b == [c EXCEPT !.read = value]
    <3>2. DOMAIN b = Fields /\ b.entry = c.entry /\ b.task = c.task
      BY <1>5 DEF Whole, Fields
    <3>3. Go(worker, Claiming(b, todo, {}))
      BY <3>1
    <3> HIDE DEF b
    <3>4. QED
      BY <1>4, <3>2, <3>3, ClaimingProceeds DEF c
  <2>3. QED
    BY <1>1, <2>1, <2>2 DEF Found
<1>7. QED
  BY <1>2, <1>3, <1>6, QuietFollows DEF c

LEMMA ClaimFollows ==
  ASSUME Working, NEW worker \in Workers, Claim(worker)
  PROVE  Follows(worker, call[worker])
<1> DEFINE c == call[worker]
<1>1. PICK id \in c.todo, answer \in ReadAnswers :
        /\ HostRead(answer)
        /\ IF answer = "error" THEN Finish(worker, c, "failed")
           ELSE ClaimSees(worker, c, id, IF answer = "value" THEN MarkOf(id) ELSE NoMark)
  BY DEF Claim
<1>2. c.at = "claim" /\ UNCHANGED charges
  BY DEF Claim
<1>3. Tally' /\ seen'["landed"] = seen["landed"]
  BY <1>1, HostFacts DEF Working
<1>4. c # Idle
  BY <1>2 DEF Idle
<1>5. Whole(c) /\ Touching(c)
  BY <1>2, <1>4, WorkingCall DEF Moving, Touching
<1> HIDE DEF c
<1> DEFINE mark == IF answer = "value" THEN MarkOf(id) ELSE NoMark
<1>6. mark = "commit" => MarkOf(id) = "commit"
  BY DEF NoMark
<1>7. Proceeds(worker, c)
  <2>1. CASE Finish(worker, c, "failed")
    BY <1>4, <2>1, FinishProceeds DEF Results, c
  <2>2. CASE ClaimSees(worker, c, id, mark)
    <3> HIDE DEF mark
    <3>1. CASE mark = "commit" /\ Go(worker, Claiming(c, c.todo \ {id}, c.owed \cup {id}))
      <4> DEFINE owed == c.owed \cup {id}
                 todo == c.todo \ {id}
      <4>1. /\ \A i \in owed : MarkOf(i) = "commit" \/ (Touching(c) /\ i \in c.owed)
            /\ Go(worker, Claiming(c, todo, owed))
        BY <1>5, <1>6, <3>1
      <4> HIDE DEF owed, todo
      <4>2. QED
        BY <1>4, <1>5, <4>1, ClaimingProceeds DEF c, Whole
    <3>2. CASE Go(worker, Claiming(c, c.todo \ {id}, c.owed))
      <4> DEFINE todo == c.todo \ {id}
      <4>1. Go(worker, Claiming(c, todo, c.owed))
        BY <3>2
      <4> HIDE DEF todo
      <4>2. QED
        BY <1>4, <1>5, <4>1, ClaimingProceeds DEF c, Whole
    <3>3. CASE Go(worker, [c EXCEPT !.at = IF mark = NoMark THEN "slot" ELSE "mark",
                                    !.claim = id, !.mark = mark])
      <4> DEFINE d == [c EXCEPT !.at = IF mark = NoMark THEN "slot" ELSE "mark",
                                !.claim = id, !.mark = mark]
      <4>1. /\ d.entry = c.entry /\ d.task = c.task /\ d.owed = c.owed /\ d.claim = id
            /\ d.at \in {"slot", "mark"}
        BY <1>5 DEF Whole, Fields
      <4>2. Go(worker, d)
        BY <3>3
      <4> HIDE DEF d
      <4>3. id # 0
        <5>1. Shaped(c, Ids)
          BY <1>4, WorkingCall DEF c
        <5>2. id \in Due(c, c.read) /\ ReadOK(c.read, Ids) /\ c.now \in Nat
          BY <1>1, <1>5, <5>1 DEF Shaped, Reading, Whole
        <5>3. Due(c, c.read) \subseteq Ids
          BY <5>2, IdsFinite, DueIs DEF Working, Inv
        <5>4. QED
          BY <5>2, <5>3, IdsFinite DEF Working, Inv
      <4>4. Unmarked(d) => Unmarked(c)
        BY <4>1, <4>3 DEF Unmarked, Marking
      <4>5. Owes(c, d)
        BY <1>5, <4>1 DEF Owes
      <4>6. QED
        BY <1>4, <4>1, <4>2, <4>4, <4>5, GoProceeds DEF c
    <3>4. QED
      BY <2>2, <3>1, <3>2, <3>3 DEF ClaimSees, IsCommit
  <2>3. QED
    BY <1>1, <2>1, <2>2
<1>8. QED
  BY <1>2, <1>3, <1>7, QuietFollows DEF c

LEMMA MarkerSlotFollows ==
  ASSUME Working, NEW worker \in Workers, MarkerSlot(worker)
  PROVE  Follows(worker, call[worker])
<1> DEFINE c == call[worker]
<1>1. c.at = "slot" /\ UNCHANGED charges
  BY DEF MarkerSlot
<1>2. c # Idle /\ Whole(c)
  BY <1>1, MarkerCall DEF Working, Moving
<1>3. Tally' /\ (seen'["landed"] = 0 => seen["landed"] = 0)
  BY HostFacts, FaultFacts DEF MarkerSlot, Working
<1>4. Proceeds(worker, c)
  <2> HIDE DEF c
  <2>1. CASE \E outcome \in {"full", "failed"} : MarkEnds(worker, c, outcome)
    BY <1>1, <2>1, MarkEndsProceeds DEF c
  <2>2. CASE Go(worker, [c EXCEPT !.at = "mark"])
    <3> DEFINE d == [c EXCEPT !.at = "mark"]
    <3>1. d.entry = c.entry /\ d.task = c.task /\ d.owed = c.owed /\ d.claim = c.claim
          /\ d.at = "mark"
      BY <1>2 DEF Whole, Fields
    <3>2. Go(worker, d)
      BY <2>2
    <3> HIDE DEF d
    <3>3. (Unmarked(d) => Unmarked(c)) /\ Owes(c, d)
      BY <1>1, <3>1 DEF Unmarked, Marking, Owes, Touching
    <3>4. QED
      BY <1>2, <3>1, <3>2, <3>3, GoProceeds DEF c
  <2>3. QED
    BY <2>1, <2>2 DEF MarkerSlot, c
<1>5. QED
  BY <1>1, <1>3, <1>4 DEF Follows, Unlanded, MarkerSlot

LEMMA PutMarkerFollows ==
  ASSUME Working, NEW worker \in Workers, PutMarker(worker)
  PROVE  Follows(worker, call[worker])
<1> DEFINE c == call[worker]
<1>1. PICK outcome \in {"marked", "mismatch", "failed"}, landed \in BOOLEAN :
        /\ IF outcome = "mismatch" THEN ~landed /\ Works
           ELSE HostWrite(outcome = "failed", landed)
        /\ markers' = IF landed THEN Stamped(c) ELSE markers
        /\ \/ Go(worker, [c EXCEPT !.at = "unslot"])/\ outcome = "mismatch"
           \/ MarkAgain(worker, c) /\ outcome = "mismatch"
           \/ MarkEnds(worker, c, outcome)
  BY DEF PutMarker
<1>2. c.at = "mark" /\ UNCHANGED charges
  BY DEF PutMarker
<1>3. c # Idle /\ Whole(c)
  BY <1>2, MarkerCall DEF Working, Moving
<1>4. /\ Tally' /\ (seen'["landed"] = 0 => seen["landed"] = 0)
      /\ seen'["landed"] = 0 /\ landed => outcome = "marked"
  <2>1. CASE outcome = "mismatch"
    BY <1>1, <2>1, FaultFacts DEF Working
  <2>2. CASE outcome # "mismatch"
    <3> DEFINE failed == outcome = "failed"
    <3>1. HostWrite(failed, landed) /\ failed \in BOOLEAN
      BY <1>1, <2>2
    <3>2. failed <=> outcome = "failed"
      OBVIOUS
    <3> HIDE DEF failed
    <3>3. QED
      BY <2>2, <3>1, <3>2, HostFacts DEF Working
  <2>3. QED
    BY <2>1, <2>2
<1>5. Proceeds(worker, c) /\ (outcome = "marked" /\ c.claim = 0 => Over(worker, c))
  <2> HIDE DEF c
  <2>1. CASE MarkEnds(worker, c, outcome)
    BY <1>2, <2>1, MarkEndsProceeds DEF c
  <2>2. CASE Go(worker, [c EXCEPT !.at = "unslot"]) /\ outcome = "mismatch"
    <3> DEFINE d == [c EXCEPT !.at = "unslot"]
    <3>1. d.entry = c.entry /\ d.task = c.task /\ d.owed = c.owed /\ d.claim = c.claim
          /\ d.at = "unslot"
      BY <1>3 DEF Whole, Fields
    <3>2. Go(worker, d)
      BY <2>2
    <3> HIDE DEF d
    <3>3. (Unmarked(d) => Unmarked(c)) /\ Owes(c, d)
      BY <1>2, <3>1 DEF Unmarked, Marking, Owes, Touching
    <3>4. QED
      BY <1>3, <2>2, <3>1, <3>2, <3>3, GoProceeds DEF c
  <2>3. CASE MarkAgain(worker, c) /\ outcome = "mismatch"
    BY <1>2, <2>3, MarkAgainProceeds DEF c
  <2>4. QED
    BY <1>1, <2>1, <2>2, <2>3
<1>6. markers' # markers => landed
  BY <1>1
<1>7. QED
  BY <1>2, <1>4, <1>5, <1>6 DEF Follows, Unlanded

LEMMA ReleaseSlotFollows ==
  ASSUME Working, NEW worker \in Workers, ReleaseSlot(worker)
  PROVE  Follows(worker, call[worker])
<1>1. /\ call[worker].at = "unslot" /\ UNCHANGED <<charges, markers>>
      /\ MarkAgain(worker, call[worker]) \/ MarkEnds(worker, call[worker], "mismatch")
      /\ Works \/ Fails("unwritten")
  BY DEF ReleaseSlot
<1>2. Tally' /\ seen'["landed"] = seen["landed"]
  <2>1. "unwritten" \in FaultKinds /\ seen["landed"] \in Nat
    BY DEF FaultKinds, Working, Tally
  <2>2. QED
    BY <1>1, <2>1, FaultFacts DEF Working
<1>3. Proceeds(worker, call[worker])
  BY <1>1, MarkAgainProceeds, MarkEndsProceeds
<1>4. QED
  BY <1>1, <1>2, <1>3, QuietFollows

LEMMA PersistFollows ==
  ASSUME Working, NEW worker \in Workers, Persist(worker)
  PROVE  Follows(worker, call[worker])
<1>1. /\ call[worker].at = "persist" /\ UNCHANGED <<charges, seen>>
      /\ \/ Persisted(worker, call[worker], FALSE, FALSE)
         \/ Go(worker, At(call[worker], "remark"))
  BY DEF Persist
<1>2. call[worker] # Idle /\ Committing(call[worker]) /\ Unmarked(call[worker])
  BY <1>1, CommitCall DEF Working, Unmarked
<1>3. Proceeds(worker, call[worker])
  <2>1. FALSE \in BOOLEAN /\ ~(FALSE /\ FALSE)
    OBVIOUS
  <2>2. CASE Persisted(worker, call[worker], FALSE, FALSE)
    BY <1>2, <2>1, <2>2, PersistedProceeds
  <2>3. CASE Go(worker, At(call[worker], "remark"))
    BY <1>2, <2>3, AtProceeds
  <2>4. QED
    BY <1>1, <2>2, <2>3
<1>4. Tally' /\ seen'["landed"] = seen["landed"]
  BY <1>1 DEF Working, Tally
<1>5. QED
  BY <1>1, <1>3, <1>4, QuietFollows

LEMMA ReadMarkFollows ==
  ASSUME Working, NEW worker \in Workers, ReadMark(worker)
  PROVE  Follows(worker, call[worker])
<1> DEFINE c == call[worker]
<1>1. PICK answer \in ReadAnswers :
        /\ HostRead(answer)
        /\ PersistSees(worker, c, CASE answer = "value" -> MarkOf(Subject(c))
                                    [] answer = "none"  -> NoMark
                                    [] answer = "error" -> "unread")
  BY DEF ReadMark
<1>2. c.at = "remark" /\ UNCHANGED charges
  BY DEF ReadMark
<1>3. Tally' /\ seen'["landed"] = seen["landed"]
  BY <1>1, HostFacts DEF Working
<1>4. c # Idle /\ Committing(c) /\ Unmarked(c) /\ Whole(c) /\ Marking(c)
  BY <1>2, CommitCall DEF Working, Unmarked, Moving
<1> DEFINE mark == CASE answer = "value" -> MarkOf(Subject(c))
                     [] answer = "none"  -> NoMark
                     [] answer = "error" -> "unread"
<1>5. PersistSees(worker, c, mark)
  BY <1>1
<1> HIDE DEF mark, c
<1>6. Proceeds(worker, c)
  <2>1. CASE mark \in {NoMark, "expired"}
    <3> DEFINE at == IF mark = NoMark THEN "slot" ELSE "mark"
               d == [At(c, at) EXCEPT !.mark = mark]
    <3>1. Go(worker, d)
      BY <1>5, <2>1 DEF PersistSees
    <3>2. Resembles(At(c, at), c) /\ At(c, at).at = at /\ At(c, at).claim = 0
      BY <1>4, AtFields DEF Whole
    <3>3. d.entry = c.entry /\ d.claim = 0
      BY <3>2 DEF Resembles, Fields
    <3> HIDE DEF d
    <3>4. ~Touching(d)
      <4>1. d.at \in {"slot", "mark"}
        BY <3>2 DEF d, Resembles, Fields
      <4>2. QED
        BY <3>3, <4>1 DEF Touching
    <3>5. QED
      BY <1>4, <3>1, <3>3, <3>4, GoProceeds DEF Owes, c
  <2>2. CASE mark \notin {NoMark, "expired"}
    <3> DEFINE persisted == mark \in {"commit", "provisional"}
    <3>1. Persisted(worker, c, persisted, FALSE)
      BY <1>5, <2>2 DEF PersistSees
    <3>4. persisted \in BOOLEAN
      OBVIOUS
    <3> HIDE DEF persisted
    <3>2. FALSE \in BOOLEAN /\ ~(persisted /\ FALSE)
      OBVIOUS
    <3>3. QED
      BY <1>4, <3>1, <3>2, <3>4, PersistedProceeds DEF c
  <2>3. QED
    BY <2>1, <2>2
<1>7. QED
  BY <1>2, <1>3, <1>6, QuietFollows DEF c

LEMMA ReadRoomFollows ==
  ASSUME Working, NEW worker \in Workers, ReadRoom(worker)
  PROVE  Follows(worker, call[worker])
<1> DEFINE c == call[worker]
<1>1. /\ c.at = "room" /\ UNCHANGED charges
      /\ \E answer \in ReadAnswers : HostRead(answer)
      /\ \/ Go(worker, At(c, "charge"))
         \/ Resume(worker, Waiting(c), Append(pending[worker], c.entry))
  BY DEF ReadRoom
<1>2. Tally' /\ seen'["landed"] = seen["landed"]
  BY <1>1, HostFacts DEF Working
<1>3. c # Idle /\ Committing(c) /\ Unmarked(c) /\ c.entry # NoEntry /\ c.op # "collect"
  BY <1>1, CommitCall DEF Working, Unmarked
<1>4. /\ Running(worker) /\ Moving(worker, c) /\ Good(pending[worker], c)
  BY <1>3, WorkingCall
<1> HIDE DEF c
<1>5. Proceeds(worker, c)
  <2>1. CASE Go(worker, At(c, "charge"))
    BY <1>3, <2>1, AtProceeds DEF c
  <2>2. CASE Resume(worker, Waiting(c), Append(pending[worker], c.entry))
    <3> DEFINE rest == Append(pending[worker], c.entry)
               waiting == [Waiting(c) EXCEPT !.rounds = c.rounds]
    <3>1. /\ c.entry \in Entries /\ c.op \notin {"sweep", "collect"} /\ Whole(c)
          /\ pending[worker] \in Seq(Entries) /\ c.rounds \in Nat
      BY <1>3, <1>4 DEF Moving, Whole
    <3>2. waiting = Waiting(c)
      <4>1. DOMAIN Waiting(c) = Fields /\ Waiting(c).rounds = c.rounds
        BY <3>1 DEF Waiting, At, Whole, Fields
      <4>2. Waiting(c) = [f \in Fields |-> Waiting(c)[f]]
        BY <3>1 DEF Waiting, At, Whole, Fields
      <4>3. QED
        BY <4>1, <4>2
    <3>3. rest \in Seq(Entries) /\ Distinct(rest)
      BY <1>3, <1>4, <3>1, ElementsAppend, DistinctAppend DEF Good, Lone
    <3> HIDE DEF rest, waiting
    <3>4. /\ Whole(waiting) /\ waiting.entry = NoEntry /\ waiting.task = "none"
          /\ waiting.op \in {"reserve", "commit", "release"}
      BY <3>1, WaitingFields DEF waiting
    <3>5. Resume(worker, waiting, rest)
      BY <2>2, <3>2 DEF rest
    <3>6. Good(pending'[worker], call'[worker])
      BY <1>4, <3>3, <3>4, <3>5, ResumeGood
    <3>7. PICK d, q : Turns(worker, d, q) /\ (d # Idle => Free(d))
      BY <3>3, <3>4, <3>5, ResumeMoves
    <3>8. call'[worker] # Idle => ~Touching(call'[worker])
      BY <1>4, <3>7 DEF Turns, Running, Free
    <3>9. QED
      BY <3>6, <3>8 DEF Proceeds, Owes
  <2>3. QED
    BY <1>1, <2>1, <2>2 DEF c
<1>6. QED
  BY <1>1, <1>2, <1>5, QuietFollows DEF c

LEMMA ReadChargedFollows ==
  ASSUME Working, NEW worker \in Workers, ReadCharged(worker)
  PROVE  Follows(worker, call[worker])
<1> DEFINE c == call[worker]
<1>1. /\ c.at = "charge" /\ UNCHANGED charges
      /\ \E answer \in ReadAnswers : HostRead(answer)
      /\ \E task : Go(worker, Attempt(c, task))
  BY DEF ReadCharged, ChargeSees
<1>2. Tally' /\ seen'["landed"] = seen["landed"]
  BY <1>1, HostFacts DEF Working
<1>3. c # Idle /\ Unmarked(c)
  BY <1>1, CommitCall DEF Working, Unmarked
<1>4. Proceeds(worker, c)
  BY <1>1, <1>3, AttemptProceeds
<1>5. QED
  BY <1>1, <1>2, <1>4, QuietFollows

LEMMA PutRecordFollows ==
  ASSUME Working, NEW worker \in Workers, PutRecord(worker)
  PROVE  Follows(worker, call[worker])
<1> DEFINE c == call[worker]
<1>1. PICK landed \in BOOLEAN, result \in {"ok", "mismatch", "failed", "capacity"} :
        /\ PutEnds(c, Unwritten(c), result, landed)
        /\ ~landed => UNCHANGED charges
        /\ \/ result = "mismatch" /\ Go(worker, Attempt(c, c.task))
           \/ Finish(worker, c, IF result = "ok" THEN Result(c) ELSE result)
  BY DEF PutRecord
<1>2. c.at = "put" /\ UNCHANGED markers
  BY DEF PutRecord
<1>3. c # Idle
  BY <1>2, PutFacts DEF Working
<1>4. /\ Tally' /\ (seen'["landed"] = 0 => seen["landed"] = 0)
      /\ seen'["landed"] = 0 /\ landed => result = "ok"
  <2>1. "full" \in FaultKinds /\ seen["landed"] \in Nat
    BY DEF FaultKinds, Working, Tally
  <2>2. \/ Works /\ (landed => result = "ok")
        \/ result = "failed" /\ HostWrite(TRUE, landed)
        \/ ~landed /\ Fails("full")
    BY <1>1 DEF PutEnds
  <2>3. CASE Works /\ (landed => result = "ok")
    BY <2>3, FaultFacts DEF Working
  <2>4. CASE result = "failed" /\ HostWrite(TRUE, landed)
    <3>1. landed \in BOOLEAN /\ TRUE \in BOOLEAN
      OBVIOUS
    <3>2. Tally' /\ (seen'["landed"] = 0 => seen["landed"] = 0 /\ ~(TRUE /\ landed))
      BY <2>4, <3>1, HostFacts DEF Working
    <3>3. QED
      BY <3>2
  <2>5. CASE ~landed /\ Fails("full")
    <3>1. Tally' /\ seen'["landed"] = seen["landed"] + 0
      BY <2>1, <2>5, FaultFacts DEF Working
    <3>2. QED
      BY <2>1, <2>5, <3>1
  <2>6. QED
    BY <2>2, <2>3, <2>4, <2>5
<1> HIDE DEF c
<1>5. CASE result = "mismatch" /\ Go(worker, Attempt(c, c.task))
  <2>1. Proceeds(worker, c)
    BY <1>3, <1>5, AttemptProceeds DEF Unmarked, c
  <2>2. QED
    BY <1>1, <1>2, <1>4, <1>5, <2>1 DEF Follows, Unlanded, c
<1>6. CASE Finish(worker, c, IF result = "ok" THEN Result(c) ELSE result)
  <2> DEFINE r == IF result = "ok" THEN Result(c) ELSE result
  <2>1. r \in Results /\ (Settles(c) /\ result = "ok" => r \in {"done", "not-active"})
    BY DEF Result, Results, Final, Settles, Settling
  <2>2. Finish(worker, c, r)
    BY <1>6
  <2> HIDE DEF r
  <2>3. /\ Proceeds(worker, c)
        /\ r \in {"done", "not-active"} /\ Committing(c) => Over(worker, c)
    BY <1>3, <2>1, <2>2, FinishProceeds DEF c
  <2>4. QED
    BY <1>1, <1>2, <1>4, <2>1, <2>3 DEF Follows, Unlanded, c
<1>7. QED
  BY <1>1, <1>5, <1>6 DEF c

LEMMA CollectFollows ==
  ASSUME Working, NEW worker \in Workers,
         CollectRead(worker) \/ CollectMark(worker) \/ CollectDelete(worker)
           \/ CollectRestore(worker) \/ CollectUncount(worker)
  PROVE  Follows(worker, call[worker])
<1> DEFINE c == call[worker]
<1>1. (c.at = "held" \/ Collecting(c)) /\ UNCHANGED charges
  BY DEF CollectRead, CollectMark, CollectDelete, CollectRestore, CollectUncount, Collecting
<1>2. \E at, d : Go(worker, d) /\ (d = Idle \/ (d = [c EXCEPT !.at = at] /\
                 at \in {"collecting", "delete", "restore", "uncount"}))
  BY DEF CollectRead, CollectSees, CollectMark, CollectDelete, CollectRestore, CollectUncount
<1>3. c # Idle /\ Whole(c) /\ c.entry = NoEntry /\ c.at # "mark"
  BY <1>1, CollectCall DEF Working, Moving, Whole, Collecting
<1>4. Tally' /\ (seen'["landed"] = 0 => seen["landed"] = 0)
  <2>1. "unwritten" \in FaultKinds /\ seen["landed"] \in Nat
    BY DEF FaultKinds, Working, Tally
  <2>2. \/ \E answer \in ReadAnswers : HostRead(answer)
        \/ \E failed, landed \in BOOLEAN : HostWrite(failed, landed)
        \/ Works \/ Fails("unwritten")
    BY DEF CollectRead, CollectMark, CollectDelete, CollectRestore, CollectUncount
  <2>3. CASE \E answer \in ReadAnswers : HostRead(answer)
    BY <2>1, <2>3, HostFacts DEF Working
  <2>4. CASE \E failed, landed \in BOOLEAN : HostWrite(failed, landed)
    <3>1. PICK failed \in BOOLEAN, landed \in BOOLEAN : HostWrite(failed, landed)
      BY <2>4
    <3>2. QED
      BY <3>1, HostFacts DEF Working
  <2>5. CASE Works
    BY <2>5, FaultFacts DEF Working
  <2>6. CASE Fails("unwritten")
    <3>1. Tally' /\ seen'["landed"] = seen["landed"] + 0
      BY <2>1, <2>6, FaultFacts DEF Working
    <3>2. QED
      BY <2>1, <3>1
  <2>7. QED
    BY <2>2, <2>3, <2>4, <2>5, <2>6
<1> HIDE DEF c
<1>5. PICK at, d : Go(worker, d) /\ (d = Idle \/ (d = [c EXCEPT !.at = at] /\
                   at \in {"collecting", "delete", "restore", "uncount"}))
  BY <1>2
<1>6. d # Idle => d.entry = NoEntry /\ ~Touching(d)
  <2> HAVE d # Idle
  <2>1. d.entry = c.entry /\ d.at = at
    BY <1>3, <1>5 DEF Whole, Fields
  <2>2. QED
    BY <1>3, <1>5, <2>1 DEF Touching
<1>7. Proceeds(worker, c)
  BY <1>5, <1>6, GoProceeds DEF Owes, c
<1>8. QED
  BY <1>1, <1>3, <1>4, <1>7 DEF Follows, Unlanded, c

(* A call that starts carries what its worker's queue held, and touches    *)
(* nothing yet.                                                            *)
Starts(worker) ==
  /\ Good(pending'[worker], call'[worker]) /\ UNCHANGED seen
  /\ call'[worker] # Idle => ~Touching(call'[worker])

LEMMA StartsFollow ==
  ASSUME Working, NEW worker \in Workers,
         \/ \E units \in Contributions : Reserve(worker, units)
         \/ \E id \in DOMAIN reservations, op \in {"commit", "release"} : SettleCall(worker, id, op)
         \/ Sweep(worker)
         \/ \E id \in DOMAIN markers : Collect(worker, id)
  PROVE  (\E c, d, q : Begins(worker, c, d, q)) /\ Starts(worker)
<1>1. Running(worker) /\ Good(pending[worker], call[worker]) /\ clock \in Nat
  BY WorkingCall DEF Working, Inv, Typed
<1>2. pending[worker] \in Seq(Entries) /\ Distinct(pending[worker])
  BY <1>1 DEF Running, Good, Lone
<1>3. (\E c, d, q : Begins(worker, c, d, q)) /\ UNCHANGED seen
  <2>1. ASSUME NEW units \in Contributions, Reserve(worker, units)
        PROVE  (\E c, d, q : Begins(worker, c, d, q)) /\ UNCHANGED seen
    BY <2>1, ReserveBegins DEF Working, Reserve
  <2>2. ASSUME NEW id \in DOMAIN reservations, NEW op \in {"commit", "release"},
               SettleCall(worker, id, op)
        PROVE  (\E c, d, q : Begins(worker, c, d, q)) /\ UNCHANGED seen
    BY <2>2, SettleBegins DEF Working, SettleCall
  <2>3. CASE Sweep(worker)
    BY <2>3, SweepBegins DEF Working, Sweep
  <2>4. ASSUME NEW id \in DOMAIN markers, Collect(worker, id)
        PROVE  (\E c, d, q : Begins(worker, c, d, q)) /\ UNCHANGED seen
    BY <2>4, CollectBegins DEF Working, Collect
  <2>5. QED
    BY <2>1, <2>2, <2>3, <2>4
<1>4. call'[worker] # Idle => ~Touching(call'[worker])
  BY <1>1, <1>3 DEF Begins, Turns, Running, Free
<1>5. Good(pending'[worker], call'[worker])
  <2>1. ASSUME NEW c, Whole(c), c.entry = NoEntry, c.task = "none",
               Resume(worker, c, pending[worker])
        PROVE  Good(pending'[worker], call'[worker])
    BY <1>1, <1>2, <2>1, ResumeGood
  <2>2. ASSUME NEW c, c.entry = NoEntry, Go(worker, c)
        PROVE  Good(pending'[worker], call'[worker])
    <3>1. call'[worker] = c /\ pending'[worker] = pending[worker]
      BY <1>1, <2>2 DEF Go, ending, Running
    <3>2. QED
      BY <1>2, <2>2, <3>1 DEF Good, Lone, Raw
  <2>3. ASSUME NEW units \in Contributions, Reserve(worker, units)
        PROVE  Good(pending'[worker], call'[worker])
    BY <1>1, <2>1, <2>3, NewCallWhole DEF Reserve
  <2>4. ASSUME NEW id \in DOMAIN reservations, NEW op \in {"commit", "release"},
               SettleCall(worker, id, op)
        PROVE  Good(pending'[worker], call'[worker])
    BY <1>1, <2>1, <2>4, NewCallWhole DEF SettleCall
  <2>5. CASE Sweep(worker)
    <3> DEFINE c == NewCall("sweep", 0, 0)
    <3>1. Whole(c) /\ c.entry = NoEntry /\ c.op = "sweep"
      BY <1>1, NewCallWhole
    <3>2. Go(worker, Attempt(c, "sweep"))
      BY <2>5 DEF Sweep
    <3> HIDE DEF c
    <3>3. Attempt(c, "sweep").entry = NoEntry
      BY <3>1 DEF Attempt, At, Whole, Fields
    <3>4. QED
      BY <2>2, <3>2, <3>3
  <2>6. ASSUME NEW id \in DOMAIN markers, Collect(worker, id)
        PROVE  Good(pending'[worker], call'[worker])
    <3> DEFINE c == NewCall("collect", 0, 0)
               d == [At(c, "held") EXCEPT !.claim = id, !.mark = MarkOf(id),
                                          !.read = markers[id]]
    <3>1. Whole(c) /\ c.entry = NoEntry
      BY <1>1, NewCallWhole
    <3>2. Go(worker, d)
      BY <2>6 DEF Collect
    <3> HIDE DEF c
    <3>3. d.entry = NoEntry
      BY <3>1 DEF At, Whole, Fields
    <3>4. QED
      BY <2>2, <3>2, <3>3
  <2>7. QED
    BY <2>3, <2>4, <2>5, <2>6
<1>6. QED
  BY <1>3, <1>4, <1>5 DEF Starts

LEMMA StepFollows ==
  ASSUME Working, NEW worker \in Workers, Step(worker)
  PROVE  \/ (\E c, d, q : Begins(worker, c, d, q)) /\ Starts(worker)
         \/ /\ call[worker] # Idle /\ \E d, q, result : Does(worker, call[worker], d, q, result)
            /\ Follows(worker, call[worker])
         \/ Restart(worker)
<1>1. CASE \/ \E units \in Contributions : Reserve(worker, units)
           \/ \E id \in DOMAIN reservations, op \in {"commit", "release"} :
                SettleCall(worker, id, op)
           \/ Sweep(worker)
           \/ \E id \in DOMAIN markers : Collect(worker, id)
  BY <1>1, StartsFollow
<1>2. CASE \/ ReadRecord(worker) \/ Claim(worker) \/ PutRecord(worker)
           \/ MarkerSlot(worker) \/ PutMarker(worker) \/ ReleaseSlot(worker)
           \/ Persist(worker) \/ ReadMark(worker) \/ ReadRoom(worker) \/ ReadCharged(worker)
           \/ CollectRead(worker) \/ CollectMark(worker) \/ CollectDelete(worker)
           \/ CollectRestore(worker) \/ CollectUncount(worker)
  <2>1. Follows(worker, call[worker])
    BY <1>2, ReadRecordFollows, ClaimFollows, PutRecordFollows, MarkerSlotFollows,
       PutMarkerFollows, ReleaseSlotFollows, PersistFollows, ReadMarkFollows,
       ReadRoomFollows, ReadChargedFollows, CollectFollows
  <2>2. call[worker] # Idle
    <3>1. CASE ReadRecord(worker) \/ Claim(worker) \/ PutRecord(worker)
      BY <3>1 DEF ReadRecord, Claim, PutRecord, Idle
    <3>2. CASE MarkerSlot(worker)
      BY <3>2 DEF MarkerSlot, Idle
    <3>3. CASE PutMarker(worker) \/ ReleaseSlot(worker)
      BY <3>3 DEF PutMarker, ReleaseSlot, Idle
    <3>4. CASE Persist(worker)
      BY <3>4 DEF Persist, Idle
    <3>5. CASE ReadMark(worker)
      BY <3>5 DEF ReadMark, Idle
    <3>6. CASE ReadRoom(worker) \/ ReadCharged(worker)
      BY <3>6 DEF ReadRoom, ReadCharged, Idle
    <3>7. CASE CollectRead(worker) \/ CollectMark(worker) \/ CollectDelete(worker)
               \/ CollectRestore(worker) \/ CollectUncount(worker)
      BY <3>7 DEF CollectRead, CollectMark, CollectDelete, CollectRestore, CollectUncount, Idle
    <3>8. QED
      BY <1>2, <3>1, <3>2, <3>3, <3>4, <3>5, <3>6, <3>7
  <2>3. \E d, q, result : Does(worker, call[worker], d, q, result)
    <3>1. Inv
      BY DEF Working
    <3>2. QED
      BY <1>2, <2>2, <3>1, ReadRecordDoes, ClaimDoes, PutRecordDoes, MarkerSlotDoes, PutMarkerDoes,
         ReleaseSlotDoes, PersistDoes, ReadMarkDoes, ReadRoomDoes, ReadChargedDoes, CollectDoes
  <2>4. QED
    BY <2>1, <2>2, <2>3
<1>3. CASE Restart(worker)
  BY <1>3
<1>4. QED
  BY <1>1, <1>2, <1>3 DEF Step

(* The entries of different workers are for different commits.             *)
Separate == \A w, x \in Workers : w # x =>
  \A e \in Carried(pending[w], call[w]), f \in Carried(pending[x], call[x]) : e.id # f.id

(* Every step keeps a worker's entries, but for the commit it answers.     *)
LEMMA MovesCarried ==
  ASSUME NEW worker, NEW c, c # Idle, NEW d, NEW q, NEW ids, NEW result,
         pending[worker] \in Seq(Entries), Moves(worker, c, d, q, ids, result)
  PROVE  \A e \in Carried(q, d) :
           \/ \E f \in Carried(pending[worker], c) :
                e.id = f.id /\ (e.persisted = f.persisted \/ e.persisted)
           \/ c.op = "commit" /\ c.entry = NoEntry /\ e.id = c.id
<1>1. CASE Keeps(worker, c, d, q, result)
  BY <1>1 DEF Keeps
<1>2. CASE Answers(worker, c, d, q, result)
  BY <1>2 DEF Answers, Carried
<1>3. CASE Defers(worker, c, d, q, result)
  <2>1. PICK e \in Entries : e.id = c.id /\ (q = Append(pending[worker], e) \/ q = pending[worker])
    BY <1>3 DEF Defers
  <2>2. Elements(q) \subseteq Elements(pending[worker]) \cup {e}
    <3>1. Elements(Append(pending[worker], e)) = Elements(pending[worker]) \cup {e}
      BY ElementsAppend
    <3>2. QED
      BY <2>1, <3>1
  <2>3. Carried(q, d) = Elements(q) /\ c.op = "commit" /\ c.entry = NoEntry
    BY <1>3 DEF Defers, Carried
  <2>4. QED
    BY <2>1, <2>2, <2>3 DEF Carried
<1>4. CASE Persists(worker, c, d, q, result)
  <2>1. Carried(q, d) = Elements(pending[worker]) \cup {d.entry} /\ d.entry.id = c.entry.id
        /\ d.entry.persisted /\ c.entry \in Carried(pending[worker], c)
        /\ Elements(pending[worker]) \subseteq Carried(pending[worker], c)
    BY <1>4, EntryFacts DEF Persists, Carried
  <2>2. QED
    BY <2>1
<1>5. QED
  BY <1>1, <1>2, <1>3, <1>4 DEF Moves

LEMMA DoesSeparate ==
  ASSUME Inv, Separate, NEW worker \in Workers, NEW c, c = call[worker], c # Idle,
         NEW d, NEW q, NEW result, Does(worker, c, d, q, result)
  PROVE  Separate'
<1>1. /\ Moves(worker, c, d, q, Ids, result) /\ pending[worker] \in Seq(Entries)
      /\ Turns(worker, d, q) /\ DOMAIN call = Workers /\ DOMAIN pending = Workers
  BY DEF Does, Steps, Moves, Inv, Typed
<1>2. \A e \in Carried(q, d) : \/ \E f \in Carried(pending[worker], c) : e.id = f.id
                               \/ c.op = "commit" /\ e.id = c.id
  BY <1>1, MovesCarried
<1>3. c.op = "commit" => c.id \notin DOMAIN answers
  BY CallFacts DEF Bound
<1>4. \A x \in Workers : \A f \in Carried(pending[x], call[x]) : f.id \in DOMAIN answers
  BY DEF Inv, Queues
<1>5. \A x \in Workers \ {worker} :
        \A e \in Carried(q, d), f \in Carried(pending[x], call[x]) : e.id # f.id
  BY <1>2, <1>3, <1>4 DEF Separate
<1>6. /\ call'[worker] = d /\ pending'[worker] = q
      /\ \A x \in Workers \ {worker} : call'[x] = call[x] /\ pending'[x] = pending[x]
  BY <1>1 DEF Turns
<1>7. QED
  BY <1>5, <1>6 DEF Separate

(* Entries that are a worker's before and after, or gone, stay apart.      *)
LEMMA FewerSeparate ==
  ASSUME Separate,
         \A w \in Workers : Carried(pending'[w], call'[w]) \subseteq Carried(pending[w], call[w])
  PROVE  Separate'
BY DEF Separate

(* Whether a commit may still be written by the worker that has it, and    *)
(* that nobody will any more.                                              *)
Open(id) == \E w \in Workers :
  \/ call[w] # Idle /\ call[w].op = "commit" /\ call[w].id = id
  \/ \E e \in Carried(pending[w], call[w]) : e.id = id /\ ~e.persisted

Closed(id) == id \in settled /\ ~Open(id)

LEMMA DoesClosed ==
  ASSUME Inv, NEW worker \in Workers, NEW c, c = call[worker], c # Idle,
         NEW d, NEW q, NEW result, Does(worker, c, d, q, result), NEW id, Closed(id)
  PROVE  Closed(id)'
<1>1. /\ Moves(worker, c, d, q, Ids, result) /\ pending[worker] \in Seq(Entries)
      /\ Turns(worker, d, q) /\ DOMAIN call = Workers /\ DOMAIN pending = Workers
      /\ Goes(c, d, Ids) /\ settled' = settled
  BY DEF Does, Steps, Moves, Inv, Typed
<1>2. /\ call'[worker] = d /\ pending'[worker] = q
      /\ \A x \in Workers \ {worker} : call'[x] = call[x] /\ pending'[x] = pending[x]
  BY <1>1 DEF Turns
<1>3. id \in settled /\ ~Open(id)
  BY DEF Closed
<1>4. ~(c.op = "commit" /\ c.id = id) /\ ~(d # Idle /\ d.op = "commit" /\ d.id = id)
  BY <1>1, <1>3 DEF Open, Goes, SameCall
<1>5. \A e \in Carried(q, d) : e.id = id => e.persisted
  <2>1. \A f \in Carried(pending[worker], c) : f.id = id => f.persisted
    BY <1>3 DEF Open
  <2>2. QED
    BY <1>1, <1>4, <2>1, MovesCarried
<1>6. ~Open(id)'
  BY <1>2, <1>3, <1>4, <1>5 DEF Open
<1>7. QED
  BY <1>1, <1>3, <1>6 DEF Closed

LEMMA BeginsFewer ==
  ASSUME Inv, NEW worker \in Workers, NEW c, NEW d, NEW q, Begins(worker, c, d, q)
  PROVE  /\ \A w \in Workers : Carried(pending'[w], call'[w]) \subseteq Carried(pending[w], call[w])
         /\ \A id : Closed(id) => Closed(id)'
<1>1. /\ Turns(worker, d, q) /\ DOMAIN call = Workers /\ DOMAIN pending = Workers
      /\ Carried(q, d) = Elements(pending[worker]) /\ Goes(c, d, Ids')
      /\ settled \subseteq settled' /\ (c.op = "commit" => c.id \notin settled)
  BY DEF Begins, Inv, Typed
<1>2. /\ call'[worker] = d /\ pending'[worker] = q
      /\ \A x \in Workers \ {worker} : call'[x] = call[x] /\ pending'[x] = pending[x]
  BY <1>1 DEF Turns
<1>3. \A w \in Workers : Carried(pending'[w], call'[w]) \subseteq Carried(pending[w], call[w])
  <2>1. Carried(q, d) \subseteq Carried(pending[worker], call[worker])
    BY <1>1 DEF Carried
  <2>2. QED
    BY <1>2, <2>1
<1>4. ASSUME NEW id, Closed(id) PROVE Closed(id)'
  <2>1. ~(d # Idle /\ d.op = "commit" /\ d.id = id)
    BY <1>1, <1>4 DEF Closed, Goes, SameCall
  <2>2. ~Open(id)'
    BY <1>2, <1>3, <1>4, <2>1 DEF Open, Closed
  <2>3. QED
    BY <1>1, <1>4, <2>2 DEF Closed
<1>5. QED
  BY <1>3, <1>4

LEMMA RestartFewer ==
  ASSUME Inv, NEW worker \in Workers, Restart(worker)
  PROVE  /\ \A w \in Workers : Carried(pending'[w], call'[w]) \subseteq Carried(pending[w], call[w])
         /\ \A id : Closed(id) => Closed(id)'
<1>1. /\ call'[worker] = Idle /\ pending'[worker] = <<>> /\ settled' = settled
      /\ \A x \in Workers \ {worker} : call'[x] = call[x] /\ pending'[x] = pending[x]
  BY DEF Restart, Inv, Typed
<1>2. Carried(pending'[worker], call'[worker]) = {}
  BY <1>1, ElementsNone DEF Carried
<1>3. \A w \in Workers : Carried(pending'[w], call'[w]) \subseteq Carried(pending[w], call[w])
  BY <1>1, <1>2
<1>4. \A id : Closed(id) => Closed(id)'
  BY <1>1, <1>3 DEF Closed, Open
<1>5. QED
  BY <1>3, <1>4

(* A commit its worker does not have to write any more is closed.          *)
LEMMA OverClosed ==
  ASSUME Inv, Separate, NEW worker \in Workers, NEW c, c = call[worker], c # Idle,
         NEW d, NEW q, NEW result, Does(worker, c, d, q, result), Committing(c), Over(worker, c)
  PROVE  Closed(Subject(c))'
<1> DEFINE id == Subject(c)
<1>1. /\ Turns(worker, d, q) /\ DOMAIN call = Workers /\ DOMAIN pending = Workers
      /\ settled' = settled
  BY DEF Does, Steps, Moves, Inv, Typed
<1>2. \A x \in Workers \ {worker} : call'[x] = call[x] /\ pending'[x] = pending[x]
  BY <1>1 DEF Turns
<1>3. /\ id \in settled /\ Bound(c)
      /\ c.entry # NoEntry => c.entry.id \in DOMAIN answers
  BY CallFacts
<1>4. \/ c.entry = NoEntry /\ c.op = "commit" /\ id = c.id /\ id \notin DOMAIN answers
      \/ c.entry # NoEntry /\ id = c.entry.id /\ id \in DOMAIN answers
  BY <1>3 DEF Committing, Subject, Bound
<1> HIDE DEF id
<1>5. ASSUME NEW x \in Workers \ {worker}
      PROVE  /\ ~(call[x] # Idle /\ call[x].op = "commit" /\ call[x].id = id)
             /\ \A e \in Carried(pending[x], call[x]) : e.id # id
  <2>1. \A e \in Carried(pending[x], call[x]) : e.id \in DOMAIN answers
    BY DEF Inv, Queues
  <2>2. call[x] # Idle /\ call[x].op = "commit" => call[x].id \notin DOMAIN answers
    BY CallFacts DEF Bound
  <2>3. CASE c.entry = NoEntry /\ c.op = "commit" /\ id = c.id /\ id \notin DOMAIN answers
    BY <2>1, <2>3 DEF Inv, Apart, Owning
  <2>4. CASE c.entry # NoEntry /\ id = c.entry.id /\ id \in DOMAIN answers
    <3>1. c.entry \in Carried(pending[worker], call[worker])
      BY <2>4 DEF Carried
    <3>2. QED
      BY <2>2, <2>4, <3>1 DEF Separate
  <2>5. QED
    BY <1>4, <2>3, <2>4
<1>6. /\ ~(call'[worker] # Idle /\ call'[worker].op = "commit" /\ call'[worker].id = id)
      /\ \A e \in Carried(pending'[worker], call'[worker]) : e.id = id => e.persisted
  BY DEF Over, id
<1>7. ~Open(id)'
  BY <1>2, <1>5, <1>6 DEF Open
<1>8. QED
  BY <1>1, <1>3, <1>7 DEF Closed, id

-----------------------------------------------------------------------------
(* In release mode, until a failed write has landed: what was charged, what*)
(* is marked to be, and what a touch owes, nobody else will charge.        *)
ChargedClosed == \A id \in 1 .. MaxId : charges[id] <= 1 /\ (charges[id] # 0 => Closed(id))

MarkedClosed == \A id \in DOMAIN markers : markers[id].mark = "commit" => Closed(id)

KnownClosed(c) ==
  /\ c.op = "collect" /\ c.mark = "commit" => Closed(c.claim)
  /\ Touching(c) => \A id \in c.owed : Closed(id)

Once == Unlanded =>
  ChargedClosed /\ MarkedClosed /\ \A w \in Workers : call[w] # Idle => KnownClosed(call[w])

(* What a write charges: reservations on the record, which were not; or one*)
(* that its call alone has to.                                             *)
LEMMA ChargesOf ==
  ASSUME Timeout = "release", Inv, NEW worker \in Workers, NEW c, c = call[worker], Landed(c)
  PROVE  \A id \in 1 .. MaxId :
           \/ charges'[id] = charges[id]
           \/ /\ charges'[id] = charges[id] + 1
              /\ \/ id \in c.owed /\ charges[id] = 0
                 \/ /\ id = Subject(c) /\ Settles(c) /\ Committing(c)
                    /\ charges[id] = 0 \/ c.task = "charge"
<1>1. /\ TaskOK(c) /\ Ready(c, Ids) /\ c.read = record /\ Land(c) /\ Whole(c)
      /\ Recorded(record, Ids, reservations, charges, late) /\ charges \in [1 .. MaxId -> Nat]
  BY LandedReady
<1>2. \A id : Holds(Base(record), id) => charges[id] = 0
  BY <1>1 DEF Recorded
<1>3. /\ Charged(c) = (c.owed \cap DOMAIN Base(record).active) \cup Paid(c)
                      \cup (c.owed \cap DOMAIN Base(record).reclaimed)
  BY <1>1, ChargedSets
<1>4. /\ Refunded(c) = {}
      /\ \A id \in Paid(c) : /\ id = Subject(c) /\ Settles(c) /\ Committing(c)
                             /\ Holds(Base(record), id) \/ c.task = "charge"
  <2>1. CASE Settles(c)
    <3>1. /\ Applied(c) # "refunded"
          /\ Applied(c) \in {"committed", "late-committed"} =>
               Committing(c) /\ Holds(Base(record), Subject(c))
      BY <1>1, <2>1, AppliedFacts DEF Holds
    <3>2. c.task = "charge" => Committing(c)
      BY <1>1 DEF TaskOK, Suits
    <3>3. QED
      BY <2>1, <3>1, <3>2 DEF Refunded, Paid, SubjectIf
  <2>2. CASE ~Settles(c)
    BY <2>2 DEF Refunded, Paid, SubjectIf, Settles
  <2>3. QED
    BY <2>1, <2>2
<1>5. charges' = [id \in DOMAIN charges |->
                    charges[id] + (IF id \in Charged(c) THEN 1 ELSE 0)
                                - (IF id \in Refunded(c) THEN 1 ELSE 0)]
  BY <1>1 DEF Land, Refunded
<1>6. \A id \in 1 .. MaxId :
        charges'[id] = charges[id] + (IF id \in Charged(c) THEN 1 ELSE 0)
  BY <1>1, <1>4, <1>5
<1>7. \A id \in Charged(c) : \/ id \in c.owed /\ charges[id] = 0
                             \/ /\ id = Subject(c) /\ Settles(c) /\ Committing(c)
                                /\ charges[id] = 0 \/ c.task = "charge"
  BY <1>2, <1>3, <1>4 DEF Holds
<1>8. QED
  BY <1>1, <1>6, <1>7

(* What a call puts to the record to be charged is still open.             *)
LEMMA ChargeOpen ==
  ASSUME NEW worker \in Workers, NEW c, c = call[worker], c # Idle, c.task = "charge",
         Committing(c), Raw(c)
  PROVE  Open(Subject(c))
<1>1. CASE c.entry = NoEntry
  BY <1>1 DEF Committing, Subject, Open
<1>2. CASE c.entry # NoEntry
  <2>1. ~c.entry.persisted /\ c.entry \in Carried(pending[worker], call[worker])
    BY <1>2 DEF Raw, Unmarked, Carried
  <2>2. QED
    BY <1>2, <2>1 DEF Subject, Open
<1>3. QED
  BY <1>1, <1>2

Safe == Working /\ Separate /\ Once

LEMMA DoesChargedClosed ==
  ASSUME Timeout = "release", Safe, NEW worker \in Workers, NEW c, c = call[worker], c # Idle,
         NEW d, NEW q, NEW result, Does(worker, c, d, q, result), Follows(worker, c), Unlanded'
  PROVE  ChargedClosed'
<1>1. /\ Inv /\ Separate /\ Unlanded /\ ChargedClosed /\ Raw(c)
      /\ Touching(c) => \A id \in c.owed : Closed(id)
  BY DEF Safe, Once, KnownClosed, Working, Good, Follows
<1>2. \A id : Closed(id) => Closed(id)'
  BY <1>1, DoesClosed
<1>3. Landed(c) \/ charges' = charges
  BY DEF Does, stored
<1>4. CASE charges' = charges
  BY <1>1, <1>2, <1>4 DEF ChargedClosed
<1>5. CASE Landed(c)
  <2>1. Touching(c) /\ charges \in [1 .. MaxId -> Nat]
    BY <1>1, <1>5, LandedReady
  <2> SUFFICES ASSUME NEW id \in 1 .. MaxId
               PROVE  charges'[id] <= 1 /\ (charges'[id] # 0 => Closed(id)')
    BY DEF ChargedClosed
  <2>2. CASE charges'[id] = charges[id]
    BY <1>1, <1>2, <2>2 DEF ChargedClosed
  <2>3. CASE charges'[id] = charges[id] + 1 /\ id \in c.owed /\ charges[id] = 0
    BY <1>1, <1>2, <2>1, <2>3
  <2>4. CASE /\ charges'[id] = charges[id] + 1 /\ id = Subject(c) /\ Settles(c) /\ Committing(c)
             /\ charges[id] = 0 \/ c.task = "charge"
    <3>1. charges[id] = 0
      BY <1>1, <2>4, ChargeOpen DEF ChargedClosed, Closed
    <3>2. charges' # charges
      <4>1. charges'[id] # charges[id]
        BY <2>4, <3>1
      <4>2. QED
        BY <4>1
    <3>3. Over(worker, c)
      BY <2>4, <3>2 DEF Follows
    <3>4. Closed(id)'
      BY <1>1, <2>4, <3>3, OverClosed
    <3>5. QED
      BY <2>4, <3>1, <3>4
  <2>5. QED
    BY <1>1, <1>5, <2>2, <2>3, <2>4, ChargesOf
<1>6. QED
  BY <1>3, <1>4, <1>5

LEMMA DoesMarkedClosed ==
  ASSUME Timeout = "release", Safe, NEW worker \in Workers, NEW c, c = call[worker], c # Idle,
         NEW d, NEW q, NEW result, Does(worker, c, d, q, result), Follows(worker, c), Unlanded'
  PROVE  MarkedClosed'
<1>1. /\ Inv /\ Separate /\ Unlanded /\ MarkedClosed
      /\ c.op = "collect" /\ c.mark = "commit" => Closed(c.claim)
  BY DEF Safe, Once, KnownClosed, Working, Follows
<1>2. \A id : Closed(id) => Closed(id)'
  BY <1>1, DoesClosed
<1>3. Remarked(c)
  BY DEF Does
<1>4. CASE markers' = markers
  BY <1>1, <1>2, <1>4 DEF MarkedClosed
<1>5. CASE markers' # markers /\ c.at = "mark" /\ markers' = Stamped(c)
  <2> SUFFICES ASSUME NEW id \in DOMAIN markers', markers'[id].mark = "commit"
               PROVE  Closed(id)'
    BY DEF MarkedClosed
  <2>1. /\ DOMAIN markers' = DOMAIN markers \cup {MarkId(c)}
        /\ markers'[id].mark = IF id = MarkId(c) THEN Stamp(c) ELSE markers[id].mark
    BY <1>5 DEF Stamped, Put
  <2>2. CASE id # MarkId(c)
    BY <1>1, <1>2, <2>1, <2>2 DEF MarkedClosed
  <2>3. CASE id = MarkId(c)
    <3>1. c.claim = 0 /\ id = Subject(c)
      BY <2>1, <2>3 DEF Stamp, MarkId, Persisting
    <3>2. Over(worker, c)
      BY <1>5, <3>1 DEF Follows
    <3>3. Committing(c)
      BY <1>1, <1>5, <3>1, CallFacts DEF Shaped, Marking
    <3>4. QED
      BY <1>1, <3>1, <3>2, <3>3, OverClosed
  <2>4. QED
    BY <2>2, <2>3
<1>6. CASE Collecting(c)
  <2> SUFFICES ASSUME NEW id \in DOMAIN markers', markers'[id].mark = "commit"
               PROVE  Closed(id)'
    BY DEF MarkedClosed
  <2>1. c.op = "collect" /\ c.read \in [mark : Marks, expires_at : Nat]
    BY <1>1, <1>6, CallFacts DEF Shaped, Taken
  <2>2. ASSUME NEW mark, markers' = MarkAs(c, mark), mark # "commit" \/ mark = c.mark
        PROVE  Closed(id)'
    <3>1. markers' = Put(markers, c.claim, [c.read EXCEPT !.mark = mark])
      BY <2>2 DEF MarkAs
    <3>2. id = c.claim => mark = "commit"
      BY <2>1, <3>1 DEF Put
    <3>3. id # c.claim => id \in DOMAIN markers /\ markers[id].mark = "commit"
      BY <3>1 DEF Put
    <3>4. QED
      BY <1>1, <1>2, <2>1, <2>2, <3>2, <3>3 DEF MarkedClosed
  <2>3. CASE markers' = Restrict(markers, DOMAIN markers \ {c.claim})
    <3>1. id \in DOMAIN markers /\ markers[id].mark = "commit"
      BY <2>3 DEF Restrict
    <3>2. QED
      BY <1>1, <1>2, <3>1 DEF MarkedClosed
  <2>4. CASE markers' = MarkAs(c, "collecting")
    BY <2>2, <2>4
  <2>5. CASE markers' = MarkAs(c, c.mark)
    BY <2>2, <2>5
  <2>6. CASE markers' = markers
    BY <1>4, <2>6 DEF MarkedClosed
  <2>7. CASE c.at = "mark"
    BY <1>6, <2>7 DEF Collecting
  <2>8. QED
    BY <1>3, <2>3, <2>4, <2>5, <2>6, <2>7 DEF Remarked
<1>7. QED
  BY <1>3, <1>4, <1>5, <1>6 DEF Remarked

LEMMA DoesKnownClosed ==
  ASSUME Safe, NEW worker \in Workers, NEW c, c = call[worker], c # Idle,
         NEW d, NEW q, NEW result, Does(worker, c, d, q, result), Follows(worker, c), Unlanded',
         NEW w \in Workers, call'[w] # Idle
  PROVE  KnownClosed(call[w])'
<1>1. /\ Inv /\ Unlanded /\ MarkedClosed /\ KnownClosed(c)
      /\ call[w] # Idle => KnownClosed(call[w])
  BY DEF Safe, Once, Working, Follows
<1>2. \A id : Closed(id) => Closed(id)'
  BY <1>1, DoesClosed
<1>3. /\ Turns(worker, d, q) /\ DOMAIN call = Workers /\ (d # Idle => Learns(c, d))
  BY <1>1 DEF Does, Steps, Moves, Inv, Typed
<1>4. CASE w # worker
  <2>1. call'[w] = call[w]
    BY <1>3, <1>4 DEF Turns
  <2>2. QED
    BY <1>1, <1>2, <2>1 DEF KnownClosed
<1>5. CASE w = worker
  <2>1. call'[w] = d /\ Owes(c, d) /\ Learns(c, d)
    BY <1>3, <1>5 DEF Turns, Follows, Proceeds
  <2>2. d.op = "collect" /\ d.mark = "commit" => Closed(d.claim)
    BY <1>1, <2>1 DEF Learns, Collects, KnownClosed
  <2>3. ASSUME Touching(d), NEW id \in d.owed PROVE Closed(id)
    <3>1. MarkOf(id) = "commit" \/ (Touching(c) /\ id \in c.owed)
      BY <2>1, <2>3 DEF Owes
    <3>2. CASE MarkOf(id) = "commit"
      BY <1>1, <3>2 DEF MarkOf, NoMark, MarkedClosed
    <3>3. CASE Touching(c) /\ id \in c.owed
      BY <1>1, <3>3 DEF KnownClosed
    <3>4. QED
      BY <3>1, <3>2, <3>3
  <2>4. QED
    BY <1>2, <2>1, <2>2, <2>3 DEF KnownClosed
<1>6. QED
  BY <1>4, <1>5

(* What is not about the call that moves is kept by every other step.      *)
LEMMA QuietSafe ==
  ASSUME Safe, Inv', Tally', seen'["landed"] = seen["landed"], UNCHANGED <<charges, markers>>,
         \A w \in Workers : Carried(pending'[w], call'[w]) \subseteq Carried(pending[w], call[w]),
         \A w \in Workers : Good(pending'[w], call'[w]),
         \A id : Closed(id) => Closed(id)',
         \A w \in Workers : call'[w] # Idle =>
           \/ call'[w] = call[w]
           \/ /\ ~Touching(call'[w])
              /\ call'[w].op = "collect" => /\ call'[w].claim \in DOMAIN markers
                                            /\ call'[w].mark = markers[call'[w].claim].mark
  PROVE  Safe'
<1>1. Separate'
  BY FewerSeparate DEF Safe
<1>2. Working'
  BY DEF Working
<1>3. Once'
  <2> SUFFICES ASSUME Unlanded
               PROVE  /\ ChargedClosed' /\ MarkedClosed'
                      /\ \A w \in Workers : call'[w] # Idle => KnownClosed(call[w])'
    BY DEF Once, Unlanded
  <2>1. ChargedClosed /\ MarkedClosed /\ \A w \in Workers : call[w] # Idle => KnownClosed(call[w])
    BY DEF Safe, Once
  <2>2. ChargedClosed' /\ MarkedClosed'
    BY <2>1 DEF ChargedClosed, MarkedClosed
  <2>3. ASSUME NEW w \in Workers, call'[w] # Idle PROVE KnownClosed(call[w])'
    BY <2>1, <2>3 DEF KnownClosed, MarkedClosed
  <2>4. QED
    BY <2>2, <2>3
<1>4. QED
  BY <1>1, <1>2, <1>3 DEF Safe

LEMMA DoesSafe ==
  ASSUME Timeout = "release", Safe, Inv', NEW worker \in Workers, NEW c, c = call[worker], c # Idle,
         NEW d, NEW q, NEW result, Does(worker, c, d, q, result), Follows(worker, c)
  PROVE  Safe'
<1>1. Separate'
  BY DoesSeparate DEF Safe, Working
<1>2. Working'
  <2>1. Turns(worker, d, q) /\ DOMAIN call = Workers /\ DOMAIN pending = Workers
    BY DEF Does, Steps, Moves, Safe, Working, Inv, Typed
  <2>2. ASSUME NEW w \in Workers PROVE Good(pending'[w], call'[w])
    BY <2>1 DEF Turns, Follows, Proceeds, Safe, Working
  <2>3. QED
    BY <2>2 DEF Working, Follows
<1>3. ASSUME Unlanded'
      PROVE  /\ ChargedClosed' /\ MarkedClosed'
             /\ \A w \in Workers : call'[w] # Idle => KnownClosed(call[w])'
  <2>1. ChargedClosed' /\ MarkedClosed'
    BY <1>3, DoesChargedClosed, DoesMarkedClosed
  <2>2. ASSUME NEW w \in Workers, call'[w] # Idle PROVE KnownClosed(call[w])'
    BY <1>3, <2>2, DoesKnownClosed
  <2>3. QED
    BY <2>1, <2>2
<1>4. QED
  BY <1>1, <1>2, <1>3 DEF Safe, Once

LEMMA BeginsSafe ==
  ASSUME Safe, Inv', NEW worker \in Workers, NEW c, NEW d, NEW q, Begins(worker, c, d, q),
         Starts(worker)
  PROVE  Safe'
<1>1. /\ Inv /\ Tally /\ \A w \in Workers : Good(pending[w], call[w])
  BY DEF Safe, Working
<1>2. /\ Turns(worker, d, q) /\ DOMAIN call = Workers /\ DOMAIN pending = Workers
      /\ UNCHANGED <<charges, markers>> /\ Goes(c, d, Ids')
      /\ d # Idle => ~Touching(d)
      /\ c.op = "collect" => d.claim \in DOMAIN markers /\ d.mark = markers[d.claim].mark
  BY <1>1 DEF Begins, shared, Inv, Typed, Free
<1>3. Tally' /\ seen'["landed"] = seen["landed"]
  BY <1>1 DEF Starts, Tally
<1>4. \A w \in Workers : Good(pending'[w], call'[w])
  BY <1>1, <1>2 DEF Turns, Starts
<1>5. /\ \A w \in Workers : Carried(pending'[w], call'[w]) \subseteq Carried(pending[w], call[w])
      /\ \A id : Closed(id) => Closed(id)'
  BY <1>1, BeginsFewer
<1>6. \A w \in Workers : call'[w] # Idle =>
        \/ call'[w] = call[w]
        \/ /\ ~Touching(call'[w])
           /\ call'[w].op = "collect" => /\ call'[w].claim \in DOMAIN markers
                                         /\ call'[w].mark = markers[call'[w].claim].mark
  BY <1>2 DEF Turns, Goes, SameCall
<1>7. QED
  BY <1>2, <1>3, <1>4, <1>5, <1>6, QuietSafe

LEMMA RestartSafe ==
  ASSUME Safe, Inv', NEW worker \in Workers, Restart(worker)
  PROVE  Safe'
<1>1. /\ Inv /\ Tally /\ \A w \in Workers : Good(pending[w], call[w])
  BY DEF Safe, Working
<1>2. /\ call' = [call EXCEPT ![worker] = Idle] /\ pending' = [pending EXCEPT ![worker] = <<>>]
      /\ DOMAIN call = Workers /\ DOMAIN pending = Workers /\ UNCHANGED <<charges, markers>>
      /\ seen' = [seen EXCEPT !["restart"] = seen["restart"] + 1]
  BY <1>1 DEF Restart, shared, Inv, Typed
<1>3. Tally' /\ seen'["landed"] = seen["landed"]
  <2>1. "landed" \in FaultKinds \cup {"restart"} /\ "landed" # "restart"
    BY DEF FaultKinds
  <2>2. seen["restart"] \in Nat
    BY <1>1 DEF Tally
  <2>3. QED
    BY <1>1, <1>2, <2>1, <2>2 DEF Tally
<1>4. Good(<<>>, Idle)
  BY DistinctNone DEF Good, Lone, Raw
<1>5. \A w \in Workers : Good(pending'[w], call'[w])
  BY <1>1, <1>2, <1>4
<1>6. /\ \A w \in Workers : Carried(pending'[w], call'[w]) \subseteq Carried(pending[w], call[w])
      /\ \A id : Closed(id) => Closed(id)'
  BY <1>1, RestartFewer
<1>7. \A w \in Workers : call'[w] # Idle => call'[w] = call[w]
  BY <1>2
<1>8. QED
  BY <1>2, <1>3, <1>5, <1>6, <1>7, QuietSafe

LEMMA StillSafe ==
  ASSUME Safe, Inv', UNCHANGED <<pending, call, seen, charges, markers, settled>>
  PROVE  Safe'
<1>1. Tally' /\ seen'["landed"] = seen["landed"] /\ \A w \in Workers : Good(pending'[w], call'[w])
  BY DEF Safe, Working, Tally
<1>2. \A id : Closed(id) => Closed(id)'
  BY DEF Closed, Open
<1>3. QED
  BY <1>1, <1>2, QuietSafe

LEMMA SafeNext == Timeout = "release" /\ Safe /\ [Next]_vars => Safe'
<1> SUFFICES ASSUME Timeout = "release", Safe, [Next]_vars PROVE Safe'
  OBVIOUS
<1>1. Inv' /\ Working
  BY NextInv DEF Safe, Working
<1>2. ASSUME NEW worker \in Workers, Step(worker) PROVE Safe'
  <2>1. CASE (\E c, d, q : Begins(worker, c, d, q)) /\ Starts(worker)
    BY <1>1, <2>1, BeginsSafe
  <2>2. CASE /\ call[worker] # Idle /\ \E d, q, result : Does(worker, call[worker], d, q, result)
             /\ Follows(worker, call[worker])
    BY <1>1, <2>2, DoesSafe
  <2>3. CASE Restart(worker)
    BY <1>1, <2>3, RestartSafe
  <2>4. QED
    BY <1>1, <1>2, <2>1, <2>2, <2>3, StepFollows
<1>3. CASE Tick
  BY <1>1, <1>3, StillSafe DEF Tick, shared, history
<1>4. CASE UNCHANGED vars
  BY <1>1, <1>4, StillSafe DEF vars
<1>5. QED
  BY <1>2, <1>3, <1>4 DEF Next

LEMMA InitSafe == Init => Safe
<1> SUFFICES ASSUME Init PROVE Safe
  OBVIOUS
<1>1. /\ \A w \in Workers : call[w] = Idle /\ pending[w] = <<>>
      /\ DOMAIN markers = {} /\ charges = [id \in 1 .. MaxId |-> 0]
      /\ seen = [kind \in FaultKinds \cup {"restart"} |-> 0]
  BY DEF Init
<1>2. Good(<<>>, Idle) /\ Carried(<<>>, Idle) = {}
  BY DistinctNone, ElementsNone DEF Good, Lone, Raw, Carried
<1>3. Working
  BY <1>1, <1>2, InitInv DEF Working, Tally
<1>4. Separate
  BY <1>1, <1>2 DEF Separate
<1>5. Once
  BY <1>1 DEF Once, ChargedClosed, MarkedClosed
<1>6. QED
  BY <1>3, <1>4, <1>5 DEF Safe

(* "The queue copy then finds the reservation gone and adds nothing"       *)
(* (node_ledger.rs, head, lines 73-74): with timeout "release" no commit   *)
(* is charged twice by its settlement, its marker and its queued copy,     *)
(* however the workers interleave, and whatever reads fail or find nothing *)
(* that is there.  Of the faults, only a write that failed but landed      *)
(* breaks it.                                                              *)
THEOREM ChargedAtMostOnce == Timeout = "release" => (Spec => []ChargedOnce)
<1> SUFFICES ASSUME Timeout = "release" PROVE Spec => []ChargedOnce
  OBVIOUS
<1>1. Safe /\ [Next]_vars => Safe'
  BY SafeNext
<1>2. Safe => ChargedOnce
  BY DEF Safe, Working, Inv, Typed, Once, Unlanded, ChargedClosed, ChargedOnce
<1>3. QED
  BY <1>1, <1>2, InitSafe, PTL DEF Spec

=============================================================================

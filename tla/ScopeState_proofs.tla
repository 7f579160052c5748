-------------------------- MODULE ScopeState_proofs --------------------------
(***************************************************************************)
(* What each operator of ScopeState preserves, for any scope state: the    *)
(* lemmas the theorems about the ledgers rest on.                          *)
(***************************************************************************)
EXTENDS ScopeState, Sums_proofs

(* The units of S can be summed: S is finite and its entries have units.   *)
Summable(held, S) == IsFiniteSet(S) /\ \A id \in S : held[id].contribution \in Nat

(* What an entry adds to a sum of units.                                   *)
UnitsOf(held, S) == [id \in S |-> held[id].contribution]

(* Units over a part of S is the sum of the same values.                   *)
LEMMA UnitsAreSums ==
  ASSUME NEW S, NEW held, Summable(held, S), NEW R \in SUBSET S
  PROVE  /\ Addends(UnitsOf(held, S), R)
         /\ Units(held, R) = SumFunctionOnSet(UnitsOf(held, S), R)
<1>1. Addends(UnitsOf(held, S), R) /\ Addends(UnitsOf(held, R), R)
  BY FS_Subset DEF Summable, Addends, UnitsOf
<1>2. SumFunctionOnSet(UnitsOf(held, S), R) = SumFunctionOnSet(UnitsOf(held, R), R)
  BY <1>1, SumSame DEF UnitsOf
<1>3. Units(held, R) = SumFunctionOnSet(UnitsOf(held, R), R)
  BY DEF Units, SumFunction, UnitsOf
<1>4. QED
  BY <1>1, <1>2, <1>3

(* No entries have no units, and units are a natural number.               *)
LEMMA UnitsEmpty == ASSUME NEW held PROVE Units(held, {}) = 0
<1>1. Summable(held, {})
  BY FS_EmptySet DEF Summable
<1>2. QED
  BY <1>1, UnitsAreSums, SumEmpty

LEMMA UnitsNat ==
  ASSUME NEW S, NEW held, Summable(held, S)
  PROVE  Units(held, S) \in Nat
BY UnitsAreSums, SumNat

(* Any entry can be taken out of the sum, or added to it.                  *)
LEMMA UnitsRemove ==
  ASSUME NEW S, NEW held, Summable(held, S), NEW x \in S
  PROVE  Units(held, S) = held[x].contribution + Units(held, S \ {x})
<1>1. /\ Addends(UnitsOf(held, S), S)
      /\ Units(held, S) = SumFunctionOnSet(UnitsOf(held, S), S)
      /\ Units(held, S \ {x}) = SumFunctionOnSet(UnitsOf(held, S), S \ {x})
  BY UnitsAreSums
<1>2. UnitsOf(held, S)[x] = held[x].contribution
  BY DEF UnitsOf
<1>3. QED
  BY <1>1, <1>2, SumRemove

LEMMA UnitsAdd ==
  ASSUME NEW S, NEW held, NEW x, x \notin S, Summable(held, S \cup {x})
  PROVE  Units(held, S \cup {x}) = held[x].contribution + Units(held, S)
<1>1. (S \cup {x}) \ {x} = S
  OBVIOUS
<1>2. QED
  BY <1>1, UnitsRemove

(* Only the units of the entries summed matter.                            *)
LEMMA UnitsSame ==
  ASSUME NEW S, NEW held, NEW other, Summable(held, S),
         \A id \in S : other[id].contribution = held[id].contribution
  PROVE  Units(other, S) = Units(held, S)
<1>1. [id \in S |-> other[id].contribution] = [id \in S |-> held[id].contribution]
  OBVIOUS
<1>2. QED
  BY <1>1 DEF Units

(* The units of two disjoint sets of entries add up.                       *)
LEMMA UnitsSplit ==
  ASSUME NEW S, NEW held, Summable(held, S), NEW R \in SUBSET S
  PROVE  Units(held, S) = Units(held, R) + Units(held, S \ R)
<1> DEFINE v == UnitsOf(held, S)
<1>1. S \ R \in SUBSET S /\ S \in SUBSET S
  OBVIOUS
<1>2. /\ Addends(v, S)
      /\ Units(held, S) = SumFunctionOnSet(v, S)
      /\ Units(held, R) = SumFunctionOnSet(v, R)
      /\ Units(held, S \ R) = SumFunctionOnSet(v, S \ R)
  BY <1>1, UnitsAreSums
<1> HIDE DEF v
<1>3. QED
  BY <1>2, SumSplit

(* Entries of at most m units add up to at most m for each.                *)
LEMMA UnitsBound ==
  ASSUME NEW S, NEW held, Summable(held, S), NEW m \in Nat,
         \A id \in S : held[id].contribution <= m
  PROVE  Units(held, S) <= Cardinality(S) * m
<1> DEFINE v == UnitsOf(held, S)
<1>1. /\ Addends(v, S)
      /\ Units(held, S) = SumFunctionOnSet(v, S)
  BY UnitsAreSums
<1>2. \A id \in S : v[id] <= m
  BY DEF UnitsOf
<1> HIDE DEF v
<1>3. QED
  BY <1>1, <1>2, SumBound

-----------------------------------------------------------------------------
(* A scope state whose books are right: its entries are among ids, its     *)
(* reserved exposure is the sum of its active entries, no entry is active  *)
(* and a tombstone, the cap is kept, and a tombstone is charged            *)
(* provisionally exactly when the timeout charges.                         *)
SoundMaps(state, ids) ==
  /\ DOMAIN state.active \subseteq ids
  /\ DOMAIN state.reclaimed \subseteq ids
  /\ state.active \in [DOMAIN state.active -> Held]
  /\ state.reclaimed \in [DOMAIN state.reclaimed -> Held]
  /\ DOMAIN state.active \cap DOMAIN state.reclaimed = {}

Sound(state, ids) ==
  /\ DOMAIN state = {"period", "committed", "reserved", "active", "reclaimed", "indexed_at"}
  /\ state.period \in Nat /\ state.committed \in Nat
  /\ SoundMaps(state, ids)
  /\ state.reserved = Units(state.active, DOMAIN state.active)
  /\ Cardinality(DOMAIN state.active) + Cardinality(DOMAIN state.reclaimed) <= MaxHeld
  /\ \A id \in DOMAIN state.active : state.active[id].provisional_period = NoPeriod
  /\ \A id \in DOMAIN state.reclaimed :
       state.reclaimed[id].provisional_period = NoPeriod <=> Timeout = "release"

(* The entry of a reservation, in flight or as a tombstone.                *)
Entry(state, id) ==
  IF id \in DOMAIN state.active THEN state.active[id] ELSE state.reclaimed[id]

(* after holds no reservation that before did not, at the same units.      *)
Shrinks(after, before) ==
  \A id : Holds(after, id) =>
    /\ Holds(before, id)
    /\ Entry(after, id).contribution = Entry(before, id).contribution

LEMMA SatAddFacts ==
  ASSUME NEW a \in Nat, NEW b \in Nat
  PROVE  /\ SatAdd(a, b) \in Nat
         /\ SatAdd(a, b) <= a + b
         /\ SatAdd(a, b) <= U64Max
         /\ a + b <= U64Max => SatAdd(a, b) = a + b
         /\ a + b > U64Max => SatAdd(a, b) = U64Max
BY WidthAssumption DEF SatAdd

LEMMA SatSubFacts ==
  ASSUME NEW a \in Nat, NEW b \in Nat
  PROVE  /\ SatSub(a, b) \in Nat
         /\ SatSub(a, b) <= a
         /\ b <= a => SatSub(a, b) = a - b
BY DEF SatSub

LEMMA PeriodNat == ASSUME NEW now \in Nat PROVE Period(now) \in Nat
BY WindowAssumption DEF Period

(* The entries of a sound state can be summed, and their sum fits a u64.   *)
LEMMA SoundSums ==
  ASSUME NEW ids, IsFiniteSet(ids), NEW state, Sound(state, ids)
  PROVE  /\ \A S \in SUBSET DOMAIN state.active : Summable(state.active, S)
         /\ IsFiniteSet(DOMAIN state.active) /\ IsFiniteSet(DOMAIN state.reclaimed)
         /\ state.reserved \in Nat
         /\ state.reserved <= Cardinality(DOMAIN state.active) * MaxUnits
         /\ Cardinality(DOMAIN state.active) \in Nat
         /\ Cardinality(DOMAIN state.reclaimed) \in Nat
<1>1. IsFiniteSet(DOMAIN state.active) /\ IsFiniteSet(DOMAIN state.reclaimed)
  BY FS_Subset DEF Sound, SoundMaps
<1>2. \A id \in DOMAIN state.active : state.active[id] \in Held
  BY DEF Sound, SoundMaps
<1>3. \A id \in DOMAIN state.active :
        state.active[id].contribution \in Nat /\ state.active[id].contribution <= MaxUnits
  BY <1>2, WidthAssumption DEF Held
<1>4. \A S \in SUBSET DOMAIN state.active : Summable(state.active, S)
  BY <1>1, <1>3, FS_Subset DEF Summable
<1>5. state.reserved = Units(state.active, DOMAIN state.active)
  BY DEF Sound
<1>6. Summable(state.active, DOMAIN state.active) /\ MaxUnits \in Nat
  BY <1>4, WidthAssumption
<1>7. QED
  BY <1>1, <1>3, <1>4, <1>5, <1>6, UnitsNat, UnitsBound, FS_CardinalityType

(* A new period forgets committed exposure and nothing else.               *)
LEMMA RollSound ==
  ASSUME NEW ids, NEW state, Sound(state, ids), NEW period \in Nat
  PROVE  LET after == Roll(state, period)
         IN  /\ Sound(after, ids)
             /\ Shrinks(after, state)
             /\ after.reserved = state.reserved
             /\ \/ after.committed = state.committed /\ after.period = state.period
                \/ after.committed = 0 /\ after.period > state.period
<1>1. CASE period > state.period
  <2> DEFINE after == [state EXCEPT !.period = period, !.committed = 0]
  <2>1. /\ DOMAIN after = DOMAIN state
        /\ after.period = period /\ after.committed = 0
        /\ after.reserved = state.reserved /\ after.active = state.active
        /\ after.reclaimed = state.reclaimed
    BY DEF Sound
  <2>2. after = Roll(state, period)
    BY <1>1 DEF Roll
  <2> HIDE DEF after
  <2>3. Sound(after, ids) /\ Shrinks(after, state)
    BY <2>1 DEF Sound, SoundMaps, Shrinks, Holds, Entry
  <2>4. QED
    BY <1>1, <2>1, <2>2, <2>3
<1>2. CASE ~(period > state.period)
  BY <1>2 DEF Roll, Shrinks
<1>3. QED
  BY <1>1, <1>2
(* An expired entry becomes a well-formed tombstone of the same units.     *)
LEMMA TombstoneFacts ==
  ASSUME NEW ids, NEW state, Sound(state, ids), NEW id \in DOMAIN state.active
  PROVE  /\ Tombstone(state, id) \in Held
         /\ Tombstone(state, id).contribution = state.active[id].contribution
         /\ Tombstone(state, id).provisional_period = NoPeriod <=> Timeout = "release"
<1>1. state.active[id] \in Held /\ state.active[id].provisional_period = NoPeriod
  BY DEF Sound, SoundMaps
<1>2. state.period \in Nat
  BY DEF Sound
<1>3. QED
  BY <1>1, <1>2, TimeoutAssumption DEF Tombstone, Held, NoPeriod

(* Reclaiming keeps the books right; in commit mode it charges what it     *)
(* takes out of reserved, and in release mode it charges nothing.          *)
LEMMA ReclaimSound ==
  ASSUME NEW ids, IsFiniteSet(ids), NEW state, Sound(state, ids), NEW now \in Nat
  PROVE  LET after == Reclaim(state, now)
         IN  /\ Sound(after, ids)
             /\ Shrinks(after, state)
             /\ after.period = state.period
             /\ after.reserved <= state.reserved
             /\ after.committed + after.reserved <= state.committed + state.reserved
             /\ Timeout = "release" => after.committed = state.committed
<1> DEFINE D == DOMAIN state.active
           R == DOMAIN state.reclaimed
           E == Expired(state, now)
           moved == [id \in R \cup E |->
                       IF id \in E THEN Tombstone(state, id) ELSE state.reclaimed[id]]
           kept  == {id \in DOMAIN moved : now < SatAdd(moved[id].expires_at, Ttl)}
           units == Units(state.active, E)
           active == Restrict(state.active, D \ E)
           reclaimed == Restrict(moved, kept)
           after == Reclaim(state, now)
<1>1. E \in SUBSET D /\ D \subseteq ids /\ R \subseteq ids /\ D \cap R = {}
  BY DEF Expired, Sound, SoundMaps
<1>2. /\ DOMAIN after = DOMAIN state
      /\ after.active = active /\ after.reclaimed = reclaimed
      /\ after.reserved = SatSub(state.reserved, units)
      /\ after.committed = (IF Timeout = "commit" THEN SatAdd(state.committed, units)
                            ELSE state.committed)
      /\ after.period = state.period /\ after.indexed_at = state.indexed_at
  BY DEF Reclaim, Sound
<1>3. /\ DOMAIN active = D \ E /\ \A id \in D \ E : active[id] = state.active[id]
      /\ DOMAIN moved = R \cup E /\ kept \subseteq R \cup E
      /\ DOMAIN reclaimed = kept /\ \A id \in kept : reclaimed[id] = moved[id]
  BY DEF Restrict
<1>4. \A id \in kept :
        /\ reclaimed[id] \in Held
        /\ reclaimed[id].contribution = Entry(state, id).contribution
        /\ reclaimed[id].provisional_period = NoPeriod <=> Timeout = "release"
  <2> TAKE id \in kept
  <2>1. CASE id \in E
    <3>1. reclaimed[id] = Tombstone(state, id) /\ id \in D
      BY <2>1, <1>1, <1>3
    <3>2. QED
      BY <3>1, TombstoneFacts DEF Entry
  <2>2. CASE id \notin E
    <3>1. reclaimed[id] = state.reclaimed[id] /\ id \in R /\ id \notin D
      BY <2>2, <1>1, <1>3
    <3>2. QED
      BY <3>1 DEF Entry, Sound, SoundMaps
  <2>3. QED
    BY <2>1, <2>2
<1>5. /\ units \in Nat /\ Units(state.active, D \ E) \in Nat
      /\ state.reserved = units + Units(state.active, D \ E)
      /\ Units(active, D \ E) = Units(state.active, D \ E)
  <2>1. /\ Summable(state.active, D) /\ Summable(state.active, E)
        /\ Summable(state.active, D \ E)
    <3>1. D \ E \in SUBSET D /\ D \in SUBSET D
      OBVIOUS
    <3>2. QED
      BY <3>1, <1>1, SoundSums
  <2>2. Units(active, D \ E) = Units(state.active, D \ E)
    BY <2>1, <1>3, UnitsSame
  <2>3. Units(state.active, D) = units + Units(state.active, D \ E)
    BY <2>1, <1>1, UnitsSplit
  <2>4. QED
    BY <2>1, <2>2, <2>3, UnitsNat DEF Sound
<1> HIDE DEF active, reclaimed, moved, kept, units, after, E
<1>6. after.reserved = Units(after.active, DOMAIN after.active)
  BY <1>2, <1>3, <1>5, SatSubFacts
<1>7. Cardinality(D \ E) + Cardinality(kept) <= MaxHeld
  <2>1. IsFiniteSet(D) /\ IsFiniteSet(R) /\ IsFiniteSet(E)
    BY <1>1, SoundSums, FS_Subset
  <2>2. Cardinality(D \ E) = Cardinality(D) - Cardinality(E)
    <3>1. D \cap E = E
      BY <1>1
    <3>2. QED
      BY <2>1, <3>1, FS_Difference
  <2>3. IsFiniteSet(R \cup E) /\ Cardinality(R \cup E) <= Cardinality(R) + Cardinality(E)
    <3>1. R \cap E = {}
      BY <1>1
    <3>2. Cardinality(R \cap E) = 0
      BY <3>1, FS_EmptySet
    <3>3. IsFiniteSet(R \cup E)
          /\ Cardinality(R \cup E) = Cardinality(R) + Cardinality(E) - Cardinality(R \cap E)
      BY <2>1, FS_Union
    <3>4. Cardinality(R) \in Nat /\ Cardinality(E) \in Nat
      BY <2>1, FS_CardinalityType
    <3>5. QED
      BY <3>2, <3>3, <3>4
  <2>4. Cardinality(kept) <= Cardinality(R \cup E)
    BY <1>3, <2>3, FS_Subset
  <2>5. /\ Cardinality(D) \in Nat /\ Cardinality(R) \in Nat /\ Cardinality(E) \in Nat
        /\ Cardinality(kept) \in Nat /\ Cardinality(R \cup E) \in Nat
    BY <2>1, <2>3, <1>3, FS_CardinalityType, FS_Subset
  <2>6. Cardinality(D) + Cardinality(R) <= MaxHeld
    BY DEF Sound
  <2>7. QED
    BY <2>2, <2>3, <2>4, <2>5, <2>6, HeldAssumption
<1>8. state.committed \in Nat /\ state.period \in Nat
  BY DEF Sound
<1>9. after.committed \in Nat /\ after.period \in Nat
  <2>1. units \in Nat
    BY <1>5
  <2>2. SatAdd(state.committed, units) \in Nat
    BY <1>8, <2>1, SatAddFacts
  <2>3. QED
    BY <1>2, <1>8, <2>2
<1>10. Sound(after, ids)
  <2>1. SoundMaps(after, ids)
    <3>1. D \ E \subseteq ids /\ kept \subseteq ids /\ (D \ E) \cap kept = {}
      BY <1>1, <1>3
    <3>2. active \in [D \ E -> Held] /\ reclaimed \in [kept -> Held]
      <4>1. \A id \in D \ E : active[id] \in Held
        BY <1>3 DEF Sound, SoundMaps
      <4>2. active = [id \in D \ E |-> active[id]] /\ reclaimed = [id \in kept |-> reclaimed[id]]
        BY <1>3 DEF active, reclaimed, Restrict
      <4>3. QED
        BY <4>1, <4>2, <1>4
    <3>3. QED
      BY <3>1, <3>2, <1>2, <1>3 DEF SoundMaps
  <2>2. \A id \in D \ E : active[id].provisional_period = NoPeriod
    BY <1>3 DEF Sound
  <2>3. DOMAIN after = {"period", "committed", "reserved", "active", "reclaimed", "indexed_at"}
    BY <1>2 DEF Sound
  <2>4. QED
    BY <2>1, <2>2, <2>3, <1>2, <1>3, <1>4, <1>6, <1>7, <1>9 DEF Sound
<1>11. Shrinks(after, state)
  BY <1>1, <1>2, <1>3, <1>4 DEF Shrinks, Holds, Entry
<1>12. after.reserved = state.reserved - units /\ after.reserved <= state.reserved
  BY <1>2, <1>5, SatSubFacts
<1>13. after.committed <= state.committed + units
  <2>1. SatAdd(state.committed, units) <= state.committed + units
    BY <1>5, <1>8, SatAddFacts
  <2>2. after.committed = SatAdd(state.committed, units) \/ after.committed = state.committed
    BY <1>2
  <2>3. QED
    BY <2>1, <2>2, <1>5, <1>8
<1>14. Timeout = "release" => after.committed = state.committed
  BY <1>2
<1>15. after.committed + after.reserved <= state.committed + state.reserved
  BY <1>5, <1>8, <1>9, <1>12, <1>13
<1>16. QED
  BY <1>2, <1>10, <1>11, <1>12, <1>14, <1>15 DEF after
(* A sound state below its cap has room for the units of one more entry.   *)
LEMMA RoomInWord ==
  ASSUME NEW n \in Nat, n < MaxHeld, NEW r \in Nat, r <= n * MaxUnits,
         NEW c \in 0 .. MaxUnits
  PROVE  r + c <= U64Max
<1>1. MaxUnits \in Nat /\ MaxHeld \in Nat /\ U64Max \in Nat /\ MaxHeld * MaxUnits < U64Max
  BY WidthAssumption, HeldAssumption
<1>2. PICK d \in Nat : MaxHeld = n + 1 + d
  <2>1. MaxHeld - n - 1 \in Nat /\ MaxHeld = n + 1 + (MaxHeld - n - 1)
    BY <1>1
  <2>2. QED
    BY <2>1
<1>3. (n + 1 + d) * MaxUnits = n * MaxUnits + MaxUnits + d * MaxUnits
  BY <1>1
<1>4. d * MaxUnits \in Nat /\ n * MaxUnits \in Nat
  BY <1>1
<1>5. QED
  BY <1>1, <1>2, <1>3, <1>4

(* A new entry adds exactly its units to reserved: the sum never saturates *)
(* below the cap on entries.                                               *)
LEMMA HoldSound ==
  ASSUME NEW ids, IsFiniteSet(ids), NEW state, Sound(state, ids),
         NEW id, id \in ids, ~Holds(state, id),
         NEW c \in 0 .. MaxUnits, NEW now \in Nat, c > 0 => ~Saturated(state)
  PROVE  LET after == Hold(state, id, c, now)
         IN  /\ Sound(after, ids)
             /\ after.period = state.period /\ after.committed = state.committed
             /\ after.reserved = state.reserved + c
             /\ \A i : Holds(after, i) =>
                  \/ Holds(state, i) /\ Entry(after, i) = Entry(state, i)
                  \/ c > 0 /\ i = id /\ Entry(after, i).contribution = c
<1> USE WidthAssumption
<1>0. state.reserved \in Nat
  BY SoundSums
<1>1. CASE c = 0
  BY <1>0, <1>1 DEF Hold
<1>2. CASE c > 0
  <2> DEFINE D == DOMAIN state.active
             R == DOMAIN state.reclaimed
             entry == [contribution |-> c, expires_at |-> SatAdd(now, Ttl),
                       provisional_period |-> NoPeriod]
             active == [i \in D \cup {id} |-> IF i = id THEN entry ELSE state.active[i]]
             after == Hold(state, id, c, now)
  <2>1. /\ DOMAIN after = DOMAIN state
        /\ after.active = active /\ after.reclaimed = state.reclaimed
        /\ after.reserved = SatAdd(state.reserved, c)
        /\ after.committed = state.committed /\ after.period = state.period
    BY <1>2 DEF Hold, Sound
  <2>2. id \notin D /\ id \notin R
    BY DEF Holds
  <2>3. /\ DOMAIN active = D \cup {id} /\ active[id] = entry
        /\ \A i \in D : active[i] = state.active[i]
    BY <2>2
  <2>4. SatAdd(now, Ttl) \in Nat
    BY TtlAssumption, SatAddFacts
  <2>5. entry \in Held /\ entry.contribution = c /\ entry.provisional_period = NoPeriod
    BY <1>2, <2>4 DEF Held
  <2> HIDE DEF active, entry, after
  <2>6. active \in [D \cup {id} -> Held]
    <3>1. \A i \in D \cup {id} : active[i] \in Held
      BY <2>3, <2>5 DEF Sound, SoundMaps
    <3>2. active = [i \in D \cup {id} |-> active[i]]
      BY DEF active
    <3>3. QED
      BY <3>1, <3>2
  <2>7. /\ IsFiniteSet(D) /\ Cardinality(D) \in Nat /\ Cardinality(R) \in Nat
        /\ state.reserved <= Cardinality(D) * MaxUnits
        /\ Summable(state.active, D)
    BY SoundSums
  <2>8. Cardinality(D) + Cardinality(R) < MaxHeld
    BY <1>2, <2>7, HeldAssumption DEF Saturated
  <2>9. after.reserved = state.reserved + c
    <3>1. Cardinality(D) < MaxHeld
      BY <2>7, <2>8, HeldAssumption
    <3>2. state.reserved + c <= U64Max
      BY <3>1, <2>7, <1>0, RoomInWord
    <3>3. c \in Nat
      OBVIOUS
    <3>4. SatAdd(state.reserved, c) = state.reserved + c
      BY <3>2, <3>3, <1>0, SatAddFacts
    <3>5. QED
      BY <3>4, <2>1
  <2>10. Units(active, D \cup {id}) = state.reserved + c
    <3>1. Summable(active, D \cup {id})
      <4>1. \A i \in D \cup {id} : active[i].contribution \in Nat
        BY <2>6 DEF Held
      <4>2. IsFiniteSet(D \cup {id})
        BY <2>7, FS_AddElement
      <4>3. QED
        BY <4>1, <4>2 DEF Summable
    <3>2. Units(active, D \cup {id}) = active[id].contribution + Units(active, D)
      BY <3>1, <2>2, UnitsAdd
    <3>3. Units(active, D) = Units(state.active, D)
      BY <2>3, <2>7, UnitsSame
    <3>4. Units(state.active, D) = state.reserved
      BY DEF Sound
    <3>5. QED
      BY <3>2, <3>3, <3>4, <2>3, <2>5, <1>0
  <2>11. Cardinality(D \cup {id}) + Cardinality(R) <= MaxHeld
    <3>1. Cardinality(D \cup {id}) = Cardinality(D) + 1
      BY <2>2, <2>7, FS_AddElement
    <3>2. QED
      BY <3>1, <2>7, <2>8, HeldAssumption
  <2>12. SoundMaps(after, ids)
    <3>1. D \cup {id} \subseteq ids /\ R \subseteq ids /\ (D \cup {id}) \cap R = {}
      BY <2>2 DEF Sound, SoundMaps
    <3>2. state.reclaimed \in [R -> Held]
      BY DEF Sound, SoundMaps
    <3>3. QED
      BY <3>1, <3>2, <2>1, <2>3, <2>6 DEF SoundMaps
  <2>13. \A i \in D \cup {id} : active[i].provisional_period = NoPeriod
    BY <2>3, <2>5 DEF Sound
  <2>14. Sound(after, ids)
    BY <2>1, <2>3, <2>9, <2>10, <2>11, <2>12, <2>13 DEF Sound
  <2>15. \A i : Holds(after, i) =>
           \/ Holds(state, i) /\ Entry(after, i) = Entry(state, i)
           \/ c > 0 /\ i = id /\ Entry(after, i).contribution = c
    BY <1>2, <2>1, <2>2, <2>3, <2>5 DEF Holds, Entry
  <2>16. QED
    BY <2>1, <2>9, <2>14, <2>15 DEF after
<1>3. QED
  BY <1>1, <1>2
(* Dropping one entry from a map.                                          *)
LEMMA WithoutFacts ==
  ASSUME NEW map, NEW id
  PROVE  /\ DOMAIN Without(map, id) = DOMAIN map \ {id}
         /\ \A i \in DOMAIN map \ {id} : Without(map, id)[i] = map[i]
         /\ \A S : map \in [DOMAIN map -> S] =>
                Without(map, id) \in [DOMAIN map \ {id} -> S]
BY DEF Without, Restrict

(* Settling an id takes its entry away, and keeps the books right.  Only a *)
(* late commit, which needs a tombstone not yet charged, adds exposure.    *)
LEMMA SettleSound ==
  ASSUME NEW ids, IsFiniteSet(ids), NEW state, Sound(state, ids),
         NEW id, NEW commit \in BOOLEAN
  PROVE  LET after == Settle(state, id, commit)
             outcome == Outcome(state, id, commit)
         IN  /\ Sound(after, ids)
             /\ Shrinks(after, state)
             /\ ~Holds(after, id)
             /\ after.period = state.period
             /\ after.reserved <= state.reserved
             /\ outcome # "late-committed" =>
                  after.committed + after.reserved <= state.committed + state.reserved
             /\ outcome = "late-committed" =>
                  /\ Holds(state, id)
                  /\ Timeout = "release"
                  /\ after.reserved = state.reserved
                  /\ after.committed <= state.committed + Entry(state, id).contribution
<1> DEFINE D == DOMAIN state.active
           R == DOMAIN state.reclaimed
           after == Settle(state, id, commit)
           outcome == Outcome(state, id, commit)
<1>0. /\ D \subseteq ids /\ R \subseteq ids /\ D \cap R = {}
      /\ state.committed \in Nat /\ state.period \in Nat /\ state.reserved \in Nat
      /\ IsFiniteSet(D) /\ IsFiniteSet(R)
      /\ Cardinality(D) \in Nat /\ Cardinality(R) \in Nat
      /\ Cardinality(D) + Cardinality(R) <= MaxHeld
  BY SoundSums DEF Sound, SoundMaps
<1>1. CASE id \in D
  <2> DEFINE units == state.active[id].contribution
             left  == Without(state.active, id)
  <2>1. outcome = IF commit THEN "committed" ELSE "released"
    BY <1>1 DEF Outcome
  <2>2. /\ DOMAIN after = DOMAIN state
        /\ after.active = left /\ after.reclaimed = state.reclaimed
        /\ after.reserved = SatSub(state.reserved, units)
        /\ after.committed = (IF commit THEN SatAdd(state.committed, units)
                              ELSE state.committed)
        /\ after.period = state.period
    BY <2>1 DEF Settle, Sound
  <2>3. /\ DOMAIN left = D \ {id} /\ \A i \in D \ {id} : left[i] = state.active[i]
        /\ left \in [D \ {id} -> Held]
    BY WithoutFacts DEF Sound, SoundMaps
  <2>4. units \in Nat /\ state.reserved = units + Units(state.active, D \ {id})
        /\ Units(state.active, D \ {id}) \in Nat /\ Summable(state.active, D \ {id})
    <3>1. Summable(state.active, D) /\ Summable(state.active, D \ {id})
      <4>1. D \in SUBSET D /\ D \ {id} \in SUBSET D
        OBVIOUS
      <4>2. QED
        BY <4>1, SoundSums
    <3>2. Units(state.active, D) = units + Units(state.active, D \ {id})
      BY <1>1, <3>1, UnitsRemove
    <3>3. units \in Nat
      BY <1>1, <3>1 DEF Summable
    <3>4. QED
      BY <3>1, <3>2, <3>3, UnitsNat DEF Sound
  <2>5. Units(left, D \ {id}) = Units(state.active, D \ {id})
    BY <2>3, <2>4, UnitsSame
  <2> HIDE DEF units, left, after, outcome
  <2>6. after.reserved = state.reserved - units
    BY <2>2, <2>4, <1>0, SatSubFacts
  <2>7. after.committed \in Nat /\ after.committed <= state.committed + units
    <3>1. SatAdd(state.committed, units) \in Nat
          /\ SatAdd(state.committed, units) <= state.committed + units
      BY <2>4, <1>0, SatAddFacts
    <3>2. QED
      BY <3>1, <2>2, <2>4, <1>0
  <2>8. SoundMaps(after, ids)
    <3>1. state.reclaimed \in [R -> Held]
      BY DEF Sound, SoundMaps
    <3>2. QED
      BY <3>1, <2>2, <2>3, <1>0 DEF SoundMaps
  <2>9. Cardinality(D \ {id}) + Cardinality(R) <= MaxHeld
    <3>1. Cardinality(D \ {id}) = Cardinality(D) - 1
      BY <1>0, <1>1, FS_RemoveElement
    <3>2. QED
      BY <3>1, <1>0, HeldAssumption
  <2>10. Sound(after, ids)
    <3>1. \A i \in D \ {id} : left[i].provisional_period = NoPeriod
      BY <2>3 DEF Sound
    <3>2. after.reserved = Units(left, D \ {id})
      BY <2>4, <2>5, <2>6
    <3>3. QED
      BY <3>1, <3>2, <2>2, <2>3, <2>7, <2>8, <2>9 DEF Sound
  <2>11. Shrinks(after, state) /\ ~Holds(after, id)
    BY <1>0, <1>1, <2>2, <2>3 DEF Shrinks, Holds, Entry
  <2>12. /\ after.reserved <= state.reserved
         /\ after.committed + after.reserved <= state.committed + state.reserved
    BY <2>4, <2>6, <2>7, <1>0
  <2>13. outcome # "late-committed"
    BY <2>1
  <2>14. QED
    BY <2>2, <2>10, <2>11, <2>12, <2>13 DEF after, outcome
<1>2. CASE id \notin D /\ id \in R
  <2> DEFINE units == state.reclaimed[id].contribution
             left  == Without(state.reclaimed, id)
  <2>1. /\ outcome \in {"late-committed", "late-released", "refunded", "already-charged"}
        /\ outcome = "late-committed" => state.reclaimed[id].provisional_period = NoPeriod
    BY <1>2 DEF Outcome
  <2>2. /\ DOMAIN after = DOMAIN state
        /\ after.active = state.active /\ after.reclaimed = left
        /\ after.reserved = state.reserved
        /\ after.committed = (CASE outcome = "late-committed" -> SatAdd(state.committed, units)
                                [] outcome = "refunded" -> SatSub(state.committed, units)
                                [] OTHER -> state.committed)
        /\ after.period = state.period
    BY <2>1 DEF Settle, Sound
  <2>3. /\ DOMAIN left = R \ {id} /\ \A i \in R \ {id} : left[i] = state.reclaimed[i]
        /\ left \in [R \ {id} -> Held]
    BY WithoutFacts DEF Sound, SoundMaps
  <2>4. units \in Nat /\ Entry(state, id).contribution = units
    BY <1>2 DEF Sound, SoundMaps, Held, Entry
  <2> HIDE DEF units, left, after, outcome
  <2>5. /\ after.committed \in Nat /\ after.committed <= state.committed + units
        /\ outcome # "late-committed" => after.committed <= state.committed
    <3>1. /\ SatAdd(state.committed, units) \in Nat
          /\ SatAdd(state.committed, units) <= state.committed + units
          /\ SatSub(state.committed, units) \in Nat
          /\ SatSub(state.committed, units) <= state.committed
      BY <2>4, <1>0, SatAddFacts, SatSubFacts
    <3>2. CASE outcome = "late-committed"
      BY <3>1, <3>2, <2>2
    <3>3. CASE outcome = "refunded"
      BY <3>1, <3>3, <2>2, <2>4, <1>0
    <3>4. CASE outcome \notin {"late-committed", "refunded"}
      <4>1. after.committed = state.committed
        BY <3>4, <2>2
      <4>2. QED
        BY <4>1, <2>4, <1>0
    <3>5. QED
      BY <3>2, <3>3, <3>4
  <2>6. SoundMaps(after, ids)
    <3>1. state.active \in [D -> Held]
      BY DEF Sound, SoundMaps
    <3>2. QED
      BY <3>1, <2>2, <2>3, <1>0 DEF SoundMaps
  <2>7. Cardinality(D) + Cardinality(R \ {id}) <= MaxHeld
    <3>1. Cardinality(R \ {id}) = Cardinality(R) - 1
      BY <1>0, <1>2, FS_RemoveElement
    <3>2. QED
      BY <3>1, <1>0, HeldAssumption
  <2>8. Sound(after, ids)
    <3>1. \A i \in R \ {id} : left[i].provisional_period = NoPeriod <=> Timeout = "release"
      BY <2>3 DEF Sound
    <3>2. QED
      BY <3>1, <2>2, <2>3, <2>5, <2>6, <2>7 DEF Sound
  <2>9. Shrinks(after, state) /\ ~Holds(after, id)
    BY <1>0, <1>2, <2>2, <2>3 DEF Shrinks, Holds, Entry
  <2>10. outcome = "late-committed" => Holds(state, id) /\ Timeout = "release"
    BY <1>2, <2>1 DEF Holds, Sound
  <2>11. /\ after.reserved <= state.reserved
         /\ outcome # "late-committed" =>
              after.committed + after.reserved <= state.committed + state.reserved
    BY <2>2, <2>5, <1>0
  <2>12. QED
    BY <2>2, <2>4, <2>5, <2>8, <2>9, <2>10, <2>11 DEF after, outcome
<1>3. CASE id \notin D /\ id \notin R
  <2>1. outcome = "not-active"
    BY <1>3 DEF Outcome
  <2>2. after = state
    BY <2>1 DEF Settle
  <2>3. ~Holds(state, id) /\ Shrinks(state, state)
    BY <1>3 DEF Holds, Shrinks
  <2>4. QED
    BY <2>1, <2>2, <2>3, <1>0
<1>4. QED
  BY <1>1, <1>2, <1>3

(* A reclaim, entry by entry.                                              *)
LEMMA ReclaimEntries ==
  ASSUME NEW ids, NEW state, Sound(state, ids), NEW now
  PROVE  LET after == Reclaim(state, now)
             expired == Expired(state, now)
         IN  /\ expired \subseteq DOMAIN state.active
             /\ after.period = state.period
             /\ after.committed = (IF Timeout = "commit"
                                   THEN SatAdd(state.committed, Units(state.active, expired))
                                   ELSE state.committed)
             /\ DOMAIN after.active = DOMAIN state.active \ expired
             /\ \A id \in DOMAIN after.active : after.active[id] = state.active[id]
             /\ DOMAIN after.reclaimed =
                  {id \in DOMAIN state.reclaimed \cup expired :
                     now < SatAdd(Entry(state, id).expires_at, Ttl)}
             /\ \A id \in DOMAIN after.reclaimed :
                  after.reclaimed[id] = IF id \in expired THEN Tombstone(state, id)
                                        ELSE state.reclaimed[id]
<1> DEFINE E == Expired(state, now)
           R == DOMAIN state.reclaimed
           moved == [id \in R \cup E |->
                       IF id \in E THEN Tombstone(state, id) ELSE state.reclaimed[id]]
           kept  == {id \in DOMAIN moved : now < SatAdd(moved[id].expires_at, Ttl)}
           active == Restrict(state.active, DOMAIN state.active \ E)
           reclaimed == Restrict(moved, kept)
           after == Reclaim(state, now)
<1>1. E \subseteq DOMAIN state.active /\ DOMAIN state.active \cap R = {}
  BY DEF Expired, Sound, SoundMaps
<1>2. /\ after.active = active /\ after.reclaimed = reclaimed
      /\ after.committed = (IF Timeout = "commit"
                            THEN SatAdd(state.committed, Units(state.active, E))
                            ELSE state.committed)
      /\ after.period = state.period
  BY DEF Reclaim, Sound
<1>3. /\ DOMAIN active = DOMAIN state.active \ E
      /\ \A id \in DOMAIN state.active \ E : active[id] = state.active[id]
      /\ DOMAIN moved = R \cup E /\ DOMAIN reclaimed = kept
      /\ \A id \in kept : reclaimed[id] = moved[id]
  BY DEF Restrict
<1>4. \A id \in R \cup E : moved[id].expires_at = Entry(state, id).expires_at
  <2> SUFFICES ASSUME NEW id \in R \cup E
               PROVE  moved[id].expires_at = Entry(state, id).expires_at
    OBVIOUS
  <2>1. CASE id \in E
    <3>1. state.active[id] \in Held /\ id \in DOMAIN state.active
      BY <1>1, <2>1 DEF Sound, SoundMaps
    <3>2. Tombstone(state, id).expires_at = state.active[id].expires_at
      BY <3>1 DEF Tombstone, Held
    <3>3. QED
      BY <2>1, <3>1, <3>2 DEF Entry
  <2>2. CASE id \notin E
    BY <1>1, <2>2 DEF Entry
  <2>3. QED
    BY <2>1, <2>2
<1>5. kept = {id \in R \cup E : now < SatAdd(Entry(state, id).expires_at, Ttl)}
  <2> HIDE DEF E
  <2>1. QED
    BY <1>3, <1>4
<1>6. \A id \in kept : reclaimed[id] = IF id \in E THEN Tombstone(state, id)
                                      ELSE state.reclaimed[id]
  BY <1>3
<1> HIDE DEF E, moved, kept, active, reclaimed, after
<1>7. QED
  BY <1>1, <1>2, <1>3, <1>5, <1>6 DEF E, after

(* A settlement, entry by entry: what it takes away, what it charges, and  *)
(* that it charges nothing only where there is nothing to change.          *)
LEMMA SettleEntries ==
  ASSUME NEW ids, NEW state, Sound(state, ids), NEW id, NEW commit \in BOOLEAN
  PROVE  LET after == Settle(state, id, commit)
             outcome == Outcome(state, id, commit)
             entry == Entry(state, id)
         IN  /\ after.period = state.period
             /\ DOMAIN after.active = DOMAIN state.active \ {id}
             /\ DOMAIN after.reclaimed = DOMAIN state.reclaimed \ {id}
             /\ \A i \in DOMAIN after.active : after.active[i] = state.active[i]
             /\ \A i \in DOMAIN after.reclaimed : after.reclaimed[i] = state.reclaimed[i]
             /\ outcome \in {"committed", "late-committed"} =>
                  /\ Holds(state, id) /\ commit /\ entry.provisional_period = NoPeriod
                  /\ after.committed = SatAdd(state.committed, entry.contribution)
             /\ outcome = "committed" => id \in DOMAIN state.active
             /\ outcome = "late-committed" => Timeout = "release"
             /\ outcome = "refunded" =>
                  /\ Holds(state, id) /\ ~commit /\ id \notin DOMAIN state.active
                  /\ entry.provisional_period = state.period /\ Timeout = "commit"
                  /\ after.committed = SatSub(state.committed, entry.contribution)
             /\ outcome \notin {"committed", "late-committed", "refunded"} =>
                  /\ after.committed = state.committed
                  /\ Holds(state, id) /\ commit => entry.provisional_period # NoPeriod
                  /\ Holds(state, id) /\ ~commit => entry.provisional_period # state.period
<1> DEFINE after == Settle(state, id, commit)
           outcome == Outcome(state, id, commit)
           entry == Entry(state, id)
           D == DOMAIN state.active
           R == DOMAIN state.reclaimed
<1>1. /\ D \cap R = {} /\ state.period \in Nat
      /\ \A i \in D : state.active[i].provisional_period = NoPeriod
      /\ \A i \in R : state.reclaimed[i].provisional_period = NoPeriod <=> Timeout = "release"
      /\ DOMAIN state = {"period", "committed", "reserved", "active", "reclaimed", "indexed_at"}
  BY DEF Sound, SoundMaps
<1>2. NoPeriod # state.period
  BY <1>1 DEF NoPeriod
<1>3. /\ DOMAIN Without(state.active, id) = D \ {id}
      /\ \A i \in D \ {id} : Without(state.active, id)[i] = state.active[i]
      /\ DOMAIN Without(state.reclaimed, id) = R \ {id}
      /\ \A i \in R \ {id} : Without(state.reclaimed, id)[i] = state.reclaimed[i]
  BY WithoutFacts
<1>4. CASE id \in D
  <2>1. /\ outcome = IF commit THEN "committed" ELSE "released"
        /\ entry = state.active[id] /\ Holds(state, id) /\ R \ {id} = R
        /\ entry.provisional_period = NoPeriod
    BY <1>1, <1>4 DEF Outcome, Entry, Holds
  <2>2. /\ after.period = state.period
        /\ after.active = Without(state.active, id) /\ after.reclaimed = state.reclaimed
        /\ after.committed = (IF commit THEN SatAdd(state.committed, entry.contribution)
                              ELSE state.committed)
    BY <1>1, <2>1 DEF Settle
  <2> HIDE DEF after, outcome, entry
  <2>3. QED
    BY <1>2, <1>3, <1>4, <2>1, <2>2 DEF after, outcome, entry
<1>5. CASE id \in R /\ id \notin D
  <2> DEFINE p == state.reclaimed[id].provisional_period
  <2>1. /\ outcome = (IF p = NoPeriod
                      THEN IF commit THEN "late-committed" ELSE "late-released"
                      ELSE IF ~commit /\ p = state.period
                           THEN "refunded" ELSE "already-charged")
        /\ entry = state.reclaimed[id] /\ Holds(state, id) /\ D \ {id} = D
        /\ p = NoPeriod <=> Timeout = "release"
    BY <1>1, <1>5 DEF Outcome, Entry, Holds
  <2>2. /\ after.period = state.period
        /\ after.active = state.active /\ after.reclaimed = Without(state.reclaimed, id)
        /\ after.committed =
             CASE outcome = "late-committed" -> SatAdd(state.committed, entry.contribution)
               [] outcome = "refunded" -> SatSub(state.committed, entry.contribution)
               [] OTHER -> state.committed
    BY <1>1, <2>1 DEF Settle
  <2>3. entry.provisional_period = p /\ (p # NoPeriod => Timeout = "commit")
    BY <2>1, TimeoutAssumption
  <2> HIDE DEF after, outcome, entry, p
  <2>4. QED
    BY <1>2, <1>3, <1>5, <2>1, <2>2, <2>3 DEF after, outcome, entry
<1>6. CASE id \notin D /\ id \notin R
  <2>1. outcome = "not-active" /\ ~Holds(state, id) /\ D \ {id} = D /\ R \ {id} = R
    BY <1>6 DEF Outcome, Holds
  <2>2. after = state
    BY <2>1 DEF Settle
  <2> HIDE DEF after, outcome, entry
  <2>3. QED
    BY <2>1, <2>2 DEF after, outcome, entry
<1>7. QED
  BY <1>4, <1>5, <1>6

(* When a scope's charge is forgotten, and when its entries are dropped.   *)
ChargeEnds(state) == IF state.committed = 0 THEN 0
                     ELSE IF Window = 0 THEN U64Max
                     ELSE (state.period + 1) * Window

Drops(state) ==
  {SatAdd(state.active[id].expires_at, Ttl) : id \in DOMAIN state.active}
  \cup {SatAdd(state.reclaimed[id].expires_at, Ttl) : id \in DOMAIN state.reclaimed}

(* idle_at is the last of those times.                                     *)
LEMMA IdleAtLast ==
  ASSUME NEW ids, NEW state, Sound(state, ids)
  PROVE  /\ IdleAt(state) \in Nat
         /\ IdleAt(state) \in {ChargeEnds(state)} \cup Drops(state)
         /\ \A at \in {ChargeEnds(state)} \cup Drops(state) : at \in Nat /\ at <= IdleAt(state)
<1> DEFINE charged == ChargeEnds(state)
           drops == Drops(state)
           all == {charged} \cup drops
           last == CHOOSE at \in all : \A other \in all : other <= at
           top == charged + U64Max
           below == {top - at : at \in all}
<1>1. charged \in Nat /\ U64Max \in Nat /\ top \in Nat
  BY WindowAssumption, WidthAssumption DEF Sound, ChargeEnds
<1>2. \A at \in drops : at \in Nat /\ at <= U64Max
  <2>1. \A t \in Nat : SatAdd(t, Ttl) \in Nat /\ SatAdd(t, Ttl) <= U64Max
    BY TtlAssumption, SatAddFacts
  <2>2. /\ \A id \in DOMAIN state.active : state.active[id].expires_at \in Nat
        /\ \A id \in DOMAIN state.reclaimed : state.reclaimed[id].expires_at \in Nat
    BY DEF Sound, SoundMaps, Held
  <2>3. QED
    BY <2>1, <2>2 DEF Drops
<1> HIDE DEF charged, drops
<1>3. \A at \in all : at \in Nat /\ at <= top
  BY <1>1, <1>2
<1>4. below \subseteq Nat /\ below # {}
  BY <1>1, <1>3
<1>5. PICK m \in below : \A k \in below : m <= k
  BY <1>4, LeastNat
<1>6. PICK at \in all : m = top - at
  BY <1>5
<1>7. ASSUME NEW other \in all PROVE other <= at
  <2>1. top - other \in below
    OBVIOUS
  <2>2. m <= top - other
    BY <1>5, <2>1
  <2>3. other \in Nat /\ at \in Nat /\ top \in Nat
    BY <1>1, <1>3, <1>6
  <2> HIDE DEF top, all, below
  <2>4. QED
    BY <1>6, <2>2, <2>3
<1>8. last \in all /\ \A other \in all : other <= last
  <2> HIDE DEF all
  <2>1. QED
    BY <1>6, <1>7
<1>9. last = IdleAt(state)
  BY DEF IdleAt, charged, drops, ChargeEnds, Drops
<1>10. QED
  BY <1>3, <1>8, <1>9 DEF charged, drops

LEMMA IdleAtNat ==
  ASSUME NEW ids, NEW state, Sound(state, ids)
  PROVE  IdleAt(state) \in Nat
BY IdleAtLast
=============================================================================

--------------------------- MODULE NodeSlots_proofs ---------------------------
(***************************************************************************)
(* Theorems about the records of many scopes, for every value of the       *)
(* constants: the types, whatever faults happen; and, unless a write can   *)
(* land and report failure, that every counted slot is accounted for, that *)
(* the cap is kept, that no hold is lost within its window, and that       *)
(* records leave in order.                                                 *)
(*                                                                         *)
(* The inductive invariant, Safe, says what a call may rely on between its *)
(* read and its write. A link is to the record that was read. A call that  *)
(* knows a live record, though another may have written it since, finds it *)
(* live, or Vacant for no longer than the call and a sweep can stall: too  *)
(* short for any sweep to find it old, so nobody dooms, deletes or creates *)
(* it meanwhile. A record being deleted is the deleter's own Doomed one, as*)
(* old as the deleter's clock is late: too young for another sweep to take *)
(* it back, so no other call replaces it. Those two are what 2 MaxStall <  *)
(* Grace and MaxStall < Recover are for.                                   *)
(***************************************************************************)
EXTENDS NodeSlots, Sums_proofs

(* What a record holds of its reservations: when each is due.              *)
Holds == UNION {[D -> -MaxStall .. 2 * Ttl] : D \in SUBSET Ids}

Values == {Missing} \cup [kind : {"vacant", "doomed"}, age : Nat]
                    \cup [kind : {"live"}, held : Holds, charged : BOOLEAN]

(* How late a call's clock is.                                             *)
Lags == 0 .. MaxStall

(* Where a call can be.                                                    *)
Places == {"gc", "read", "slot", "cap", "put", "give_back", "hint", "hinting", "claim", "own", "list",
           "visit", "swap", "delete", "restore_read", "restore", "uncount", "done"}

(* A call, and one that is well formed: its clock_lag is within its lag,   *)
(* and it is at a key while it sweeps.                                     *)
Calls ==
  [op : {"reserve", "commit", "release"}, scope : Scopes, id : Ids, lag : Lags, at : Places,
   linked : BOOLEAN, read : Values, slot : BOOLEAN, swept : BOOLEAN,
   why : {"none", "gc", "cap", "read", "idle"},
   owns : BOOLEAN, clock_lag : Lags, todo : SUBSET Scopes, partial : BOOLEAN,
   cursor : Scopes \cup {NoCursor}, key : Scopes \cup {0}, key_linked : BOOLEAN,
   found : Values, freed : Nat, next_idle : Int]

Typed(c) ==
  /\ c \in Calls
  /\ c.clock_lag <= c.lag /\ c.next_idle <= MaxRescan
  /\ Sweeping(c) => c.key \in Scopes

CallsTyped ==
  /\ call = [w \in Workers |-> call[w]]
  /\ \A w \in Workers : call[w] = Idle \/ Typed(call[w])

(* The sweep key, and the reservations that are open.                      *)
SweepKeys ==
  [not_before : -MaxStall .. MaxRescan, next_gc : -MaxStall .. GcInterval,
   cursor : Scopes \cup {NoCursor}]

OpenMaps == UNION {[D -> [scope : Scopes, left : -MaxStall .. 2 * Ttl]] : D \in SUBSET Ids}

(* The type invariant.                                                     *)
TypeInv ==
  /\ n \in Nat /\ leaked \in Int /\ seen \in Nat
  /\ record \in [Scopes -> Values]
  /\ sweep \in SweepKeys
  /\ next_check \in [Workers -> -MaxStall .. GcInterval]
  /\ CallsTyped
  /\ open \in OpenMaps

(* A sweep between dooming a record and what ends that.                    *)
Deleting(c) == c.at \in {"delete", "restore_read", "restore"}

(* What a call holds and knows at each step: slots, what it read, and what *)
(* the sweep it runs found, which is old enough for what it will make of   *)
(* it.                                                                     *)
Staged(c) ==
  /\ c.freed > 0 => Sweeping(c) \/ c.at = "uncount"
  /\ c.slot => c.at \in {"put", "give_back"}
  /\ c.at = "give_back" => c.slot
  /\ c.at = "put" => (c.slot <=> ~IsLive(c.read))
  /\ IsLive(c.read) => c.at = "put"
  /\ IsLive(c.found) => c.at \in {"visit", "swap"}
  /\ c.at = "swap" /\ c.found.kind = "vacant" => Aged(c.found, Grace, c.clock_lag)
  /\ c.at = "swap" /\ c.found.kind = "doomed" => Aged(c.found, Recover, c.clock_lag)
  /\ c.at = "swap" => c.found # Missing
  /\ Deleting(c) => c.found.kind = "vacant"

(* A link is to what was read.                                             *)
Linked(c, rec) ==
  /\ c.linked => IF IsLive(c.read) THEN rec[c.scope] = c.read ELSE rec[c.scope].kind = "vacant"
  /\ c.at = "swap" /\ c.key_linked => rec[c.key] = c.found

(* The call knows a live record of s; and how recently it must have been   *)
(* live for that.                                                          *)
Copies(c, s) == (IsLive(c.read) /\ c.scope = s) \/ (IsLive(c.found) /\ c.key = s)

Recent(c, value) == IsLive(value) \/ (value.kind = "vacant" /\ value.age <= MaxStall + c.lag)

(* What a call knows of the records is true enough.                        *)
Sound(c, rec) ==
  /\ Staged(c) /\ Linked(c, rec)
  /\ \A s \in Scopes : Copies(c, s) => Recent(c, rec[s])
  /\ Deleting(c) => rec[c.key] = Doomed(c.clock_lag)

(* No two calls, nor a call and an open reservation, have an id in common; *)
(* and no two sweeps delete one key.                                       *)
Apart ==
  /\ \A w \in Workers : call[w] # Idle => call[w].id \notin DOMAIN open
  /\ \A w, v \in Workers :
       call[w] # Idle /\ call[v] # Idle /\ w # v =>
         /\ call[w].id # call[v].id
         /\ Deleting(call[w]) /\ Deleting(call[v]) => call[w].key # call[v].key

(* A reservation within its window is on its scope's record, held for as   *)
(* long as that at least.                                                  *)
HeldOn ==
  \A id \in DOMAIN open :
    LET s == open[id].scope
    IN  open[id].left > 0 =>
          IsLive(record[s]) /\ id \in DOMAIN record[s].held /\ record[s].held[id] >= open[id].left

(* The count of slots is exact, and within the cap; only failures leak.    *)
Counted == SlotsExact /\ leaked >= 0 /\ n <= MaxScopes

(* The inductive invariant.                                                *)
Safe ==
  /\ \A w \in Workers : call[w] # Idle => Sound(call[w], record)
  /\ Apart /\ HeldOn /\ Counted

(* Slots held by calls.                                                    *)
SlotsTaken == SumFunction([w \in Workers |-> Slots(call[w])])

(* The maximum of a set of integers that is bounded above is the greatest  *)
(* of its members.                                                         *)
LEMMA MaxOf ==
  ASSUME NEW S, S \subseteq Int, S # {}, NEW b \in Int, \A x \in S : x <= b
  PROVE  Max(S) \in S /\ \A x \in S : x <= Max(S)
<1> DEFINE T == {k \in Nat : b - k \in S}
<1>1. T \subseteq Nat /\ T # {}
  <2>1. PICK x \in S : TRUE
    OBVIOUS
  <2>2. b - x \in Nat /\ b - (b - x) = x
    BY <2>1
  <2>3. QED
    BY <2>1, <2>2
<1>2. PICK m \in T : \A k \in T : m <= k
  <2> HIDE DEF T
  <2>1. QED
    BY <1>1, LeastNat
<1>3. ASSUME NEW x \in S PROVE m <= b - x
  <2>1. b - x \in Nat /\ b - (b - x) = x
    BY <1>3
  <2>2. b - x \in T
    BY <2>1
  <2>3. QED
    BY <1>2, <2>2
<1>4. b - m \in S /\ \A x \in S : b - m >= x
  BY <1>2, <1>3
<1>5. QED
  BY <1>4 DEF Max

(* The minimum of one bounded below is the least.                          *)
LEMMA MinOf ==
  ASSUME NEW S, S \subseteq Int, S # {}, NEW b \in Int, \A x \in S : b <= x
  PROVE  Min(S) \in S /\ \A x \in S : Min(S) <= x
<1> DEFINE T == {k \in Nat : b + k \in S}
<1>1. T \subseteq Nat /\ T # {}
  <2>1. PICK x \in S : TRUE
    OBVIOUS
  <2>2. x - b \in Nat /\ b + (x - b) = x
    BY <2>1
  <2>3. QED
    BY <2>1, <2>2
<1>2. PICK m \in T : \A k \in T : m <= k
  <2> HIDE DEF T
  <2>1. QED
    BY <1>1, LeastNat
<1>3. ASSUME NEW x \in S PROVE m <= x - b
  <2>1. x - b \in Nat /\ b + (x - b) = x
    BY <1>3
  <2>2. x - b \in T
    BY <2>1
  <2>3. QED
    BY <1>2, <2>2
<1>4. b + m \in S /\ \A x \in S : b + m <= x
  BY <1>2, <1>3
<1>5. QED
  BY <1>4 DEF Min

(* Of two, it is the one or the other.                                     *)
LEMMA MaxOfTwo == ASSUME NEW a \in Int, NEW b \in Int PROVE Max({a, b}) = IF a >= b THEN a ELSE b
BY DEF Max

LEMMA MinOfTwo == ASSUME NEW a \in Int, NEW b \in Int PROVE Min({a, b}) = IF a <= b THEN a ELSE b
BY DEF Min
-----------------------------------------------------------------------------
(* What the assumptions say of the constants.                              *)
LEMMA ConstantFacts ==
  /\ Ttl \in Nat \ {0} /\ Grace \in Nat \ {0} /\ Recover \in Nat \ {0}
  /\ MinRescan \in Nat \ {0} /\ MaxRescan \in Nat \ {0} /\ GcInterval \in Nat \ {0}
  /\ GcCheck \in 1 .. GcInterval /\ MinRescan <= MaxRescan /\ MinRescan <= GcInterval
  /\ MaxStall \in Nat /\ 2 * MaxStall < Grace /\ MaxStall < Recover
  /\ ScopeCount \in Nat /\ MaxScopes \in Nat \ {0} /\ MaxFaults \in Nat
  /\ IsFiniteSet(Workers) /\ IsFiniteSet(Scopes) /\ NoCursor = 0
  /\ Scopes \subseteq Nat \ {0}
  /\ 0 \in Lags /\ Lags \subseteq Nat /\ \A lag \in Lags : lag <= MaxStall
<1>1. IsFiniteSet(Scopes)
  BY SlotsAssumption, FS_Interval DEF Scopes
<1>2. QED
  BY <1>1, SlotsAssumption, TimesAssumption, StallAssumption, FaultsAssumption DEF Scopes, NoCursor, Lags

(* A record is one of four kinds, and its kind is all of it.               *)
LEMMA ValueFacts ==
  ASSUME NEW v \in Values
  PROVE  /\ v.kind \in {"missing", "vacant", "doomed", "live"}
         /\ v.kind = "missing" <=> v = Missing
         /\ v.kind = "vacant" => v.age \in Nat /\ v = Vacant(v.age)
         /\ v.kind = "doomed" => v.age \in Nat /\ v = Doomed(v.age)
         /\ IsLive(v) <=> v.kind = "live"
         /\ IsLive(v) => /\ v.held \in Holds /\ v.charged \in BOOLEAN
                         /\ v = Live(v.held, v.charged)
BY DEF Values, Missing, Vacant, Doomed, Live, IsLive

LEMMA MissingValue == Missing \in Values /\ Missing.kind = "missing" /\ ~IsLive(Missing)
BY DEF Values, Missing, IsLive

LEMMA VacantValue ==
  ASSUME NEW age \in Nat
  PROVE  /\ Vacant(age) \in Values /\ Vacant(age).kind = "vacant" /\ Vacant(age).age = age
         /\ Doomed(age) \in Values /\ Doomed(age).kind = "doomed" /\ Doomed(age).age = age
         /\ ~IsLive(Vacant(age)) /\ ~IsLive(Doomed(age))
         /\ Vacant(age) # Missing /\ Doomed(age) # Missing
BY DEF Values, Missing, Vacant, Doomed, IsLive

LEMMA LiveValue ==
  ASSUME NEW held \in Holds, NEW charged \in BOOLEAN
  PROVE  LET v == Live(held, charged)
         IN  /\ v \in Values /\ IsLive(v) /\ v # Missing /\ v.kind = "live"
             /\ v.held = held /\ v.charged = charged
BY DEF Values, Live, IsLive, Missing

(* A record's holds are of ids, each within its tombstone's reach of now.  *)
LEMMA HoldsFacts ==
  ASSUME NEW held \in Holds
  PROVE  /\ DOMAIN held \subseteq Ids
         /\ held \in [DOMAIN held -> -MaxStall .. 2 * Ttl]
BY DEF Holds

LEMMA HoldsIs ==
  ASSUME NEW D \in SUBSET Ids, NEW held \in [D -> -MaxStall .. 2 * Ttl]
  PROVE  held \in Holds
BY DEF Holds

(* Holds that are reclaimed or taken off leave the others as they were.    *)
LEMMA RestrictHolds ==
  ASSUME NEW held \in Holds, NEW D \in SUBSET DOMAIN held
  PROVE  /\ Restrict(held, D) \in Holds /\ DOMAIN Restrict(held, D) = D
         /\ \A id \in D : Restrict(held, D)[id] = held[id]
<1>1. Restrict(held, D) \in [D -> -MaxStall .. 2 * Ttl] /\ D \in SUBSET Ids
  BY HoldsFacts DEF Restrict
<1>2. QED
  BY <1>1, HoldsIs DEF Restrict

(* What a reclaim keeps of a live value.                                   *)
LEMMA ReclaimedFacts ==
  ASSUME NEW v \in Values, IsLive(v), NEW lag \in Lags
  PROVE  LET r == Reclaimed(v, lag)
         IN  /\ r \in Values /\ IsLive(r) /\ r.charged = v.charged
             /\ DOMAIN r.held = {id \in DOMAIN v.held : v.held[id] + lag > 0}
             /\ \A id \in DOMAIN r.held : r.held[id] = v.held[id]
<1> DEFINE D == {id \in DOMAIN v.held : v.held[id] + lag > 0}
<1>1. v.held \in Holds /\ v.charged \in BOOLEAN /\ v = Live(v.held, v.charged)
  BY ValueFacts
<1>2. Reclaimed(v, lag) = Live(Restrict(v.held, D), v.charged)
  BY <1>1 DEF Reclaimed, Live
<1>3. D \in SUBSET DOMAIN v.held
  OBVIOUS
<1> HIDE DEF D
<1>4. /\ Restrict(v.held, D) \in Holds /\ DOMAIN Restrict(v.held, D) = D
      /\ \A id \in D : Restrict(v.held, D)[id] = v.held[id]
  BY <1>1, <1>3, RestrictHolds
<1>5. LET l == Live(Restrict(v.held, D), v.charged)
      IN  /\ l \in Values /\ IsLive(l) /\ l.held = Restrict(v.held, D) /\ l.charged = v.charged
  BY <1>1, <1>4, LiveValue
<1>6. QED
  BY <1>2, <1>4, <1>5 DEF D

(* What time does to a value.                                              *)
LEMMA OlderFacts ==
  ASSUME NEW v \in Values
  PROVE  /\ Older(v) \in Values /\ Older(v).kind = v.kind
         /\ v.kind = "missing" => Older(v) = Missing
         /\ v.kind = "vacant" =>
              Older(v).age = IF v.age + 1 <= MaxStall + Grace THEN v.age + 1 ELSE MaxStall + Grace
         /\ v.kind = "doomed" =>
              Older(v).age = IF v.age + 1 <= MaxStall + Recover THEN v.age + 1 ELSE MaxStall + Recover
         /\ IsLive(v) =>
              /\ IsLive(Older(v)) /\ Older(v).charged = v.charged
              /\ DOMAIN Older(v).held = DOMAIN v.held
              /\ \A id \in DOMAIN v.held : Older(v).held[id] >= v.held[id] - 1
<1> USE ConstantFacts
<1>1. CASE v.kind = "missing"
  BY <1>1, ValueFacts, MissingValue DEF Older
<1>2. CASE v.kind = "vacant"
  <2>1. v.age \in Nat /\ v.age + 1 \in Int /\ MaxStall + Grace \in Int
    BY <1>2, ValueFacts
  <2> DEFINE a == IF v.age + 1 <= MaxStall + Grace THEN v.age + 1 ELSE MaxStall + Grace
  <2>2. Older(v) = Vacant(a) /\ a \in Nat
    BY <1>2, <2>1, MinOfTwo DEF Older
  <2> HIDE DEF a
  <2>3. QED
    BY <1>2, <2>2, VacantValue DEF a, IsLive
<1>3. CASE v.kind = "doomed"
  <2>1. v.age \in Nat /\ v.age + 1 \in Int /\ MaxStall + Recover \in Int
    BY <1>3, ValueFacts
  <2> DEFINE a == IF v.age + 1 <= MaxStall + Recover THEN v.age + 1 ELSE MaxStall + Recover
  <2>2. Older(v) = Doomed(a) /\ a \in Nat
    BY <1>3, <2>1, MinOfTwo DEF Older
  <2> HIDE DEF a
  <2>3. QED
    BY <1>3, <2>2, VacantValue DEF a, IsLive
<1>4. CASE v.kind = "live"
  <2> DEFINE h == [id \in DOMAIN v.held |-> Max({v.held[id] - 1, -MaxStall})]
  <2>1. /\ v.held \in Holds /\ v.charged \in BOOLEAN /\ v = Live(v.held, v.charged)
        /\ DOMAIN v.held \in SUBSET Ids
        /\ \A id \in DOMAIN v.held : v.held[id] \in -MaxStall .. 2 * Ttl
    BY <1>4, ValueFacts, HoldsFacts
  <2>2. \A id \in DOMAIN v.held : h[id] \in -MaxStall .. 2 * Ttl /\ h[id] >= v.held[id] - 1
    <3>1. ASSUME NEW id \in DOMAIN v.held
          PROVE  h[id] \in -MaxStall .. 2 * Ttl /\ h[id] >= v.held[id] - 1
      <4>1. v.held[id] - 1 \in Int /\ -MaxStall \in Int
        BY <2>1, <3>1
      <4>2. h[id] = IF v.held[id] - 1 >= -MaxStall THEN v.held[id] - 1 ELSE -MaxStall
        BY <4>1, MaxOfTwo
      <4>3. QED
        BY <4>1, <4>2, <2>1
    <3>2. QED
      BY <3>1
  <2>3. h \in [DOMAIN v.held -> -MaxStall .. 2 * Ttl] /\ DOMAIN h = DOMAIN v.held
    BY <2>2
  <2>4. Older(v) = Live(h, v.charged)
    BY <1>4, <2>1 DEF Older, Live
  <2> HIDE DEF h
  <2>5. h \in Holds
    BY <2>1, <2>3, HoldsIs
  <2>6. QED
    BY <1>4, <2>1, <2>2, <2>3, <2>4, <2>5, LiveValue
<1>5. QED
  BY <1>1, <1>2, <1>3, <1>4, ValueFacts

(* What a sweep makes of a value: what is live stays so with the holds that*)
(* are not due, or is Vacant with none; and only the old change otherwise. *)
LEMMA SweptFacts ==
  ASSUME NEW c, Typed(c), NEW v \in Values
  PROVE  /\ SweptAs(c, v) \in Values
         /\ IsLive(v) =>
              \/ /\ SweptAs(c, v) = Vacant(c.clock_lag) /\ ~v.charged
                 /\ \A id \in DOMAIN v.held : v.held[id] + c.lag <= 0
              \/ /\ IsLive(SweptAs(c, v)) /\ SweptAs(c, v).charged = v.charged
                 /\ DOMAIN SweptAs(c, v).held = {id \in DOMAIN v.held : v.held[id] + c.lag > 0}
                 /\ \A id \in DOMAIN SweptAs(c, v).held : SweptAs(c, v).held[id] = v.held[id]
         /\ v.kind = "vacant" =>
              SweptAs(c, v) = IF Aged(v, Grace, c.clock_lag) THEN Doomed(c.clock_lag) ELSE v
         /\ v.kind = "doomed" =>
              SweptAs(c, v) = IF Aged(v, Recover, c.clock_lag) THEN Vacant(c.clock_lag) ELSE v
         /\ v = Missing => SweptAs(c, v) = Missing
<1>1. c.lag \in Lags /\ c.clock_lag \in Nat
  BY ConstantFacts DEF Typed, Calls
<1>2. Vacant(c.clock_lag) \in Values /\ Doomed(c.clock_lag) \in Values
  BY <1>1, VacantValue
<1>3. CASE IsLive(v)
  <2> DEFINE r == Reclaimed(v, c.lag)
  <2>1. /\ r \in Values /\ IsLive(r) /\ r.charged = v.charged
        /\ DOMAIN r.held = {id \in DOMAIN v.held : v.held[id] + c.lag > 0}
        /\ \A id \in DOMAIN r.held : r.held[id] = v.held[id]
    BY <1>1, <1>3, ReclaimedFacts
  <2>2. v.kind = "live" /\ v # Missing /\ v.held \in Holds
    BY <1>3, ValueFacts
  <2> HIDE DEF r
  <2>3. SweptAs(c, v) = IF IsIdle(r) THEN Vacant(c.clock_lag) ELSE r
    BY <2>2 DEF SweptAs, r
  <2>4. CASE IsIdle(r)
    <3>1. ASSUME NEW id \in DOMAIN v.held PROVE v.held[id] + c.lag <= 0
      <4>1. ~(v.held[id] + c.lag > 0)
        BY <2>1, <2>4 DEF IsIdle
      <4>2. v.held[id] \in Int /\ c.lag \in Int
        BY <2>2, <1>1, HoldsFacts, ConstantFacts
      <4>3. QED
        BY <4>1, <4>2
    <3>2. ~v.charged
      BY <2>1, <2>4 DEF IsIdle
    <3>3. QED
      BY <1>2, <2>2, <2>3, <2>4, <3>1, <3>2
  <2>5. CASE ~IsIdle(r)
    BY <2>1, <2>2, <2>3, <2>5
  <2>6. QED
    BY <2>4, <2>5
<1>4. CASE ~IsLive(v)
  BY <1>2, <1>4, ValueFacts DEF SweptAs
<1>5. QED
  BY <1>3, <1>4

(* What a touch writes is live, keeps the holds that are not due but its   *)
(* own, and if it reserves holds its own for 2 ttl.                        *)
LEMMA UpdatedFacts ==
  ASSUME NEW c, Typed(c)
  PROVE  /\ Updated(c) \in Values /\ IsLive(Updated(c))
         /\ c.op = "reserve" =>
              c.id \in DOMAIN Updated(c).held /\ Updated(c).held[c.id] = 2 * Ttl - c.lag
         /\ IsLive(c.read) =>
              \A id \in DOMAIN c.read.held :
                id # c.id /\ c.read.held[id] > 0 =>
                  id \in DOMAIN Updated(c).held /\ Updated(c).held[id] = c.read.held[id]
<1> DEFINE base == IF IsLive(c.read) THEN c.read ELSE Live(<<>>, FALSE)
           kept == Reclaimed(base, c.lag).held
           others == Restrict(kept, DOMAIN kept \ {c.id})
           granted == [id \in DOMAIN kept \cup {c.id} |->
                         IF id = c.id THEN 2 * Ttl - c.lag ELSE kept[id]]
<1>1. /\ c.lag \in Lags /\ c.read \in Values /\ c.id \in Ids
      /\ c.op \in {"reserve", "commit", "release"} /\ c.lag \in Nat /\ c.lag <= MaxStall
  BY ConstantFacts DEF Typed, Calls
<1>2. <<>> \in Holds
  <2>1. <<>> \in [{} -> -MaxStall .. 2 * Ttl]
    OBVIOUS
  <2>2. QED
    BY <2>1 DEF Holds
<1>3. base \in Values /\ IsLive(base) /\ base.charged \in BOOLEAN
  BY <1>1, <1>2, LiveValue, ValueFacts
<1>4. IsLive(c.read) => base = c.read
  OBVIOUS
<1> HIDE DEF base
<1>5. /\ Reclaimed(base, c.lag) \in Values /\ IsLive(Reclaimed(base, c.lag))
      /\ DOMAIN kept = {id \in DOMAIN base.held : base.held[id] + c.lag > 0}
      /\ \A id \in DOMAIN kept : kept[id] = base.held[id]
  BY <1>1, <1>3, ReclaimedFacts
<1>6. kept \in Holds
  BY <1>5, ValueFacts
<1> HIDE DEF kept
<1>7. /\ DOMAIN kept \subseteq Ids /\ \A id \in DOMAIN kept : kept[id] \in -MaxStall .. 2 * Ttl
      /\ \A id \in DOMAIN base.held : base.held[id] \in Int
  BY <1>3, <1>6, HoldsFacts, ValueFacts, ConstantFacts
<1>8. /\ others \in Holds /\ DOMAIN others = DOMAIN kept \ {c.id}
      /\ \A id \in DOMAIN others : others[id] = kept[id]
  <2>1. DOMAIN kept \ {c.id} \in SUBSET DOMAIN kept
    OBVIOUS
  <2>2. QED
    BY <1>6, <2>1, RestrictHolds
<1>9. 2 * Ttl - c.lag \in -MaxStall .. 2 * Ttl
  BY <1>1, ConstantFacts
<1>10. granted \in Holds
  <2>1. granted \in [DOMAIN kept \cup {c.id} -> -MaxStall .. 2 * Ttl]
    BY <1>7, <1>9
  <2>2. DOMAIN kept \cup {c.id} \in SUBSET Ids
    BY <1>1, <1>7
  <2> HIDE DEF granted
  <2>3. QED
    BY <2>1, <2>2, HoldsIs
<1>11. \A id \in DOMAIN base.held : id # c.id /\ base.held[id] > 0 =>
         id \in DOMAIN kept /\ kept[id] = base.held[id]
  BY <1>1, <1>5, <1>7
<1>12. CASE c.op = "reserve"
  <2>1. Updated(c) = Live(granted, base.charged)
    BY <1>12 DEF Updated, base, kept
  <2>2. /\ c.id \in DOMAIN granted /\ granted[c.id] = 2 * Ttl - c.lag
        /\ \A id \in DOMAIN kept : id # c.id => id \in DOMAIN granted /\ granted[id] = kept[id]
    OBVIOUS
  <2> HIDE DEF granted
  <2>3. /\ Updated(c) \in Values /\ IsLive(Updated(c)) /\ Updated(c).held = granted
    BY <2>1, <1>3, <1>10, LiveValue
  <2>4. QED
    BY <2>2, <2>3, <1>4, <1>11
<1>13. CASE c.op # "reserve"
  <2>1. \E charged \in BOOLEAN : Updated(c) = Live(others, charged)
    <3>1. CASE c.op = "release"
      BY <1>3, <3>1 DEF Updated, base, kept
    <3>2. CASE c.op = "commit"
      BY <1>3, <3>2 DEF Updated, base, kept
    <3>3. QED
      BY <1>1, <1>13, <3>1, <3>2
  <2>2. PICK charged \in BOOLEAN : Updated(c) = Live(others, charged)
    BY <2>1
  <2> HIDE DEF others
  <2>3. /\ Updated(c) \in Values /\ IsLive(Updated(c)) /\ Updated(c).held = others
    BY <2>2, <1>8, LiveValue
  <2>4. QED
    BY <2>3, <1>4, <1>8, <1>11, <1>13
<1>14. QED
  BY <1>12, <1>13

-----------------------------------------------------------------------------
(* The fields of a call.                                                   *)
LEMMA CallFields ==
  ASSUME NEW c \in Calls
  PROVE  /\ c # Idle /\ c.at \in Places
         /\ c.op \in {"reserve", "commit", "release"} /\ c.scope \in Scopes /\ c.id \in Ids
         /\ c.read \in Values /\ c.found \in Values
         /\ c.todo \in SUBSET Scopes /\ c.cursor \in Scopes \cup {NoCursor}
         /\ c.key \in Scopes \cup {0} /\ c.freed \in Nat /\ c.next_idle \in Int
         /\ c.lag \in Lags /\ c.lag \in Nat /\ c.lag <= MaxStall
         /\ c.clock_lag \in Lags /\ c.clock_lag \in Nat /\ c.clock_lag <= MaxStall
         /\ c.linked \in BOOLEAN /\ c.key_linked \in BOOLEAN /\ c.slot \in BOOLEAN
         /\ c.owns \in BOOLEAN /\ c.partial \in BOOLEAN /\ c.swept \in BOOLEAN
         /\ c.why \in {"none", "gc", "cap", "read", "idle"}
<1>1. /\ c.op \in {"reserve", "commit", "release"} /\ c.scope \in Scopes /\ c.id \in Ids
      /\ c.read \in Values /\ c.found \in Values /\ c.at \in Places
      /\ c.todo \in SUBSET Scopes /\ c.cursor \in Scopes \cup {NoCursor}
      /\ c.key \in Scopes \cup {0} /\ c.freed \in Nat /\ c.next_idle \in Int
      /\ c.lag \in Lags /\ c.clock_lag \in Lags
      /\ c.linked \in BOOLEAN /\ c.key_linked \in BOOLEAN /\ c.slot \in BOOLEAN
      /\ c.owns \in BOOLEAN /\ c.partial \in BOOLEAN /\ c.swept \in BOOLEAN
      /\ c.why \in {"none", "gc", "cap", "read", "idle"}
  BY DEF Calls
<1>2. c # Idle
  BY <1>1 DEF Idle, Places
<1>3. QED
  BY <1>1, <1>2, ConstantFacts

(* A call that begins, or begins again, has read nothing yet.              *)
LEMMA AgainFacts ==
  ASSUME NEW c, Typed(c), NEW at \in Places, at \notin {"put", "give_back", "swap"},
         NEW rec \in [Scopes -> Values],
         ~Sweeping([at |-> at])
  PROVE  LET d == Again(c, at)
         IN  /\ d # Idle /\ Typed(d) /\ Sound(d, rec) /\ ~Deleting(d) /\ Slots(d) = 0
             /\ d.id = c.id /\ d.at = at /\ d.scope = c.scope /\ d.freed = 0 /\ d.lag = c.lag
<1> DEFINE d == Again(c, at)
<1>1. /\ d.op = c.op /\ d.scope = c.scope /\ d.id = c.id /\ d.lag = c.lag /\ d.at = at
      /\ d.linked = FALSE /\ d.read = Missing /\ d.slot = FALSE /\ d.found = Missing
      /\ d.freed = 0 /\ d.clock_lag = 0 /\ d.next_idle = 0 /\ d.key_linked = FALSE
  BY DEF Again, NewCall
<1>2. d \in Calls
  <2>1. NewCall(c.op, c.scope, c.id) \in Calls
    <3>1. /\ c.op \in {"reserve", "commit", "release"} /\ c.scope \in Scopes /\ c.id \in Ids
          /\ 0 \in Lags /\ Missing \in Values
      BY ConstantFacts, MissingValue DEF Typed, Calls
    <3>2. QED
      BY <3>1 DEF Calls, NewCall, Places
  <2>2. c.lag \in Lags
    BY DEF Typed, Calls
  <2>3. QED
    BY <2>1, <2>2 DEF Calls, Again
<1>3. ~Sweeping(d) /\ ~Deleting(d)
  BY <1>1 DEF Sweeping, Deleting
<1>4. d # Idle
  BY <1>1 DEF Idle, Places
<1> HIDE DEF d
<1>5. Typed(d)
  <2>1. d.lag \in Nat
    BY <1>2, CallFields DEF d
  <2>2. QED
    BY <1>1, <1>2, <1>3, <2>1, ConstantFacts DEF Typed, d
<1>6. Staged(d)
  BY <1>1, <1>3, MissingValue DEF Staged
<1>7. Sound(d, rec)
  BY <1>1, <1>3, <1>6, MissingValue DEF Sound, Linked, Copies
<1>8. Slots(d) = 0
  BY <1>1 DEF Slots
<1>9. QED
  BY <1>1, <1>3, <1>4, <1>5, <1>7, <1>8 DEF d

(* On to the next key: what a sweep knew of the last one is forgotten.     *)
LEMMA NextKeyFacts ==
  ASSUME NEW c \in Calls, c.clock_lag <= c.lag, c.next_idle <= MaxRescan
  PROVE  LET d == NextKey(c)
         IN  /\ d # Idle /\ Typed(d) /\ ~Deleting(d)
             /\ d.at \in {"visit", "uncount", "done"}
             /\ d.freed > 0 => d.at \in {"visit", "uncount"}
             /\ d.found = Missing
             /\ d.id = c.id /\ d.scope = c.scope /\ d.linked = c.linked /\ d.read = c.read
             /\ d.slot = c.slot /\ d.freed = c.freed /\ d.lag = c.lag
<1> DEFINE d == NextKey(c)
<1>1. CASE c.todo # {}
  <2>1. Min(c.todo) \in c.todo /\ c.todo \in SUBSET Scopes
    <3>1. c.todo \in SUBSET Scopes
      BY DEF Calls
    <3>2. c.todo \subseteq Int /\ \A x \in c.todo : 0 <= x
      BY <3>1 DEF Scopes
    <3>3. QED
      BY <1>1, <3>1, <3>2, MinOf
  <2> DEFINE m == Min(c.todo)
  <2> HIDE DEF m
  <2>2. d = [c EXCEPT !.key_linked = FALSE, !.found = Missing, !.at = "visit", !.key = m,
                      !.todo = @ \ {m}, !.cursor = IF c.partial THEN m ELSE NoCursor]
    BY <1>1 DEF NextKey, m, Calls
  <2>3. m \in Scopes
    BY <2>1 DEF m
  <2>4. d \in Calls
    <3> DEFINE cursor == IF c.partial THEN m ELSE NoCursor
               todo == c.todo \ {m}
    <3>1. Missing \in Values /\ "visit" \in Places
      BY MissingValue DEF Places
    <3>2. cursor \in Scopes \cup {NoCursor} /\ todo \in SUBSET Scopes
      BY <2>1, <2>3
    <3>3. d = [c EXCEPT !.key_linked = FALSE, !.found = Missing, !.at = "visit", !.key = m,
                        !.todo = todo, !.cursor = cursor]
      BY <2>2
    <3> HIDE DEF cursor, todo, d
    <3>4. QED
      BY <2>3, <3>1, <3>2, <3>3 DEF Calls
  <2>5. /\ d.at = "visit" /\ d.key = m /\ d.found = Missing /\ d.clock_lag = c.clock_lag
        /\ d.id = c.id /\ d.scope = c.scope /\ d.linked = c.linked /\ d.read = c.read
        /\ d.slot = c.slot /\ d.freed = c.freed /\ d.lag = c.lag /\ d.next_idle = c.next_idle
    BY <2>2 DEF Calls
  <2> HIDE DEF d
  <2>6. QED
    BY <2>3, <2>4, <2>5 DEF Typed, Deleting, Idle, d
<1>2. CASE c.todo = {}
  <2> DEFINE at == IF c.freed > 0 THEN "uncount" ELSE "done"
  <2>1. d = [c EXCEPT !.key_linked = FALSE, !.found = Missing, !.at = at, !.key = 0, !.clock_lag = 0]
    BY <1>2 DEF NextKey, Calls
  <2>2. d \in Calls
    <3>1. Missing \in Values /\ at \in Places /\ 0 \in Lags
      BY MissingValue, ConstantFacts DEF Places
    <3> HIDE DEF at
    <3>2. QED
      BY ZenonT(40), <2>1, <3>1 DEF Calls
  <2>3. /\ d.at = at /\ d.found = Missing /\ d.clock_lag = 0
        /\ d.id = c.id /\ d.scope = c.scope /\ d.linked = c.linked /\ d.read = c.read
        /\ d.slot = c.slot /\ d.freed = c.freed /\ d.lag = c.lag /\ d.next_idle = c.next_idle
    BY <2>1 DEF Calls
  <2>4. d.lag \in Nat
    BY <2>2, ConstantFacts DEF Calls
  <2> HIDE DEF d
  <2>5. QED
    BY <2>2, <2>3, <2>4 DEF Typed, Deleting, Sweeping, Idle, d
<1>3. QED
  BY <1>1, <1>2

-----------------------------------------------------------------------------
(* Types.  A worker goes on with a call that is well formed.               *)
LEMMA TypedIs ==
  ASSUME NEW c, Typed(c), NEW d \in Calls, d.clock_lag = c.clock_lag, d.lag = c.lag,
         d.next_idle = c.next_idle, d.key = c.key, Sweeping(d) => Sweeping(c)
  PROVE  Typed(d)
BY DEF Typed

(* A worker at a place of a call runs a well-formed one,                   *)
LEMMA RunningCall ==
  ASSUME CallsTyped, NEW w \in Workers, call[w].at \in Places
  PROVE  call[w] # Idle /\ Typed(call[w]) /\ call[w] \in Calls
BY DEF CallsTyped, Typed, Idle, Places

(* and one that goes on with such a call, or ends it, leaves all of them   *)
(* so.                                                                     *)
LEMMA GoTyped ==
  ASSUME CallsTyped, NEW w \in Workers, NEW d, d = Idle \/ Typed(d), Go(w, d)
  PROVE  CallsTyped'
BY DEF CallsTyped, Go

(* A write of a key takes nothing but links to it from a call.             *)
LEMMA UnlinkedTyped ==
  ASSUME NEW c, c = Idle \/ Typed(c), NEW s
  PROVE  /\ c = Idle => Unlinked(c, s) = Idle
         /\ c # Idle =>
              LET d == Unlinked(c, s)
              IN  /\ Typed(d) /\ d # Idle
                  /\ d.op = c.op /\ d.scope = c.scope /\ d.id = c.id /\ d.lag = c.lag /\ d.at = c.at
                  /\ d.read = c.read /\ d.slot = c.slot /\ d.clock_lag = c.clock_lag
                  /\ d.key = c.key /\ d.found = c.found /\ d.freed = c.freed
                  /\ d.linked => c.linked /\ c.scope # s
                  /\ d.key_linked => c.key_linked /\ c.key # s
<1>1. CASE c = Idle
  BY <1>1 DEF Unlinked
<1>2. CASE c # Idle
  <2>1. c \in Calls
    BY <1>2 DEF Typed
  <2> DEFINE l == c.linked /\ c.scope # s
             k == c.key_linked /\ c.key # s
             d == [c EXCEPT !.linked = l, !.key_linked = k]
  <2>2. Unlinked(c, s) = d
    BY <1>2, <2>1 DEF Unlinked, Calls
  <2>3. l \in BOOLEAN /\ k \in BOOLEAN
    OBVIOUS
  <2>4. (l => c.linked /\ c.scope # s) /\ (k => c.key_linked /\ c.key # s)
    OBVIOUS
  <2> HIDE DEF l, k
  <2>5. /\ d \in Calls
        /\ d.op = c.op /\ d.scope = c.scope /\ d.id = c.id /\ d.lag = c.lag /\ d.at = c.at
        /\ d.read = c.read /\ d.slot = c.slot /\ d.clock_lag = c.clock_lag
        /\ d.key = c.key /\ d.found = c.found /\ d.freed = c.freed /\ d.next_idle = c.next_idle
        /\ d.linked = l /\ d.key_linked = k
    BY <2>1, <2>3 DEF Calls
  <2> HIDE DEF d
  <2>6. Typed(d) /\ d # Idle
    BY <1>2, <2>5, TypedIs, CallFields DEF Sweeping
  <2>7. QED
    BY <1>2, <2>2, <2>4, <2>5, <2>6
<1>3. QED
  BY <1>1, <1>2

(* So writes of a record keep the types,                                   *)
LEMMA WriteTyped ==
  ASSUME CallsTyped, record \in [Scopes -> Values], NEW w \in Workers,
         NEW d, d = Idle \/ Typed(d), NEW s \in Scopes, NEW value \in Values,
         Write(w, d, s, value)
  PROVE  CallsTyped' /\ record' \in [Scopes -> Values]
<1>1. \A v \in Workers : LET e == IF v = w THEN d ELSE call[v] IN e = Idle \/ Typed(e)
  BY DEF CallsTyped
<1>2. \A v \in Workers : call'[v] = Unlinked(IF v = w THEN d ELSE call[v], s)
  BY DEF Write
<1>3. \A v \in Workers : call'[v] = Idle \/ Typed(call'[v])
  BY <1>1, <1>2, UnlinkedTyped
<1>4. call' = [v \in Workers |-> call'[v]]
  BY DEF Write
<1>5. QED
  BY <1>3, <1>4 DEF CallsTyped, Write

(* and so do writes of the sweep key.                                      *)
LEMMA WriteSweepTyped ==
  ASSUME CallsTyped, NEW w \in Workers, NEW d, d = Idle \/ Typed(d), NEW value,
         WriteSweep(w, d, value)
  PROVE  CallsTyped'
<1>1. ASSUME NEW v \in Workers PROVE call'[v] = Idle \/ Typed(call'[v])
  <2>1. CASE v = w
    BY <2>1 DEF WriteSweep
  <2>2. CASE v # w /\ call[v] = Idle
    BY <2>2 DEF WriteSweep
  <2>3. CASE v # w /\ call[v] # Idle
    <3> DEFINE c == call[v]
               e == [c EXCEPT !.owns = FALSE]
    <3>1. Typed(c) /\ c \in Calls
      BY <2>3 DEF CallsTyped, Typed
    <3>2. call'[v] = e
      BY <2>3 DEF WriteSweep
    <3> HIDE DEF c
    <3>3. /\ e \in Calls /\ e.clock_lag = c.clock_lag /\ e.lag = c.lag /\ e.at = c.at
          /\ e.next_idle = c.next_idle /\ e.key = c.key
      BY <3>1 DEF Calls
    <3> HIDE DEF e
    <3>4. Typed(e)
      BY <3>1, <3>3, TypedIs DEF Sweeping
    <3>5. QED
      BY <3>2, <3>4
  <2>4. QED
    BY <2>1, <2>2, <2>3
<1>2. call' = [v \in Workers |-> call'[v]]
  BY DEF WriteSweep
<1>3. QED
  BY <1>1, <1>2 DEF CallsTyped

-----------------------------------------------------------------------------
(* The reservations that are open.                                         *)
LEMMA OpenFacts ==
  ASSUME open \in OpenMaps
  PROVE  /\ DOMAIN open \in SUBSET Ids
         /\ open \in [DOMAIN open -> [scope : Scopes, left : -MaxStall .. 2 * Ttl]]
BY DEF OpenMaps

(* A call that begins knows nothing yet, and holds no slot.                *)
LEMMA NewCallTyped ==
  ASSUME NEW op \in {"reserve", "commit", "release"}, NEW s \in Scopes, NEW id \in Ids,
         NEW rec \in [Scopes -> Values]
  PROVE  LET d == NewCall(op, s, id)
         IN  Typed(d) /\ d # Idle /\ Sound(d, rec) /\ ~Deleting(d) /\ Slots(d) = 0 /\ d.id = id
<1> DEFINE d == NewCall(op, s, id)
<1>1. 0 \in Lags /\ Missing \in Values
  BY ConstantFacts, MissingValue
<1>2. d \in Calls
  BY <1>1 DEF Calls, NewCall, Places
<1>3. /\ d.id = id /\ d.at = "read" /\ d.lag = 0 /\ d.clock_lag = 0 /\ d.next_idle = 0
      /\ d.read = Missing /\ d.found = Missing /\ ~d.slot /\ ~d.linked /\ d.freed = 0
  BY DEF NewCall
<1> HIDE DEF d
<1>4. ~Sweeping(d) /\ ~Deleting(d)
  BY <1>3 DEF Sweeping, Deleting
<1>5. Typed(d) /\ d # Idle
  BY <1>2, <1>3, <1>4, ConstantFacts, CallFields DEF Typed
<1>6. Sound(d, rec)
  BY <1>3, <1>4, MissingValue DEF Sound, Staged, Linked, Copies
<1>7. Slots(d) = 0
  BY <1>3 DEF Slots
<1>8. QED
  BY <1>3, <1>4, <1>5, <1>6, <1>7 DEF d

LEMMA ReserveTyped ==
  ASSUME TypeInv, NEW w \in Workers, NEW s \in Scopes, NEW id \in Ids, Reserve(w, s, id)
  PROVE  TypeInv'
<1> DEFINE d == NewCall("reserve", s, id)
           e == [d EXCEPT !.at = "gc"]
<1>1. Typed(d) /\ Typed(e)
  <2>1. Typed(d) /\ d \in Calls /\ d.at = "read"
    BY NewCallTyped DEF TypeInv, Typed, NewCall
  <2> HIDE DEF d
  <2>2. /\ e \in Calls /\ e.clock_lag = d.clock_lag /\ e.lag = d.lag /\ e.next_idle = d.next_idle
        /\ e.key = d.key /\ e.at = "gc"
    BY <2>1 DEF Calls, Places
  <2>3. QED
    BY <2>1, <2>2, TypedIs DEF Sweeping
<1>2. \E c \in {d, e} : Go(w, c)
  BY DEF Reserve
<1> HIDE DEF d, e
<1>3. CallsTyped'
  BY <1>1, <1>2, GoTyped DEF TypeInv
<1>4. next_check' \in [Workers -> -MaxStall .. GcInterval]
  BY ConstantFacts DEF TypeInv, Reserve
<1>5. QED
  BY <1>3, <1>4 DEF TypeInv, Reserve, shared

(* A reservation that is settled or forgotten leaves the others.           *)
LEMMA OpenWithout ==
  ASSUME open \in OpenMaps, NEW D \in SUBSET DOMAIN open
  PROVE  /\ Restrict(open, D) \in OpenMaps /\ DOMAIN Restrict(open, D) = D
         /\ \A id \in D : Restrict(open, D)[id] = open[id]
<1>1. /\ D \in SUBSET Ids
      /\ Restrict(open, D) \in [D -> [scope : Scopes, left : -MaxStall .. 2 * Ttl]]
  BY OpenFacts DEF Restrict
<1>2. QED
  BY <1>1 DEF OpenMaps, Restrict

LEMMA SettleTyped ==
  ASSUME TypeInv, NEW w \in Workers, NEW id \in DOMAIN open, NEW op \in Settlements,
         Settle(w, id, op)
  PROVE  TypeInv'
<1>1. op \in {"reserve", "commit", "release"} /\ id \in Ids /\ open[id].scope \in Scopes
  BY OpenFacts, SlotsAssumption DEF TypeInv
<1>2. Typed(NewCall(op, open[id].scope, id))
  BY <1>1, NewCallTyped DEF TypeInv
<1>3. CallsTyped'
  BY <1>2, GoTyped DEF TypeInv, Settle
<1>4. open' \in OpenMaps
  <2>1. DOMAIN open \ {id} \in SUBSET DOMAIN open
    OBVIOUS
  <2>2. QED
    BY <2>1, OpenWithout DEF TypeInv, Settle
<1>5. QED
  BY <1>3, <1>4 DEF TypeInv, Settle, shared

LEMMA ForgetTyped ==
  ASSUME TypeInv, NEW id \in DOMAIN open, Forget(id)
  PROVE  TypeInv'
<1>1. open' \in OpenMaps
  <2>1. DOMAIN open \ {id} \in SUBSET DOMAIN open
    OBVIOUS
  <2>2. QED
    BY <2>1, OpenWithout DEF TypeInv, Forget
<1>2. QED
  BY <1>1 DEF TypeInv, Forget, shared, CallsTyped

LEMMA RestartTyped ==
  ASSUME TypeInv, NEW w \in Workers, Restart(w)
  PROVE  TypeInv'
<1>1. CallsTyped'
  BY GoTyped DEF TypeInv, Restart
<1>2. next_check' \in [Workers -> -MaxStall .. GcInterval]
  BY ConstantFacts DEF TypeInv, Restart
<1>3. leaked' \in Int /\ seen' \in Nat
  <2>1. Slots(call[w]) \in Nat
    BY CallFields DEF Slots, TypeInv, CallsTyped, Typed
  <2>2. QED
    BY <2>1 DEF TypeInv, Restart, Fails
<1>4. QED
  BY <1>1, <1>2, <1>3 DEF TypeInv, Restart, shared

-----------------------------------------------------------------------------
(* A call moves on within its attempt.                                     *)
LEMMA CheckGcTyped ==
  ASSUME TypeInv, NEW w \in Workers, CheckGc(w)
  PROVE  TypeInv'
<1> DEFINE c == call[w]
           d == [c EXCEPT !.at = "read"]
           e == [c EXCEPT !.at = "claim", !.why = "gc", !.owns = TRUE]
<1>1. Typed(c) /\ c \in Calls
  BY RunningCall DEF TypeInv, CheckGc, Places
<1>2. Go(w, d) \/ Go(w, e)
  BY DEF CheckGc
<1> HIDE DEF c
<1>3. Typed(d) /\ Typed(e)
  <2>1. /\ d \in Calls /\ d.clock_lag = c.clock_lag /\ d.lag = c.lag /\ d.next_idle = c.next_idle
        /\ d.key = c.key /\ d.at = "read"
        /\ e \in Calls /\ e.clock_lag = c.clock_lag /\ e.lag = c.lag /\ e.next_idle = c.next_idle
        /\ e.key = c.key /\ e.at = "claim"
    BY <1>1 DEF Calls, Places
  <2>2. QED
    BY <1>1, <2>1, TypedIs DEF Sweeping
<1> HIDE DEF d, e
<1>4. CallsTyped'
  BY <1>2, <1>3, GoTyped DEF TypeInv
<1>5. QED
  BY <1>4 DEF TypeInv, CheckGc, shared

(* What an attempt has read.                                               *)
LEMMA ReadRecordFacts ==
  ASSUME TypeInv, NEW w \in Workers, ReadRecord(w)
  PROVE  LET c == call[w] value == record[c.scope]
         IN  /\ Typed(c) /\ c # Idle
             /\ \/ Go(w, Idle)
                \/ \E d : /\ Go(w, d) /\ Typed(d) /\ d.id = c.id /\ d.scope = c.scope /\ d.key = c.key
                          /\ d.slot = c.slot /\ d.freed = c.freed /\ d.found = c.found
                          /\ d.lag = c.lag
                          /\ IF IsLive(value)
                             THEN d.at = "put" /\ d.read = value /\ d.linked
                             ELSE /\ d.at = "slot" /\ d.read = Missing
                                  /\ value.kind # "doomed" /\ (d.linked <=> value # Missing)
<1> DEFINE c == call[w]
           value == record[c.scope]
           linked == value # Missing
           read == IF IsLive(value) THEN value ELSE Missing
           next == [c EXCEPT !.linked = linked, !.swept = FALSE, !.read = read]
           d == [next EXCEPT !.at = "put"]
           e == [next EXCEPT !.at = "slot"]
<1>1. Typed(c) /\ c \in Calls /\ c # Idle
  BY RunningCall DEF TypeInv, ReadRecord, Places
<1>2. value \in Values
  BY <1>1, CallFields DEF TypeInv
<1>3. /\ IsLive(value) => Go(w, d)
      /\ ~IsLive(value) => Go(w, Idle) \/ (value.kind # "doomed" /\ Go(w, e))
  BY DEF ReadRecord
<1>4. linked \in BOOLEAN /\ read \in Values /\ (IsLive(value) => linked)
  BY <1>2, MissingValue, ValueFacts
<1> HIDE DEF c, value
<1>5. (linked <=> value # Missing) /\ read = IF IsLive(value) THEN value ELSE Missing
  OBVIOUS
<1> HIDE DEF linked, read
<1>6. ASSUME NEW at \in {"put", "slot"}
      PROVE  LET x == [next EXCEPT !.at = at]
             IN  /\ Typed(x) /\ x.id = c.id /\ x.scope = c.scope /\ x.key = c.key
                 /\ x.slot = c.slot /\ x.freed = c.freed /\ x.found = c.found /\ x.lag = c.lag
                 /\ x.at = at /\ x.read = read /\ x.linked = linked
  <2> DEFINE x == [next EXCEPT !.at = at]
  <2>1. at \in Places
    BY DEF Places
  <2>2. next \in Calls
    BY <1>1, <1>4 DEF Calls
  <2>3. /\ next.clock_lag = c.clock_lag /\ next.lag = c.lag /\ next.next_idle = c.next_idle
        /\ next.key = c.key /\ next.id = c.id /\ next.scope = c.scope /\ next.slot = c.slot
        /\ next.freed = c.freed /\ next.found = c.found /\ next.read = read /\ next.linked = linked
    BY <1>1 DEF Calls
  <2> HIDE DEF next
  <2>4. /\ x \in Calls /\ x.clock_lag = c.clock_lag /\ x.lag = c.lag /\ x.next_idle = c.next_idle
        /\ x.key = c.key /\ x.id = c.id /\ x.scope = c.scope /\ x.slot = c.slot
        /\ x.freed = c.freed /\ x.found = c.found /\ x.read = read /\ x.linked = linked
        /\ x.at = at
    BY <2>1, <2>2, <2>3 DEF Calls
  <2> HIDE DEF x
  <2>5. Typed(x)
    BY <1>1, <2>4, TypedIs DEF Sweeping
  <2>6. QED
    BY <2>4, <2>5 DEF x
<1> HIDE DEF next
<1>7. CASE IsLive(value)
  <2>1. Go(w, d)
    BY <1>3, <1>7
  <2>2. QED
    BY <1>1, <1>4, <1>5, <1>6, <1>7, <2>1 DEF c, value
<1>8. CASE ~IsLive(value)
  <2>1. Go(w, Idle) \/ (value.kind # "doomed" /\ Go(w, e))
    BY <1>3, <1>8
  <2>2. QED
    BY <1>1, <1>5, <1>6, <1>8, <2>1 DEF c, value
<1>9. QED
  BY <1>7, <1>8

LEMMA ReadRecordTyped ==
  ASSUME TypeInv, NEW w \in Workers, ReadRecord(w)
  PROVE  TypeInv'
<1>1. CallsTyped'
  BY ReadRecordFacts, GoTyped DEF TypeInv
<1>2. QED
  BY <1>1 DEF TypeInv, ReadRecord, shared

LEMMA AcquireSlotTyped ==
  ASSUME TypeInv, NEW w \in Workers, AcquireSlot(w)
  PROVE  TypeInv'
<1> DEFINE c == call[w]
           d == [c EXCEPT !.at = "put", !.slot = TRUE]
           e == [c EXCEPT !.at = "cap"]
<1>1. Typed(c) /\ c \in Calls
  BY RunningCall DEF TypeInv, AcquireSlot, Places
<1>2. Go(w, d) \/ Go(w, e) \/ Go(w, Idle)
  BY DEF AcquireSlot
<1>3. n' \in Nat /\ leaked' \in Int /\ seen' \in Nat
  BY DEF AcquireSlot, TypeInv, Works, Fails
<1> HIDE DEF c
<1>4. Typed(d) /\ Typed(e)
  <2>1. /\ d \in Calls /\ d.clock_lag = c.clock_lag /\ d.lag = c.lag /\ d.next_idle = c.next_idle
        /\ d.key = c.key /\ d.at = "put"
        /\ e \in Calls /\ e.clock_lag = c.clock_lag /\ e.lag = c.lag /\ e.next_idle = c.next_idle
        /\ e.key = c.key /\ e.at = "cap"
    BY <1>1 DEF Calls, Places
  <2>2. QED
    BY <1>1, <2>1, TypedIs DEF Sweeping
<1> HIDE DEF d, e
<1>5. CallsTyped'
  BY <1>2, <1>4, GoTyped DEF TypeInv
<1>6. QED
  BY <1>3, <1>5 DEF TypeInv, AcquireSlot

LEMMA AtCapTyped ==
  ASSUME TypeInv, NEW w \in Workers, AtCap(w)
  PROVE  TypeInv'
<1> DEFINE c == call[w]
           e == [c EXCEPT !.at = "claim", !.why = "cap", !.owns = TRUE]
<1>1. Typed(c) /\ c \in Calls
  BY RunningCall DEF TypeInv, AtCap, Places
<1>2. Go(w, e) \/ Go(w, Idle)
  BY DEF AtCap
<1> HIDE DEF c
<1>3. Typed(e)
  <2>1. /\ e \in Calls /\ e.clock_lag = c.clock_lag /\ e.lag = c.lag /\ e.next_idle = c.next_idle
        /\ e.key = c.key /\ e.at = "claim"
    BY <1>1 DEF Calls, Places
  <2>2. QED
    BY <1>1, <2>1, TypedIs DEF Sweeping
<1> HIDE DEF e
<1>4. CallsTyped'
  BY <1>2, <1>3, GoTyped DEF TypeInv
<1>5. QED
  BY <1>4 DEF TypeInv, AtCap, shared

(* An attempt that wrote is over, or looks at the sweep key.               *)
LEMMA AfterPutFacts ==
  ASSUME NEW c, Typed(c), NEW rec \in [Scopes -> Values]
  PROVE  \/ AfterPut(c) = Idle
         \/ LET d == AfterPut(c)
            IN  /\ d # Idle /\ Typed(d) /\ Sound(d, rec) /\ ~Deleting(d) /\ Slots(d) = 0
                /\ d.id = c.id /\ d.at = "hint" /\ c.op # "reserve"
<1>1. "hint" \in Places /\ ~Sweeping([at |-> "hint"])
  BY DEF Places, Sweeping
<1>2. QED
  BY <1>1, AgainFacts DEF AfterPut

(* An attempt that did not write keeps its slot until it gives it back.    *)
LEMMA LostSlotFacts ==
  ASSUME NEW c, Typed(c), NEW next, next \in {Idle, Again(c, "read")},
         NEW rec \in [Scopes -> Values]
  PROVE  LET d == LostSlot(c, next)
         IN  /\ d = Idle => ~c.slot
             /\ d # Idle => /\ Typed(d) /\ Sound(d, rec) /\ ~Deleting(d)
                            /\ d.id = c.id /\ Slots(d) = IF c.slot THEN 1 ELSE 0
<1> DEFINE a == Again(c, "give_back")
           why == next.at
           d == [a EXCEPT !.slot = TRUE, !.why = why]
<1>0. "read" \in Places /\ ~Sweeping([at |-> "read"])
  BY DEF Places, Sweeping
<1>1. /\ Again(c, "read") # Idle /\ Typed(Again(c, "read")) /\ Sound(Again(c, "read"), rec)
      /\ ~Deleting(Again(c, "read")) /\ Slots(Again(c, "read")) = 0
      /\ Again(c, "read").id = c.id /\ Again(c, "read").at = "read"
  BY <1>0, AgainFacts
<1>2. why \in {"read", "idle"}
  BY <1>1 DEF Idle
<1>3. CASE ~c.slot
  BY <1>1, <1>3 DEF LostSlot
<1>4. CASE c.slot
  <2>1. LostSlot(c, next) = d
    BY <1>4 DEF LostSlot
  <2>2. /\ a.op = c.op /\ a.scope = c.scope /\ a.id = c.id /\ a.lag = c.lag /\ a.at = "give_back"
        /\ ~a.linked /\ a.read = Missing /\ a.found = Missing
        /\ a.freed = 0 /\ a.clock_lag = 0 /\ a.next_idle = 0 /\ ~a.key_linked
    BY DEF Again, NewCall
  <2>3. a \in Calls
    <3>1. Typed(NewCall(c.op, c.scope, c.id))
      BY NewCallTyped, CallFields DEF Typed
    <3>2. c.lag \in Lags /\ "give_back" \in Places
      BY CallFields DEF Typed, Places
    <3>3. NewCall(c.op, c.scope, c.id) \in Calls
      BY <3>1 DEF Typed
    <3> DEFINE b == NewCall(c.op, c.scope, c.id)
    <3>4. a = [b EXCEPT !.lag = c.lag, !.at = "give_back"]
      BY DEF Again
    <3> HIDE DEF a, b
    <3>5. QED
      BY <3>2, <3>3, <3>4 DEF Calls, b
  <2> HIDE DEF a, why
  <2>4. /\ d.scope = c.scope /\ d.id = c.id /\ d.lag = c.lag /\ d.at = "give_back"
        /\ ~d.linked /\ d.read = Missing /\ d.found = Missing /\ d.slot
        /\ d.freed = 0 /\ d.clock_lag = 0 /\ d.next_idle = 0 /\ ~d.key_linked
    BY <2>2, <2>3 DEF Calls
  <2>5. d \in Calls
    BY <1>2, <2>3 DEF Calls
  <2> HIDE DEF d
  <2>6. ~Sweeping(d) /\ ~Deleting(d)
    BY <2>4 DEF Sweeping, Deleting
  <2>7. Typed(d) /\ d # Idle
    BY <2>4, <2>5, <2>6, CallFields, ConstantFacts DEF Typed
  <2>8. Sound(d, rec)
    BY <2>4, <2>6, MissingValue DEF Sound, Staged, Linked, Copies
  <2>9. Slots(d) = 1
    BY <2>4, <2>7 DEF Slots
  <2>10. QED
    BY <1>4, <2>1, <2>4, <2>6, <2>7, <2>8, <2>9
<1>5. QED
  BY <1>3, <1>4

(* What a grant adds to the reservations that are open.                    *)
LEMMA GrantedFacts ==
  ASSUME open \in OpenMaps, NEW c, Typed(c), Granted(c)
  PROVE  /\ open' \in OpenMaps
         /\ c.op # "reserve" => open' = open
         /\ c.op = "reserve" =>
              /\ DOMAIN open' = DOMAIN open \cup {c.id}
              /\ open'[c.id].scope = c.scope /\ open'[c.id].left = 2 * Ttl - c.lag
              /\ \A id \in DOMAIN open : id # c.id => open'[id] = open[id]
<1> DEFINE g == [scope |-> c.scope, left |-> 2 * Ttl - c.lag]
<1>1. g \in [scope : Scopes, left : -MaxStall .. 2 * Ttl] /\ c.id \in Ids
  BY CallFields, ConstantFacts DEF Typed
<1>2. CASE c.op = "reserve"
  <2>1. open' = [id \in DOMAIN open \cup {c.id} |-> IF id = c.id THEN g ELSE open[id]]
    BY <1>2 DEF Granted
  <2>2. g.scope = c.scope /\ g.left = 2 * Ttl - c.lag
    OBVIOUS
  <2> HIDE DEF g
  <2>3. /\ DOMAIN open \cup {c.id} \in SUBSET Ids
        /\ open' \in [DOMAIN open \cup {c.id} -> [scope : Scopes, left : -MaxStall .. 2 * Ttl]]
    BY <1>1, <2>1, OpenFacts
  <2>4. QED
    BY <1>2, <2>1, <2>2, <2>3 DEF OpenMaps
<1>3. CASE c.op # "reserve"
  BY <1>3 DEF Granted
<1>4. QED
  BY <1>2, <1>3

LEMMA PutRecordTyped ==
  ASSUME TypeInv, NEW w \in Workers, PutRecord(w)
  PROVE  TypeInv'
<1> DEFINE c == call[w]
<1>1. /\ Typed(c) /\ c \in Calls /\ c.scope \in Scopes
  BY RunningCall, CallFields DEF TypeInv, PutRecord, Places
<1>2. Updated(c) \in Values
  BY <1>1, UpdatedFacts
<1>3. seen' \in Nat
  BY DEF PutRecord, TypeInv, Works, Fails
<1>4. leaked' \in Int
  BY DEF PutRecord, TypeInv
<1>5. /\ AfterPut(c) = Idle \/ Typed(AfterPut(c))
      /\ \A next \in {Idle, Again(c, "read")} :
           LostSlot(c, next) = Idle \/ Typed(LostSlot(c, next))
  BY <1>1, AfterPutFacts, LostSlotFacts DEF TypeInv
<1>6. open' \in OpenMaps
  BY <1>1, GrantedFacts DEF PutRecord, TypeInv
<1>7. \/ Go(w, Idle) /\ record' = record
      \/ \E next \in {Idle, Again(c, "read")} : Go(w, LostSlot(c, next)) /\ record' = record
      \/ Write(w, AfterPut(c), c.scope, Updated(c))
      \/ Write(w, LostSlot(c, Idle), c.scope, Updated(c))
  BY DEF PutRecord
<1> HIDE DEF c
<1>8. CallsTyped' /\ record' \in [Scopes -> Values]
  BY <1>1, <1>2, <1>5, <1>7, GoTyped, WriteTyped DEF TypeInv
<1>9. QED
  BY <1>3, <1>4, <1>6, <1>8 DEF TypeInv, PutRecord

(* What is taken off the count, and is not, leaks.                         *)
LEMMA TakeOffFacts ==
  ASSUME n \in Nat, leaked \in Int, seen \in Nat, NEW slots \in Nat, TakeOff(slots)
  PROVE  /\ n' \in Nat /\ leaked' \in Int /\ seen' \in Nat
         /\ n' + slots = n + leaked' - leaked
         /\ leaked' >= leaked /\ n' <= n
<1>1. Decrement(slots) = IF 0 >= n - slots THEN 0 ELSE n - slots
  BY MaxOfTwo DEF Decrement
<1>2. QED
  BY <1>1 DEF TakeOff, Works, Fails

LEMMA GiveBackTyped ==
  ASSUME TypeInv, NEW w \in Workers, GiveBack(w)
  PROVE  TypeInv'
<1> DEFINE c == call[w]
<1>1. Typed(c)
  BY RunningCall DEF TypeInv, GiveBack, Places
<1>2. Typed(Again(c, "read"))
  BY <1>1, AgainFacts DEF Places, Sweeping, TypeInv
<1>3. Go(w, Idle) \/ Go(w, Again(c, "read"))
  BY DEF GiveBack
<1> HIDE DEF c
<1>4. CallsTyped'
  BY <1>2, <1>3, GoTyped DEF TypeInv
<1>5. n' \in Nat /\ leaked' \in Int /\ seen' \in Nat
  BY TakeOffFacts DEF TypeInv, GiveBack
<1>6. QED
  BY <1>4, <1>5 DEF TypeInv, GiveBack

LEMMA HintIdleTyped ==
  ASSUME TypeInv, NEW w \in Workers, HintIdle(w)
  PROVE  TypeInv'
<1> DEFINE c == call[w]
           e == [c EXCEPT !.at = "hinting", !.owns = TRUE]
<1>1. Typed(c) /\ c \in Calls
  BY RunningCall DEF TypeInv, HintIdle, Places
<1>2. Go(w, e) \/ Go(w, Idle)
  BY DEF HintIdle
<1> HIDE DEF c
<1>3. Typed(e)
  <2>1. /\ e \in Calls /\ e.clock_lag = c.clock_lag /\ e.lag = c.lag /\ e.next_idle = c.next_idle
        /\ e.key = c.key /\ e.at = "hinting"
    BY <1>1 DEF Calls, Places
  <2>2. QED
    BY <1>1, <2>1, TypedIs DEF Sweeping
<1> HIDE DEF e
<1>4. CallsTyped'
  BY <1>2, <1>3, GoTyped DEF TypeInv
<1>5. QED
  BY <1>4 DEF TypeInv, HintIdle, shared

LEMMA HintTyped ==
  ASSUME TypeInv, NEW w \in Workers, Hint(w)
  PROVE  TypeInv'
<1> DEFINE c == call[w]
           value == [sweep EXCEPT !.not_before = Soonest(c)]
<1>1. Typed(c) /\ c \in Calls
  BY RunningCall DEF TypeInv, Hint, Places
<1>2. c.lag \in Nat /\ c.lag <= MaxStall
  BY <1>1, CallFields
<1>3. Soonest(c) \in -MaxStall .. MaxRescan
  <2>1. sweep.next_gc \in Int /\ sweep.next_gc <= GcInterval
    BY ConstantFacts DEF TypeInv, SweepKeys
  <2>2. /\ sweep.next_gc - GcInterval + MinRescan \in Int /\ -c.lag \in Int
        /\ sweep.next_gc - GcInterval + MinRescan <= MaxRescan
    BY <1>2, <2>1, ConstantFacts
  <2>3. QED
    BY <1>2, <2>2, MaxOfTwo, ConstantFacts DEF Soonest
<1>4. value \in SweepKeys
  BY <1>3 DEF TypeInv, SweepKeys
<1>5. WriteSweep(w, Idle, value) \/ (Go(w, Idle) /\ sweep' = sweep)
  BY DEF Hint
<1> HIDE DEF c, value
<1>6. CallsTyped' /\ sweep' \in SweepKeys
  BY <1>4, <1>5, GoTyped, WriteSweepTyped DEF TypeInv, WriteSweep
<1>7. QED
  BY <1>6 DEF TypeInv, Hint

-----------------------------------------------------------------------------
(* A call whose sweep is over, or that lost its claim, holds no slot and   *)
(* knows what it had read.                                                 *)
LEMMA UnsweptFacts ==
  ASSUME NEW c, Typed(c), c.at \in {"claim", "done"}, NEW rec \in [Scopes -> Values]
  PROVE  LET d == Unswept(c)
         IN  d # Idle => /\ Typed(d) /\ ~Deleting(d) /\ d.id = c.id /\ Slots(d) = 0
                         /\ Sound(c, rec) => Sound(d, rec)
<1>0. /\ "read" \in Places /\ ~Sweeping([at |-> "read"])
      /\ "slot" \in Places /\ ~Sweeping([at |-> "slot"])
  BY DEF Places, Sweeping
<1> DEFINE a == Again(c, "slot")
           d == [a EXCEPT !.linked = c.linked, !.read = c.read, !.swept = TRUE]
<1>1. Unswept(c) \in {Again(c, "read"), Idle, d}
  BY DEF Unswept
<1>2. /\ Typed(Again(c, "read")) /\ Sound(Again(c, "read"), rec)
      /\ ~Deleting(Again(c, "read")) /\ Slots(Again(c, "read")) = 0
      /\ Again(c, "read").id = c.id
  BY <1>0, AgainFacts
<1>3. /\ Typed(a) /\ a \in Calls /\ a.at = "slot" /\ a.id = c.id /\ a.scope = c.scope /\ a.freed = 0
      /\ a.lag = c.lag /\ a.clock_lag = 0 /\ ~a.slot /\ a.found = Missing /\ a.key = 0
  BY ZenonT(40), <1>0, AgainFacts DEF Typed, Again, NewCall
<1>4. c.linked \in BOOLEAN /\ c.read \in Values
  BY CallFields DEF Typed
<1> HIDE DEF a
<1>5. d \in Calls /\ d.linked = c.linked /\ d.read = c.read
  BY <1>3, <1>4 DEF Calls
<1>6. /\ d.at = "slot" /\ d.id = c.id /\ d.scope = c.scope /\ d.freed = 0 /\ d.lag = c.lag
      /\ d.clock_lag = a.clock_lag /\ d.next_idle = a.next_idle /\ d.key = a.key
      /\ ~d.slot /\ d.found = Missing /\ d.lag = a.lag
  BY <1>3 DEF Calls
<1> HIDE DEF d
<1>7. ~Sweeping(d) /\ ~Deleting(d)
  BY <1>6 DEF Sweeping, Deleting
<1>8. Typed(d)
  BY <1>3, <1>5, <1>6, <1>7, TypedIs
<1>9. Slots(d) = 0
  BY <1>6 DEF Slots
<1>10. Sound(c, rec) => Sound(d, rec)
  <2>1. ASSUME Sound(c, rec) PROVE Sound(d, rec)
    <3>1. ~IsLive(c.read)
      BY <2>1 DEF Sound, Staged
    <3>2. Linked(d, rec)
      BY <2>1, <1>5, <1>6 DEF Sound, Linked
    <3>3. QED
      BY <3>1, <3>2, <1>5, <1>6, <1>7, MissingValue DEF Sound, Staged, Copies
  <2>2. QED
    BY <2>1
<1>11. QED
  BY <1>1, <1>2, <1>6, <1>7, <1>8, <1>9, <1>10

LEMMA ClaimTyped ==
  ASSUME TypeInv, NEW w \in Workers, Claim(w)
  PROVE  TypeInv'
<1> DEFINE c == call[w]
           own == [c EXCEPT !.at = "own", !.owns = FALSE]
           before == IF c.why = "cap" THEN MinRescan - c.lag ELSE sweep.not_before
           claim == [sweep EXCEPT !.next_gc = GcInterval - c.lag, !.not_before = before]
<1>1. Typed(c) /\ c \in Calls /\ c.at = "claim"
  BY RunningCall DEF TypeInv, Claim, Places
<1>2. c.lag \in Nat /\ c.lag <= MaxStall
  BY <1>1, CallFields
<1>3. claim \in SweepKeys
  <2>1. before \in -MaxStall .. MaxRescan
    BY <1>2, ConstantFacts DEF TypeInv, SweepKeys
  <2>2. GcInterval - c.lag \in -MaxStall .. GcInterval
    BY <1>2, ConstantFacts
  <2> HIDE DEF before, c
  <2>3. QED
    BY <2>1, <2>2 DEF TypeInv, SweepKeys
<1>4. \/ WriteSweep(w, own, claim) \/ WriteSweep(w, Unswept(c), claim)
      \/ Go(w, Unswept(c)) /\ sweep' = sweep
  BY DEF Claim, TypeInv, SweepKeys
<1>5. seen' \in Nat
  BY DEF Claim, TypeInv, Works, Fails
<1> HIDE DEF c
<1>6. Typed(own)
  <2>1. /\ own \in Calls /\ own.clock_lag = c.clock_lag /\ own.lag = c.lag
        /\ own.next_idle = c.next_idle /\ own.key = c.key /\ own.at = "own"
    BY <1>1 DEF Calls, Places
  <2>2. QED
    BY <1>1, <2>1, TypedIs DEF Sweeping
<1>7. Unswept(c) = Idle \/ Typed(Unswept(c))
  BY <1>1, UnsweptFacts DEF TypeInv
<1> HIDE DEF own, claim
<1>8. CallsTyped' /\ sweep' \in SweepKeys
  BY <1>3, <1>4, <1>6, <1>7, GoTyped, WriteSweepTyped DEF TypeInv, WriteSweep
<1>9. QED
  BY <1>5, <1>8 DEF TypeInv, Claim

LEMMA ReadBackTyped ==
  ASSUME TypeInv, NEW w \in Workers, ReadBack(w)
  PROVE  TypeInv'
<1> DEFINE c == call[w]
           e == [c EXCEPT !.at = "list", !.owns = TRUE]
<1>1. Typed(c) /\ c \in Calls
  BY RunningCall DEF TypeInv, ReadBack, Places
<1>2. Go(w, e)
  BY DEF ReadBack
<1> HIDE DEF c
<1>3. Typed(e)
  <2>1. /\ e \in Calls /\ e.clock_lag = c.clock_lag /\ e.lag = c.lag /\ e.next_idle = c.next_idle
        /\ e.key = c.key /\ e.at = "list"
    BY <1>1 DEF Calls, Places
  <2>2. QED
    BY <1>1, <2>1, TypedIs DEF Sweeping
<1> HIDE DEF e
<1>4. CallsTyped'
  BY <1>2, <1>3, GoTyped DEF TypeInv
<1>5. QED
  BY <1>4 DEF TypeInv, ReadBack, shared

(* A sweep that lists its keys goes to the first of them.                  *)
LEMMA ListFacts ==
  ASSUME TypeInv, NEW w \in Workers, List(w)
  PROVE  LET c == call[w]
         IN  /\ Typed(c) /\ c # Idle /\ c.at = "list"
             /\ \E d \in Calls :
                  /\ d.clock_lag <= d.lag /\ d.next_idle <= MaxRescan
                  /\ d.id = c.id /\ d.scope = c.scope /\ d.linked = c.linked /\ d.read = c.read
                  /\ d.slot = c.slot /\ d.freed = c.freed /\ d.lag = c.lag
                  /\ Go(w, NextKey(d))
<1> DEFINE c == call[w]
           todo == {s \in Remaining : Cardinality({t \in Remaining : t <= s}) <= SweepBudget}
           partial == todo # Remaining
           idle == MaxRescan - c.lag
           d == [c EXCEPT !.todo = todo, !.partial = partial, !.clock_lag = 0, !.next_idle = idle]
<1>1. Typed(c) /\ c \in Calls /\ c # Idle /\ c.at = "list"
  BY RunningCall DEF TypeInv, List, Places
<1>2. todo \in SUBSET Scopes /\ partial \in BOOLEAN /\ idle \in Int /\ idle <= MaxRescan
  <2>1. todo \in SUBSET Scopes
    BY DEF Remaining
  <2>2. idle \in Int /\ idle <= MaxRescan
    BY <1>1, CallFields, ConstantFacts
  <2>3. QED
    BY <2>1, <2>2
<1>3. Go(w, NextKey(d))
  BY DEF List
<1>4. 0 \in Lags /\ c.lag \in Nat
  BY <1>1, CallFields, ConstantFacts
<1> HIDE DEF c, todo, partial, idle
<1>5. /\ d \in Calls /\ d.clock_lag = 0 /\ d.next_idle = idle
      /\ d.id = c.id /\ d.scope = c.scope /\ d.linked = c.linked /\ d.read = c.read
      /\ d.slot = c.slot /\ d.freed = c.freed /\ d.lag = c.lag
  BY <1>1, <1>2, <1>4 DEF Calls
<1> HIDE DEF d
<1>6. QED
  BY <1>1, <1>2, <1>3, <1>4, <1>5 DEF c

LEMMA ListTyped ==
  ASSUME TypeInv, NEW w \in Workers, List(w)
  PROVE  TypeInv'
<1>1. CallsTyped'
  BY ListFacts, NextKeyFacts, GoTyped DEF TypeInv
<1>2. QED
  BY <1>1 DEF TypeInv, List, shared

-----------------------------------------------------------------------------
(* When a record is idle is a time.                                        *)
LEMMA IdleAtInt ==
  ASSUME NEW v \in Values, IsLive(v), NEW lag \in Lags
  PROVE  IdleAt(v, lag) \in Int
<1> DEFINE S == {-lag} \cup Range(v.held)
           D == IF v.charged THEN {} ELSE {Max(S)}
<1>1. lag \in Nat /\ lag <= MaxStall /\ v.held \in Holds
  BY ValueFacts, ConstantFacts
<1>2. Max(S) \in Int
  <2>1. \A x \in Range(v.held) : x \in -MaxStall .. 2 * Ttl
    BY <1>1, HoldsFacts DEF Range
  <2>2. S \subseteq Int /\ S # {} /\ (\A x \in S : x <= 2 * Ttl) /\ 2 * Ttl \in Int
    BY <1>1, <2>1, ConstantFacts
  <2> HIDE DEF S
  <2>3. QED
    BY <2>2, MaxOf
<1>3. IdleAt(v, lag) = Min({MaxRescan - lag} \cup D)
  BY DEF IdleAt
<1> HIDE DEF S
<1>4. CASE v.charged
  <2>1. {MaxRescan - lag} \cup D = {MaxRescan - lag, MaxRescan - lag}
    BY <1>4
  <2>2. MaxRescan - lag \in Int
    BY <1>1, ConstantFacts
  <2>3. QED
    BY <1>3, <2>1, <2>2, MinOfTwo
<1>5. CASE ~v.charged
  <2>1. {MaxRescan - lag} \cup D = {MaxRescan - lag, Max(S)}
    BY <1>5
  <2>2. MaxRescan - lag \in Int
    BY <1>1, ConstantFacts
  <2>3. QED
    BY <1>2, <1>3, <2>1, <2>2, MinOfTwo
<1>6. QED
  BY <1>4, <1>5

(* A sweep that notes when a record is idle only changes when it is next   *)
(* due.                                                                    *)
LEMMA NotedFacts ==
  ASSUME NEW c, Typed(c), NEW v \in Values
  PROVE  LET d == Noted(c, v)
         IN  /\ d \in Calls /\ Typed(d) /\ d # Idle /\ d.clock_lag <= d.lag /\ d.next_idle <= MaxRescan
             /\ d.id = c.id /\ d.scope = c.scope /\ d.linked = c.linked /\ d.read = c.read
             /\ d.slot = c.slot /\ d.freed = c.freed /\ d.lag = c.lag /\ d.at = c.at
             /\ d.clock_lag = c.clock_lag /\ d.key = c.key /\ d.found = c.found
             /\ d.key_linked = c.key_linked
<1>0. c \in Calls /\ c # Idle /\ c.clock_lag <= c.lag /\ c.next_idle <= MaxRescan
  BY CallFields DEF Typed
<1>1. CASE ~IsLive(v)
  BY <1>0, <1>1 DEF Noted
<1>2. CASE IsLive(v)
  <2> DEFINE at == IdleAt(Reclaimed(v, c.lag), c.lag)
             next == Min({c.next_idle, at})
             d == [c EXCEPT !.next_idle = next]
  <2>1. at \in Int
    BY <1>0, <1>2, CallFields, ReclaimedFacts, IdleAtInt
  <2>2. Noted(c, v) = d
    BY <1>0, <1>2 DEF Noted, Calls
  <2>3. c.next_idle \in Int
    BY <1>0, CallFields
  <2> HIDE DEF at
  <2>4. next \in Int /\ next <= MaxRescan
    BY <1>0, <2>1, <2>3, MinOfTwo, ConstantFacts
  <2> HIDE DEF next
  <2>5. /\ d \in Calls /\ d.next_idle = next
        /\ d.id = c.id /\ d.scope = c.scope /\ d.linked = c.linked /\ d.read = c.read
        /\ d.slot = c.slot /\ d.freed = c.freed /\ d.lag = c.lag /\ d.at = c.at
        /\ d.clock_lag = c.clock_lag /\ d.key = c.key /\ d.found = c.found
        /\ d.key_linked = c.key_linked
    BY <1>0, <2>4 DEF Calls
  <2> HIDE DEF d
  <2>6. Typed(d)
    BY <1>0, <2>4, <2>5 DEF Typed, Sweeping
  <2>7. QED
    BY <1>0, <2>2, <2>4, <2>5, <2>6, CallFields
<1>3. QED
  BY <1>1, <1>2

(* A sweep at a key goes on to the next, or is to write what it makes of   *)
(* what it read.                                                           *)
LEMMA VisitFacts ==
  ASSUME TypeInv, NEW w \in Workers, Visit(w)
  PROVE  LET c == call[w] value == record[c.key]
         IN  /\ Typed(c) /\ c # Idle /\ c.at = "visit" /\ c.key \in Scopes /\ value \in Values
             /\ \/ \E d \in Calls :
                     /\ d.clock_lag <= d.lag /\ d.next_idle <= MaxRescan
                     /\ d.id = c.id /\ d.scope = c.scope /\ d.linked = c.linked /\ d.read = c.read
                     /\ d.slot = c.slot /\ d.freed = c.freed /\ d.lag = c.lag
                     /\ Go(w, NextKey(d))
                \/ \E d :
                     /\ Typed(d) /\ d.at = "swap" /\ d.key_linked /\ d.found = value
                     /\ d.id = c.id /\ d.scope = c.scope /\ d.linked = c.linked /\ d.read = c.read
                     /\ d.slot = c.slot /\ d.freed = c.freed /\ d.lag = c.lag /\ d.key = c.key
                     /\ d.clock_lag = c.clock_lag
                     /\ SweptAs(c, value) # value
                     /\ Go(w, d)
<1> DEFINE c == call[w]
           value == record[c.key]
           e == [c EXCEPT !.at = "swap", !.key_linked = TRUE, !.found = value]
<1>1. Typed(c) /\ c \in Calls /\ c # Idle /\ c.at = "visit"
  BY RunningCall DEF TypeInv, Visit, Places
<1>2. c.key \in Scopes
  BY <1>1 DEF Typed, Sweeping
<1>3. value \in Values
  BY <1>2 DEF TypeInv
<1>4. \/ Go(w, NextKey(c)) \/ Go(w, NextKey(Noted(c, value)))
      \/ SweptAs(c, value) # value /\ Go(w, e)
  BY DEF Visit
<1> HIDE DEF c, value
<1>5. /\ Typed(e) /\ e.at = "swap" /\ e.key_linked /\ e.found = value
      /\ e.id = c.id /\ e.scope = c.scope /\ e.linked = c.linked /\ e.read = c.read
      /\ e.slot = c.slot /\ e.freed = c.freed /\ e.lag = c.lag /\ e.key = c.key
      /\ e.clock_lag = c.clock_lag
  <2>1. e \in Calls
    BY <1>1, <1>3 DEF Calls, Places
  <2>2. /\ e.clock_lag = c.clock_lag /\ e.lag = c.lag /\ e.next_idle = c.next_idle
        /\ e.key = c.key /\ e.at = "swap" /\ e.key_linked /\ e.found = value
        /\ e.id = c.id /\ e.scope = c.scope /\ e.linked = c.linked /\ e.read = c.read
        /\ e.slot = c.slot /\ e.freed = c.freed
    BY <1>1, <1>3 DEF Calls
  <2> HIDE DEF e
  <2>3. Typed(e)
    BY <1>1, <2>1, <2>2, TypedIs DEF Sweeping
  <2>4. QED
    BY <2>2, <2>3
<1>6. c.clock_lag <= c.lag /\ c.next_idle <= MaxRescan
  BY <1>1 DEF Typed
<1>7. \E d \in {c, Noted(c, value)} :
        /\ d \in Calls
        /\ d.clock_lag <= d.lag /\ d.next_idle <= MaxRescan
        /\ d.id = c.id /\ d.scope = c.scope /\ d.linked = c.linked /\ d.read = c.read
        /\ d.slot = c.slot /\ d.freed = c.freed /\ d.lag = c.lag
        /\ (Go(w, NextKey(c)) \/ Go(w, NextKey(Noted(c, value)))) => Go(w, NextKey(d))
  BY <1>1, <1>3, <1>6, NotedFacts
<1>8. QED
  BY <1>1, <1>2, <1>3, <1>4, <1>5, <1>7 DEF c, value

LEMMA VisitTyped ==
  ASSUME TypeInv, NEW w \in Workers, Visit(w)
  PROVE  TypeInv'
<1>1. CallsTyped'
  BY VisitFacts, NextKeyFacts, GoTyped DEF TypeInv
<1>2. QED
  BY <1>1 DEF TypeInv, Visit, shared

(* A sweep that wrote a key goes on: to delete the record it doomed, or to *)
(* the next key, with one more slot freed if it made a live record Vacant. *)
LEMMA AfterSwapFacts ==
  ASSUME NEW c, Typed(c), c.at = "swap"
  PROVE  LET d == AfterSwap(c)
         IN  /\ Typed(d) /\ d # Idle
             /\ d.id = c.id /\ d.scope = c.scope /\ d.linked = c.linked /\ d.read = c.read
             /\ d.slot = c.slot /\ d.lag = c.lag
             /\ c.found.kind = "vacant" =>
                  /\ d.at = "delete" /\ d.key = c.key /\ d.found = c.found
                  /\ d.clock_lag = c.clock_lag /\ d.freed = c.freed
             /\ c.found.kind # "vacant" =>
                  /\ d.at \in {"visit", "uncount", "done"} /\ ~Deleting(d) /\ d.found = Missing
                  /\ d.freed = IF Freeing(c) THEN c.freed + 1 ELSE c.freed
                  /\ d.freed > 0 => d.at \in {"visit", "uncount"}
<1>1. /\ c \in Calls /\ c.found \in Values /\ c.clock_lag <= c.lag /\ c.next_idle <= MaxRescan
      /\ c.freed \in Nat
  BY CallFields DEF Typed
<1>2. CASE c.found.kind = "vacant"
  <2> DEFINE d == [c EXCEPT !.at = "delete"]
  <2>1. AfterSwap(c) = d
    BY <1>2 DEF AfterSwap, Freeing, IsLive
  <2>2. /\ d \in Calls /\ d.next_idle = c.next_idle
        /\ d.id = c.id /\ d.scope = c.scope /\ d.linked = c.linked /\ d.read = c.read
        /\ d.slot = c.slot /\ d.freed = c.freed /\ d.lag = c.lag /\ d.at = "delete"
        /\ d.clock_lag = c.clock_lag /\ d.key = c.key /\ d.found = c.found
    BY <1>1 DEF Calls, Places
  <2> HIDE DEF d
  <2>3. Typed(d) /\ d # Idle
    BY <2>2, TypedIs, CallFields DEF Sweeping
  <2>4. QED
    BY <1>2, <2>1, <2>2, <2>3
<1>3. CASE c.found.kind # "vacant" /\ Freeing(c)
  <2> DEFINE freed == c.freed + 1
             d == [c EXCEPT !.freed = freed]
  <2>1. AfterSwap(c) = NextKey(d)
    BY <1>1, <1>3 DEF AfterSwap, Calls
  <2>2. freed \in Nat
    BY <1>1
  <2>3. freed = c.freed + 1
    OBVIOUS
  <2> HIDE DEF freed
  <2>4. /\ d \in Calls /\ d.next_idle = c.next_idle /\ d.clock_lag = c.clock_lag
        /\ d.id = c.id /\ d.scope = c.scope /\ d.linked = c.linked /\ d.read = c.read
        /\ d.slot = c.slot /\ d.freed = freed /\ d.lag = c.lag
    BY <1>1, <2>2 DEF Calls
  <2> HIDE DEF d
  <2>5. d.clock_lag <= d.lag /\ d.next_idle <= MaxRescan
    BY <1>1, <2>4
  <2>6. LET e == NextKey(d)
        IN  /\ e # Idle /\ Typed(e) /\ ~Deleting(e) /\ e.at \in {"visit", "uncount", "done"}
            /\ e.freed > 0 => e.at \in {"visit", "uncount"}
            /\ e.found = Missing /\ e.id = c.id /\ e.scope = c.scope /\ e.linked = c.linked
            /\ e.read = c.read /\ e.slot = c.slot /\ e.freed = freed /\ e.lag = c.lag
    BY <2>4, <2>5, NextKeyFacts
  <2>7. QED
    BY <1>3, <2>1, <2>3, <2>6
<1>4. CASE c.found.kind # "vacant" /\ ~Freeing(c)
  <2>1. AfterSwap(c) = NextKey(Noted(c, c.found))
    BY <1>4 DEF AfterSwap
  <2> DEFINE d == Noted(c, c.found)
  <2>2. /\ d \in Calls /\ d.clock_lag <= d.lag /\ d.next_idle <= MaxRescan
        /\ d.id = c.id /\ d.scope = c.scope /\ d.linked = c.linked /\ d.read = c.read
        /\ d.slot = c.slot /\ d.freed = c.freed /\ d.lag = c.lag
    BY <1>1, NotedFacts
  <2> HIDE DEF d
  <2>3. QED
    BY <1>1, <1>4, <2>1, <2>2, NextKeyFacts DEF d
<1>5. QED
  BY <1>2, <1>3, <1>4

(* A lost race for a live record goes back to it.                          *)
LEMMA RevisitFacts ==
  ASSUME NEW c, Typed(c), c.at = "swap"
  PROVE  LET d == [Noted(c, c.found) EXCEPT !.at = "visit"]
         IN  /\ Typed(d) /\ d # Idle /\ d.at = "visit" /\ ~Deleting(d)
             /\ d.id = c.id /\ d.scope = c.scope /\ d.linked = c.linked /\ d.read = c.read
             /\ d.slot = c.slot /\ d.freed = c.freed /\ d.lag = c.lag /\ d.key = c.key
             /\ d.found = c.found
<1> DEFINE a == Noted(c, c.found)
           d == [a EXCEPT !.at = "visit"]
<1>1. /\ a \in Calls /\ Typed(a) /\ a.at = "swap"
      /\ a.id = c.id /\ a.scope = c.scope /\ a.linked = c.linked /\ a.read = c.read
      /\ a.slot = c.slot /\ a.freed = c.freed /\ a.lag = c.lag
      /\ a.key = c.key /\ a.found = c.found
  BY NotedFacts, CallFields DEF Typed
<1> HIDE DEF a
<1>2. /\ d \in Calls /\ d.at = "visit" /\ d.next_idle = a.next_idle /\ d.clock_lag = a.clock_lag
      /\ d.id = c.id /\ d.scope = c.scope /\ d.linked = c.linked /\ d.read = c.read
      /\ d.slot = c.slot /\ d.freed = c.freed /\ d.lag = c.lag
      /\ d.key = c.key /\ d.found = c.found /\ d.key = a.key /\ d.lag = a.lag
  BY <1>1 DEF Calls, Places
<1> HIDE DEF d
<1>3. Typed(d)
  BY <1>1, <1>2, TypedIs DEF Sweeping
<1>4. QED
  BY <1>2, <1>3, CallFields DEF a, d, Deleting

LEMMA SwapTyped ==
  ASSUME TypeInv, NEW w \in Workers, Swap(w)
  PROVE  TypeInv'
<1> DEFINE c == call[w]
           next == NextKey(Noted(c, c.found))
           again == [Noted(c, c.found) EXCEPT !.at = "visit"]
<1>1. Typed(c) /\ c \in Calls /\ c # Idle /\ c.at = "swap"
  BY RunningCall DEF TypeInv, Swap, Places
<1>2. c.key \in Scopes /\ c.found \in Values
  BY <1>1, CallFields DEF Typed, Sweeping
<1>3. SweptAs(c, c.found) \in Values
  BY <1>1, <1>2, SweptFacts
<1>4. Typed(AfterSwap(c)) /\ Typed(again)
  BY <1>1, AfterSwapFacts, RevisitFacts
<1>5. Typed(next)
  BY <1>1, <1>2, NotedFacts, NextKeyFacts
<1>6. \/ Write(w, AfterSwap(c), c.key, SweptAs(c, c.found))
      \/ Write(w, next, c.key, SweptAs(c, c.found))
      \/ Go(w, next) /\ record' = record
      \/ Go(w, again) /\ record' = record
  BY DEF Swap
<1>7. seen' \in Nat /\ leaked' \in Int
  BY DEF Swap, TypeInv, Works, Fails
<1> HIDE DEF c, next, again
<1>8. CallsTyped' /\ record' \in [Scopes -> Values]
  BY <1>2, <1>3, <1>4, <1>5, <1>6, GoTyped, WriteTyped DEF TypeInv
<1>9. QED
  BY <1>7, <1>8 DEF TypeInv, Swap

(* A sweep that deletes a key may go on to the next, or try to restore it. *)
LEMMA DeleteFacts ==
  ASSUME TypeInv, NEW w \in Workers, call[w].at \in {"delete", "restore_read", "restore"}
  PROVE  LET c == call[w]
         IN  /\ Typed(c) /\ c \in Calls /\ c # Idle /\ c.key \in Scopes
             /\ Typed(NextKey(c)) /\ NextKey(c) # Idle /\ ~Deleting(NextKey(c))
             /\ LET r == [c EXCEPT !.at = "restore_read"]
                IN  /\ Typed(r) /\ r.at = "restore_read" /\ r.id = c.id /\ r.scope = c.scope
                    /\ r.linked = c.linked /\ r.read = c.read /\ r.slot = c.slot
                    /\ r.freed = c.freed /\ r.lag = c.lag /\ r.key = c.key /\ r.found = c.found
                    /\ r.clock_lag = c.clock_lag
             /\ LET r == [c EXCEPT !.at = "restore", !.key_linked = TRUE]
                IN  /\ Typed(r) /\ r.at = "restore" /\ r.id = c.id /\ r.scope = c.scope
                    /\ r.linked = c.linked /\ r.read = c.read /\ r.slot = c.slot
                    /\ r.freed = c.freed /\ r.lag = c.lag /\ r.key = c.key /\ r.found = c.found
                    /\ r.clock_lag = c.clock_lag
<1> DEFINE c == call[w]
           r == [c EXCEPT !.at = "restore_read"]
           q == [c EXCEPT !.at = "restore", !.key_linked = TRUE]
<1>1. /\ Typed(c) /\ c \in Calls /\ c # Idle /\ c.at \in {"delete", "restore_read", "restore"}
      /\ c.clock_lag <= c.lag /\ c.next_idle <= MaxRescan
  BY RunningCall DEF TypeInv, Places, Typed
<1> HIDE DEF c
<1>2. Sweeping(c) /\ c.key \in Scopes
  BY <1>1 DEF Typed, Sweeping
<1>3. Typed(NextKey(c)) /\ NextKey(c) # Idle /\ ~Deleting(NextKey(c))
  BY <1>1, NextKeyFacts
<1>4. /\ r \in Calls /\ r.at = "restore_read" /\ r.id = c.id /\ r.scope = c.scope
      /\ r.linked = c.linked /\ r.read = c.read /\ r.slot = c.slot
      /\ r.freed = c.freed /\ r.lag = c.lag /\ r.key = c.key /\ r.found = c.found
      /\ r.clock_lag = c.clock_lag /\ r.next_idle = c.next_idle
  BY <1>1 DEF Calls, Places
<1>5. /\ q \in Calls /\ q.at = "restore" /\ q.id = c.id /\ q.scope = c.scope
      /\ q.linked = c.linked /\ q.read = c.read /\ q.slot = c.slot
      /\ q.freed = c.freed /\ q.lag = c.lag /\ q.key = c.key /\ q.found = c.found
      /\ q.clock_lag = c.clock_lag /\ q.next_idle = c.next_idle
  BY <1>1 DEF Calls, Places
<1> HIDE DEF r, q
<1>6. Typed(r) /\ Typed(q)
  BY <1>1, <1>2, <1>4, <1>5, TypedIs
<1>7. QED
  BY <1>1, <1>2, <1>3, <1>4, <1>5, <1>6 DEF c, r, q

LEMMA DeleteTyped ==
  ASSUME TypeInv, NEW w \in Workers, Delete(w)
  PROVE  TypeInv'
<1> DEFINE c == call[w]
           r == [c EXCEPT !.at = "restore_read"]
<1>1. c.key \in Scopes /\ Typed(NextKey(c)) /\ Typed(r) /\ Missing \in Values
  BY DeleteFacts, MissingValue DEF Delete
<1>2. \/ Write(w, NextKey(c), c.key, Missing) \/ Write(w, r, c.key, Missing)
      \/ Go(w, r) /\ record' = record
  BY DEF Delete
<1>3. seen' \in Nat
  BY DEF Delete, TypeInv, Works, Fails
<1> HIDE DEF c, r
<1>4. CallsTyped' /\ record' \in [Scopes -> Values]
  BY <1>1, <1>2, GoTyped, WriteTyped DEF TypeInv
<1>5. QED
  BY <1>3, <1>4 DEF TypeInv, Delete

LEMMA RestoreReadTyped ==
  ASSUME TypeInv, NEW w \in Workers, RestoreRead(w)
  PROVE  TypeInv'
<1> DEFINE c == call[w]
           q == [c EXCEPT !.at = "restore", !.key_linked = TRUE]
<1>1. Typed(NextKey(c)) /\ Typed(q)
  BY DeleteFacts DEF RestoreRead
<1>2. Go(w, NextKey(c)) \/ Go(w, q)
  BY DEF RestoreRead
<1> HIDE DEF c, q
<1>3. CallsTyped'
  BY <1>1, <1>2, GoTyped DEF TypeInv
<1>4. QED
  BY <1>3 DEF TypeInv, RestoreRead, shared

LEMMA RestoreTyped ==
  ASSUME TypeInv, NEW w \in Workers, Restore(w)
  PROVE  TypeInv'
<1> DEFINE c == call[w]
<1>1. c.key \in Scopes /\ Typed(NextKey(c)) /\ c.found \in Values
  BY DeleteFacts, CallFields DEF Restore
<1>2. \/ Write(w, NextKey(c), c.key, c.found)
      \/ Go(w, NextKey(c)) /\ record' = record
  BY DEF Restore
<1>3. leaked' \in Int
  <2>1. leaked' = leaked + 1 \/ leaked' = leaked
    BY DEF Restore
  <2>2. QED
    BY <2>1 DEF TypeInv
<1> HIDE DEF c
<1>4. CallsTyped' /\ record' \in [Scopes -> Values]
  BY <1>1, <1>2, GoTyped, WriteTyped DEF TypeInv
<1>5. UNCHANGED <<n, sweep, next_check, open, seen>>
  BY DEF Restore
<1>6. QED
  BY <1>3, <1>4, <1>5 DEF TypeInv

(* A sweep that takes the slots it freed off the count.                    *)
LEMMA UncountFacts ==
  ASSUME TypeInv, NEW w \in Workers, Uncount(w)
  PROVE  LET c == call[w]
         IN  /\ Typed(c) /\ c # Idle /\ c.at = "uncount" /\ c.freed \in Nat
             /\ \E d : /\ Typed(d) /\ d # Idle /\ ~Deleting(d) /\ d.at = "done" /\ d.freed = 0
                       /\ d.id = c.id /\ d.scope = c.scope /\ d.linked = c.linked
                       /\ d.read = c.read /\ d.slot = c.slot /\ d.lag = c.lag
                       /\ d.found = c.found /\ d.key = c.key
                       /\ Go(w, d)
             /\ TakeOff(c.freed)
<1> DEFINE c == call[w]
           d == [c EXCEPT !.at = "done", !.freed = 0]
<1>1. Typed(c) /\ c \in Calls /\ c # Idle /\ c.at = "uncount"
  BY RunningCall DEF TypeInv, Uncount, Places
<1>2. Go(w, d) /\ TakeOff(c.freed)
  BY DEF Uncount
<1> HIDE DEF c
<1>3. /\ d \in Calls /\ d.at = "done" /\ d.freed = 0 /\ d.id = c.id /\ d.scope = c.scope
      /\ d.linked = c.linked /\ d.read = c.read /\ d.slot = c.slot /\ d.lag = c.lag
      /\ d.found = c.found /\ d.key = c.key
      /\ d.clock_lag = c.clock_lag /\ d.next_idle = c.next_idle
  BY <1>1 DEF Calls, Places
<1> HIDE DEF d
<1>4. ~Sweeping(d) /\ ~Deleting(d)
  BY <1>3 DEF Sweeping, Deleting
<1>5. Typed(d) /\ d # Idle
  BY <1>1, <1>3, <1>4, TypedIs, CallFields
<1>6. QED
  BY <1>1, <1>2, <1>3, <1>4, <1>5, CallFields DEF c

LEMMA UncountTyped ==
  ASSUME TypeInv, NEW w \in Workers, Uncount(w)
  PROVE  TypeInv'
<1>1. CallsTyped'
  BY UncountFacts, GoTyped DEF TypeInv
<1>2. n' \in Nat /\ leaked' \in Int /\ seen' \in Nat
  BY UncountFacts, TakeOffFacts DEF TypeInv
<1>3. QED
  BY <1>1, <1>2 DEF TypeInv, Uncount

LEMMA SweepDoneTyped ==
  ASSUME TypeInv, NEW w \in Workers, SweepDone(w)
  PROVE  TypeInv'
<1> DEFINE c == call[w]
           soon == MinRescan - c.lag
<1>1. Typed(c) /\ c \in Calls /\ c.at = "done"
  BY RunningCall DEF TypeInv, SweepDone, Places
<1>2. /\ c.lag \in Nat /\ c.lag <= MaxStall /\ c.next_idle \in Int /\ c.next_idle <= MaxRescan
      /\ c.cursor \in Scopes \cup {NoCursor}
  BY <1>1, CallFields DEF Typed
<1>3. NextSweep(c) \in SweepKeys
  <2> DEFINE before == IF c.partial THEN soon ELSE Max({c.next_idle, soon})
             gc == IF c.partial THEN soon ELSE GcInterval - c.lag
             cursor == IF c.partial THEN c.cursor ELSE NoCursor
  <2>1. soon \in Int /\ soon >= -MaxStall /\ soon <= MaxRescan /\ soon <= GcInterval
    BY <1>2, ConstantFacts
  <2>2. Max({c.next_idle, soon}) = IF c.next_idle >= soon THEN c.next_idle ELSE soon
    BY <1>2, <2>1, MaxOfTwo
  <2>3. before \in -MaxStall .. MaxRescan
    BY <1>2, <2>1, <2>2, ConstantFacts
  <2>4. gc \in -MaxStall .. GcInterval
    BY <1>2, <2>1, ConstantFacts
  <2>5. cursor \in Scopes \cup {NoCursor}
    BY <1>2
  <2>6. NextSweep(c) = [not_before |-> before, next_gc |-> gc, cursor |-> cursor]
    BY DEF NextSweep
  <2> HIDE DEF before, gc, cursor
  <2>7. QED
    BY <2>3, <2>4, <2>5, <2>6 DEF SweepKeys
<1>4. next_check' \in [Workers -> -MaxStall .. GcInterval]
  <2>1. NextSweep(c).next_gc \in -MaxStall .. GcInterval
    BY <1>3 DEF SweepKeys
  <2>2. next_check' = [next_check EXCEPT ![w] = NextSweep(c).next_gc]
    BY DEF SweepDone
  <2> HIDE DEF c
  <2>3. QED
    BY <2>1, <2>2 DEF TypeInv
<1>5. \/ WriteSweep(w, Unswept(c), NextSweep(c))
      \/ Go(w, Unswept(c)) /\ sweep' = sweep
  BY DEF SweepDone
<1>6. seen' \in Nat
  BY DEF SweepDone, TypeInv, Works, Fails
<1>7. Unswept(c) = Idle \/ Typed(Unswept(c))
  BY <1>1, UnsweptFacts DEF TypeInv
<1> HIDE DEF c
<1>8. CallsTyped' /\ sweep' \in SweepKeys
  BY <1>3, <1>5, <1>7, GoTyped, WriteSweepTyped DEF TypeInv, WriteSweep
<1>9. UNCHANGED <<record, n, open, leaked>>
  BY DEF SweepDone
<1>10. QED
  BY <1>4, <1>6, <1>8, <1>9 DEF TypeInv

-----------------------------------------------------------------------------
(* Time: every call falls behind, and what it knows ages.                  *)
LEMMA OlderCallFacts ==
  ASSUME NEW c, Typed(c), c.lag < MaxStall
  PROVE  LET d == OlderCall(c)
         IN  /\ Typed(d) /\ d # Idle
             /\ d.lag = c.lag + 1 /\ d.read = Older(c.read) /\ d.found = Older(c.found)
             /\ d.at = c.at /\ d.id = c.id /\ d.scope = c.scope /\ d.key = c.key
             /\ d.linked = c.linked /\ d.key_linked = c.key_linked
             /\ d.slot = c.slot /\ d.freed = c.freed
             /\ d.clock_lag = IF Sweeping(c) THEN c.clock_lag + 1 ELSE c.clock_lag
<1> DEFINE lag == c.lag + 1
           read == Older(c.read)
           found == Older(c.found)
           older == [c EXCEPT !.lag = lag, !.read = read, !.found = found]
<1>1. c \in Calls /\ c # Idle /\ c.clock_lag <= c.lag /\ c.next_idle <= MaxRescan
  BY CallFields DEF Typed
<1>2. c.lag \in Nat /\ c.clock_lag \in Nat /\ c.next_idle \in Int
  BY <1>1, CallFields
<1>3. lag \in Lags /\ read \in Values /\ found \in Values /\ lag = c.lag + 1 /\ lag \in Nat
  BY <1>1, <1>2, CallFields, OlderFacts, ConstantFacts DEF Lags
<1>4. older = [c EXCEPT !.lag = @ + 1, !.read = Older(@), !.found = Older(@)]
  BY <1>1 DEF Calls
<1> HIDE DEF lag
<1>5. read = Older(c.read) /\ found = Older(c.found)
  OBVIOUS
<1> HIDE DEF read, found
<1>6. /\ older \in Calls /\ older.lag = lag /\ older.read = read /\ older.found = found
      /\ older.at = c.at /\ older.id = c.id /\ older.scope = c.scope /\ older.key = c.key
      /\ older.linked = c.linked /\ older.key_linked = c.key_linked
      /\ older.slot = c.slot /\ older.freed = c.freed
      /\ older.clock_lag = c.clock_lag /\ older.next_idle = c.next_idle
  BY <1>1, <1>3 DEF Calls
<1>7. OlderCall(c) = IF Sweeping(c)
                     THEN [older EXCEPT !.clock_lag = @ + 1, !.next_idle = @ - 1]
                     ELSE IF c.at \in {"uncount", "done"} THEN [older EXCEPT !.next_idle = @ - 1]
                     ELSE older
  BY <1>1, <1>4 DEF OlderCall
<1> HIDE DEF older
<1> DEFINE clock_lag == c.clock_lag + 1
           next == c.next_idle - 1
<1>8. CASE Sweeping(c)
  <2> DEFINE d == [older EXCEPT !.clock_lag = clock_lag, !.next_idle = next]
  <2>1. OlderCall(c) = d
    BY <1>6, <1>7, <1>8 DEF Calls
  <2>2. clock_lag \in Lags /\ next \in Int /\ next <= MaxRescan /\ clock_lag <= lag
    BY <1>1, <1>2, <1>3, ConstantFacts DEF Lags
  <2>3. clock_lag = c.clock_lag + 1
    OBVIOUS
  <2> HIDE DEF clock_lag, next
  <2>4. /\ d \in Calls /\ d.lag = lag /\ d.read = read /\ d.found = found
        /\ d.at = c.at /\ d.id = c.id /\ d.scope = c.scope /\ d.key = c.key
        /\ d.linked = c.linked /\ d.key_linked = c.key_linked
        /\ d.slot = c.slot /\ d.freed = c.freed
        /\ d.clock_lag = clock_lag /\ d.next_idle = next
    BY <1>6, <2>2 DEF Calls
  <2> HIDE DEF d
  <2>5. Typed(d) /\ d # Idle
    BY <1>8, <2>2, <2>4, CallFields DEF Typed, Sweeping
  <2>6. QED
    BY <1>3, <1>5, <1>8, <2>1, <2>3, <2>4, <2>5
<1>9. CASE ~Sweeping(c) /\ c.at \in {"uncount", "done"}
  <2> DEFINE d == [older EXCEPT !.next_idle = next]
  <2>1. OlderCall(c) = d
    BY <1>6, <1>7, <1>9 DEF Calls
  <2>2. next \in Int /\ next <= MaxRescan /\ c.clock_lag <= lag
    BY <1>1, <1>2, <1>3, ConstantFacts
  <2> HIDE DEF next
  <2>4. /\ d \in Calls /\ d.lag = lag /\ d.read = read /\ d.found = found
        /\ d.at = c.at /\ d.id = c.id /\ d.scope = c.scope /\ d.key = c.key
        /\ d.linked = c.linked /\ d.key_linked = c.key_linked
        /\ d.slot = c.slot /\ d.freed = c.freed
        /\ d.clock_lag = c.clock_lag /\ d.next_idle = next
    BY <1>6, <2>2 DEF Calls
  <2> HIDE DEF d
  <2>5. Typed(d) /\ d # Idle
    BY <1>9, <2>2, <2>4, CallFields DEF Typed, Sweeping
  <2>6. QED
    BY <1>3, <1>5, <1>9, <2>1, <2>4, <2>5
<1>10. CASE ~Sweeping(c) /\ c.at \notin {"uncount", "done"}
  <2>1. OlderCall(c) = older
    BY <1>7, <1>10
  <2>2. Typed(older) /\ older # Idle
    BY <1>1, <1>2, <1>3, <1>6, <1>10, CallFields DEF Typed, Sweeping
  <2>3. QED
    BY <1>3, <1>5, <1>6, <1>10, <2>1, <2>2
<1>11. QED
  BY <1>8, <1>9, <1>10

LEMMA TickTyped == ASSUME TypeInv, Tick PROVE TypeInv'
<1>1. CallsTyped'
  <2>1. ASSUME NEW w \in Workers PROVE call'[w] = Idle \/ Typed(call'[w])
    <3>1. call'[w] = OlderCall(call[w]) /\ (call[w] # Idle => call[w].lag < MaxStall)
      BY DEF Tick
    <3>2. CASE call[w] = Idle
      BY <3>1, <3>2 DEF OlderCall
    <3>3. CASE call[w] # Idle
      BY <3>1, <3>3, OlderCallFacts DEF TypeInv, CallsTyped
    <3>4. QED
      BY <3>2, <3>3
  <2>2. call' = [w \in Workers |-> call'[w]]
    BY DEF Tick
  <2>3. QED
    BY <2>1, <2>2 DEF CallsTyped
<1>2. record' \in [Scopes -> Values]
  BY OlderFacts DEF TypeInv, Tick
<1>3. sweep' \in SweepKeys
  <2>1. ASSUME NEW t \in Int PROVE Sooner(t) = IF t - 1 >= -MaxStall THEN t - 1 ELSE -MaxStall
    BY MaxOfTwo, ConstantFacts DEF Sooner
  <2>2. \A t \in -MaxStall .. MaxRescan : Sooner(t) \in -MaxStall .. MaxRescan
    BY <2>1, ConstantFacts
  <2>3. \A t \in -MaxStall .. GcInterval : Sooner(t) \in -MaxStall .. GcInterval
    BY <2>1, ConstantFacts
  <2>4. sweep' = [sweep EXCEPT !.not_before = Sooner(@), !.next_gc = Sooner(@)]
    BY DEF Tick
  <2>5. QED
    BY <2>2, <2>3, <2>4 DEF TypeInv, SweepKeys
<1>4. next_check' \in [Workers -> -MaxStall .. GcInterval]
  <2>1. ASSUME NEW w \in Workers PROVE next_check'[w] \in -MaxStall .. GcInterval
    <3>1. next_check[w] \in Int /\ next_check[w] <= GcInterval
      BY ConstantFacts DEF TypeInv
    <3>2. next_check'[w] = IF next_check[w] - 1 >= 0 THEN next_check[w] - 1 ELSE 0
      BY <3>1, MaxOfTwo DEF Tick
    <3>3. QED
      BY <3>1, <3>2, ConstantFacts
  <2>2. QED
    BY <2>1 DEF Tick
<1>5. open' \in OpenMaps
  <2>1. /\ DOMAIN open \in SUBSET Ids
        /\ open \in [DOMAIN open -> [scope : Scopes, left : -MaxStall .. 2 * Ttl]]
    BY OpenFacts DEF TypeInv
  <2>2. ASSUME NEW id \in DOMAIN open
        PROVE  open'[id] \in [scope : Scopes, left : -MaxStall .. 2 * Ttl]
    <3>1. open[id].left \in Int /\ open[id].left <= 2 * Ttl /\ open[id].scope \in Scopes
      BY <2>1, ConstantFacts
    <3>2. Max({open[id].left - 1, 0}) \in -MaxStall .. 2 * Ttl
      BY <3>1, MaxOfTwo, ConstantFacts
    <3>3. open'[id] = [open[id] EXCEPT !.left = Max({open[id].left - 1, 0})]
      BY DEF Tick
    <3>4. QED
      BY <2>1, <3>2, <3>3
  <2>3. open' = [id \in DOMAIN open |-> open'[id]]
    BY DEF Tick
  <2>4. open' \in [DOMAIN open -> [scope : Scopes, left : -MaxStall .. 2 * Ttl]]
    BY <2>2, <2>3
  <2>5. QED
    BY <2>1, <2>4 DEF OpenMaps
<1>6. QED
  BY <1>1, <1>2, <1>3, <1>4, <1>5 DEF TypeInv, Tick

-----------------------------------------------------------------------------
(* The type invariant holds at first,                                      *)
LEMMA InitTyped == Init => TypeInv
<1> SUFFICES ASSUME Init PROVE TypeInv
  OBVIOUS
<1>1. CallsTyped
  BY DEF Init, CallsTyped
<1>2. open \in OpenMaps
  <2>1. <<>> \in [{} -> [scope : Scopes, left : -MaxStall .. 2 * Ttl]]
    OBVIOUS
  <2>2. QED
    BY <2>1 DEF Init, OpenMaps
<1>3. sweep \in SweepKeys
  BY ConstantFacts DEF Init, SweepKeys
<1>4. record \in [Scopes -> Values] /\ next_check \in [Workers -> -MaxStall .. GcInterval]
  BY MissingValue, ConstantFacts DEF Init
<1>5. QED
  BY <1>1, <1>2, <1>3, <1>4 DEF Init, TypeInv

(* every step keeps it,                                                    *)
LEMMA TypeInductive == ASSUME TypeInv, [Next]_vars PROVE TypeInv'
<1>1. ASSUME NEW w \in Workers, Continue(w) PROVE TypeInv'
  BY <1>1, CheckGcTyped, ReadRecordTyped, AcquireSlotTyped, AtCapTyped, PutRecordTyped,
     GiveBackTyped, HintIdleTyped, HintTyped, ClaimTyped, ReadBackTyped, ListTyped, VisitTyped,
     SwapTyped, DeleteTyped, RestoreReadTyped, RestoreTyped, UncountTyped, SweepDoneTyped
  DEF Continue
<1>2. ASSUME NEW w \in Workers, Begin(w) PROVE TypeInv'
  BY <1>2, ReserveTyped, SettleTyped DEF Begin
<1>3. CASE UNCHANGED vars
  BY <1>3 DEF TypeInv, CallsTyped, vars, shared
<1>4. QED
  BY <1>1, <1>2, <1>3, TickTyped, ForgetTyped, RestartTyped DEF Next

(* and it is more than TypeOK says.                                        *)
LEMMA TypeInvIsTypeOK == TypeInv => TypeOK
<1> SUFFICES ASSUME TypeInv PROVE TypeOK
  OBVIOUS
<1>1. ASSUME NEW s \in Scopes
      PROVE  /\ record[s].kind \in {"missing", "vacant", "doomed", "live"}
             /\ record[s].kind \in {"vacant", "doomed"} => record[s].age \in Nat
             /\ IsLive(record[s]) => /\ DOMAIN record[s].held \subseteq Ids
                                     /\ Range(record[s].held) \subseteq -MaxStall .. 2 * Ttl
  <2>1. record[s] \in Values
    BY DEF TypeInv
  <2>2. IsLive(record[s]) =>
          /\ DOMAIN record[s].held \subseteq Ids
          /\ record[s].held \in [DOMAIN record[s].held -> -MaxStall .. 2 * Ttl]
    BY <2>1, ValueFacts, HoldsFacts
  <2>3. QED
    BY <2>1, <2>2, ValueFacts DEF Range
<1>2. ASSUME NEW w \in Workers PROVE call[w] = Idle \/ call[w].lag \in 0 .. MaxStall
  BY CallFields DEF TypeInv, CallsTyped, Typed, Lags
<1>3. /\ sweep.not_before \in -MaxStall .. MaxRescan /\ sweep.next_gc \in -MaxStall .. GcInterval
      /\ sweep.cursor \in Scopes \cup {NoCursor}
  BY DEF TypeInv, SweepKeys
<1>4. \A w \in Workers : next_check[w] \in -MaxStall .. GcInterval
  BY DEF TypeInv
<1>5. DOMAIN open \subseteq Ids
  BY OpenFacts DEF TypeInv
<1>6. n \in Nat
  BY DEF TypeInv
<1>7. QED
  BY <1>1, <1>2, <1>3, <1>4, <1>5, <1>6 DEF TypeOK

(* Every variable keeps its shape, whatever faults happen.                 *)
THEOREM TypeCorrect == Spec => []TypeOK
<1>1. Init => TypeInv
  BY InitTyped
<1>2. TypeInv /\ [Next]_vars => TypeInv'
  BY TypeInductive
<1>3. TypeInv => TypeOK
  BY TypeInvIsTypeOK
<1>4. QED
  BY <1>1, <1>2, <1>3, PTL DEF Spec

-----------------------------------------------------------------------------
(* What a write of a key by another worker leaves of what a call knows.    *)
LEMMA UnlinkedSound ==
  ASSUME NEW c, Typed(c), c # Idle, NEW rec \in [Scopes -> Values], Sound(c, rec),
         NEW s \in Scopes, NEW value \in Values, ~(Deleting(c) /\ c.key = s),
         Copies(c, s) => IsLive(value) \/ (value.kind = "vacant" /\ value.age <= MaxStall)
  PROVE  LET d == Unlinked(c, s)
         IN  /\ d # Idle /\ Sound(d, [rec EXCEPT ![s] = value])
             /\ Slots(d) = Slots(c) /\ d.id = c.id /\ d.key = c.key /\ (Deleting(d) <=> Deleting(c))
<1> DEFINE d == Unlinked(c, s)
           rec2 == [rec EXCEPT ![s] = value]
<1>1. /\ Typed(d) /\ d # Idle
      /\ d.op = c.op /\ d.scope = c.scope /\ d.id = c.id /\ d.lag = c.lag /\ d.at = c.at
      /\ d.read = c.read /\ d.slot = c.slot /\ d.clock_lag = c.clock_lag
      /\ d.key = c.key /\ d.found = c.found /\ d.freed = c.freed
      /\ d.linked => c.linked /\ c.scope # s
      /\ d.key_linked => c.key_linked /\ c.key # s
  BY UnlinkedTyped
<1> HIDE DEF d
<1>2. Staged(d)
  BY <1>1 DEF Sound, Staged, Sweeping, Deleting, Aged
<1>3. c.scope \in Scopes /\ (c.at = "swap" \/ Deleting(c) => c.key \in Scopes) /\ c.lag \in Nat
  BY CallFields DEF Typed, Sweeping, Deleting
<1>4. Linked(d, rec2)
  BY <1>1, <1>3 DEF Sound, Linked
<1>5. ASSUME NEW t \in Scopes, Copies(d, t) PROVE Recent(d, rec2[t])
  <2>1. Copies(c, t)
    BY <1>1, <1>5 DEF Copies
  <2>2. CASE t = s
    BY <1>1, <1>3, <2>1, <2>2, ValueFacts, ConstantFacts DEF Recent
  <2>3. CASE t # s
    BY <1>1, <2>1, <2>3 DEF Recent, Sound
  <2>4. QED
    BY <2>2, <2>3
<1>6. Deleting(d) => rec2[d.key] = Doomed(d.clock_lag)
  BY <1>1, <1>3 DEF Sound, Deleting
<1>7. Slots(d) = Slots(c) /\ (Deleting(d) <=> Deleting(c))
  BY <1>1 DEF Slots, Deleting
<1>8. QED
  BY <1>1, <1>2, <1>4, <1>5, <1>6, <1>7 DEF Sound, d

(* The slots a worker's call holds.                                        *)
LEMMA SlotsNat == ASSUME CallsTyped, NEW w \in Workers PROVE Slots(call[w]) \in Nat
BY CallFields DEF CallsTyped, Typed, Slots

LEMMA SlotsTakenNat == ASSUME CallsTyped PROVE SlotsTaken \in Nat
<1> DEFINE slots == [w \in Workers |-> Slots(call[w])]
<1>1. Addends(slots, Workers)
  BY SlotsNat, ConstantFacts DEF Addends
<1>2. DOMAIN slots = Workers
  OBVIOUS
<1> HIDE DEF slots
<1>3. SumFunction(slots) \in Nat
  BY <1>1, <1>2, SumNat DEF SumFunction
<1>4. QED
  BY <1>3 DEF SlotsTaken, slots

(* When one worker's slots change, so does the sum.                        *)
LEMMA SlotsTakenChange ==
  ASSUME CallsTyped, CallsTyped', NEW w \in Workers,
         \A v \in Workers \ {w} : Slots(call'[v]) = Slots(call[v])
  PROVE  SlotsTaken' = SlotsTaken - Slots(call[w]) + Slots(call'[w])
<1> DEFINE f == [v \in Workers |-> Slots(call[v])]
           g == [v \in Workers |-> Slots(call'[v])]
<1>1. Addends(f, Workers) /\ Addends(g, Workers)
  <2>1. \A v \in Workers : Slots(call[v]) \in Nat
    BY SlotsNat
  <2>2. \A v \in Workers : Slots(call'[v]) \in Nat
    BY CallFields DEF CallsTyped, Typed, Slots
  <2>3. QED
    BY <2>1, <2>2, ConstantFacts DEF Addends
<1>2. \A v \in Workers \ {w} : g[v] = f[v]
  OBVIOUS
<1>3. /\ SlotsTaken = SumFunctionOnSet(f, Workers)
      /\ SlotsTaken' = SumFunctionOnSet(g, Workers)
  BY DEF SlotsTaken, SumFunction
<1>4. f[w] = Slots(call[w]) /\ g[w] = Slots(call'[w])
  OBVIOUS
<1> HIDE DEF f, g
<1>5. SumFunctionOnSet(g, Workers) = SumFunctionOnSet(f, Workers) - f[w] + g[w]
  BY <1>1, <1>2, SumExcept
<1>6. QED
  BY <1>3, <1>4, <1>5

LEMMA LiveNat == IsFiniteSet(LiveScopes) /\ Cardinality(LiveScopes) \in Nat
BY ConstantFacts, FS_Subset, FS_CardinalityType DEF LiveScopes

(* A count of one, if it is so.                                            *)
One(b) == IF b THEN 1 ELSE 0

(* When one record changes, so does the number of live ones.               *)
LEMMA LiveChange ==
  ASSUME record \in [Scopes -> Values], NEW s \in Scopes, NEW value,
         record' = [record EXCEPT ![s] = value]
  PROVE  Cardinality(LiveScopes') =
           Cardinality(LiveScopes) - One(IsLive(record[s])) + One(IsLive(value))
<1> DEFINE L == LiveScopes
<1>1. IsFiniteSet(L) /\ Cardinality(L) \in Nat
  BY LiveNat
<1>2. L = {t \in Scopes : IsLive(record[t])}
      /\ LiveScopes' = {t \in Scopes : IsLive(record'[t])}
  BY DEF LiveScopes
<1> HIDE DEF L
<1>3. CASE IsLive(value)
  <2>1. LiveScopes' = L \cup {s}
    BY <1>2, <1>3
  <2>2. s \in L <=> IsLive(record[s])
    BY <1>2
  <2>3. Cardinality(L \cup {s}) = IF s \in L THEN Cardinality(L) ELSE Cardinality(L) + 1
    BY <1>1, FS_AddElement
  <2>4. Cardinality(LiveScopes') = Cardinality(L) - One(IsLive(record[s])) + 1
    BY <1>1, <2>1, <2>2, <2>3 DEF One
  <2>5. QED
    BY <1>3, <2>4 DEF One, L
<1>4. CASE ~IsLive(value)
  <2>1. LiveScopes' = L \ {s}
    BY <1>2, <1>4
  <2>2. s \in L <=> IsLive(record[s])
    BY <1>2
  <2>3. Cardinality(L \ {s}) = IF s \in L THEN Cardinality(L) - 1 ELSE Cardinality(L)
    BY <1>1, FS_RemoveElement
  <2>4. Cardinality(LiveScopes') = Cardinality(L) - One(IsLive(record[s]))
    BY <1>1, <2>1, <2>2, <2>3 DEF One
  <2>5. QED
    BY <1>1, <1>4, <2>4 DEF One, L
<1>5. QED
  BY <1>3, <1>4

(* Ids and keys stay apart if one worker alone goes on with its own.       *)
LEMMA ApartKept ==
  ASSUME Apart, NEW w \in Workers, call[w] # Idle,
         \A v \in Workers \ {w} : call'[v] # Idle =>
           /\ call[v] # Idle /\ call'[v].id = call[v].id
           /\ Deleting(call'[v]) => Deleting(call[v]) /\ call'[v].key = call[v].key,
         call'[w] # Idle =>
           /\ call'[w].id = call[w].id
           /\ Deleting(call'[w]) =>
                \/ Deleting(call[w]) /\ call'[w].key = call[w].key
                \/ \A v \in Workers \ {w} :
                     call[v] # Idle /\ Deleting(call[v]) => call[v].key # call'[w].key,
         \A id \in DOMAIN open' : id \in DOMAIN open \/ (call'[w] = Idle /\ id = call[w].id)
  PROVE  Apart'
<1>1. ASSUME NEW v \in Workers, call'[v] # Idle PROVE call'[v].id \notin DOMAIN open'
  BY <1>1 DEF Apart
<1>2. ASSUME NEW u \in Workers, NEW v \in Workers, call'[u] # Idle, call'[v] # Idle, u # v
      PROVE  /\ call'[u].id # call'[v].id
             /\ Deleting(call'[u]) /\ Deleting(call'[v]) => call'[u].key # call'[v].key
  <2>1. CASE u # w /\ v # w
    BY <1>2, <2>1 DEF Apart
  <2>2. CASE u = w
    BY <1>2, <2>2 DEF Apart
  <2>3. CASE v = w
    BY <1>2, <2>3 DEF Apart
  <2>4. QED
    BY <2>1, <2>2, <2>3
<1>3. QED
  BY <1>1, <1>2 DEF Apart

-----------------------------------------------------------------------------
(* The sums behind SlotsExact.                                             *)
LEMMA BalanceKept ==
  ASSUME NEW n0 \in Int, NEW n1 \in Int, NEW leaked0 \in Int, NEW leaked1 \in Int,
         NEW live \in Int, NEW taken0 \in Int, NEW taken1 \in Int, NEW a \in Int, NEW b \in Int,
         n0 = live + taken0 + leaked0, n1 + a = n0 + b + leaked1 - leaked0,
         taken1 = taken0 - a + b, leaked0 >= 0, leaked1 >= leaked0
  PROVE  n1 = live + taken1 + leaked1 /\ leaked1 >= 0
OBVIOUS

(* A worker that goes on by itself keeps Safe if what it knows stays true  *)
(* and the slots it holds change with the count and the leak.              *)
LEMMA GoSafe ==
  ASSUME TypeInv, TypeInv', Safe, NEW w \in Workers, call[w] # Idle, NEW d, Go(w, d),
         d # Idle => /\ Sound(d, record) /\ d.id = call[w].id
                     /\ Deleting(d) => Deleting(call[w]) /\ d.key = call[w].key,
         record' = record, open' = open,
         n' + Slots(call[w]) = n + Slots(d) + leaked' - leaked,
         leaked' >= leaked, n' <= MaxScopes
  PROVE  Safe'
<1>1. /\ \A v \in Workers \ {w} : call'[v] = call[v]
      /\ call'[w] = d
  BY DEF Go, TypeInv, CallsTyped
<1>2. \A v \in Workers : call'[v] # Idle => Sound(call'[v], record')
  BY <1>1 DEF Safe
<1>3. Apart'
  BY <1>1, ApartKept DEF Safe
<1>4. HeldOn'
  BY DEF Safe, HeldOn
<1>5. Counted'
  <2>1. LiveScopes' = LiveScopes
    BY DEF LiveScopes
  <2>2. SlotsTaken' = SlotsTaken - Slots(call[w]) + Slots(d)
    BY <1>1, SlotsTakenChange DEF TypeInv
  <2>3. Slots(call[w]) \in Nat /\ Slots(d) \in Nat
    <3>1. Slots(call[w]) \in Nat
      BY SlotsNat DEF TypeInv
    <3>2. d = Idle \/ Typed(d)
      BY <1>1 DEF TypeInv, CallsTyped
    <3>3. QED
      BY <3>1, <3>2, CallFields DEF Slots, Typed
  <2>4. SlotsTaken \in Nat /\ Cardinality(LiveScopes) \in Nat
    BY SlotsTakenNat, LiveNat DEF TypeInv
  <2>5. n = Cardinality(LiveScopes) + SlotsTaken + leaked /\ leaked >= 0
    BY DEF Safe, Counted, SlotsExact, SlotsTaken
  <2>6. n \in Int /\ n' \in Int /\ leaked \in Int /\ leaked' \in Int
    BY DEF TypeInv
  <2>7. n' = Cardinality(LiveScopes) + SlotsTaken' + leaked' /\ leaked' >= 0
    <3>1. SlotsTaken' \in Int
      BY <2>2, <2>3, <2>4
    <3>2. QED
      BY <2>2, <2>3, <2>4, <2>5, <2>6, <3>1, BalanceKept
  <2>8. QED
    BY <2>1, <2>7 DEF Counted, SlotsExact, SlotsTaken
<1>6. QED
  BY <1>2, <1>3, <1>4, <1>5 DEF Safe

(* So does one that writes a key, if no other worker is deleting it, and   *)
(* every other that has a copy of a live record there finds a recent one.  *)
LEMMA WriteSafe ==
  ASSUME TypeInv, TypeInv', Safe, NEW w \in Workers, call[w] # Idle, NEW d,
         d = Idle \/ Typed(d), NEW s \in Scopes, NEW value \in Values, Write(w, d, s, value),
         \A v \in Workers \ {w} : call[v] # Idle =>
           /\ ~(Deleting(call[v]) /\ call[v].key = s)
           /\ Copies(call[v], s) => IsLive(value) \/ (value.kind = "vacant" /\ value.age <= MaxStall),
         d # Idle => /\ Sound(Unlinked(d, s), record') /\ d.id = call[w].id
                     /\ Deleting(d) =>
                          d.key = s \/ (Deleting(call[w]) /\ d.key = call[w].key),
         HeldOn',
         \A id \in DOMAIN open' : id \in DOMAIN open \/ (d = Idle /\ id = call[w].id),
         n' = n,
         One(IsLive(value)) + Slots(d) + leaked' = One(IsLive(record[s])) + Slots(call[w]) + leaked,
         leaked' >= 0
  PROVE  Safe'
<1>1. /\ record' = [record EXCEPT ![s] = value]
      /\ \A v \in Workers \ {w} : call'[v] = Unlinked(call[v], s)
      /\ call'[w] = Unlinked(d, s)
  BY DEF Write
<1>2. record \in [Scopes -> Values] /\ CallsTyped /\ CallsTyped'
  BY DEF TypeInv
<1>3. ASSUME NEW v \in Workers \ {w}
      PROVE  /\ call[v] = Idle => call'[v] = Idle
             /\ call[v] # Idle =>
                  /\ call'[v] # Idle /\ Sound(call'[v], record') /\ Slots(call'[v]) = Slots(call[v])
                  /\ call'[v].id = call[v].id /\ call'[v].key = call[v].key
                  /\ Deleting(call'[v]) <=> Deleting(call[v])
  <2>1. CASE call[v] = Idle
    BY <1>1, <2>1 DEF Unlinked
  <2>2. CASE call[v] # Idle
    <3>1. Typed(call[v]) /\ Sound(call[v], record)
      BY <1>2, <2>2 DEF CallsTyped, Safe
    <3>2. /\ ~(Deleting(call[v]) /\ call[v].key = s)
          /\ Copies(call[v], s) => IsLive(value) \/ (value.kind = "vacant" /\ value.age <= MaxStall)
      BY <2>2
    <3>3. LET e == Unlinked(call[v], s)
          IN  /\ e # Idle /\ Sound(e, [record EXCEPT ![s] = value])
              /\ Slots(e) = Slots(call[v]) /\ e.id = call[v].id /\ e.key = call[v].key
              /\ (Deleting(e) <=> Deleting(call[v]))
      <4>1. call[v] # Idle
        BY <2>2
      <4> DEFINE c == call[v]
      <4> HIDE DEF c
      <4>2. QED
        BY <1>2, <3>1, <3>2, <4>1, UnlinkedSound DEF c
    <3>4. QED
      BY <1>1, <2>2, <3>3
  <2>3. QED
    BY <2>1, <2>2
<1>4. /\ d = Idle => call'[w] = Idle
      /\ d # Idle => /\ call'[w] # Idle /\ call'[w].id = d.id /\ call'[w].key = d.key
                     /\ Deleting(call'[w]) <=> Deleting(d)
      /\ Slots(call'[w]) = Slots(d)
  <2>1. CASE d = Idle
    BY <1>1, <2>1 DEF Unlinked
  <2>2. CASE d # Idle
    BY <1>1, <2>2, UnlinkedTyped DEF Slots, Deleting
  <2>3. QED
    BY <2>1, <2>2
<1>5. \A v \in Workers : call'[v] # Idle => Sound(call'[v], record')
  BY <1>1, <1>3, <1>4
<1>6. Apart'
  BY <1>3, <1>4, ApartKept DEF Safe
<1>7. Counted'
  <2>1. Cardinality(LiveScopes') =
          Cardinality(LiveScopes) - One(IsLive(record[s])) + One(IsLive(value))
    BY <1>1, <1>2, LiveChange
  <2>2. \A v \in Workers \ {w} : Slots(call'[v]) = Slots(call[v])
    BY <1>3 DEF Slots
  <2>3. SlotsTaken' = SlotsTaken - Slots(call[w]) + Slots(d)
    BY <1>2, <1>4, <2>2, SlotsTakenChange
  <2>4. Slots(call[w]) \in Nat /\ Slots(d) \in Nat
    BY <1>2, SlotsNat, CallFields DEF Slots, Typed
  <2>5. SlotsTaken \in Nat /\ Cardinality(LiveScopes) \in Nat
    BY <1>2, SlotsTakenNat, LiveNat
  <2>6. n = Cardinality(LiveScopes) + SlotsTaken + leaked /\ n <= MaxScopes
    BY DEF Safe, Counted, SlotsExact, SlotsTaken
  <2>7. n \in Int /\ leaked \in Int /\ leaked' \in Int
    BY DEF TypeInv
  <2>8. One(IsLive(value)) \in Nat /\ One(IsLive(record[s])) \in Nat
    BY DEF One
  <2>9. n' = Cardinality(LiveScopes') + SlotsTaken' + leaked'
    BY <2>1, <2>3, <2>4, <2>5, <2>6, <2>7, <2>8
  <2>10. QED
    BY <2>6, <2>9 DEF Counted, SlotsExact, SlotsTaken
<1>8. QED
  BY <1>5, <1>6, <1>7 DEF Safe

(* What a call knows does not depend on whether it owns the sweep key.     *)
LEMMA DisownedSound ==
  ASSUME NEW c, Typed(c), c # Idle, NEW rec, Sound(c, rec)
  PROVE  LET d == [c EXCEPT !.owns = FALSE]
         IN  /\ d # Idle /\ Sound(d, rec) /\ Slots(d) = Slots(c)
             /\ d.id = c.id /\ d.key = c.key /\ (Deleting(d) <=> Deleting(c))
<1> DEFINE d == [c EXCEPT !.owns = FALSE]
<1>1. c \in Calls
  BY DEF Typed
<1>2. /\ d \in Calls
      /\ d.op = c.op /\ d.scope = c.scope /\ d.id = c.id /\ d.lag = c.lag /\ d.at = c.at
      /\ d.read = c.read /\ d.slot = c.slot /\ d.clock_lag = c.clock_lag
      /\ d.key = c.key /\ d.found = c.found /\ d.freed = c.freed
      /\ d.linked = c.linked /\ d.key_linked = c.key_linked
  BY <1>1 DEF Calls
<1> HIDE DEF d
<1>3. d # Idle
  BY <1>2, CallFields
<1>4. Staged(d) /\ Linked(d, rec)
  BY <1>2 DEF Sound, Staged, Linked, Sweeping, Deleting, Aged
<1>5. \A t \in Scopes : Copies(d, t) => Recent(d, rec[t])
  BY <1>2 DEF Sound, Copies, Recent
<1>6. (Deleting(d) <=> Deleting(c)) /\ (Deleting(d) => rec[d.key] = Doomed(d.clock_lag))
  BY <1>2 DEF Sound, Deleting
<1>7. Slots(d) = Slots(c)
  BY <1>2, <1>3 DEF Slots
<1>8. QED
  BY <1>2, <1>3, <1>4, <1>5, <1>6, <1>7 DEF Sound, d

(* A write of the sweep key disowns every other sweep, and that is all.    *)
LEMMA WriteSweepSafe ==
  ASSUME TypeInv, TypeInv', Safe, NEW w \in Workers, call[w] # Idle, NEW d, NEW value,
         WriteSweep(w, d, value),
         d # Idle => Sound(d, record) /\ d.id = call[w].id /\ ~Deleting(d),
         record' = record, open' = open, n' = n, leaked' = leaked, Slots(d) = Slots(call[w])
  PROVE  Safe'
<1>1. CallsTyped /\ CallsTyped' /\ call'[w] = d
  BY DEF TypeInv, WriteSweep
<1>2. ASSUME NEW v \in Workers \ {w}
      PROVE  /\ call[v] = Idle => call'[v] = Idle
             /\ call[v] # Idle =>
                  /\ call'[v] # Idle /\ Sound(call'[v], record) /\ Slots(call'[v]) = Slots(call[v])
                  /\ call'[v].id = call[v].id /\ call'[v].key = call[v].key
                  /\ Deleting(call'[v]) <=> Deleting(call[v])
  <2>1. CASE call[v] = Idle
    BY <2>1 DEF WriteSweep
  <2>2. CASE call[v] # Idle
    <3>1. Typed(call[v]) /\ Sound(call[v], record)
      BY <1>1, <2>2 DEF CallsTyped, Safe
    <3>2. call'[v] = [call[v] EXCEPT !.owns = FALSE]
      BY <2>2 DEF WriteSweep
    <3>3. QED
      BY <2>2, <3>1, <3>2, DisownedSound
  <2>3. QED
    BY <2>1, <2>2
<1>3. \A v \in Workers : call'[v] # Idle => Sound(call'[v], record')
  BY <1>1, <1>2
<1>4. Apart'
  BY <1>1, <1>2, ApartKept DEF Safe
<1>5. HeldOn'
  BY DEF Safe, HeldOn
<1>6. Counted'
  <2>1. LiveScopes' = LiveScopes
    BY DEF LiveScopes
  <2>2. \A v \in Workers \ {w} : Slots(call'[v]) = Slots(call[v])
    BY <1>2 DEF Slots
  <2>3. SlotsTaken' = SlotsTaken - Slots(call[w]) + Slots(call[w])
    BY <1>1, <2>2, SlotsTakenChange
  <2>4. Slots(call[w]) \in Nat /\ SlotsTaken \in Nat
    BY <1>1, SlotsNat, SlotsTakenNat
  <2>5. SlotsTaken' = SlotsTaken
    BY <2>3, <2>4
  <2>6. QED
    BY <2>1, <2>5 DEF Safe, Counted, SlotsExact, SlotsTaken
<1>7. QED
  BY <1>3, <1>4, <1>5, <1>6 DEF Safe

-----------------------------------------------------------------------------
(* A call that neither writes a key next nor holds a slot knows as much as *)
(* it did.                                                                 *)
LEMMA QuietSound ==
  ASSUME NEW rec, NEW c, Sound(c, rec), c.at # "put", NEW d,
         d.linked = c.linked, d.read = c.read, d.scope = c.scope, ~d.slot, ~IsLive(d.found),
         d.at \notin {"put", "give_back", "swap", "delete", "restore_read", "restore"},
         d.freed > 0 => d.at \in {"visit", "uncount"}
  PROVE  Sound(d, rec) /\ ~Deleting(d)
<1>1. ~Deleting(d)
  BY DEF Deleting
<1>2. ~IsLive(d.read)
  BY DEF Sound, Staged
<1>3. Staged(d)
  BY <1>1, <1>2 DEF Staged, Sweeping
<1>4. Linked(d, rec)
  BY DEF Sound, Linked
<1>5. \A s \in Scopes : ~Copies(d, s)
  BY <1>2 DEF Copies
<1>6. QED
  BY <1>1, <1>3, <1>4, <1>5 DEF Sound

(* Slots of a call at a step that holds none.                              *)
LEMMA NoSlots ==
  ASSUME NEW rec, NEW c, Typed(c), Sound(c, rec), ~Sweeping(c),
         c.at \notin {"put", "give_back", "uncount"}
  PROVE  ~c.slot /\ c.freed = 0 /\ Slots(c) = 0
BY CallFields DEF Typed, Sound, Staged, Slots

(* A call that begins adds nothing to what is known, if its id is its own. *)
LEMMA BeginSafe ==
  ASSUME TypeInv, TypeInv', Safe, NEW w \in Workers, call[w] = Idle, NEW d, Go(w, d),
         d # Idle, Sound(d, record), ~Deleting(d), Slots(d) = 0,
         \A v \in Workers : call[v] # Idle => call[v].id # d.id,
         d.id \notin DOMAIN open',
         \A id \in DOMAIN open' : id \in DOMAIN open /\ open'[id] = open[id],
         record' = record, n' = n, leaked' = leaked
  PROVE  Safe'
<1>1. /\ \A v \in Workers \ {w} : call'[v] = call[v]
      /\ call'[w] = d
  BY DEF Go, TypeInv, CallsTyped
<1>2. \A v \in Workers : call'[v] # Idle => Sound(call'[v], record')
  BY <1>1 DEF Safe
<1>3. Apart'
  <2>1. ASSUME NEW v \in Workers, call'[v] # Idle PROVE call'[v].id \notin DOMAIN open'
    BY <1>1, <2>1 DEF Safe, Apart
  <2>2. ASSUME NEW u \in Workers, NEW v \in Workers, call'[u] # Idle, call'[v] # Idle, u # v
        PROVE  /\ call'[u].id # call'[v].id
               /\ Deleting(call'[u]) /\ Deleting(call'[v]) => call'[u].key # call'[v].key
    BY <1>1, <2>2 DEF Safe, Apart
  <2>3. QED
    BY <2>1, <2>2 DEF Apart
<1>4. HeldOn'
  BY DEF Safe, HeldOn
<1>5. Counted'
  <2>1. LiveScopes' = LiveScopes
    BY DEF LiveScopes
  <2>2. Slots(call[w]) = 0
    BY DEF Slots
  <2>3. SlotsTaken' = SlotsTaken - Slots(call[w]) + Slots(d)
    BY <1>1, SlotsTakenChange DEF TypeInv
  <2>4. SlotsTaken \in Nat
    BY SlotsTakenNat DEF TypeInv
  <2>5. SlotsTaken' = SlotsTaken
    BY <2>2, <2>3, <2>4
  <2>6. QED
    BY <2>1, <2>5 DEF Safe, Counted, SlotsExact, SlotsTaken
<1>6. QED
  BY <1>2, <1>3, <1>4, <1>5 DEF Safe

LEMMA ReserveSafe ==
  ASSUME TypeInv, Safe, NEW w \in Workers, NEW s \in Scopes, NEW id \in Ids, Reserve(w, s, id)
  PROVE  Safe'
<1> DEFINE d == NewCall("reserve", s, id)
           e == [d EXCEPT !.at = "gc"]
<1>1. TypeInv'
  BY ReserveTyped
<1>2. Typed(d) /\ d # Idle /\ Sound(d, record) /\ ~Deleting(d) /\ Slots(d) = 0 /\ d.id = id
  BY NewCallTyped DEF TypeInv
<1>3. d.at = "read"
  BY DEF NewCall
<1>4. Go(w, d) \/ Go(w, e)
  BY DEF Reserve
<1> HIDE DEF d
<1>5. e # Idle /\ Sound(e, record) /\ ~Deleting(e) /\ Slots(e) = 0 /\ e.id = id
  <2>1. d \in Calls
    BY <1>2 DEF Typed
  <2>2. ~d.slot /\ d.freed = 0
    BY <1>2, <1>3, NoSlots DEF Sweeping
  <2>3. /\ e \in Calls /\ e.linked = d.linked /\ e.read = d.read /\ e.scope = d.scope
        /\ ~e.slot /\ e.found = d.found /\ e.at = "gc" /\ e.freed = 0 /\ e.id = d.id
    BY <2>1, <2>2 DEF Calls, Places
  <2>4. ~IsLive(d.found)
    BY <1>2, <1>3 DEF Sound, Staged
  <2> HIDE DEF e
  <2>5. QED
    BY <1>2, <1>3, <2>3, <2>4, QuietSound, CallFields DEF Slots
<1> HIDE DEF e
<1>6. /\ call[w] = Idle /\ ~Used(id)
      /\ record' = record /\ open' = open /\ n' = n /\ leaked' = leaked
  BY DEF Reserve, shared
<1>7. id \notin DOMAIN open' /\ \A v \in Workers : call[v] # Idle => call[v].id # id
  BY <1>6 DEF Used
<1>8. QED
  BY <1>1, <1>2, <1>4, <1>5, <1>6, <1>7, BeginSafe

LEMMA SettleSafe ==
  ASSUME TypeInv, Safe, NEW w \in Workers, NEW id \in DOMAIN open, NEW op \in Settlements,
         Settle(w, id, op)
  PROVE  Safe'
<1> DEFINE d == NewCall(op, open[id].scope, id)
<1>1. TypeInv'
  BY SettleTyped
<1>2. op \in {"reserve", "commit", "release"} /\ id \in Ids /\ open[id].scope \in Scopes
  BY OpenFacts, SlotsAssumption DEF TypeInv
<1>3. d # Idle /\ Sound(d, record) /\ ~Deleting(d) /\ Slots(d) = 0 /\ d.id = id
  BY <1>2, NewCallTyped DEF TypeInv
<1>4. /\ call[w] = Idle /\ Go(w, d) /\ open' = Restrict(open, DOMAIN open \ {id})
      /\ record' = record /\ n' = n /\ leaked' = leaked
  BY DEF Settle, shared
<1> HIDE DEF d
<1>5. /\ d.id \notin DOMAIN open'
      /\ \A i \in DOMAIN open' : i \in DOMAIN open /\ open'[i] = open[i]
  BY <1>3, <1>4 DEF Restrict
<1>6. \A v \in Workers : call[v] # Idle => call[v].id # d.id
  BY <1>3 DEF Safe, Apart
<1>7. QED
  BY <1>1, <1>3, <1>4, <1>5, <1>6, BeginSafe

LEMMA ForgetSafe ==
  ASSUME TypeInv, Safe, NEW id \in DOMAIN open, Forget(id)
  PROVE  Safe'
<1>1. /\ \A i \in DOMAIN open' : i \in DOMAIN open /\ open'[i] = open[i]
      /\ record' = record /\ n' = n /\ leaked' = leaked /\ call' = call
  BY DEF Forget, Restrict, shared
<1>2. \A v \in Workers : call'[v] # Idle => Sound(call'[v], record')
  BY <1>1 DEF Safe
<1>3. Apart' /\ HeldOn'
  BY <1>1 DEF Safe, Apart, HeldOn
<1>4. Counted'
  BY <1>1 DEF Safe, Counted, SlotsExact, LiveScopes
<1>5. QED
  BY <1>2, <1>3, <1>4 DEF Safe

LEMMA RestartSafe ==
  ASSUME TypeInv, Safe, NEW w \in Workers, Restart(w)
  PROVE  Safe'
<1>1. TypeInv'
  BY RestartTyped
<1>2. /\ call[w] # Idle /\ Go(w, Idle) /\ leaked' = leaked + Slots(call[w])
      /\ record' = record /\ open' = open /\ n' = n
  BY DEF Restart, shared
<1>3. Slots(call[w]) \in Nat /\ Slots(Idle) = 0
  BY SlotsNat DEF TypeInv, Slots
<1>4. leaked' >= leaked /\ n' <= MaxScopes /\ n' + Slots(call[w]) = n + Slots(Idle) + leaked' - leaked
  BY <1>2, <1>3 DEF TypeInv, Safe, Counted
<1>5. QED
  BY <1>1, <1>2, <1>4, GoSafe

(* A step within an attempt that changes nothing but where the call is.    *)
LEMMA MoveSafe ==
  ASSUME TypeInv, TypeInv', Safe, NEW w \in Workers, call[w] # Idle, NEW d, Go(w, d),
         d # Idle => /\ Sound(d, record) /\ d.id = call[w].id
                     /\ Deleting(d) => Deleting(call[w]) /\ d.key = call[w].key,
         record' = record, open' = open, n' = n, leaked' = leaked,
         Slots(d) = Slots(call[w])
  PROVE  Safe'
<1>1. Slots(call[w]) \in Nat /\ n \in Nat /\ leaked \in Int /\ n <= MaxScopes
  BY SlotsNat DEF TypeInv, Safe, Counted
<1>2. n' + Slots(call[w]) = n + Slots(d) + leaked' - leaked /\ leaked' >= leaked /\ n' <= MaxScopes
  BY <1>1
<1>3. QED
  BY <1>2, GoSafe

LEMMA CheckGcSafe ==
  ASSUME TypeInv, Safe, NEW w \in Workers, CheckGc(w)
  PROVE  Safe'
<1> DEFINE c == call[w]
           d == [c EXCEPT !.at = "read"]
           e == [c EXCEPT !.at = "claim", !.why = "gc", !.owns = TRUE]
<1>0. TypeInv'
  BY CheckGcTyped
<1>1. Typed(c) /\ c \in Calls /\ c # Idle /\ c.at = "gc"
  BY RunningCall DEF TypeInv, CheckGc, Places
<1>2. Sound(c, record)
  BY <1>1 DEF Safe
<1>3. /\ Go(w, d) \/ Go(w, e)
      /\ record' = record /\ open' = open /\ n' = n /\ leaked' = leaked
  BY DEF CheckGc, shared
<1> HIDE DEF c
<1>4. ~c.slot /\ c.freed = 0 /\ Slots(c) = 0 /\ ~IsLive(c.found)
  BY <1>1, <1>2, NoSlots DEF Sweeping, Sound, Staged
<1>5. /\ d \in Calls /\ d.at = "read" /\ d.linked = c.linked /\ d.read = c.read /\ d.scope = c.scope
      /\ ~d.slot /\ d.found = c.found /\ d.freed = 0 /\ d.id = c.id
      /\ e \in Calls /\ e.at = "claim" /\ e.linked = c.linked /\ e.read = c.read /\ e.scope = c.scope
      /\ ~e.slot /\ e.found = c.found /\ e.freed = 0 /\ e.id = c.id
  BY <1>1, <1>4 DEF Calls, Places
<1> HIDE DEF d, e
<1>6. /\ Sound(d, record) /\ ~Deleting(d) /\ Sound(e, record) /\ ~Deleting(e)
  BY <1>1, <1>2, <1>4, <1>5, QuietSound
<1>7. Slots(d) = 0 /\ Slots(e) = 0
  BY <1>5, CallFields DEF Slots
<1>8. QED
  BY <1>0, <1>1, <1>3, <1>4, <1>5, <1>6, <1>7, MoveSafe DEF c

LEMMA ReadRecordSafe ==
  ASSUME TypeInv, Safe, NEW w \in Workers, ReadRecord(w)
  PROVE  Safe'
<1> DEFINE c == call[w]
           value == record[c.scope]
<1>0. TypeInv'
  BY ReadRecordTyped
<1>1. Typed(c) /\ c # Idle /\ Sound(c, record) /\ c.at = "read"
  BY ReadRecordFacts DEF Safe, ReadRecord
<1>2. ~c.slot /\ c.freed = 0 /\ Slots(c) = 0 /\ ~IsLive(c.found)
  BY <1>1, NoSlots DEF Sweeping, Sound, Staged
<1>3. value \in Values /\ c.scope \in Scopes
  BY <1>1, CallFields DEF TypeInv, Typed
<1>4. record' = record /\ open' = open /\ n' = n /\ leaked' = leaked
  BY DEF ReadRecord, shared
<1>5. CASE Go(w, Idle)
  BY <1>0, <1>1, <1>2, <1>4, <1>5, MoveSafe DEF Slots
<1>6. ASSUME NEW d, Go(w, d), Typed(d), d.id = c.id, d.scope = c.scope,
             d.slot = c.slot, d.freed = c.freed, d.found = c.found,
             IF IsLive(value) THEN d.at = "put" /\ d.read = value /\ d.linked
             ELSE /\ d.at = "slot" /\ d.read = Missing
                  /\ value.kind # "doomed" /\ (d.linked <=> value # Missing)
      PROVE  Safe'
  <2>1. ~Deleting(d) /\ ~Sweeping(d)
    BY <1>6 DEF Deleting, Sweeping
  <2>2. Slots(d) = 0 /\ d # Idle
    BY <1>2, <1>6, CallFields DEF Slots, Typed
  <2>3. Staged(d)
    BY <1>2, <1>6, <2>1, MissingValue DEF Staged
  <2>4. Linked(d, record)
    BY <1>3, <1>6, MissingValue, ValueFacts DEF Linked
  <2>5. \A s \in Scopes : Copies(d, s) => Recent(d, record[s])
    BY <1>2, <1>6, MissingValue DEF Copies, Recent
  <2>6. Sound(d, record)
    BY <2>1, <2>3, <2>4, <2>5 DEF Sound
  <2>7. QED
    BY <1>0, <1>1, <1>2, <1>4, <1>6, <2>1, <2>2, <2>6, MoveSafe
<1>7. QED
  BY <1>5, <1>6, ReadRecordFacts

(* A slot taken is counted, or leaks.                                      *)
LEMMA AcquireSlotSafe ==
  ASSUME TypeInv, Safe, "landed" \notin Faults, NEW w \in Workers, AcquireSlot(w)
  PROVE  Safe'
<1> DEFINE c == call[w]
           d == [c EXCEPT !.at = "put", !.slot = TRUE]
           e == [c EXCEPT !.at = "cap"]
<1>0. TypeInv'
  BY AcquireSlotTyped
<1>1. Typed(c) /\ c \in Calls /\ c # Idle /\ c.at = "slot"
  BY RunningCall DEF TypeInv, AcquireSlot, Places
<1>2. Sound(c, record)
  BY <1>1 DEF Safe
<1>3. /\ \/ HasRoom /\ Go(w, d) /\ n' = n + 1 /\ leaked' = leaked
         \/ (Go(w, e) \/ Go(w, Idle)) /\ n' = n /\ leaked' = leaked
      /\ record' = record /\ open' = open
  BY DEF AcquireSlot, Fails
<1>4. n \in Nat /\ MaxScopes \in Nat /\ leaked \in Int /\ n <= MaxScopes
  BY ConstantFacts DEF TypeInv, Safe, Counted
<1> HIDE DEF c
<1>5. /\ ~c.slot /\ c.freed = 0 /\ Slots(c) = 0 /\ ~IsLive(c.found) /\ ~IsLive(c.read)
      /\ ~Deleting(c)
  BY <1>1, <1>2, NoSlots DEF Sweeping, Deleting, Sound, Staged
<1>6. /\ d \in Calls /\ d.at = "put" /\ d.linked = c.linked /\ d.read = c.read /\ d.scope = c.scope
      /\ d.slot /\ d.found = c.found /\ d.freed = 0 /\ d.id = c.id
      /\ e \in Calls /\ e.at = "cap" /\ e.linked = c.linked /\ e.read = c.read /\ e.scope = c.scope
      /\ ~e.slot /\ e.found = c.found /\ e.freed = 0 /\ e.id = c.id
  BY <1>1, <1>5 DEF Calls, Places
<1> HIDE DEF d, e
<1>7. CASE HasRoom /\ Go(w, d) /\ n' = n + 1 /\ leaked' = leaked
  <2>1. ~Deleting(d) /\ Slots(d) = 1 /\ d # Idle
    BY <1>6, CallFields DEF Deleting, Slots
  <2>2. Staged(d)
    BY <1>5, <1>6, <2>1 DEF Staged
  <2>3. Linked(d, record)
    BY <1>1, <1>2, <1>6 DEF Sound, Linked
  <2>4. \A s \in Scopes : ~Copies(d, s)
    BY <1>5, <1>6 DEF Copies
  <2>5. Sound(d, record)
    BY <2>1, <2>2, <2>3, <2>4 DEF Sound
  <2>6. n' <= MaxScopes /\ leaked' >= leaked /\ n' + Slots(call[w]) = n + Slots(d) + leaked' - leaked
    BY <1>4, <1>5, <1>7, <2>1 DEF HasRoom, c
  <2>7. QED
    BY <1>0, <1>1, <1>3, <1>6, <1>7, <2>1, <2>5, <2>6, GoSafe DEF c
<1>8. CASE (Go(w, e) \/ Go(w, Idle)) /\ n' = n /\ leaked' = leaked
  <2>1. Sound(e, record) /\ ~Deleting(e)
    BY <1>1, <1>2, <1>5, <1>6, QuietSound
  <2>2. Slots(e) = 0 /\ Slots(Idle) = 0
    BY <1>6 DEF Slots
  <2>3. QED
    BY <1>0, <1>1, <1>3, <1>5, <1>6, <1>8, <2>1, <2>2, MoveSafe DEF c
<1>9. QED
  BY <1>3, <1>7, <1>8

LEMMA AtCapSafe ==
  ASSUME TypeInv, Safe, NEW w \in Workers, AtCap(w)
  PROVE  Safe'
<1> DEFINE c == call[w]
           e == [c EXCEPT !.at = "claim", !.why = "cap", !.owns = TRUE]
<1>0. TypeInv'
  BY AtCapTyped
<1>1. Typed(c) /\ c \in Calls /\ c # Idle /\ c.at = "cap"
  BY RunningCall DEF TypeInv, AtCap, Places
<1>2. Sound(c, record)
  BY <1>1 DEF Safe
<1>3. /\ Go(w, e) \/ Go(w, Idle)
      /\ record' = record /\ open' = open /\ n' = n /\ leaked' = leaked
  BY DEF AtCap, shared
<1> HIDE DEF c
<1>4. ~c.slot /\ c.freed = 0 /\ Slots(c) = 0 /\ ~IsLive(c.found)
  BY <1>1, <1>2, NoSlots DEF Sweeping, Sound, Staged
<1>5. /\ e \in Calls /\ e.at = "claim" /\ e.linked = c.linked /\ e.read = c.read /\ e.scope = c.scope
      /\ ~e.slot /\ e.found = c.found /\ e.freed = 0 /\ e.id = c.id
  BY <1>1, <1>4 DEF Calls, Places
<1> HIDE DEF e
<1>6. Sound(e, record) /\ ~Deleting(e)
  BY <1>1, <1>2, <1>4, <1>5, QuietSound
<1>7. Slots(e) = 0 /\ Slots(Idle) = 0
  BY <1>5 DEF Slots
<1>8. QED
  BY <1>0, <1>1, <1>3, <1>4, <1>5, <1>6, <1>7, MoveSafe DEF c

(* A slot given back is off the count, or leaks.                           *)
LEMMA GiveBackSafe ==
  ASSUME TypeInv, Safe, NEW w \in Workers, GiveBack(w)
  PROVE  Safe'
<1> DEFINE c == call[w]
           d == Again(c, "read")
<1>0. TypeInv'
  BY GiveBackTyped
<1>1. Typed(c) /\ c # Idle /\ c.at = "give_back"
  BY RunningCall DEF TypeInv, GiveBack, Places
<1>2. Slots(c) = 1
  BY <1>1, CallFields DEF Safe, Sound, Staged, Sweeping, Slots, Typed
<1>3. Sound(d, record) /\ ~Deleting(d) /\ Slots(d) = 0 /\ d.id = c.id /\ Slots(Idle) = 0
  <2>1. "read" \in Places /\ ~Sweeping([at |-> "read"])
    BY DEF Places, Sweeping
  <2>2. QED
    BY <1>1, <2>1, AgainFacts DEF TypeInv, Slots
<1>4. Go(w, d) \/ Go(w, Idle)
  BY DEF GiveBack
<1>5. /\ n' + 1 = n + leaked' - leaked /\ leaked' >= leaked /\ n' <= n
      /\ n' \in Nat /\ leaked' \in Int
      /\ record' = record /\ open' = open
  BY TakeOffFacts DEF GiveBack, TypeInv
<1>6. n \in Nat /\ MaxScopes \in Nat /\ n <= MaxScopes /\ leaked \in Int
  BY ConstantFacts DEF TypeInv, Safe, Counted
<1> HIDE DEF c, d
<1>7. n' <= MaxScopes
  BY <1>5, <1>6
<1>8. ASSUME NEW e \in {d, Idle} PROVE n' + Slots(c) = n + Slots(e) + leaked' - leaked
  BY <1>2, <1>3, <1>5, <1>6
<1>9. QED
  BY <1>0, <1>1, <1>3, <1>4, <1>5, <1>7, <1>8, GoSafe DEF c

LEMMA HintIdleSafe ==
  ASSUME TypeInv, Safe, NEW w \in Workers, HintIdle(w)
  PROVE  Safe'
<1> DEFINE c == call[w]
           e == [c EXCEPT !.at = "hinting", !.owns = TRUE]
<1>0. TypeInv'
  BY HintIdleTyped
<1>1. Typed(c) /\ c \in Calls /\ c # Idle /\ c.at = "hint"
  BY RunningCall DEF TypeInv, HintIdle, Places
<1>2. Sound(c, record)
  BY <1>1 DEF Safe
<1>3. /\ Go(w, e) \/ Go(w, Idle)
      /\ record' = record /\ open' = open /\ n' = n /\ leaked' = leaked
  BY DEF HintIdle, shared
<1> HIDE DEF c
<1>4. ~c.slot /\ c.freed = 0 /\ Slots(c) = 0 /\ ~IsLive(c.found)
  BY <1>1, <1>2, NoSlots DEF Sweeping, Sound, Staged
<1>5. /\ e \in Calls /\ e.at = "hinting" /\ e.linked = c.linked /\ e.read = c.read
      /\ e.scope = c.scope /\ ~e.slot /\ e.found = c.found /\ e.freed = 0 /\ e.id = c.id
  BY <1>1, <1>4 DEF Calls, Places
<1> HIDE DEF e
<1>6. Sound(e, record) /\ ~Deleting(e)
  BY <1>1, <1>2, <1>4, <1>5, QuietSound
<1>7. Slots(e) = 0 /\ Slots(Idle) = 0
  BY <1>5 DEF Slots
<1>8. QED
  BY <1>0, <1>1, <1>3, <1>4, <1>5, <1>6, <1>7, MoveSafe DEF c

LEMMA HintSafe ==
  ASSUME TypeInv, Safe, NEW w \in Workers, Hint(w)
  PROVE  Safe'
<1> DEFINE c == call[w]
<1>0. TypeInv'
  BY HintTyped
<1>1. Typed(c) /\ c # Idle /\ c.at = "hinting"
  BY RunningCall DEF TypeInv, Hint, Places
<1>2. Slots(c) = 0 /\ Slots(Idle) = 0
  BY <1>1, NoSlots DEF Safe, Sweeping, Slots
<1>3. /\ Go(w, Idle) \/ \E value : WriteSweep(w, Idle, value)
      /\ record' = record /\ open' = open /\ n' = n /\ leaked' = leaked
  BY DEF Hint
<1>4. QED
  BY <1>0, <1>1, <1>2, <1>3, MoveSafe, WriteSweepSafe

LEMMA ClaimSafe ==
  ASSUME TypeInv, Safe, NEW w \in Workers, Claim(w)
  PROVE  Safe'
<1> DEFINE c == call[w]
           own == [c EXCEPT !.at = "own", !.owns = FALSE]
           d == Unswept(c)
<1>0. TypeInv'
  BY ClaimTyped
<1>1. Typed(c) /\ c \in Calls /\ c # Idle /\ c.at = "claim"
  BY RunningCall DEF TypeInv, Claim, Places
<1>2. Sound(c, record)
  BY <1>1 DEF Safe
<1>3. d # Idle => /\ Sound(d, record) /\ ~Deleting(d) /\ d.id = c.id
                  /\ Slots(d) = 0
  BY <1>1, <1>2, UnsweptFacts DEF TypeInv
<1>4. /\ \/ Go(w, d)
         \/ \E value : WriteSweep(w, own, value) \/ WriteSweep(w, d, value)
      /\ record' = record /\ open' = open /\ n' = n /\ leaked' = leaked
  BY DEF Claim
<1> HIDE DEF c, d
<1>5. ~c.slot /\ c.freed = 0 /\ Slots(c) = 0 /\ ~IsLive(c.found)
  BY <1>1, <1>2, NoSlots DEF Sweeping, Sound, Staged
<1>6. /\ own \in Calls /\ own.at = "own" /\ own.linked = c.linked /\ own.read = c.read
      /\ own.scope = c.scope /\ ~own.slot /\ own.found = c.found /\ own.freed = 0 /\ own.id = c.id
  BY <1>1, <1>5 DEF Calls, Places
<1> HIDE DEF own
<1>7. Sound(own, record) /\ ~Deleting(own)
  BY <1>1, <1>2, <1>5, <1>6, QuietSound
<1>8. Slots(own) = 0 /\ Slots(d) = 0
  BY <1>3, <1>6 DEF Slots
<1>9. QED
  BY <1>0, <1>1, <1>3, <1>4, <1>5, <1>6, <1>7, <1>8, MoveSafe, WriteSweepSafe DEF c

LEMMA ReadBackSafe ==
  ASSUME TypeInv, Safe, NEW w \in Workers, ReadBack(w)
  PROVE  Safe'
<1> DEFINE c == call[w]
           e == [c EXCEPT !.at = "list", !.owns = TRUE]
<1>0. TypeInv'
  BY ReadBackTyped
<1>1. Typed(c) /\ c \in Calls /\ c # Idle /\ c.at = "own"
  BY RunningCall DEF TypeInv, ReadBack, Places
<1>2. Sound(c, record)
  BY <1>1 DEF Safe
<1>3. Go(w, e) /\ record' = record /\ open' = open /\ n' = n /\ leaked' = leaked
  BY DEF ReadBack, shared
<1> HIDE DEF c
<1>4. ~c.slot /\ c.freed = 0 /\ Slots(c) = 0 /\ ~IsLive(c.found)
  BY <1>1, <1>2, NoSlots DEF Sweeping, Sound, Staged
<1>5. /\ e \in Calls /\ e.at = "list" /\ e.linked = c.linked /\ e.read = c.read /\ e.scope = c.scope
      /\ ~e.slot /\ e.found = c.found /\ e.freed = 0 /\ e.id = c.id
  BY <1>1, <1>4 DEF Calls, Places
<1> HIDE DEF e
<1>6. Sound(e, record) /\ ~Deleting(e)
  BY <1>1, <1>2, <1>4, <1>5, QuietSound
<1>7. Slots(e) = 0
  BY <1>5, CallFields DEF Slots
<1>8. QED
  BY <1>0, <1>1, <1>3, <1>4, <1>5, <1>6, <1>7, MoveSafe DEF c

(* A sweep that goes on to its next key keeps what it knew of the call.    *)
LEMMA NextKeySound ==
  ASSUME NEW c, Typed(c), NEW rec, Sound(c, rec), c.at # "put", c.at # "give_back", NEW e \in Calls,
         e.clock_lag <= e.lag, e.next_idle <= MaxRescan,
         e.id = c.id, e.scope = c.scope, e.linked = c.linked, e.read = c.read, e.slot = c.slot
  PROVE  LET d == NextKey(e)
         IN  /\ d # Idle /\ Typed(d) /\ Sound(d, rec) /\ ~Deleting(d)
             /\ d.id = c.id /\ Slots(d) = e.freed
             /\ \A s \in Scopes : ~Copies(d, s)
<1> DEFINE d == NextKey(e)
<1>1. /\ d # Idle /\ Typed(d) /\ d.at \in {"visit", "uncount", "done"}
      /\ d.freed > 0 => d.at \in {"visit", "uncount"}
      /\ d.found = Missing
      /\ d.id = e.id /\ d.scope = e.scope /\ d.linked = e.linked /\ d.read = e.read
      /\ d.slot = e.slot /\ d.freed = e.freed
  BY NextKeyFacts
<1> HIDE DEF d
<1>2. ~c.slot /\ ~IsLive(c.read)
  BY DEF Sound, Staged
<1>3. Sound(d, rec) /\ ~Deleting(d)
  BY <1>1, <1>2, MissingValue, QuietSound
<1>4. Slots(d) = e.freed
  BY <1>1, <1>2, CallFields DEF Slots
<1>5. \A s \in Scopes : ~Copies(d, s)
  BY <1>1, <1>2, MissingValue DEF Copies
<1>6. QED
  BY <1>1, <1>3, <1>4, <1>5 DEF d

LEMMA ListSafe ==
  ASSUME TypeInv, Safe, NEW w \in Workers, List(w)
  PROVE  Safe'
<1> DEFINE c == call[w]
<1>0. TypeInv'
  BY ListTyped
<1>1. Typed(c) /\ c # Idle /\ c.at = "list" /\ Sound(c, record)
  BY ListFacts DEF Safe
<1>2. PICK e \in Calls :
        /\ e.clock_lag <= e.lag /\ e.next_idle <= MaxRescan
        /\ e.id = c.id /\ e.scope = c.scope /\ e.linked = c.linked /\ e.read = c.read
        /\ e.slot = c.slot /\ e.freed = c.freed /\ e.lag = c.lag
        /\ Go(w, NextKey(e))
  BY ListFacts
<1>3. /\ NextKey(e) # Idle /\ Sound(NextKey(e), record) /\ ~Deleting(NextKey(e))
      /\ NextKey(e).id = c.id /\ Slots(NextKey(e)) = e.freed
  BY <1>1, <1>2, NextKeySound
<1>4. Slots(c) = 0 /\ c.freed = 0
  BY <1>1, NoSlots DEF Sweeping
<1>5. record' = record /\ open' = open /\ n' = n /\ leaked' = leaked
  BY DEF List, shared
<1>6. QED
  BY <1>0, <1>1, <1>2, <1>3, <1>4, <1>5, MoveSafe

(* A sweep acts on what it has just read.                                  *)
LEMMA VisitSafe ==
  ASSUME TypeInv, Safe, NEW w \in Workers, Visit(w)
  PROVE  Safe'
<1> DEFINE c == call[w]
           value == record[c.key]
<1>0. TypeInv'
  BY VisitTyped
<1>1. /\ Typed(c) /\ c # Idle /\ c.at = "visit" /\ Sound(c, record)
      /\ c.key \in Scopes /\ value \in Values
  BY VisitFacts DEF Safe
<1>2. record' = record /\ open' = open /\ n' = n /\ leaked' = leaked
  BY DEF Visit, shared
<1>3. ~c.slot /\ Slots(c) = c.freed /\ ~IsLive(c.read)
  BY <1>1, CallFields DEF Sound, Staged, Slots, Typed
<1>4. ASSUME NEW e \in Calls, e.clock_lag <= e.lag, e.next_idle <= MaxRescan,
             e.id = c.id, e.scope = c.scope, e.linked = c.linked, e.read = c.read,
             e.slot = c.slot, e.freed = c.freed, e.lag = c.lag,
             Go(w, NextKey(e))
      PROVE  Safe'
  <2>1. /\ NextKey(e) # Idle /\ Sound(NextKey(e), record) /\ ~Deleting(NextKey(e))
        /\ NextKey(e).id = c.id /\ Slots(NextKey(e)) = e.freed
    BY <1>1, <1>4, NextKeySound
  <2>2. QED
    BY <1>0, <1>1, <1>2, <1>3, <1>4, <2>1, MoveSafe
<1>5. ASSUME NEW d, Typed(d), d.at = "swap", d.key_linked, d.found = value,
             d.id = c.id, d.scope = c.scope, d.linked = c.linked, d.read = c.read,
             d.slot = c.slot, d.freed = c.freed, d.lag = c.lag, d.key = c.key,
             d.clock_lag = c.clock_lag, SweptAs(c, value) # value, Go(w, d)
      PROVE  Safe'
  <2>1. ~Deleting(d) /\ Sweeping(d) /\ d # Idle
    BY <1>5, CallFields DEF Deleting, Sweeping, Typed
  <2>2. Staged(d)
    <3>1. value # Missing
      BY <1>1, <1>5, SweptFacts
    <3>2. /\ value.kind = "vacant" => Aged(value, Grace, c.clock_lag)
          /\ value.kind = "doomed" => Aged(value, Recover, c.clock_lag)
      BY <1>1, <1>5, SweptFacts
    <3>3. QED
      BY <1>3, <1>5, <2>1, <3>1, <3>2 DEF Staged
  <2>3. Linked(d, record)
    BY <1>1, <1>5 DEF Sound, Linked
  <2>4. \A s \in Scopes : Copies(d, s) => Recent(d, record[s])
    BY <1>3, <1>5 DEF Copies, Recent
  <2>5. Sound(d, record)
    BY <2>1, <2>2, <2>3, <2>4 DEF Sound
  <2>6. Slots(d) = c.freed
    BY <1>1, <1>3, <1>5, <2>1, CallFields DEF Slots, Typed
  <2>7. QED
    BY <1>0, <1>1, <1>2, <1>3, <1>5, <2>1, <2>5, <2>6, MoveSafe
<1>6. QED
  BY <1>4, <1>5, VisitFacts

(* The slots a sweep freed are off the count, or leak.                     *)
LEMMA UncountSafe ==
  ASSUME TypeInv, Safe, NEW w \in Workers, Uncount(w)
  PROVE  Safe'
<1> DEFINE c == call[w]
<1>0. TypeInv'
  BY UncountTyped
<1>1. /\ Typed(c) /\ c # Idle /\ c.at = "uncount" /\ Sound(c, record) /\ c.freed \in Nat
      /\ TakeOff(c.freed)
  BY UncountFacts DEF Safe
<1>2. PICK d : /\ Typed(d) /\ d # Idle /\ ~Deleting(d) /\ d.at = "done" /\ d.freed = 0
               /\ d.id = c.id /\ d.scope = c.scope /\ d.linked = c.linked
               /\ d.read = c.read /\ d.slot = c.slot /\ d.lag = c.lag
               /\ d.found = c.found /\ d.key = c.key
               /\ Go(w, d)
  BY UncountFacts
<1>3. ~c.slot /\ Slots(c) = c.freed /\ ~IsLive(c.found)
  BY <1>1, CallFields DEF Sound, Staged, Slots, Typed
<1>4. Sound(d, record)
  BY <1>1, <1>2, <1>3, QuietSound
<1>5. Slots(d) = 0
  BY <1>2, <1>3 DEF Slots
<1>6. /\ n' + c.freed = n + leaked' - leaked /\ leaked' >= leaked /\ n' <= n
      /\ n' \in Nat /\ leaked' \in Int
  BY <1>1, TakeOffFacts DEF TypeInv
<1>7. n \in Nat /\ MaxScopes \in Nat /\ n <= MaxScopes /\ leaked \in Int
  BY ConstantFacts DEF TypeInv, Safe, Counted
<1>8. n' <= MaxScopes /\ n' + Slots(c) = n + Slots(d) + leaked' - leaked
  BY <1>1, <1>3, <1>5, <1>6, <1>7
<1>9. record' = record /\ open' = open
  BY DEF Uncount
<1>10. QED
  BY <1>0, <1>1, <1>2, <1>4, <1>6, <1>8, <1>9, GoSafe

LEMMA SweepDoneSafe ==
  ASSUME TypeInv, Safe, NEW w \in Workers, SweepDone(w)
  PROVE  Safe'
<1> DEFINE c == call[w]
           d == Unswept(c)
<1>0. TypeInv'
  BY SweepDoneTyped
<1>1. Typed(c) /\ c # Idle /\ c.at = "done"
  BY RunningCall DEF TypeInv, SweepDone, Places
<1>2. Sound(c, record)
  BY <1>1 DEF Safe
<1>3. /\ d # Idle => Sound(d, record) /\ ~Deleting(d) /\ d.id = c.id
      /\ Slots(d) = 0
  BY <1>1, <1>2, UnsweptFacts DEF TypeInv, Slots
<1>4. /\ Go(w, d) \/ \E value : WriteSweep(w, d, value)
      /\ record' = record /\ open' = open /\ n' = n /\ leaked' = leaked
  BY DEF SweepDone
<1>5. Slots(c) = 0
  BY <1>1, <1>2, NoSlots DEF Sweeping
<1>6. QED
  BY <1>0, <1>1, <1>3, <1>4, <1>5, MoveSafe, WriteSweepSafe

-----------------------------------------------------------------------------
(* Writes of a record.  A reservation that is held stays so if the write   *)
(* keeps it.                                                               *)
LEMMA HeldOnKept ==
  ASSUME TypeInv, HeldOn, NEW s \in Scopes, NEW value,
         record' = [record EXCEPT ![s] = value], open' = open,
         IsLive(record[s]) =>
           \A id \in DOMAIN record[s].held :
             id \in DOMAIN open /\ record[s].held[id] > 0 =>
               IsLive(value) /\ id \in DOMAIN value.held /\ value.held[id] = record[s].held[id]
  PROVE  HeldOn'
<1> SUFFICES ASSUME NEW id \in DOMAIN open, open[id].left > 0
             PROVE  LET t == open[id].scope
                    IN  /\ IsLive(record'[t]) /\ id \in DOMAIN record'[t].held
                        /\ record'[t].held[id] >= open[id].left
  BY DEF HeldOn
<1> DEFINE t == open[id].scope
<1>1. t \in Scopes /\ open[id].left \in Int
  BY OpenFacts, ConstantFacts DEF TypeInv
<1>2. IsLive(record[t]) /\ id \in DOMAIN record[t].held /\ record[t].held[id] >= open[id].left
  BY DEF HeldOn
<1>3. record \in [Scopes -> Values]
  BY DEF TypeInv
<1> HIDE DEF t
<1>4. CASE t # s
  BY <1>1, <1>2, <1>3, <1>4 DEF t
<1>5. CASE t = s
  <2>1. record[s].held[id] \in Int
    BY <1>2, <1>3, <1>5, ValueFacts, HoldsFacts, ConstantFacts
  <2>2. record[s].held[id] > 0
    BY <1>1, <1>2, <1>5, <2>1
  <2>3. QED
    BY <1>1, <1>2, <1>3, <1>5, <2>2 DEF t
<1>6. QED
  BY <1>4, <1>5

(* A write on the version read replaces what was read.                     *)
LEMMA PutReplaces ==
  ASSUME TypeInv, Safe, NEW w \in Workers, call[w].at = "put", Wins(call[w].linked, call[w].scope)
  PROVE  LET c == call[w]
         IN  /\ IsLive(c.read) => record[c.scope] = c.read
             /\ ~IsLive(c.read) => record[c.scope].kind \in {"vacant", "missing"}
<1> DEFINE c == call[w]
<1>1. Typed(c) /\ c # Idle /\ Sound(c, record) /\ c.scope \in Scopes
  BY RunningCall, CallFields DEF TypeInv, Places, Safe
<1>2. record[c.scope] = Missing => ~IsLive(c.read)
  <2>1. IsLive(c.read) => Recent(c, record[c.scope])
    BY <1>1 DEF Sound, Copies
  <2>2. QED
    BY <2>1, MissingValue DEF Recent
<1>3. c.linked => IF IsLive(c.read) THEN record[c.scope] = c.read ELSE record[c.scope].kind = "vacant"
  BY <1>1 DEF Sound, Linked
<1>4. QED
  BY <1>2, <1>3, MissingValue DEF Wins

(* An attempt's write of its record: it wins only over what it read, or    *)
(* over a Vacant or missing record with a slot of its own, and keeps every *)
(* hold that is not due.                                                   *)
LEMMA PutWriteSafe ==
  ASSUME TypeInv, TypeInv', Safe, NEW w \in Workers, call[w].at = "put",
         Wins(call[w].linked, call[w].scope),
         Write(w, AfterPut(call[w]), call[w].scope, Updated(call[w])), Granted(call[w]),
         leaked' = leaked, n' = n
  PROVE  Safe'
<1> DEFINE c == call[w]
           s == c.scope
           d == AfterPut(c)
           value == Updated(c)
<1>1. Typed(c) /\ c # Idle /\ Sound(c, record) /\ s \in Scopes /\ c.id \in Ids /\ c.lag \in Nat
  BY RunningCall, CallFields DEF TypeInv, Places, Safe, Typed
<1>2. record \in [Scopes -> Values] /\ CallsTyped /\ open \in OpenMaps
  BY DEF TypeInv
<1>3. /\ IsLive(c.read) => record[s] = c.read
      /\ ~IsLive(c.read) => record[s].kind \in {"vacant", "missing"}
  BY PutReplaces
<1>4. /\ value \in Values /\ IsLive(value)
      /\ c.op = "reserve" => c.id \in DOMAIN value.held /\ value.held[c.id] = 2 * Ttl - c.lag
      /\ IsLive(c.read) =>
           \A id \in DOMAIN c.read.held :
             id # c.id /\ c.read.held[id] > 0 =>
               id \in DOMAIN value.held /\ value.held[id] = c.read.held[id]
  BY <1>1, UpdatedFacts
<1>5. d = Idle \/ ( /\ d # Idle /\ Typed(d) /\ Sound(d, record) /\ ~Deleting(d) /\ Slots(d) = 0
                    /\ d.id = c.id /\ c.op # "reserve" )
  BY <1>1, <1>2, AfterPutFacts
<1>6. record' = [record EXCEPT ![s] = value] /\ Write(w, d, s, value)
  BY DEF Write
<1>7. /\ open' \in OpenMaps
      /\ c.op # "reserve" => open' = open
      /\ c.op = "reserve" =>
           /\ DOMAIN open' = DOMAIN open \cup {c.id}
           /\ open'[c.id].scope = s /\ open'[c.id].left = 2 * Ttl - c.lag
           /\ \A id \in DOMAIN open : id # c.id => open'[id] = open[id]
  BY <1>1, <1>2, GrantedFacts
<1>8. c.id \notin DOMAIN open
  BY <1>1 DEF Safe, Apart
<1>9. n \in Nat /\ leaked \in Int /\ leaked >= 0
  BY DEF TypeInv, Safe, Counted
<1>10. Slots(c) = One(~IsLive(c.read)) /\ Slots(Idle) = 0
  BY <1>1, CallFields DEF Sound, Staged, Slots, One, Typed, Sweeping
<1> HIDE DEF c, s, d, value
<1>11. ASSUME NEW v \in Workers \ {w}, call[v] # Idle
       PROVE  ~(Deleting(call[v]) /\ call[v].key = s)
  <2>1. Deleting(call[v]) => record[call[v].key] = Doomed(call[v].clock_lag)
    BY <1>11 DEF Safe, Sound
  <2>2. record[s].kind # "doomed"
    BY <1>3, ValueFacts, <1>1, <1>2 DEF IsLive
  <2>3. QED
    BY <2>1, <2>2 DEF Doomed
<1>12. d # Idle => Sound(Unlinked(d, s), record') /\ d.id = c.id /\ ~Deleting(d)
  BY <1>1, <1>2, <1>4, <1>5, <1>6, UnlinkedSound
<1>13. One(IsLive(value)) + Slots(d) + leaked' = One(IsLive(record[s])) + Slots(c) + leaked
  <2>1. Slots(d) = 0
    BY <1>5, <1>10
  <2>2. IsLive(record[s]) <=> IsLive(c.read)
    BY <1>3 DEF IsLive
  <2>3. QED
    BY <1>4, <1>9, <1>10, <2>1, <2>2 DEF One
<1>14. \A id \in DOMAIN open' : id \in DOMAIN open \/ (d = Idle /\ id = c.id)
  BY <1>5, <1>7
<1>15. HeldOn'
  <2> SUFFICES ASSUME NEW id \in DOMAIN open', open'[id].left > 0
               PROVE  LET t == open'[id].scope
                      IN  /\ IsLive(record'[t]) /\ id \in DOMAIN record'[t].held
                          /\ record'[t].held[id] >= open'[id].left
    BY DEF HeldOn
  <2>1. CASE id \notin DOMAIN open
    <3>1. c.op = "reserve" /\ id = c.id
      BY <1>7, <2>1
    <3>2. record'[s] = value
      BY <1>1, <1>2, <1>6
    <3>3. 2 * Ttl - c.lag \in Int
      BY <1>1, ConstantFacts
    <3>4. QED
      BY <1>4, <1>7, <3>1, <3>2, <3>3
  <2>2. CASE id \in DOMAIN open
    <3> DEFINE t == open[id].scope
    <3>1. id # c.id /\ open'[id] = open[id]
      BY <1>7, <1>8, <2>2
    <3>2. t \in Scopes /\ open[id].left \in Int /\ open[id].left > 0
      BY <1>2, <2>2, <3>1, OpenFacts, ConstantFacts
    <3>3. IsLive(record[t]) /\ id \in DOMAIN record[t].held /\ record[t].held[id] >= open[id].left
      BY <2>2, <3>2 DEF Safe, HeldOn
    <3> HIDE DEF t
    <3>4. CASE t # s
      BY <1>2, <1>6, <3>1, <3>2, <3>3, <3>4 DEF t
    <3>5. CASE t = s
      <4>1. record[s].held[id] \in Int
        BY <1>2, <3>2, <3>3, <3>5, ValueFacts, HoldsFacts, ConstantFacts
      <4>2. record[s] = c.read /\ IsLive(c.read)
        BY <1>3, <3>3, <3>5 DEF IsLive
      <4>3. id \in DOMAIN value.held /\ value.held[id] = record[s].held[id]
        BY <1>4, <3>1, <3>2, <3>3, <3>5, <4>1, <4>2
      <4>4. record'[t] = value
        BY <1>2, <1>6, <3>2, <3>5
      <4>5. QED
        BY <1>4, <3>1, <3>3, <3>5, <4>3, <4>4 DEF t
    <3>6. QED
      BY <3>4, <3>5
  <2>3. QED
    BY <2>1, <2>2
<1>16. d = Idle \/ Typed(d)
  BY <1>5
<1>17. leaked' >= 0
  BY <1>9
<1>18. /\ \A v \in Workers \ {w} : call[v] # Idle =>
            /\ ~(Deleting(call[v]) /\ call[v].key = s)
            /\ Copies(call[v], s) => IsLive(value) \/ (value.kind = "vacant" /\ value.age <= MaxStall)
       /\ d # Idle => /\ Sound(Unlinked(d, s), record') /\ d.id = call[w].id
                      /\ Deleting(d) => d.key = s \/ (Deleting(call[w]) /\ d.key = call[w].key)
       /\ \A id \in DOMAIN open' : id \in DOMAIN open \/ (d = Idle /\ id = call[w].id)
       /\ One(IsLive(value)) + Slots(d) + leaked' = One(IsLive(record[s])) + Slots(call[w]) + leaked
       /\ call[w] # Idle
  BY <1>1, <1>4, <1>11, <1>12, <1>13, <1>14 DEF c
<1>19. QED
  BY <1>1, <1>4, <1>6, <1>15, <1>16, <1>17, <1>18, WriteSafe

(* An attempt that does not write keeps its slot, to give it back.         *)
LEMMA PutRecordSafe ==
  ASSUME TypeInv, Safe, "landed" \notin Faults, NEW w \in Workers, PutRecord(w)
  PROVE  Safe'
<1> DEFINE c == call[w]
<1>0. TypeInv'
  BY PutRecordTyped
<1>1. Typed(c) /\ c # Idle /\ c.at = "put" /\ Sound(c, record)
  BY RunningCall DEF TypeInv, PutRecord, Places, Safe
<1>2. Slots(c) = (IF c.slot THEN 1 ELSE 0) /\ (c.slot => ~IsLive(c.read))
  BY <1>1, CallFields DEF Sound, Staged, Slots, Typed, Sweeping
<1>3. ASSUME NEW next \in {Idle, Again(c, "read")}, Go(w, LostSlot(c, next)),
             record' = record, open' = open, n' = n, leaked' = leaked
      PROVE  Safe'
  <2> DEFINE d == LostSlot(c, next)
  <2>1. /\ d = Idle => ~c.slot
        /\ d # Idle => /\ Typed(d) /\ Sound(d, record) /\ ~Deleting(d)
                       /\ d.id = c.id /\ Slots(d) = IF c.slot THEN 1 ELSE 0
    BY <1>1, LostSlotFacts DEF TypeInv
  <2> HIDE DEF d
  <2>2. Slots(d) = Slots(c)
    BY <1>2, <2>1 DEF Slots
  <2>3. QED
    BY <1>0, <1>1, <1>3, <2>1, <2>2, MoveSafe DEF d
<1>4. ASSUME c.op # "reserve" /\ Updated(c) = c.read, Go(w, Idle),
             record' = record, open' = open, n' = n, leaked' = leaked
      PROVE  Safe'
  <2>1. ~c.slot
    BY <1>1, <1>2, <1>4, UpdatedFacts
  <2>2. Slots(c) = 0 /\ Slots(Idle) = 0
    BY <1>2, <2>1 DEF Slots
  <2>3. QED
    BY <1>0, <1>1, <1>4, <2>2, MoveSafe
<1>5. n' = n
  BY DEF PutRecord
<1>6. \/ /\ c.op # "reserve" /\ Updated(c) = c.read /\ Go(w, Idle)
         /\ record' = record /\ open' = open /\ leaked' = leaked
      \/ /\ Wins(c.linked, c.scope) /\ Write(w, AfterPut(c), c.scope, Updated(c))
         /\ Granted(c) /\ leaked' = leaked
      \/ /\ Go(w, LostSlot(c, Again(c, "read"))) \/ Go(w, LostSlot(c, Idle))
         /\ record' = record /\ open' = open /\ leaked' = leaked
  BY DEF PutRecord, Fails
<1>7. QED
  BY <1>0, <1>1, <1>3, <1>4, <1>5, <1>6, PutWriteSafe

(* A sweep's write replaces what it found, unless what it found was not    *)
(* live and is missing now.                                                *)
LEMMA SwapReplaces ==
  ASSUME TypeInv, Safe, NEW w \in Workers, call[w].at = "swap", Wins(call[w].key_linked, call[w].key)
  PROVE  LET c == call[w]
         IN  /\ record[c.key] = c.found \/ (record[c.key] = Missing /\ ~IsLive(c.found))
             /\ c.found # Missing
             /\ c.found.kind = "vacant" => Aged(c.found, Grace, c.clock_lag)
             /\ c.found.kind = "doomed" => Aged(c.found, Recover, c.clock_lag)
<1> DEFINE c == call[w]
<1>1. Typed(c) /\ c # Idle /\ Sound(c, record) /\ c.key \in Scopes
  BY RunningCall DEF TypeInv, Places, Safe, Typed, Sweeping
<1>2. record[c.key] = Missing => ~IsLive(c.found)
  <2>1. IsLive(c.found) => Recent(c, record[c.key])
    BY <1>1 DEF Sound, Copies
  <2>2. QED
    BY <2>1, MissingValue DEF Recent
<1>3. c.key_linked => record[c.key] = c.found
  BY <1>1 DEF Sound, Linked
<1>4. /\ c.found # Missing
      /\ c.found.kind = "vacant" => Aged(c.found, Grace, c.clock_lag)
      /\ c.found.kind = "doomed" => Aged(c.found, Recover, c.clock_lag)
  BY <1>1 DEF Sound, Staged
<1>5. QED
  BY <1>2, <1>3, <1>4 DEF Wins

(* What the sweep writes, by what it found.                                *)
LEMMA SwapWrites ==
  ASSUME NEW c, Typed(c), c.found # Missing,
         c.found.kind = "vacant" => Aged(c.found, Grace, c.clock_lag),
         c.found.kind = "doomed" => Aged(c.found, Recover, c.clock_lag)
  PROVE  LET value == SweptAs(c, c.found)
         IN  /\ value \in Values
             /\ c.found.kind = "vacant" => value = Doomed(c.clock_lag) /\ ~IsLive(value)
             /\ c.found.kind = "doomed" => value = Vacant(c.clock_lag) /\ ~IsLive(value)
             /\ IsLive(c.found) =>
                  /\ ~IsLive(value) => value = Vacant(c.clock_lag)
                  /\ IsLive(value) <=> ~Freeing(c)
             /\ c.found.kind # "live" => ~Freeing(c)
<1>1. c.found \in Values /\ c.clock_lag \in Nat
  BY CallFields DEF Typed
<1> DEFINE value == SweptAs(c, c.found)
<1>2. /\ value \in Values
      /\ IsLive(c.found) => value = Vacant(c.clock_lag) \/ IsLive(value)
      /\ c.found.kind = "vacant" => value = Doomed(c.clock_lag)
      /\ c.found.kind = "doomed" => value = Vacant(c.clock_lag)
  BY <1>1, SweptFacts
<1>3. Freeing(c) <=> IsLive(c.found) /\ value.kind = "vacant"
  BY DEF Freeing
<1> HIDE DEF value
<1>4. QED
  BY <1>1, <1>2, <1>3, VacantValue DEF value, IsLive

(* A sweep's write: what it found was the record, or that was missing;     *)
(* another call that knows a live record there saw it too recently for the *)
(* sweep to have found it old.                                             *)
LEMMA SwapWriteSafe ==
  ASSUME TypeInv, TypeInv', Safe, NEW w \in Workers, call[w].at = "swap",
         Wins(call[w].key_linked, call[w].key),
         Write(w, AfterSwap(call[w]), call[w].key, SweptAs(call[w], call[w].found)),
         leaked' = leaked, n' = n, open' = open
  PROVE  Safe'
<1> DEFINE c == call[w]
           s == c.key
           d == AfterSwap(c)
           value == SweptAs(c, c.found)
<1>1. /\ Typed(c) /\ c # Idle /\ Sound(c, record) /\ s \in Scopes /\ c.found \in Values /\ c.at = "swap"
      /\ c.lag \in Nat /\ c.clock_lag \in Nat /\ c.clock_lag <= MaxStall
  BY RunningCall, CallFields DEF TypeInv, Places, Safe, Typed, Sweeping
<1>2. record \in [Scopes -> Values] /\ CallsTyped
  BY DEF TypeInv
<1>3. /\ record[s] = c.found \/ (record[s] = Missing /\ ~IsLive(c.found))
      /\ c.found # Missing
      /\ c.found.kind = "vacant" => Aged(c.found, Grace, c.clock_lag)
      /\ c.found.kind = "doomed" => Aged(c.found, Recover, c.clock_lag)
  BY SwapReplaces
<1>4. /\ value \in Values
      /\ c.found.kind = "vacant" => value = Doomed(c.clock_lag) /\ ~IsLive(value)
      /\ c.found.kind = "doomed" => value = Vacant(c.clock_lag) /\ ~IsLive(value)
      /\ IsLive(c.found) => /\ ~IsLive(value) => value = Vacant(c.clock_lag)
                            /\ IsLive(value) <=> ~Freeing(c)
      /\ c.found.kind # "live" => ~Freeing(c)
  BY <1>1, <1>3, SwapWrites
<1>5. IsLive(c.found) =>
        \/ /\ value = Vacant(c.clock_lag)
           /\ \A id \in DOMAIN c.found.held : c.found.held[id] + c.lag <= 0
        \/ /\ IsLive(value)
           /\ DOMAIN value.held = {id \in DOMAIN c.found.held : c.found.held[id] + c.lag > 0}
           /\ \A id \in DOMAIN value.held : value.held[id] = c.found.held[id]
  BY <1>1, SweptFacts
<1>6. /\ Typed(d) /\ d # Idle
      /\ d.id = c.id /\ d.scope = c.scope /\ d.linked = c.linked /\ d.read = c.read
      /\ d.slot = c.slot /\ d.lag = c.lag
      /\ c.found.kind = "vacant" =>
           /\ d.at = "delete" /\ d.key = c.key /\ d.found = c.found
           /\ d.clock_lag = c.clock_lag /\ d.freed = c.freed
      /\ c.found.kind # "vacant" =>
           /\ d.at \in {"visit", "uncount", "done"} /\ ~Deleting(d) /\ d.found = Missing
           /\ d.freed = IF Freeing(c) THEN c.freed + 1 ELSE c.freed
           /\ d.freed > 0 => d.at \in {"visit", "uncount"}
  BY <1>1, AfterSwapFacts
<1>7. record' = [record EXCEPT ![s] = value] /\ Write(w, d, s, value)
  BY DEF Write
<1>8. n \in Nat /\ leaked \in Int /\ leaked >= 0
  BY DEF TypeInv, Safe, Counted
<1>9. /\ ~c.slot /\ ~IsLive(c.read) /\ c.freed \in Nat /\ Slots(c) = c.freed /\ Slots(d) = d.freed
      /\ ~d.slot
  BY <1>1, <1>6, CallFields DEF Sound, Staged, Slots, Typed
<1>10. c.found.kind \in {"vacant", "doomed", "live"} /\ (IsLive(c.found) <=> c.found.kind = "live")
  BY <1>1, <1>3, ValueFacts
<1> HIDE DEF c, s, d, value
<1>11. ASSUME NEW v \in Workers \ {w}, call[v] # Idle
       PROVE  /\ ~(Deleting(call[v]) /\ call[v].key = s)
              /\ Copies(call[v], s) =>
                   IsLive(value) \/ (value.kind = "vacant" /\ value.age <= MaxStall)
  <2>1. /\ Sound(call[v], record) /\ call[v].lag \in Nat /\ call[v].lag <= MaxStall
        /\ call[v].clock_lag \in Nat /\ call[v].clock_lag <= MaxStall
    BY <1>2, <1>11, CallFields DEF Safe, CallsTyped, Typed
  <2>2. ASSUME Deleting(call[v]), call[v].key = s PROVE FALSE
    <3>1. record[s] = Doomed(call[v].clock_lag)
      BY <2>1, <2>2 DEF Sound
    <3>2. c.found = Doomed(call[v].clock_lag) /\ Aged(c.found, Recover, c.clock_lag)
      BY <1>3, <2>1, <3>1, VacantValue
    <3>3. call[v].clock_lag - c.clock_lag >= Recover
      BY <2>1, <3>2, VacantValue DEF Aged
    <3>4. QED
      BY <1>1, <2>1, <3>3, ConstantFacts
  <2>3. ASSUME Copies(call[v], s)
        PROVE  IsLive(value) \/ (value.kind = "vacant" /\ value.age <= MaxStall)
    <3>1. Recent(call[v], record[s])
      BY <1>1, <2>1, <2>3 DEF Sound
    <3>2. record[s] = c.found
      BY <1>3, <3>1, MissingValue DEF Recent
    <3>3. c.found.kind # "doomed"
      BY <3>1, <3>2 DEF Recent, IsLive
    <3>4. ASSUME c.found.kind = "vacant" PROVE FALSE
      <4>1. c.found.age <= MaxStall + call[v].lag /\ c.found.age \in Nat
        BY <1>1, <3>1, <3>2, <3>4, ValueFacts DEF Recent, IsLive
      <4>2. c.found.age - c.clock_lag >= Grace
        BY <1>3, <3>4 DEF Aged
      <4>3. QED
        BY <1>1, <2>1, <4>1, <4>2, ConstantFacts
    <3>5. IsLive(value) \/ value = Vacant(c.clock_lag)
      BY <1>4, <1>10, <3>3, <3>4
    <3>6. QED
      BY <1>1, <3>5, VacantValue
  <2>4. QED
    BY <2>2, <2>3
<1>12. Sound(Unlinked(d, s), record') /\ (Deleting(d) => d.key = s)
  <2>1. CASE c.found.kind = "vacant"
    <3> DEFINE e == Unlinked(d, s)
    <3>1. /\ e # Idle /\ e.scope = d.scope /\ e.at = d.at
          /\ e.read = d.read /\ e.slot = d.slot /\ e.clock_lag = d.clock_lag
          /\ e.key = d.key /\ e.found = d.found /\ e.freed = d.freed
          /\ e.linked => d.linked /\ d.scope # s
      BY <1>6, UnlinkedTyped
    <3> HIDE DEF e
    <3>2. /\ e.at = "delete" /\ ~e.slot /\ ~IsLive(e.read) /\ e.found.kind = "vacant"
          /\ ~IsLive(e.found) /\ e.key = s /\ e.clock_lag = c.clock_lag /\ e.scope \in Scopes
      BY <1>6, <1>9, <2>1, <3>1, CallFields DEF s, IsLive, Typed
    <3>3. Sweeping(e) /\ Deleting(e) /\ Staged(e)
      BY <3>2 DEF Sweeping, Deleting, Staged
    <3>4. e.linked => record'[e.scope].kind = "vacant"
      <4>1. e.linked => c.linked /\ e.scope = c.scope /\ e.scope # s
        BY <1>6, <3>1
      <4>2. c.linked => record[c.scope].kind = "vacant"
        BY <1>1, <1>9 DEF Sound, Linked
      <4>3. QED
        BY <1>2, <1>7, <3>2, <4>1, <4>2
    <3>5. Linked(e, record')
      BY <3>2, <3>4 DEF Linked
    <3>6. \A t \in Scopes : ~Copies(e, t)
      BY <3>2 DEF Copies
    <3>7. record'[e.key] = Doomed(e.clock_lag)
      BY <1>1, <1>2, <1>4, <1>7, <2>1, <3>2
    <3>8. QED
      BY <1>6, <2>1, <3>3, <3>5, <3>6, <3>7 DEF Sound, e, s
  <2>2. CASE c.found.kind # "vacant"
    <3>1. Sound(d, record) /\ ~Deleting(d)
      BY <1>1, <1>6, <1>9, <2>2, MissingValue, QuietSound
    <3>2. ~Copies(d, s)
      BY <1>6, <1>9, <2>2, MissingValue DEF Copies
    <3>3. QED
      BY <1>1, <1>2, <1>4, <1>6, <1>7, <3>1, <3>2, UnlinkedSound
  <2>3. QED
    BY <2>1, <2>2
<1>13. One(IsLive(value)) + Slots(d) + leaked' = One(IsLive(record[s])) + Slots(c) + leaked
  <2>1. CASE IsLive(c.found)
    <3>1. record[s] = c.found /\ c.found.kind # "vacant"
      BY <1>3, <1>10, <2>1
    <3>2. d.freed = IF Freeing(c) THEN c.freed + 1 ELSE c.freed
      BY <1>6, <3>1
    <3>3. QED
      BY <1>4, <1>8, <1>9, <2>1, <3>1, <3>2 DEF One
  <2>2. CASE ~IsLive(c.found)
    <3>1. ~IsLive(record[s]) /\ ~IsLive(value) /\ ~Freeing(c)
      BY <1>3, <1>4, <1>10, <2>2, MissingValue
    <3>2. d.freed = c.freed
      BY <1>6, <3>1
    <3>3. QED
      BY <1>8, <1>9, <3>1, <3>2 DEF One
  <2>3. QED
    BY <2>1, <2>2
<1>14. HeldOn'
  <2>1. ASSUME IsLive(record[s]), NEW id \in DOMAIN record[s].held, record[s].held[id] > 0
        PROVE  IsLive(value) /\ id \in DOMAIN value.held /\ value.held[id] = record[s].held[id]
    <3>1. record[s] = c.found /\ IsLive(c.found)
      BY <1>3, <2>1, MissingValue
    <3>2. c.found.held[id] \in Int /\ c.found.held[id] > 0
      BY <1>1, <2>1, <3>1, ValueFacts, HoldsFacts, ConstantFacts
    <3>3. c.found.held[id] + c.lag > 0 /\ ~(c.found.held[id] + c.lag <= 0)
      BY <1>1, <3>2
    <3>4. QED
      BY <1>5, <2>1, <3>1, <3>3
  <2>2. QED
    BY <1>1, <1>7, <2>1, HeldOnKept DEF Safe
<1>15. /\ \A v \in Workers \ {w} : call[v] # Idle =>
            /\ ~(Deleting(call[v]) /\ call[v].key = s)
            /\ Copies(call[v], s) => IsLive(value) \/ (value.kind = "vacant" /\ value.age <= MaxStall)
       /\ d # Idle => /\ Sound(Unlinked(d, s), record') /\ d.id = call[w].id
                      /\ Deleting(d) => d.key = s \/ (Deleting(call[w]) /\ d.key = call[w].key)
       /\ \A id \in DOMAIN open' : id \in DOMAIN open \/ (d = Idle /\ id = call[w].id)
       /\ One(IsLive(value)) + Slots(d) + leaked' = One(IsLive(record[s])) + Slots(call[w]) + leaked
       /\ call[w] # Idle /\ leaked' >= 0
  BY <1>1, <1>6, <1>8, <1>11, <1>12, <1>13 DEF c
<1>16. QED
  BY <1>1, <1>4, <1>6, <1>7, <1>14, <1>15, WriteSafe

(* A sweep that lost its race goes on, or back to the record.              *)
LEMMA SwapSafe ==
  ASSUME TypeInv, Safe, "landed" \notin Faults, NEW w \in Workers, Swap(w)
  PROVE  Safe'
<1> DEFINE c == call[w]
           e == Noted(c, c.found)
           again == [e EXCEPT !.at = "visit"]
<1>0. TypeInv'
  BY SwapTyped
<1>1. Typed(c) /\ c # Idle /\ c.at = "swap" /\ Sound(c, record) /\ c.found \in Values
  BY RunningCall, CallFields DEF TypeInv, Swap, Places, Safe
<1>2. ~c.slot /\ Slots(c) = c.freed /\ ~IsLive(c.read)
  BY <1>1, CallFields DEF Sound, Staged, Slots, Typed
<1>3. /\ n' = n /\ open' = open
      /\ \/ /\ Wins(c.key_linked, c.key) /\ Write(w, AfterSwap(c), c.key, SweptAs(c, c.found))
            /\ leaked' = leaked
         \/ (Go(w, NextKey(e)) \/ Go(w, again)) /\ record' = record /\ leaked' = leaked
  BY DEF Swap, Fails
<1>4. ASSUME Go(w, NextKey(e)), record' = record, leaked' = leaked PROVE Safe'
  <2>1. /\ e \in Calls /\ e.clock_lag <= e.lag /\ e.next_idle <= MaxRescan
        /\ e.id = c.id /\ e.scope = c.scope /\ e.linked = c.linked /\ e.read = c.read
        /\ e.slot = c.slot /\ e.freed = c.freed
    BY <1>1, NotedFacts
  <2>2. /\ NextKey(e) # Idle /\ Sound(NextKey(e), record) /\ ~Deleting(NextKey(e))
        /\ NextKey(e).id = c.id /\ Slots(NextKey(e)) = e.freed
    BY <1>1, <2>1, NextKeySound
  <2>3. QED
    BY <1>0, <1>1, <1>2, <1>3, <1>4, <2>1, <2>2, MoveSafe
<1>5. ASSUME Go(w, again), record' = record, leaked' = leaked PROVE Safe'
  <2>1. /\ Typed(again) /\ again # Idle /\ again.at = "visit" /\ ~Deleting(again)
        /\ again.id = c.id /\ again.scope = c.scope /\ again.linked = c.linked
        /\ again.read = c.read /\ again.slot = c.slot /\ again.freed = c.freed
        /\ again.lag = c.lag /\ again.key = c.key /\ again.found = c.found
    BY <1>1, RevisitFacts
  <2> HIDE DEF again
  <2>2. Staged(again)
    BY <1>2, <2>1 DEF Staged, Sweeping
  <2>3. Linked(again, record)
    BY <1>1, <2>1 DEF Sound, Linked
  <2>4. \A s \in Scopes : Copies(again, s) => Recent(again, record[s])
    BY <1>1, <2>1 DEF Sound, Copies, Recent
  <2>5. Sound(again, record)
    BY <2>1, <2>2, <2>3, <2>4 DEF Sound
  <2>6. Slots(again) = c.freed
    BY <1>1, <1>2, <2>1, CallFields DEF Slots, Typed
  <2>7. QED
    BY <1>0, <1>1, <1>2, <1>3, <1>5, <2>1, <2>5, <2>6, MoveSafe
<1>6. QED
  BY <1>0, <1>1, <1>3, <1>4, <1>5, SwapWriteSafe

-----------------------------------------------------------------------------
(* Deletion.  The record is the sweep's own doomed one all through it.     *)
LEMMA DeletingKnows ==
  ASSUME TypeInv, Safe, NEW w \in Workers, call[w].at \in {"delete", "restore_read", "restore"}
  PROVE  LET c == call[w]
         IN  /\ Typed(c) /\ c # Idle /\ Sound(c, record) /\ c.key \in Scopes
             /\ Deleting(c) /\ Slots(c) = c.freed /\ ~c.slot /\ ~IsLive(c.read)
             /\ c.found \in Values /\ c.found.kind = "vacant"
             /\ record[c.key] = Doomed(c.clock_lag) /\ ~IsLive(record[c.key])
             /\ record[c.key] # Missing /\ record[c.key].kind = "doomed"
             /\ \A v \in Workers \ {w} : call[v] # Idle =>
                  /\ ~(Deleting(call[v]) /\ call[v].key = c.key)
                  /\ ~Copies(call[v], c.key)
             /\ ~Copies(c, c.key)
             /\ Typed(NextKey(c)) /\ NextKey(c) # Idle /\ Sound(NextKey(c), record)
             /\ ~Deleting(NextKey(c)) /\ NextKey(c).id = c.id /\ Slots(NextKey(c)) = c.freed
             /\ \A s \in Scopes : ~Copies(NextKey(c), s)
<1> DEFINE c == call[w]
<1>1. Typed(c) /\ c \in Calls /\ c # Idle /\ c.key \in Scopes /\ Sound(c, record)
  BY DeleteFacts DEF Safe
<1>2. Deleting(c)
  BY DEF Deleting
<1>3. /\ record[c.key] = Doomed(c.clock_lag) /\ ~IsLive(record[c.key])
      /\ record[c.key] # Missing /\ record[c.key].kind = "doomed"
  BY <1>1, <1>2, VacantValue, CallFields DEF Sound
<1>4. ASSUME NEW v \in Workers, call[v] # Idle PROVE ~Copies(call[v], c.key)
  <2>1. Copies(call[v], c.key) => Recent(call[v], record[c.key])
    BY <1>1, <1>4 DEF Safe, Sound
  <2>2. QED
    BY <1>3, <2>1 DEF Recent
<1>5. ASSUME NEW v \in Workers \ {w}, call[v] # Idle
      PROVE  ~(Deleting(call[v]) /\ call[v].key = c.key)
  BY <1>1, <1>2, <1>5 DEF Safe, Apart
<1>6. /\ ~c.slot /\ ~IsLive(c.read) /\ Slots(c) = c.freed
      /\ c.found \in Values /\ c.found.kind = "vacant"
  BY <1>1, <1>2, CallFields DEF Sound, Staged, Slots
<1>7. /\ Typed(NextKey(c)) /\ NextKey(c) # Idle /\ Sound(NextKey(c), record)
      /\ ~Deleting(NextKey(c)) /\ NextKey(c).id = c.id /\ Slots(NextKey(c)) = c.freed
      /\ \A s \in Scopes : ~Copies(NextKey(c), s)
  <2>1. c.clock_lag <= c.lag /\ c.next_idle <= MaxRescan
    BY <1>1 DEF Typed
  <2>2. QED
    BY <1>1, <2>1, NextKeySound
<1>8. QED
  BY <1>1, <1>2, <1>3, <1>4, <1>5, <1>6, <1>7

(* A write that ends a deletion leaves nothing live.                       *)
LEMMA EndDeletionSafe ==
  ASSUME TypeInv, TypeInv', Safe, NEW w \in Workers,
         call[w].at \in {"delete", "restore_read", "restore"},
         NEW value \in Values, ~IsLive(value), Write(w, NextKey(call[w]), call[w].key, value),
         open' = open, n' = n, leaked' = leaked
  PROVE  Safe'
<1> DEFINE c == call[w]
           s == c.key
           d == NextKey(c)
<1>1. /\ Typed(c) /\ c # Idle /\ s \in Scopes /\ Slots(c) = c.freed
      /\ ~IsLive(record[s])
      /\ \A v \in Workers \ {w} : call[v] # Idle =>
           ~(Deleting(call[v]) /\ call[v].key = s) /\ ~Copies(call[v], s)
      /\ Typed(d) /\ d # Idle /\ Sound(d, record) /\ ~Deleting(d) /\ d.id = c.id /\ Slots(d) = c.freed
      /\ ~Copies(d, s)
  BY DeletingKnows
<1>2. record' = [record EXCEPT ![s] = value] /\ Write(w, d, s, value)
  BY DEF Write
<1>3. record \in [Scopes -> Values] /\ leaked \in Int /\ leaked >= 0
  BY DEF TypeInv, Safe, Counted
<1> HIDE DEF c, s, d
<1>4. Sound(Unlinked(d, s), record')
  BY <1>1, <1>2, <1>3, UnlinkedSound
<1>5. HeldOn'
  BY <1>1, <1>2, HeldOnKept DEF Safe
<1>6. One(IsLive(value)) + Slots(d) + leaked' = One(IsLive(record[s])) + Slots(c) + leaked
  BY <1>1 DEF One
<1>7. /\ \A v \in Workers \ {w} : call[v] # Idle =>
           /\ ~(Deleting(call[v]) /\ call[v].key = s)
           /\ Copies(call[v], s) => IsLive(value) \/ (value.kind = "vacant" /\ value.age <= MaxStall)
      /\ d # Idle => /\ Sound(Unlinked(d, s), record') /\ d.id = call[w].id
                     /\ Deleting(d) => d.key = s \/ (Deleting(call[w]) /\ d.key = call[w].key)
      /\ \A id \in DOMAIN open' : id \in DOMAIN open \/ (d = Idle /\ id = call[w].id)
      /\ One(IsLive(value)) + Slots(d) + leaked' = One(IsLive(record[s])) + Slots(call[w]) + leaked
      /\ call[w] # Idle /\ leaked' >= 0
  BY <1>1, <1>3, <1>4, <1>6 DEF c
<1>8. QED
  BY <1>1, <1>2, <1>5, <1>7, WriteSafe

(* A deletion that goes on keeps what it knows.                            *)
LEMMA DeletionGoesOn ==
  ASSUME NEW c, Typed(c), NEW rec, Sound(c, rec), Deleting(c), NEW d, Typed(d), Deleting(d),
         d.scope = c.scope, d.linked = c.linked, d.read = c.read, d.slot = c.slot,
         d.freed = c.freed, d.key = c.key, d.found = c.found, d.clock_lag = c.clock_lag
  PROVE  Sound(d, rec) /\ Slots(d) = Slots(c)
<1>1. ~IsLive(c.read) /\ ~IsLive(c.found) /\ c.found.kind = "vacant" /\ ~c.slot
  BY DEF Sound, Staged, Deleting, IsLive
<1>2. Staged(d)
  BY <1>1 DEF Staged, Deleting, Sweeping
<1>3. Linked(d, rec)
  BY DEF Sound, Linked, Deleting
<1>4. \A s \in Scopes : ~Copies(d, s)
  BY <1>1 DEF Copies
<1>5. rec[d.key] = Doomed(d.clock_lag)
  BY DEF Sound
<1>6. d # Idle /\ c # Idle
  BY CallFields DEF Typed
<1>7. QED
  BY <1>2, <1>3, <1>4, <1>5, <1>6 DEF Sound, Slots

(* A deletion that fails is one that goes on.                              *)
LEMMA DeleteSafe ==
  ASSUME TypeInv, Safe, "landed" \notin Faults, NEW w \in Workers, Delete(w)
  PROVE  Safe'
<1> DEFINE c == call[w]
           r == [c EXCEPT !.at = "restore_read"]
<1>0. TypeInv'
  BY DeleteTyped
<1>1. c.at = "delete" /\ n' = n /\ open' = open /\ leaked' = leaked
  BY DEF Delete
<1>2. Typed(c) /\ c # Idle /\ Sound(c, record) /\ Deleting(c)
  BY <1>1, DeletingKnows
<1>3. \/ Write(w, NextKey(c), c.key, Missing)
      \/ Go(w, r) /\ record' = record
  BY DEF Delete, Fails
<1>4. ASSUME Go(w, r), record' = record PROVE Safe'
  <2>1. /\ Typed(r) /\ r.at = "restore_read" /\ r.id = c.id /\ r.scope = c.scope
        /\ r.linked = c.linked /\ r.read = c.read /\ r.slot = c.slot
        /\ r.freed = c.freed /\ r.key = c.key /\ r.found = c.found
        /\ r.clock_lag = c.clock_lag
    BY <1>1, DeleteFacts
  <2> HIDE DEF r
  <2>2. Deleting(r)
    BY <2>1 DEF Deleting
  <2>3. Sound(r, record) /\ Slots(r) = Slots(c)
    BY <1>2, <2>1, <2>2, DeletionGoesOn
  <2>4. QED
    BY <1>0, <1>1, <1>2, <1>4, <2>1, <2>3, MoveSafe
<1>5. QED
  BY <1>0, <1>1, <1>3, <1>4, MissingValue, EndDeletionSafe

LEMMA RestoreReadSafe ==
  ASSUME TypeInv, Safe, NEW w \in Workers, RestoreRead(w)
  PROVE  Safe'
<1> DEFINE c == call[w]
           q == [c EXCEPT !.at = "restore", !.key_linked = TRUE]
<1>0. TypeInv'
  BY RestoreReadTyped
<1>1. c.at = "restore_read" /\ record' = record /\ n' = n /\ open' = open /\ leaked' = leaked
  BY DEF RestoreRead, shared
<1>2. /\ Typed(c) /\ c # Idle /\ Sound(c, record) /\ Deleting(c) /\ record[c.key] # Missing
  BY <1>1, DeletingKnows
<1>3. Go(w, q)
  BY <1>2 DEF RestoreRead
<1>4. /\ Typed(q) /\ q.at = "restore" /\ q.id = c.id /\ q.scope = c.scope
      /\ q.linked = c.linked /\ q.read = c.read /\ q.slot = c.slot
      /\ q.freed = c.freed /\ q.key = c.key /\ q.found = c.found
      /\ q.clock_lag = c.clock_lag
  BY <1>1, DeleteFacts
<1> HIDE DEF q
<1>5. Deleting(q)
  BY <1>4 DEF Deleting
<1>6. Sound(q, record) /\ Slots(q) = Slots(c)
  BY <1>2, <1>4, <1>5, DeletionGoesOn
<1>7. QED
  BY <1>0, <1>1, <1>2, <1>3, <1>4, <1>6, MoveSafe

LEMMA RestoreSafe ==
  ASSUME TypeInv, Safe, NEW w \in Workers, Restore(w)
  PROVE  Safe'
<1> DEFINE c == call[w]
<1>0. TypeInv'
  BY RestoreTyped
<1>1. c.at = "restore" /\ n' = n /\ open' = open
  BY DEF Restore
<1>2. /\ Typed(c) /\ c # Idle /\ Sound(c, record) /\ Deleting(c) /\ ~IsLive(record[c.key])
      /\ c.found \in Values /\ c.found.kind = "vacant" /\ Slots(c) = c.freed
      /\ NextKey(c) # Idle /\ Sound(NextKey(c), record) /\ ~Deleting(NextKey(c))
      /\ NextKey(c).id = c.id /\ Slots(NextKey(c)) = c.freed
  BY <1>1, DeletingKnows
<1>3. \/ Write(w, NextKey(c), c.key, c.found) /\ leaked' = leaked
      \/ Go(w, NextKey(c)) /\ record' = record /\ leaked' = leaked
  BY <1>2 DEF Restore
<1>4. ~IsLive(c.found)
  BY <1>2 DEF IsLive
<1>5. CASE Go(w, NextKey(c)) /\ record' = record /\ leaked' = leaked
  BY <1>0, <1>1, <1>2, <1>5, MoveSafe
<1>6. CASE Write(w, NextKey(c), c.key, c.found) /\ leaked' = leaked
  BY <1>0, <1>1, <1>2, <1>4, <1>6, EndDeletionSafe
<1>7. QED
  BY <1>3, <1>5, <1>6

-----------------------------------------------------------------------------
(* What a call knows ages with the records.                                *)
LEMMA OlderSound ==
  ASSUME NEW c, Typed(c), c.lag < MaxStall, NEW rec \in [Scopes -> Values], Sound(c, rec)
  PROVE  Sound(OlderCall(c), [s \in Scopes |-> Older(rec[s])])
<1> DEFINE d == OlderCall(c)
           rec2 == [s \in Scopes |-> Older(rec[s])]
<1>1. /\ Typed(d) /\ d # Idle
      /\ d.lag = c.lag + 1 /\ d.read = Older(c.read) /\ d.found = Older(c.found)
      /\ d.at = c.at /\ d.id = c.id /\ d.scope = c.scope /\ d.key = c.key
      /\ d.linked = c.linked /\ d.key_linked = c.key_linked
      /\ d.slot = c.slot /\ d.freed = c.freed
      /\ d.clock_lag = IF Sweeping(c) THEN c.clock_lag + 1 ELSE c.clock_lag
  BY OlderCallFacts
<1>2. /\ c.read \in Values /\ c.found \in Values /\ c.scope \in Scopes /\ c.lag \in Nat
      /\ c.clock_lag \in Nat /\ d.clock_lag \in Nat /\ d.clock_lag <= MaxStall
      /\ c.at = "swap" \/ Deleting(c) => c.key \in Scopes /\ Sweeping(c)
  BY <1>1, CallFields DEF Typed, Sweeping, Deleting
<1> HIDE DEF d
<1>3. /\ d.found.kind = c.found.kind /\ d.found \in Values /\ d.read \in Values
      /\ IsLive(d.found) <=> IsLive(c.found)
      /\ IsLive(d.read) <=> IsLive(c.read)
      /\ d.found = Missing <=> c.found = Missing
  BY <1>1, <1>2, OlderFacts, ValueFacts DEF IsLive
<1>4. Staged(d)
  <2>1. ASSUME c.at = "swap", c.found.kind = "vacant" PROVE Aged(d.found, Grace, d.clock_lag)
    <3>1. c.found.age - c.clock_lag >= Grace /\ c.found.age \in Nat
      BY <1>2, <2>1, ValueFacts DEF Sound, Staged, Aged
    <3>2. d.found.age = IF c.found.age + 1 <= MaxStall + Grace THEN c.found.age + 1
                        ELSE MaxStall + Grace
      BY <1>1, <1>2, <2>1, OlderFacts
    <3>3. d.clock_lag = c.clock_lag + 1
      BY <1>1, <1>2, <2>1
    <3>4. QED
      BY <1>2, <3>1, <3>2, <3>3, ConstantFacts DEF Aged
  <2>2. ASSUME c.at = "swap", c.found.kind = "doomed" PROVE Aged(d.found, Recover, d.clock_lag)
    <3>1. c.found.age - c.clock_lag >= Recover /\ c.found.age \in Nat
      BY <1>2, <2>2, ValueFacts DEF Sound, Staged, Aged
    <3>2. d.found.age = IF c.found.age + 1 <= MaxStall + Recover THEN c.found.age + 1
                        ELSE MaxStall + Recover
      BY <1>1, <1>2, <2>2, OlderFacts
    <3>3. d.clock_lag = c.clock_lag + 1
      BY <1>1, <1>2, <2>2
    <3>4. QED
      BY <1>2, <3>1, <3>2, <3>3, ConstantFacts DEF Aged
  <2>3. Staged(c)
    BY DEF Sound
  <2>4. QED
    BY <1>1, <1>3, <2>1, <2>2, <2>3 DEF Staged, Sweeping, Deleting
<1>5. \A s \in Scopes : rec2[s] = Older(rec[s]) /\ rec[s] \in Values
  OBVIOUS
<1> HIDE DEF rec2
<1>6. Linked(d, rec2)
  <2>1. /\ c.linked => IF IsLive(c.read) THEN rec[c.scope] = c.read ELSE rec[c.scope].kind = "vacant"
        /\ c.at = "swap" /\ c.key_linked => rec[c.key] = c.found
    BY DEF Sound, Linked
  <2>2. rec2[c.scope].kind = rec[c.scope].kind
    BY <1>2, <1>5, OlderFacts
  <2>3. QED
    BY <1>1, <1>2, <1>3, <1>5, <2>1, <2>2 DEF Linked
<1>7. ASSUME NEW s \in Scopes, Copies(d, s) PROVE Recent(d, rec2[s])
  <2>1. Recent(c, rec[s])
    BY <1>1, <1>3, <1>7 DEF Sound, Copies
  <2>2. CASE IsLive(rec[s])
    BY <1>5, <2>2, OlderFacts DEF Recent
  <2>3. CASE rec[s].kind = "vacant" /\ rec[s].age <= MaxStall + c.lag
    <3>1. rec[s].age \in Nat /\ rec2[s].kind = "vacant"
      BY <1>5, <2>3, ValueFacts, OlderFacts
    <3>2. rec2[s].age = IF rec[s].age + 1 <= MaxStall + Grace THEN rec[s].age + 1
                        ELSE MaxStall + Grace
      BY <1>5, <2>3, OlderFacts
    <3>3. rec2[s].age <= MaxStall + d.lag
      BY <1>1, <1>2, <2>3, <3>1, <3>2, ConstantFacts
    <3>4. QED
      BY <3>1, <3>3 DEF Recent
  <2>4. QED
    BY <2>1, <2>2, <2>3 DEF Recent
<1>8. ASSUME Deleting(d) PROVE rec2[d.key] = Doomed(d.clock_lag)
  <2>1. Deleting(c) /\ rec[c.key] = Doomed(c.clock_lag)
    BY <1>1, <1>8 DEF Sound, Deleting
  <2>2. d.clock_lag = c.clock_lag + 1 /\ d.key = c.key /\ c.key \in Scopes
    BY <1>1, <1>2, <2>1
  <2>3. Older(Doomed(c.clock_lag)).kind = "doomed" /\ Older(Doomed(c.clock_lag)) \in Values
        /\ Older(Doomed(c.clock_lag)).age =
             IF c.clock_lag + 1 <= MaxStall + Recover THEN c.clock_lag + 1 ELSE MaxStall + Recover
    BY <1>2, VacantValue, OlderFacts
  <2>4. c.clock_lag + 1 <= MaxStall + Recover
    BY <1>2, <2>2, ConstantFacts
  <2>5. Older(Doomed(c.clock_lag)) = Doomed(d.clock_lag)
    BY <2>2, <2>3, <2>4, ValueFacts
  <2>6. QED
    BY <1>5, <2>1, <2>2, <2>5
<1>9. QED
  BY <1>4, <1>6, <1>7, <1>8 DEF Sound, d, rec2

(* Time takes every age, lag and window on together.                       *)
LEMMA TickSafe == ASSUME TypeInv, Safe, Tick PROVE Safe'
<1>1. /\ record' = [s \in Scopes |-> Older(record[s])]
      /\ call' = [w \in Workers |-> OlderCall(call[w])]
      /\ open' = [id \in DOMAIN open |-> [open[id] EXCEPT !.left = Max({@ - 1, 0})]]
      /\ n' = n /\ leaked' = leaked
  BY DEF Tick
<1>2. record \in [Scopes -> Values] /\ CallsTyped
  BY DEF TypeInv
<1>3. ASSUME NEW w \in Workers
      PROVE  /\ call[w] = Idle => call'[w] = Idle
             /\ call[w] # Idle =>
                  /\ call'[w] # Idle /\ Sound(call'[w], record') /\ call'[w].id = call[w].id
                  /\ call'[w].key = call[w].key /\ (Deleting(call'[w]) <=> Deleting(call[w]))
             /\ Slots(call'[w]) = Slots(call[w])
  <2>1. CASE call[w] = Idle
    BY <1>1, <2>1 DEF OlderCall
  <2>2. CASE call[w] # Idle
    <3>1. call[w].lag < MaxStall /\ Typed(call[w]) /\ Sound(call[w], record)
      BY <1>2, <2>2 DEF Tick, CallsTyped, Safe
    <3>2. Sound(call'[w], record')
      BY <1>1, <1>2, <3>1, OlderSound
    <3>3. /\ call'[w] # Idle /\ call'[w].id = call[w].id /\ call'[w].key = call[w].key
          /\ call'[w].at = call[w].at /\ call'[w].slot = call[w].slot
          /\ call'[w].freed = call[w].freed
      BY <1>1, <3>1, OlderCallFacts
    <3>4. QED
      BY <2>2, <3>2, <3>3 DEF Deleting, Slots
  <2>3. QED
    BY <2>1, <2>2
<1>4. \A w \in Workers : call'[w] # Idle => Sound(call'[w], record')
  BY <1>3
<1>5. Apart'
  <2>1. DOMAIN open' = DOMAIN open
    BY <1>1
  <2>2. QED
    BY <1>3, <2>1 DEF Safe, Apart
<1>6. HeldOn'
  <2> SUFFICES ASSUME NEW id \in DOMAIN open', open'[id].left > 0
               PROVE  LET t == open'[id].scope
                      IN  /\ IsLive(record'[t]) /\ id \in DOMAIN record'[t].held
                          /\ record'[t].held[id] >= open'[id].left
    BY DEF HeldOn
  <2> DEFINE t == open[id].scope
             left == open[id].left
  <2>1. /\ id \in DOMAIN open /\ open[id] \in [scope : Scopes, left : -MaxStall .. 2 * Ttl]
        /\ left \in Int /\ t \in Scopes
    BY <1>1, OpenFacts, ConstantFacts DEF TypeInv
  <2>2. open'[id] = [open[id] EXCEPT !.left = Max({left - 1, 0})]
    BY <1>1, <2>1
  <2>3. open'[id].scope = t /\ open'[id].left = Max({left - 1, 0})
    BY <2>1, <2>2
  <2>4. open'[id].left = left - 1 /\ left > 0
    BY <2>1, <2>3, MaxOfTwo
  <2>5. IsLive(record[t]) /\ id \in DOMAIN record[t].held /\ record[t].held[id] >= left
    BY <2>1, <2>4 DEF Safe, HeldOn
  <2>6. record[t] \in Values /\ record'[t] = Older(record[t])
    BY <1>1, <1>2, <2>1
  <2> HIDE DEF t, left
  <2>7. /\ IsLive(record'[t]) /\ DOMAIN record'[t].held = DOMAIN record[t].held
        /\ record'[t].held[id] >= record[t].held[id] - 1
    BY <2>5, <2>6, OlderFacts
  <2>8. record[t].held[id] \in Int /\ record'[t] \in Values
    BY <2>5, <2>6, ValueFacts, HoldsFacts, ConstantFacts, OlderFacts
  <2>9. record'[t].held[id] \in Int
    BY <2>5, <2>7, <2>8, ValueFacts, HoldsFacts, ConstantFacts
  <2>10. record'[t].held[id] >= left - 1
    BY <2>1, <2>5, <2>7, <2>8, <2>9 DEF left
  <2>11. QED
    BY <2>3, <2>4, <2>5, <2>7, <2>10
<1>7. Counted'
  <2>1. LiveScopes' = LiveScopes
    BY <1>1, <1>2, OlderFacts, ValueFacts DEF LiveScopes, IsLive
  <2>2. [w \in Workers |-> Slots(call'[w])] = [w \in Workers |-> Slots(call[w])]
    BY <1>3
  <2>3. QED
    BY <1>1, <2>1, <2>2 DEF Safe, Counted, SlotsExact
<1>8. QED
  BY <1>4, <1>5, <1>6, <1>7 DEF Safe

-----------------------------------------------------------------------------
(* Before the first call nothing is counted, held or known.                *)
LEMMA InitSafe == Init => Safe
<1> SUFFICES ASSUME Init PROVE Safe
  OBVIOUS
<1>1. \A w \in Workers : call[w] = Idle
  BY DEF Init
<1>2. Apart /\ HeldOn
  BY <1>1 DEF Init, Apart, HeldOn
<1>3. Counted
  <2>1. LiveScopes = {}
    BY MissingValue DEF Init, LiveScopes
  <2>2. SlotsTaken = 0
    <3> DEFINE f == [w \in Workers |-> Slots(call[w])]
    <3>1. \A w \in Workers : f[w] = 0
      BY <1>1 DEF Slots
    <3>2. DOMAIN f = Workers /\ Addends(f, Workers)
      BY <3>1, ConstantFacts DEF Addends
    <3> HIDE DEF f
    <3>3. SumFunctionOnSet(f, Workers) = 0
      BY <3>1, <3>2, SumZero
    <3>4. QED
      BY <3>2, <3>3 DEF SlotsTaken, SumFunction, f
  <2>3. Cardinality(LiveScopes) = 0
    BY <2>1, FS_EmptySet
  <2>4. n = 0 /\ leaked = 0
    BY DEF Init
  <2>5. QED
    BY <2>2, <2>3, <2>4, ConstantFacts DEF Counted, SlotsExact, SlotsTaken
<1>4. QED
  BY <1>1, <1>2, <1>3 DEF Safe

(* Every step keeps Safe, unless a write can land and report failure.      *)
LEMMA SafeInductive ==
  ASSUME TypeInv, Safe, "landed" \notin Faults, [Next]_vars
  PROVE  Safe'
<1>1. ASSUME NEW w \in Workers, Continue(w) PROVE Safe'
  BY <1>1, CheckGcSafe, ReadRecordSafe, AcquireSlotSafe, AtCapSafe, PutRecordSafe, GiveBackSafe,
     HintIdleSafe, HintSafe, ClaimSafe, ReadBackSafe, ListSafe, VisitSafe, SwapSafe, DeleteSafe,
     RestoreReadSafe, RestoreSafe, UncountSafe, SweepDoneSafe
  DEF Continue
<1>2. ASSUME NEW w \in Workers, Begin(w) PROVE Safe'
  BY <1>2, ReserveSafe, SettleSafe DEF Begin
<1>3. CASE UNCHANGED vars
  <2>1. record' = record /\ n' = n /\ call' = call /\ open' = open /\ leaked' = leaked
    BY <1>3 DEF vars, shared
  <2>2. \A w \in Workers : call'[w] # Idle => Sound(call'[w], record')
    BY <2>1 DEF Safe
  <2>3. Apart' /\ HeldOn' /\ Counted'
    BY <2>1 DEF Safe, Apart, HeldOn, Counted, SlotsExact, LiveScopes
  <2>4. QED
    BY <2>2, <2>3 DEF Safe
<1>4. QED
  BY <1>1, <1>2, <1>3, TickSafe, ForgetSafe, RestartSafe DEF Next

(* So it holds throughout.                                                 *)
LEMMA AlwaysSafe ==
  ASSUME "landed" \notin Faults
  PROVE  Spec => [](TypeInv /\ Safe)
<1>1. Init => TypeInv /\ Safe
  BY InitTyped, InitSafe
<1>2. TypeInv /\ Safe /\ [Next]_vars => TypeInv' /\ Safe'
  BY TypeInductive, SafeInductive
<1>3. QED
  BY <1>1, <1>2, PTL DEF Spec

(* Unless a write can land and report failure, every slot counted is on a  *)
(* live record, in the hands of one call or sweep, or leaked by a failure. *)
THEOREM SlotsAreExact == "landed" \notin Faults => (Spec => []SlotsExact)
<1> SUFFICES ASSUME "landed" \notin Faults PROVE Spec => []SlotsExact
  OBVIOUS
<1>1. Spec => [](TypeInv /\ Safe)
  BY AlwaysSafe
<1>2. TypeInv /\ Safe => SlotsExact
  BY DEF Safe, Counted
<1>3. QED
  BY <1>1, <1>2, PTL

(* Nor are there ever more live records than maxScopes.                    *)
THEOREM CapIsHeld == "landed" \notin Faults => (Spec => []CapHeld)
<1> SUFFICES ASSUME "landed" \notin Faults PROVE Spec => []CapHeld
  OBVIOUS
<1>1. Spec => [](TypeInv /\ Safe)
  BY AlwaysSafe
<1>2. ASSUME TypeInv, Safe PROVE CapHeld
  <2>1. SlotsTaken \in Nat /\ Cardinality(LiveScopes) \in Nat
    BY <1>2, SlotsTakenNat, LiveNat DEF TypeInv
  <2>2. /\ n = Cardinality(LiveScopes) + SlotsTaken + leaked /\ leaked >= 0 /\ n <= MaxScopes
        /\ n \in Nat /\ leaked \in Int /\ MaxScopes \in Nat
    BY <1>2, ConstantFacts DEF TypeInv, Safe, Counted, SlotsExact, SlotsTaken
  <2>3. QED
    BY <2>1, <2>2 DEF CapHeld
<1>3. TypeInv /\ Safe => CapHeld
  BY <1>2
<1>4. QED
  BY <1>1, <1>3, PTL

(* Nor does a sweep, a deletion or a re-creation lose a reservation before *)
(* its tombstone's window has passed.                                      *)
THEOREM HoldsAreKept == "landed" \notin Faults => (Spec => []HeldInWindow)
<1> SUFFICES ASSUME "landed" \notin Faults PROVE Spec => []HeldInWindow
  OBVIOUS
<1>1. Spec => [](TypeInv /\ Safe)
  BY AlwaysSafe
<1>2. TypeInv /\ Safe => HeldInWindow
  BY DEF Safe, HeldOn, HeldInWindow
<1>3. QED
  BY <1>1, <1>2, PTL

-----------------------------------------------------------------------------
(* What a step makes of a record.                                          *)
LEMMA StepInOrder ==
  ASSUME TypeInv, Safe, "landed" \notin Faults, Next, NEW s \in Scopes
  PROVE  MayBecome(record[s], record'[s])
<1>0. record \in [Scopes -> Values]
  BY DEF TypeInv
<1>1. CASE record' = record
  BY <1>1 DEF MayBecome
<1>2. CASE Tick
  <2>1. record'[s] = Older(record[s])
    BY <1>2 DEF Tick
  <2>2. QED
    BY <1>0, <2>1, OlderFacts, ValueFacts, MissingValue DEF MayBecome, IsLive
<1>3. ASSUME NEW w \in Workers, PutRecord(w), record' # record
      PROVE  MayBecome(record[s], record'[s])
  <2> DEFINE c == call[w]
  <2>1. record' = [record EXCEPT ![c.scope] = Updated(c)]
    BY <1>3 DEF PutRecord, Write, Fails
  <2>2. IsLive(Updated(c))
    BY <1>3, RunningCall, UpdatedFacts DEF TypeInv, PutRecord, Places
  <2>3. QED
    BY <1>0, <2>1, <2>2, MissingValue DEF MayBecome
<1>4. ASSUME NEW w \in Workers, Swap(w), record' # record
      PROVE  MayBecome(record[s], record'[s])
  <2> DEFINE c == call[w]
             value == SweptAs(c, c.found)
  <2>1. c.at = "swap" /\ Wins(c.key_linked, c.key) /\ record' = [record EXCEPT ![c.key] = value]
    BY <1>4 DEF Swap, Write, Fails
  <2>2. Typed(c) /\ c.found \in Values /\ c.lag \in Nat
    BY <2>1, RunningCall, CallFields DEF TypeInv, Places
  <2>3. /\ record[c.key] = c.found \/ (record[c.key] = Missing /\ ~IsLive(c.found))
        /\ c.found # Missing
        /\ c.found.kind = "vacant" => Aged(c.found, Grace, c.clock_lag)
        /\ c.found.kind = "doomed" => Aged(c.found, Recover, c.clock_lag)
    BY <2>1, SwapReplaces
  <2>4. value # Missing /\ (c.found.kind # "live" => ~IsLive(value))
    <3>1. /\ c.found.kind = "vacant" => value = Doomed(c.clock_lag) /\ ~IsLive(value)
          /\ c.found.kind = "doomed" => value = Vacant(c.clock_lag) /\ ~IsLive(value)
          /\ IsLive(c.found) /\ ~IsLive(value) => value = Vacant(c.clock_lag)
      BY <2>2, <2>3, SwapWrites
    <3>2. QED
      BY <2>2, <2>3, <3>1, CallFields, VacantValue, MissingValue, ValueFacts DEF Typed
  <2>5. ASSUME IsLive(c.found), ~IsLive(value)
        PROVE  /\ value.kind = "vacant" /\ ~c.found.charged
               /\ \A id \in DOMAIN c.found.held : c.found.held[id] <= 0
    <3>1. /\ value = Vacant(c.clock_lag) /\ ~c.found.charged
          /\ \A id \in DOMAIN c.found.held : c.found.held[id] + c.lag <= 0
      BY <2>2, <2>5, SweptFacts
    <3>2. \A id \in DOMAIN c.found.held : c.found.held[id] \in Int
      BY <2>2, <2>5, ValueFacts, HoldsFacts, ConstantFacts
    <3>3. QED
      BY <2>2, <3>1, <3>2, CallFields, VacantValue DEF Typed
  <2> HIDE DEF c, value
  <2>6. QED
    BY <1>0, <2>1, <2>3, <2>4, <2>5, MissingValue DEF MayBecome
<1>5. ASSUME NEW w \in Workers, Delete(w) \/ Restore(w), record' # record
      PROVE  MayBecome(record[s], record'[s])
  <2> DEFINE c == call[w]
  <2>1. /\ c.at \in {"delete", "restore_read", "restore"}
        /\ record' = [record EXCEPT ![c.key] = Missing] \/ record' = [record EXCEPT ![c.key] = c.found]
    BY <1>5 DEF Delete, Restore, Write
  <2>2. /\ record[c.key] = Doomed(c.clock_lag) /\ ~IsLive(record[c.key])
        /\ c.found.kind = "vacant" /\ c.key \in Scopes
        /\ Typed(c)
    BY <2>1, DeletingKnows
  <2>3. c.clock_lag \in Nat /\ c.clock_lag <= MaxStall
    BY <2>2, CallFields DEF Typed
  <2>4. record[c.key].kind = "doomed" /\ record[c.key].age <= MaxStall
    BY <2>2, <2>3, VacantValue
  <2>5. c.found # Missing
    BY <2>2, MissingValue
  <2> HIDE DEF c
  <2>6. QED
    BY <1>0, <2>1, <2>2, <2>4, <2>5 DEF MayBecome
<1>6. \/ record' = record \/ Tick
      \/ \E w \in Workers : PutRecord(w) \/ Swap(w) \/ Delete(w) \/ Restore(w)
  BY ZenonT(40) DEF Next, Begin, Continue, Reserve, Settle, Forget, Restart, CheckGc, ReadRecord, AcquireSlot,
         AtCap, GiveBack, HintIdle, Hint, Claim, ReadBack, List, Visit, RestoreRead, Uncount,
         SweepDone, shared
<1>7. QED
  BY <1>1, <1>2, <1>3, <1>4, <1>5, <1>6

(* A record leaves in order: live to Vacant only when idle, and missing    *)
(* only by the sweep that doomed it.                                       *)
THEOREM RecordsLeaveInOrder == "landed" \notin Faults => (Spec => LeavesInOrder)
<1> SUFFICES ASSUME "landed" \notin Faults PROVE Spec => LeavesInOrder
  OBVIOUS
<1>1. Spec => [](TypeInv /\ Safe)
  BY AlwaysSafe
<1>2. TypeInv /\ Safe /\ [Next]_vars =>
        [\A s \in Scopes : MayBecome(record[s], record'[s])]_record
  BY StepInOrder DEF vars, shared
<1>3. QED
  BY <1>1, <1>2, PTL DEF Spec, LeavesInOrder

=============================================================================

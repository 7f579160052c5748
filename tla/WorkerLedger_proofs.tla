------------------------- MODULE WorkerLedger_proofs -------------------------
(***************************************************************************)
(* Theorems about the per-worker ledger, for every value of its constants: *)
(* its type invariant, that reserved exposure is exactly the units in      *)
(* flight, that the caps are kept, that no interleaving of calls takes a   *)
(* scope past its budget in block mode, that the operator's counters       *)
(* balance, that a call is refused at capacity only if none is idle, and   *)
(* that it implements ExposureLedger.                                      *)
(*                                                                         *)
(* The inductive invariant adds to those what ties a scope's entries to    *)
(* the reservations given out: an entry belongs to a reservation of this   *)
(* scope, of the same units, that was not charged late before.  Without it *)
(* a late commit could add units to committed that the overshoot already   *)
(* counts, and the budget bound would not be preserved.  The counters need *)
(* the sum of the table's entries besides (Counted), and the refusal what  *)
(* idle_at says of a scope at any later time (IdleFromThenOn).             *)
(***************************************************************************)
EXTENDS WorkerLedger, ScopeState_proofs

(* The reservations of a scope charged late in a period.                   *)
Overshoot(scope, period, res, ch, lt) ==
  {id \in lt : res[id].scope = scope /\ ch[id] = period}

(* One scope's books, against the reservations res given out, what they    *)
(* are charged (ch) and which were charged late (lt).                      *)
Books(scope, state, n, res, ch, lt) ==
  /\ Sound(state, 1 .. (n - 1))
  /\ \A id : Holds(state, id) =>
       /\ id \in DOMAIN res /\ id \notin lt
       /\ res[id].scope = scope
       /\ res[id].contribution = Entry(state, id).contribution
  /\ Mode = "block" =>
       /\ state.reserved <= Budget
       /\ state.committed + state.reserved <=
            Budget + Units(res, Overshoot(scope, state.period, res, ch, lt))

(* The types of the history the books are kept against.                    *)
History(n, res, ch, lt) ==
  /\ n \in Nat \ {0}
  /\ DOMAIN res \subseteq 1 .. (n - 1)
  /\ \A id \in DOMAIN res : res[id].contribution \in Nat
  /\ lt \subseteq DOMAIN res
  /\ Timeout = "commit" => lt = {}

(* The scope table and its index: every tracked scope's books are right,   *)
(* and it has the one index entry its state says.                          *)
Table(table, index, n, res, ch, lt) ==
  /\ DOMAIN table \subseteq Scopes
  /\ \A scope \in DOMAIN table : Books(scope, table[scope], n, res, ch, lt)
  /\ \A scope \in DOMAIN table : table[scope].indexed_at = IdleAt(table[scope])
  /\ index = {<<IdleAt(table[scope]), scope>> : scope \in DOMAIN table}

HistoryOK ==
  /\ next_id \in Nat \ {0}
  /\ stats \in Stats
  /\ clock \in Nat
  /\ DOMAIN reservations \subseteq Ids
  /\ \A id \in DOMAIN reservations :
       reservations[id] \in [scope : Scopes, contribution : Contributions,
                            created_at : Nat, expires_at : Nat]
  /\ charged \in [DOMAIN reservations -> Nat \cup {NoPeriod}]
  /\ free \in Nat
  /\ late \subseteq DOMAIN reservations
  /\ Timeout = "commit" => late = {}

IInv ==
  /\ HistoryOK
  /\ Table(scopes, idle_index, next_id, reservations, charged, late)
  /\ Cardinality(Tracked) <= MaxScopes

-----------------------------------------------------------------------------
LEMMA IdsFinite == ASSUME NEW n \in Nat PROVE IsFiniteSet(1 .. (n - 1))
BY FS_Interval

LEMMA BudgetNat == Budget \in Nat
BY BudgetAssumption, WidthAssumption

(* The overshoot can be summed.                                            *)
LEMMA OvershootSums ==
  ASSUME NEW n, NEW res, NEW ch, NEW lt, History(n, res, ch, lt), NEW scope, NEW period
  PROVE  LET over == Overshoot(scope, period, res, ch, lt)
         IN  Summable(res, over) /\ Units(res, over) \in Nat
<1> DEFINE over == Overshoot(scope, period, res, ch, lt)
<1>1. over \subseteq DOMAIN res /\ DOMAIN res \subseteq 1 .. (n - 1) /\ n \in Nat
  BY DEF Overshoot, History
<1>2. IsFiniteSet(over)
  BY <1>1, IdsFinite, FS_Subset
<1>3. Summable(res, over)
  BY <1>1, <1>2 DEF Summable, History
<1>4. QED
  BY <1>3, UnitsNat

(* The books of a scope no call touches stay right while ids are given     *)
(* out and reservations of other scopes are charged.                       *)
LEMMA BooksFrame ==
  ASSUME NEW scope, NEW state,
         NEW n, NEW res, NEW ch, NEW lt, History(n, res, ch, lt),
         NEW m, NEW res2, NEW ch2, NEW lt2, History(m, res2, ch2, lt2),
         Books(scope, state, n, res, ch, lt),
         n <= m, DOMAIN res \subseteq DOMAIN res2,
         \A id \in DOMAIN res : res2[id] = res[id],
         lt \subseteq lt2, \A id \in lt : ch2[id] = ch[id],
         \A id \in lt2 \ lt : ~Holds(state, id)
  PROVE  Books(scope, state, m, res2, ch2, lt2)
<1> DEFINE old == Overshoot(scope, state.period, res, ch, lt)
           new == Overshoot(scope, state.period, res2, ch2, lt2)
<1>1. n \in Nat /\ m \in Nat /\ lt \subseteq DOMAIN res
  BY DEF History
<1>2. 1 .. (n - 1) \subseteq 1 .. (m - 1)
  BY <1>1
<1>3. Sound(state, 1 .. (m - 1))
  <2>1. SoundMaps(state, 1 .. (m - 1))
    BY <1>2 DEF Books, Sound, SoundMaps
  <2>2. QED
    BY <2>1 DEF Books, Sound
<1>4. \A id : Holds(state, id) =>
        /\ id \in DOMAIN res2 /\ id \notin lt2
        /\ res2[id].scope = scope
        /\ res2[id].contribution = Entry(state, id).contribution
  BY DEF Books
<1>5. old \subseteq new /\ old \subseteq DOMAIN res
  BY <1>1 DEF Overshoot
<1>6. Units(res, old) <= Units(res2, new)
  <2>1. Summable(res, old) /\ Summable(res2, new)
    BY OvershootSums
  <2>2. Units(res2, old) = Units(res, old)
    BY <2>1, <1>5, UnitsSame
  <2>3. Units(res2, new) = Units(res2, old) + Units(res2, new \ old)
    BY <2>1, <1>5, UnitsSplit
  <2>4. Summable(res2, new \ old) /\ Units(res, old) \in Nat
    BY <2>1, UnitsNat, FS_Subset DEF Summable
  <2>5. Units(res2, new \ old) \in Nat
    BY <2>4, UnitsNat
  <2>6. QED
    BY <2>2, <2>3, <2>4, <2>5
<1>7. Mode = "block" =>
        /\ state.reserved <= Budget
        /\ state.committed + state.reserved <= Budget + Units(res2, new)
  <2>1. Units(res, old) \in Nat /\ Units(res2, new) \in Nat
    BY OvershootSums
  <2>2. state.committed \in Nat /\ state.reserved \in Nat
    BY <1>1, IdsFinite, SoundSums DEF Books, Sound
  <2>3. QED
    BY <2>1, <2>2, <1>6, BudgetNat DEF Books
<1>8. QED
  BY <1>3, <1>4, <1>7 DEF Books

(* Touching a scope, which every call does first, keeps its books right.   *)
LEMMA BooksShrink ==
  ASSUME NEW scope, NEW state, NEW after,
         NEW n, NEW res, NEW ch, NEW lt, History(n, res, ch, lt),
         Books(scope, state, n, res, ch, lt),
         Sound(after, 1 .. (n - 1)), Shrinks(after, state),
         after.reserved <= state.reserved,
         \/ /\ after.period = state.period
            /\ after.committed + after.reserved <= state.committed + state.reserved
         \/ after.committed = 0
  PROVE  Books(scope, after, n, res, ch, lt)
<1>1. /\ state.committed \in Nat /\ state.reserved \in Nat
      /\ after.committed \in Nat /\ after.reserved \in Nat
  BY IdsFinite, SoundSums DEF Books, Sound, History
<1>2. /\ Units(res, Overshoot(scope, state.period, res, ch, lt)) \in Nat
      /\ Units(res, Overshoot(scope, after.period, res, ch, lt)) \in Nat
  BY OvershootSums
<1>3. Mode = "block" =>
        /\ after.reserved <= Budget
        /\ after.committed + after.reserved <=
             Budget + Units(res, Overshoot(scope, after.period, res, ch, lt))
  <2>1. CASE after.period = state.period
             /\ after.committed + after.reserved <= state.committed + state.reserved
    BY <1>1, <1>2, <2>1, BudgetNat DEF Books
  <2>2. CASE after.committed = 0
    BY <1>1, <1>2, <2>2, BudgetNat DEF Books
  <2>3. QED
    BY <2>1, <2>2
<1>4. QED
  BY <1>3 DEF Books, Shrinks

LEMMA BooksRoll ==
  ASSUME NEW scope, NEW state, NEW n, NEW res, NEW ch, NEW lt, History(n, res, ch, lt),
         Books(scope, state, n, res, ch, lt), NEW now \in Nat
  PROVE  Books(scope, Roll(state, Period(now)), n, res, ch, lt)
<1> DEFINE after == Roll(state, Period(now))
<1>1. Period(now) \in Nat /\ Sound(state, 1 .. (n - 1))
  BY PeriodNat DEF Books
<1>2. /\ Sound(after, 1 .. (n - 1)) /\ Shrinks(after, state)
      /\ after.reserved = state.reserved
      /\ \/ after.committed = state.committed /\ after.period = state.period
         \/ after.committed = 0 /\ after.period > state.period
  BY <1>1, RollSound
<1>3. state.reserved \in Nat /\ state.committed \in Nat
  BY <1>1, IdsFinite, SoundSums DEF History, Sound
<1>4. after.reserved <= state.reserved
  BY <1>2, <1>3
<1>5. \/ /\ after.period = state.period
         /\ after.committed + after.reserved <= state.committed + state.reserved
      \/ after.committed = 0
  BY <1>2, <1>3
<1> HIDE DEF after
<1>6. QED
  BY <1>2, <1>4, <1>5, BooksShrink DEF after

LEMMA BooksReclaim ==
  ASSUME NEW scope, NEW state, NEW n, NEW res, NEW ch, NEW lt, History(n, res, ch, lt),
         Books(scope, state, n, res, ch, lt), NEW now \in Nat
  PROVE  Books(scope, Reclaim(state, now), n, res, ch, lt)
<1> DEFINE after == Reclaim(state, now)
<1>1. Sound(state, 1 .. (n - 1)) /\ IsFiniteSet(1 .. (n - 1))
  BY IdsFinite DEF Books, History
<1>2. /\ Sound(after, 1 .. (n - 1)) /\ Shrinks(after, state)
      /\ after.period = state.period
      /\ after.reserved <= state.reserved
      /\ after.committed + after.reserved <= state.committed + state.reserved
  BY <1>1, ReclaimSound
<1> HIDE DEF after
<1>3. QED
  BY <1>2, BooksShrink DEF after

LEMMA BooksTouch ==
  ASSUME NEW scope, NEW state, NEW n, NEW res, NEW ch, NEW lt, History(n, res, ch, lt),
         Books(scope, state, n, res, ch, lt), NEW now \in Nat
  PROVE  Books(scope, Touch(state, now), n, res, ch, lt)
BY BooksRoll, BooksReclaim DEF Touch
(* A fresh scope's books are right.                                        *)
LEMMA BooksNew ==
  ASSUME NEW scope, NEW n, NEW res, NEW ch, NEW lt, History(n, res, ch, lt)
  PROVE  Books(scope, AtPeriod(0), n, res, ch, lt)
<1> DEFINE state == AtPeriod(0)
<1>1. /\ DOMAIN state = {"period", "committed", "reserved", "active", "reclaimed", "indexed_at"}
      /\ state.period = 0 /\ state.committed = 0 /\ state.reserved = 0
      /\ state.active = <<>> /\ state.reclaimed = <<>>
  BY DEF AtPeriod
<1> HIDE DEF state
<1>2. DOMAIN state.active = {} /\ DOMAIN state.reclaimed = {}
  BY <1>1
<1>3. state.active \in [{} -> Held] /\ state.reclaimed \in [{} -> Held]
  BY <1>1
<1>4. Cardinality({}) = 0 /\ Units(state.active, {}) = 0
  BY FS_EmptySet, UnitsEmpty
<1>5. SoundMaps(state, 1 .. (n - 1))
  BY <1>2, <1>3 DEF SoundMaps
<1>6. Sound(state, 1 .. (n - 1))
  BY <1>1, <1>2, <1>4, <1>5, HeldAssumption DEF Sound
<1>7. Units(res, Overshoot(scope, 0, res, ch, lt)) \in Nat
  BY OvershootSums
<1>8. QED
  BY <1>1, <1>2, <1>6, <1>7, BudgetNat DEF Books, Holds, state

(* What the budget check lets through fits the budget: it never saturates. *)
LEMMA CheckFits ==
  ASSUME NEW state, state.committed \in Nat, state.reserved \in Nat, NEW c \in Nat,
         ~OverBudget(state, c, Budget)
  PROVE  state.committed + state.reserved + c <= Budget
<1>1. Budget < U64Max /\ U64Max \in Nat /\ Budget \in Nat
  <2>1. MaxHeld \in Nat \ {0} /\ MaxUnits \in Nat \ {0} /\ MaxHeld * MaxUnits < U64Max
        /\ U64Max \in Nat
    BY HeldAssumption, WidthAssumption
  <2>2. PICK d \in Nat : MaxHeld = 1 + d
    <3>1. MaxHeld - 1 \in Nat /\ MaxHeld = 1 + (MaxHeld - 1)
      BY <2>1
    <3>2. QED
      BY <3>1
  <2>3. MaxHeld * MaxUnits = MaxUnits + d * MaxUnits /\ d * MaxUnits \in Nat
    BY <2>1, <2>2
  <2>4. QED
    BY <2>1, <2>3, BudgetAssumption
<1>2. Total(state) \in Nat /\ Total(state) <= U64Max
      /\ (state.committed + state.reserved > U64Max => Total(state) = U64Max)
      /\ (state.committed + state.reserved <= U64Max =>
             Total(state) = state.committed + state.reserved)
  BY SatAddFacts DEF Total
<1> DEFINE total == Total(state)
           sum   == state.committed + state.reserved
           next  == SatAdd(total, c)
<1>3. /\ next \in Nat
      /\ total + c <= U64Max => next = total + c
      /\ total + c > U64Max => next = U64Max
  BY <1>2, SatAddFacts
<1>4. ~(next > Budget)
  BY DEF OverBudget
<1>5. /\ sum \in Nat /\ total \in Nat /\ total <= U64Max
      /\ sum > U64Max => total = U64Max
      /\ sum <= U64Max => total = sum
  BY <1>2
<1> HIDE DEF total, sum, next
<1>6. next <= Budget
  BY <1>1, <1>3, <1>4
<1>7. CASE total + c <= U64Max
  <2>1. total + c <= Budget
    BY <1>3, <1>6, <1>7
  <2>2. total < U64Max
    BY <2>1, <1>1, <1>5
  <2>3. sum <= U64Max /\ total = sum
    BY <2>2, <1>1, <1>5
  <2>4. QED
    BY <2>1, <2>3 DEF sum
<1>8. CASE total + c > U64Max
  BY <1>1, <1>3, <1>6, <1>8
<1>9. total + c <= U64Max \/ total + c > U64Max
  BY <1>1, <1>5
<1>10. QED
  BY <1>7, <1>8, <1>9

LEMMA PutFacts ==
  ASSUME NEW map, NEW key, NEW value
  PROVE  /\ DOMAIN Put(map, key, value) = DOMAIN map \cup {key}
         /\ Put(map, key, value)[key] = value
         /\ \A k \in DOMAIN map \ {key} : Put(map, key, value)[k] = map[k]
BY DEF Put

(* A reservation given out after the check keeps the books right.          *)
LEMMA BooksHold ==
  ASSUME NEW scope, NEW state, NEW n, NEW res, NEW ch, NEW lt, History(n, res, ch, lt),
         Books(scope, state, n, res, ch, lt), DOMAIN ch = DOMAIN res,
         NEW now \in Nat, NEW c \in 0 .. MaxUnits, c > 0 => ~Saturated(state),
         Mode = "block" => ~OverBudget(state, c, Budget),
         NEW r, r.scope = scope, r.contribution = c, NEW v
  PROVE  /\ History(n + 1, Put(res, n, r), Put(ch, n, v), lt)
         /\ Books(scope, Hold(state, n, c, now), n + 1, Put(res, n, r), Put(ch, n, v), lt)
<1> DEFINE res2 == Put(res, n, r)
           ch2 == Put(ch, n, v)
           after == Hold(state, n, c, now)
           ids == 1 .. n
<1>1. n \in Nat \ {0} /\ n \notin DOMAIN res /\ lt \subseteq DOMAIN res
      /\ n + 1 \in Nat \ {0} /\ c \in Nat
  BY WidthAssumption DEF History
<1>2. /\ DOMAIN res2 = DOMAIN res \cup {n} /\ res2[n] = r
      /\ \A id \in DOMAIN res : res2[id] = res[id]
  BY <1>1 DEF Put
<1>3. \A id \in lt : ch2[id] = ch[id]
  <2>1. lt \subseteq DOMAIN ch \ {n}
    BY <1>1
  <2>2. \A id \in DOMAIN ch \ {n} : ch2[id] = ch[id]
    BY DEF Put
  <2>3. QED
    BY <2>1, <2>2
<1>4. History(n + 1, res2, ch2, lt)
  <2>1. 1 .. ((n + 1) - 1) = 1 .. n /\ 1 .. (n - 1) \subseteq 1 .. n /\ n \in 1 .. n
    BY <1>1
  <2>2. \A id \in DOMAIN res2 : res2[id].contribution \in Nat
    BY <1>1, <1>2 DEF History
  <2>3. QED
    BY <1>1, <1>2, <2>1, <2>2 DEF History
<1> HIDE DEF res2, ch2
<1>5. Books(scope, state, n + 1, res2, ch2, lt)
  <2>1. n <= n + 1
    BY <1>1
  <2>2. QED
    BY <1>2, <1>3, <1>4, <2>1, BooksFrame
<1>6. Sound(state, ids) /\ IsFiniteSet(ids) /\ n \in ids
  <2>1. (n + 1) - 1 = n /\ n \in 1 .. n
    BY <1>1
  <2>2. QED
    BY <2>1, <1>1, <1>5, FS_Interval DEF Books
<1>7. ~Holds(state, n)
  BY <1>1 DEF Books
<1>8. /\ Sound(after, ids)
      /\ after.period = state.period /\ after.committed = state.committed
      /\ after.reserved = state.reserved + c
      /\ \A i : Holds(after, i) =>
           \/ Holds(state, i) /\ Entry(after, i) = Entry(state, i)
           \/ c > 0 /\ i = n /\ Entry(after, i).contribution = c
  <2> HIDE DEF ids
  <2>1. QED
    BY <1>6, <1>7, HoldSound
<1> HIDE DEF after
<1>9. \A id : Holds(after, id) =>
        /\ id \in DOMAIN res2 /\ id \notin lt
        /\ res2[id].scope = scope
        /\ res2[id].contribution = Entry(after, id).contribution
  BY <1>1, <1>2, <1>5, <1>8 DEF Books
<1>10. ASSUME Mode = "block"
       PROVE  /\ after.reserved <= Budget
              /\ after.committed + after.reserved <=
                   Budget + Units(res2, Overshoot(scope, after.period, res2, ch2, lt))
  <2>1. state.committed \in Nat /\ state.reserved \in Nat
    BY <1>6, SoundSums DEF Sound
  <2>2. state.committed + state.reserved + c <= Budget
    BY <2>1, <1>1, <1>10, CheckFits
  <2>3. Units(res2, Overshoot(scope, after.period, res2, ch2, lt)) \in Nat
    BY <1>4, OvershootSums
  <2>4. QED
    BY <2>1, <2>2, <2>3, <1>1, <1>8, BudgetNat
<1>11. Sound(after, 1 .. ((n + 1) - 1))
  <2>1. (n + 1) - 1 = n
    BY <1>1
  <2>2. QED
    BY <1>8, <2>1
<1>12. QED
  BY <1>4, <1>9, <1>10, <1>11 DEF Books, res2, ch2, after

(* A settlement that changes what its id is charged finds an entry.        *)
LEMMA OutcomeHolds ==
  ASSUME NEW state, NEW id, NEW commit \in BOOLEAN,
         Outcome(state, id, commit) \in {"committed", "late-committed", "refunded"}
  PROVE  Holds(state, id)
BY DEF Outcome, Holds

(* What a settlement charges, and whether late.                            *)
ChargedBy(ch, id, outcome, period) ==
  CASE outcome \in {"committed", "late-committed"} -> [ch EXCEPT ![id] = period]
    [] outcome = "refunded" -> [ch EXCEPT ![id] = NoPeriod]
    [] OTHER -> ch

LateBy(lt, id, outcome) == IF outcome = "late-committed" THEN lt \cup {id} ELSE lt

LEMMA BooksSettle ==
  ASSUME NEW scope, NEW state, NEW n, NEW res, NEW ch, NEW lt, History(n, res, ch, lt),
         Books(scope, state, n, res, ch, lt), DOMAIN ch = DOMAIN res,
         NEW id, NEW commit \in BOOLEAN
  PROVE  LET outcome == Outcome(state, id, commit)
             ch2 == ChargedBy(ch, id, outcome, state.period)
             lt2 == LateBy(lt, id, outcome)
         IN  /\ History(n, res, ch2, lt2)
             /\ \A i \in lt : ch2[i] = ch[i]
             /\ lt2 \ lt # {} => Holds(state, id) /\ lt2 \ lt = {id}
             /\ Books(scope, Settle(state, id, commit), n, res, ch2, lt2)
<1> DEFINE outcome == Outcome(state, id, commit)
           after == Settle(state, id, commit)
           ch2 == ChargedBy(ch, id, outcome, state.period)
           lt2 == LateBy(lt, id, outcome)
<1>1. Sound(state, 1 .. (n - 1)) /\ IsFiniteSet(1 .. (n - 1)) /\ n \in Nat
  BY IdsFinite DEF Books, History
<1>2. /\ Sound(after, 1 .. (n - 1))
      /\ Shrinks(after, state)
      /\ ~Holds(after, id)
      /\ after.period = state.period
      /\ after.reserved <= state.reserved
      /\ outcome # "late-committed" =>
           after.committed + after.reserved <= state.committed + state.reserved
      /\ outcome = "late-committed" =>
           /\ Holds(state, id)
           /\ Timeout = "release"
           /\ after.reserved = state.reserved
           /\ after.committed <= state.committed + Entry(state, id).contribution
  BY <1>1, SettleSound
<1>3. outcome \in {"committed", "late-committed", "refunded"} => Holds(state, id)
  BY OutcomeHolds
<1>4. Holds(state, id) =>
        /\ id \in DOMAIN res /\ id \notin lt /\ res[id].scope = scope
        /\ res[id].contribution = Entry(state, id).contribution
  BY DEF Books
<1> HIDE DEF outcome, after
<1>5. \A i \in lt : ch2[i] = ch[i]
  BY <1>3, <1>4 DEF ChargedBy
<1>6. History(n, res, ch2, lt2)
  <2>1. lt2 \subseteq DOMAIN res
    BY <1>2, <1>4 DEF LateBy, History
  <2>2. Timeout = "commit" => lt2 = {}
    BY <1>2 DEF LateBy, History
  <2>3. QED
    BY <2>1, <2>2 DEF History
<1>7. lt2 \ lt # {} => Holds(state, id) /\ lt2 \ lt = {id}
  BY <1>2, <1>4 DEF LateBy
<1>8. CASE outcome # "late-committed"
  <2>1. Books(scope, after, n, res, ch, lt)
    BY <1>2, <1>8, BooksShrink
  <2>2. lt2 = lt /\ n <= n
    BY <1>1, <1>8 DEF LateBy
  <2> HIDE DEF ch2, lt2
  <2>3. Books(scope, after, n, res, ch2, lt2)
    BY <2>1, <2>2, <1>5, <1>6, BooksFrame
  <2>4. QED
    BY <2>3, <1>5, <1>6, <1>7 DEF ch2, lt2, after, outcome
<1>9. CASE outcome = "late-committed"
  <2> DEFINE period == state.period
             old == Overshoot(scope, period, res, ch, lt)
             new == Overshoot(scope, period, res, ch2, lt2)
             units == Entry(state, id).contribution
  <2>1. /\ Holds(state, id) /\ id \in DOMAIN res /\ id \notin lt
        /\ res[id].scope = scope /\ res[id].contribution = units
    BY <1>2, <1>4, <1>9
  <2>2. lt2 = lt \cup {id} /\ ch2[id] = period
    BY <1>9, <2>1 DEF LateBy, ChargedBy
  <2>3. new = old \cup {id} /\ id \notin old
    BY <2>1, <2>2, <1>5 DEF Overshoot
  <2> HIDE DEF ch2, lt2
  <2>4. Summable(res, new) /\ Units(res, old) \in Nat
    BY <1>6, OvershootSums
  <2>5. Units(res, new) = units + Units(res, old)
    <3> HIDE DEF new, old, units
    <3>1. Units(res, old \cup {id}) = res[id].contribution + Units(res, old)
      BY <2>3, <2>4, UnitsAdd
    <3>2. QED
      BY <3>1, <2>1, <2>3
  <2>6. /\ state.committed \in Nat /\ state.reserved \in Nat
        /\ after.committed \in Nat /\ after.reserved \in Nat
        /\ units \in Nat
    <3>1. units \in Nat
      BY <2>1 DEF History
    <3>2. QED
      BY <3>1, <1>1, <1>2, SoundSums DEF Sound
  <2>7. Mode = "block" =>
          /\ after.reserved <= Budget
          /\ after.committed + after.reserved <= Budget + Units(res, new)
    <3>1. /\ after.reserved = state.reserved
          /\ after.committed <= state.committed + units
      BY <1>2, <1>9
    <3>2. Mode = "block" =>
            /\ state.reserved <= Budget
            /\ state.committed + state.reserved <= Budget + Units(res, old)
      BY DEF Books
    <3> HIDE DEF new, old, units
    <3>3. QED
      BY <3>1, <3>2, <2>4, <2>5, <2>6, BudgetNat
  <2>8. \A i : Holds(after, i) =>
          /\ i \in DOMAIN res /\ i \notin lt2 /\ res[i].scope = scope
          /\ res[i].contribution = Entry(after, i).contribution
    BY <1>2, <2>2 DEF Books, Shrinks
  <2>9. Books(scope, after, n, res, ch2, lt2)
    BY <1>2, <2>7, <2>8 DEF Books
  <2>10. QED
    BY <2>9, <1>5, <1>6, <1>7 DEF ch2, lt2, after, outcome
<1>10. QED
  BY <1>8, <1>9

-----------------------------------------------------------------------------
(* The index reads only a state's entries, committed units and period.     *)
LEMMA IdleAtSame ==
  ASSUME NEW one, NEW two, one.committed = two.committed, one.period = two.period,
         one.active = two.active, one.reclaimed = two.reclaimed
  PROVE  IdleAt(one) = IdleAt(two)
BY DEF IdleAt

LEMMA ReindexedFacts ==
  ASSUME NEW ids, NEW state, Sound(state, ids)
  PROVE  LET after == Reindexed(state)
         IN  /\ Sound(after, ids)
             /\ after.period = state.period /\ after.committed = state.committed
             /\ after.reserved = state.reserved
             /\ after.active = state.active /\ after.reclaimed = state.reclaimed
             /\ after.indexed_at = IdleAt(state)
             /\ IdleAt(after) = IdleAt(state)
             /\ IdleAt(state) \in Nat
<1> DEFINE after == Reindexed(state)
<1>1. DOMAIN state = {"period", "committed", "reserved", "active", "reclaimed", "indexed_at"}
  BY DEF Sound
<1>2. /\ DOMAIN after = DOMAIN state
      /\ after.period = state.period /\ after.committed = state.committed
      /\ after.reserved = state.reserved
      /\ after.active = state.active /\ after.reclaimed = state.reclaimed
      /\ after.indexed_at = IdleAt(state)
  BY <1>1 DEF Reindexed
<1> HIDE DEF after
<1>3. Sound(after, ids)
  BY <1>2 DEF Sound, SoundMaps
<1>4. IdleAt(after) = IdleAt(state)
  BY <1>2, IdleAtSame
<1>5. IdleAt(state) \in Nat
  BY IdleAtNat
<1>6. QED
  BY <1>2, <1>3, <1>4, <1>5 DEF after

LEMMA BooksReindexed ==
  ASSUME NEW scope, NEW state, NEW n, NEW res, NEW ch, NEW lt,
         Books(scope, state, n, res, ch, lt)
  PROVE  Books(scope, Reindexed(state), n, res, ch, lt)
<1> DEFINE after == Reindexed(state)
<1>1. /\ Sound(after, 1 .. (n - 1))
      /\ after.period = state.period /\ after.committed = state.committed
      /\ after.reserved = state.reserved
      /\ after.active = state.active /\ after.reclaimed = state.reclaimed
  BY ReindexedFacts DEF Books
<1> HIDE DEF after
<1>2. \A id : (Holds(after, id) <=> Holds(state, id)) /\ Entry(after, id) = Entry(state, id)
  BY <1>1 DEF Holds, Entry
<1>3. Books(scope, after, n, res, ch, lt)
  BY <1>1, <1>2 DEF Books
<1>4. QED
  BY <1>3 DEF after

(* Putting one scope's new state back: with its own books right, and the   *)
(* other scopes' reservations left alone, the table is right again.        *)
LEMMA TablePut ==
  ASSUME NEW table, NEW index, NEW n, NEW res, NEW ch, NEW lt, History(n, res, ch, lt),
         NEW m, NEW res2, NEW ch2, NEW lt2, History(m, res2, ch2, lt2),
         Table(table, index, n, res, ch, lt),
         n <= m, DOMAIN res \subseteq DOMAIN res2,
         \A id \in DOMAIN res : res2[id] = res[id],
         lt \subseteq lt2, \A id \in lt : ch2[id] = ch[id],
         NEW scope \in Scopes, \A id \in lt2 \ lt : id \in DOMAIN res /\ res[id].scope = scope,
         NEW after, Books(scope, after, m, res2, ch2, lt2),
         after.indexed_at = IF scope \in DOMAIN table THEN table[scope].indexed_at
                            ELSE Unindexed
  PROVE  Table(Put(table, scope, Reindexed(after)), Reindex(index, scope, after),
               m, res2, ch2, lt2)
<1> DEFINE table2 == Put(table, scope, Reindexed(after))
           index2 == Reindex(index, scope, after)
           rest   == {<<IdleAt(table[s]), s>> : s \in DOMAIN table \ {scope}}
<1>1. /\ DOMAIN table2 = DOMAIN table \cup {scope}
      /\ table2[scope] = Reindexed(after)
      /\ \A s \in DOMAIN table \ {scope} : table2[s] = table[s]
  BY DEF Put
<1>2. /\ Reindexed(after).indexed_at = IdleAt(after)
      /\ IdleAt(Reindexed(after)) = IdleAt(after)
      /\ IdleAt(after) \in Nat
  BY ReindexedFacts DEF Books
<1>3. DOMAIN table2 \subseteq Scopes
  BY <1>1 DEF Table
<1>4. \A s \in DOMAIN table2 : Books(s, table2[s], m, res2, ch2, lt2)
  <2> SUFFICES ASSUME NEW s \in DOMAIN table2 PROVE Books(s, table2[s], m, res2, ch2, lt2)
    OBVIOUS
  <2>1. CASE s = scope
    BY <2>1, <1>1, BooksReindexed
  <2>2. CASE s # scope
    <3>1. Books(s, table[s], n, res, ch, lt) /\ table2[s] = table[s]
      BY <2>2, <1>1 DEF Table
    <3>2. \A id \in lt2 \ lt : ~Holds(table[s], id)
      BY <2>2, <3>1 DEF Books
    <3>3. Books(s, table[s], m, res2, ch2, lt2)
      BY <3>1, <3>2, BooksFrame
    <3>4. QED
      BY <3>1, <3>3
  <2>3. QED
    BY <2>1, <2>2
<1>5. \A s \in DOMAIN table2 : table2[s].indexed_at = IdleAt(table2[s])
  BY <1>1, <1>2 DEF Table
<1>6. index2 = rest \cup {<<IdleAt(after), scope>>}
  <2>1. index \ {<<after.indexed_at, scope>>} = rest
    <3>1. CASE scope \in DOMAIN table
      <4>1. after.indexed_at = IdleAt(table[scope])
        BY <3>1 DEF Table
      <4>2. QED
        BY <3>1, <4>1 DEF Table
    <3>2. CASE scope \notin DOMAIN table
      BY <3>2 DEF Table
    <3>3. QED
      BY <3>1, <3>2
  <2>2. CASE after.indexed_at = IdleAt(after)
    <3>1. scope \in DOMAIN table
      BY <2>2, <1>2 DEF Unindexed
    <3>2. <<after.indexed_at, scope>> \in index
      BY <3>1 DEF Table
    <3>3. index2 = index
      BY <2>2 DEF Reindex
    <3>4. QED
      BY <2>1, <2>2, <3>2, <3>3
  <2>3. CASE after.indexed_at # IdleAt(after)
    <3>1. index2 = (index \ {<<after.indexed_at, scope>>}) \cup {<<IdleAt(after), scope>>}
      BY <2>3 DEF Reindex
    <3>2. QED
      BY <2>1, <3>1
  <2>4. QED
    BY <2>2, <2>3
<1>7. index2 = {<<IdleAt(table2[s]), s>> : s \in DOMAIN table2}
  <2> HIDE DEF table2, index2
  <2>1. {<<IdleAt(table2[s]), s>> : s \in DOMAIN table2}
          = {<<IdleAt(table2[s]), s>> : s \in DOMAIN table \ {scope}}
              \cup {<<IdleAt(table2[scope]), scope>>}
    BY <1>1
  <2>2. \A s \in DOMAIN table \ {scope} : IdleAt(table2[s]) = IdleAt(table[s])
    BY <1>1
  <2>3. {<<IdleAt(table2[s]), s>> : s \in DOMAIN table \ {scope}} = rest
    BY <2>2
  <2>4. IdleAt(table2[scope]) = IdleAt(after)
    BY <1>1, <1>2
  <2>5. QED
    BY <1>6, <2>1, <2>3, <2>4
<1> HIDE DEF table2, index2
<1>8. Table(table2, index2, m, res2, ch2, lt2)
  BY <1>3, <1>4, <1>5, <1>7 DEF Table
<1>9. QED
  BY <1>8 DEF table2, index2

(* Evicting a scope leaves the table right.                                *)
LEMMA TableEvict ==
  ASSUME NEW table, NEW index, NEW n, NEW res, NEW ch, NEW lt,
         Table(table, index, n, res, ch, lt), NEW entry \in index
  PROVE  /\ entry[2] \in DOMAIN table
         /\ Table(Restrict(table, DOMAIN table \ {entry[2]}), index \ {entry},
                  n, res, ch, lt)
<1> DEFINE victim == entry[2]
           table2 == Restrict(table, DOMAIN table \ {victim})
<1>1. victim \in DOMAIN table /\ entry = <<IdleAt(table[victim]), victim>>
  BY DEF Table
<1>2. /\ DOMAIN table2 = DOMAIN table \ {victim}
      /\ \A s \in DOMAIN table2 : table2[s] = table[s]
  BY DEF Restrict
<1> HIDE DEF table2
<1>3. {<<IdleAt(table2[s]), s>> : s \in DOMAIN table2}
        = {<<IdleAt(table[s]), s>> : s \in DOMAIN table2}
  <2>1. \A s \in DOMAIN table2 : IdleAt(table2[s]) = IdleAt(table[s])
    BY <1>2
  <2>2. QED
    BY <2>1
<1>4. index \ {entry} = {<<IdleAt(table[s]), s>> : s \in DOMAIN table2}
  BY <1>1, <1>2 DEF Table
<1>5. Table(table2, index \ {entry}, n, res, ch, lt)
  BY <1>1, <1>2, <1>3, <1>4 DEF Table
<1>6. QED
  BY <1>1, <1>5 DEF table2

-----------------------------------------------------------------------------
(* What the types of the history say of it.                                *)
LEMMA HistoryTypes ==
  ASSUME HistoryOK
  PROVE  /\ History(next_id, reservations, charged, late)
         /\ DOMAIN charged = DOMAIN reservations
         /\ next_id \notin DOMAIN reservations
         /\ \A id \in DOMAIN reservations : reservations[id].scope \in Scopes
<1>1. \A id \in DOMAIN reservations :
        reservations[id].contribution \in Contributions /\ reservations[id].scope \in Scopes
  BY DEF HistoryOK
<1>2. \A c \in Contributions : c \in Nat
  BY WidthAssumption, ContributionsAssumption
<1>3. \A id \in DOMAIN reservations : reservations[id].contribution \in Nat
  BY <1>1, <1>2
<1>4. History(next_id, reservations, charged, late)
  BY <1>3 DEF HistoryOK, History, Ids
<1>5. next_id \notin 1 .. (next_id - 1)
  BY DEF HistoryOK
<1>6. QED
  BY <1>1, <1>4, <1>5 DEF HistoryOK, Ids

(* Touching a scope charges its expired holds and nothing that was late.   *)
LEMMA ChargeExpiredFacts ==
  ASSUME NEW n, NEW res, NEW ch, NEW lt, History(n, res, ch, lt),
         NEW D, ch \in [D -> Nat \cup {NoPeriod}], lt \subseteq D,
         NEW ids, NEW state, Sound(state, ids), NEW now \in Nat
  PROVE  LET ch2 == ChargeExpired(ch, state, now)
         IN  /\ ch2 \in [D -> Nat \cup {NoPeriod}]
             /\ \A id \in lt : ch2[id] = ch[id]
<1>1. Period(now) \in Nat
  BY PeriodNat
<1>2. Roll(state, Period(now)).period \in Nat
  BY <1>1, RollSound DEF Sound
<1>3. QED
  BY <1>2 DEF ChargeExpired, History

(* An operation on a scope's books leaves its index entry's time alone.    *)
LEMMA IndexedAtKept ==
  ASSUME NEW ids, NEW state, Sound(state, ids), NEW now, NEW id, NEW c, NEW commit
  PROVE  /\ Roll(state, now).indexed_at = state.indexed_at
         /\ Reclaim(state, now).indexed_at = state.indexed_at
         /\ Hold(state, id, c, now).indexed_at = state.indexed_at
         /\ Settle(state, id, commit).indexed_at = state.indexed_at
<1>1. DOMAIN state = {"period", "committed", "reserved", "active", "reclaimed", "indexed_at"}
  BY DEF Sound
<1>2. Roll(state, now).indexed_at = state.indexed_at
  BY <1>1 DEF Roll
<1>3. Reclaim(state, now).indexed_at = state.indexed_at
  BY <1>1 DEF Reclaim
<1>4. Hold(state, id, c, now).indexed_at = state.indexed_at
  BY <1>1 DEF Hold
<1>5. Settle(state, id, commit).indexed_at = state.indexed_at
  BY <1>1 DEF Settle
<1>6. QED
  BY <1>2, <1>3, <1>4, <1>5

LEMMA TouchIndexedAt ==
  ASSUME NEW ids, NEW state, Sound(state, ids), NEW now \in Nat
  PROVE  Touch(state, now).indexed_at = state.indexed_at
<1>1. Sound(Roll(state, Period(now)), ids)
  BY PeriodNat, RollSound
<1>2. QED
  BY <1>1, IndexedAtKept DEF Touch

(* The counters stay integers.                                             *)
LEMMA CountReclaimType ==
  ASSUME NEW st \in Stats, NEW ids, IsFiniteSet(ids), NEW state, Sound(state, ids),
         NEW now \in Nat
  PROVE  CountReclaim(st, state, now) \in Stats
<1> DEFINE rolled == Roll(state, Period(now))
<1>1. Sound(rolled, ids)
  BY PeriodNat, RollSound
<1>2. Sound(Reclaim(rolled, now), ids)
  BY <1>1, ReclaimSound
<1> HIDE DEF rolled
<1>3. IsFiniteSet(Expired(rolled, now)) /\ IsFiniteSet(DOMAIN rolled.reclaimed)
  <2>1. Expired(rolled, now) \subseteq DOMAIN rolled.active
    BY DEF Expired
  <2>2. QED
    BY <2>1, <1>1, SoundSums, FS_Subset
<1>4. Cardinality(Expired(rolled, now)) \in Int
  BY <1>3, FS_CardinalityType
<1>5. Abandoned(rolled, now) \in Int
  <2>1. IsFiniteSet(DOMAIN rolled.reclaimed \cup Expired(rolled, now))
    BY <1>3, FS_Union
  <2>2. Cardinality(DOMAIN rolled.reclaimed \cup Expired(rolled, now)) \in Int
    BY <2>1, FS_CardinalityType
  <2>3. Cardinality(DOMAIN Reclaim(rolled, now).reclaimed) \in Int
    BY <1>2, SoundSums
  <2>4. QED
    BY <2>2, <2>3 DEF Abandoned
<1> DEFINE expired == Cardinality(Expired(rolled, now))
           dropped == Abandoned(rolled, now)
           charges == IF Timeout = "commit" THEN expired ELSE 0
<1>6. CountReclaim(st, state, now) =
        [st EXCEPT !.active = SatSub(@, expired), !.expired = @ + expired,
                   !.provisional_charged = @ + charges, !.abandoned = @ + dropped]
  BY DEF CountReclaim, rolled
<1>7. expired \in Int /\ dropped \in Int /\ charges \in Int
  BY <1>4, <1>5
<1> HIDE DEF expired, dropped, charges
<1>8. \A field \in StatFields : st[field] \in Int
  BY DEF Stats
<1>9. \A field \in StatFields : SatSub(st[field], expired) \in Int
  BY <1>7, <1>8 DEF SatSub
<1>10. /\ SatSub(st.active, expired) \in Int /\ st.expired + expired \in Int
       /\ st.provisional_charged + charges \in Int /\ st.abandoned + dropped \in Int
  BY <1>7, <1>8, <1>9 DEF StatFields
<1>11. QED
  BY <1>6, <1>10 DEF Stats

LEMMA CountSettlementType ==
  ASSUME NEW st \in Stats, NEW outcome
  PROVE  CountSettlement(st, outcome) \in Stats
<1>1. \A field \in StatFields : st[field] \in Int
  BY DEF Stats
<1>2. /\ SatSub(st.active, 1) \in Int /\ st.committed + 1 \in Int
      /\ st.released + 1 \in Int /\ st.late_committed + 1 \in Int
      /\ st.late_released + 1 \in Int /\ st.provisional_refunded + 1 \in Int
  BY <1>1 DEF SatSub, StatFields
<1>3. QED
  BY <1>2 DEF CountSettlement, Stats

-----------------------------------------------------------------------------
(* A call let in on a table with room for its scope, whether it is then    *)
(* refused over budget, refused for a full record, or given a reservation. *)
LEMMA AdmittedStep ==
  ASSUME HistoryOK,
         NEW table, NEW index, Table(table, index, next_id, reservations, charged, late),
         NEW counters \in Stats, NEW scope \in Scopes,
         \/ scope \in DOMAIN table /\ Cardinality(DOMAIN table) <= MaxScopes
         \/ Cardinality(DOMAIN table) < MaxScopes,
         NEW contribution \in Contributions, NEW now \in Nat,
         Admitted(scope, contribution, now, table, index, counters),
         UNCHANGED <<clock, free, late>>
  PROVE  IInv'
<1> DEFINE before  == IF scope \in DOMAIN table THEN table[scope] ELSE AtPeriod(0)
           touched == Touch(before, now)
           over    == Mode = "block" /\ OverBudget(touched, contribution, Budget)
           full    == contribution > 0 /\ Saturated(touched)
           after   == IF over \/ full THEN touched ELSE Hold(touched, next_id, contribution, now)
           ch      == ChargeExpired(charged, before, now)
           ids     == 1 .. (next_id - 1)
           r       == [scope |-> scope, contribution |-> contribution,
                       created_at |-> now, expires_at |-> SatAdd(now, Ttl)]
           counted == CountReclaim(counters, before, now)
           Agrees  == /\ HistoryOK'
                      /\ History(next_id', reservations', charged', late')
                      /\ next_id <= next_id'
                      /\ DOMAIN reservations \subseteq DOMAIN reservations'
                      /\ \A id \in DOMAIN reservations : reservations'[id] = reservations[id]
                      /\ \A id \in late : charged'[id] = charged[id]
                      /\ Books(scope, after, next_id', reservations', charged', late')
<1>1. /\ History(next_id, reservations, charged, late)
      /\ DOMAIN charged = DOMAIN reservations
      /\ next_id \notin DOMAIN reservations
      /\ next_id \in Nat \ {0}
      /\ late' = late /\ free' = free /\ clock' = clock
  BY HistoryTypes DEF HistoryOK
<1>2. /\ scopes' = Put(table, scope, Reindexed(after))
      /\ idle_index' = Reindex(index, scope, after)
      /\ next_id' = IF over THEN next_id ELSE next_id + 1
      /\ stats' = IF over \/ full \/ contribution = 0 THEN counted
                  ELSE [counted EXCEPT !.active = @ + 1]
      /\ reservations' = IF over \/ full THEN reservations ELSE Put(reservations, next_id, r)
      /\ charged' = IF over \/ full THEN ch ELSE Put(ch, next_id, NoPeriod)
  BY DEF Admitted
<1>3. contribution \in 0 .. MaxUnits
  BY ContributionsAssumption
<1>4. Books(scope, before, next_id, reservations, charged, late)
  BY <1>1, BooksNew DEF Table
<1>5. Sound(before, ids) /\ IsFiniteSet(ids)
  BY <1>1, <1>4, IdsFinite DEF Books
<1>6. before.indexed_at = IF scope \in DOMAIN table THEN table[scope].indexed_at
                          ELSE Unindexed
  BY DEF AtPeriod
<1> HIDE DEF before, ids
<1>7. /\ ch \in [DOMAIN reservations -> Nat \cup {NoPeriod}]
      /\ \A id \in late : ch[id] = charged[id]
  BY <1>1, <1>5, ChargeExpiredFacts DEF HistoryOK
<1>8. History(next_id, reservations, ch, late)
  BY <1>1 DEF History
<1>9. stats' \in Stats
  <2>1. counted \in Stats
    BY <1>5, CountReclaimType
  <2> HIDE DEF counted, over, full
  <2>2. [counted EXCEPT !.active = @ + 1] \in Stats
    <3>1. counted.active \in Int
      BY <2>1 DEF Stats, StatFields
    <3>2. counted.active + 1 \in Int
      BY <3>1
    <3>3. QED
      BY <2>1, <3>2 DEF Stats
  <2>3. QED
    BY <1>2, <2>1, <2>2
<1> HIDE DEF ch, counted
<1>10. Books(scope, touched, next_id, reservations, ch, late)
  <2>1. next_id <= next_id
    BY <1>1
  <2>2. Books(scope, before, next_id, reservations, ch, late)
    BY <2>1, <1>1, <1>4, <1>7, <1>8, BooksFrame
  <2>3. QED
    BY <2>2, <1>8, BooksTouch
<1>11. touched.indexed_at = before.indexed_at /\ Sound(touched, ids)
  BY <1>5, <1>10, TouchIndexedAt DEF Books, ids
<1>12. after.indexed_at = before.indexed_at
  BY <1>11, IndexedAtKept
<1> HIDE DEF touched
<1>13. ASSUME over PROVE Agrees
  <2>1. next_id' = next_id /\ reservations' = reservations /\ charged' = ch
    BY <1>2, <1>13
  <2>2. HistoryOK'
    BY <1>1, <1>7, <1>9, <2>1 DEF HistoryOK, Ids
  <2>3. QED
    BY <1>1, <1>7, <1>8, <1>10, <1>13, <2>1, <2>2
<1>14. ASSUME ~over /\ full PROVE Agrees
  <2>1. next_id' = next_id + 1 /\ reservations' = reservations /\ charged' = ch
    BY <1>2, <1>14
  <2>2. /\ next_id' \in Nat \ {0} /\ next_id <= next_id'
        /\ 1 .. (next_id - 1) \subseteq 1 .. (next_id' - 1)
    BY <1>1, <2>1
  <2>3. HistoryOK'
    BY <1>1, <1>7, <1>9, <2>1, <2>2 DEF HistoryOK, Ids
  <2>4. History(next_id', reservations, ch, late)
    BY <1>8, <2>2 DEF History
  <2>5. Books(scope, touched, next_id', reservations, ch, late)
    BY <1>8, <1>10, <2>2, <2>4, BooksFrame
  <2>6. QED
    BY <1>1, <1>7, <1>14, <2>1, <2>2, <2>3, <2>4, <2>5
<1>15. ASSUME ~over /\ ~full PROVE Agrees
  <2>1. /\ next_id' = next_id + 1 /\ reservations' = Put(reservations, next_id, r)
        /\ charged' = Put(ch, next_id, NoPeriod)
        /\ after = Hold(touched, next_id, contribution, now)
    BY <1>2, <1>15
  <2>2. /\ next_id' \in Nat \ {0} /\ next_id <= next_id'
        /\ 1 .. (next_id - 1) \subseteq 1 .. (next_id' - 1) /\ next_id \in 1 .. (next_id' - 1)
    BY <1>1, <2>1
  <2>3. /\ DOMAIN reservations' = DOMAIN reservations \cup {next_id}
        /\ reservations'[next_id] = r
        /\ \A id \in DOMAIN reservations : reservations'[id] = reservations[id]
    BY <1>1, <2>1 DEF Put
  <2>4. /\ charged' \in [DOMAIN reservations' -> Nat \cup {NoPeriod}]
        /\ \A id \in DOMAIN reservations : charged'[id] = ch[id]
    BY <1>1, <1>7, <2>1, <2>3 DEF Put
  <2>5. r \in [scope : Scopes, contribution : Contributions,
               created_at : Nat, expires_at : Nat]
    <3>1. SatAdd(now, Ttl) \in Nat
      BY SatAddFacts, TtlAssumption
    <3>2. QED
      BY <3>1
  <2>6. \A id \in DOMAIN reservations' :
          reservations'[id] \in [scope : Scopes, contribution : Contributions,
                                 created_at : Nat, expires_at : Nat]
    BY <2>3, <2>5 DEF HistoryOK
  <2>7. HistoryOK'
    BY <1>1, <1>9, <2>2, <2>3, <2>4, <2>6 DEF HistoryOK, Ids
  <2>8. /\ Books(scope, after, next_id', reservations', charged', late')
        /\ History(next_id', reservations', charged', late')
    <3>1. r.scope = scope /\ r.contribution = contribution
      OBVIOUS
    <3>2. DOMAIN ch = DOMAIN reservations
      BY <1>7
    <3>3. (Mode = "block" => ~OverBudget(touched, contribution, Budget))
          /\ (contribution > 0 => ~Saturated(touched))
      BY <1>15
    <3> HIDE DEF r
    <3>4. QED
      BY <1>1, <1>3, <1>8, <1>10, <2>1, <3>1, <3>2, <3>3, BooksHold
  <2>9. \A id \in late : charged'[id] = charged[id]
    BY <1>7, <2>4 DEF HistoryOK
  <2>10. QED
    BY <2>2, <2>3, <2>7, <2>8, <2>9
<1>16. Agrees
  BY <1>13, <1>14, <1>15
<1> HIDE DEF after, over, full, r
<1>17. History(next_id', reservations', charged', late')
  BY <1>16
<1>18. Table(scopes', idle_index', next_id', reservations', charged', late')
  <2>1. late \subseteq late' /\ late' \ late = {}
    BY <1>1
  <2>2. QED
    BY <1>1, <1>2, <1>6, <1>12, <1>16, <1>17, <2>1, TablePut
<1>19. Cardinality(DOMAIN scopes') <= MaxScopes
  <2>1. DOMAIN scopes' = DOMAIN table \cup {scope}
    BY <1>2 DEF Put
  <2>2. IsFiniteSet(DOMAIN table)
    BY ScopesAssumption, FS_Subset DEF Table
  <2>3. Cardinality(DOMAIN table) \in Nat
    BY <2>2, FS_CardinalityType
  <2>4. Cardinality(DOMAIN scopes') =
          IF scope \in DOMAIN table THEN Cardinality(DOMAIN table)
          ELSE Cardinality(DOMAIN table) + 1
    BY <2>1, <2>2, FS_AddElement
  <2>5. QED
    BY <2>3, <2>4, ScopesAssumption
<1>20. QED
  BY <1>16, <1>18, <1>19 DEF IInv, Tracked

(* Replacing the state of a tracked scope.                                 *)
LEMMA ExceptIsPut ==
  ASSUME NEW map, NEW key \in DOMAIN map, NEW value
  PROVE  [map EXCEPT ![key] = value] = Put(map, key, value)
BY DEF Put

(* A call refused because the first scope due was not idle after all.      *)
LEMMA BusyVictimStep ==
  ASSUME IInv, NEW scope \in Scopes, NEW now \in Stamps, RefuseBusyVictim(scope, now)
  PROVE  IInv'
<1>1. /\ History(next_id, reservations, charged, late)
      /\ DOMAIN charged = DOMAIN reservations
      /\ now \in Nat
      /\ next_id' = next_id /\ reservations' = reservations /\ late' = late
      /\ free' = free /\ clock' = clock
  BY HistoryTypes DEF IInv, HistoryOK, Stamps, RefuseBusyVictim
<1>2. PICK entry \in Victims(now) :
        LET victim == entry[2]
            touched == Touch(scopes[victim], now)
        IN  /\ scopes' = [scopes EXCEPT ![victim] = Reindexed(touched)]
            /\ idle_index' = Reindex(idle_index, victim, touched)
            /\ stats' = CountReclaim(stats, scopes[victim], now)
            /\ charged' = ChargeExpired(charged, scopes[victim], now)
  BY DEF RefuseBusyVictim
<1> DEFINE victim == entry[2]
           before == scopes[victim]
           touched == Touch(before, now)
           ids == 1 .. (next_id - 1)
<1>3. victim \in Tracked /\ victim \in Scopes
  <2>1. entry \in idle_index
    BY DEF Victims, First
  <2>2. QED
    BY <2>1, TableEvict DEF IInv, Table, Tracked
<1>4. /\ Books(victim, before, next_id, reservations, charged, late)
      /\ Sound(before, ids) /\ IsFiniteSet(ids)
  BY <1>1, <1>3, IdsFinite DEF IInv, Table, Tracked, Books, History
<1>5. /\ scopes' = Put(scopes, victim, Reindexed(touched))
      /\ idle_index' = Reindex(idle_index, victim, touched)
      /\ stats' = CountReclaim(stats, before, now)
      /\ charged' = ChargeExpired(charged, before, now)
  BY <1>2, <1>3, ExceptIsPut DEF Tracked
<1> HIDE DEF victim, ids
<1>6. /\ charged' \in [DOMAIN reservations -> Nat \cup {NoPeriod}]
      /\ \A id \in late : charged'[id] = charged[id]
  BY <1>1, <1>4, <1>5, ChargeExpiredFacts DEF IInv, HistoryOK
<1>7. History(next_id, reservations, charged', late)
  BY <1>1 DEF History
<1>8. Books(victim, touched, next_id, reservations, charged', late)
  <2>1. next_id <= next_id
    BY DEF IInv, HistoryOK
  <2>2. Books(victim, before, next_id, reservations, charged', late)
    BY <2>1, <1>1, <1>4, <1>6, <1>7, BooksFrame
  <2>3. QED
    BY <2>2, <1>1, <1>7, BooksTouch
<1>9. touched.indexed_at = before.indexed_at
  BY <1>1, <1>4, TouchIndexedAt
<1>10. stats' \in Stats
  BY <1>1, <1>4, <1>5, CountReclaimType DEF IInv, HistoryOK
<1>11. HistoryOK'
  BY <1>1, <1>6, <1>10 DEF IInv, HistoryOK, Ids
<1> HIDE DEF touched
<1>12. Table(scopes', idle_index', next_id, reservations, charged', late)
  <2>1. next_id <= next_id /\ late \ late = {}
    BY DEF IInv, HistoryOK
  <2>2. touched.indexed_at = IF victim \in DOMAIN scopes THEN scopes[victim].indexed_at
                             ELSE Unindexed
    BY <1>3, <1>9 DEF Tracked
  <2>3. QED
    BY <2>1, <2>2, <1>1, <1>3, <1>5, <1>6, <1>7, <1>8, TablePut DEF IInv
<1>13. DOMAIN scopes' = DOMAIN scopes
  BY <1>3, <1>5 DEF Put, Tracked
<1>14. QED
  BY <1>1, <1>11, <1>12, <1>13 DEF IInv, Tracked

(* A call let in after evicting an idle scope.                             *)
LEMMA AdmitEvictingStep ==
  ASSUME IInv, NEW scope \in Scopes, NEW contribution \in Contributions,
         NEW now \in Stamps, AdmitEvicting(scope, contribution, now)
  PROVE  IInv'
<1>1. now \in Nat
  BY DEF IInv, HistoryOK, Stamps
<1>2. PICK entry \in Victims(now) :
        Admitted(scope, contribution, now,
                 Restrict(scopes, Tracked \ {entry[2]}), idle_index \ {entry},
                 CountReclaim(stats, scopes[entry[2]], now))
  BY DEF AdmitEvicting
<1> DEFINE victim == entry[2]
           table == Restrict(scopes, Tracked \ {victim})
           index == idle_index \ {entry}
           counters == CountReclaim(stats, scopes[victim], now)
<1>3. /\ victim \in Tracked
      /\ Table(table, index, next_id, reservations, charged, late)
  <2>1. entry \in idle_index
    BY DEF Victims, First
  <2>2. QED
    BY <2>1, TableEvict DEF IInv, Tracked
<1>4. counters \in Stats
  <2>1. Sound(scopes[victim], 1 .. (next_id - 1)) /\ IsFiniteSet(1 .. (next_id - 1))
    BY <1>3, IdsFinite DEF IInv, HistoryOK, Table, Tracked, Books
  <2>2. QED
    BY <2>1, <1>1, CountReclaimType DEF IInv, HistoryOK
<1>5. Cardinality(DOMAIN table) < MaxScopes
  <2>1. DOMAIN table = Tracked \ {victim}
    BY DEF Restrict
  <2>2. IsFiniteSet(Tracked)
    BY ScopesAssumption, FS_Subset DEF IInv, Table, Tracked
  <2>3. Cardinality(Tracked) \in Nat
    BY <2>2, FS_CardinalityType
  <2>4. Cardinality(DOMAIN table) = Cardinality(Tracked) - 1
    <3> HIDE DEF table
    <3>1. Cardinality(Tracked \ {victim}) = Cardinality(Tracked) - 1
      BY <2>2, <1>3, FS_RemoveElement
    <3>2. QED
      BY <2>1, <3>1
  <2>5. QED
    BY <2>3, <2>4, ScopesAssumption DEF IInv
<1>6. UNCHANGED <<clock, free, late>>
  BY DEF AdmitEvicting
<1>7. Admitted(scope, contribution, now, table, index, counters)
  BY <1>2
<1> HIDE DEF table, index, counters
<1>8. QED
  BY <1>1, <1>3, <1>4, <1>5, <1>6, <1>7, AdmittedStep DEF IInv

LEMMA AdmitInRoomStep ==
  ASSUME IInv, NEW scope \in Scopes, NEW contribution \in Contributions,
         NEW now \in Stamps, AdmitInRoom(scope, contribution, now)
  PROVE  IInv'
<1>1. now \in Nat
  BY DEF IInv, HistoryOK, Stamps
<1>2. \/ scope \in DOMAIN scopes /\ Cardinality(DOMAIN scopes) <= MaxScopes
      \/ Cardinality(DOMAIN scopes) < MaxScopes
  <2>1. IsFiniteSet(Tracked)
    BY ScopesAssumption, FS_Subset DEF IInv, Table, Tracked
  <2>2. Cardinality(Tracked) \in Nat
    BY <2>1, FS_CardinalityType
  <2>3. QED
    BY <2>2, ScopesAssumption DEF IInv, AdmitInRoom, NeedsRoom, Tracked
<1>3. QED
  BY <1>1, <1>2, AdmittedStep DEF IInv, HistoryOK, AdmitInRoom

(* A settlement on its scope's state, first or repeated, on time or late.  *)
LEMMA SettleTrackedStep ==
  ASSUME IInv, NEW id \in DOMAIN reservations, NEW commit \in BOOLEAN,
         SettleTracked(id, commit),
         UNCHANGED <<next_id, clock, reservations>>
  PROVE  IInv'
<1> DEFINE scope   == reservations[id].scope
           rolled  == Roll(scopes[scope], Period(clock))
           ready   == IF Timeout = "commit" THEN Reclaim(rolled, clock) ELSE rolled
           outcome == Outcome(ready, id, commit)
           done    == Settle(ready, id, commit)
           after   == Reclaim(done, clock)
           counted == IF Timeout = "commit" THEN CountReclaim(stats, rolled, clock) ELSE stats
           ch      == IF Timeout = "commit" THEN ChargeExpired(charged, rolled, clock)
                      ELSE charged
           ids     == 1 .. (next_id - 1)
<1>1. /\ History(next_id, reservations, charged, late)
      /\ DOMAIN charged = DOMAIN reservations
      /\ clock \in Nat /\ next_id \in Nat \ {0}
      /\ scope \in Scopes /\ scope \in Tracked
      /\ next_id' = next_id /\ reservations' = reservations /\ clock' = clock
  BY HistoryTypes DEF IInv, HistoryOK, SettleTracked
<1>2. /\ scopes' = Put(scopes, scope, Reindexed(after))
      /\ idle_index' = Reindex(idle_index, scope, after)
      /\ stats' = CountSettlement(CountReclaim(counted, done, clock), outcome)
      /\ charged' = ChargedBy(ch, id, outcome, ready.period)
      /\ late' = LateBy(late, id, outcome)
  <2>1. \A st : [scopes EXCEPT ![scope] = st] = Put(scopes, scope, st)
    BY <1>1, ExceptIsPut DEF Tracked
  <2>2. QED
    BY <2>1 DEF SettleTracked, ChargedBy, LateBy
<1>3. /\ Books(scope, scopes[scope], next_id, reservations, charged, late)
      /\ IsFiniteSet(ids)
  BY <1>1, IdsFinite DEF IInv, Table, Tracked
<1>4. Books(scope, rolled, next_id, reservations, charged, late)
  BY <1>1, <1>3, BooksRoll
<1>5. Books(scope, ready, next_id, reservations, charged, late)
  BY <1>1, <1>4, BooksReclaim
<1>6. rolled.indexed_at = scopes[scope].indexed_at /\ Sound(rolled, ids)
  BY <1>3, <1>4, IndexedAtKept DEF Books
<1>7. ready.indexed_at = scopes[scope].indexed_at /\ Sound(ready, ids)
  BY <1>5, <1>6, IndexedAtKept DEF Books
<1> HIDE DEF rolled, ids
<1>8. /\ ch \in [DOMAIN reservations -> Nat \cup {NoPeriod}]
      /\ \A i \in late : ch[i] = charged[i]
  BY <1>1, <1>6, ChargeExpiredFacts DEF IInv, HistoryOK
<1>9. History(next_id, reservations, ch, late) /\ DOMAIN ch = DOMAIN reservations
  BY <1>1, <1>8 DEF History
<1>10. counted \in Stats
  BY <1>1, <1>3, <1>6, CountReclaimType DEF IInv, HistoryOK
<1> HIDE DEF ready, ch, counted
<1>11. Books(scope, ready, next_id, reservations, ch, late)
  <2>1. next_id <= next_id
    BY <1>1
  <2>2. QED
    BY <2>1, <1>1, <1>5, <1>8, <1>9, BooksFrame
<1>12. /\ History(next_id, reservations, charged', late')
       /\ \A i \in late : charged'[i] = ch[i]
       /\ late' \ late # {} => Holds(ready, id) /\ late' \ late = {id}
       /\ Books(scope, done, next_id, reservations, charged', late')
  BY <1>2, <1>9, <1>11, BooksSettle
<1>13. Books(scope, after, next_id, reservations, charged', late')
  BY <1>1, <1>12, BooksReclaim
<1>14. done.indexed_at = scopes[scope].indexed_at /\ Sound(done, ids)
  BY <1>7, <1>12, IndexedAtKept DEF Books, ids
<1>15. after.indexed_at = scopes[scope].indexed_at
  BY <1>14, IndexedAtKept
<1>16. stats' \in Stats
  BY <1>1, <1>2, <1>3, <1>10, <1>14, CountReclaimType, CountSettlementType
<1>17. charged' \in [DOMAIN reservations -> Nat \cup {NoPeriod}]
  <2>1. ready.period \in Nat
    BY <1>7 DEF Sound
  <2>2. QED
    BY <2>1, <1>2, <1>8 DEF ChargedBy
<1>18. /\ late' \subseteq DOMAIN reservations /\ (Timeout = "commit" => late' = {})
       /\ free' \in Nat
  <2>1. free' = free
    BY DEF SettleTracked
  <2>2. QED
    BY <1>12, <2>1 DEF History, IInv, HistoryOK
<1>19. HistoryOK'
  BY <1>1, <1>16, <1>17, <1>18 DEF IInv, HistoryOK, Ids
<1> HIDE DEF scope, after, outcome, done
<1>20. Table(scopes', idle_index', next_id, reservations, charged', late')
  <2>1. \A i \in late : charged'[i] = charged[i]
    BY <1>8, <1>12
  <2>2. late \subseteq late'
    BY <1>2 DEF LateBy
  <2>3. \A i \in late' \ late : i \in DOMAIN reservations /\ reservations[i].scope = scope
    BY <1>12 DEF scope
  <2>4. after.indexed_at = IF scope \in DOMAIN scopes THEN scopes[scope].indexed_at
                           ELSE Unindexed
    BY <1>1, <1>15 DEF Tracked
  <2>5. next_id <= next_id
    BY <1>1
  <2>6. QED
    BY <2>1, <2>2, <2>3, <2>4, <2>5, <1>1, <1>2, <1>12, <1>13, TablePut DEF IInv
<1>21. DOMAIN scopes' = DOMAIN scopes
  BY <1>1, <1>2 DEF Put, Tracked
<1>22. QED
  BY <1>1, <1>19, <1>20, <1>21 DEF IInv, Tracked

(* Settlements that touch no scope: of a free call, or of an evicted scope.*)
LEMMA SettleAsideStep ==
  ASSUME IInv, NEW id \in DOMAIN reservations, NEW commit \in BOOLEAN,
         SettleFree(id, commit) \/ SettleUntracked(id),
         UNCHANGED <<next_id, clock, reservations>>
  PROVE  IInv'
<1>1. UNCHANGED <<scopes, idle_index, charged, late, next_id, clock, reservations>>
  BY DEF SettleFree, SettleUntracked, history
<1>2. stats' \in Stats /\ free' \in Nat
  <2>1. /\ stats \in Stats /\ stats.committed + 1 \in Int /\ stats.released + 1 \in Int
        /\ free \in Nat
    BY DEF IInv, HistoryOK, Stats, StatFields
  <2>2. QED
    BY <2>1 DEF SettleFree, SettleUntracked, Stats, history
<1>3. HistoryOK'
  BY <1>1, <1>2 DEF IInv, HistoryOK, Ids
<1>4. QED
  BY <1>1, <1>3 DEF IInv, Tracked

-----------------------------------------------------------------------------
LEMMA Initially == Init => IInv
<1> SUFFICES ASSUME Init PROVE IInv
  OBVIOUS
<1>1. HistoryOK
  BY DEF Init, HistoryOK, Stats, Ids
<1>2. DOMAIN scopes = {}
  BY DEF Init
<1>3. Table(scopes, idle_index, next_id, reservations, charged, late)
  BY <1>2 DEF Init, Table
<1>4. Cardinality(Tracked) <= MaxScopes
  BY <1>2, FS_EmptySet, ScopesAssumption DEF Tracked
<1>5. QED
  BY <1>1, <1>3, <1>4 DEF IInv

(* Every step of the ledger keeps the invariant.                           *)
LEMMA Inductive == IInv /\ [Next]_vars => IInv'
<1> SUFFICES ASSUME IInv, [Next]_vars PROVE IInv'
  OBVIOUS
<1>1. ASSUME UNCHANGED vars PROVE IInv'
  BY <1>1 DEF vars, IInv, HistoryOK, Tracked, Ids
<1>2. ASSUME NEW scope \in Scopes, NEW contribution \in Contributions, NEW now \in Stamps,
             Reserve(scope, contribution, now)
      PROVE  IInv'
  <2>1. CASE RefuseStale(now)
    <3>1. UNCHANGED vars
      BY <2>1 DEF RefuseStale, vars, ledgerVars, history
    <3>2. QED
      BY <3>1, <1>1
  <2>2. CASE RefuseAtCapacity(scope, now)
    <3>1. UNCHANGED vars
      BY <2>2 DEF RefuseAtCapacity, vars, ledgerVars, history
    <3>2. QED
      BY <3>1, <1>1
  <2>3. CASE RefuseBusyVictim(scope, now)
    BY <2>3, BusyVictimStep
  <2>4. CASE AdmitInRoom(scope, contribution, now)
    BY <2>4, AdmitInRoomStep
  <2>5. CASE AdmitEvicting(scope, contribution, now)
    BY <2>5, AdmitEvictingStep
  <2>6. QED
    BY <1>2, <2>1, <2>2, <2>3, <2>4, <2>5 DEF Reserve
<1>3. ASSUME NEW id \in DOMAIN reservations, NEW commit \in BOOLEAN, SettleCall(id, commit)
      PROVE  IInv'
  <2>1. UNCHANGED <<next_id, clock, reservations>>
    BY <1>3 DEF SettleCall
  <2>2. CASE SettleFree(id, commit) \/ SettleUntracked(id)
    BY <2>1, <2>2, SettleAsideStep
  <2>3. CASE SettleTracked(id, commit)
    BY <2>1, <2>3, SettleTrackedStep
  <2>4. QED
    BY <1>3, <2>2, <2>3 DEF SettleCall
<1>4. ASSUME Tick PROVE IInv'
  <2>1. /\ clock' \in Nat
        /\ UNCHANGED <<scopes, idle_index, next_id, stats, reservations,
                       charged, free, late>>
    BY <1>4 DEF Tick, ledgerVars, history, IInv, HistoryOK
  <2>2. HistoryOK'
    BY <2>1 DEF IInv, HistoryOK, Ids
  <2>3. QED
    BY <2>1, <2>2 DEF IInv, Tracked
<1>5. QED
  BY <1>1, <1>2, <1>3, <1>4 DEF Next, Commit, Release

LEMMA InvariantHolds == Spec => []IInv
BY Initially, Inductive, PTL DEF Spec

(* Every variable keeps its type: in particular an id a scope holds was    *)
(* given out before, and an index entry names a time and a scope.          *)
THEOREM TypeCorrect == Spec => []TypeOK
<1>1. IInv => TypeOK
  <2> SUFFICES ASSUME IInv PROVE TypeOK
    OBVIOUS
  <2>1. \A scope \in Tracked : ScopeOK(scopes[scope])
    <3> SUFFICES ASSUME NEW scope \in Tracked PROVE ScopeOK(scopes[scope])
      OBVIOUS
    <3> DEFINE state == scopes[scope]
    <3>1. /\ Sound(state, 1 .. (next_id - 1)) /\ IsFiniteSet(1 .. (next_id - 1))
          /\ state.indexed_at = IdleAt(state)
      BY IdsFinite DEF IInv, HistoryOK, Table, Tracked, Books
    <3>2. state.reserved \in Nat /\ IdleAt(state) \in Nat
      BY <3>1, SoundSums, IdleAtNat
    <3> HIDE DEF state
    <3>3. ScopeOK(state)
      BY <3>1, <3>2 DEF Sound, SoundMaps, ScopeOK, HeldMap, Ids
    <3>4. QED
      BY <3>3 DEF state
  <2>2. idle_index \subseteq Nat \X Scopes
    <3>1. \A scope \in Tracked : IdleAt(scopes[scope]) \in Nat /\ scope \in Scopes
      BY <2>1 DEF IInv, Table, Tracked, ScopeOK
    <3>2. QED
      BY <3>1 DEF IInv, Table, Tracked
  <2>3. QED
    BY <2>1, <2>2 DEF IInv, HistoryOK, Table, Tracked, TypeOK
<1>2. QED
  BY <1>1, InvariantHolds, PTL

(* reserved is exactly the units in flight: no order of reservations,      *)
(* expiries and settlements, repeated ones included, ever makes one of the *)
(* code's saturating subtractions lose units.                              *)
THEOREM ReservedExact == Spec => []ReservedIsActive
<1>1. IInv => ReservedIsActive
  BY DEF IInv, Table, Tracked, Books, Sound, SoundMaps, ReservedIsActive
<1>2. QED
  BY <1>1, InvariantHolds, PTL

(* In block mode a scope never passes its budget, but by calls settled     *)
(* after their hold had expired uncharged.                                 *)
THEOREM BudgetBound == Spec => []BudgetHeld
<1>1. IInv => BudgetHeld
  BY DEF IInv, Table, Tracked, Books, Overshoot, BudgetHeld
<1>2. QED
  BY <1>1, InvariantHolds, PTL

(* The idle index has exactly one entry per tracked scope, at the time its *)
(* state says: what lets evict_one read nothing else.                      *)
THEOREM IndexCorrect == Spec => []IndexExact
<1>1. IInv => IndexExact
  BY DEF IInv, Table, Tracked, IndexExact
<1>2. QED
  BY <1>1, InvariantHolds, PTL

(* The table keeps to its cap on scopes, and a scope to MAX_HELD entries.  *)
THEOREM CapsKept == Spec => []Bounded
<1>1. IInv => Bounded
  BY DEF IInv, Table, Tracked, Books, Sound, Bounded
<1>2. QED
  BY <1>1, InvariantHolds, PTL
-----------------------------------------------------------------------------
(* The counters.  What a table's scopes hold, summed over them.            *)
Sizes(table, field) == [s \in DOMAIN table |-> Cardinality(DOMAIN table[s][field])]

Entries(table, field) == SumFunction(Sizes(table, field))

FiniteTable(table) ==
  /\ IsFiniteSet(DOMAIN table)
  /\ \A s \in DOMAIN table : /\ IsFiniteSet(DOMAIN table[s].active)
                             /\ IsFiniteSet(DOMAIN table[s].reclaimed)

Fields == {"active", "reclaimed"}

(* What a scope holds, tracked or not yet.                                 *)
SizeIn(table, scope, field) ==
  IF scope \in DOMAIN table THEN Cardinality(DOMAIN table[scope][field]) ELSE 0

LEMMA EntriesSum ==
  ASSUME NEW table, FiniteTable(table), NEW field \in Fields
  PROVE  /\ Addends(Sizes(table, field), DOMAIN table)
         /\ Entries(table, field) = SumFunctionOnSet(Sizes(table, field), DOMAIN table)
         /\ Entries(table, field) \in Nat
<1>1. \A s \in DOMAIN table : IsFiniteSet(DOMAIN table[s][field])
  BY DEF FiniteTable, Fields
<1>2. Addends(Sizes(table, field), DOMAIN table)
  BY <1>1, FS_CardinalityType DEF Addends, Sizes, FiniteTable
<1>3. Entries(table, field) = SumFunctionOnSet(Sizes(table, field), DOMAIN table)
  BY DEF Entries, SumFunction, Sizes
<1>4. QED
  BY <1>2, <1>3, SumNat

LEMMA EntriesPut ==
  ASSUME NEW table, FiniteTable(table), NEW scope, NEW state,
         IsFiniteSet(DOMAIN state.active), IsFiniteSet(DOMAIN state.reclaimed)
  PROVE  /\ FiniteTable(Put(table, scope, state))
         /\ \A field \in Fields :
              /\ SizeIn(table, scope, field) \in Nat
              /\ SizeIn(table, scope, field) <= Entries(table, field)
              /\ Entries(Put(table, scope, state), field) =
                   Entries(table, field) - SizeIn(table, scope, field)
                     + Cardinality(DOMAIN state[field])
<1> DEFINE table2 == Put(table, scope, state)
           D == DOMAIN table \cup {scope}
<1>1. /\ DOMAIN table2 = D /\ table2[scope] = state
      /\ \A s \in DOMAIN table \ {scope} : table2[s] = table[s]
  BY DEF Put
<1> HIDE DEF table2
<1>2. FiniteTable(table2)
  BY <1>1, FS_AddElement DEF FiniteTable
<1>3. ASSUME NEW field \in Fields
      PROVE  /\ SizeIn(table, scope, field) \in Nat
             /\ SizeIn(table, scope, field) <= Entries(table, field)
             /\ Entries(table2, field) =
                  Entries(table, field) - SizeIn(table, scope, field)
                    + Cardinality(DOMAIN state[field])
  <2> DEFINE v == Sizes(table, field)
             u == Sizes(table2, field)
             rest == DOMAIN table \ {scope}
             n == Cardinality(DOMAIN state[field])
  <2>1. /\ Addends(v, DOMAIN table) /\ Entries(table, field) = SumFunctionOnSet(v, DOMAIN table)
        /\ Addends(u, D) /\ Entries(table2, field) = SumFunctionOnSet(u, D)
        /\ Entries(table, field) \in Nat
    BY <1>1, <1>2, EntriesSum
  <2>2. /\ u[scope] = n /\ \A s \in rest : u[s] = v[s]
        /\ scope \in DOMAIN table => v[scope] = SizeIn(table, scope, field)
    BY <1>1 DEF Sizes, SizeIn
  <2> HIDE DEF v, u
  <2>3. D = rest \cup {scope} /\ scope \notin rest /\ rest = D \ {scope}
    OBVIOUS
  <2>4. Addends(u, rest \cup {scope}) /\ Addends(v, rest) /\ Addends(u, rest)
    BY <2>1, <2>3, FS_Subset DEF Addends
  <2>5. SumFunctionOnSet(u, D) = n + SumFunctionOnSet(u, rest)
    BY <2>2, <2>3, <2>4, SumAdd
  <2>6. SumFunctionOnSet(u, rest) = SumFunctionOnSet(v, rest)
    BY <2>2, <2>4, SumSame
  <2>7. SumFunctionOnSet(v, rest) \in Nat /\ n \in Nat
    BY <2>1, <2>2, <2>4, SumNat DEF Addends
  <2>8. CASE scope \in DOMAIN table
    <3>1. SumFunctionOnSet(v, DOMAIN table) = v[scope] + SumFunctionOnSet(v, rest)
      BY <2>1, <2>8, SumRemove
    <3>2. v[scope] \in Nat
      BY <2>1, <2>8 DEF Addends
    <3> HIDE DEF n, rest, D
    <3>3. QED
      BY <2>1, <2>2, <2>5, <2>6, <2>7, <2>8, <3>1, <3>2 DEF n
  <2>9. CASE scope \notin DOMAIN table
    <3>1. rest = DOMAIN table /\ SizeIn(table, scope, field) = 0
      BY <2>9 DEF SizeIn
    <3> HIDE DEF n, rest, D
    <3>2. QED
      BY <2>1, <2>5, <2>6, <2>7, <3>1 DEF n
  <2>10. QED
    BY <2>8, <2>9
<1>4. QED
  BY <1>2, <1>3 DEF table2

LEMMA EntriesEvict ==
  ASSUME NEW table, FiniteTable(table), NEW scope \in DOMAIN table
  PROVE  LET less == Restrict(table, DOMAIN table \ {scope})
         IN  /\ FiniteTable(less)
             /\ \A field \in Fields :
                  Entries(less, field) = Entries(table, field) - SizeIn(table, scope, field)
<1> DEFINE less == Restrict(table, DOMAIN table \ {scope})
           rest == DOMAIN table \ {scope}
<1>1. DOMAIN less = rest /\ \A s \in rest : less[s] = table[s]
  BY DEF Restrict
<1> HIDE DEF less
<1>2. FiniteTable(less)
  BY <1>1, FS_RemoveElement DEF FiniteTable
<1>3. ASSUME NEW field \in Fields
      PROVE  Entries(less, field) = Entries(table, field) - SizeIn(table, scope, field)
  <2> DEFINE v == Sizes(table, field)
             u == Sizes(less, field)
  <2>1. /\ Addends(v, DOMAIN table) /\ Entries(table, field) = SumFunctionOnSet(v, DOMAIN table)
        /\ Addends(u, rest) /\ Entries(less, field) = SumFunctionOnSet(u, rest)
        /\ Entries(less, field) \in Nat
    BY <1>1, <1>2, EntriesSum
  <2>2. v[scope] = SizeIn(table, scope, field) /\ \A s \in rest : v[s] = u[s]
    BY <1>1 DEF Sizes, SizeIn
  <2> HIDE DEF v, u
  <2>3. SumFunctionOnSet(v, DOMAIN table) = v[scope] + SumFunctionOnSet(v, rest)
    BY <2>1, SumRemove
  <2>4. SumFunctionOnSet(v, rest) = SumFunctionOnSet(u, rest) /\ v[scope] \in Nat
    BY <2>1, <2>2, SumSame DEF Addends
  <2>5. QED
    BY <2>1, <2>2, <2>3, <2>4
<1>4. QED
  BY <1>2, <1>3 DEF less

(* The counters against the table: the holds in flight, and where deadlines*)
(* release the tombstones, where they charge the charges.                  *)
Unsettled(st) == st.expired - st.late_committed - st.late_released - st.abandoned

Given(st) == st.active + st.committed + st.released + st.expired

Tally(table, st) ==
  /\ st \in Stats
  /\ st.active = Entries(table, "active")
  /\ Timeout = "release" => Unsettled(st) = Entries(table, "reclaimed")
  /\ Timeout = "commit" => st.expired = st.provisional_charged

LEMMA StatsInts ==
  ASSUME NEW st \in Stats
  PROVE  /\ st.active \in Int /\ st.committed \in Int /\ st.released \in Int
         /\ st.expired \in Int /\ st.late_committed \in Int /\ st.late_released \in Int
         /\ st.provisional_charged \in Int /\ st.provisional_refunded \in Int
         /\ st.abandoned \in Int /\ DOMAIN st = StatFields
BY DEF Stats, StatFields

(* A change of one scope, and the same change of the counters.             *)
LEMMA TallyPut ==
  ASSUME NEW table, FiniteTable(table), NEW st, Tally(table, st), NEW st2 \in Stats,
         NEW scope, NEW state,
         IsFiniteSet(DOMAIN state.active), IsFiniteSet(DOMAIN state.reclaimed),
         st2.active - st.active =
           Cardinality(DOMAIN state.active) - SizeIn(table, scope, "active"),
         Timeout = "release" =>
           Unsettled(st2) - Unsettled(st) =
             Cardinality(DOMAIN state.reclaimed) - SizeIn(table, scope, "reclaimed"),
         Timeout = "commit" =>
           st2.expired - st2.provisional_charged = st.expired - st.provisional_charged
  PROVE  Tally(Put(table, scope, state), st2) /\ FiniteTable(Put(table, scope, state))
<1> DEFINE a == Cardinality(DOMAIN state.active)
           r == Cardinality(DOMAIN state.reclaimed)
           a0 == SizeIn(table, scope, "active")
           r0 == SizeIn(table, scope, "reclaimed")
           table2 == Put(table, scope, state)
<1>1. "active" \in Fields /\ "reclaimed" \in Fields
  BY DEF Fields
<1>2. /\ FiniteTable(table2) /\ a0 \in Nat /\ r0 \in Nat
      /\ Entries(table2, "active") = Entries(table, "active") - a0 + a
      /\ Entries(table2, "reclaimed") = Entries(table, "reclaimed") - r0 + r
  BY <1>1, EntriesPut
<1>3. Entries(table, "active") \in Nat /\ Entries(table, "reclaimed") \in Nat
  BY <1>1, EntriesSum
<1>4. a \in Nat /\ r \in Nat
  BY FS_CardinalityType
<1> HIDE DEF a, r, a0, r0, table2
<1>5. /\ st2.active - st.active = a - a0
      /\ Timeout = "release" => Unsettled(st2) - Unsettled(st) = r - r0
  BY DEF a, r, a0, r0
<1>6. Unsettled(st) \in Int /\ Unsettled(st2) \in Int
  BY StatsInts DEF Tally, Unsettled
<1>7. Tally(table2, st2)
  BY <1>2, <1>3, <1>4, <1>5, <1>6, StatsInts DEF Tally
<1>8. QED
  BY <1>2, <1>7 DEF table2

(* What a touch takes off a scope, and what it counts.                     *)
LEMMA TouchSizes ==
  ASSUME NEW ids, IsFiniteSet(ids), NEW state, Sound(state, ids), NEW now \in Nat
  PROVE  LET rolled == Roll(state, Period(now))
             e == Cardinality(Expired(rolled, now))
             gone == Abandoned(rolled, now)
             after == Touch(state, now)
         IN  /\ e \in Nat /\ gone \in Int
             /\ IsFiniteSet(DOMAIN after.active) /\ IsFiniteSet(DOMAIN after.reclaimed)
             /\ e <= Cardinality(DOMAIN state.active)
             /\ Cardinality(DOMAIN after.active) = Cardinality(DOMAIN state.active) - e
             /\ Cardinality(DOMAIN after.reclaimed) =
                  Cardinality(DOMAIN state.reclaimed) + e - gone
<1> DEFINE rolled == Roll(state, Period(now))
           E == Expired(rolled, now)
           A == DOMAIN state.active
           R == DOMAIN state.reclaimed
           after == Touch(state, now)
<1>1. Sound(rolled, ids) /\ rolled.active = state.active /\ rolled.reclaimed = state.reclaimed
  BY PeriodNat, RollSound DEF Roll, Sound
<1>2. /\ Sound(after, ids) /\ after = Reclaim(rolled, now)
  BY <1>1, ReclaimSound DEF Touch
<1>3. /\ E \subseteq A /\ DOMAIN after.active = A \ E /\ A \cap R = {}
  <2> HIDE DEF rolled, after
  <2>1. E \subseteq DOMAIN rolled.active /\ DOMAIN after.active = DOMAIN rolled.active \ E
    BY <1>1, <1>2, ReclaimEntries
  <2>2. A \cap R = {}
    BY DEF Sound, SoundMaps
  <2>3. QED
    BY <1>1, <2>1, <2>2
<1>4. /\ IsFiniteSet(A) /\ IsFiniteSet(R)
      /\ IsFiniteSet(DOMAIN after.active) /\ IsFiniteSet(DOMAIN after.reclaimed)
  BY <1>2, SoundSums
<1> HIDE DEF rolled, E, A, R, after
<1>5. /\ IsFiniteSet(E) /\ Cardinality(E) \in Nat /\ Cardinality(E) <= Cardinality(A)
      /\ Cardinality(A) \in Nat /\ Cardinality(R) \in Nat
      /\ Cardinality(DOMAIN after.reclaimed) \in Nat
  BY <1>3, <1>4, FS_Subset, FS_CardinalityType
<1>6. Cardinality(A \ E) = Cardinality(A) - Cardinality(E)
  <2>1. Cardinality(A \ E) = Cardinality(A) - Cardinality(A \cap E)
    BY <1>4, <1>5, FS_Difference
  <2>2. A \cap E = E
    BY <1>3
  <2>3. QED
    BY <2>1, <2>2
<1>7. Cardinality(R \cup E) = Cardinality(R) + Cardinality(E)
  <2>1. Cardinality(R \cap E) = 0
    BY <1>3, FS_EmptySet
  <2>2. Cardinality(R \cup E) = Cardinality(R) + Cardinality(E) - Cardinality(R \cap E)
    BY <1>4, <1>5, FS_Union
  <2>3. QED
    BY <2>1, <2>2, <1>5
<1>8. Abandoned(rolled, now) = Cardinality(R \cup E) - Cardinality(DOMAIN after.reclaimed)
  BY <1>1, <1>2 DEF Abandoned, R, E
<1>9. QED
  BY <1>3, <1>4, <1>5, <1>6, <1>7, <1>8 DEF rolled, E, A, R, after

LEMMA CountReclaimIs ==
  ASSUME NEW st \in Stats, NEW ids, IsFiniteSet(ids), NEW state, Sound(state, ids),
         NEW now \in Nat
  PROVE  LET counted == CountReclaim(st, state, now)
             rolled == Roll(state, Period(now))
             e == Cardinality(Expired(rolled, now))
         IN  /\ counted \in Stats
             /\ counted.active = SatSub(st.active, e)
             /\ counted.expired = st.expired + e
             /\ Unsettled(counted) = Unsettled(st) + e - Abandoned(rolled, now)
             /\ Timeout = "commit" =>
                  counted.provisional_charged = st.provisional_charged + e
             /\ counted.committed = st.committed /\ counted.released = st.released
<1> DEFINE rolled == Roll(state, Period(now))
           e == Cardinality(Expired(rolled, now))
           gone == Abandoned(rolled, now)
           counted == CountReclaim(st, state, now)
<1>1. counted \in Stats /\ e \in Nat /\ gone \in Int
  BY CountReclaimType, TouchSizes
<1>2. counted = [st EXCEPT !.active = SatSub(@, e), !.expired = @ + e,
                           !.provisional_charged = @ + (IF Timeout = "commit" THEN e ELSE 0),
                           !.abandoned = @ + gone]
  BY DEF CountReclaim
<1> HIDE DEF e, gone, rolled, counted
<1>3. /\ counted.active = SatSub(st.active, e)
      /\ counted.expired = st.expired + e
      /\ counted.provisional_charged =
           st.provisional_charged + (IF Timeout = "commit" THEN e ELSE 0)
      /\ counted.abandoned = st.abandoned + gone
      /\ counted.committed = st.committed /\ counted.released = st.released
      /\ counted.late_committed = st.late_committed
      /\ counted.late_released = st.late_released
  BY <1>2, StatsInts DEF StatFields
<1>4. Unsettled(counted) = Unsettled(st) + e - gone
  BY <1>1, <1>3, StatsInts DEF Unsettled
<1>5. QED
  BY <1>1, <1>3, <1>4 DEF e, gone, rolled, counted

(* A scope touched and put back, or tracked for the first time: what the   *)
(* reclaim counts is what it moved, and no counter saturates.              *)
LEMMA TallyTouch ==
  ASSUME NEW table, FiniteTable(table), NEW st, Tally(table, st), NEW scope,
         NEW ids, IsFiniteSet(ids), NEW before, Sound(before, ids), NEW now \in Nat,
         \A field \in Fields : Cardinality(DOMAIN before[field]) = SizeIn(table, scope, field)
  PROVE  LET counted == CountReclaim(st, before, now)
             touched == Touch(before, now)
         IN  /\ Given(counted) = Given(st)
             /\ \A state : state.active = touched.active /\ state.reclaimed = touched.reclaimed =>
                  /\ Tally(Put(table, scope, state), counted)
                  /\ FiniteTable(Put(table, scope, state))
<1> DEFINE counted == CountReclaim(st, before, now)
           touched == Touch(before, now)
           rolled == Roll(before, Period(now))
           e == Cardinality(Expired(rolled, now))
           gone == Abandoned(rolled, now)
           a0 == SizeIn(table, scope, "active")
           r0 == SizeIn(table, scope, "reclaimed")
<1>1. "active" \in Fields /\ "reclaimed" \in Fields /\ st \in Stats
  BY DEF Fields, Tally
<1>2. Cardinality(DOMAIN before.active) = a0 /\ Cardinality(DOMAIN before.reclaimed) = r0
  <2>1. /\ Cardinality(DOMAIN before["active"]) = SizeIn(table, scope, "active")
        /\ Cardinality(DOMAIN before["reclaimed"]) = SizeIn(table, scope, "reclaimed")
    BY <1>1
  <2>2. QED
    BY <2>1
<1>3. /\ e \in Nat /\ gone \in Int /\ e <= a0
      /\ IsFiniteSet(DOMAIN touched.active) /\ IsFiniteSet(DOMAIN touched.reclaimed)
      /\ Cardinality(DOMAIN touched.active) = a0 - e
      /\ Cardinality(DOMAIN touched.reclaimed) = r0 + e - gone
  BY <1>2, TouchSizes
<1>4. /\ counted \in Stats
      /\ counted.active = SatSub(st.active, e)
      /\ counted.expired = st.expired + e
      /\ Unsettled(counted) = Unsettled(st) + e - gone
      /\ Timeout = "commit" => counted.provisional_charged = st.provisional_charged + e
      /\ counted.committed = st.committed /\ counted.released = st.released
  BY <1>1, CountReclaimIs
<1>5. a0 \in Nat /\ r0 \in Nat /\ a0 <= st.active
  <2>1. IsFiniteSet(DOMAIN touched.active) /\ IsFiniteSet(DOMAIN touched.reclaimed)
    BY <1>3
  <2>2. a0 \in Nat /\ r0 \in Nat /\ a0 <= Entries(table, "active")
    BY <1>1, <2>1, EntriesPut
  <2>3. QED
    BY <2>2 DEF Tally
<1> HIDE DEF counted, touched, e, gone, a0, r0, rolled
<1>6. /\ st.active \in Int /\ st.expired \in Int /\ st.committed \in Int /\ st.released \in Int
      /\ st.provisional_charged \in Int /\ Unsettled(st) \in Int
  BY <1>1, StatsInts DEF Unsettled
<1>7. counted.active = st.active - e
  BY <1>3, <1>4, <1>5, <1>6 DEF SatSub
<1>8. Given(counted) = Given(st)
  BY <1>3, <1>4, <1>6, <1>7 DEF Given
<1>9. ASSUME NEW state, state.active = touched.active, state.reclaimed = touched.reclaimed
      PROVE  /\ Tally(Put(table, scope, state), counted)
             /\ FiniteTable(Put(table, scope, state))
  <2>1. counted.active - st.active = Cardinality(DOMAIN state.active) - a0
    BY <1>3, <1>5, <1>6, <1>7, <1>9
  <2>2. Unsettled(counted) - Unsettled(st) = Cardinality(DOMAIN state.reclaimed) - r0
    BY <1>3, <1>4, <1>5, <1>6, <1>9
  <2>3. Timeout = "commit" => counted.expired - counted.provisional_charged
                                = st.expired - st.provisional_charged
    BY <1>3, <1>4, <1>6
  <2>4. IsFiniteSet(DOMAIN state.active) /\ IsFiniteSet(DOMAIN state.reclaimed)
    BY <1>3, <1>9
  <2>5. QED
    BY <2>1, <2>2, <2>3, <2>4, <1>4, TallyPut DEF a0, r0
<1>10. QED
  BY <1>8, <1>9 DEF counted, touched

(* An idle scope is evicted: it has nothing left to count.                 *)
LEMMA TallyEvict ==
  ASSUME NEW table, FiniteTable(table), NEW st, Tally(table, st), NEW scope \in DOMAIN table,
         NEW ids, IsFiniteSet(ids), Sound(table[scope], ids), NEW now \in Nat,
         IsIdle(Touch(table[scope], now))
  PROVE  LET counted == CountReclaim(st, table[scope], now)
             less == Restrict(table, DOMAIN table \ {scope})
         IN  Given(counted) = Given(st) /\ Tally(less, counted) /\ FiniteTable(less)
<1> DEFINE counted == CountReclaim(st, table[scope], now)
           touched == Touch(table[scope], now)
           put == Put(table, scope, touched)
           less == Restrict(table, DOMAIN table \ {scope})
<1>1. \A field \in Fields :
        Cardinality(DOMAIN table[scope][field]) = SizeIn(table, scope, field)
  BY DEF SizeIn
<1>2. Given(counted) = Given(st) /\ Tally(put, counted) /\ FiniteTable(put)
  BY <1>1, TallyTouch
<1>3. less = Restrict(put, DOMAIN put \ {scope}) /\ DOMAIN put = DOMAIN table
      /\ put[scope] = touched
  BY DEF Restrict, Put
<1>4. "active" \in Fields /\ "reclaimed" \in Fields
  BY DEF Fields
<1>5. SizeIn(put, scope, "active") = 0 /\ SizeIn(put, scope, "reclaimed") = 0
  BY <1>3, FS_EmptySet DEF SizeIn, IsIdle
<1> HIDE DEF counted, touched, put, less
<1>6. /\ FiniteTable(less)
      /\ Entries(less, "active") = Entries(put, "active") - SizeIn(put, scope, "active")
      /\ Entries(less, "reclaimed") = Entries(put, "reclaimed") - SizeIn(put, scope, "reclaimed")
  BY <1>2, <1>3, <1>4, EntriesEvict
<1>7. Entries(put, "active") \in Nat /\ Entries(put, "reclaimed") \in Nat
  BY <1>2, <1>4, EntriesSum
<1>8. Entries(less, "active") = Entries(put, "active")
      /\ Entries(less, "reclaimed") = Entries(put, "reclaimed")
  BY <1>5, <1>6, <1>7
<1>9. Tally(less, counted)
  BY <1>2, <1>8 DEF Tally
<1>10. QED
  BY <1>2, <1>6, <1>9 DEF counted, less

LEMMA TableFinite ==
  ASSUME NEW table, NEW index, NEW n \in Nat, NEW res, NEW ch, NEW lt,
         Table(table, index, n, res, ch, lt)
  PROVE  /\ FiniteTable(table)
         /\ \A s \in DOMAIN table : Sound(table[s], 1 .. (n - 1))
         /\ IsFiniteSet(1 .. (n - 1))
<1>1. IsFiniteSet(DOMAIN table)
  BY ScopesAssumption, FS_Subset DEF Table
<1>2. \A s \in DOMAIN table : Sound(table[s], 1 .. (n - 1))
  BY DEF Table, Books
<1>3. IsFiniteSet(1 .. (n - 1))
  BY IdsFinite
<1>4. \A s \in DOMAIN table : /\ IsFiniteSet(DOMAIN table[s].active)
                              /\ IsFiniteSet(DOMAIN table[s].reclaimed)
  BY <1>2, <1>3, SoundSums
<1>5. QED
  BY <1>1, <1>2, <1>3, <1>4 DEF FiniteTable

-----------------------------------------------------------------------------
(* The reservations the counters tell apart, all that hold units, and how  *)
(* often one of zero was settled.                                          *)
Nonzero(res) == {id \in DOMAIN res : res[id].contribution > 0}

Balance(res, done) == Cardinality(Nonzero(res)) + done

LEMMA BalancePut ==
  ASSUME NEW res, IsFiniteSet(DOMAIN res), NEW done \in Nat, NEW id,
         id \notin DOMAIN res, NEW r, r.contribution \in Nat
  PROVE  /\ r.contribution = 0 => Balance(Put(res, id, r), done) = Balance(res, done)
         /\ r.contribution > 0 => Balance(Put(res, id, r), done) = Balance(res, done) + 1
<1> DEFINE res2 == Put(res, id, r)
           N == Nonzero(res)
<1>1. /\ DOMAIN res2 = DOMAIN res \cup {id} /\ res2[id] = r
      /\ \A i \in DOMAIN res : res2[i] = res[i]
  BY DEF Put
<1> HIDE DEF res2
<1>2. Nonzero(res2) = IF r.contribution > 0 THEN N \cup {id} ELSE N
  BY <1>1 DEF Nonzero
<1>3. N \subseteq DOMAIN res /\ id \notin N
  BY DEF Nonzero
<1>4. IsFiniteSet(N)
  BY <1>3, FS_Subset
<1> HIDE DEF N
<1>5. Cardinality(N) \in Nat /\ Cardinality(N \cup {id}) = Cardinality(N) + 1
  BY <1>3, <1>4, FS_CardinalityType, FS_AddElement
<1>6. QED
  BY <1>2, <1>5 DEF Balance, N, res2

(* A new hold is one more entry in flight.                                 *)
LEMMA HoldSizes ==
  ASSUME NEW ids, IsFiniteSet(ids), NEW state, Sound(state, ids), NEW id, id \notin ids,
         NEW c \in Nat, NEW now
  PROVE  LET after == Hold(state, id, c, now)
         IN  /\ c = 0 => after = state
             /\ c > 0 => /\ Cardinality(DOMAIN after.active) =
                              Cardinality(DOMAIN state.active) + 1
                         /\ after.reclaimed = state.reclaimed
                         /\ IsFiniteSet(DOMAIN after.active)
<1> DEFINE after == Hold(state, id, c, now)
<1>1. CASE c = 0
  BY <1>1 DEF Hold
<1>2. CASE c > 0
  <2>1. DOMAIN after.active = DOMAIN state.active \cup {id}
        /\ after.reclaimed = state.reclaimed
    BY <1>2 DEF Hold, Sound
  <2>2. id \notin DOMAIN state.active /\ IsFiniteSet(DOMAIN state.active)
    BY SoundSums DEF Sound, SoundMaps
  <2> HIDE DEF after
  <2>3. QED
    BY <1>2, <2>1, <2>2, FS_AddElement DEF after
<1>3. QED
  BY <1>1, <1>2

-----------------------------------------------------------------------------
(* The counters agree with the table and with the reservations.            *)
Counted(table, st, res, done) ==
  Tally(table, st) /\ Given(st) = Balance(res, done)

LEMMA ReservationsFinite ==
  ASSUME HistoryOK
  PROVE  /\ IsFiniteSet(DOMAIN reservations) /\ free \in Nat
         /\ \A id \in DOMAIN reservations : reservations[id].contribution \in Nat
<1>1. IsFiniteSet(1 .. (next_id - 1))
  BY IdsFinite DEF HistoryOK
<1>2. IsFiniteSet(DOMAIN reservations)
  BY <1>1, FS_Subset DEF HistoryOK, Ids
<1>3. QED
  BY <1>2, HistoryTypes DEF HistoryOK, History

LEMMA AdmittedCounted ==
  ASSUME HistoryOK,
         NEW table, NEW index, Table(table, index, next_id, reservations, charged, late),
         NEW counters, Counted(table, counters, reservations, free),
         NEW scope \in Scopes, NEW contribution \in Contributions, NEW now \in Nat,
         Admitted(scope, contribution, now, table, index, counters), free' = free
  PROVE  Counted(scopes', stats', reservations', free')
<1> DEFINE before  == IF scope \in DOMAIN table THEN table[scope] ELSE AtPeriod(0)
           touched == Touch(before, now)
           over    == Mode = "block" /\ OverBudget(touched, contribution, Budget)
           full    == contribution > 0 /\ Saturated(touched)
           after   == IF over \/ full THEN touched ELSE Hold(touched, next_id, contribution, now)
           ids     == 1 .. (next_id - 1)
           r       == [scope |-> scope, contribution |-> contribution,
                       created_at |-> now, expires_at |-> SatAdd(now, Ttl)]
           counted == CountReclaim(counters, before, now)
           put     == Put(table, scope, touched)
<1>1. /\ scopes' = Put(table, scope, Reindexed(after))
      /\ stats' = IF over \/ full \/ contribution = 0 THEN counted
                  ELSE [counted EXCEPT !.active = @ + 1]
      /\ reservations' = IF over \/ full THEN reservations ELSE Put(reservations, next_id, r)
  BY DEF Admitted
<1>2. /\ contribution \in Nat /\ r.contribution = contribution
      /\ next_id \in Nat \ {0} /\ next_id \notin DOMAIN reservations /\ next_id \notin ids
  BY ContributionsAssumption, WidthAssumption, HistoryTypes DEF HistoryOK
<1>3. FiniteTable(table) /\ IsFiniteSet(ids)
  BY <1>2, TableFinite
<1>4. Sound(before, ids)
  <2>1. CASE scope \in DOMAIN table
    BY <1>2, <2>1, TableFinite
  <2>2. CASE scope \notin DOMAIN table
    <3>1. Books(scope, AtPeriod(0), next_id, reservations, charged, late)
      BY HistoryTypes, BooksNew
    <3>2. QED
      BY <2>2, <3>1 DEF Books
  <2>3. QED
    BY <2>1, <2>2
<1>5. \A field \in Fields : Cardinality(DOMAIN before[field]) = SizeIn(table, scope, field)
  <2>1. CASE scope \in DOMAIN table
    BY <2>1 DEF SizeIn
  <2>2. CASE scope \notin DOMAIN table
    <3>1. DOMAIN before.active = {} /\ DOMAIN before.reclaimed = {}
      BY <2>2 DEF AtPeriod
    <3>2. Cardinality(DOMAIN before["active"]) = 0 /\ Cardinality(DOMAIN before["reclaimed"]) = 0
      BY <3>1, FS_EmptySet
    <3> HIDE DEF before
    <3>3. QED
      BY <2>2, <3>2 DEF SizeIn, Fields
  <2>3. QED
    BY <2>1, <2>2
<1>6. Sound(touched, ids)
  <2>1. Sound(Roll(before, Period(now)), ids)
    BY <1>4, PeriodNat, RollSound
  <2>2. QED
    BY <1>3, <2>1, ReclaimSound DEF Touch
<1> HIDE DEF before, ids
<1>7. /\ Given(counted) = Given(counters)
      /\ \A state : state.active = touched.active /\ state.reclaimed = touched.reclaimed =>
           /\ Tally(Put(table, scope, state), counted)
           /\ FiniteTable(Put(table, scope, state))
  BY <1>3, <1>4, <1>5, TallyTouch DEF Counted
<1> HIDE DEF counted, touched
<1>8. \A state : Sound(state, ids) =>
        Reindexed(state).active = state.active /\ Reindexed(state).reclaimed = state.reclaimed
  BY DEF Reindexed, Sound
<1>9. CASE over \/ full
  <2>1. /\ scopes' = Put(table, scope, Reindexed(touched)) /\ stats' = counted
        /\ reservations' = reservations
    BY <1>1, <1>9
  <2>2. Tally(scopes', stats')
    BY <1>6, <1>7, <1>8, <2>1
  <2>3. QED
    BY <1>7, <2>1, <2>2 DEF Counted
<1>10. CASE ~(over \/ full)
  <2>1. /\ scopes' = Put(table, scope, Reindexed(after))
        /\ after = Hold(touched, next_id, contribution, now)
        /\ stats' = IF contribution = 0 THEN counted ELSE [counted EXCEPT !.active = @ + 1]
        /\ reservations' = Put(reservations, next_id, r)
    BY <1>1, <1>10
  <2>2. /\ contribution = 0 => Balance(reservations', free) = Balance(reservations, free)
        /\ contribution > 0 => Balance(reservations', free) = Balance(reservations, free) + 1
    BY <1>2, <2>1, ReservationsFinite, BalancePut
  <2>3. CASE contribution = 0
    <3>1. after = touched /\ stats' = counted
      BY <2>1, <2>3 DEF Hold
    <3>2. Tally(scopes', stats')
      BY <1>6, <1>7, <1>8, <2>1, <3>1
    <3>3. QED
      BY <1>7, <2>2, <2>3, <3>1, <3>2 DEF Counted
  <2>4. CASE contribution > 0
    <3> DEFINE state == Reindexed(after)
    <3>1. stats' = [counted EXCEPT !.active = @ + 1]
      BY <2>1, <2>4
    <3>2. /\ Cardinality(DOMAIN after.active) = Cardinality(DOMAIN touched.active) + 1
          /\ after.reclaimed = touched.reclaimed /\ IsFiniteSet(DOMAIN after.active)
      BY <1>2, <1>3, <1>6, <2>1, <2>4, HoldSizes
    <3>3. state.active = after.active /\ state.reclaimed = after.reclaimed
      <4>1. DOMAIN after = {"period", "committed", "reserved", "active", "reclaimed", "indexed_at"}
        BY <1>6, <2>1 DEF Hold, Sound
      <4>2. QED
        BY <4>1 DEF Reindexed
    <3>4. Tally(put, counted) /\ FiniteTable(put)
      BY <1>7
    <3>5. /\ SizeIn(put, scope, "active") = Cardinality(DOMAIN touched.active)
          /\ SizeIn(put, scope, "reclaimed") = Cardinality(DOMAIN touched.reclaimed)
      BY DEF SizeIn, Put
    <3>6. /\ IsFiniteSet(DOMAIN touched.active) /\ IsFiniteSet(DOMAIN touched.reclaimed)
          /\ Cardinality(DOMAIN touched.active) \in Nat
          /\ Cardinality(DOMAIN touched.reclaimed) \in Nat
      BY <1>3, <1>6, SoundSums, FS_CardinalityType
    <3>7. scopes' = Put(put, scope, state)
      BY <2>1 DEF Put
    <3> HIDE DEF state, put, after
    <3>8. counted \in Stats
      BY <3>4 DEF Tally
    <3>9. /\ stats' \in Stats /\ stats'.active = counted.active + 1
          /\ Unsettled(stats') = Unsettled(counted) /\ Given(stats') = Given(counted) + 1
          /\ stats'.expired = counted.expired
          /\ stats'.provisional_charged = counted.provisional_charged
      <4>1. /\ stats'.active = counted.active + 1 /\ DOMAIN stats' = DOMAIN counted
            /\ \A field \in StatFields \ {"active"} : stats'[field] = counted[field]
        BY <3>1, <3>8, StatsInts DEF StatFields
      <4>2. /\ stats'.committed = counted.committed /\ stats'.released = counted.released
            /\ stats'.expired = counted.expired /\ stats'.abandoned = counted.abandoned
            /\ stats'.late_committed = counted.late_committed
            /\ stats'.late_released = counted.late_released
            /\ stats'.provisional_charged = counted.provisional_charged
        BY <4>1 DEF StatFields
      <4>3. stats' \in Stats
        <5>1. counted.active + 1 \in Int
          BY <3>8, StatsInts
        <5>2. QED
          BY <3>1, <3>8, <5>1 DEF Stats
      <4>4. QED
        BY <3>8, <4>1, <4>2, <4>3, StatsInts DEF Unsettled, Given
    <3>10. Tally(Put(put, scope, state), stats')
      <4>1. stats'.active - counted.active =
              Cardinality(DOMAIN state.active) - SizeIn(put, scope, "active")
        BY <3>2, <3>3, <3>5, <3>6, <3>8, <3>9, StatsInts
      <4>2. Unsettled(stats') - Unsettled(counted) =
              Cardinality(DOMAIN state.reclaimed) - SizeIn(put, scope, "reclaimed")
        <5>1. Unsettled(counted) \in Int
          BY <3>8, StatsInts DEF Unsettled
        <5>2. QED
          BY <3>2, <3>3, <3>5, <3>6, <3>9, <5>1
      <4>3. IsFiniteSet(DOMAIN state.active) /\ IsFiniteSet(DOMAIN state.reclaimed)
        BY <3>2, <3>3, <3>6
      <4>4. QED
        BY <3>4, <3>9, <4>1, <4>2, <4>3, TallyPut
    <3>11. QED
      BY <1>7, <2>2, <2>4, <3>7, <3>9, <3>10 DEF Counted
  <2>5. QED
    BY <1>2, <2>3, <2>4
<1>11. QED
  BY <1>9, <1>10

LEMMA BusyVictimCounted ==
  ASSUME IInv, Counted(scopes, stats, reservations, free),
         NEW scope \in Scopes, NEW now \in Stamps, RefuseBusyVictim(scope, now)
  PROVE  Counted(scopes', stats', reservations', free')
<1>1. /\ now \in Nat /\ next_id \in Nat /\ reservations' = reservations /\ free' = free
  BY DEF IInv, HistoryOK, Stamps, RefuseBusyVictim
<1>2. PICK entry \in Victims(now) :
        LET victim == entry[2]
            touched == Touch(scopes[victim], now)
        IN  /\ scopes' = [scopes EXCEPT ![victim] = Reindexed(touched)]
            /\ stats' = CountReclaim(stats, scopes[victim], now)
  BY DEF RefuseBusyVictim
<1> DEFINE victim == entry[2]
           touched == Touch(scopes[victim], now)
           ids == 1 .. (next_id - 1)
<1>3. victim \in DOMAIN scopes
  <2>1. entry \in idle_index
    BY DEF Victims, First
  <2>2. QED
    BY <2>1, TableEvict DEF IInv, Table, Tracked
<1>4. FiniteTable(scopes) /\ Sound(scopes[victim], ids) /\ IsFiniteSet(ids)
  BY <1>1, <1>3, TableFinite DEF IInv
<1>5. /\ scopes' = Put(scopes, victim, Reindexed(touched))
      /\ stats' = CountReclaim(stats, scopes[victim], now)
  BY <1>2, <1>3, ExceptIsPut
<1>6. \A field \in Fields :
        Cardinality(DOMAIN scopes[victim][field]) = SizeIn(scopes, victim, field)
  BY <1>3 DEF SizeIn
<1>7. Reindexed(touched).active = touched.active /\ Reindexed(touched).reclaimed = touched.reclaimed
  <2>1. Sound(Roll(scopes[victim], Period(now)), ids)
    BY <1>1, <1>4, PeriodNat, RollSound
  <2>2. Sound(touched, ids)
    BY <1>1, <1>4, <2>1, ReclaimSound DEF Touch
  <2> HIDE DEF touched
  <2>3. QED
    BY <2>2 DEF Reindexed, Sound
<1> HIDE DEF victim, ids
<1>8. Given(stats') = Given(stats) /\ Tally(scopes', stats')
  BY <1>1, <1>4, <1>5, <1>6, <1>7, TallyTouch DEF Counted
<1>9. QED
  BY <1>1, <1>8 DEF Counted

LEMMA EvictingCounted ==
  ASSUME IInv, Counted(scopes, stats, reservations, free),
         NEW scope \in Scopes, NEW contribution \in Contributions,
         NEW now \in Stamps, AdmitEvicting(scope, contribution, now)
  PROVE  Counted(scopes', stats', reservations', free')
<1>1. now \in Nat /\ next_id \in Nat
  BY DEF IInv, HistoryOK, Stamps
<1>2. PICK entry \in Victims(now) :
        /\ IsIdle(Touch(scopes[entry[2]], now))
        /\ Admitted(scope, contribution, now,
                    Restrict(scopes, Tracked \ {entry[2]}), idle_index \ {entry},
                    CountReclaim(stats, scopes[entry[2]], now))
  BY DEF AdmitEvicting
<1> DEFINE victim == entry[2]
           table == Restrict(scopes, DOMAIN scopes \ {victim})
           index == idle_index \ {entry}
           counters == CountReclaim(stats, scopes[victim], now)
<1>3. /\ victim \in DOMAIN scopes
      /\ Table(table, index, next_id, reservations, charged, late)
  <2>1. entry \in idle_index
    BY DEF Victims, First
  <2>2. QED
    BY <2>1, TableEvict DEF IInv, Tracked
<1>4. FiniteTable(scopes) /\ Sound(scopes[victim], 1 .. (next_id - 1))
      /\ IsFiniteSet(1 .. (next_id - 1))
  BY <1>1, <1>3, TableFinite DEF IInv
<1>5. Given(counters) = Given(stats) /\ Tally(table, counters)
  BY <1>1, <1>2, <1>3, <1>4, TallyEvict DEF Counted
<1>6. Counted(table, counters, reservations, free)
  BY <1>5 DEF Counted
<1>7. Admitted(scope, contribution, now, table, index, counters) /\ free' = free
  BY <1>2 DEF Tracked, AdmitEvicting
<1> HIDE DEF table, index, counters
<1>8. QED
  BY <1>1, <1>3, <1>6, <1>7, AdmittedCounted DEF IInv

(* What a settlement counts agrees with what it takes off its scope.       *)
LEMMA SettleSizes ==
  ASSUME NEW ids, IsFiniteSet(ids), NEW state, Sound(state, ids), NEW id,
         NEW commit \in BOOLEAN, NEW st \in Stats, NEW now \in Nat, state.period >= Period(now),
         Cardinality(DOMAIN state.active) <= st.active
  PROVE  LET done == Settle(state, id, commit)
             after == Reclaim(done, now)
             st2 == CountSettlement(CountReclaim(st, done, now), Outcome(state, id, commit))
         IN  /\ IsFiniteSet(DOMAIN after.active) /\ IsFiniteSet(DOMAIN after.reclaimed)
             /\ st2 \in Stats /\ Given(st2) = Given(st)
             /\ st2.active - st.active =
                  Cardinality(DOMAIN after.active) - Cardinality(DOMAIN state.active)
             /\ Timeout = "release" =>
                  Unsettled(st2) - Unsettled(st) =
                    Cardinality(DOMAIN after.reclaimed) - Cardinality(DOMAIN state.reclaimed)
             /\ Timeout = "commit" =>
                  st2.expired - st2.provisional_charged = st.expired - st.provisional_charged
<1> DEFINE done == Settle(state, id, commit)
           after == Reclaim(done, now)
           outcome == Outcome(state, id, commit)
           counted == CountReclaim(st, done, now)
           st2 == CountSettlement(counted, outcome)
           e == Cardinality(Expired(done, now))
           gone == Abandoned(done, now)
           A == DOMAIN state.active
           R == DOMAIN state.reclaimed
           a == Cardinality(A)
           r == Cardinality(R)
           onTime == outcome \in {"committed", "released"}
           tardy == outcome \in {"late-committed", "late-released"}
<1>1. /\ Sound(done, ids) /\ done.period = state.period
      /\ DOMAIN done.active = A \ {id} /\ DOMAIN done.reclaimed = R \ {id}
  BY SettleSound, SettleEntries
<1>2. Period(now) \in Nat /\ state.period \in Nat
  BY PeriodNat DEF Sound
<1>3. Roll(done, Period(now)) = done
  <2>1. ~(Period(now) > done.period)
    BY <1>1, <1>2
  <2> HIDE DEF done
  <2>2. QED
    BY <2>1 DEF Roll
<1>4. Touch(done, now) = after
  BY <1>3 DEF Touch
<1>5. /\ A \cap R = {} /\ IsFiniteSet(A) /\ IsFiniteSet(R) /\ a \in Nat /\ r \in Nat
  BY SoundSums, FS_CardinalityType DEF Sound, SoundMaps
(* Which entry the outcome says was there.                                 *)
<1>6. /\ onTime <=> id \in A
      /\ Timeout = "release" => (tardy <=> id \in R)
      /\ ~(onTime /\ tardy)
  <2>1. CASE id \in A
    <3>1. outcome = IF commit THEN "committed" ELSE "released"
      BY <2>1 DEF Outcome
    <3>2. QED
      BY <1>5, <2>1, <3>1
  <2>2. CASE id \in R /\ id \notin A
    <3> DEFINE p == state.reclaimed[id].provisional_period
    <3>1. outcome = IF p = NoPeriod
                    THEN IF commit THEN "late-committed" ELSE "late-released"
                    ELSE IF ~commit /\ p = state.period
                         THEN "refunded" ELSE "already-charged"
      BY <2>2 DEF Outcome
    <3>2. Timeout = "release" => p = NoPeriod
      BY <2>2 DEF Sound
    <3> HIDE DEF p, outcome
    <3>3. QED
      BY <2>2, <3>1, <3>2
  <2>3. CASE id \notin A /\ id \notin R
    <3>1. outcome = "not-active"
      BY <2>3 DEF Outcome
    <3>2. QED
      BY <2>3, <3>1
  <2>4. QED
    BY <2>1, <2>2, <2>3
<1> DEFINE c == IF onTime THEN 1 ELSE 0
           t == IF id \in R THEN 1 ELSE 0
           l == IF tardy THEN 1 ELSE 0
<1>7. Cardinality(A \ {id}) = a - c /\ Cardinality(R \ {id}) = r - t
  <2>1. Cardinality(A \ {id}) = (IF id \in A THEN a - 1 ELSE a)
        /\ Cardinality(R \ {id}) = (IF id \in R THEN r - 1 ELSE r)
    BY <1>5, FS_RemoveElement
  <2> HIDE DEF A, R, a, r, outcome
  <2>2. QED
    BY <1>5, <1>6, <2>1
<1> HIDE DEF done
<1>8. /\ e \in Nat /\ gone \in Int /\ e <= Cardinality(A \ {id})
      /\ IsFiniteSet(DOMAIN after.active) /\ IsFiniteSet(DOMAIN after.reclaimed)
      /\ Cardinality(DOMAIN after.active) = Cardinality(A \ {id}) - e
      /\ Cardinality(DOMAIN after.reclaimed) = Cardinality(R \ {id}) + e - gone
  <2> HIDE DEF A, R, done, after
  <2>1. /\ e \in Nat /\ gone \in Int /\ e <= Cardinality(DOMAIN done.active)
        /\ IsFiniteSet(DOMAIN after.active) /\ IsFiniteSet(DOMAIN after.reclaimed)
        /\ Cardinality(DOMAIN after.active) = Cardinality(DOMAIN done.active) - e
        /\ Cardinality(DOMAIN after.reclaimed) = Cardinality(DOMAIN done.reclaimed) + e - gone
    <3>1. Sound(done, ids)
      BY <1>1
    <3>2. QED
      BY <3>1, <1>3, <1>4, TouchSizes DEF e, gone
  <2>2. QED
    BY <1>1, <2>1
<1>9. /\ counted \in Stats
      /\ counted.active = SatSub(st.active, e)
      /\ counted.expired = st.expired + e
      /\ Unsettled(counted) = Unsettled(st) + e - gone
      /\ Timeout = "commit" => counted.provisional_charged = st.provisional_charged + e
      /\ counted.committed = st.committed /\ counted.released = st.released
  BY <1>1, <1>3, CountReclaimIs
<1> HIDE DEF counted, A, R, a, r, e, gone, after, outcome
<1>10. /\ st.active \in Int /\ st.committed \in Int /\ st.released \in Int /\ st.expired \in Int
       /\ st.provisional_charged \in Int /\ Unsettled(st) \in Int
  BY StatsInts DEF Unsettled
<1>11. c \in Nat /\ t \in Nat /\ l \in Nat /\ (Timeout = "release" => l = t)
  BY <1>6
<1>12. a <= st.active
  BY DEF a, A
<1>13. counted.active = st.active - e /\ counted.active >= c
  <2> HIDE DEF c, t, l
  <2>1. e <= a - c
    BY <1>7, <1>8
  <2>2. e <= st.active /\ c <= st.active - e
    BY <2>1, <1>5, <1>8, <1>10, <1>11, <1>12
  <2>3. QED
    BY <2>2, <1>8, <1>9, <1>10, <1>11 DEF SatSub
<1>14. /\ st2 \in Stats /\ st2.active = counted.active - c
       /\ Given(st2) = Given(counted) + (IF onTime THEN 1 ELSE 0) - c
       /\ Unsettled(st2) = Unsettled(counted) - l
       /\ st2.expired = counted.expired
       /\ st2.provisional_charged = counted.provisional_charged
  <2>1. /\ counted.active \in Int /\ counted.committed \in Int /\ counted.released \in Int
        /\ counted.expired \in Int /\ counted.late_committed \in Int
        /\ counted.late_released \in Int /\ counted.abandoned \in Int
        /\ DOMAIN counted = StatFields
    BY <1>9, StatsInts
  <2>2. st2 \in Stats
    BY <1>9, CountSettlementType
  <2>3. CASE outcome = "committed"
    <3>1. st2 = [counted EXCEPT !.active = SatSub(@, 1), !.committed = @ + 1]
          /\ c = 1 /\ l = 0
      BY <2>3 DEF CountSettlement
    <3>2. SatSub(counted.active, 1) = counted.active - 1
      BY <1>13, <2>1, <3>1 DEF SatSub
    <3>3. /\ st2.active = counted.active - 1 /\ st2.committed = counted.committed + 1
          /\ st2.released = counted.released /\ st2.expired = counted.expired
          /\ st2.late_committed = counted.late_committed
          /\ st2.late_released = counted.late_released
          /\ st2.abandoned = counted.abandoned
          /\ st2.provisional_charged = counted.provisional_charged
      <4> HIDE DEF st2
      <4>1. QED
        BY <2>1, <3>1, <3>2 DEF StatFields
    <3> HIDE DEF st2, c, l
    <3>4. QED
      BY <2>1, <2>2, <2>3, <3>1, <3>3 DEF Given, Unsettled
  <2>4. CASE outcome = "released"
    <3>1. st2 = [counted EXCEPT !.active = SatSub(@, 1), !.released = @ + 1]
          /\ c = 1 /\ l = 0
      BY <2>4 DEF CountSettlement
    <3>2. SatSub(counted.active, 1) = counted.active - 1
      BY <1>13, <2>1, <3>1 DEF SatSub
    <3>3. /\ st2.active = counted.active - 1 /\ st2.released = counted.released + 1
          /\ st2.committed = counted.committed /\ st2.expired = counted.expired
          /\ st2.late_committed = counted.late_committed
          /\ st2.late_released = counted.late_released
          /\ st2.abandoned = counted.abandoned
          /\ st2.provisional_charged = counted.provisional_charged
      <4> HIDE DEF st2
      <4>1. QED
        BY <2>1, <3>1, <3>2 DEF StatFields
    <3> HIDE DEF st2, c, l
    <3>4. QED
      BY <2>1, <2>2, <2>4, <3>1, <3>3 DEF Given, Unsettled
  <2>5. CASE outcome = "late-committed"
    <3>1. st2 = [counted EXCEPT !.late_committed = @ + 1] /\ c = 0 /\ l = 1
      BY <2>5 DEF CountSettlement
    <3>2. QED
      BY <2>1, <2>2, <2>5, <3>1 DEF Given, Unsettled, StatFields
  <2>6. CASE outcome = "late-released"
    <3>1. st2 = [counted EXCEPT !.late_released = @ + 1] /\ c = 0 /\ l = 1
      BY <2>6 DEF CountSettlement
    <3>2. /\ st2.late_released = counted.late_released + 1 /\ st2.active = counted.active
          /\ st2.committed = counted.committed /\ st2.released = counted.released
          /\ st2.expired = counted.expired /\ st2.abandoned = counted.abandoned
          /\ st2.late_committed = counted.late_committed
          /\ st2.provisional_charged = counted.provisional_charged
      <4> HIDE DEF st2
      <4>1. QED
        BY <2>1, <3>1 DEF StatFields
    <3> HIDE DEF st2, c, l
    <3>3. QED
      BY <2>1, <2>2, <2>6, <3>1, <3>2 DEF Given, Unsettled
  <2>7. CASE outcome = "refunded"
    <3>1. st2 = [counted EXCEPT !.provisional_refunded = @ + 1] /\ c = 0 /\ l = 0
      BY <2>7 DEF CountSettlement
    <3>2. QED
      BY <2>1, <2>2, <2>7, <3>1 DEF Given, Unsettled, StatFields
  <2>8. CASE outcome \notin {"committed", "released", "late-committed", "late-released", "refunded"}
    <3>1. st2 = counted /\ c = 0 /\ l = 0
      BY <2>8 DEF CountSettlement
    <3>2. QED
      BY <2>1, <2>2, <2>8, <3>1 DEF Given, Unsettled
  <2>9. QED
    BY <2>3, <2>4, <2>5, <2>6, <2>7, <2>8
<1>15. Given(counted) = Given(st) /\ Given(counted) \in Int
  BY <1>8, <1>9, <1>10, <1>13 DEF Given
<1>16. Given(st2) = Given(st)
  <2> HIDE DEF st2
  <2>1. QED
    BY <1>14, <1>15
<1> HIDE DEF c, t, l, st2
<1>17. /\ st2.active - st.active = Cardinality(DOMAIN after.active) - a
       /\ Timeout = "release" =>
            Unsettled(st2) - Unsettled(st) = Cardinality(DOMAIN after.reclaimed) - r
       /\ Timeout = "commit" =>
            st2.expired - st2.provisional_charged = st.expired - st.provisional_charged
  <2>1. st2.active - st.active = Cardinality(DOMAIN after.active) - a
    BY <1>5, <1>7, <1>8, <1>10, <1>11, <1>13, <1>14
  <2>2. Unsettled(st2) = Unsettled(st) + e - gone - l
    <3>1. Unsettled(counted) = Unsettled(st) + e - gone /\ Unsettled(st2) = Unsettled(counted) - l
      BY <1>9, <1>14
    <3>2. QED
      BY <1>8, <1>10, <1>11, <3>1
  <2>3. Timeout = "release" =>
          Unsettled(st2) - Unsettled(st) = Cardinality(DOMAIN after.reclaimed) - r
    BY <1>5, <1>7, <1>8, <1>10, <1>11, <2>2
  <2>4. Timeout = "commit" =>
          st2.expired - st2.provisional_charged = st.expired - st.provisional_charged
    BY <1>8, <1>9, <1>10, <1>14
  <2>5. QED
    BY <2>1, <2>3, <2>4
<1>18. QED
  BY <1>8, <1>14, <1>16, <1>17 DEF st2, after, done, counted, outcome, a, r, A, R

LEMMA RollReaches ==
  ASSUME NEW ids, NEW state, Sound(state, ids), NEW period \in Nat
  PROVE  /\ Roll(state, period).period >= period
         /\ Roll(state, period).active = state.active
         /\ Roll(state, period).reclaimed = state.reclaimed
BY DEF Roll, Sound

LEMMA SettleTrackedCounted ==
  ASSUME IInv, Counted(scopes, stats, reservations, free),
         NEW id \in DOMAIN reservations, NEW commit \in BOOLEAN,
         SettleTracked(id, commit),
         UNCHANGED <<next_id, clock, reservations>>
  PROVE  Counted(scopes', stats', reservations', free')
<1> DEFINE scope   == reservations[id].scope
           rolled  == Roll(scopes[scope], Period(clock))
           ready   == IF Timeout = "commit" THEN Reclaim(rolled, clock) ELSE rolled
           done    == Settle(ready, id, commit)
           after   == Reclaim(done, clock)
           counted == IF Timeout = "commit" THEN CountReclaim(stats, rolled, clock) ELSE stats
           ids     == 1 .. (next_id - 1)
           table   == Put(scopes, scope, ready)
<1>1. /\ clock \in Nat /\ next_id \in Nat /\ reservations' = reservations
      /\ reservations[id].contribution \in Nat /\ reservations[id].contribution > 0
      /\ free \in Nat /\ IsFiniteSet(DOMAIN reservations)
  BY ReservationsFinite DEF IInv, HistoryOK, SettleTracked
<1>2. /\ scope \in DOMAIN scopes
      /\ scopes' = Put(scopes, scope, Reindexed(after))
      /\ stats' = CountSettlement(CountReclaim(counted, done, clock), Outcome(ready, id, commit))
  <2>1. scope \in DOMAIN scopes
    BY DEF SettleTracked, Tracked
  <2>2. \A st : [scopes EXCEPT ![scope] = st] = Put(scopes, scope, st)
    BY <2>1, ExceptIsPut
  <2>3. QED
    BY <2>1, <2>2 DEF SettleTracked
<1>3. FiniteTable(scopes) /\ Sound(scopes[scope], ids) /\ IsFiniteSet(ids)
  BY <1>1, <1>2, TableFinite DEF IInv
<1>4. Period(clock) \in Nat
  BY <1>1, PeriodNat
<1>5. /\ Sound(rolled, ids) /\ rolled.period >= Period(clock)
      /\ rolled.active = scopes[scope].active /\ rolled.reclaimed = scopes[scope].reclaimed
  BY <1>3, <1>4, RollSound, RollReaches
<1> HIDE DEF rolled, ids
<1>6. Sound(ready, ids) /\ ready.period = rolled.period
  BY <1>1, <1>3, <1>5, ReclaimSound
<1>7. Roll(rolled, Period(clock)) = rolled
  <2>1. ~(Period(clock) > rolled.period)
    BY <1>4, <1>5 DEF Sound
  <2>2. QED
    BY <2>1 DEF Roll
<1>8. Tally(table, counted) /\ FiniteTable(table) /\ Given(counted) = Given(stats)
  <2>1. \A field \in Fields :
          Cardinality(DOMAIN rolled[field]) = SizeIn(scopes, scope, field)
    <3>1. \A field \in Fields : rolled[field] = scopes[scope][field]
      BY <1>5 DEF Fields
    <3>2. QED
      BY <1>2, <3>1 DEF SizeIn
  <2>2. CASE Timeout = "commit"
    <3>1. Touch(rolled, clock) = ready /\ counted = CountReclaim(stats, rolled, clock)
      BY <1>7, <2>2 DEF Touch
    <3> HIDE DEF ready, counted
    <3>2. QED
      BY <1>1, <1>3, <1>5, <2>1, <3>1, TallyTouch DEF Counted
  <2>3. CASE Timeout # "commit"
    <3>1. ready = rolled /\ counted = stats
      BY <2>3
    <3>2. \A field \in Fields : Sizes(table, field) = Sizes(scopes, field)
      <4> SUFFICES ASSUME NEW field \in Fields PROVE Sizes(table, field) = Sizes(scopes, field)
        OBVIOUS
      <4>1. rolled[field] = scopes[scope][field]
        BY <1>5 DEF Fields
      <4>2. DOMAIN table = DOMAIN scopes
            /\ \A s \in DOMAIN scopes : table[s][field] = scopes[s][field]
        BY <1>2, <3>1, <4>1 DEF Put
      <4> HIDE DEF table
      <4>3. QED
        BY <4>2 DEF Sizes
    <3>3. Entries(table, "active") = Entries(scopes, "active")
          /\ Entries(table, "reclaimed") = Entries(scopes, "reclaimed")
      BY <3>2 DEF Entries, Fields
    <3>4. Tally(table, stats)
      BY <3>3 DEF Counted, Tally
    <3>5. IsFiniteSet(DOMAIN ready.active) /\ IsFiniteSet(DOMAIN ready.reclaimed)
      BY <1>3, <1>6, SoundSums
    <3>6. FiniteTable(table)
      BY <1>3, <3>5, EntriesPut
    <3>7. QED
      BY <3>1, <3>4, <3>6
  <2>4. QED
    BY <2>2, <2>3
<1>9. /\ table[scope] = ready /\ scope \in DOMAIN table
      /\ \A st : Put(table, scope, st) = Put(scopes, scope, st)
  BY <1>2 DEF Put
<1> HIDE DEF ready, table, counted
<1>10. /\ "active" \in Fields /\ "reclaimed" \in Fields
       /\ SizeIn(table, scope, "active") = Cardinality(DOMAIN ready.active)
       /\ SizeIn(table, scope, "reclaimed") = Cardinality(DOMAIN ready.reclaimed)
  BY <1>9 DEF SizeIn, Fields
<1>11. Cardinality(DOMAIN ready.active) <= counted.active
  <2>1. IsFiniteSet(DOMAIN ready.active) /\ IsFiniteSet(DOMAIN ready.reclaimed)
    BY <1>3, <1>6, SoundSums
  <2>2. SizeIn(table, scope, "active") <= Entries(table, "active")
    BY <1>8, <1>10, <2>1, EntriesPut
  <2>3. QED
    BY <1>8, <1>10, <2>2 DEF Tally
<1>12. counted \in Stats /\ ready.period >= Period(clock)
  BY <1>5, <1>6, <1>8 DEF Tally
<1>13. /\ IsFiniteSet(DOMAIN after.active) /\ IsFiniteSet(DOMAIN after.reclaimed)
       /\ stats' \in Stats /\ Given(stats') = Given(counted)
       /\ stats'.active - counted.active =
            Cardinality(DOMAIN after.active) - Cardinality(DOMAIN ready.active)
       /\ Timeout = "release" =>
            Unsettled(stats') - Unsettled(counted) =
              Cardinality(DOMAIN after.reclaimed) - Cardinality(DOMAIN ready.reclaimed)
       /\ Timeout = "commit" =>
            stats'.expired - stats'.provisional_charged
              = counted.expired - counted.provisional_charged
  BY <1>1, <1>2, <1>3, <1>6, <1>11, <1>12, SettleSizes
<1>14. Reindexed(after).active = after.active /\ Reindexed(after).reclaimed = after.reclaimed
  <2>1. Sound(done, ids)
    BY <1>6, <1>3, SettleSound
  <2>2. Sound(after, ids)
    BY <1>1, <1>3, <2>1, ReclaimSound
  <2> HIDE DEF after
  <2>3. QED
    BY <2>2 DEF Reindexed, Sound
<1> HIDE DEF after, done, scope
<1>15. Tally(Put(table, scope, Reindexed(after)), stats')
  BY <1>8, <1>10, <1>13, <1>14, TallyPut
<1>16. free' = free
  BY DEF SettleTracked
<1>17. QED
  BY <1>1, <1>2, <1>8, <1>9, <1>13, <1>15, <1>16 DEF Counted

LEMMA SettleAsideCounted ==
  ASSUME IInv, Counted(scopes, stats, reservations, free),
         NEW id \in DOMAIN reservations, NEW commit \in BOOLEAN,
         SettleFree(id, commit) \/ SettleUntracked(id),
         UNCHANGED <<next_id, clock, reservations>>
  PROVE  Counted(scopes', stats', reservations', free')
<1>1. /\ reservations[id].contribution \in Nat /\ reservations' = reservations /\ scopes' = scopes
      /\ free \in Nat /\ IsFiniteSet(DOMAIN reservations)
  BY ReservationsFinite DEF IInv, SettleFree, SettleUntracked
<1>2. stats \in Stats
  BY DEF Counted, Tally
<1>3. CASE SettleUntracked(id)
  <2>1. stats' = stats /\ free' = free
    BY <1>3 DEF SettleUntracked, history
  <2>2. QED
    BY <1>1, <2>1 DEF Counted, Tally
<1>4. CASE SettleFree(id, commit)
  <2>1. /\ free' = free + 1
        /\ stats' = IF commit THEN [stats EXCEPT !.committed = @ + 1]
                    ELSE [stats EXCEPT !.released = @ + 1]
    BY <1>4 DEF SettleFree
  <2>2. Balance(reservations, free') = Balance(reservations, free) + 1
    <3>1. Cardinality(Nonzero(reservations)) \in Nat
      BY <1>1, FS_Subset, FS_CardinalityType DEF Nonzero
    <3>2. QED
      BY <1>1, <2>1, <3>1 DEF Balance
  <2>3. /\ stats' \in Stats /\ Given(stats') = Given(stats) + 1
        /\ stats'.active = stats.active /\ Unsettled(stats') = Unsettled(stats)
        /\ stats'.expired = stats.expired
        /\ stats'.provisional_charged = stats.provisional_charged
    <3>1. stats.committed + 1 \in Int /\ stats.released + 1 \in Int
      BY <1>2, StatsInts
    <3>2. stats' \in Stats
      BY <1>2, <2>1, <3>1 DEF Stats
    <3>3. CASE commit
      <4>1. stats' = [stats EXCEPT !.committed = @ + 1]
        BY <2>1, <3>3
      <4>2. QED
        BY <1>2, <3>2, <4>1, StatsInts DEF Given, Unsettled, StatFields
    <3>4. CASE ~commit
      <4>1. stats' = [stats EXCEPT !.released = @ + 1]
        BY <2>1, <3>4
      <4>2. QED
        BY <1>2, <3>2, <4>1, StatsInts DEF Given, Unsettled, StatFields
    <3>5. QED
      BY <3>3, <3>4
  <2>4. Tally(scopes', stats')
    BY <1>1, <2>3 DEF Counted, Tally
  <2>5. QED
    BY <1>1, <2>2, <2>3, <2>4 DEF Counted
<1>5. QED
  BY <1>3, <1>4

LEMMA CountedInitially == Init => Counted(scopes, stats, reservations, free)
<1> SUFFICES ASSUME Init PROVE Counted(scopes, stats, reservations, free)
  OBVIOUS
<1>1. DOMAIN scopes = {} /\ DOMAIN reservations = {} /\ free = 0
  BY DEF Init
<1>2. \A field \in StatFields : stats[field] = 0
  BY DEF Init
<1>3. stats \in Stats
  BY DEF Init, Stats
<1>4. Entries(scopes, "active") = 0 /\ Entries(scopes, "reclaimed") = 0
  <2>1. FiniteTable(scopes) /\ "active" \in Fields /\ "reclaimed" \in Fields
    BY <1>1, FS_EmptySet DEF FiniteTable, Fields
  <2>2. QED
    BY <1>1, <2>1, EntriesSum, SumEmpty
<1>5. Balance(reservations, free) = 0
  <2>1. Nonzero(reservations) = {}
    BY <1>1 DEF Nonzero
  <2>2. QED
    BY <1>1, <2>1, FS_EmptySet DEF Balance
<1>6. /\ stats.active = 0 /\ stats.expired = 0 /\ stats.committed = 0 /\ stats.released = 0
      /\ stats.late_committed = 0 /\ stats.late_released = 0 /\ stats.abandoned = 0
      /\ stats.provisional_charged = 0
  BY <1>2 DEF StatFields
<1>7. QED
  BY <1>3, <1>4, <1>5, <1>6 DEF Counted, Tally, Given, Unsettled

LEMMA CountedInductive ==
  ASSUME IInv, Counted(scopes, stats, reservations, free), [Next]_vars
  PROVE  Counted(scopes', stats', reservations', free')
<1>1. ASSUME UNCHANGED <<scopes, stats, reservations, free>>
      PROVE  Counted(scopes', stats', reservations', free')
  BY <1>1
<1>2. CASE UNCHANGED vars
  BY <1>1, <1>2 DEF vars
<1>3. ASSUME NEW scope \in Scopes, NEW contribution \in Contributions, NEW now \in Stamps,
             Reserve(scope, contribution, now)
      PROVE  Counted(scopes', stats', reservations', free')
  <2>1. now \in Nat
    BY DEF IInv, HistoryOK, Stamps
  <2>2. CASE RefuseStale(now)
    BY <1>1, <2>2 DEF RefuseStale, ledgerVars, history
  <2>3. CASE RefuseAtCapacity(scope, now)
    BY <1>1, <2>3 DEF RefuseAtCapacity, ledgerVars, history
  <2>4. CASE RefuseBusyVictim(scope, now)
    BY <2>4, BusyVictimCounted
  <2>5. CASE AdmitInRoom(scope, contribution, now)
    <3>1. Admitted(scope, contribution, now, scopes, idle_index, stats) /\ free' = free
      BY <2>5 DEF AdmitInRoom
    <3>2. QED
      BY <2>1, <3>1, AdmittedCounted DEF IInv
  <2>6. CASE AdmitEvicting(scope, contribution, now)
    BY <2>6, EvictingCounted
  <2>7. QED
    BY <1>3, <2>2, <2>3, <2>4, <2>5, <2>6 DEF Reserve
<1>4. ASSUME NEW id \in DOMAIN reservations, NEW commit \in BOOLEAN, SettleCall(id, commit)
      PROVE  Counted(scopes', stats', reservations', free')
  <2>1. UNCHANGED <<next_id, clock, reservations>>
    BY <1>4 DEF SettleCall
  <2>2. CASE SettleFree(id, commit) \/ SettleUntracked(id)
    BY <2>1, <2>2, SettleAsideCounted
  <2>3. CASE SettleTracked(id, commit)
    BY <2>1, <2>3, SettleTrackedCounted
  <2>4. QED
    BY <1>4, <2>2, <2>3 DEF SettleCall
<1>5. CASE Tick
  BY <1>1, <1>5 DEF Tick, ledgerVars, history
<1>6. QED
  BY <1>2, <1>3, <1>4, <1>5 DEF Next, Commit, Release

LEMMA CountedHolds ==
  Spec => [](IInv /\ Counted(scopes, stats, reservations, free))
<1> DEFINE both == IInv /\ Counted(scopes, stats, reservations, free)
<1>1. Init => both
  BY Initially, CountedInitially
<1>2. both /\ [Next]_vars => both'
  BY Inductive, CountedInductive
<1> HIDE DEF both
<1>3. Spec => []both
  BY <1>1, <1>2, PTL DEF Spec
<1>4. QED
  BY <1>3 DEF both

(* The operator's counters tell every reservation apart: each hold is in   *)
(* flight, settled on time or expired, and each expired one settled late,  *)
(* abandoned or still a tombstone (or charged, where deadlines charge),    *)
(* through evictions, repeated settlements and every order of them; a call *)
(* of zero units is counted as often as it is settled.                     *)
THEOREM CountersExact == Spec => []CountersBalance
<1>1. IInv /\ Counted(scopes, stats, reservations, free) => CountersBalance
  <2> SUFFICES ASSUME IInv, Counted(scopes, stats, reservations, free)
               PROVE  CountersBalance
    OBVIOUS
  <2>1. /\ stats.active = Entries(scopes, "active")
        /\ Given(stats) = Balance(reservations, free)
        /\ Timeout = "release" => Unsettled(stats) = Entries(scopes, "reclaimed")
        /\ Timeout = "commit" => stats.expired = stats.provisional_charged
        /\ stats \in Stats
    BY DEF Counted, Tally
  <2>2. Entries(scopes, "reclaimed") \in Nat
    <3>1. FiniteTable(scopes) /\ "reclaimed" \in Fields
      BY TableFinite DEF IInv, HistoryOK, Fields
    <3>2. QED
      BY <3>1, EntriesSum
  <2> DEFINE left == Entries(scopes, "reclaimed")
  <2>3. Timeout = "release" =>
          stats.expired = stats.late_committed + stats.late_released + stats.abandoned + left
    <3> HIDE DEF left
    <3>1. QED
      BY <2>1, <2>2, StatsInts DEF Unsettled, left
  <2>4. QED
    BY <2>1, <2>3 DEF CountersBalance, Given, Balance, Nonzero, Entries, Sizes, Tracked
<1>2. QED
  BY <1>1, CountedHolds, PTL

-----------------------------------------------------------------------------
(* Where deadlines do not charge, idle_at is exactly when a scope, touched,*)
(* is idle: nothing a touch finds can make it busy again.                  *)
LEMMA IdleFromThenOn ==
  ASSUME Timeout = "release", NEW ids, NEW state, Sound(state, ids), NEW now \in Nat,
         now < U64Max
  PROVE  IsIdle(Touch(state, now)) <=> IdleAt(state) <= now
<1> DEFINE A == DOMAIN state.active
           R == DOMAIN state.reclaimed
           rolled == Roll(state, Period(now))
           expired == Expired(rolled, now)
           after == Touch(state, now)
           ends == ChargeEnds(state)
<1>1. /\ Sound(rolled, ids) /\ rolled.active = state.active /\ rolled.reclaimed = state.reclaimed
      /\ rolled.committed = IF Period(now) > state.period THEN 0 ELSE state.committed
  <2>1. Sound(rolled, ids)
    BY PeriodNat, RollSound
  <2>2. QED
    BY <2>1 DEF Roll, Sound
<1>2. /\ after.committed = rolled.committed
      /\ DOMAIN after.active = A \ expired
      /\ DOMAIN after.reclaimed =
           {id \in R \cup expired : now < SatAdd(Entry(rolled, id).expires_at, Ttl)}
      /\ expired = {id \in A : now >= state.active[id].expires_at}
      /\ \A id : Entry(rolled, id) = Entry(state, id)
  <2>1. Timeout # "commit"
    OBVIOUS
  <2> HIDE DEF rolled
  <2>2. \A id : Entry(rolled, id) = Entry(state, id)
    BY <1>1 DEF Entry
  <2>3. expired = {id \in A : now >= state.active[id].expires_at}
    BY <1>1 DEF Expired
  <2>4. /\ Reclaim(rolled, now).committed = rolled.committed
        /\ DOMAIN Reclaim(rolled, now).active = DOMAIN rolled.active \ expired
        /\ DOMAIN Reclaim(rolled, now).reclaimed =
             {id \in DOMAIN rolled.reclaimed \cup expired :
                now < SatAdd(Entry(rolled, id).expires_at, Ttl)}
    BY <1>1, <2>1, ReclaimEntries
  <2>5. after = Reclaim(rolled, now)
    BY DEF Touch, rolled
  <2>6. QED
    BY <1>1, <2>2, <2>3, <2>4, <2>5
<1>3. /\ \A id \in A : Entry(state, id).expires_at \in Nat
                       /\ Entry(state, id) = state.active[id]
      /\ \A id \in R : Entry(state, id).expires_at \in Nat
                       /\ Entry(state, id) = state.reclaimed[id]
      /\ state.period \in Nat /\ state.committed \in Nat
  BY DEF Sound, SoundMaps, Held, Entry
(* An entry is dropped by now exactly when its one further ttl is over.    *)
<1>4. \A t \in Nat : SatAdd(t, Ttl) <= now => t <= now
  BY TtlAssumption, WidthAssumption DEF SatAdd
<1>5. \A t \in Nat : SatAdd(t, Ttl) \in Nat
  BY TtlAssumption, SatAddFacts
<1>6. ends <= now <=> rolled.committed = 0
  <2>1. CASE state.committed = 0
    BY <1>1, <2>1 DEF ChargeEnds
  <2>2. CASE state.committed # 0 /\ Window = 0
    <3>1. ends = U64Max /\ Period(now) = 0
      BY <2>2 DEF ChargeEnds, Period
    <3>2. rolled.committed # 0
      BY <1>1, <1>3, <2>2, <3>1
    <3>3. QED
      BY <3>1, <3>2, WidthAssumption
  <2>3. CASE state.committed # 0 /\ Window # 0
    <3> DEFINE p == state.period
               q == now \div Window
    <3>1. ends = (p + 1) * Window /\ Period(now) = q
      BY <2>3 DEF ChargeEnds, Period
    <3>2. Window \in Nat \ {0} /\ p \in Nat
      BY <1>3, <2>3, WindowAssumption
    <3>3. q \in Nat /\ q * Window <= now /\ now < q * Window + Window
      BY <3>2
    <3> HIDE DEF p, q
    <3>4. (p + 1) * Window <= now <=> q > p
      <4>1. ASSUME q > p PROVE (p + 1) * Window <= now
        <5>1. q = (p + 1) + (q - p - 1) /\ q - p - 1 \in Nat
          BY <3>2, <3>3, <4>1
        <5>2. (q - p - 1) * Window \in Nat /\ (p + 1) * Window \in Nat
          BY <3>2, <5>1
        <5>3. q * Window = (p + 1) * Window + (q - p - 1) * Window
          BY <3>2, <3>3, <5>1
        <5>4. q * Window \in Nat
          BY <3>2, <3>3
        <5>5. QED
          BY <3>3, <5>2, <5>3, <5>4
      <4>2. ASSUME ~(q > p) PROVE ~((p + 1) * Window <= now)
        <5>1. p - q \in Nat
          BY <3>2, <3>3, <4>2
        <5>2. (p + 1) * Window = q * Window + Window + (p - q) * Window
          BY <3>2, <3>3
        <5>3. (p - q) * Window \in Nat /\ q * Window \in Nat
          BY <3>2, <3>3, <5>1
        <5>4. QED
          BY <3>2, <3>3, <5>2, <5>3
      <4>3. QED
        BY <4>1, <4>2
    <3>5. rolled.committed = 0 <=> q > p
      BY <1>1, <1>3, <2>3, <3>1 DEF p
    <3>6. QED
      BY <3>1, <3>4, <3>5
  <2>4. QED
    BY <2>1, <2>2, <2>3
<1>7. (DOMAIN after.active = {} /\ DOMAIN after.reclaimed = {})
        <=> \A at \in Drops(state) : at <= now
  <2> HIDE DEF A, R, expired, after, rolled
  <2>1. Drops(state) = {SatAdd(Entry(state, id).expires_at, Ttl) : id \in A \cup R}
    BY <1>3 DEF Drops, A, R
  <2>2. ASSUME DOMAIN after.active = {}, DOMAIN after.reclaimed = {}
        PROVE  \A id \in A \cup R : SatAdd(Entry(state, id).expires_at, Ttl) <= now
    <3> SUFFICES ASSUME NEW id \in A \cup R
                 PROVE  SatAdd(Entry(state, id).expires_at, Ttl) <= now
      OBVIOUS
    <3>1. id \in R \cup expired
      BY <1>2, <2>2
    <3>2. ~(now < SatAdd(Entry(state, id).expires_at, Ttl))
      BY <1>2, <2>2, <3>1
    <3>3. SatAdd(Entry(state, id).expires_at, Ttl) \in Nat
      BY <1>3, <1>5
    <3>4. QED
      BY <3>2, <3>3
  <2>3. ASSUME \A id \in A \cup R : SatAdd(Entry(state, id).expires_at, Ttl) <= now
        PROVE  DOMAIN after.active = {} /\ DOMAIN after.reclaimed = {}
    <3>1. \A id \in A : id \in expired
      <4> SUFFICES ASSUME NEW id \in A PROVE id \in expired
        OBVIOUS
      <4>1. state.active[id].expires_at \in Nat /\ state.active[id].expires_at <= now
        BY <1>3, <1>4, <2>3
      <4>2. QED
        BY <1>2, <4>1
    <3>2. \A id \in A \cup R : ~(now < SatAdd(Entry(state, id).expires_at, Ttl))
      BY <1>3, <1>5, <2>3
    <3>3. expired \subseteq A
      BY <1>2
    <3>4. QED
      BY <1>2, <3>1, <3>2, <3>3
  <2>4. QED
    BY <2>1, <2>2, <2>3
<1>8. IsIdle(after) <=> \A at \in {ends} \cup Drops(state) : at <= now
  <2>1. IsIdle(after) <=> ends <= now /\ \A at \in Drops(state) : at <= now
    BY <1>2, <1>6, <1>7 DEF IsIdle
  <2>2. QED
    BY <2>1
<1>9. (\A at \in {ends} \cup Drops(state) : at <= now) <=> IdleAt(state) <= now
  <2> HIDE DEF ends
  <2>1. /\ IdleAt(state) \in Nat /\ IdleAt(state) \in {ends} \cup Drops(state)
        /\ \A at \in {ends} \cup Drops(state) : at \in Nat /\ at <= IdleAt(state)
    BY IdleAtLast DEF ends
  <2>2. QED
    BY <2>1
<1>10. QED
  BY <1>8, <1>9

(* The index has a first entry.                                            *)
LEMMA FirstExists ==
  ASSUME IInv, NEW other \in Tracked
  PROVE  \E entry \in First : /\ entry[1] \in Nat /\ entry[1] <= IdleAt(scopes[other])
                              /\ entry[2] \in Tracked
                              /\ entry[1] = IdleAt(scopes[entry[2]])
<1>1. idle_index = {<<IdleAt(scopes[s]), s>> : s \in Tracked}
  BY DEF IInv, Table, Tracked
<1>2. \A s \in Tracked : IdleAt(scopes[s]) \in Nat
  BY IdleAtNat DEF IInv, Table, Books, Tracked
<1> DEFINE times == {IdleAt(scopes[s]) : s \in Tracked}
<1>3. times \subseteq Nat /\ IdleAt(scopes[other]) \in times
  BY <1>2
<1>4. PICK least \in times : \A at \in times : least <= at
  BY <1>3, LeastNat
<1>5. PICK s \in Tracked : least = IdleAt(scopes[s])
  BY <1>4
<1> DEFINE entry == <<IdleAt(scopes[s]), s>>
<1>6. entry \in idle_index /\ entry[1] = least /\ entry[2] = s
  BY <1>1, <1>5
<1>7. \A o \in idle_index : o[1] \in times
  BY <1>1
<1>8. entry \in First
  BY <1>4, <1>6, <1>7 DEF First
<1>9. QED
  BY <1>2, <1>3, <1>4, <1>5, <1>6, <1>8

ClockFits == MaxClock + 1 < U64Max

(* "the ledger already tracks max_scopes scopes, none of them idle": where *)
(* deadlines do not charge, a call for a new scope is refused AtCapacity   *)
(* only when no tracked scope is idle by the call's time.  Where they do,  *)
(* the code is wrong (README): a scope whose index entry is due can be     *)
(* busy once touched, and hide another that is idle.                       *)
THEOREM FullMeansBusy ==
  ASSUME Timeout = "release", ClockFits PROVE Spec => []AtCapacityMeansFull
<1> DEFINE both == IInv /\ clock <= MaxClock + 1
<1>1. Init => both
  BY Initially, BoundsAssumption DEF Init
<1>2. both /\ [Next]_vars => both'
  <2> SUFFICES ASSUME both, [Next]_vars PROVE clock' <= MaxClock + 1
    BY Inductive
  <2>1. clock' = clock \/ (clock < MaxClock /\ clock' = clock + 1)
    BY DEF Next, vars, Reserve, RefuseStale, RefuseAtCapacity, RefuseBusyVictim, AdmitInRoom,
           AdmitEvicting, Commit, Release, SettleCall, Tick
  <2>2. QED
    BY <2>1, BoundsAssumption DEF IInv, HistoryOK
<1>3. both => AtCapacityMeansFull
  <2> SUFFICES ASSUME IInv, clock <= MaxClock + 1, NEW now \in Stamps,
                      \/ Victims(now) = {}
                      \/ \E entry \in Victims(now) : ~IsIdle(Touch(scopes[entry[2]], now)),
                      NEW other \in Tracked
               PROVE  ~IsIdle(Touch(scopes[other], now))
    BY DEF AtCapacityMeansFull
  <2>1. now \in Nat /\ now < U64Max
    BY BoundsAssumption, WidthAssumption DEF Stamps, IInv, HistoryOK, ClockFits
  <2>2. \A s \in Tracked : IsIdle(Touch(scopes[s], now)) <=> IdleAt(scopes[s]) <= now
    <3>1. \A s \in Tracked : Sound(scopes[s], 1 .. (next_id - 1))
      BY DEF IInv, Table, Books, Tracked
    <3>2. QED
      BY <2>1, <3>1, IdleFromThenOn
  <2>3. \A entry \in Victims(now) : IsIdle(Touch(scopes[entry[2]], now))
    <3> SUFFICES ASSUME NEW entry \in Victims(now)
                 PROVE  IsIdle(Touch(scopes[entry[2]], now))
      OBVIOUS
    <3>1. entry \in idle_index /\ entry[1] <= now
      BY DEF Victims, First
    <3>2. idle_index = {<<IdleAt(scopes[s]), s>> : s \in Tracked}
      BY DEF IInv, Table, Tracked
    <3>3. PICK s \in Tracked : entry = <<IdleAt(scopes[s]), s>>
      BY <3>1, <3>2
    <3>4. QED
      BY <2>2, <3>1, <3>3
  <2>4. Victims(now) = {}
    BY <2>3
  <2>5. PICK entry \in First : entry[1] \in Nat /\ entry[1] <= IdleAt(scopes[other])
    BY FirstExists
  <2>6. ~(entry[1] <= now)
    BY <2>4, <2>5 DEF Victims
  <2>7. IdleAt(scopes[other]) \in Nat
    BY IdleAtNat DEF IInv, Table, Books, Tracked
  <2>8. QED
    BY <2>1, <2>2, <2>5, <2>6, <2>7
<1> HIDE DEF both
<1>4. QED
  BY <1>1, <1>2, <1>3, PTL DEF Spec
-----------------------------------------------------------------------------
(***************************************************************************)
(* Two more theorems: that a scope's committed exposure is the units       *)
(* charged in the period, and that the ledger implements the contract its  *)
(* callers rely on (ExposureLedger), so that neither the cap on scopes, nor*)
(* eviction, nor the moment a scope is reclaimed can be seen.              *)
(*                                                                         *)
(* Both rest on one strengthening of the invariant above: a scope's        *)
(* account.  An entry says in which period its reservation is charged;     *)
(* committed counts what is owed in the state's own period; and a scope    *)
(* whose state is not of the current period, or is not tracked at all,     *)
(* owes nothing in the current one.  The last part is what eviction must   *)
(* not lose, and it is not the whole of what the ledger once knew: a scope *)
(* evicted and tracked again under a lagging stamp has forgotten what it   *)
(* owed in an older period, so for that period only a bound holds.         *)
(***************************************************************************)

(* When committed exposure cannot saturate: in block mode with holds       *)
(* charged as they expire the budget bounds it; otherwise the bound on the *)
(* reservations given out does, if their units fit a u64.                  *)
Exact == (Mode = "block" /\ Timeout = "commit") \/ MaxId * MaxUnits <= U64Max

Tight == Exact \/ Mode = "block"

(* The reservations of a scope charged in a period, and their units.       *)
ChargedIn(scope, period, res, ch) ==
  {id \in DOMAIN res : res[id].scope = scope /\ ch[id] = period}

OwedIn(scope, period, res, ch) == Units(res, ChargedIn(scope, period, res, ch))

(* One scope's account in the period today.                                *)
Account(scope, state, res, ch, today) ==
  /\ state.period <= today
  /\ \A id : Holds(state, id) =>
       /\ id \in DOMAIN res
       /\ ch[id] = Entry(state, id).provisional_period
       /\ Entry(state, id).expires_at = res[id].expires_at
  /\ state.committed <= OwedIn(scope, state.period, res, ch)
  /\ Tight => IF state.period = today
              THEN \/ state.committed = OwedIn(scope, today, res, ch)
                   \/ ~Exact /\ state.committed = U64Max
              ELSE OwedIn(scope, today, res, ch) = 0

(* Reservations few and small enough to be counted.                        *)
Costed(res) ==
  /\ IsFiniteSet(DOMAIN res)
  /\ Cardinality(DOMAIN res) <= MaxId
  /\ \A id \in DOMAIN res : res[id].contribution \in 0 .. MaxUnits

(* The state a call would find a scope in.                                 *)
StateOf(table, scope) == IF scope \in DOMAIN table THEN table[scope] ELSE AtPeriod(0)

(* What a reclaim of the rolled state charges.                             *)
ExpiredCharge(ch, state, now) ==
  [id \in DOMAIN ch |->
     IF Timeout = "commit" /\ id \in Expired(state, now) THEN state.period ELSE ch[id]]

-----------------------------------------------------------------------------
LEMMA CostedSums ==
  ASSUME NEW res, Costed(res), NEW S \in SUBSET DOMAIN res
  PROVE  /\ Summable(res, S)
         /\ Units(res, S) \in Nat
         /\ Units(res, S) <= MaxId * MaxUnits
<1>1. IsFiniteSet(S) /\ Cardinality(S) \in Nat /\ Cardinality(S) <= Cardinality(DOMAIN res)
  BY FS_Subset, FS_CardinalityType DEF Costed
<1>2. MaxUnits \in Nat /\ MaxId \in Nat /\ Cardinality(DOMAIN res) \in Nat
  BY WidthAssumption, BoundsAssumption, FS_CardinalityType DEF Costed
<1>3. \A id \in S : res[id].contribution \in Nat /\ res[id].contribution <= MaxUnits
  BY <1>2 DEF Costed
<1>4. Summable(res, S)
  BY <1>1, <1>3 DEF Summable
<1>5. Units(res, S) \in Nat /\ Units(res, S) <= Cardinality(S) * MaxUnits
  BY <1>2, <1>3, <1>4, UnitsNat, UnitsBound
<1>6. Cardinality(S) * MaxUnits <= MaxId * MaxUnits
  <2>1. PICK d \in Nat : MaxId = Cardinality(S) + d
    <3>1. MaxId - Cardinality(S) \in Nat /\ MaxId = Cardinality(S) + (MaxId - Cardinality(S))
      BY <1>1, <1>2 DEF Costed
    <3>2. QED
      BY <3>1
  <2>2. MaxId * MaxUnits = Cardinality(S) * MaxUnits + d * MaxUnits /\ d * MaxUnits \in Nat
    BY <2>1, <1>1, <1>2
  <2>3. Cardinality(S) * MaxUnits \in Nat
    BY <1>1, <1>2
  <2>4. QED
    BY <2>2, <2>3
<1>7. Cardinality(S) * MaxUnits \in Nat /\ MaxId * MaxUnits \in Nat
  BY <1>1, <1>2
<1>8. QED
  BY <1>4, <1>5, <1>6, <1>7

LEMMA OwedNat ==
  ASSUME NEW res, Costed(res), NEW scope, NEW period, NEW ch
  PROVE  OwedIn(scope, period, res, ch) \in Nat
<1>1. ChargedIn(scope, period, res, ch) \in SUBSET DOMAIN res
  BY DEF ChargedIn
<1>2. QED
  BY <1>1, CostedSums DEF OwedIn

(* What is owed in a period depends only on the charges of that scope.     *)
LEMMA OwedSame ==
  ASSUME NEW res, Costed(res), NEW res2, NEW ch, NEW ch2, NEW scope, NEW period \in Nat,
         DOMAIN res \subseteq DOMAIN res2,
         \A id \in DOMAIN res : res2[id] = res[id],
         \A id \in DOMAIN res : res[id].scope = scope => ch2[id] = ch[id],
         \A id \in DOMAIN res2 \ DOMAIN res : ch2[id] = NoPeriod
  PROVE  OwedIn(scope, period, res2, ch2) = OwedIn(scope, period, res, ch)
<1> DEFINE set == ChargedIn(scope, period, res, ch)
<1>1. NoPeriod # period
  BY DEF NoPeriod
<1>2. ChargedIn(scope, period, res2, ch2) = set
  BY <1>1 DEF ChargedIn
<1>3. set \in SUBSET DOMAIN res
  BY DEF ChargedIn
<1> HIDE DEF set
<1>4. Summable(res, set)
  BY <1>3, CostedSums
<1>5. \A id \in set : res2[id].contribution = res[id].contribution
  BY <1>3
<1>6. Units(res2, set) = Units(res, set)
  BY <1>4, <1>5, UnitsSame
<1>7. QED
  BY <1>2, <1>6 DEF OwedIn, set

LEMMA AccountFrame ==
  ASSUME NEW res, Costed(res), NEW res2, NEW ch, NEW ch2, NEW scope, NEW state,
         NEW today \in Nat, state.period \in Nat,
         DOMAIN res \subseteq DOMAIN res2,
         \A id \in DOMAIN res : res2[id] = res[id],
         \A id \in DOMAIN res : res[id].scope = scope => ch2[id] = ch[id],
         \A id \in DOMAIN res2 \ DOMAIN res : ch2[id] = NoPeriod,
         \A id : Holds(state, id) => res[id].scope = scope,
         Account(scope, state, res, ch, today)
  PROVE  Account(scope, state, res2, ch2, today)
<1>1. /\ OwedIn(scope, today, res2, ch2) = OwedIn(scope, today, res, ch)
      /\ OwedIn(scope, state.period, res2, ch2) = OwedIn(scope, state.period, res, ch)
  BY OwedSame
<1>2. \A id : Holds(state, id) =>
        /\ id \in DOMAIN res2
        /\ ch2[id] = Entry(state, id).provisional_period
        /\ Entry(state, id).expires_at = res2[id].expires_at
  BY DEF Account
<1>3. QED
  BY <1>1, <1>2 DEF Account

(* Time passing without a charge: nothing is owed in a period not begun.   *)
LEMMA AccountLater ==
  ASSUME NEW res, NEW ch, NEW scope, NEW state, NEW today \in Nat, NEW later \in Nat,
         today <= later, state.period \in Nat, Costed(res),
         ch \in [DOMAIN res -> Nat \cup {NoPeriod}],
         \A id \in DOMAIN res : ch[id] <= today,
         Account(scope, state, res, ch, today)
  PROVE  Account(scope, state, res, ch, later)
<1>1. CASE later = today
  BY <1>1
<1>2. CASE later # today
  <2>1. state.period < later /\ state.period # later
    BY <1>2 DEF Account
  <2>2. ChargedIn(scope, later, res, ch) = {}
    BY <1>2 DEF ChargedIn
  <2>3. OwedIn(scope, later, res, ch) = 0
    BY <2>2, UnitsEmpty DEF OwedIn
  <2>4. QED
    BY <2>1, <2>3 DEF Account
<1>3. QED
  BY <1>1, <1>2

LEMMA AccountRoll ==
  ASSUME NEW ids, NEW scope, NEW state, Sound(state, ids), NEW res, Costed(res), NEW ch,
         NEW today \in Nat, NEW period \in Nat, period <= today,
         Account(scope, state, res, ch, today)
  PROVE  Account(scope, Roll(state, period), res, ch, today)
<1>1. CASE period <= state.period
  <2>1. Roll(state, period) = state
    BY <1>1 DEF Roll, Sound
  <2>2. QED
    BY <2>1
<1>2. CASE period > state.period
  <2> DEFINE after == Roll(state, period)
  <2>1. /\ after.period = period /\ after.committed = 0
        /\ after.active = state.active /\ after.reclaimed = state.reclaimed
    BY <1>2 DEF Roll, Sound
  <2> HIDE DEF after
  <2>2. \A id : (Holds(after, id) <=> Holds(state, id)) /\ Entry(after, id) = Entry(state, id)
    BY <2>1 DEF Holds, Entry
  <2>3. OwedIn(scope, period, res, ch) \in Nat
    BY OwedNat
  <2>4. state.period # today /\ state.period \in Nat
    BY <1>2 DEF Sound
  <2>5. Tight => OwedIn(scope, today, res, ch) = 0
    BY <2>4 DEF Account
  <2>6. Account(scope, after, res, ch, today)
    BY <2>1, <2>2, <2>3, <2>5 DEF Account
  <2>7. QED
    BY <2>6 DEF after
<1>3. QED
  BY <1>1, <1>2 DEF Sound
(* Charging a scope some units that were not charged before.               *)
LEMMA OwedMore ==
  ASSUME NEW res, Costed(res), NEW ch, NEW ch2, NEW scope, NEW period \in Nat,
         NEW S \in SUBSET DOMAIN res,
         \A id \in S : res[id].scope = scope /\ ch[id] = NoPeriod /\ ch2[id] = period,
         \A id \in DOMAIN res \ S : ch2[id] = ch[id]
  PROVE  /\ OwedIn(scope, period, res, ch2) = OwedIn(scope, period, res, ch) + Units(res, S)
         /\ OwedIn(scope, period, res, ch2) <= MaxId * MaxUnits
         /\ \A other \in Nat \ {period} :
              OwedIn(scope, other, res, ch2) = OwedIn(scope, other, res, ch)
<1> DEFINE old == ChargedIn(scope, period, res, ch)
           new == ChargedIn(scope, period, res, ch2)
<1>1. NoPeriod \notin Nat
  BY DEF NoPeriod
<1>2. new = old \cup S /\ old \cap S = {} /\ new \in SUBSET DOMAIN res
  BY <1>1 DEF ChargedIn
<1> HIDE DEF old, new
<1>3. Units(res, new) = Units(res, S) + Units(res, old)
  <2>1. S \in SUBSET new /\ new \ S = old
    BY <1>2
  <2>2. Summable(res, new)
    BY <1>2, CostedSums
  <2>3. Units(res, new) = Units(res, S) + Units(res, new \ S)
    BY <2>1, <2>2, UnitsSplit
  <2>4. QED
    BY <2>1, <2>3, Zenon
<1>4. Units(res, S) \in Nat /\ Units(res, old) \in Nat /\ Units(res, new) <= MaxId * MaxUnits
  <2>1. old \in SUBSET DOMAIN res
    BY <1>2
  <2>2. QED
    BY <1>2, <2>1, CostedSums
<1>5. ASSUME NEW other \in Nat \ {period}
      PROVE  OwedIn(scope, other, res, ch2) = OwedIn(scope, other, res, ch)
  <2>1. ChargedIn(scope, other, res, ch2) = ChargedIn(scope, other, res, ch)
    BY <1>1 DEF ChargedIn
  <2>2. QED
    BY <2>1 DEF OwedIn
<1>6. Units(res, new) = Units(res, old) + Units(res, S)
  BY <1>3, <1>4
<1>7. QED
  BY <1>4, <1>5, <1>6 DEF OwedIn, old, new

(* In the cases the theorem is about, committed exposure does not saturate.*)
LEMMA CommitFits ==
  ASSUME Exact, NEW n, NEW res, NEW ch, NEW lt, History(n, res, ch, lt),
         NEW scope, NEW state, Books(scope, state, n, res, ch, lt),
         NEW c \in Nat, c <= state.reserved \/ Timeout = "release",
         state.committed + c <= MaxId * MaxUnits
  PROVE  SatAdd(state.committed, c) = state.committed + c
<1>1. /\ state.committed \in Nat /\ state.reserved \in Nat
  BY IdsFinite, SoundSums DEF Books, Sound, History
<1>2. CASE MaxId * MaxUnits <= U64Max
  <2>1. MaxId * MaxUnits \in Nat /\ U64Max \in Nat
    BY BoundsAssumption, WidthAssumption
  <2>2. state.committed + c <= U64Max
    BY <1>1, <1>2, <2>1
  <2>3. QED
    BY <1>1, <2>2, SatAddFacts
<1>3. CASE Mode = "block" /\ Timeout = "commit"
  <2>1. lt = {} /\ Overshoot(scope, state.period, res, ch, lt) = {}
    BY <1>3 DEF History, Overshoot
  <2>2. state.committed + state.reserved <= Budget + 0
    BY <1>3, <2>1, UnitsEmpty DEF Books
  <2>3. c <= state.reserved
    BY <1>3
  <2>4. Budget <= U64Max
    <3>1. MaxUnits <= U64Max
      <4>1. MaxHeld \in Nat \ {0} /\ MaxUnits \in Nat /\ U64Max \in Nat
            /\ MaxHeld * MaxUnits < U64Max
        BY HeldAssumption, WidthAssumption
      <4>2. PICK d \in Nat : MaxHeld = 1 + d
        <5>1. MaxHeld - 1 \in Nat /\ MaxHeld = 1 + (MaxHeld - 1)
          BY <4>1
        <5>2. QED
          BY <5>1
      <4>3. MaxHeld * MaxUnits = MaxUnits + d * MaxUnits /\ d * MaxUnits \in Nat
        BY <4>1, <4>2
      <4>4. QED
        BY <4>1, <4>3
    <3>2. QED
      BY <3>1, BudgetAssumption, WidthAssumption
  <2>5. state.committed + c <= U64Max
    BY <1>1, <2>2, <2>3, <2>4, BudgetNat, WidthAssumption
  <2>6. QED
    BY <1>1, <2>5, SatAddFacts
<1>4. QED
  BY <1>2, <1>3 DEF Exact

(* Charging units to a scope's state and to what it owes alike keeps its   *)
(* account.                                                                *)
LEMMA AccountCharge ==
  ASSUME NEW n, NEW res, NEW ch, NEW lt, History(n, res, ch, lt),
         NEW scope, NEW state, Books(scope, state, n, res, ch, lt), Costed(res),
         NEW today \in Nat, Account(scope, state, res, ch, today),
         NEW ch2, NEW S \in SUBSET DOMAIN res,
         \A id \in S : /\ res[id].scope = scope
                       /\ ch[id] = NoPeriod /\ ch2[id] = state.period,
         \A id \in DOMAIN res \ S : ch2[id] = ch[id],
         NEW c \in Nat, c = Units(res, S), c <= state.reserved \/ Timeout = "release",
         NEW after, after.period = state.period,
         after.committed = SatAdd(state.committed, c),
         \A id : Holds(after, id) =>
           /\ id \in DOMAIN res
           /\ ch2[id] = Entry(after, id).provisional_period
           /\ Entry(after, id).expires_at = res[id].expires_at
  PROVE  Account(scope, after, res, ch2, today)
<1> DEFINE period == state.period
           owed == OwedIn(scope, period, res, ch)
           owes == OwedIn(scope, period, res, ch2)
           whole == MaxId * MaxUnits
<1>1. period \in Nat /\ state.committed \in Nat
  BY DEF Books, Sound
<1>2. /\ owes = owed + c /\ owes <= whole
      /\ \A other \in Nat \ {period} :
           OwedIn(scope, other, res, ch2) = OwedIn(scope, other, res, ch)
  <2>1. \A id \in S : res[id].scope = scope /\ ch[id] = NoPeriod /\ ch2[id] = period
    OBVIOUS
  <2>2. \A id \in DOMAIN res \ S : ch2[id] = ch[id]
    OBVIOUS
  <2> HIDE DEF period
  <2>3. /\ owes = owed + Units(res, S) /\ owes <= whole
        /\ \A other \in Nat \ {period} :
             OwedIn(scope, other, res, ch2) = OwedIn(scope, other, res, ch)
    BY <1>1, <2>1, <2>2, OwedMore
  <2>4. QED
    BY <2>3
<1>3. owed \in Nat /\ owes \in Nat /\ state.committed <= owed /\ whole \in Nat
  BY OwedNat, BoundsAssumption, WidthAssumption DEF Account
<1>4. /\ SatAdd(state.committed, c) <= state.committed + c
      /\ SatAdd(state.committed, c) \in Nat
      /\ SatAdd(state.committed, c) <= U64Max
      /\ state.committed + c <= U64Max => SatAdd(state.committed, c) = state.committed + c
      /\ state.committed + c > U64Max => SatAdd(state.committed, c) = U64Max
  BY <1>1, SatAddFacts
<1>5. Exact => SatAdd(state.committed, c) = state.committed + c
  <2> SUFFICES ASSUME Exact PROVE SatAdd(state.committed, c) = state.committed + c
    OBVIOUS
  <2>1. state.committed + c <= whole
    <3> HIDE DEF owed, owes, whole
    <3>1. QED
      BY <1>1, <1>2, <1>3
  <2>2. c <= state.reserved \/ Timeout = "release"
    OBVIOUS
  <2> HIDE DEF owed, owes, period
  <2>3. QED
    BY <2>1, <2>2, CommitFits
<1>6. U64Max \in Nat
  BY WidthAssumption
<1>7. Tight /\ period = today =>
        \/ after.committed = owes
        \/ ~Exact /\ after.committed = U64Max
  <2> SUFFICES ASSUME Tight, period = today
               PROVE  \/ after.committed = owes
                      \/ ~Exact /\ after.committed = U64Max
    OBVIOUS
  <2>1. \/ state.committed = owed
        \/ ~Exact /\ state.committed = U64Max
    BY DEF Account
  <2> HIDE DEF owed, owes
  <2>2. CASE Exact
    BY <2>1, <2>2, <1>2, <1>5
  <2>3. CASE ~Exact
    <3>1. after.committed = state.committed + c \/ after.committed = U64Max
      BY <1>1, <1>4, <1>6
    <3>2. state.committed = U64Max => after.committed = U64Max
      BY <1>1, <1>4, <1>6
    <3>3. QED
      BY <2>1, <2>3, <3>1, <3>2, <1>2
  <2>4. QED
    BY <2>2, <2>3
<1>8. after.committed <= owes
  <2> HIDE DEF owed, owes
  <2>1. QED
    BY <1>1, <1>2, <1>3, <1>4
<1>9. Tight /\ period # today => OwedIn(scope, today, res, ch2) = 0
  <2>1. Tight /\ period # today => OwedIn(scope, today, res, ch) = 0
    BY DEF Account
  <2>2. QED
    BY <2>1, <1>2
<1>10. period <= today
  BY DEF Account
<1>11. QED
  BY <1>7, <1>8, <1>9, <1>10 DEF Account

(* Dropping entries charges nothing.                                       *)
LEMMA AccountShrink ==
  ASSUME NEW scope, NEW state, NEW res, NEW ch, NEW today,
         Account(scope, state, res, ch, today),
         NEW after, after.period = state.period, after.committed = state.committed,
         \A id : Holds(after, id) =>
           /\ Holds(state, id)
           /\ Entry(after, id).provisional_period = Entry(state, id).provisional_period
           /\ Entry(after, id).expires_at = Entry(state, id).expires_at
  PROVE  Account(scope, after, res, ch, today)
BY DEF Account

LEMMA AccountReclaim ==
  ASSUME NEW n, NEW res, NEW ch, NEW lt, History(n, res, ch, lt),
         NEW scope, NEW state, Books(scope, state, n, res, ch, lt), Costed(res),
         DOMAIN ch = DOMAIN res,
         NEW today \in Nat, Account(scope, state, res, ch, today), NEW now \in Nat
  PROVE  Account(scope, Reclaim(state, now), res, ExpiredCharge(ch, state, now), today)
<1> DEFINE E == Expired(state, now)
           after == Reclaim(state, now)
           ch2 == ExpiredCharge(ch, state, now)
           ids == 1 .. (n - 1)
<1>1. Sound(state, ids) /\ IsFiniteSet(ids)
  BY IdsFinite DEF Books, History
<1>2. /\ E \subseteq DOMAIN state.active
      /\ after.period = state.period
      /\ after.committed = (IF Timeout = "commit"
                            THEN SatAdd(state.committed, Units(state.active, E))
                            ELSE state.committed)
      /\ DOMAIN after.active = DOMAIN state.active \ E
      /\ \A id \in DOMAIN after.active : after.active[id] = state.active[id]
      /\ DOMAIN after.reclaimed \subseteq DOMAIN state.reclaimed \cup E
      /\ \A id \in DOMAIN after.reclaimed :
           after.reclaimed[id] = IF id \in E THEN Tombstone(state, id)
                                 ELSE state.reclaimed[id]
  BY <1>1, ReclaimEntries
<1>3. /\ DOMAIN state.active \cap DOMAIN state.reclaimed = {}
      /\ \A id \in DOMAIN state.active :
           state.active[id] \in Held /\ state.active[id].provisional_period = NoPeriod
      /\ state.period \in Nat
  BY <1>1 DEF Sound, SoundMaps
<1>4. \A id : Holds(state, id) =>
        /\ id \in DOMAIN res /\ res[id].scope = scope
        /\ res[id].contribution = Entry(state, id).contribution
        /\ ch[id] = Entry(state, id).provisional_period
        /\ Entry(state, id).expires_at = res[id].expires_at
  BY DEF Books, Account
<1> HIDE DEF after, E
<1>5. \A id : Holds(after, id) =>
        /\ Holds(state, id)
        /\ Entry(after, id).expires_at = Entry(state, id).expires_at
        /\ Entry(after, id).provisional_period =
             IF Timeout = "commit" /\ id \in E THEN state.period
             ELSE Entry(state, id).provisional_period
  <2> SUFFICES ASSUME NEW id, Holds(after, id)
               PROVE  /\ Holds(state, id)
                      /\ Entry(after, id).expires_at = Entry(state, id).expires_at
                      /\ Entry(after, id).provisional_period =
                           IF Timeout = "commit" /\ id \in E THEN state.period
                           ELSE Entry(state, id).provisional_period
    OBVIOUS
  <2>1. CASE id \in DOMAIN after.active
    BY <2>1, <1>2 DEF Holds, Entry
  <2>2. CASE id \in DOMAIN after.reclaimed /\ id \notin DOMAIN after.active /\ id \in E
    <3>1. /\ Entry(after, id) = Tombstone(state, id) /\ Entry(state, id) = state.active[id]
          /\ Holds(state, id) /\ id \in DOMAIN state.active
      BY <2>2, <1>2 DEF Holds, Entry
    <3>2. /\ Tombstone(state, id).expires_at = state.active[id].expires_at
          /\ Tombstone(state, id).provisional_period =
               IF Timeout = "commit" THEN state.period
               ELSE state.active[id].provisional_period
      <4>1. state.active[id] \in Held
        BY <3>1, <1>3
      <4>2. QED
        BY <4>1 DEF Tombstone, Held
    <3>3. QED
      BY <2>2, <3>1, <3>2
  <2>3. CASE id \in DOMAIN after.reclaimed /\ id \notin DOMAIN after.active /\ id \notin E
    <3>1. id \in DOMAIN state.reclaimed /\ id \notin DOMAIN state.active
      BY <2>3, <1>2, <1>3
    <3>2. Entry(after, id) = state.reclaimed[id] /\ Entry(state, id) = state.reclaimed[id]
      BY <2>3, <3>1, <1>2 DEF Entry
    <3>3. QED
      BY <2>3, <3>1, <3>2 DEF Holds
  <2>4. QED
    BY <2>1, <2>2, <2>3 DEF Holds
<1>6. E \in SUBSET DOMAIN res
  BY <1>2, <1>4 DEF Holds
<1>7. \A id \in DOMAIN res :
        ch2[id] = IF Timeout = "commit" /\ id \in E THEN state.period ELSE ch[id]
  BY DEF ExpiredCharge, E
<1> HIDE DEF ch2
<1>8. CASE Timeout = "release"
  <2>1. Account(scope, state, res, ch2, today)
    <3>1. \A id \in DOMAIN res : ch2[id] = ch[id]
      BY <1>7, <1>8
    <3>2. \A id : Holds(state, id) => res[id].scope = scope
      BY <1>4
    <3>3. QED
      BY <1>3, <3>1, <3>2, AccountFrame
  <2>2. after.committed = state.committed
    BY <1>2, <1>8
  <2>3. \A id : Holds(after, id) =>
          /\ Holds(state, id)
          /\ Entry(after, id).provisional_period = Entry(state, id).provisional_period
          /\ Entry(after, id).expires_at = Entry(state, id).expires_at
    BY <1>5, <1>8
  <2>4. Account(scope, after, res, ch2, today)
    BY <1>2, <2>1, <2>2, <2>3, AccountShrink
  <2>5. QED
    BY <2>4 DEF after, ch2
<1>9. CASE Timeout = "commit"
  <2> DEFINE c == Units(res, E)
  <2>1. c \in Nat
    BY <1>6, CostedSums
  <2>2. Units(state.active, E) = c
    <3>1. \A id \in E : state.active[id].contribution = res[id].contribution
      BY <1>2, <1>4 DEF Holds, Entry
    <3>2. Summable(res, E)
      BY <1>6, CostedSums
    <3>3. QED
      BY <3>1, <3>2, UnitsSame
  <2>3. c <= state.reserved
    <3>1. E \in SUBSET DOMAIN state.active
      BY <1>2
    <3>2. /\ Summable(state.active, DOMAIN state.active)
          /\ Summable(state.active, E)
          /\ Summable(state.active, DOMAIN state.active \ E)
      <4>1. DOMAIN state.active \ E \in SUBSET DOMAIN state.active
            /\ DOMAIN state.active \in SUBSET DOMAIN state.active
        OBVIOUS
      <4>2. QED
        BY <4>1, <3>1, <1>1, SoundSums
    <3>3. /\ Units(state.active, DOMAIN state.active) =
               Units(state.active, E) + Units(state.active, DOMAIN state.active \ E)
          /\ Units(state.active, E) \in Nat
          /\ Units(state.active, DOMAIN state.active \ E) \in Nat
      BY <3>1, <3>2, UnitsSplit, UnitsNat
    <3>4. state.reserved = Units(state.active, DOMAIN state.active)
      BY <1>1 DEF Sound
    <3> HIDE DEF c
    <3>5. QED
      BY <3>3, <3>4, <2>2
  <2>4. \A id \in E : res[id].scope = scope /\ ch[id] = NoPeriod /\ ch2[id] = state.period
    <3>1. \A id \in E : Holds(state, id) /\ Entry(state, id) = state.active[id]
      BY <1>2 DEF Holds, Entry
    <3>2. QED
      BY <3>1, <1>2, <1>3, <1>4, <1>6, <1>7, <1>9
  <2>5. \A id \in DOMAIN res \ E : ch2[id] = ch[id]
    BY <1>7
  <2>6. after.committed = SatAdd(state.committed, c)
    BY <1>2, <1>9, <2>2
  <2>7. \A id : Holds(after, id) =>
          /\ id \in DOMAIN res
          /\ ch2[id] = Entry(after, id).provisional_period
          /\ Entry(after, id).expires_at = res[id].expires_at
    BY <1>4, <1>5, <1>7, <1>9
  <2> HIDE DEF c
  <2>8. c = Units(res, E)
    BY DEF c
  <2>9. Account(scope, after, res, ch2, today)
    BY <1>2, <1>6, <2>1, <2>3, <2>4, <2>5, <2>6, <2>7, <2>8, AccountCharge
  <2>10. QED
    BY <2>9 DEF after, ch2
<1>10. QED
  BY <1>8, <1>9, TimeoutAssumption

(* A scope touched and found idle owes nothing in the current period: to   *)
(* forget it is to know the same.                                          *)
LEMMA AccountEvict ==
  ASSUME NEW ids, NEW scope, NEW state, Sound(state, ids), NEW res, Costed(res), NEW ch,
         NEW today \in Nat, Account(scope, state, res, ch, today), IsIdle(state)
  PROVE  Account(scope, AtPeriod(0), res, ch, today)
<1> DEFINE new == AtPeriod(0)
<1>1. /\ new.period = 0 /\ new.committed = 0 /\ DOMAIN new.active = {}
      /\ DOMAIN new.reclaimed = {}
  BY DEF AtPeriod
<1>2. OwedIn(scope, 0, res, ch) \in Nat /\ OwedIn(scope, today, res, ch) \in Nat
  BY OwedNat
<1>3. U64Max # 0
  <2>1. MaxHeld * MaxUnits \in Nat /\ U64Max \in Nat /\ MaxHeld * MaxUnits < U64Max
    BY WidthAssumption, HeldAssumption
  <2>2. QED
    BY <2>1
<1>4. Tight => OwedIn(scope, today, res, ch) = 0
  <2>1. state.committed = 0
    BY DEF IsIdle
  <2>2. QED
    BY <2>1, <1>3 DEF Account
<1> HIDE DEF new
<1>5. Account(scope, new, res, ch, today)
  BY <1>1, <1>2, <1>4 DEF Account, Holds
<1>6. QED
  BY <1>5 DEF new

LEMMA AccountReindexed ==
  ASSUME NEW ids, NEW scope, NEW state, Sound(state, ids), NEW res, NEW ch, NEW today,
         Account(scope, state, res, ch, today)
  PROVE  Account(scope, Reindexed(state), res, ch, today)
<1> DEFINE after == Reindexed(state)
<1>1. /\ after.period = state.period /\ after.committed = state.committed
      /\ after.active = state.active /\ after.reclaimed = state.reclaimed
  BY ReindexedFacts
<1> HIDE DEF after
<1>2. \A id : (Holds(after, id) <=> Holds(state, id)) /\ Entry(after, id) = Entry(state, id)
  BY <1>1 DEF Holds, Entry
<1>3. Account(scope, after, res, ch, today)
  BY <1>1, <1>2 DEF Account
<1>4. QED
  BY <1>3 DEF after

(* A reservation given out is not charged.                                 *)
LEMMA AccountHold ==
  ASSUME NEW ids, NEW scope, NEW state, Sound(state, ids), NEW res, Costed(res), NEW ch,
         DOMAIN ch = DOMAIN res, NEW today \in Nat, Account(scope, state, res, ch, today),
         \A id : Holds(state, id) => res[id].scope = scope,
         NEW n, n \notin DOMAIN res, NEW c, NEW now, NEW r, r.expires_at = SatAdd(now, Ttl)
  PROVE  Account(scope, Hold(state, n, c, now), Put(res, n, r), Put(ch, n, NoPeriod), today)
<1> DEFINE res2 == Put(res, n, r)
           ch2 == Put(ch, n, NoPeriod)
           after == Hold(state, n, c, now)
<1>1. /\ DOMAIN res2 = DOMAIN res \cup {n} /\ res2[n] = r /\ ch2[n] = NoPeriod
      /\ \A id \in DOMAIN res : res2[id] = res[id] /\ ch2[id] = ch[id]
  BY DEF Put
<1> HIDE DEF res2, ch2
<1>2. state.period \in Nat
  BY DEF Sound
<1>3. Account(scope, state, res2, ch2, today)
  BY <1>1, <1>2, AccountFrame
<1>4. CASE c = 0
  <2>1. after = state
    BY <1>4 DEF Hold
  <2>2. QED
    BY <1>3, <2>1 DEF res2, ch2
<1>5. CASE c # 0
  <2>1. ~Holds(state, n)
    BY DEF Account
  <2>2. /\ after.period = state.period /\ after.committed = state.committed
        /\ after.reclaimed = state.reclaimed
        /\ DOMAIN after.active = DOMAIN state.active \cup {n}
        /\ \A id \in DOMAIN state.active : after.active[id] = state.active[id]
        /\ after.active[n].expires_at = SatAdd(now, Ttl)
        /\ after.active[n].provisional_period = NoPeriod
    BY <1>5, <2>1 DEF Hold, Sound, Holds
  <2> HIDE DEF after
  <2>3. \A id : Holds(after, id) =>
          /\ id \in DOMAIN res2
          /\ ch2[id] = Entry(after, id).provisional_period
          /\ Entry(after, id).expires_at = res2[id].expires_at
    <3> SUFFICES ASSUME NEW id, Holds(after, id)
                 PROVE  /\ id \in DOMAIN res2
                        /\ ch2[id] = Entry(after, id).provisional_period
                        /\ Entry(after, id).expires_at = res2[id].expires_at
      OBVIOUS
    <3>1. CASE id = n
      BY <3>1, <1>1, <2>2 DEF Entry
    <3>2. CASE id # n
      <4>1. Holds(state, id) /\ Entry(after, id) = Entry(state, id)
        BY <3>2, <2>2 DEF Holds, Entry
      <4>2. QED
        BY <4>1, <1>3 DEF Account
    <3>3. QED
      BY <3>1, <3>2
  <2>4. Account(scope, after, res2, ch2, today)
    BY <2>2, <2>3, <1>3 DEF Account
  <2>5. QED
    BY <2>4 DEF after, res2, ch2
<1>6. QED
  BY <1>4, <1>5

(* Refunding a reservation takes its units off what is owed.               *)
LEMMA OwedLess ==
  ASSUME NEW res, Costed(res), NEW ch, NEW ch2, NEW scope, NEW period \in Nat,
         NEW id \in DOMAIN res, res[id].scope = scope, ch[id] = period, ch2[id] = NoPeriod,
         \A i \in DOMAIN res \ {id} : ch2[i] = ch[i]
  PROVE  /\ OwedIn(scope, period, res, ch) =
              OwedIn(scope, period, res, ch2) + res[id].contribution
         /\ \A other \in Nat \ {period} :
              OwedIn(scope, other, res, ch2) = OwedIn(scope, other, res, ch)
<1> DEFINE old == ChargedIn(scope, period, res, ch)
           new == ChargedIn(scope, period, res, ch2)
<1>1. NoPeriod \notin Nat
  BY DEF NoPeriod
<1>2. old \ {id} = new /\ id \in old /\ old \in SUBSET DOMAIN res /\ new \in SUBSET DOMAIN res
  BY <1>1 DEF ChargedIn
<1> HIDE DEF old, new
<1>3. Units(res, old) = res[id].contribution + Units(res, new)
  <2>1. Summable(res, old)
    BY <1>2, CostedSums
  <2>2. Units(res, old) = res[id].contribution + Units(res, old \ {id})
    BY <1>2, <2>1, UnitsRemove
  <2>3. QED
    BY <1>2, <2>2, Zenon
<1>4. Units(res, new) \in Nat /\ res[id].contribution \in Nat
  BY <1>2, CostedSums, WidthAssumption DEF Costed
<1>5. ASSUME NEW other \in Nat \ {period}
      PROVE  OwedIn(scope, other, res, ch2) = OwedIn(scope, other, res, ch)
  <2>1. ChargedIn(scope, other, res, ch2) = ChargedIn(scope, other, res, ch)
    BY <1>1 DEF ChargedIn
  <2>2. QED
    BY <2>1 DEF OwedIn
<1>6. Units(res, old) = Units(res, new) + res[id].contribution
  BY <1>3, <1>4
<1>7. QED
  BY <1>5, <1>6 DEF OwedIn, old, new

LEMMA AccountSettle ==
  ASSUME NEW n, NEW res, NEW ch, NEW lt, History(n, res, ch, lt),
         NEW scope, NEW state, Books(scope, state, n, res, ch, lt), Costed(res),
         DOMAIN ch = DOMAIN res,
         NEW today \in Nat, Account(scope, state, res, ch, today),
         NEW id, NEW commit \in BOOLEAN
  PROVE  Account(scope, Settle(state, id, commit), res,
                 ChargedBy(ch, id, Outcome(state, id, commit), state.period), today)
<1> DEFINE after == Settle(state, id, commit)
           outcome == Outcome(state, id, commit)
           ch2 == ChargedBy(ch, id, outcome, state.period)
           entry == Entry(state, id)
           ids == 1 .. (n - 1)
<1>1. Sound(state, ids) /\ IsFiniteSet(ids)
  BY IdsFinite DEF Books, History
<1>2. /\ after.period = state.period
      /\ DOMAIN after.active = DOMAIN state.active \ {id}
      /\ DOMAIN after.reclaimed = DOMAIN state.reclaimed \ {id}
      /\ \A i \in DOMAIN after.active : after.active[i] = state.active[i]
      /\ \A i \in DOMAIN after.reclaimed : after.reclaimed[i] = state.reclaimed[i]
      /\ outcome \in {"committed", "late-committed"} =>
           /\ Holds(state, id) /\ entry.provisional_period = NoPeriod
           /\ after.committed = SatAdd(state.committed, entry.contribution)
      /\ outcome = "committed" => id \in DOMAIN state.active
      /\ outcome = "late-committed" => Timeout = "release"
      /\ outcome = "refunded" =>
           /\ Holds(state, id) /\ Timeout = "commit"
           /\ entry.provisional_period = state.period
           /\ after.committed = SatSub(state.committed, entry.contribution)
      /\ outcome \notin {"committed", "late-committed", "refunded"} =>
           after.committed = state.committed
  BY <1>1, SettleEntries
<1>3. \A i : Holds(state, i) =>
        /\ i \in DOMAIN res /\ res[i].scope = scope
        /\ res[i].contribution = Entry(state, i).contribution
        /\ ch[i] = Entry(state, i).provisional_period
        /\ Entry(state, i).expires_at = res[i].expires_at
  BY DEF Books, Account
<1> HIDE DEF after, outcome
<1>4. DOMAIN state.active \cap DOMAIN state.reclaimed = {}
  BY <1>1 DEF Sound, SoundMaps
<1>5. \A i : Holds(after, i) =>
        /\ Holds(state, i) /\ i # id
        /\ Entry(after, i) = Entry(state, i)
  BY <1>2, <1>4 DEF Holds, Entry
<1>6. \A i \in DOMAIN res \ {id} : ch2[i] = ch[i]
  BY DEF ChargedBy
<1>7. \A i : Holds(after, i) =>
        /\ i \in DOMAIN res
        /\ ch2[i] = Entry(after, i).provisional_period
        /\ Entry(after, i).expires_at = res[i].expires_at
  <2> HIDE DEF ch2
  <2>1. QED
    BY <1>3, <1>5, <1>6
<1>8. state.period \in Nat /\ state.committed \in Nat
  BY <1>1 DEF Sound
<1>9. CASE outcome \in {"committed", "late-committed"}
  <2>1. /\ Holds(state, id) /\ entry.provisional_period = NoPeriod
        /\ id \in DOMAIN res /\ res[id].scope = scope
        /\ res[id].contribution = entry.contribution /\ ch[id] = NoPeriod
    BY <1>2, <1>3, <1>9
  <2>2. ch2[id] = state.period
    BY <1>9, <2>1 DEF ChargedBy
  <2> DEFINE c == entry.contribution
             S == {id}
  <2>3. c \in Nat
    BY <2>1, WidthAssumption DEF Costed
  <2>4. c = Units(res, S)
    <3>1. Summable(res, S) /\ S \ {id} = {}
      BY <2>1, CostedSums
    <3>2. Units(res, S) = res[id].contribution + Units(res, S \ {id})
      BY <3>1, UnitsRemove
    <3>3. Units(res, S \ {id}) = 0
      BY <3>1, UnitsEmpty
    <3> HIDE DEF S
    <3>4. QED
      BY <2>1, <2>3, <3>2, <3>3
  <2>5. c <= state.reserved \/ Timeout = "release"
    <3>1. CASE outcome = "committed"
      <4>1. /\ id \in DOMAIN state.active
            /\ entry = state.active[id]
        BY <1>2, <3>1 DEF Entry
      <4>2. DOMAIN state.active \in SUBSET DOMAIN state.active
            /\ DOMAIN state.active \ {id} \in SUBSET DOMAIN state.active
        OBVIOUS
      <4>3. Summable(state.active, DOMAIN state.active)
            /\ Summable(state.active, DOMAIN state.active \ {id})
        BY <4>2, <1>1, SoundSums
      <4>4. /\ state.reserved = c + Units(state.active, DOMAIN state.active \ {id})
            /\ Units(state.active, DOMAIN state.active \ {id}) \in Nat
        BY <4>1, <4>3, <1>1, UnitsRemove, UnitsNat DEF Sound
      <4> HIDE DEF c
      <4>5. QED
        BY <4>4, <2>3
    <3>2. CASE outcome = "late-committed"
      BY <1>2, <3>2
    <3>3. QED
      BY <1>9, <3>1, <3>2
  <2>6. after.committed = SatAdd(state.committed, c)
    BY <1>2, <1>9
  <2>7. /\ S \in SUBSET DOMAIN res
        /\ \A i \in S : res[i].scope = scope /\ ch[i] = NoPeriod /\ ch2[i] = state.period
    BY <2>1, <2>2
  <2> HIDE DEF c, ch2
  <2>8. \A i \in DOMAIN res \ S : ch2[i] = ch[i]
    BY <1>6
  <2> HIDE DEF S
  <2>9. Account(scope, after, res, ch2, today)
    BY <1>2, <1>7, <2>3, <2>4, <2>5, <2>6, <2>7, <2>8, AccountCharge
  <2>10. QED
    BY <2>9 DEF after, outcome, ch2
<1>10. CASE outcome = "refunded"
  <2> DEFINE c == entry.contribution
             period == state.period
             owed == OwedIn(scope, period, res, ch)
             owes == OwedIn(scope, period, res, ch2)
  <2>1. /\ id \in DOMAIN res /\ res[id].scope = scope /\ ch[id] = period
        /\ res[id].contribution = c /\ Timeout = "commit"
        /\ after.committed = SatSub(state.committed, c)
    BY <1>2, <1>3, <1>10
  <2>2. ch2[id] = NoPeriod
    BY <1>10, <2>1 DEF ChargedBy
  <2> HIDE DEF ch2
  <2>3. /\ owed = owes + c
        /\ \A other \in Nat \ {period} :
             OwedIn(scope, other, res, ch2) = OwedIn(scope, other, res, ch)
    BY <1>6, <1>8, <2>1, <2>2, OwedLess
  <2>4. owed \in Nat /\ owes \in Nat /\ c \in Nat
    BY <2>1, OwedNat, WidthAssumption DEF Costed
  <2>5. state.committed <= owed /\ period <= today
    BY DEF Account
  <2>6. Tight => Exact
    BY <2>1 DEF Tight, Exact
  <2>7. Tight /\ period = today => state.committed = owed
    <3>1. Tight /\ period = today =>
            \/ state.committed = OwedIn(scope, today, res, ch)
            \/ ~Exact /\ state.committed = U64Max
      BY DEF Account
    <3>2. QED
      BY <2>6, <3>1
  <2>8. Tight /\ period # today => OwedIn(scope, today, res, ch2) = 0
    <3>1. Tight /\ period # today => OwedIn(scope, today, res, ch) = 0
      BY DEF Account
    <3>2. QED
      BY <2>3, <3>1
  <2>9. after.committed <= owes
    <3> HIDE DEF owed, owes, c
    <3>1. QED
      BY <1>8, <2>1, <2>3, <2>4, <2>5 DEF SatSub
  <2>10. Tight /\ period = today => after.committed = OwedIn(scope, today, res, ch2)
    <3>1. Tight /\ period = today => after.committed = owes
      <4> HIDE DEF owed, owes, c
      <4>1. QED
        BY <1>8, <2>1, <2>3, <2>4, <2>7, SatSubFacts
    <3>2. QED
      BY <3>1
  <2>11. Account(scope, after, res, ch2, today)
    BY <1>2, <1>7, <2>5, <2>8, <2>9, <2>10 DEF Account
  <2>12. QED
    BY <2>11 DEF after, outcome, ch2
<1>11. CASE outcome \notin {"committed", "late-committed", "refunded"}
  <2>1. ch2 = ch
    BY <1>11 DEF ChargedBy
  <2>2. after.committed = state.committed
    BY <1>2, <1>11
  <2>3. Account(scope, after, res, ch, today)
    <3>1. \A i : Holds(after, i) =>
            /\ Holds(state, i)
            /\ Entry(after, i).provisional_period = Entry(state, i).provisional_period
            /\ Entry(after, i).expires_at = Entry(state, i).expires_at
      BY <1>5
    <3>2. QED
      BY <1>2, <2>2, <3>1, AccountShrink
  <2>4. QED
    BY <2>1, <2>3 DEF after, outcome, ch2
<1>12. QED
  BY <1>9, <1>10, <1>11

-----------------------------------------------------------------------------
LEMMA PeriodMonotone ==
  ASSUME NEW a \in Nat, NEW b \in Nat, a <= b
  PROVE  Period(a) <= Period(b)
<1>1. CASE Window = 0
  BY <1>1 DEF Period
<1>2. CASE Window # 0
  <2>1. Window \in Nat \ {0}
    BY <1>2, WindowAssumption
  <2>2. a \div Window <= b \div Window
    BY <2>1
  <2>3. QED
    BY <1>2, <2>2 DEF Period
<1>3. QED
  BY <1>1, <1>2

(* Only the expired holds of the scope touched are charged, in the period  *)
(* of its state.                                                           *)
LEMMA TouchCharges ==
  ASSUME NEW ids, NEW state, Sound(state, ids), NEW ch, NEW now \in Nat
  PROVE  LET rolled == Roll(state, Period(now))
             ch2 == ChargeExpired(ch, state, now)
         IN  /\ ch2 = ExpiredCharge(ch, rolled, now)
             /\ DOMAIN ch2 = DOMAIN ch
             /\ \A id \in DOMAIN ch :
                  \/ ch2[id] = ch[id]
                  \/ id \in DOMAIN state.active /\ ch2[id] = rolled.period
<1> DEFINE rolled == Roll(state, Period(now))
<1>1. rolled.active = state.active
  BY DEF Roll, Sound
<1>2. ChargeExpired(ch, state, now) = ExpiredCharge(ch, rolled, now)
  BY DEF ChargeExpired, ExpiredCharge
<1>3. Expired(rolled, now) \subseteq DOMAIN state.active
  BY <1>1 DEF Expired
<1> HIDE DEF rolled
<1>4. QED
  BY <1>2, <1>3 DEF ExpiredCharge, rolled

LEMMA AccountTouch ==
  ASSUME NEW n, NEW res, NEW ch, NEW lt, History(n, res, ch, lt),
         NEW scope, NEW state, Books(scope, state, n, res, ch, lt), Costed(res),
         DOMAIN ch = DOMAIN res, NEW today \in Nat, NEW now \in Nat, Period(now) <= today,
         Account(scope, state, res, ch, today)
  PROVE  Account(scope, Touch(state, now), res, ChargeExpired(ch, state, now), today)
<1> DEFINE rolled == Roll(state, Period(now))
<1>1. Sound(state, 1 .. (n - 1))
  BY DEF Books
<1>2. Books(scope, rolled, n, res, ch, lt)
  BY BooksRoll
<1>3. Account(scope, rolled, res, ch, today)
  BY <1>1, PeriodNat, AccountRoll
<1>4. ChargeExpired(ch, state, now) = ExpiredCharge(ch, rolled, now)
  BY <1>1, TouchCharges
<1>5. Touch(state, now) = Reclaim(rolled, now)
  BY DEF Touch
<1> HIDE DEF rolled
<1>6. QED
  BY <1>2, <1>3, <1>4, <1>5, AccountReclaim

(* Every scope's account, for a table in which a scope may be missing.     *)
AccountsIn(table, res, ch, today) ==
  \A scope \in Scopes : Account(scope, StateOf(table, scope), res, ch, today)

(* A table that holds only right books holds nothing of another scope.     *)
LEMMA StateOfFacts ==
  ASSUME NEW table, NEW index, NEW n, NEW res, NEW ch, NEW lt, History(n, res, ch, lt),
         Table(table, index, n, res, ch, lt), NEW scope
  PROVE  /\ Books(scope, StateOf(table, scope), n, res, ch, lt)
         /\ Sound(StateOf(table, scope), 1 .. (n - 1))
         /\ StateOf(table, scope).period \in Nat
         /\ \A id : Holds(StateOf(table, scope), id) => res[id].scope = scope
<1>1. Books(scope, StateOf(table, scope), n, res, ch, lt)
  BY BooksNew DEF StateOf, Table
<1>2. QED
  BY <1>1 DEF Books, Sound

(* Putting one scope's state back, with what it charged.                   *)
LEMMA AccountsPut ==
  ASSUME NEW table, NEW index, NEW n, NEW res, NEW ch, NEW lt, History(n, res, ch, lt),
         Table(table, index, n, res, ch, lt), Costed(res),
         NEW today \in Nat, AccountsIn(table, res, ch, today),
         NEW res2, NEW ch2, DOMAIN res \subseteq DOMAIN res2,
         \A id \in DOMAIN res : res2[id] = res[id],
         NEW scope, \A id \in DOMAIN res : res[id].scope # scope => ch2[id] = ch[id],
         \A id \in DOMAIN res2 \ DOMAIN res : ch2[id] = NoPeriod,
         NEW after, NEW ids, Sound(after, ids), Account(scope, after, res2, ch2, today)
  PROVE  AccountsIn(Put(table, scope, Reindexed(after)), res2, ch2, today)
<1> DEFINE table2 == Put(table, scope, Reindexed(after))
<1>1. /\ DOMAIN table2 = DOMAIN table \cup {scope}
      /\ table2[scope] = Reindexed(after)
      /\ \A s \in DOMAIN table \ {scope} : table2[s] = table[s]
  BY DEF Put
<1> HIDE DEF table2
<1>2. ASSUME NEW s \in Scopes
      PROVE  Account(s, StateOf(table2, s), res2, ch2, today)
  <2>1. CASE s = scope
    BY <1>1, <2>1, AccountReindexed DEF StateOf
  <2>2. CASE s # scope
    <3>1. StateOf(table2, s) = StateOf(table, s)
      BY <1>1, <2>2 DEF StateOf
    <3>2. /\ StateOf(table, s).period \in Nat
          /\ \A id : Holds(StateOf(table, s), id) => res[id].scope = s
      BY StateOfFacts
    <3>3. Account(s, StateOf(table, s), res, ch, today)
      BY DEF AccountsIn
    <3>4. \A id \in DOMAIN res : res[id].scope = s => ch2[id] = ch[id]
      BY <2>2
    <3>5. Account(s, StateOf(table, s), res2, ch2, today)
      BY <3>2, <3>3, <3>4, AccountFrame
    <3>6. QED
      BY <3>1, <3>5
  <2>3. QED
    BY <2>1, <2>2
<1>3. AccountsIn(table2, res2, ch2, today)
  BY <1>2 DEF AccountsIn
<1>4. QED
  BY <1>3 DEF table2

(* The reservations, and when they were given out and charged.             *)
Dated ==
  /\ next_id <= MaxId + 1
  /\ clock \in Nat \ {0} /\ clock <= MaxClock + 1
  /\ \A id \in DOMAIN reservations :
       /\ charged[id] <= Period(clock)
       /\ reservations[id].created_at <= clock
       /\ reservations[id].expires_at = SatAdd(reservations[id].created_at, Ttl)

AInv ==
  /\ Dated
  /\ AccountsIn(scopes, reservations, charged, Period(clock))

LEMMA ReservationsCosted ==
  ASSUME HistoryOK, next_id <= MaxId + 1
  PROVE  Costed(reservations)
<1>1. next_id - 1 \in Nat /\ DOMAIN reservations \subseteq 1 .. (next_id - 1)
      /\ MaxId \in Nat /\ next_id - 1 <= MaxId
  BY BoundsAssumption DEF HistoryOK, Ids
<1>2. IsFiniteSet(1 .. (next_id - 1)) /\ Cardinality(1 .. (next_id - 1)) = next_id - 1
  <2>1. 1 \in Int /\ next_id - 1 \in Int
    BY <1>1
  <2>2. Cardinality(1 .. (next_id - 1)) =
          IF 1 > next_id - 1 THEN 0 ELSE (next_id - 1) - 1 + 1
    BY <2>1, FS_Interval
  <2>3. QED
    BY <1>1, <2>1, <2>2, FS_Interval
<1>3. IsFiniteSet(DOMAIN reservations)
      /\ Cardinality(DOMAIN reservations) <= Cardinality(1 .. (next_id - 1))
  BY <1>1, <1>2, FS_Subset
<1>4. Cardinality(DOMAIN reservations) \in Nat
  BY <1>3, FS_CardinalityType
<1>5. \A id \in DOMAIN reservations : reservations[id].contribution \in 0 .. MaxUnits
  BY ContributionsAssumption DEF HistoryOK
<1>6. QED
  BY <1>1, <1>2, <1>3, <1>4, <1>5 DEF Costed

-----------------------------------------------------------------------------
(* A call let in keeps every account, whatever becomes of it.              *)
LEMMA AdmittedAccounts ==
  ASSUME HistoryOK, Dated,
         NEW table, NEW index, Table(table, index, next_id, reservations, charged, late),
         AccountsIn(table, reservations, charged, Period(clock)),
         NEW counters, NEW scope \in Scopes,
         NEW contribution \in Contributions, NEW now \in Stamps,
         Admitted(scope, contribution, now, table, index, counters),
         UNCHANGED clock
  PROVE  AInv'
<1> DEFINE before  == StateOf(table, scope)
           touched == Touch(before, now)
           over    == Mode = "block" /\ OverBudget(touched, contribution, Budget)
           full    == contribution > 0 /\ Saturated(touched)
           after   == IF over \/ full THEN touched ELSE Hold(touched, next_id, contribution, now)
           ch      == ChargeExpired(charged, before, now)
           ids     == 1 .. (next_id - 1)
           r       == [scope |-> scope, contribution |-> contribution,
                       created_at |-> now, expires_at |-> SatAdd(now, Ttl)]
           today   == Period(clock)
           rolled  == Roll(before, Period(now))
           Agrees  == /\ DOMAIN reservations \subseteq DOMAIN reservations'
                      /\ \A id \in DOMAIN reservations : reservations'[id] = reservations[id]
                      /\ \A id \in DOMAIN reservations' \ DOMAIN reservations :
                           /\ charged'[id] = NoPeriod
                           /\ reservations'[id] = r
                      /\ \A id \in DOMAIN reservations : charged'[id] = ch[id]
                      /\ Account(scope, after, reservations', charged', today)
<1>1. /\ History(next_id, reservations, charged, late)
      /\ DOMAIN charged = DOMAIN reservations
      /\ next_id \notin DOMAIN reservations
      /\ next_id \in Nat \ {0} /\ clock \in Nat \ {0} /\ clock' = clock
      /\ Costed(reservations)
  BY HistoryTypes, ReservationsCosted DEF HistoryOK, Dated
<1>2. /\ scopes' = Put(table, scope, Reindexed(after))
      /\ next_id' = IF over THEN next_id ELSE next_id + 1
      /\ reservations' = IF over \/ full THEN reservations ELSE Put(reservations, next_id, r)
      /\ charged' = IF over \/ full THEN ch ELSE Put(ch, next_id, NoPeriod)
      /\ over \/ next_id <= MaxId
      /\ after = IF over \/ full THEN touched ELSE Hold(touched, next_id, contribution, now)
      /\ r.created_at = now /\ r.expires_at = SatAdd(now, Ttl)
      /\ ~full => (contribution > 0 => ~Saturated(touched))
  BY DEF Admitted, StateOf
<1>3. now \in Nat /\ now <= clock
  BY <1>1 DEF Stamps
<1>4. today \in Nat /\ Period(now) <= today
  BY <1>1, <1>3, PeriodNat, PeriodMonotone
<1>5. /\ Books(scope, before, next_id, reservations, charged, late)
      /\ Sound(before, ids) /\ before.period \in Nat
      /\ \A id : Holds(before, id) => reservations[id].scope = scope
  BY <1>1, StateOfFacts
<1>6. Account(scope, before, reservations, charged, today)
  BY DEF AccountsIn
<1> HIDE DEF before, today
<1>7. Account(scope, touched, reservations, ch, today)
  BY <1>1, <1>3, <1>4, <1>5, <1>6, AccountTouch
<1>8. /\ DOMAIN ch = DOMAIN reservations
      /\ \A id \in DOMAIN reservations :
           \/ ch[id] = charged[id]
           \/ id \in DOMAIN before.active /\ ch[id] = rolled.period
  BY <1>1, <1>3, <1>5, TouchCharges
<1>9. rolled.period <= today
  <2>1. Account(scope, rolled, reservations, charged, today)
    BY <1>1, <1>3, <1>4, <1>5, <1>6, PeriodNat, AccountRoll
  <2>2. QED
    BY <2>1 DEF Account
<1>10. Sound(touched, ids) /\ touched.period \in Nat
       /\ \A id : Holds(touched, id) => reservations[id].scope = scope
  <2>1. Books(scope, touched, next_id, reservations, charged, late)
    BY <1>1, <1>3, <1>5, BooksTouch
  <2>2. QED
    BY <2>1 DEF Books, Sound
<1> HIDE DEF ch, touched, ids, rolled, after, over, full, r
<1>11. ASSUME over \/ full PROVE Agrees
  <2>1. reservations' = reservations /\ charged' = ch /\ after = touched
    BY <1>2, <1>11
  <2>2. Agrees
    BY <1>7, <2>1
  <2>3. QED
    BY <2>2
<1>12. ASSUME ~(over \/ full) PROVE Agrees
  <2>1. /\ reservations' = Put(reservations, next_id, r)
        /\ charged' = Put(ch, next_id, NoPeriod)
        /\ after = Hold(touched, next_id, contribution, now)
    BY <1>2, <1>12
  <2>2. r.expires_at = SatAdd(now, Ttl)
    BY <1>2
  <2>3. Account(scope, after, reservations', charged', today)
    BY <1>1, <1>4, <1>7, <1>8, <1>10, <2>1, <2>2, AccountHold
  <2>4. /\ DOMAIN reservations' = DOMAIN reservations \cup {next_id}
        /\ reservations'[next_id] = r /\ charged'[next_id] = NoPeriod
        /\ \A id \in DOMAIN reservations :
             reservations'[id] = reservations[id] /\ charged'[id] = ch[id]
    BY <1>1, <1>8, <2>1 DEF Put
  <2>5. Agrees
    BY <2>3, <2>4
  <2>6. QED
    BY <2>5
<1>13. Agrees
  BY <1>11, <1>12
<1>14. Sound(after, 1 .. next_id)
  <2>1. Sound(touched, 1 .. next_id)
    <3>1. ids \subseteq 1 .. next_id
      BY <1>1 DEF ids
    <3>2. QED
      BY <1>10, <3>1 DEF Sound, SoundMaps
  <2>2. ASSUME ~over, ~full
        PROVE  Sound(Hold(touched, next_id, contribution, now), 1 .. next_id)
    <3>1. IsFiniteSet(1 .. next_id) /\ next_id \in 1 .. next_id
      BY <1>1, FS_Interval
    <3>2. ~Holds(touched, next_id)
      BY <1>1, <1>7 DEF Account
    <3>3. contribution \in 0 .. MaxUnits
      BY ContributionsAssumption
    <3>4. contribution > 0 => ~Saturated(touched)
      BY <1>2, <2>2
    <3>5. QED
      BY <1>3, <2>1, <3>1, <3>2, <3>3, <3>4, HoldSound
  <2>3. QED
    BY <1>2, <2>1, <2>2
<1>15. AccountsIn(scopes', reservations', charged', today)
  <2>1. \A id \in DOMAIN reservations :
          reservations[id].scope # scope => charged'[id] = charged[id]
    <3>1. \A id \in DOMAIN before.active : Holds(before, id)
      BY DEF Holds
    <3>2. QED
      BY <1>5, <1>8, <1>13, <3>1
  <2>2. QED
    BY <1>1, <1>2, <1>4, <1>13, <1>14, <2>1, AccountsPut DEF today
<1>16. Dated'
  <2>1. next_id' <= MaxId + 1
    BY <1>1, <1>2, BoundsAssumption DEF Dated
  <2>2. \A id \in DOMAIN reservations' :
          /\ charged'[id] <= today
          /\ reservations'[id].created_at <= clock
          /\ reservations'[id].expires_at = SatAdd(reservations'[id].created_at, Ttl)
    <3> SUFFICES ASSUME NEW id \in DOMAIN reservations'
                 PROVE  /\ charged'[id] <= today
                        /\ reservations'[id].created_at <= clock
                        /\ reservations'[id].expires_at = SatAdd(reservations'[id].created_at, Ttl)
      OBVIOUS
    <3>1. CASE id \in DOMAIN reservations
      <4>1. /\ reservations'[id] = reservations[id]
            /\ charged'[id] = charged[id] \/ charged'[id] = rolled.period
        BY <1>8, <1>13, <3>1
      <4>2. QED
        BY <1>9, <3>1, <4>1 DEF Dated, today
    <3>2. CASE id \notin DOMAIN reservations
      <4>1. reservations'[id] = r /\ charged'[id] = NoPeriod
        BY <1>13, <3>2
      <4>2. NoPeriod <= today
        BY <1>4 DEF NoPeriod
      <4>3. QED
        BY <1>2, <1>3, <4>1, <4>2
    <3>3. QED
      BY <3>1, <3>2
  <2>3. QED
    BY <1>1, <2>1, <2>2 DEF Dated, today
<1>17. QED
  BY <1>1, <1>15, <1>16 DEF AInv, today

(* A reclaim leaves no hold expired, so a second one finds nothing more.   *)
LEMMA NothingExpired ==
  ASSUME NEW ids, IsFiniteSet(ids), NEW state, Sound(state, ids), NEW now \in Nat,
         NEW id, NEW commit \in BOOLEAN
  PROVE  Expired(Settle(Reclaim(state, now), id, commit), now) = {}
<1> DEFINE ready == Reclaim(state, now)
           done == Settle(ready, id, commit)
<1>1. /\ DOMAIN ready.active = DOMAIN state.active \ Expired(state, now)
      /\ \A i \in DOMAIN ready.active : ready.active[i] = state.active[i]
  BY ReclaimEntries
<1>2. Sound(ready, ids)
  BY ReclaimSound
<1> HIDE DEF ready
<1>3. /\ DOMAIN done.active = DOMAIN ready.active \ {id}
      /\ \A i \in DOMAIN done.active : done.active[i] = ready.active[i]
  BY <1>2, SettleEntries
<1> HIDE DEF done
<1>4. \A i \in DOMAIN done.active :
        done.active[i] = state.active[i] /\ i \notin Expired(state, now)
                                    /\ i \in DOMAIN state.active
  BY <1>1, <1>3
<1>5. Expired(done, now) = {}
  BY <1>4 DEF Expired
<1>6. QED
  BY <1>5 DEF ready, done

(* The stages of a settlement on a scope's state, and of its charges.      *)
Ready(state, now) ==
  IF Timeout = "commit" THEN Reclaim(Roll(state, Period(now)), now) ELSE Roll(state, Period(now))

Done(state, id, commit, now) == Settle(Ready(state, now), id, commit)

After(state, id, commit, now) == Reclaim(Done(state, id, commit, now), now)

ReadyCharges(ch, state, now) ==
  IF Timeout = "commit" THEN ChargeExpired(ch, Roll(state, Period(now)), now) ELSE ch

AfterCharges(ch, state, id, commit, now) ==
  ChargedBy(ReadyCharges(ch, state, now), id, Outcome(Ready(state, now), id, commit),
            Ready(state, now).period)

(* A settlement on a scope's state, and the reclaims around it, keep its   *)
(* account.                                                                *)
LEMMA AccountSettling ==
  ASSUME NEW n, NEW res, NEW ch, NEW lt, History(n, res, ch, lt),
         NEW scope, NEW state, Books(scope, state, n, res, ch, lt), Costed(res),
         DOMAIN ch = DOMAIN res, NEW now \in Nat,
         Account(scope, state, res, ch, Period(now)),
         NEW id, NEW commit \in BOOLEAN
  PROVE  LET ready == Ready(state, now)
             after == After(state, id, commit, now)
             chr   == ReadyCharges(ch, state, now)
         IN  /\ Sound(Roll(state, Period(now)), 1 .. (n - 1))
             /\ Sound(ready, 1 .. (n - 1)) /\ ready.period = Period(now)
             /\ Sound(after, 1 .. (n - 1))
             /\ \A i : Holds(ready, i) => i \in DOMAIN res /\ res[i].scope = scope
             /\ Account(scope, ready, res, chr, Period(now))
             /\ chr = (IF Timeout = "commit"
                       THEN ExpiredCharge(ch, Roll(state, Period(now)), now) ELSE ch)
             /\ \A i \in DOMAIN res :
                  \/ chr[i] = ch[i]
                  \/ i \in DOMAIN state.active /\ chr[i] = Period(now)
             /\ Expired(Done(state, id, commit, now), now) = {} \/ Timeout = "release"
             /\ Account(scope, after, res, AfterCharges(ch, state, id, commit, now), Period(now))
<1> DEFINE rolled == Roll(state, Period(now))
           ready  == IF Timeout = "commit" THEN Reclaim(rolled, now) ELSE rolled
           outcome == Outcome(ready, id, commit)
           done   == Settle(ready, id, commit)
           after  == Reclaim(done, now)
           chr    == IF Timeout = "commit" THEN ChargeExpired(ch, rolled, now) ELSE ch
           ch2    == ChargedBy(chr, id, outcome, ready.period)
           lt2    == LateBy(lt, id, outcome)
           today  == Period(now)
           ids    == 1 .. (n - 1)
<1>1. today \in Nat /\ n \in Nat /\ IsFiniteSet(ids)
  BY PeriodNat, IdsFinite DEF History
<1>2. /\ Books(scope, rolled, n, res, ch, lt) /\ Sound(rolled, ids) /\ Sound(state, ids)
      /\ rolled.period \in Nat
  <2>1. Books(scope, rolled, n, res, ch, lt)
    BY BooksRoll
  <2>2. QED
    BY <2>1 DEF Books, Sound
<1>3. /\ Account(scope, rolled, res, ch, today) /\ rolled.period = today
      /\ rolled.active = state.active
  <2>1. Account(scope, rolled, res, ch, today)
    BY <1>1, <1>2, AccountRoll
  <2>2. state.period \in Nat /\ state.period <= today
    BY <1>2 DEF Sound, Account
  <2>3. rolled.period = today /\ rolled.active = state.active
    BY <1>1, <1>2, <2>2 DEF Roll, Sound
  <2>4. QED
    BY <2>1, <2>3
<1>4. Roll(rolled, today) = rolled
  BY <1>1, <1>3 DEF Roll
<1> HIDE DEF rolled, today, ids
<1>5. chr = (IF Timeout = "commit" THEN ExpiredCharge(ch, rolled, now) ELSE ch)
  BY <1>4 DEF ChargeExpired, ExpiredCharge, today
<1> HIDE DEF chr
<1>6. /\ DOMAIN chr = DOMAIN res
      /\ \A i \in DOMAIN res :
           \/ chr[i] = ch[i]
           \/ i \in DOMAIN state.active /\ chr[i] = today /\ Timeout = "commit"
  BY <1>3, <1>5 DEF ExpiredCharge, Expired
<1>7. /\ Books(scope, ready, n, res, ch, lt) /\ Sound(ready, ids)
      /\ \A i : Holds(ready, i) => i \in DOMAIN res /\ res[i].scope = scope
  <2>1. Books(scope, ready, n, res, ch, lt)
    BY <1>2, BooksReclaim
  <2>2. QED
    BY <2>1 DEF Books, ids
<1>8. ready.period = today
  BY <1>2, <1>3, ReclaimEntries
<1>9. Account(scope, ready, res, chr, today)
  BY <1>1, <1>2, <1>3, <1>5, AccountReclaim
<1>10. History(n, res, chr, lt) /\ Books(scope, ready, n, res, chr, lt)
  <2>1. History(n, res, chr, lt)
    BY <1>6 DEF History
  <2>2. \A i \in lt : chr[i] = ch[i]
    BY <1>6 DEF History
  <2>3. n <= n
    BY <1>1
  <2> HIDE DEF ready
  <2>4. QED
    BY <2>1, <2>2, <2>3, <1>7, BooksFrame
<1>11. Expired(done, now) = {} \/ Timeout = "release"
  <2>1. CASE Timeout = "commit"
    <3>1. ready = Reclaim(rolled, now)
      BY <2>1
    <3> HIDE DEF ready
    <3>2. Expired(Settle(Reclaim(rolled, now), id, commit), now) = {}
      BY <1>1, <1>2, NothingExpired
    <3>3. QED
      BY <3>1, <3>2
  <2>2. QED
    BY <2>1, TimeoutAssumption
<1> HIDE DEF ready
<1>12. /\ History(n, res, ch2, lt2) /\ Books(scope, done, n, res, ch2, lt2)
       /\ Account(scope, done, res, ch2, today)
  <2>1. History(n, res, ch2, lt2) /\ Books(scope, done, n, res, ch2, lt2)
    BY <1>6, <1>10, BooksSettle
  <2>2. Account(scope, done, res, ch2, today)
    BY <1>1, <1>6, <1>9, <1>10, AccountSettle
  <2>3. QED
    BY <2>1, <2>2
<1>13. DOMAIN ch2 = DOMAIN res
  BY <1>6 DEF ChargedBy
<1> HIDE DEF done, ch2, lt2
<1>14. Account(scope, after, res, ExpiredCharge(ch2, done, now), today)
  BY <1>1, <1>12, <1>13, AccountReclaim
<1>15. \A i \in DOMAIN res : ch2[i] = ExpiredCharge(ch2, done, now)[i]
  BY <1>11, <1>13 DEF ExpiredCharge
<1>16. /\ Sound(after, ids) /\ after.period \in Nat
       /\ \A i : Holds(after, i) => res[i].scope = scope
  <2>1. Books(scope, after, n, res, ch2, lt2)
    BY <1>12, BooksReclaim
  <2>2. QED
    BY <2>1 DEF Books, Sound, ids
<1> HIDE DEF after
<1>17. Account(scope, after, res, ch2, today)
  BY <1>1, <1>14, <1>15, <1>16, AccountFrame
<1>18. QED
  BY <1>2, <1>3, <1>5, <1>6, <1>7, <1>8, <1>9, <1>11, <1>16, <1>17
     DEF rolled, ready, outcome, done, after, chr, ch2, today, ids,
         Ready, Done, After, ReadyCharges, AfterCharges

LEMMA SettleTrackedAccounts ==
  ASSUME IInv, AInv, NEW id \in DOMAIN reservations, NEW commit \in BOOLEAN,
         SettleTracked(id, commit), UNCHANGED <<next_id, clock, reservations>>
  PROVE  AInv'
<1> DEFINE scope   == reservations[id].scope
           state   == scopes[scope]
           ready   == Ready(state, clock)
           after   == After(state, id, commit, clock)
           ch      == ReadyCharges(charged, state, clock)
           outcome == Outcome(ready, id, commit)
           today   == Period(clock)
<1>1. /\ History(next_id, reservations, charged, late)
      /\ DOMAIN charged = DOMAIN reservations
      /\ Costed(reservations) /\ clock \in Nat /\ today \in Nat
      /\ scope \in Scopes /\ scope \in Tracked
      /\ next_id' = next_id /\ reservations' = reservations /\ clock' = clock
      /\ Table(scopes, idle_index, next_id, reservations, charged, late)
  BY HistoryTypes, ReservationsCosted, PeriodNat
     DEF IInv, AInv, HistoryOK, Dated, SettleTracked
<1>2. /\ scopes' = Put(scopes, scope, Reindexed(after))
      /\ charged' = AfterCharges(charged, state, id, commit, clock)
  <2>1. \A st : [scopes EXCEPT ![scope] = st] = Put(scopes, scope, st)
    BY <1>1, ExceptIsPut DEF Tracked
  <2>2. QED
    BY <2>1 DEF SettleTracked, ChargedBy, Ready, Done, After, ReadyCharges, AfterCharges
<1>3. /\ Books(scope, state, next_id, reservations, charged, late)
      /\ Account(scope, state, reservations, charged, today)
  BY <1>1 DEF Table, Tracked, AInv, AccountsIn, StateOf
<1> HIDE DEF state
<1>4. /\ Sound(after, 1 .. (next_id - 1)) /\ ready.period = today
      /\ \A i : Holds(ready, i) => i \in DOMAIN reservations /\ reservations[i].scope = scope
      /\ \A i \in DOMAIN reservations :
           \/ ch[i] = charged[i]
           \/ i \in DOMAIN state.active /\ ch[i] = today
      /\ Account(scope, after, reservations, charged', today)
  <2> HIDE DEF scope
  <2>1. QED
    BY <1>1, <1>2, <1>3, AccountSettling
<1> HIDE DEF after, ch, outcome, ready, today
<1>5. \A i \in DOMAIN reservations :
        \/ charged'[i] = charged[i]
        \/ charged'[i] <= today /\ (i = id \/ i \in DOMAIN state.active)
  <2> SUFFICES ASSUME NEW i \in DOMAIN reservations
               PROVE  \/ charged'[i] = charged[i]
                      \/ charged'[i] <= today /\ (i = id \/ i \in DOMAIN state.active)
    OBVIOUS
  <2>1. DOMAIN ch = DOMAIN reservations
    BY <1>1 DEF ch, ReadyCharges, ChargeExpired
  <2>2. charged'[i] = ch[i] \/ (i = id /\ charged'[i] \in {today, NoPeriod})
    BY <1>2, <1>4, <2>1 DEF AfterCharges, ChargedBy, ch, ready
  <2>3. NoPeriod <= today /\ today <= today
    BY <1>1 DEF NoPeriod
  <2>4. QED
    BY <1>1, <1>4, <2>2, <2>3
<1>6. \A i \in DOMAIN state.active : reservations[i].scope = scope
  BY <1>3 DEF Books, Holds
<1>7. AccountsIn(scopes', reservations, charged', today)
  <2>1. \A i \in DOMAIN reservations : reservations[i].scope # scope => charged'[i] = charged[i]
    BY <1>5, <1>6
  <2>2. AccountsIn(scopes, reservations, charged, today)
    BY DEF AInv, today
  <2> HIDE DEF scope
  <2>3. QED
    BY <1>1, <1>2, <1>4, <2>1, <2>2, AccountsPut
<1>8. Dated'
  <2>1. \A i \in DOMAIN reservations : charged'[i] <= today
    BY <1>5 DEF AInv, Dated, today
  <2>2. QED
    BY <1>1, <2>1 DEF AInv, Dated, today
<1>9. QED
  BY <1>1, <1>7, <1>8 DEF AInv, today

(* A touched scope that turns out busy keeps its account too.              *)
LEMMA BusyVictimAccounts ==
  ASSUME IInv, AInv, NEW scope, NEW now \in Stamps, RefuseBusyVictim(scope, now)
  PROVE  AInv'
<1>1. PICK entry \in Victims(now) :
        /\ scopes' = [scopes EXCEPT ![entry[2]] = Reindexed(Touch(scopes[entry[2]], now))]
        /\ charged' = ChargeExpired(charged, scopes[entry[2]], now)
  BY DEF RefuseBusyVictim
<1> DEFINE victim == entry[2]
           before == scopes[victim]
           touched == Touch(before, now)
           today  == Period(clock)
           rolled == Roll(before, Period(now))
<1>2. /\ History(next_id, reservations, charged, late)
      /\ DOMAIN charged = DOMAIN reservations /\ Costed(reservations)
      /\ now \in Nat /\ today \in Nat /\ Period(now) <= today
      /\ Table(scopes, idle_index, next_id, reservations, charged, late)
      /\ next_id' = next_id /\ reservations' = reservations /\ clock' = clock
  <2>1. now \in Nat /\ clock \in Nat /\ now <= clock
    BY DEF IInv, HistoryOK, Stamps
  <2>2. QED
    BY <2>1, HistoryTypes, ReservationsCosted, PeriodNat, PeriodMonotone
       DEF IInv, AInv, Dated, RefuseBusyVictim
<1>3. victim \in Tracked /\ victim \in Scopes
  <2>1. entry \in idle_index
    BY DEF Victims, First
  <2>2. QED
    BY <2>1, <1>2, TableEvict DEF Table, Tracked
<1>4. scopes' = Put(scopes, victim, Reindexed(touched))
  BY <1>1, <1>3, ExceptIsPut DEF Tracked
<1>5. /\ Books(victim, before, next_id, reservations, charged, late)
      /\ Sound(before, 1 .. (next_id - 1)) /\ before.period \in Nat
      /\ Account(victim, before, reservations, charged, today)
  BY <1>2, <1>3 DEF Table, Tracked, Books, Sound, AInv, AccountsIn, StateOf
<1> HIDE DEF victim, before
<1>6. Account(victim, touched, reservations, charged', today)
  BY <1>1, <1>2, <1>5, AccountTouch DEF victim, before
<1>7. Sound(touched, 1 .. (next_id - 1))
  BY <1>2, <1>5, BooksTouch DEF Books
<1>8. /\ \A id \in DOMAIN reservations :
           \/ charged'[id] = charged[id]
           \/ id \in DOMAIN before.active /\ charged'[id] = rolled.period
  BY <1>1, <1>2, <1>5, TouchCharges DEF victim, before
<1>9. rolled.period <= today
  <2>1. Account(victim, rolled, reservations, charged, today)
    BY <1>2, <1>5, PeriodNat, AccountRoll
  <2>2. QED
    BY <2>1 DEF Account
<1> HIDE DEF today, touched, rolled
<1>10. AccountsIn(scopes', reservations, charged', today)
  <2>1. \A id \in DOMAIN before.active : reservations[id].scope = victim
    BY <1>5 DEF Books, Holds
  <2>2. AccountsIn(scopes, reservations, charged, today)
    BY DEF AInv, today
  <2>3. \A id \in DOMAIN reservations : reservations[id].scope # victim => charged'[id] = charged[id]
    BY <1>8, <2>1
  <2>4. QED
    BY <1>2, <1>4, <1>6, <1>7, <2>2, <2>3, AccountsPut
<1>11. Dated'
  BY <1>2, <1>8, <1>9 DEF AInv, Dated, today
<1>12. QED
  BY <1>2, <1>10, <1>11 DEF AInv, today

(* The scope that makes room charges nothing as it goes, and owes nothing  *)
(* in the current period: the accounts are right without it.               *)
LEMMA EvictedAccounts ==
  ASSUME IInv, AInv, NEW now \in Stamps, NEW entry \in Victims(now),
         IsIdle(Touch(scopes[entry[2]], now))
  PROVE  LET victim == entry[2]
             table == Restrict(scopes, Tracked \ {victim})
         IN  /\ victim \in Tracked
             /\ Expired(Roll(scopes[victim], Period(now)), now) = {} \/ Timeout = "release"
             /\ Table(table, idle_index \ {entry}, next_id, reservations, charged, late)
             /\ AccountsIn(table, reservations, charged, Period(clock))
<1> DEFINE victim == entry[2]
           table == Restrict(scopes, Tracked \ {victim})
           before == scopes[victim]
           rolled == Roll(before, Period(now))
           touched == Touch(before, now)
           E == Expired(rolled, now)
           today == Period(clock)
           ids == 1 .. (next_id - 1)
<1>1. /\ victim \in Tracked
      /\ Table(table, idle_index \ {entry}, next_id, reservations, charged, late)
  <2>1. entry \in idle_index
    BY DEF Victims, First
  <2>2. QED
    BY <2>1, TableEvict DEF IInv, Tracked
<1>2. /\ History(next_id, reservations, charged, late)
      /\ DOMAIN charged = DOMAIN reservations /\ Costed(reservations)
      /\ now \in Nat /\ today \in Nat /\ Period(now) <= today
      /\ Table(scopes, idle_index, next_id, reservations, charged, late)
      /\ IsFiniteSet(ids)
  <2>1. now \in Nat /\ clock \in Nat /\ now <= clock /\ next_id \in Nat
    BY DEF IInv, HistoryOK, Stamps
  <2>2. QED
    BY <2>1, HistoryTypes, ReservationsCosted, PeriodNat, PeriodMonotone, IdsFinite
       DEF IInv, AInv, Dated
<1>3. /\ Books(victim, before, next_id, reservations, charged, late)
      /\ Sound(before, ids)
      /\ victim \in Scopes
      /\ Account(victim, before, reservations, charged, today)
  BY <1>1, <1>2 DEF Table, Tracked, Books, AInv, AccountsIn, StateOf
<1>4. Sound(rolled, ids) /\ rolled.committed \in Nat
  <2>1. Books(victim, rolled, next_id, reservations, charged, late)
    BY <1>2, <1>3, BooksRoll
  <2> HIDE DEF rolled
  <2>2. QED
    BY <2>1 DEF Books, Sound
<1>5. touched = Reclaim(rolled, now) /\ IsIdle(touched)
  BY DEF Touch
<1> HIDE DEF before, rolled, touched, ids, today, table
<1>6. E = {} \/ Timeout = "release"
  <2> SUFFICES ASSUME Timeout = "commit", E # {} PROVE FALSE
    BY TimeoutAssumption
  <2> DEFINE units == Units(rolled.active, E)
             rest(id) == Units(rolled.active, E \ {id})
  <2>1. touched.committed = SatAdd(rolled.committed, units) /\ E \subseteq DOMAIN rolled.active
    BY <1>4, <1>5, ReclaimEntries
  <2>2. PICK id \in E : TRUE
    OBVIOUS
  <2>3. /\ Summable(rolled.active, E)
        /\ Summable(rolled.active, E \ {id})
    <3>1. E \in SUBSET DOMAIN rolled.active /\ E \ {id} \in SUBSET DOMAIN rolled.active
      BY <2>1
    <3>2. QED
      BY <3>1, <1>2, <1>4, SoundSums
  <2>4. units = rolled.active[id].contribution + rest(id) /\ rest(id) \in Nat
    BY <2>2, <2>3, UnitsRemove, UnitsNat
  <2>5. rolled.active[id].contribution \in Nat \ {0}
    <3>1. rolled.active[id] \in Held
      BY <1>4, <2>1, <2>2 DEF Sound, SoundMaps
    <3>2. QED
      BY <3>1, WidthAssumption DEF Held
  <2> HIDE DEF units, rest, E
  <2>6. units \in Nat \ {0}
    BY <2>4, <2>5
  <2>7. SatAdd(rolled.committed, units) # 0
    <3>1. U64Max \in Nat \ {0}
      <4>1. MaxHeld * MaxUnits \in Nat /\ U64Max \in Nat /\ MaxHeld * MaxUnits < U64Max
        BY WidthAssumption, HeldAssumption
      <4>2. QED
        BY <4>1
    <3>2. QED
      BY <3>1, <2>6, <1>4 DEF SatAdd
  <2>8. QED
    BY <2>1, <2>7, <1>5 DEF IsIdle
<1>7. Account(victim, AtPeriod(0), reservations, charged, today)
  <2>1. Account(victim, rolled, reservations, charged, today)
    BY <1>2, <1>3, PeriodNat, AccountRoll DEF rolled
  <2>2. Account(victim, touched, reservations, ExpiredCharge(charged, rolled, now), today)
    <3>1. Books(victim, rolled, next_id, reservations, charged, late)
      BY <1>2, <1>3, BooksRoll DEF rolled
    <3>2. QED
      BY <1>2, <1>5, <2>1, <3>1, AccountReclaim
  <2>3. \A id \in DOMAIN reservations : charged[id] = ExpiredCharge(charged, rolled, now)[id]
    BY <1>2, <1>6 DEF ExpiredCharge
  <2>4. /\ Sound(touched, ids) /\ touched.period \in Nat
        /\ \A id : Holds(touched, id) => reservations[id].scope = victim
    <3>1. Books(victim, touched, next_id, reservations, charged, late)
      BY <1>2, <1>3, BooksTouch DEF touched
    <3>2. QED
      BY <3>1 DEF Books, Sound, ids
  <2>5. Account(victim, touched, reservations, charged, today)
    BY <1>2, <2>2, <2>3, <2>4, AccountFrame
  <2>6. QED
    BY <1>2, <1>5, <2>4, <2>5, AccountEvict
<1>8. AccountsIn(table, reservations, charged, today)
  <2>1. /\ DOMAIN table = Tracked \ {victim}
        /\ \A s \in DOMAIN table : table[s] = scopes[s]
    BY DEF table, Restrict
  <2>2. \A s \in Scopes : StateOf(table, s) = IF s = victim THEN AtPeriod(0) ELSE StateOf(scopes, s)
    BY <2>1 DEF StateOf, Tracked
  <2>3. QED
    BY <1>7, <2>2 DEF AInv, AccountsIn, today
<1>9. QED
  BY <1>1, <1>6, <1>8 DEF rolled, before, today, table

LEMMA AccountsInductive == IInv /\ AInv /\ [Next]_vars => AInv'
<1> SUFFICES ASSUME IInv, AInv, [Next]_vars PROVE AInv'
  OBVIOUS
<1>1. ASSUME UNCHANGED vars PROVE AInv'
  BY <1>1 DEF vars, AInv, Dated
<1>2. ASSUME NEW scope \in Scopes, NEW contribution \in Contributions, NEW now \in Stamps,
             Reserve(scope, contribution, now)
      PROVE  AInv'
  <2>1. CASE RefuseStale(now)
    BY <2>1, <1>1 DEF RefuseStale, vars, ledgerVars, history
  <2>2. CASE RefuseAtCapacity(scope, now)
    BY <2>2, <1>1 DEF RefuseAtCapacity, vars, ledgerVars, history
  <2>3. CASE RefuseBusyVictim(scope, now)
    BY <2>3, BusyVictimAccounts
  <2>4. CASE AdmitInRoom(scope, contribution, now)
    <3>1. /\ Admitted(scope, contribution, now, scopes, idle_index, stats)
          /\ UNCHANGED clock
      BY <2>4 DEF AdmitInRoom
    <3>2. QED
      BY <3>1, AdmittedAccounts DEF IInv, AInv
  <2>5. CASE AdmitEvicting(scope, contribution, now)
    <3>1. PICK entry \in Victims(now) :
            /\ IsIdle(Touch(scopes[entry[2]], now))
            /\ Admitted(scope, contribution, now,
                        Restrict(scopes, Tracked \ {entry[2]}), idle_index \ {entry},
                        CountReclaim(stats, scopes[entry[2]], now))
      BY <2>5 DEF AdmitEvicting
    <3>2. UNCHANGED clock
      BY <2>5 DEF AdmitEvicting
    <3> DEFINE table == Restrict(scopes, Tracked \ {entry[2]})
    <3>3. /\ Table(table, idle_index \ {entry}, next_id, reservations, charged, late)
          /\ AccountsIn(table, reservations, charged, Period(clock))
      BY <3>1, EvictedAccounts
    <3> HIDE DEF table
    <3>4. QED
      BY <3>1, <3>2, <3>3, AdmittedAccounts DEF IInv, AInv, table
  <2>6. QED
    BY <1>2, <2>1, <2>2, <2>3, <2>4, <2>5 DEF Reserve
<1>3. ASSUME NEW id \in DOMAIN reservations, NEW commit \in BOOLEAN, SettleCall(id, commit)
      PROVE  AInv'
  <2>1. UNCHANGED <<next_id, clock, reservations>>
    BY <1>3 DEF SettleCall
  <2>2. CASE SettleFree(id, commit) \/ SettleUntracked(id)
    <3>1. UNCHANGED <<scopes, charged, next_id, clock, reservations>>
      BY <2>1, <2>2 DEF SettleFree, SettleUntracked, history
    <3>2. QED
      BY <3>1 DEF AInv, Dated
  <2>3. CASE SettleTracked(id, commit)
    BY <2>1, <2>3, SettleTrackedAccounts
  <2>4. QED
    BY <1>3, <2>2, <2>3 DEF SettleCall
<1>4. ASSUME Tick PROVE AInv'
  <2>1. /\ clock < MaxClock /\ clock' = clock + 1
        /\ UNCHANGED <<scopes, next_id, reservations, charged>>
    BY <1>4 DEF Tick, ledgerVars, history
  <2>2. clock \in Nat \ {0} /\ clock' \in Nat \ {0} /\ clock <= clock' /\ clock' <= MaxClock + 1
    BY <2>1, BoundsAssumption DEF AInv, Dated
  <2>3. /\ Period(clock) \in Nat /\ Period(clock') \in Nat /\ Period(clock) <= Period(clock')
    BY <2>2, PeriodNat, PeriodMonotone
  <2>4. /\ History(next_id, reservations, charged, late) /\ Costed(reservations)
        /\ Table(scopes, idle_index, next_id, reservations, charged, late)
        /\ charged \in [DOMAIN reservations -> Nat \cup {NoPeriod}]
        /\ \A id \in DOMAIN reservations :
             charged[id] <= Period(clock) /\ reservations[id].created_at \in Nat
    BY HistoryTypes, ReservationsCosted DEF IInv, AInv, Dated, HistoryOK
  <2>5. AccountsIn(scopes, reservations, charged, Period(clock'))
    <3>1. ASSUME NEW s \in Scopes
          PROVE  Account(s, StateOf(scopes, s), reservations, charged, Period(clock'))
      <4>1. StateOf(scopes, s).period \in Nat
        BY <2>4, StateOfFacts
      <4>2. Account(s, StateOf(scopes, s), reservations, charged, Period(clock))
        BY DEF AInv, AccountsIn
      <4>3. QED
        BY <2>3, <2>4, <4>1, <4>2, AccountLater
    <3>2. QED
      BY <3>1 DEF AccountsIn
  <2>6. Dated'
    <3>1. \A id \in DOMAIN reservations :
            charged[id] <= Period(clock') /\ reservations[id].created_at <= clock'
      <4> SUFFICES ASSUME NEW id \in DOMAIN reservations
                   PROVE  charged[id] <= Period(clock') /\ reservations[id].created_at <= clock'
        OBVIOUS
      <4>1. charged[id] \in Int /\ charged[id] <= Period(clock)
        BY <2>4 DEF NoPeriod
      <4>2. reservations[id].created_at <= clock /\ reservations[id].created_at \in Nat
        BY <2>4 DEF AInv, Dated
      <4>3. QED
        BY <2>2, <2>3, <4>1, <4>2
    <3>2. QED
      BY <2>1, <2>2, <3>1 DEF AInv, Dated
  <2>7. QED
    BY <2>1, <2>5, <2>6 DEF AInv
<1>5. QED
  BY <1>1, <1>2, <1>3, <1>4 DEF Next, Commit, Release

LEMMA AccountsInitially == Init => AInv
<1> SUFFICES ASSUME Init PROVE AInv
  OBVIOUS
<1>1. /\ DOMAIN scopes = {} /\ DOMAIN reservations = {} /\ DOMAIN charged = {}
      /\ clock = 1 /\ next_id = 1
  BY DEF Init
<1>2. Dated
  BY <1>1, BoundsAssumption DEF Dated
<1>3. Period(clock) \in Nat
  BY <1>1, PeriodNat
<1>4. ASSUME NEW s \in Scopes
      PROVE  Account(s, AtPeriod(0), reservations, charged, Period(clock))
  <2> DEFINE new == AtPeriod(0)
  <2>1. /\ new.period = 0 /\ new.committed = 0 /\ DOMAIN new.active = {}
        /\ DOMAIN new.reclaimed = {}
    BY DEF AtPeriod
  <2>2. \A p : OwedIn(s, p, reservations, charged) = 0
    <3>1. \A p : ChargedIn(s, p, reservations, charged) = {}
      BY <1>1 DEF ChargedIn
    <3>2. QED
      BY <3>1, UnitsEmpty DEF OwedIn
  <2> HIDE DEF new
  <2>3. Account(s, new, reservations, charged, Period(clock))
    BY <1>3, <2>1, <2>2 DEF Account, Holds
  <2>4. QED
    BY <2>3 DEF new
<1>5. QED
  BY <1>1, <1>2, <1>4 DEF AInv, AccountsIn, StateOf

LEMMA AccountsHold == Spec => [](IInv /\ AInv)
<1>1. Init => IInv /\ AInv
  BY Initially, AccountsInitially
<1>2. IInv /\ AInv /\ [Next]_vars => (IInv /\ AInv)'
  BY Inductive, AccountsInductive
<1>3. QED
  BY <1>1, <1>2, PTL DEF Spec

(* A scope's committed exposure is exactly what its calls are charged in   *)
(* the current period, each once, through evictions, rolls under lagging   *)
(* stamps, repeated and late settlements: in block mode with expired holds *)
(* charged without condition, otherwise as long as the units of all the    *)
(* reservations given out fit a u64 (past that the code saturates).        *)
THEOREM CommittedCharged == ASSUME Exact PROVE Spec => []CommittedIsCharged
<1>1. IInv /\ AInv => CommittedIsCharged
  <2> SUFFICES ASSUME IInv, AInv PROVE CommittedIsCharged
    OBVIOUS
  <2>1. Tight
    BY DEF Tight
  <2>2. \A scope, p : Owed(scope, p) = OwedIn(scope, p, reservations, charged)
    BY DEF Owed, OwedIn, ChargedIn
  <2>3. ASSUME NEW scope \in Scopes
        PROVE  Owed(scope, Period(clock)) =
                 IF scope \in Tracked /\ scopes[scope].period = Period(clock)
                 THEN scopes[scope].committed ELSE 0
    <3>1. Account(scope, StateOf(scopes, scope), reservations, charged, Period(clock))
      BY DEF AInv, AccountsIn
    <3>2. CASE scope \in Tracked
      <4>1. StateOf(scopes, scope) = scopes[scope]
        BY <3>2 DEF StateOf, Tracked
      <4>2. IF scopes[scope].period = Period(clock)
            THEN scopes[scope].committed = OwedIn(scope, Period(clock), reservations, charged)
            ELSE OwedIn(scope, Period(clock), reservations, charged) = 0
        BY <2>1, <3>1, <4>1 DEF Account
      <4>3. QED
        BY <2>2, <3>2, <4>2
    <3>3. CASE scope \notin Tracked
      <4>1. StateOf(scopes, scope).committed = 0
        BY <3>3 DEF StateOf, Tracked, AtPeriod
      <4>2. OwedIn(scope, Period(clock), reservations, charged) = 0
        BY <2>1, <3>1, <4>1 DEF Account
      <4>3. QED
        BY <2>2, <3>3, <4>2
    <3>4. QED
      BY <3>2, <3>3
  <2>4. ASSUME NEW scope \in Tracked
        PROVE  scopes[scope].committed <= Owed(scope, scopes[scope].period)
    BY <2>2 DEF IInv, AInv, AccountsIn, StateOf, Tracked, Table, Account
  <2>5. QED
    BY <2>3, <2>4 DEF CommittedIsCharged
<1>2. QED
  BY <1>1, AccountsHold, PTL

-----------------------------------------------------------------------------
(* The contract.  An entry of ExposureLedger is a row: what its reservation*)
(* says, whether the table holds it in flight or as a tombstone, and what  *)
(* it is charged.                                                          *)
StatusIn(state, id) ==
  IF id \in DOMAIN state.active THEN "held"
  ELSE IF id \in DOMAIN state.reclaimed THEN "lapsed" ELSE "closed"

Row(r, status, charge) ==
  [scope |-> r.scope, units |-> r.contribution, deadline |-> r.expires_at,
   status |-> status, charged |-> charge]

View(table, res, ch) ==
  [id \in DOMAIN res |-> Row(res[id], StatusIn(StateOf(table, res[id].scope), id), ch[id])]

(* The entries as the contract sees them (EntryOf), from the ledger's own  *)
(* variables.                                                              *)
LEMMA ViewOf ==
  [id \in DOMAIN reservations |-> EntryOf(id)] = View(scopes, reservations, charged)
<1>1. ASSUME NEW id \in DOMAIN reservations
      PROVE  EntryOf(id) = Row(reservations[id],
                   StatusIn(StateOf(scopes, reservations[id].scope), id), charged[id])
  <2>1. /\ DOMAIN AtPeriod(0).active = {} /\ DOMAIN AtPeriod(0).reclaimed = {}
    BY DEF AtPeriod
  <2>2. QED
    BY <2>1 DEF EntryOf, Row, StatusIn, StateOf, Tracked
<1>2. QED
  BY <1>1, Zenon DEF View

LEMMA InitRefines == Init => Exposure!Init
<1> SUFFICES ASSUME Init PROVE Exposure!Init
  OBVIOUS
<1>1. [id \in DOMAIN reservations |-> EntryOf(id)] = <<>>
  BY DEF Init
<1>2. QED
  BY <1>1, BudgetNat, BudgetAssumption DEF Init, Exposure!Init

(* What time may make of an entry's status and charge.                     *)
Ages(r, status, charge, status2, charge2) ==
  \/ status2 = status /\ charge2 = charge
  \/ /\ status = "held" /\ clock >= r.expires_at
     /\ IF Timeout = "commit" THEN charge2 \in Exposure!Current ELSE charge2 = charge
     /\ \/ status2 = "lapsed"
        \/ status2 = "closed" /\ clock >= r.expires_at + Ttl
  \/ /\ status = "lapsed" /\ clock >= r.expires_at + Ttl
     /\ status2 = "closed" /\ charge2 = charge

LEMMA AgesTwice ==
  ASSUME NEW r, NEW s1, NEW c1, NEW s2, NEW c2, NEW s3, NEW c3,
         Ages(r, s1, c1, s2, c2), Ages(r, s2, c2, s3, c3)
  PROVE  Ages(r, s1, c1, s3, c3)
BY DEF Ages

(* The period of any stamp a call may have is current.                     *)
LEMMA CurrentStamp ==
  ASSUME clock \in Nat, NEW now \in Nat, now <= clock, clock - now <= MaxLag,
         NEW p \in Nat, Period(now) <= p, p <= Period(clock)
  PROVE  p \in Exposure!Current
<1> DEFINE oldest == IF clock < MaxLag THEN 0 ELSE clock - MaxLag
<1>1. MaxLag \in Nat
  BY BoundsAssumption
<1>2. oldest \in Nat /\ oldest <= now
  BY <1>1
<1>3. \A t : Exposure!PeriodOf(t) = Period(t)
  BY DEF Exposure!PeriodOf, Period
<1>4. Exposure!Current = Period(oldest) .. Period(clock)
  BY <1>3 DEF Exposure!Current
<1> HIDE DEF oldest
<1>5. Period(oldest) <= Period(now) /\ Period(oldest) \in Nat /\ Period(now) \in Nat
      /\ Period(clock) \in Nat
  BY <1>2, PeriodMonotone, PeriodNat
<1>6. QED
  BY <1>4, <1>5

LEMMA AgedRows ==
  ASSUME clock \in Nat, NEW s, NEW c,
         \A id \in DOMAIN reservations :
           Ages(reservations[id], StatusIn(StateOf(scopes, reservations[id].scope), id),
                charged[id], s[id], c[id])
  PROVE  [id \in DOMAIN reservations |-> Row(reservations[id], s[id], c[id])] \in Exposure!Aged
<1> DEFINE D == DOMAIN reservations
           view == View(scopes, reservations, charged)
           map  == [id \in D |-> Row(reservations[id], s[id], c[id])]
           old(id) == StatusIn(StateOf(scopes, reservations[id].scope), id)
           lapsed == {id \in D : old(id) = "held" /\ s[id] # "held"}
           at == [id \in Exposure!Overdue |->
                    IF c[id] \in Exposure!Current THEN c[id] ELSE Period(clock)]
           forgotten == {id \in D : old(id) # "closed" /\ s[id] = "closed"}
<1>1. /\ DOMAIN view = D
      /\ \A id \in D : /\ view[id] = Row(reservations[id], old(id), charged[id])
                       /\ view[id].status = old(id)
                       /\ view[id].deadline = reservations[id].expires_at
  BY DEF View, Row
<1>2. /\ Exposure!Overdue = {id \in D : view[id].status = "held" /\ clock >= view[id].deadline}
      /\ Exposure!Stale = {id \in D : view[id].status # "closed" /\ clock >= view[id].deadline + Ttl}
  BY ViewOf DEF Exposure!Overdue, Exposure!Stale, View
<1>3. lapsed \in SUBSET Exposure!Overdue /\ forgotten \in SUBSET Exposure!Stale
  BY <1>1, <1>2 DEF Ages
<1>4. Period(clock) \in Exposure!Current
  BY CurrentStamp, PeriodNat, BoundsAssumption
<1>5. at \in [Exposure!Overdue -> Exposure!Current]
  BY <1>4
<1>6. \A id \in lapsed : Timeout = "commit" => at[id] = c[id]
  BY <1>3 DEF Ages
<1>7. \A l, a : Exposure!Lapsed(l, a) =
        [id \in D |-> IF id \notin l THEN view[id]
                      ELSE [view[id] EXCEPT !.status = "lapsed",
                              !.charged = IF Timeout = "commit" THEN a[id] ELSE @]]
  BY ViewOf DEF Exposure!Lapsed, View
<1> HIDE DEF view, at, D
<1> DEFINE aged == Exposure!Lapsed(lapsed, at)
<1>8. /\ DOMAIN aged = D
      /\ \A id \in D :
           aged[id] = IF id \in lapsed THEN Row(reservations[id], "lapsed", c[id])
                      ELSE view[id]
  <2>1. DOMAIN aged = D
    BY <1>7
  <2>2. ASSUME NEW id \in D, id \notin lapsed PROVE aged[id] = view[id]
    BY <1>7, <2>2
  <2>3. ASSUME NEW id \in lapsed PROVE aged[id] = Row(reservations[id], "lapsed", c[id])
    <3> DEFINE before == view[id]
               mid    == [before EXCEPT !.status = "lapsed"]
               status == old(id)
               charge == IF Timeout = "commit" THEN at[id] ELSE charged[id]
    <3>1. charge = c[id]
      BY <1>6 DEF Ages, D
    <3>2. id \in D /\ before = Row(reservations[id], status, charged[id])
      BY <1>1
    <3>3. before.charged = charged[id]
      BY <3>2 DEF Row
    <3>4. aged[id] = [mid EXCEPT !.charged = charge]
      BY <1>7, <3>3
    <3> HIDE DEF before, charge, status
    <3>5. mid = Row(reservations[id], "lapsed", charged[id])
      BY <3>2 DEF Row
    <3> HIDE DEF mid
    <3>6. [mid EXCEPT !.charged = charge] = Row(reservations[id], "lapsed", charge)
      BY <3>5 DEF Row
    <3>7. QED
      BY <3>1, <3>4, <3>6
  <2>4. QED
    BY <2>1, <2>2, <2>3
<1> HIDE DEF aged
<1>9. Exposure!Forgotten(aged, forgotten) =
        [id \in D |-> IF id \in forgotten /\ aged[id].status = "lapsed"
                      THEN [aged[id] EXCEPT !.status = "closed"] ELSE aged[id]]
  BY <1>8 DEF Exposure!Forgotten
<1>10. ASSUME NEW id \in D
       PROVE  (IF id \in forgotten /\ aged[id].status = "lapsed"
               THEN [aged[id] EXCEPT !.status = "closed"] ELSE aged[id])
              = Row(reservations[id], s[id], c[id])
  <2>1. Ages(reservations[id], old(id), charged[id], s[id], c[id])
    BY DEF D
  <2>2. CASE id \in lapsed
    BY <1>8, <2>1, <2>2 DEF Ages, Row
  <2>3. CASE id \notin lapsed
    BY <1>1, <1>8, <2>1, <2>3 DEF Ages, Row
  <2>4. QED
    BY <2>2, <2>3
<1>11. Exposure!Forgotten(aged, forgotten) = map
  BY <1>9, <1>10, Zenon DEF map<1>12. QED
  BY <1>3, <1>5, <1>11 DEF Exposure!Aged, D, aged
(* Every deadline, and the ttl after it, fits a u64: nothing saturates.    *)
TimesFit == MaxClock + 1 + Ttl + Ttl <= U64Max

Timely(res) ==
  \A id \in DOMAIN res :
    /\ res[id].expires_at \in Nat
    /\ SatAdd(res[id].expires_at, Ttl) = res[id].expires_at + Ttl

LEMMA StampsFit ==
  ASSUME TimesFit, Dated, NEW now \in Nat, now <= clock
  PROVE  /\ SatAdd(now, Ttl) = now + Ttl
         /\ SatAdd(now + Ttl, Ttl) = now + Ttl + Ttl
<1>1. Ttl \in Nat /\ MaxClock \in Nat /\ U64Max \in Nat /\ clock \in Nat
  BY TtlAssumption, BoundsAssumption, WidthAssumption DEF Dated
<1>2. now + Ttl + Ttl <= U64Max /\ now + Ttl <= U64Max
  BY <1>1 DEF TimesFit, Dated
<1>3. QED
  BY <1>1, <1>2 DEF SatAdd

LEMMA ReservationsTimely ==
  ASSUME TimesFit, Dated, HistoryOK
  PROVE  Timely(reservations)
<1> SUFFICES ASSUME NEW id \in DOMAIN reservations
             PROVE  /\ reservations[id].expires_at \in Nat
                    /\ SatAdd(reservations[id].expires_at, Ttl) = reservations[id].expires_at + Ttl
  BY DEF Timely
<1> DEFINE now == reservations[id].created_at
<1>1. now \in Nat /\ now <= clock /\ reservations[id].expires_at = SatAdd(now, Ttl)
  BY DEF HistoryOK, Dated
<1> HIDE DEF now
<1>2. SatAdd(now, Ttl) = now + Ttl /\ SatAdd(now + Ttl, Ttl) = now + Ttl + Ttl
  BY <1>1, StampsFit
<1>3. now + Ttl \in Nat
  BY <1>1, TtlAssumption
<1>4. QED
  BY <1>1, <1>2, <1>3

(* A reclaim does to an entry only what time may.                          *)
LEMMA ReclaimAges ==
  ASSUME clock \in Nat, NEW ids, NEW state, Sound(state, ids),
         NEW res, NEW ch, DOMAIN ch = DOMAIN res, Timely(res),
         \A id : Holds(state, id) => Entry(state, id).expires_at = res[id].expires_at,
         Timeout = "commit" => state.period \in Exposure!Current,
         NEW now \in Nat, now <= clock,
         NEW id \in DOMAIN res
  PROVE  Ages(res[id], StatusIn(state, id), ch[id],
              StatusIn(Reclaim(state, now), id), ExpiredCharge(ch, state, now)[id])
<1> DEFINE after == Reclaim(state, now)
           E == Expired(state, now)
           entry == Entry(state, id)
           charge == ExpiredCharge(ch, state, now)[id]
<1>1. /\ E \subseteq DOMAIN state.active
      /\ DOMAIN after.active = DOMAIN state.active \ E
      /\ DOMAIN after.reclaimed =
           {i \in DOMAIN state.reclaimed \cup E : now < SatAdd(Entry(state, i).expires_at, Ttl)}
  BY ReclaimEntries
<1>2. charge = IF Timeout = "commit" /\ id \in E THEN state.period ELSE ch[id]
  BY DEF ExpiredCharge
<1>3. DOMAIN state.active \cap DOMAIN state.reclaimed = {}
  BY DEF Sound, SoundMaps
<1>4. Holds(state, id) => entry.expires_at = res[id].expires_at
  OBVIOUS
<1>5. SatAdd(res[id].expires_at, Ttl) = res[id].expires_at + Ttl /\ res[id].expires_at \in Nat
  BY DEF Timely
<1>6. id \in E => now >= entry.expires_at
  BY DEF Expired, Entry
<1>7. Ttl \in Nat
  BY TtlAssumption
<1> SUFFICES Ages(res[id], StatusIn(state, id), ch[id], StatusIn(after, id), charge)
  OBVIOUS
<1> HIDE DEF after, E, entry, charge
<1>8. CASE id \in E
  <2>1. clock >= res[id].expires_at
    BY <1>1, <1>4, <1>5, <1>6, <1>8 DEF Holds
  <2>2. /\ StatusIn(state, id) = "held"
        /\ StatusIn(after, id) = IF now < res[id].expires_at + Ttl THEN "lapsed" ELSE "closed"
    BY <1>1, <1>4, <1>5, <1>8 DEF StatusIn, Holds, entry
  <2>3. QED
    BY <1>2, <1>5, <1>7, <1>8, <2>1, <2>2 DEF Ages
<1>9. CASE id \notin E /\ id \in DOMAIN state.reclaimed
  <2>1. /\ StatusIn(state, id) = "lapsed"
        /\ StatusIn(after, id) = IF now < res[id].expires_at + Ttl THEN "lapsed" ELSE "closed"
    BY <1>1, <1>3, <1>4, <1>5, <1>9 DEF StatusIn, Holds, entry
  <2>2. QED
    BY <1>2, <1>5, <1>7, <1>9, <2>1 DEF Ages
<1>10. CASE id \notin E /\ id \notin DOMAIN state.reclaimed
  <2>1. StatusIn(after, id) = StatusIn(state, id)
    BY <1>1, <1>10 DEF StatusIn
  <2>2. QED
    BY <1>2, <1>10, <2>1 DEF Ages
<1>11. QED
  BY <1>8, <1>9, <1>10

LEMMA RollStatus ==
  ASSUME NEW ids, NEW state, Sound(state, ids), NEW period, NEW id
  PROVE  StatusIn(Roll(state, period), id) = StatusIn(state, id)
<1>1. /\ Roll(state, period).active = state.active
      /\ Roll(state, period).reclaimed = state.reclaimed
  BY DEF Roll, Sound
<1>2. QED
  BY <1>1 DEF StatusIn

(* So does the touch that starts every call on a scope.                    *)
LEMMA TouchAges ==
  ASSUME clock \in Nat, NEW ids, NEW scope, NEW state, Sound(state, ids),
         NEW res, Costed(res), NEW ch, DOMAIN ch = DOMAIN res, Timely(res),
         Account(scope, state, res, ch, Period(clock)),
         NEW now \in Stamps,
         NEW id \in DOMAIN res
  PROVE  Ages(res[id], StatusIn(state, id), ch[id],
              StatusIn(Touch(state, now), id), ChargeExpired(ch, state, now)[id])
<1> DEFINE rolled == Roll(state, Period(now))
<1>1. /\ now \in Nat /\ now <= clock /\ clock - now <= MaxLag
      /\ Period(now) \in Nat /\ Period(clock) \in Nat /\ Period(now) <= Period(clock)
  <2>1. now \in Nat /\ now <= clock /\ clock - now <= MaxLag
    BY DEF Stamps
  <2>2. QED
    BY <2>1, PeriodNat, PeriodMonotone
<1>2. Account(scope, rolled, res, ch, Period(clock))
  BY <1>1, AccountRoll
<1>3. Sound(rolled, ids) /\ Period(now) <= rolled.period
  <2>1. Sound(rolled, ids)
    BY <1>1, RollSound
  <2>2. Period(now) <= rolled.period
    BY <1>1 DEF Roll, Sound
  <2>3. QED
    BY <2>1, <2>2
<1>4. Touch(state, now) = Reclaim(rolled, now)
  BY DEF Touch
<1>5. ChargeExpired(ch, state, now) = ExpiredCharge(ch, rolled, now)
  BY <1>1, TouchCharges
<1>6. StatusIn(rolled, id) = StatusIn(state, id)
  BY RollStatus
<1> HIDE DEF rolled
<1>7. rolled.period \in Exposure!Current
  <2>1. rolled.period \in Nat /\ rolled.period <= Period(clock)
    BY <1>2, <1>3 DEF Sound, Account
  <2>2. QED
    BY <1>1, <1>3, <2>1, CurrentStamp
<1>8. \A i : Holds(rolled, i) => Entry(rolled, i).expires_at = res[i].expires_at
  BY <1>2 DEF Account
<1>9. QED
  BY <1>1, <1>3, <1>4, <1>5, <1>6, <1>7, <1>8, ReclaimAges

(* The same of the entries a step leaves.                                  *)
LEMMA ViewNext ==
  [id \in DOMAIN reservations |-> EntryOf(id)]' = View(scopes', reservations', charged')
<1>1. ASSUME NEW id \in DOMAIN reservations'
      PROVE  EntryOf(id)' = Row(reservations'[id],
                   StatusIn(StateOf(scopes', reservations'[id].scope), id), charged'[id])
  <2>1. /\ DOMAIN AtPeriod(0).active = {} /\ DOMAIN AtPeriod(0).reclaimed = {}
    BY DEF AtPeriod
  <2>2. QED
    BY <2>1 DEF EntryOf, Row, StatusIn, StateOf, Tracked
<1>2. QED
  BY <1>1, Zenon DEF View

(* Every entry is what time may have made of it.                           *)
AgesTo(table, ch) ==
  \A id \in DOMAIN reservations :
    Ages(reservations[id], StatusIn(StateOf(scopes, reservations[id].scope), id), charged[id],
         StatusIn(StateOf(table, reservations[id].scope), id), ch[id])

LEMMA AgedView ==
  ASSUME clock \in Nat, NEW table, NEW ch, AgesTo(table, ch)
  PROVE  View(table, reservations, ch) \in Exposure!Aged
<1> DEFINE s == [id \in DOMAIN reservations |->
                   StatusIn(StateOf(table, reservations[id].scope), id)]
<1>1. \A id \in DOMAIN reservations :
        Ages(reservations[id], StatusIn(StateOf(scopes, reservations[id].scope), id),
             charged[id], s[id], ch[id])
  BY DEF AgesTo
<1>2. View(table, reservations, ch) =
        [id \in DOMAIN reservations |-> Row(reservations[id], s[id], ch[id])]
  BY DEF View
<1> HIDE DEF s
<1>3. [id \in DOMAIN reservations |-> Row(reservations[id], s[id], ch[id])] \in Exposure!Aged
  BY <1>1, AgedRows
<1>4. QED
  BY <1>2, <1>3

LEMMA AgeStep ==
  ASSUME clock \in Nat, AgesTo(scopes', charged'), UNCHANGED <<reservations, clock>>
  PROVE  Exposure!Next
<1>1. [id \in DOMAIN reservations |-> EntryOf(id)]' \in Exposure!Aged
  BY AgedView, ViewNext
<1>2. Exposure!Age
  BY <1>1 DEF Exposure!Age
<1>3. QED
  BY <1>2 DEF Exposure!Next

(* The entries of a table with one scope's state replaced.                 *)
LEMMA PutStatus ==
  ASSUME NEW table, NEW scope, NEW ids, NEW after, Sound(after, ids)
  PROVE  LET new == Put(table, scope, Reindexed(after))
         IN  /\ \A id : StatusIn(StateOf(new, scope), id) = StatusIn(after, id)
             /\ \A s : s # scope => StateOf(new, s) = StateOf(table, s)
<1> DEFINE state == Reindexed(after)
           new   == Put(table, scope, state)
<1>1. state.active = after.active /\ state.reclaimed = after.reclaimed
  BY ReindexedFacts
<1> HIDE DEF state
<1>2. /\ DOMAIN new = DOMAIN table \cup {scope} /\ new[scope] = state
      /\ \A k \in DOMAIN table \ {scope} : new[k] = table[k]
  BY DEF Put
<1> HIDE DEF new
<1>3. StateOf(new, scope) = state
  BY <1>2 DEF StateOf
<1>4. \A s : s # scope => StateOf(new, s) = StateOf(table, s)
  BY <1>2 DEF StateOf
<1>5. \A id : StatusIn(state, id) = StatusIn(after, id)
  BY <1>1 DEF StatusIn
<1>6. QED
  BY <1>3, <1>4, <1>5 DEF new, state

(* One scope's state replaced in the table.                                *)
LEMMA AgesPut ==
  ASSUME NEW table, AgesTo(table, charged), NEW scope, NEW ids, NEW after, Sound(after, ids),
         NEW ch,
         \A id \in DOMAIN reservations :
           IF reservations[id].scope = scope
           THEN Ages(reservations[id], StatusIn(StateOf(table, scope), id), charged[id],
                     StatusIn(after, id), ch[id])
           ELSE ch[id] = charged[id]
  PROVE  AgesTo(Put(table, scope, Reindexed(after)), ch)
<1> DEFINE table2 == Put(table, scope, Reindexed(after))
<1>1. /\ \A id : StatusIn(StateOf(table2, scope), id) = StatusIn(after, id)
      /\ \A s : s # scope => StateOf(table2, s) = StateOf(table, s)
  BY PutStatus
<1> HIDE DEF table2
<1>2. ASSUME NEW id \in DOMAIN reservations
      PROVE  Ages(reservations[id], StatusIn(StateOf(scopes, reservations[id].scope), id),
                  charged[id], StatusIn(StateOf(table2, reservations[id].scope), id), ch[id])
  <2> DEFINE r == reservations[id]
             was == StatusIn(StateOf(scopes, r.scope), id)
             then == StatusIn(StateOf(table, r.scope), id)
             is  == StatusIn(StateOf(table2, r.scope), id)
  <2>1. Ages(r, was, charged[id], then, charged[id])
    BY DEF AgesTo
  <2>2. CASE r.scope = scope
    <3>1. Ages(r, then, charged[id], is, ch[id])
      BY <1>1, <2>2
    <3> HIDE DEF r, was, then, is
    <3>2. Ages(r, was, charged[id], is, ch[id])
      BY <2>1, <3>1, AgesTwice
    <3>3. QED
      BY <3>2 DEF r, was, is
  <2>3. CASE r.scope # scope
    <3>1. is = then /\ ch[id] = charged[id]
      BY <1>1, <2>3
    <3>2. QED
      BY <2>1, <3>1
  <2>4. QED
    BY <2>2, <2>3
<1>3. QED
  BY <1>2 DEF AgesTo, table2

(* A hold adds an entry in flight, unless it is free.                      *)
LEMMA HoldStatus ==
  ASSUME NEW ids, NEW state, Sound(state, ids), NEW n, ~Holds(state, n),
         NEW c \in Nat, NEW now, NEW id
  PROVE  StatusIn(Hold(state, n, c, now), id) =
           IF id = n THEN (IF c = 0 THEN "closed" ELSE "held") ELSE StatusIn(state, id)
<1> DEFINE after == Hold(state, n, c, now)
<1>1. CASE c = 0
  BY <1>1 DEF Hold, StatusIn, Holds
<1>2. CASE c # 0
  <2>1. DOMAIN after.active = DOMAIN state.active \cup {n} /\ after.reclaimed = state.reclaimed
    BY <1>2 DEF Hold, Sound
  <2> HIDE DEF after
  <2>2. StatusIn(after, id) = IF id = n THEN "held" ELSE StatusIn(state, id)
    BY <2>1 DEF StatusIn
  <2>3. QED
    BY <1>2, <2>2 DEF after
<1>3. QED
  BY <1>1, <1>2

LEMMA SameSum == \A f : Exposure!SumFunction(f) = SumFunction(f)
BY DEF Exposure!SumFunction, Exposure!SumFunctionOnSet, Exposure!FoldFunctionOnSet,
       Exposure!MapThenFoldSet, SumFunction, SumFunctionOnSet, FoldFunctionOnSet,
       MapThenFoldSet

(* What a scope's entries hold, or are charged today, is within the budget *)
(* when what its state counts is.                                          *)
LEMMA ExposureUnits ==
  ASSUME NEW n, NEW res, NEW ch, NEW lt, History(n, res, ch, lt), Costed(res),
         NEW scope, NEW state, Books(scope, state, n, res, ch, lt),
         NEW table, \A id : StatusIn(StateOf(table, scope), id) = StatusIn(state, id),
         NEW today \in Nat, Account(scope, state, res, ch, today),
         Mode = "block", state.committed + state.reserved <= Budget
  PROVE  LET view == View(table, res, ch)
             exposed == {id \in DOMAIN view :
                           /\ view[id].scope = scope
                           /\ view[id].status = "held" \/ view[id].charged = today}
         IN  SumFunction([id \in exposed |-> view[id].units]) <= Budget
<1> DEFINE view == View(table, res, ch)
           exposed == {id \in DOMAIN view :
                         /\ view[id].scope = scope
                         /\ view[id].status = "held" \/ view[id].charged = today}
           active  == DOMAIN state.active
           owed    == ChargedIn(scope, today, res, ch)
<1>1. /\ DOMAIN view = DOMAIN res
      /\ \A id \in DOMAIN res :
           /\ view[id].scope = res[id].scope /\ view[id].units = res[id].contribution
           /\ view[id].status = StatusIn(StateOf(table, res[id].scope), id)
           /\ view[id].charged = ch[id]
  BY DEF View, Row
<1>2. \A id : StatusIn(state, id) = "held" <=> id \in active
  BY DEF StatusIn
<1>3. \A id \in active : /\ id \in DOMAIN res /\ res[id].scope = scope
                         /\ res[id].contribution = state.active[id].contribution
                         /\ ch[id] = NoPeriod
  BY DEF Books, Holds, Entry, Account, Sound
<1> HIDE DEF view, active
<1>4. exposed = active \cup owed
  BY <1>1, <1>2, <1>3 DEF ChargedIn
<1>5. active \cap owed = {}
  BY <1>3 DEF ChargedIn, NoPeriod
<1>6. [id \in exposed |-> view[id].units] = [id \in exposed |-> res[id].contribution]
  BY <1>1
<1>7. Sound(state, 1 .. (n - 1)) /\ IsFiniteSet(1 .. (n - 1))
  BY IdsFinite DEF Books, History
<1>8. /\ state.committed \in Nat /\ state.reserved \in Nat
      /\ state.reserved = Units(state.active, active)
      /\ Summable(state.active, active)
  BY <1>7, SoundSums DEF Sound, active
<1>9. exposed \in SUBSET DOMAIN res /\ active \in SUBSET exposed /\ exposed \ active = owed
  BY <1>1, <1>4, <1>5
<1> HIDE DEF exposed, owed
<1>10. Units(res, exposed) = Units(res, active) + Units(res, owed)
  <2>1. Summable(res, exposed)
    BY <1>9, CostedSums
  <2>2. Units(res, exposed) = Units(res, active) + Units(res, exposed \ active)
    BY <1>9, <2>1, UnitsSplit
  <2>3. QED
    BY <1>9, <2>2, Zenon
<1>11. Units(res, active) = state.reserved
  BY <1>3, <1>8, UnitsSame
<1>12. Units(res, owed) <= state.committed
  <2>1. Units(res, owed) = OwedIn(scope, today, res, ch)
    BY DEF OwedIn, owed
  <2>2. Budget < U64Max
    <3>1. /\ MaxUnits \in Nat \ {0} /\ MaxHeld \in Nat \ {0} /\ U64Max \in Nat
          /\ MaxHeld * MaxUnits < U64Max /\ Budget <= MaxUnits /\ Budget \in Nat
      BY WidthAssumption, HeldAssumption, BudgetAssumption
    <3>2. MaxUnits <= MaxHeld * MaxUnits
      <4>1. PICK d \in Nat : MaxHeld = 1 + d
        <5>1. MaxHeld - 1 \in Nat /\ MaxHeld = 1 + (MaxHeld - 1)
          BY <3>1
        <5>2. QED
          BY <5>1
      <4>2. MaxHeld * MaxUnits = MaxUnits + d * MaxUnits /\ d * MaxUnits \in Nat
        BY <3>1, <4>1
      <4>3. QED
        BY <3>1, <4>2
    <3>3. MaxHeld * MaxUnits \in Nat
      BY <3>1
    <3>4. QED
      BY <3>1, <3>2, <3>3
  <2>3. state.committed # U64Max
    BY <1>8, <2>2, BudgetNat, WidthAssumption
  <2>4. IF state.period = today
        THEN state.committed = OwedIn(scope, today, res, ch)
        ELSE OwedIn(scope, today, res, ch) = 0
    BY <2>3 DEF Account, Tight
  <2>5. QED
    BY <1>8, <2>1, <2>4
<1>13. Units(res, owed) \in Nat
  BY OwedNat DEF OwedIn, owed
<1>14. Units(res, exposed) <= Budget
  BY <1>8, <1>10, <1>11, <1>12, <1>13, BudgetNat
<1>15. SumFunction([id \in exposed |-> view[id].units]) = Units(res, exposed)
  BY <1>6 DEF Units
<1>16. QED
  BY <1>14, <1>15 DEF exposed, view

LEMMA BusyVictimRefines ==
  ASSUME TimesFit, IInv, AInv, NEW scope, NEW now \in Stamps, RefuseBusyVictim(scope, now)
  PROVE  Exposure!Next
<1>1. PICK entry \in Victims(now) :
        /\ scopes' = [scopes EXCEPT ![entry[2]] = Reindexed(Touch(scopes[entry[2]], now))]
        /\ charged' = ChargeExpired(charged, scopes[entry[2]], now)
  BY DEF RefuseBusyVictim
<1> DEFINE victim == entry[2]
           before == scopes[victim]
           touched == Touch(before, now)
           ids == 1 .. (next_id - 1)
<1>2. /\ History(next_id, reservations, charged, late)
      /\ DOMAIN charged = DOMAIN reservations /\ Costed(reservations)
      /\ now \in Nat /\ clock \in Nat /\ Timely(reservations)
      /\ Table(scopes, idle_index, next_id, reservations, charged, late)
      /\ reservations' = reservations /\ clock' = clock
  <2>1. now \in Nat /\ clock \in Nat
    BY DEF IInv, HistoryOK, Stamps
  <2>2. QED
    BY <2>1, HistoryTypes, ReservationsCosted, ReservationsTimely
       DEF IInv, AInv, Dated, RefuseBusyVictim
<1>3. victim \in Tracked /\ victim \in Scopes
  <2>1. entry \in idle_index
    BY DEF Victims, First
  <2>2. QED
    BY <2>1, <1>2, TableEvict DEF Table, Tracked
<1>4. scopes' = Put(scopes, victim, Reindexed(touched))
  BY <1>1, <1>3, ExceptIsPut DEF Tracked
<1>5. /\ Books(victim, before, next_id, reservations, charged, late)
      /\ Sound(before, ids)
      /\ Account(victim, before, reservations, charged, Period(clock))
      /\ StateOf(scopes, victim) = before
  BY <1>2, <1>3 DEF Table, Tracked, Books, AInv, AccountsIn, StateOf
<1> HIDE DEF victim, before
<1>6. Sound(touched, ids)
  <2>1. Books(victim, touched, next_id, reservations, charged, late)
    <3> HIDE DEF touched
    <3>1. Books(victim, Touch(before, now), next_id, reservations, charged, late)
      BY <1>2, <1>5, BooksTouch
    <3>2. QED
      BY <3>1 DEF touched
  <2>2. QED
    BY <2>1 DEF Books
<1>7. charged' = ChargeExpired(charged, before, now)
  BY <1>1 DEF before, victim
<1>8. \A id \in DOMAIN reservations :
        Ages(reservations[id], StatusIn(before, id), charged[id],
             StatusIn(touched, id), charged'[id])
  BY <1>2, <1>5, <1>7, TouchAges
<1>9. ASSUME NEW id \in DOMAIN reservations, reservations[id].scope # victim
      PROVE  charged'[id] = charged[id]
  <2>1. id \in DOMAIN before.active => reservations[id].scope = victim
    BY <1>5 DEF Books, Holds
  <2>2. charged'[id] = charged[id] \/ id \in DOMAIN before.active
    BY <1>2, <1>5, <1>7, TouchCharges
  <2>3. QED
    BY <1>9, <2>1, <2>2
<1>10. AgesTo(scopes, charged)
  BY DEF AgesTo, Ages
<1> HIDE DEF touched, ids
<1>11. AgesTo(scopes', charged')
  BY <1>4, <1>5, <1>6, <1>8, <1>9, <1>10, AgesPut
<1>12. QED
  BY <1>2, <1>11, AgeStep

(* A call let in, whatever becomes of it: on a table that time may have    *)
(* made of the ledger's.                                                   *)
LEMMA AdmittedRefines ==
  ASSUME TimesFit, HistoryOK, Dated,
         NEW table, NEW index, Table(table, index, next_id, reservations, charged, late),
         AccountsIn(table, reservations, charged, Period(clock)), AgesTo(table, charged),
         NEW counters, NEW scope \in Scopes,
         NEW contribution \in Contributions, NEW now \in Stamps, ~ExpiredOnArrival(now, clock),
         Admitted(scope, contribution, now, table, index, counters),
         UNCHANGED clock
  PROVE  Exposure!Next
<1> DEFINE before  == StateOf(table, scope)
           touched == Touch(before, now)
           over    == Mode = "block" /\ OverBudget(touched, contribution, Budget)
           full    == contribution > 0 /\ Saturated(touched)
           after   == IF over \/ full THEN touched ELSE Hold(touched, next_id, contribution, now)
           ch      == ChargeExpired(charged, before, now)
           ids     == 1 .. (next_id - 1)
           r       == [scope |-> scope, contribution |-> contribution,
                       created_at |-> now, expires_at |-> SatAdd(now, Ttl)]
           today   == Period(clock)
           table2  == Put(table, scope, Reindexed(touched))
           map     == View(table2, reservations, ch)
<1>1. /\ History(next_id, reservations, charged, late)
      /\ DOMAIN charged = DOMAIN reservations
      /\ next_id \notin DOMAIN reservations
      /\ next_id \in Nat \ {0} /\ clock \in Nat \ {0} /\ clock' = clock
      /\ Costed(reservations) /\ Timely(reservations)
  BY HistoryTypes, ReservationsCosted, ReservationsTimely DEF HistoryOK, Dated
<1>2. /\ scopes' = Put(table, scope, Reindexed(after))
      /\ next_id' = IF over THEN next_id ELSE next_id + 1
      /\ reservations' = IF over \/ full THEN reservations ELSE Put(reservations, next_id, r)
      /\ charged' = IF over \/ full THEN ch ELSE Put(ch, next_id, NoPeriod)
      /\ over \/ next_id <= MaxId
      /\ after = IF over \/ full THEN touched ELSE Hold(touched, next_id, contribution, now)
      /\ r.scope = scope /\ r.contribution = contribution /\ r.expires_at = SatAdd(now, Ttl)
      /\ ~full => (contribution > 0 => ~Saturated(touched))
      /\ ~over => (Mode = "block" => ~OverBudget(touched, contribution, Budget))
  BY DEF Admitted, StateOf
<1>3. /\ now \in Nat /\ now <= clock
      /\ today \in Nat /\ Period(now) <= today
      /\ contribution \in 0 .. MaxUnits /\ contribution \in Nat
  <2>1. now \in Nat /\ now <= clock
    BY <1>1 DEF Stamps
  <2>2. QED
    BY <1>1, <2>1, PeriodNat, PeriodMonotone, ContributionsAssumption, WidthAssumption
<1>5. /\ Books(scope, before, next_id, reservations, charged, late)
      /\ Sound(before, ids) /\ before.period \in Nat
      /\ \A id : Holds(before, id) => reservations[id].scope = scope
  BY <1>1, StateOfFacts
<1>6. Account(scope, before, reservations, charged, today)
  BY DEF AccountsIn
<1> HIDE DEF before
<1>7. Account(scope, touched, reservations, ch, today)
  BY <1>1, <1>3, <1>5, <1>6, AccountTouch
<1>8. /\ DOMAIN ch = DOMAIN reservations
      /\ \A id \in DOMAIN reservations :
           reservations[id].scope # scope => ch[id] = charged[id]
  <2>1. \A id \in DOMAIN before.active : Holds(before, id)
    BY DEF Holds
  <2>2. QED
    BY <1>1, <1>3, <1>5, <2>1, TouchCharges
<1>9. /\ Sound(touched, ids) /\ touched.period \in Nat
      /\ Books(scope, touched, next_id, reservations, charged, late)
  <2>1. Books(scope, touched, next_id, reservations, charged, late)
    BY <1>1, <1>3, <1>5, BooksTouch
  <2>2. QED
    BY <2>1 DEF Books, Sound
<1>10. AgesTo(table2, ch)
  <2>1. \A id \in DOMAIN reservations :
          Ages(reservations[id], StatusIn(before, id), charged[id],
               StatusIn(touched, id), ch[id])
    BY <1>1, <1>3, <1>5, <1>6, TouchAges
  <2> HIDE DEF touched, ch, ids
  <2>2. QED
    BY <1>8, <1>9, <2>1, AgesPut DEF before
<1> HIDE DEF touched, ch, ids, after, over, full, r, table2
<1>11. CASE over \/ full
  <2>1. scopes' = table2 /\ charged' = ch /\ reservations' = reservations
    BY <1>2, <1>11 DEF table2
  <2>2. QED
    BY <1>1, <1>10, <2>1, AgeStep
<1>12. CASE ~over /\ ~full
  <2>1. /\ reservations' = Put(reservations, next_id, r)
        /\ charged' = Put(ch, next_id, NoPeriod)
        /\ after = Hold(touched, next_id, contribution, now)
        /\ scopes' = Put(table, scope, Reindexed(after))
        /\ next_id \in 1 .. MaxId
        /\ contribution > 0 => ~Saturated(touched)
        /\ Mode = "block" => ~OverBudget(touched, contribution, Budget)
    BY <1>1, <1>2, <1>12, BoundsAssumption
  <2>2. /\ DOMAIN reservations' = DOMAIN reservations \cup {next_id}
        /\ reservations'[next_id] = r /\ charged'[next_id] = NoPeriod
        /\ \A id \in DOMAIN reservations :
             reservations'[id] = reservations[id] /\ charged'[id] = ch[id]
    BY <1>1, <1>8, <2>1 DEF Put
  <2>3. /\ History(next_id, reservations, ch, late)
        /\ Books(scope, touched, next_id, reservations, ch, late)
    <3>1. \A id \in late : ch[id] = charged[id]
      BY <1>1, <1>3, <1>5, ChargeExpiredFacts DEF HistoryOK, ch
    <3>2. History(next_id, reservations, ch, late)
      BY <1>1 DEF History
    <3>3. QED
      BY <1>1, <1>9, <3>1, <3>2, BooksFrame
  <2>4. /\ History(next_id + 1, reservations', charged', late)
        /\ Books(scope, after, next_id + 1, reservations', charged', late)
    BY <1>1, <1>2, <1>3, <1>8, <2>1, <2>3, BooksHold
  <2>5. Account(scope, after, reservations', charged', today)
    <3>1. \A id : Holds(touched, id) => reservations[id].scope = scope
      BY <1>9 DEF Books
    <3>2. QED
      BY <1>1, <1>2, <1>3, <1>7, <1>8, <1>9, <2>1, <3>1, AccountHold
  <2>6. \A id : StatusIn(after, id) =
                  IF id = next_id THEN (IF contribution = 0 THEN "closed" ELSE "held")
                  ELSE StatusIn(touched, id)
    <3>1. ~Holds(touched, next_id)
      BY <1>1, <1>7 DEF Account
    <3>2. QED
      BY <1>3, <1>9, <2>1, <3>1, HoldStatus
  <2>7. /\ \A id : StatusIn(StateOf(scopes', scope), id) = StatusIn(after, id)
        /\ \A id : StatusIn(StateOf(table2, scope), id) = StatusIn(touched, id)
        /\ \A s : s # scope => StateOf(scopes', s) = StateOf(table2, s)
    <3>1. Sound(after, 1 .. next_id)
      BY <1>1, <2>4 DEF Books
    <3>2. QED
      BY <1>9, <2>1, <3>1, PutStatus DEF table2
  <2>8. View(scopes', reservations', charged') =
          [i \in DOMAIN map \cup {next_id} |->
             IF i = next_id THEN Exposure!Entry(scope, contribution, now) ELSE map[i]]
    <3>1. DOMAIN map = DOMAIN reservations
      BY DEF View
    <3>2. Row(r, StatusIn(after, next_id), NoPeriod) = Exposure!Entry(scope, contribution, now)
      <4>1. SatAdd(now, Ttl) = now + Ttl
        BY <1>3, StampsFit
      <4>2. QED
        BY <1>2, <2>6, <4>1 DEF Row, Exposure!Entry, Exposure!Uncharged, NoPeriod
    <3>3. ASSUME NEW i \in DOMAIN reservations
          PROVE  Row(reservations'[i], StatusIn(StateOf(scopes', reservations'[i].scope), i),
                     charged'[i]) = map[i]
      <4>1. map[i] = Row(reservations[i], StatusIn(StateOf(table2, reservations[i].scope), i), ch[i])
        BY DEF View
      <4>2. StatusIn(StateOf(scopes', reservations[i].scope), i) =
              StatusIn(StateOf(table2, reservations[i].scope), i)
        BY <1>1, <2>6, <2>7
      <4>3. QED
        BY <2>2, <4>1, <4>2
    <3>4. reservations'[next_id].scope = scope
      BY <1>2, <2>2
    <3> HIDE DEF map
    <3>5. \A i \in DOMAIN reservations' :
            Row(reservations'[i], StatusIn(StateOf(scopes', reservations'[i].scope), i),
                charged'[i]) =
            IF i = next_id THEN Exposure!Entry(scope, contribution, now) ELSE map[i]
      BY <1>1, <2>2, <2>7, <3>2, <3>3, <3>4
    <3>6. QED
      BY <2>2, <3>1, <3>5 DEF View
  <2>9. map \in Exposure!Aged
    BY <1>1, <1>10, AgedView
  <2>10. ASSUME Mode = "block" PROVE Exposure!Exposure(scope)' <= Budget
    <3> DEFINE view == View(scopes', reservations', charged')
               exposed == {id \in DOMAIN view :
                             /\ view[id].scope = scope
                             /\ view[id].status = "held" \/ view[id].charged = today}
    <3>1. after.committed + after.reserved <= Budget
      <4>1. touched.committed \in Nat /\ touched.reserved \in Nat /\ IsFiniteSet(ids)
        BY <1>1, <1>9, IdsFinite, SoundSums DEF Sound, ids
      <4>2. touched.committed + touched.reserved + contribution <= Budget
        BY <1>3, <2>1, <2>10, <4>1, CheckFits
      <4>3. Sound(touched, 1 .. next_id) /\ IsFiniteSet(1 .. next_id)
        <5>1. IsFiniteSet(1 .. next_id)
          BY <1>1, FS_Interval
        <5>2. ids \subseteq 1 .. next_id
          BY <1>1 DEF ids
        <5>3. QED
          BY <1>9, <5>1, <5>2 DEF Sound, SoundMaps
      <4>4. ~Holds(touched, next_id) /\ next_id \in 1 .. next_id
        BY <1>1, <1>7 DEF Account
      <4>5. /\ after.committed = touched.committed
            /\ after.reserved = touched.reserved + contribution
        BY <1>3, <2>1, <4>3, <4>4, HoldSound
      <4>6. QED
        BY <1>3, <4>1, <4>2, <4>5
    <3>2. Costed(reservations')
      <4>1. \A id \in DOMAIN reservations' : reservations'[id].contribution \in 0 .. MaxUnits
        BY <1>1, <1>2, <1>3, <2>2 DEF Costed
      <4>2. DOMAIN reservations' \subseteq 1 .. MaxId
        BY <1>1, <2>1, <2>2, BoundsAssumption DEF History
      <4>3. IsFiniteSet(1 .. MaxId) /\ Cardinality(1 .. MaxId) = MaxId
        BY BoundsAssumption, FS_Interval
      <4>4. QED
        BY <4>1, <4>2, <4>3, FS_Subset DEF Costed
    <3>3. SumFunction([id \in exposed |-> view[id].units]) <= Budget
      BY <1>3, <2>4, <2>5, <2>7, <2>10, <3>1, <3>2, ExposureUnits
    <3>4. Exposure!Exposed(scope)' = exposed
      BY <1>1, ViewNext DEF Exposure!Exposed, Exposure!PeriodOf, Period, today
    <3>5. Exposure!Exposure(scope)' = SumFunction([id \in exposed |-> view[id].units])
      BY <3>4, ViewNext, SameSum DEF Exposure!Exposure
    <3>6. QED
      BY <3>3, <3>5
  <2>11. Exposure!Admit(next_id, scope, contribution, now)
    <3>1. clock < now + Ttl
      BY <1>1, <1>3, TtlAssumption, WidthAssumption, StampsFit DEF ExpiredOnArrival
    <3>2. \E m \in Exposure!Aged :
            [id \in DOMAIN reservations |-> EntryOf(id)]' =
              [i \in DOMAIN m \cup {next_id} |->
                 IF i = next_id THEN Exposure!Entry(scope, contribution, now) ELSE m[i]]
      BY <2>8, <2>9, ViewNext
    <3>3. QED
      BY <1>1, <2>10, <3>1, <3>2 DEF Exposure!Admit
  <2>12. QED
    <3>1. now \in Exposure!Stamps
      BY <1>1, <1>3 DEF Stamps, Exposure!Stamps
    <3>2. next_id \in 1 .. MaxId /\ next_id \notin DOMAIN reservations
          /\ next_id \in DOMAIN reservations'
      BY <1>1, <2>1, <2>2
    <3>3. QED
      BY <2>11, <3>1, <3>2 DEF Exposure!Next
<1>13. QED
  BY <1>11, <1>12

(* A scope that makes room goes when all its entries have aged to closed.  *)
LEMMA EvictionAges ==
  ASSUME TimesFit, IInv, AInv, NEW now \in Stamps, NEW entry \in Victims(now),
         IsIdle(Touch(scopes[entry[2]], now))
  PROVE  AgesTo(Restrict(scopes, Tracked \ {entry[2]}), charged)
<1> DEFINE victim == entry[2]
           table == Restrict(scopes, Tracked \ {victim})
           before == scopes[victim]
           touched == Touch(before, now)
           ids == 1 .. (next_id - 1)
<1>1. /\ History(next_id, reservations, charged, late)
      /\ DOMAIN charged = DOMAIN reservations /\ Costed(reservations)
      /\ now \in Nat /\ clock \in Nat /\ Timely(reservations)
      /\ Table(scopes, idle_index, next_id, reservations, charged, late)
  <2>1. now \in Nat /\ clock \in Nat
    BY DEF IInv, HistoryOK, Stamps
  <2>2. QED
    BY <2>1, HistoryTypes, ReservationsCosted, ReservationsTimely DEF IInv, AInv, Dated
<1>2. /\ victim \in Tracked /\ victim \in Scopes
      /\ Expired(Roll(before, Period(now)), now) = {} \/ Timeout = "release"
  BY <1>1, EvictedAccounts DEF Table, Tracked
<1>3. /\ Sound(before, ids) /\ StateOf(scopes, victim) = before
      /\ Account(victim, before, reservations, charged, Period(clock))
  BY <1>1, <1>2 DEF Table, Tracked, Books, AInv, AccountsIn, StateOf
<1>4. \A id \in DOMAIN reservations : ChargeExpired(charged, before, now)[id] = charged[id]
  BY <1>1, <1>2 DEF ChargeExpired
<1>5. \A id : StatusIn(touched, id) = "closed"
  BY DEF StatusIn, IsIdle
<1>6. \A id : StatusIn(StateOf(table, victim), id) = "closed"
  <2>1. StateOf(table, victim) = AtPeriod(0)
    BY DEF StateOf, Restrict
  <2>2. QED
    BY <2>1 DEF StatusIn, AtPeriod
<1>7. \A s : s # victim => StateOf(table, s) = StateOf(scopes, s)
  BY DEF StateOf, Restrict, Tracked
<1> HIDE DEF victim, before, table
<1>8. \A id \in DOMAIN reservations :
        Ages(reservations[id], StatusIn(before, id), charged[id],
             StatusIn(touched, id), ChargeExpired(charged, before, now)[id])
  BY <1>1, <1>3, TouchAges
<1> HIDE DEF touched
<1>9. ASSUME NEW id \in DOMAIN reservations
      PROVE  Ages(reservations[id], StatusIn(StateOf(scopes, reservations[id].scope), id),
                  charged[id], StatusIn(StateOf(table, reservations[id].scope), id), charged[id])
  <2>1. CASE reservations[id].scope = victim
    BY <1>3, <1>4, <1>5, <1>6, <1>8, <2>1
  <2>2. CASE reservations[id].scope # victim
    <3>1. StateOf(table, reservations[id].scope) = StateOf(scopes, reservations[id].scope)
      BY <1>7, <2>2
    <3>2. QED
      BY <3>1 DEF Ages
  <2>3. QED
    BY <2>1, <2>2
<1>10. QED
  BY <1>9 DEF AgesTo, table, victim

-----------------------------------------------------------------------------
LEMMA SettledRow ==
  ASSUME NEW r, NEW status, NEW charge, NEW commit \in BOOLEAN, NEW now
  PROVE  Exposure!Settled(Row(r, status, charge), commit, now) =
           IF status = "closed" THEN Row(r, status, charge)
           ELSE Row(r, "closed", IF commit THEN (IF charge = NoPeriod THEN now ELSE charge)
                                 ELSE IF charge = now THEN NoPeriod ELSE charge)
<1> DEFINE entry == Row(r, status, charge)
           mid   == [entry EXCEPT !.status = "closed"]
           then  == IF commit THEN (IF charge = NoPeriod THEN now ELSE charge)
                    ELSE IF charge = now THEN NoPeriod ELSE charge
<1>1. entry.status = status /\ entry.charged = charge /\ Exposure!Uncharged = NoPeriod
  BY DEF Row, Exposure!Uncharged, NoPeriod
<1>2. mid = Row(r, "closed", charge)
  BY DEF Row
<1> HIDE DEF entry
<1>3. Exposure!Settled(entry, commit, now) =
        IF status = "closed" THEN entry ELSE [mid EXCEPT !.charged = then]
  BY <1>1 DEF Exposure!Settled
<1> HIDE DEF mid, then
<1>4. [mid EXCEPT !.charged = then] = Row(r, "closed", then)
  BY <1>2 DEF Row
<1>5. QED
  BY <1>3, <1>4 DEF entry, then

(* A settlement: time may have acted on any entry, its own included; then  *)
(* its own is settled.                                                     *)
LEMMA SettleStep ==
  ASSUME clock \in Nat, NEW id \in DOMAIN reservations, NEW commit \in BOOLEAN,
         NEW status, NEW charge,
         Ages(reservations[id], StatusIn(StateOf(scopes, reservations[id].scope), id),
              charged[id], status, charge),
         \A i \in DOMAIN reservations \ {id} :
           Ages(reservations[i], StatusIn(StateOf(scopes, reservations[i].scope), i), charged[i],
                StatusIn(StateOf(scopes', reservations[i].scope), i), charged'[i]),
         StatusIn(StateOf(scopes', reservations[id].scope), id) = "closed",
         charged'[id] = IF status = "closed" THEN charge
                        ELSE IF commit THEN (IF charge = NoPeriod THEN Period(clock) ELSE charge)
                        ELSE IF charge = Period(clock) THEN NoPeriod ELSE charge,
         UNCHANGED <<reservations, clock>>
  PROVE  Exposure!Next
<1> DEFINE D == DOMAIN reservations
           s == [i \in D |-> IF i = id THEN status
                             ELSE StatusIn(StateOf(scopes', reservations[i].scope), i)]
           c == [i \in D |-> IF i = id THEN charge ELSE charged'[i]]
           map == [i \in D |-> Row(reservations[i], s[i], c[i])]
           new == View(scopes', reservations', charged')
           row == Exposure!Settled(map[id], commit, Period(clock))
<1>1. \A i \in D : Ages(reservations[i], StatusIn(StateOf(scopes, reservations[i].scope), i),
                        charged[i], s[i], c[i])
  OBVIOUS
<1>2. map \in Exposure!Aged
  <2> HIDE DEF s, c
  <2>1. QED
    BY <1>1, AgedRows
<1>3. row = Row(reservations[id], "closed", charged'[id])
  <2>1. map[id] = Row(reservations[id], status, charge)
    OBVIOUS
  <2> HIDE DEF map
  <2>2. CASE status = "closed"
    BY <2>1, <2>2, SettledRow
  <2>3. CASE status # "closed"
    BY <2>1, <2>3, SettledRow
  <2>4. QED
    BY <2>2, <2>3
<1>4. \A i \in D \ {id} : map[i] = Row(reservations[i],
                 StatusIn(StateOf(scopes', reservations[i].scope), i), charged'[i])
  OBVIOUS
<1>5. DOMAIN map = D
  OBVIOUS
<1> HIDE DEF map, row
<1>6. /\ DOMAIN new = D /\ new[id] = row
      /\ \A i \in D \ {id} : new[i] = map[i]
  BY <1>3, <1>4 DEF View
<1>7. new = [i \in D |-> new[i]]
  BY DEF View
<1> HIDE DEF new
<1>8. new = [map EXCEPT ![id] = row]
  BY <1>5, <1>6, <1>7
<1>9. Exposure!PeriodOf(clock) = Period(clock)
  BY DEF Exposure!PeriodOf, Period
<1>10. Exposure!Settle(id, commit)
  <2>1. [i \in DOMAIN reservations |-> EntryOf(i)]' = new
    BY ViewNext DEF new
  <2>2. [map EXCEPT ![id] = Exposure!Settled(@, commit, Exposure!PeriodOf(clock))]
          = [map EXCEPT ![id] = row]
    BY <1>9 DEF row
  <2>3. QED
    BY <1>2, <1>8, <2>1, <2>2 DEF Exposure!Settle
<1>11. QED
  BY <1>10 DEF Exposure!Next

(* What a settlement does to its own entry, on the state it finds ready.   *)
LEMMA SettleCharge ==
  ASSUME NEW ids, NEW state, Sound(state, ids), NEW id, NEW commit \in BOOLEAN,
         NEW ch, id \in DOMAIN ch,
         Holds(state, id) => ch[id] = Entry(state, id).provisional_period
  PROVE  ChargedBy(ch, id, Outcome(state, id, commit), state.period)[id] =
           IF StatusIn(state, id) = "closed" THEN ch[id]
           ELSE IF commit THEN (IF ch[id] = NoPeriod THEN state.period ELSE ch[id])
           ELSE IF ch[id] = state.period THEN NoPeriod ELSE ch[id]
<1> DEFINE outcome == Outcome(state, id, commit)
           entry == Entry(state, id)
           after == Settle(state, id, commit)
<1>1. /\ outcome \in {"committed", "late-committed"} =>
           Holds(state, id) /\ commit /\ entry.provisional_period = NoPeriod
      /\ outcome = "refunded" =>
           Holds(state, id) /\ ~commit /\ entry.provisional_period = state.period
      /\ outcome \notin {"committed", "late-committed", "refunded"} =>
           /\ Holds(state, id) /\ commit => entry.provisional_period # NoPeriod
           /\ Holds(state, id) /\ ~commit => entry.provisional_period # state.period
  BY SettleEntries
<1>2. Holds(state, id) <=> StatusIn(state, id) # "closed"
  BY DEF Holds, StatusIn
<1>3. ChargedBy(ch, id, outcome, state.period)[id] =
        CASE outcome \in {"committed", "late-committed"} -> state.period
          [] outcome = "refunded" -> NoPeriod
          [] OTHER -> ch[id]
  BY DEF ChargedBy
<1> HIDE DEF outcome, entry
<1>4. CASE outcome \in {"committed", "late-committed"}
  BY <1>1, <1>2, <1>3, <1>4 DEF outcome, entry
<1>5. CASE outcome = "refunded"
  BY <1>1, <1>2, <1>3, <1>5 DEF outcome, entry
<1>6. CASE outcome \notin {"committed", "late-committed", "refunded"}
  BY <1>1, <1>2, <1>3, <1>6 DEF outcome, entry
<1>7. QED
  BY <1>4, <1>5, <1>6

(* A settlement and the reclaims around it, entry by entry.                *)
LEMMA SettlingAges ==
  ASSUME clock \in Nat, NEW n, NEW res, NEW ch, NEW lt, History(n, res, ch, lt),
         NEW scope, NEW state, Books(scope, state, n, res, ch, lt), Costed(res),
         DOMAIN ch = DOMAIN res, Timely(res),
         Account(scope, state, res, ch, Period(clock)),
         NEW id \in DOMAIN res, NEW commit \in BOOLEAN
  PROVE  LET ready == Ready(state, clock)
             after == After(state, id, commit, clock)
             chr   == ReadyCharges(ch, state, clock)
             ch2   == AfterCharges(ch, state, id, commit, clock)
         IN  /\ \A i \in DOMAIN res :
                  Ages(res[i], StatusIn(state, i), ch[i], StatusIn(ready, i), chr[i])
             /\ \A i \in DOMAIN res \ {id} :
                  Ages(res[i], StatusIn(state, i), ch[i], StatusIn(after, i), ch2[i])
             /\ StatusIn(after, id) = "closed"
             /\ ch2[id] = IF StatusIn(ready, id) = "closed" THEN chr[id]
                          ELSE IF commit
                               THEN (IF chr[id] = NoPeriod THEN Period(clock) ELSE chr[id])
                          ELSE IF chr[id] = Period(clock) THEN NoPeriod ELSE chr[id]
<1> DEFINE rolled == Roll(state, Period(clock))
           ready  == Ready(state, clock)
           done   == Done(state, id, commit, clock)
           after  == After(state, id, commit, clock)
           chr    == ReadyCharges(ch, state, clock)
           ch2    == AfterCharges(ch, state, id, commit, clock)
           today  == Period(clock)
           ids    == 1 .. (n - 1)
<1>1. /\ Sound(rolled, ids) /\ Sound(ready, ids) /\ Sound(after, ids) /\ ready.period = today
      /\ Account(scope, ready, res, chr, today)
      /\ chr = (IF Timeout = "commit" THEN ExpiredCharge(ch, rolled, clock) ELSE ch)
      /\ Expired(done, clock) = {} \/ Timeout = "release"
  BY AccountSettling
<1>2. today \in Nat /\ today \in Exposure!Current /\ IsFiniteSet(ids) /\ Sound(state, ids)
  BY PeriodNat, CurrentStamp, BoundsAssumption, IdsFinite DEF Books, History
<1>3. /\ ready = (IF Timeout = "commit" THEN Reclaim(rolled, clock) ELSE rolled)
      /\ done = Settle(ready, id, commit) /\ after = Reclaim(done, clock)
      /\ ch2 = ChargedBy(chr, id, Outcome(ready, id, commit), ready.period)
  BY DEF Ready, Done, After, AfterCharges
<1>4. Account(scope, rolled, res, ch, today)
  BY <1>2, AccountRoll
<1>5. rolled.period = today /\ \A i : StatusIn(rolled, i) = StatusIn(state, i)
  <2>1. state.period \in Nat /\ state.period <= today
    BY <1>2 DEF Sound, Account
  <2>2. rolled.period = today
    BY <1>2, <2>1 DEF Roll, Sound
  <2>3. QED
    BY <1>2, <2>2, RollStatus
<1> HIDE DEF rolled, ready, done, after, chr, ch2, today, ids
<1>6. ASSUME NEW i \in DOMAIN res
      PROVE  Ages(res[i], StatusIn(state, i), ch[i], StatusIn(ready, i), chr[i])
  <2>1. CASE Timeout = "commit"
    <3>1. \A j : Holds(rolled, j) => Entry(rolled, j).expires_at = res[j].expires_at
      BY <1>4 DEF Account
    <3>2. Ages(res[i], StatusIn(rolled, i), ch[i],
               StatusIn(Reclaim(rolled, clock), i), ExpiredCharge(ch, rolled, clock)[i])
      BY <1>1, <1>2, <1>5, <3>1, ReclaimAges
    <3>3. QED
      BY <1>1, <1>3, <1>5, <2>1, <3>2
  <2>2. CASE Timeout # "commit"
    BY <1>1, <1>3, <1>5, <2>2 DEF Ages
  <2>3. QED
    BY <2>1, <2>2
<1>7. DOMAIN chr = DOMAIN res /\ DOMAIN ch2 = DOMAIN res
      /\ \A i \in DOMAIN res \ {id} : ch2[i] = chr[i]
  <2>1. DOMAIN chr = DOMAIN res
    BY <1>1 DEF ExpiredCharge
  <2>2. QED
    BY <1>3, <2>1 DEF ChargedBy
<1>8. /\ Sound(done, ids) /\ done.period = today /\ ~Holds(done, id)
      /\ \A i : Holds(done, i) => Holds(ready, i) /\ Entry(done, i) = Entry(ready, i)
      /\ \A i : i # id => StatusIn(done, i) = StatusIn(ready, i)
  <2>1. Sound(done, ids) /\ ~Holds(done, id) /\ done.period = ready.period
    BY <1>1, <1>2, <1>3, SettleSound
  <2>2. /\ DOMAIN done.active = DOMAIN ready.active \ {id}
        /\ DOMAIN done.reclaimed = DOMAIN ready.reclaimed \ {id}
        /\ \A i \in DOMAIN done.active : done.active[i] = ready.active[i]
        /\ \A i \in DOMAIN done.reclaimed : done.reclaimed[i] = ready.reclaimed[i]
    BY <1>1, <1>3, SettleEntries
  <2>3. QED
    BY <1>1, <2>1, <2>2 DEF Holds, Entry, StatusIn
<1>9. \A i : Holds(done, i) => Entry(done, i).expires_at = res[i].expires_at
  BY <1>1, <1>8 DEF Account
<1>10. ASSUME NEW i \in DOMAIN res \ {id}
       PROVE  Ages(res[i], StatusIn(state, i), ch[i], StatusIn(after, i), ch2[i])
  <2>1. Ages(res[i], StatusIn(done, i), ch2[i],
             StatusIn(Reclaim(done, clock), i), ExpiredCharge(ch2, done, clock)[i])
    BY <1>2, <1>7, <1>8, <1>9, ReclaimAges
  <2>2. ExpiredCharge(ch2, done, clock)[i] = ch2[i]
    BY <1>1, <1>7 DEF ExpiredCharge
  <2>3. Ages(res[i], StatusIn(ready, i), chr[i], StatusIn(after, i), ch2[i])
    BY <1>3, <1>7, <1>8, <2>1, <2>2
  <2>4. Ages(res[i], StatusIn(state, i), ch[i], StatusIn(ready, i), chr[i])
    BY <1>6
  <2>5. QED
    BY <2>3, <2>4, AgesTwice
<1>11. StatusIn(after, id) = "closed"
  <2>1. Shrinks(after, done)
    BY <1>2, <1>3, <1>8, ReclaimSound
  <2>2. QED
    BY <1>8, <2>1 DEF Shrinks, Holds, StatusIn
<1>12. ch2[id] = IF StatusIn(ready, id) = "closed" THEN chr[id]
                 ELSE IF commit THEN (IF chr[id] = NoPeriod THEN today ELSE chr[id])
                 ELSE IF chr[id] = today THEN NoPeriod ELSE chr[id]
  <2>1. Holds(ready, id) => chr[id] = Entry(ready, id).provisional_period
    BY <1>1 DEF Account
  <2>2. QED
    BY <1>1, <1>3, <1>7, <2>1, SettleCharge
<1>13. QED
  BY <1>6, <1>10, <1>11, <1>12 DEF ready, after, chr, ch2, today

LEMMA SettleTrackedRefines ==
  ASSUME TimesFit, IInv, AInv, NEW id \in DOMAIN reservations, NEW commit \in BOOLEAN,
         SettleTracked(id, commit), UNCHANGED <<next_id, clock, reservations>>
  PROVE  Exposure!Next
<1> DEFINE scope == reservations[id].scope
           state == scopes[scope]
           ready == Ready(state, clock)
           after == After(state, id, commit, clock)
           chr   == ReadyCharges(charged, state, clock)
           today == Period(clock)
<1>1. /\ History(next_id, reservations, charged, late)
      /\ DOMAIN charged = DOMAIN reservations /\ Timely(reservations)
      /\ Costed(reservations) /\ clock \in Nat /\ today \in Nat
      /\ scope \in Scopes /\ scope \in Tracked
      /\ reservations' = reservations /\ clock' = clock
      /\ Table(scopes, idle_index, next_id, reservations, charged, late)
  BY HistoryTypes, ReservationsCosted, ReservationsTimely, PeriodNat
     DEF IInv, AInv, HistoryOK, Dated, SettleTracked
<1>2. /\ scopes' = Put(scopes, scope, Reindexed(after))
      /\ charged' = AfterCharges(charged, state, id, commit, clock)
  <2>1. \A st : [scopes EXCEPT ![scope] = st] = Put(scopes, scope, st)
    BY <1>1, ExceptIsPut DEF Tracked
  <2>2. QED
    BY <2>1 DEF SettleTracked, ChargedBy, Ready, Done, After, ReadyCharges, AfterCharges
<1>3. /\ Books(scope, state, next_id, reservations, charged, late)
      /\ Account(scope, state, reservations, charged, today)
      /\ StateOf(scopes, scope) = state
  BY <1>1 DEF Table, Tracked, AInv, AccountsIn, StateOf
<1> HIDE DEF state
<1>4. /\ Sound(after, 1 .. (next_id - 1))
      /\ \A i \in DOMAIN reservations :
           \/ chr[i] = charged[i]
           \/ i \in DOMAIN state.active
  <2> HIDE DEF scope
  <2>1. QED
    BY <1>1, <1>2, <1>3, AccountSettling
<1>5. /\ Ages(reservations[id], StatusIn(state, id), charged[id], StatusIn(ready, id), chr[id])
      /\ \A i \in DOMAIN reservations \ {id} :
           Ages(reservations[i], StatusIn(state, i), charged[i], StatusIn(after, i), charged'[i])
      /\ StatusIn(after, id) = "closed"
      /\ charged'[id] = IF StatusIn(ready, id) = "closed" THEN chr[id]
                        ELSE IF commit THEN (IF chr[id] = NoPeriod THEN today ELSE chr[id])
                        ELSE IF chr[id] = today THEN NoPeriod ELSE chr[id]
  <2> HIDE DEF scope
  <2>1. QED
    BY <1>1, <1>2, <1>3, SettlingAges
<1>6. DOMAIN chr = DOMAIN reservations
  BY <1>1 DEF ReadyCharges, ChargeExpired
<1>7. \A i \in DOMAIN reservations \ {id} : charged'[i] = chr[i]
  BY <1>2, <1>6 DEF AfterCharges, ChargedBy
<1> HIDE DEF after, chr, ready, today
<1>8. \A i \in DOMAIN reservations \ {id} :
        reservations[i].scope # scope => charged'[i] = charged[i]
  <2>1. \A i \in DOMAIN state.active : reservations[i].scope = scope
    BY <1>3 DEF Books, Holds
  <2>2. QED
    BY <1>4, <1>7, <2>1
<1>9. /\ \A i : StatusIn(StateOf(scopes', scope), i) = StatusIn(after, i)
      /\ \A s : s # scope => StateOf(scopes', s) = StateOf(scopes, s)
  <2> HIDE DEF scope
  <2>1. QED
    BY <1>2, <1>4, PutStatus
<1>10. \A i \in DOMAIN reservations \ {id} :
         Ages(reservations[i], StatusIn(StateOf(scopes, reservations[i].scope), i), charged[i],
              StatusIn(StateOf(scopes', reservations[i].scope), i), charged'[i])
  <2> SUFFICES ASSUME NEW i \in DOMAIN reservations \ {id}
               PROVE  Ages(reservations[i], StatusIn(StateOf(scopes, reservations[i].scope), i),
                           charged[i], StatusIn(StateOf(scopes', reservations[i].scope), i),
                           charged'[i])
    OBVIOUS
  <2>1. CASE reservations[i].scope = scope
    BY <1>3, <1>5, <1>9, <2>1
  <2>2. CASE reservations[i].scope # scope
    BY <1>8, <1>9, <2>2 DEF Ages
  <2>3. QED
    BY <2>1, <2>2
<1>11. /\ Ages(reservations[id], StatusIn(StateOf(scopes, reservations[id].scope), id),
               charged[id], StatusIn(ready, id), chr[id])
       /\ StatusIn(StateOf(scopes', reservations[id].scope), id) = "closed"
  BY <1>3, <1>5, <1>9
<1>12. QED
  BY <1>1, <1>5, <1>10, <1>11, SettleStep DEF today

(* A settlement that finds no entry: a free call's, or one evicted.        *)
LEMMA SettleAsideRefines ==
  ASSUME IInv, NEW id \in DOMAIN reservations, NEW commit \in BOOLEAN,
         SettleFree(id, commit) \/ SettleUntracked(id),
         UNCHANGED <<next_id, clock, reservations>>
  PROVE  Exposure!Next
<1> DEFINE scope == reservations[id].scope
           state == StateOf(scopes, scope)
<1>1. /\ scopes' = scopes /\ charged' = charged /\ clock \in Nat
      /\ reservations[id].contribution = 0 \/ scope \notin Tracked
  BY DEF SettleFree, SettleUntracked, history, IInv, HistoryOK
<1>2. StatusIn(state, id) = "closed"
  <2>1. CASE scope \notin Tracked
    BY <2>1 DEF StateOf, Tracked, StatusIn, AtPeriod
  <2>2. CASE reservations[id].contribution = 0
    <3>1. Books(scope, state, next_id, reservations, charged, late)
      BY HistoryTypes, StateOfFacts DEF IInv
    <3> HIDE DEF state
    <3>2. ASSUME Holds(state, id) PROVE FALSE
      <4>1. Entry(state, id).contribution = 0
        BY <2>2, <3>1, <3>2 DEF Books
      <4>2. Entry(state, id) \in Held
        BY <3>1, <3>2 DEF Books, Sound, SoundMaps, Entry, Holds
      <4>3. QED
        BY <4>1, <4>2, WidthAssumption DEF Held
    <3>3. QED
      BY <3>2 DEF Holds, StatusIn
  <2>3. QED
    BY <1>1, <2>1, <2>2
<1>3. \A i \in DOMAIN reservations :
        Ages(reservations[i], StatusIn(StateOf(scopes, reservations[i].scope), i), charged[i],
             StatusIn(StateOf(scopes', reservations[i].scope), i), charged'[i])
  BY <1>1 DEF Ages
<1>4. QED
  BY <1>1, <1>2, <1>3, SettleStep

LEMMA StepRefines ==
  ASSUME TimesFit, IInv, AInv, [Next]_vars
  PROVE  [Exposure!Next]_Exposure!exposureVars
<1>1. ASSUME UNCHANGED <<scopes, reservations, charged, clock>>
      PROVE  UNCHANGED Exposure!exposureVars
  BY <1>1 DEF Exposure!exposureVars, EntryOf, Tracked
<1>2. clock \in Nat /\ HistoryOK /\ Dated
  BY DEF IInv, HistoryOK, AInv
<1>3. ASSUME NEW scope \in Scopes, NEW contribution \in Contributions, NEW now \in Stamps,
             Reserve(scope, contribution, now)
      PROVE  [Exposure!Next]_Exposure!exposureVars
  <2>1. CASE RefuseStale(now) \/ RefuseAtCapacity(scope, now)
    BY <1>1, <2>1 DEF RefuseStale, RefuseAtCapacity, ledgerVars, history
  <2>2. CASE RefuseBusyVictim(scope, now)
    BY <2>2, BusyVictimRefines
  <2>3. CASE AdmitInRoom(scope, contribution, now)
    <3>1. /\ Admitted(scope, contribution, now, scopes, idle_index, stats)
          /\ ~ExpiredOnArrival(now, clock) /\ UNCHANGED clock
      BY <2>3 DEF AdmitInRoom
    <3>2. AgesTo(scopes, charged)
      BY DEF AgesTo, Ages
    <3>3. QED
      BY <1>2, <3>1, <3>2, AdmittedRefines DEF IInv, AInv
  <2>4. CASE AdmitEvicting(scope, contribution, now)
    <3>1. PICK entry \in Victims(now) :
            /\ IsIdle(Touch(scopes[entry[2]], now))
            /\ Admitted(scope, contribution, now,
                        Restrict(scopes, Tracked \ {entry[2]}), idle_index \ {entry},
                        CountReclaim(stats, scopes[entry[2]], now))
      BY <2>4 DEF AdmitEvicting
    <3>2. ~ExpiredOnArrival(now, clock) /\ UNCHANGED clock
      BY <2>4 DEF AdmitEvicting
    <3> DEFINE table == Restrict(scopes, Tracked \ {entry[2]})
               index == idle_index \ {entry}
               counters == CountReclaim(stats, scopes[entry[2]], now)
    <3>3. /\ Table(table, index, next_id, reservations, charged, late)
          /\ AccountsIn(table, reservations, charged, Period(clock))
      BY <3>1, EvictedAccounts
    <3>4. AgesTo(table, charged)
      BY <3>1, EvictionAges
    <3>5. Admitted(scope, contribution, now, table, index, counters)
      BY <3>1
    <3> HIDE DEF table, index, counters
    <3>6. QED
      BY <1>2, <3>2, <3>3, <3>4, <3>5, AdmittedRefines
  <2>5. QED
    BY <1>3, <2>1, <2>2, <2>3, <2>4 DEF Reserve
<1>4. ASSUME NEW id \in DOMAIN reservations, NEW commit \in BOOLEAN, SettleCall(id, commit)
      PROVE  Exposure!Next
  <2>1. UNCHANGED <<next_id, clock, reservations>>
    BY <1>4 DEF SettleCall
  <2>2. CASE SettleTracked(id, commit)
    BY <2>1, <2>2, SettleTrackedRefines
  <2>3. CASE SettleFree(id, commit) \/ SettleUntracked(id)
    BY <2>1, <2>3, SettleAsideRefines
  <2>4. QED
    BY <1>4, <2>2, <2>3 DEF SettleCall
<1>5. ASSUME Tick PROVE Exposure!Next
  <2>1. clock' = clock + 1
        /\ UNCHANGED [id \in DOMAIN reservations |-> EntryOf(id)]
    BY <1>5 DEF Tick, ledgerVars, history, EntryOf, Tracked
  <2>2. Exposure!Tick
    BY <2>1 DEF Exposure!Tick
  <2>3. QED
    BY <2>2 DEF Exposure!Next
<1>6. CASE UNCHANGED vars
  BY <1>1, <1>6 DEF vars
<1>7. CASE Next
  BY <1>3, <1>4, <1>5, <1>7 DEF Next, Commit, Release
<1>8. QED
  BY <1>6, <1>7

(* The ledger implements the contract its callers rely on (LedgerStore):   *)
(* every step is a step of ExposureLedger, or changes nothing of it.  An   *)
(* entry is held until its own call settles it or its time is over, it is  *)
(* charged at most once and in a period its stamp allows, and a call is    *)
(* let in only within the budget, whatever the table evicts, reclaims or   *)
(* refuses meanwhile and however stamps lag.  The one hypothesis is that   *)
(* no deadline, nor the ttl after it, passes the largest u64.              *)
THEOREM Refines == ASSUME TimesFit PROVE Spec => ImplementsExposure
<1>1. Init => Exposure!Init
  BY InitRefines
<1>2. IInv /\ AInv /\ [Next]_vars => [Exposure!Next]_Exposure!exposureVars
  BY StepRefines
<1>3. QED
  BY <1>1, <1>2, AccountsHold, PTL DEF Spec, ImplementsExposure, Exposure!Spec

=============================================================================

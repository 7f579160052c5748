---------------------------- MODULE WorkerLedger ----------------------------
(***************************************************************************)
(* The per-worker ledger of aggregate-risk-gate/src/ledger.rs: the scope   *)
(* table behind one mutex, its idle index, its cap of MaxScopes scopes,    *)
(* and the calls the filter makes on it: reserve (block mode) or           *)
(* force_reserve_checked (monitor mode) in the request phase, commit or    *)
(* release in the response phase.  A call holds the mutex throughout, so   *)
(* each is one action.                                                     *)
(*                                                                         *)
(* The interleaving is in the callers: requests are admitted, settled,     *)
(* settled late, settled twice or never settled, in any order, while the   *)
(* clock moves.  A request is stamped before it is priced and admitted, and*)
(* the clock is the host's wall clock, which may step back: the stamp may  *)
(* be up to MaxLag behind the clock the ledger re-reads.                   *)
(*                                                                         *)
(* An operator whose name ends in _No... or _With... is a mutant: the      *)
(* mistaken form of the definition that follows it, which PROJECT.json     *)
(* names to show that a property would catch the mistake.                  *)
(***************************************************************************)
EXTENDS ScopeState

CONSTANTS Scopes,          \* scope names
          MaxScopes,       \* max_scopes
          Mode,            \* "block" or "monitor"
          Budget,          \* aggregate_budget
          Contributions    \* what a call may cost

CONSTANTS MaxClock,        \* bound: the last time reached
          MaxLag,          \* bound: how far a request's stamp may lag
          MaxId,           \* bound: reservation ids given out
          MaxFree          \* bound: settlements of calls of zero units

ASSUME ScopesAssumption == MaxScopes \in Nat \ {0} /\ IsFiniteSet(Scopes)
ASSUME ModeAssumption   == Mode \in {"block", "monitor"}
ASSUME BudgetAssumption == Budget \in 0 .. MaxUnits
ASSUME ContributionsAssumption == Contributions \subseteq 0 .. MaxUnits
ASSUME BoundsAssumption == /\ MaxClock \in Nat /\ MaxLag \in Nat
                           /\ MaxId \in Nat /\ MaxFree \in Nat

VARIABLES scopes,       \* tracked scope name -> its ScopeState
          idle_index,   \* {<<idle_at, scope name>>}, ordered by idle_at
          next_id,      \* the next reservation id
          stats,        \* the counters of LedgerStats
          clock,        \* the gateway clock, ms
          reservations  \* id -> the Reservation its call carries

(* What really happened, for the properties: the period each reservation   *)
(* is charged in (NoPeriod when it is not), how often calls of zero units  *)
(* were settled, and which were charged only after their hold expired.     *)
VARIABLES charged, free, late

ledgerVars == <<scopes, idle_index, next_id, stats>>
history    == <<charged, free, late>>
vars == <<scopes, idle_index, next_id, stats, clock, reservations,
          charged, free, late>>

Tracked == DOMAIN scopes

StatFields == {"active", "committed", "released", "expired", "late_committed",
               "late_released", "provisional_charged", "provisional_refunded",
               "abandoned"}

Stats == [StatFields -> Int]

Init ==
  /\ scopes = <<>>
  /\ idle_index = {}
  /\ next_id = 1
  /\ stats = [field \in StatFields |-> 0]
  /\ clock = 1
  /\ reservations = <<>>
  /\ charged = <<>>
  /\ free = 0
  /\ late = {}

-----------------------------------------------------------------------------
(* Insert or replace one entry of a map.                                   *)
Put(map, key, value) ==
  [k \in DOMAIN map \cup {key} |-> IF k = key THEN value ELSE map[k]]

Reindexed_NoTime(state) == state

Reindex_NoRemoval(index, scope, state) == index \cup {<<IdleAt(state), scope>>}

(* reindex: move a scope's entry to its current idle_at.                   *)
Reindexed(state) == [state EXCEPT !.indexed_at = IdleAt(state)]

Reindex(index, scope, state) ==
  IF state.indexed_at = IdleAt(state) THEN index
  ELSE (index \ {<<state.indexed_at, scope>>}) \cup {<<IdleAt(state), scope>>}

(* What every call does to a scope's state first.                          *)
Touch(state, now) == Reclaim(Roll(state, Period(now)), now)

CountReclaim(st, state, now) ==
  LET rolled == Roll(state, Period(now))
      expired == Cardinality(Expired(rolled, now))
  IN  [st EXCEPT !.active = SatSub(@, expired),
                 !.expired = @ + expired,
                 !.provisional_charged = @ + (IF Timeout = "commit" THEN expired ELSE 0),
                 !.abandoned = @ + Abandoned(rolled, now)]

CountSettlement(st, outcome) ==
  CASE outcome = "committed" ->
         [st EXCEPT !.active = SatSub(@, 1), !.committed = @ + 1]
    [] outcome = "released" ->
         [st EXCEPT !.active = SatSub(@, 1), !.released = @ + 1]
    [] outcome = "late-committed" -> [st EXCEPT !.late_committed = @ + 1]
    [] outcome = "late-released"  -> [st EXCEPT !.late_released = @ + 1]
    [] outcome = "refunded"       -> [st EXCEPT !.provisional_refunded = @ + 1]
    [] OTHER -> st

(* The history of a touch: an expired hold is charged in commit mode.      *)
ChargeExpired(ch, state, now) ==
  LET rolled == Roll(state, Period(now))
  IN  [id \in DOMAIN ch |->
         IF Timeout = "commit" /\ id \in Expired(rolled, now)
         THEN rolled.period ELSE ch[id]]

-----------------------------------------------------------------------------
(* A request's stamp.                                                      *)
Stamps == {now \in 1 .. clock : clock - now <= MaxLag}

NeedsRoom_WithSlack(scope) == scope \notin Tracked /\ Cardinality(Tracked) > MaxScopes

NeedsRoom(scope) == scope \notin Tracked /\ Cardinality(Tracked) >= MaxScopes

First_WithLast == {entry \in idle_index : \A other \in idle_index : entry[1] >= other[1]}

(* The entries that may be first in the index: names of one idle_at are    *)
(* ordered by the name, which the model leaves open.                       *)
First == {entry \in idle_index : \A other \in idle_index : entry[1] <= other[1]}

(* The entry evict_one examines, if the first one is due.                  *)
Victims(now) == {entry \in First : entry[1] <= now}

(* check_fresh: the reservation would be past its deadline on arrival.     *)
RefuseStale(now) ==
  /\ ExpiredOnArrival(now, clock)
  /\ UNCHANGED <<ledgerVars, clock, reservations, history>>

(* No room: nothing is due to be idle.                                     *)
RefuseAtCapacity(scope, now) ==
  /\ ~ExpiredOnArrival(now, clock)
  /\ NeedsRoom(scope)
  /\ Victims(now) = {}
  /\ UNCHANGED <<ledgerVars, clock, reservations, history>>

(* No room: the first scope was due, but is not idle once touched.         *)
RefuseBusyVictim(scope, now) ==
  /\ ~ExpiredOnArrival(now, clock)
  /\ NeedsRoom(scope)
  /\ \E entry \in Victims(now) :
       LET victim == entry[2]
           touched == Touch(scopes[victim], now)
       IN  /\ ~IsIdle(touched)
           /\ scopes' = [scopes EXCEPT ![victim] = Reindexed(touched)]
           /\ idle_index' = Reindex(idle_index, victim, touched)
           /\ stats' = CountReclaim(stats, scopes[victim], now)
           /\ charged' = ChargeExpired(charged, scopes[victim], now)
  /\ UNCHANGED <<next_id, clock, reservations, free, late>>

(* with_state around hold, on a table that has room for scope: table,      *)
(* index and counters are what the capacity check left.                    *)
Admitted(scope, contribution, now, table, index, counters) ==
  LET before  == IF scope \in DOMAIN table THEN table[scope] ELSE AtPeriod(0)
      touched == Touch(before, now)
      over    == Mode = "block" /\ OverBudget(touched, contribution, Budget)
      full    == contribution > 0 /\ Saturated(touched)
      after   == IF over \/ full THEN touched ELSE Hold(touched, next_id, contribution, now)
      counted == CountReclaim(counters, before, now)
  IN  /\ over \/ next_id <= MaxId
      /\ scopes' = Put(table, scope, Reindexed(after))
      /\ idle_index' = Reindex(index, scope, after)
      /\ next_id' = IF over THEN next_id ELSE next_id + 1
      /\ stats' = IF over \/ full \/ contribution = 0 THEN counted
                  ELSE [counted EXCEPT !.active = @ + 1]
      /\ reservations' = IF over \/ full THEN reservations
                         ELSE Put(reservations, next_id,
                                  [scope |-> scope, contribution |-> contribution,
                                   created_at |-> now, expires_at |-> SatAdd(now, Ttl)])
      /\ LET ch == ChargeExpired(charged, before, now)
         IN  charged' = IF over \/ full THEN ch ELSE Put(ch, next_id, NoPeriod)

AdmitInRoom(scope, contribution, now) ==
  /\ ~ExpiredOnArrival(now, clock)
  /\ ~NeedsRoom(scope)
  /\ Admitted(scope, contribution, now, scopes, idle_index, stats)
  /\ UNCHANGED <<clock, free, late>>

(* evict_one drops the first scope, idle once touched, to make room.       *)
AdmitEvicting(scope, contribution, now) ==
  /\ ~ExpiredOnArrival(now, clock)
  /\ NeedsRoom(scope)
  /\ \E entry \in Victims(now) :
       LET victim == entry[2]
       IN  /\ IsIdle(Touch(scopes[victim], now))
           /\ Admitted(scope, contribution, now,
                       Restrict(scopes, Tracked \ {victim}), idle_index \ {entry},
                       CountReclaim(stats, scopes[victim], now))
  /\ UNCHANGED <<clock, free, late>>

(* reserve in block mode, force_reserve_checked in monitor mode.           *)
Reserve(scope, contribution, now) ==
  \/ RefuseStale(now)
  \/ RefuseAtCapacity(scope, now)
  \/ RefuseBusyVictim(scope, now)
  \/ AdmitInRoom(scope, contribution, now)
  \/ AdmitEvicting(scope, contribution, now)

-----------------------------------------------------------------------------
(* A reservation of zero holds nothing and settles without the table, as   *)
(* often as it is settled.                                                 *)
SettleFree(id, commit) ==
  /\ reservations[id].contribution = 0
  /\ free < MaxFree
  /\ free' = free + 1
  /\ stats' = IF commit THEN [stats EXCEPT !.committed = @ + 1]
              ELSE [stats EXCEPT !.released = @ + 1]
  /\ UNCHANGED <<scopes, idle_index, charged, late>>

(* A scope that is not tracked: evicted while idle.                        *)
SettleUntracked(id) ==
  /\ reservations[id].contribution > 0
  /\ reservations[id].scope \notin Tracked
  /\ UNCHANGED <<scopes, idle_index, stats, history>>

(* settle on the scope's state: commit mode reclaims first, release mode   *)
(* settles first; both reclaim before they leave.                          *)
SettleTracked(id, commit) ==
  LET scope   == reservations[id].scope
      rolled  == Roll(scopes[scope], Period(clock))
      ready   == IF Timeout = "commit" THEN Reclaim(rolled, clock) ELSE rolled
      outcome == Outcome(ready, id, commit)
      after   == Reclaim(Settle(ready, id, commit), clock)
      counted == IF Timeout = "commit" THEN CountReclaim(stats, rolled, clock) ELSE stats
      ch      == IF Timeout = "commit" THEN ChargeExpired(charged, rolled, clock)
                 ELSE charged
  IN  /\ reservations[id].contribution > 0
      /\ scope \in Tracked
      /\ scopes' = [scopes EXCEPT ![scope] = Reindexed(after)]
      /\ idle_index' = Reindex(idle_index, scope, after)
      /\ stats' = CountSettlement(
                    CountReclaim(counted, Settle(ready, id, commit), clock), outcome)
      /\ charged' = CASE outcome \in {"committed", "late-committed"} ->
                           [ch EXCEPT ![id] = ready.period]
                      [] outcome = "refunded" -> [ch EXCEPT ![id] = NoPeriod]
                      [] OTHER -> ch
      /\ late' = IF outcome = "late-committed" THEN late \cup {id} ELSE late
      /\ free' = free

(* commit or release, the first time or again.                             *)
SettleCall(id, commit) ==
  /\ \/ SettleFree(id, commit)
     \/ SettleUntracked(id)
     \/ SettleTracked(id, commit)
  /\ UNCHANGED <<next_id, clock, reservations>>

Commit(id)  == SettleCall(id, TRUE)
Release(id) == SettleCall(id, FALSE)

Tick ==
  /\ clock < MaxClock
  /\ clock' = clock + 1
  /\ UNCHANGED <<ledgerVars, reservations, history>>

Next ==
  \/ \E scope \in Scopes, contribution \in Contributions, now \in Stamps :
       Reserve(scope, contribution, now)
  \/ \E id \in DOMAIN reservations : Commit(id) \/ Release(id)
  \/ Tick

Spec == Init /\ [][Next]_vars

-----------------------------------------------------------------------------
Ids == 1 .. (next_id - 1)

HeldMap(map) == DOMAIN map \subseteq Ids /\ map \in [DOMAIN map -> Held]

ScopeOK(state) ==
  /\ DOMAIN state = {"period", "committed", "reserved", "active", "reclaimed", "indexed_at"}
  /\ state.period \in Nat /\ state.committed \in Nat /\ state.reserved \in Nat
  /\ HeldMap(state.active) /\ HeldMap(state.reclaimed)
  /\ state.indexed_at \in Nat

(* The shape of every variable, and that every id a scope holds was given  *)
(* out before.                                                             *)
TypeOK ==
  /\ next_id \in Nat \ {0}
  /\ Tracked \subseteq Scopes
  /\ \A scope \in Tracked : ScopeOK(scopes[scope])
  /\ idle_index \subseteq (Nat \X Scopes)
  /\ stats \in Stats
  /\ clock \in Nat
  /\ DOMAIN reservations \subseteq Ids
  /\ \A id \in DOMAIN reservations :
       reservations[id] \in [scope : Scopes, contribution : Contributions,
                            created_at : Nat, expires_at : Nat]
  /\ charged \in [DOMAIN reservations -> Nat \cup {NoPeriod}]
  /\ free \in Nat
  /\ late \subseteq DOMAIN reservations

(* reserved is exactly the units of the scope's active holds after any     *)
(* order of admissions, expiries, settlements and duplicates: no saturating*)
(* subtraction ever hides an underflow, and no id is active and a          *)
(* tombstone at once (ledger.rs, "reserved is their sum").                 *)
ReservedIsActive ==
  \A scope \in Tracked :
    LET state == scopes[scope]
    IN  /\ state.reserved = Units(state.active, DOMAIN state.active)
        /\ DOMAIN state.active \cap DOMAIN state.reclaimed = {}

(* The units of a scope's reservations that are charged in a period.       *)
Owed(scope, period) ==
  Units(reservations, {id \in DOMAIN reservations :
                         reservations[id].scope = scope /\ charged[id] = period})

(* In the current period a scope's committed exposure is exactly the units *)
(* of the calls charged in it, each once, however often it was settled;    *)
(* and a scope that is not tracked owes nothing in it, so the cap on       *)
(* scopes never resets a running total.  For an older period the ledger    *)
(* never counts a unit that was not charged.                               *)
CommittedIsCharged ==
  /\ \A scope \in Scopes :
       Owed(scope, Period(clock)) =
         IF scope \in Tracked /\ scopes[scope].period = Period(clock)
         THEN scopes[scope].committed ELSE 0
  /\ \A scope \in Tracked :
       scopes[scope].committed <= Owed(scope, scopes[scope].period)

(* In block mode no interleaving of in-flight calls takes committed plus   *)
(* reserved past the budget; only calls that settle after their hold       *)
(* expired uncharged (Timeout = "release") can add to it.                  *)
BudgetHeld ==
  Mode = "block" =>
    \A scope \in Tracked :
      LET state == scopes[scope]
          overshoot == {id \in late : /\ reservations[id].scope = scope
                                      /\ charged[id] = state.period}
      IN  state.committed + state.reserved <= Budget + Units(reservations, overshoot)

(* The idle index has exactly one entry per tracked scope, at the moment   *)
(* it becomes idle: evict_one reads nothing else.                          *)
IndexExact ==
  /\ idle_index = {<<IdleAt(scopes[scope]), scope>> : scope \in Tracked}
  /\ \A scope \in Tracked : scopes[scope].indexed_at = IdleAt(scopes[scope])

(* The table and every record stay within their caps.                      *)
Bounded ==
  /\ Cardinality(Tracked) <= MaxScopes
  /\ \A scope \in Tracked :
       Cardinality(DOMAIN scopes[scope].active)
         + Cardinality(DOMAIN scopes[scope].reclaimed) <= MaxHeld

(* "scope is new and the ledger already tracks max_scopes scopes, none of  *)
(* them idle": whenever a call for a new scope would be refused AtCapacity,*)
(* because nothing is due in the index or because what is due turns out    *)
(* busy, no tracked scope is idle by the call's time.                      *)
AtCapacityMeansFull ==
  \A scope \in Scopes, now \in Stamps :
    LET busy(other) == ~IsIdle(Touch(scopes[other], now))
        refused == \/ Victims(now) = {}
                   \/ \E entry \in Victims(now) : busy(entry[2])
    IN  NeedsRoom(scope) /\ ~ExpiredOnArrival(now, clock) /\ refused =>
          \A other \in Tracked : busy(other)

(* The operator's counters tell every reservation that holds units apart,  *)
(* however often it is settled: each is in flight, settled on time or      *)
(* expired; each expired one is settled late, abandoned or still a         *)
(* tombstone.  A call of zero units is in them as often as it is settled.  *)
CountersBalance ==
  LET nonzero == {id \in DOMAIN reservations : reservations[id].contribution > 0}
      entries(field) ==
        SumFunction([scope \in Tracked |-> Cardinality(DOMAIN scopes[scope][field])])
  IN  /\ stats.active = entries("active")
      /\ stats.active + stats.committed + stats.released + stats.expired =
           Cardinality(nonzero) + free
      /\ Timeout = "release" =>
           stats.expired = stats.late_committed + stats.late_released
                             + stats.abandoned + entries("reclaimed")
      /\ Timeout = "commit" => stats.expired = stats.provisional_charged

(* What each reservation is to a caller of the trait.                      *)
EntryOf(id) ==
  LET r == reservations[id]
      in(field) == r.scope \in Tracked /\ id \in DOMAIN scopes[r.scope][field]
  IN  [scope |-> r.scope, units |-> r.contribution, deadline |-> r.expires_at,
       status |-> IF in("active") THEN "held" ELSE IF in("reclaimed") THEN "lapsed" ELSE "closed",
       charged |-> charged[id]]

Exposure == INSTANCE ExposureLedger
              WITH Ids <- 1 .. MaxId, Costs <- Contributions, Lag <- MaxLag,
                   rules <- [block |-> Mode = "block", budget |-> Budget,
                             provisional |-> Timeout = "commit"],
                   entries <- [id \in DOMAIN reservations |-> EntryOf(id)]

(* The scope table, its eviction and its lazy reclaiming never show: to    *)
(* its callers the ledger is one that keeps every entry until its own call *)
(* settles it or its time is over, recognises it for one more ttl, and     *)
(* admits within the budget of the period (the contract of ledger.rs's     *)
(* LedgerStore), whatever is evicted meanwhile and however stamps lag.     *)
ImplementsExposure == Exposure!Spec
=============================================================================

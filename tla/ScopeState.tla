----------------------------- MODULE ScopeState -----------------------------
(***************************************************************************)
(* One scope's running exposure: the ScopeState struct of                  *)
(* aggregate-risk-gate/src/ledger.rs, which both the per-worker ledger     *)
(* (WorkerLedger) and the shared node ledger are built from.  Every method *)
(* is a pure operator from a state, and the method's arguments, to the     *)
(* state it leaves; the caller holds the lock, or the compare-and-swap,    *)
(* that makes it atomic.                                                   *)
(*                                                                         *)
(* An operator whose name ends in _No... or _With... is a mutant: the      *)
(* mistaken form of the definition that follows it, which PROJECT.json     *)
(* names to show that a property would catch the mistake.                  *)
(*                                                                         *)
(* A HashMap<ReservationId, Held> is a function whose domain is the set of *)
(* ids it holds.  The strings of a scope's name and of a refusal message   *)
(* are left out.                                                           *)
(***************************************************************************)
EXTENDS Integers, FiniteSets, FiniteSetsExt, Functions

CONSTANTS Ttl,       \* lifetime of a reservation, ms
          Window,    \* length of the fixed window, ms; 0 is the code's None
          Timeout,   \* "commit" or "release": the fate of an expired hold
          MaxHeld,   \* MAX_HELD, entries one scope may hold
          MaxUnits,  \* MAX_UNITS, the largest contribution of one call
          U64Max     \* the largest u64

ASSUME TtlAssumption     == Ttl \in Nat \ {0}
ASSUME WindowAssumption  == Window \in Nat
ASSUME TimeoutAssumption == Timeout \in {"commit", "release"}
ASSUME HeldAssumption    == MaxHeld \in Nat \ {0}
(* 512 entries of at most 2^53 - 1 units fit a u64.                        *)
ASSUME WidthAssumption   == /\ MaxUnits \in Nat \ {0}
                            /\ U64Max \in Nat
                            /\ MaxHeld * MaxUnits < U64Max

NoPeriod == -1       \* Option<u64>::None of provisional_period
Unindexed == -1      \* Option<u64>::None of indexed_at

SatAdd(a, b) == IF a + b > U64Max THEN U64Max ELSE a + b
SatSub(a, b) == IF b > a THEN 0 ELSE a - b

Held == [contribution     : 1 .. MaxUnits,
         expires_at       : Nat,
         provisional_period : Nat \cup {NoPeriod}]

(* The units held by the entries ids of a map of holds.                    *)
Units(held, ids) == SumFunction([id \in ids |-> held[id].contribution])

(* The window period a time falls in: always 0 without a window.           *)
Period(now) == IF Window = 0 THEN 0 ELSE now \div Window

AtPeriod(period) ==
  [period |-> period, committed |-> 0, reserved |-> 0,
   active |-> <<>>, reclaimed |-> <<>>, indexed_at |-> Unindexed]

IsIdle(state) == /\ state.committed = 0
                 /\ DOMAIN state.active = {}
                 /\ DOMAIN state.reclaimed = {}

Saturated(state) ==
  Cardinality(DOMAIN state.active) + Cardinality(DOMAIN state.reclaimed) >= MaxHeld

Holds(state, id) == id \in DOMAIN state.active \cup DOMAIN state.reclaimed

Total(state) == SatAdd(state.committed, state.reserved)

(* The first time at which the scope is idle if nothing else happens.      *)
IdleAt(state) ==
  LET charged == IF state.committed = 0 THEN 0
                 ELSE IF Window = 0 THEN U64Max
                 ELSE (state.period + 1) * Window
      drops == {SatAdd(state.active[id].expires_at, Ttl) : id \in DOMAIN state.active}
               \cup {SatAdd(state.reclaimed[id].expires_at, Ttl) : id \in DOMAIN state.reclaimed}
  IN  CHOOSE at \in {charged} \cup drops : \A other \in {charged} \cup drops : other <= at

-----------------------------------------------------------------------------
Roll_WithRewind(state, period) ==
  IF period # state.period
  THEN [state EXCEPT !.period = period, !.committed = 0]
  ELSE state

Roll_NoReset(state, period) ==
  IF period > state.period THEN [state EXCEPT !.period = period] ELSE state

(* A new window period forgets the exposure committed in an earlier one;   *)
(* reservations are untouched, and a clock that went back changes nothing. *)
Roll(state, period) ==
  IF period > state.period
  THEN [state EXCEPT !.period = period, !.committed = 0]
  ELSE state

Expired_WithSlack(state, now) ==
  {id \in DOMAIN state.active : now + 1 >= state.active[id].expires_at}

(* The active entries past their deadline, which a reclaim moves.          *)
Expired(state, now) ==
  {id \in DOMAIN state.active : now >= state.active[id].expires_at}

(* An expired entry as its tombstone.                                      *)
Tombstone(state, id) ==
  [state.active[id] EXCEPT
     !.provisional_period = IF Timeout = "commit" THEN state.period ELSE @]

(* Active entries past their deadline become tombstones, charged           *)
(* provisionally when Timeout is "commit"; tombstones older than one       *)
(* further ttl are dropped, those just made included.                      *)
Reclaim(state, now) ==
  LET expired == Expired(state, now)
      moved == [id \in DOMAIN state.reclaimed \cup expired |->
                  IF id \in expired THEN Tombstone(state, id) ELSE state.reclaimed[id]]
      kept  == {id \in DOMAIN moved : now < SatAdd(moved[id].expires_at, Ttl)}
      units == Units(state.active, expired)
  IN  [state EXCEPT
         !.active = Restrict(@, DOMAIN @ \ expired),
         !.reserved = SatSub(@, units),
         !.committed = IF Timeout = "commit" THEN SatAdd(@, units) ELSE @,
         !.reclaimed = Restrict(moved, kept)]

Abandoned_NoFresh(state, now) ==
  LET after == Reclaim(state, now)
  IN  Cardinality(DOMAIN state.reclaimed)
        - Cardinality(DOMAIN state.reclaimed \cap DOMAIN after.reclaimed)

(* reclaim's return value: how many expired, and how many tombstones were  *)
(* dropped with no settlement ever arriving.                               *)
Abandoned(state, now) ==
  Cardinality(DOMAIN state.reclaimed \cup Expired(state, now))
    - Cardinality(DOMAIN Reclaim(state, now).reclaimed)

OverBudget_NoReserved(state, contribution, budget) ==
  SatAdd(state.committed, contribution) > budget

(* The budget check.                                                       *)
OverBudget(state, contribution, budget) ==
  SatAdd(Total(state), contribution) > budget

(* A new active entry.  A zero contribution adds none.                     *)
Hold(state, id, contribution, now) ==
  IF contribution = 0 THEN state
  ELSE [state EXCEPT
          !.reserved = SatAdd(@, contribution),
          !.active = [i \in DOMAIN @ \cup {id} |->
                        IF i = id
                        THEN [contribution |-> contribution,
                              expires_at |-> SatAdd(now, Ttl),
                              provisional_period |-> NoPeriod]
                        ELSE @[i]]]

-----------------------------------------------------------------------------
Outcome_NoPeriod(state, id, commit) ==
  CASE id \in DOMAIN state.active -> IF commit THEN "committed" ELSE "released"
    [] id \in DOMAIN state.reclaimed /\ id \notin DOMAIN state.active ->
         IF state.reclaimed[id].provisional_period = NoPeriod
         THEN IF commit THEN "late-committed" ELSE "late-released"
         ELSE IF commit THEN "already-charged" ELSE "refunded"
    [] OTHER -> "not-active"

(* Settlement of reservation id: how it is applied, and the state it       *)
(* leaves.  Only the first settlement of an id finds an entry.             *)
Outcome(state, id, commit) ==
  CASE id \in DOMAIN state.active ->
         IF commit THEN "committed" ELSE "released"
    [] id \in DOMAIN state.reclaimed /\ id \notin DOMAIN state.active ->
         LET charged == state.reclaimed[id].provisional_period
         IN  IF charged = NoPeriod
             THEN IF commit THEN "late-committed" ELSE "late-released"
             ELSE IF ~commit /\ charged = state.period
                  THEN "refunded" ELSE "already-charged"
    [] OTHER -> "not-active"

Without_NoRemoval(map, id) == map

Without(map, id) == Restrict(map, DOMAIN map \ {id})

Settle(state, id, commit) ==
  LET outcome == Outcome(state, id, commit)
  IN  CASE outcome \in {"committed", "released"} ->
             [state EXCEPT
                !.active = Without(@, id),
                !.reserved = SatSub(@, state.active[id].contribution),
                !.committed = IF outcome = "committed"
                              THEN SatAdd(@, state.active[id].contribution) ELSE @]
        [] outcome = "late-committed" ->
             [state EXCEPT !.reclaimed = Without(@, id),
                           !.committed = SatAdd(@, state.reclaimed[id].contribution)]
        [] outcome = "refunded" ->
             [state EXCEPT !.reclaimed = Without(@, id),
                           !.committed = SatSub(@, state.reclaimed[id].contribution)]
        [] outcome \in {"late-released", "already-charged"} ->
             [state EXCEPT !.reclaimed = Without(@, id)]
        [] OTHER -> state

(* Whether a reservation made at now would already be past its deadline by *)
(* the gateway clock read at reserve time; a clock of 0 is no clock.       *)
ExpiredOnArrival(now, clock) == clock # 0 /\ SatAdd(now, Ttl) <= clock
=============================================================================

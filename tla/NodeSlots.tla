------------------------------- MODULE NodeSlots -------------------------------
(***************************************************************************)
(* The scope records of aggregate-risk-gate/src/node_ledger.rs, several at *)
(* once: the maxScopes slots they are counted in, the sweep that turns an  *)
(* idle record to Vacant and deletes an old Vacant one through Doomed, the *)
(* claims that schedule sweeps, and the calls that race with all of it.    *)
(*                                                                         *)
(* What a touch does to a record's totals, its commit markers and the queue*)
(* of commits is NodeLedger's subject.  Here a record is what decides its  *)
(* slot: the reservations on it, whether it is charged, and since when it  *)
(* is Vacant or Doomed.  Deadlines release (a hold and then its tombstone  *)
(* stay 2 ttl), there is no window, no call is refused over its budget, the*)
(* read of a record never fails, a commit that finds no live record is over*)
(* (NodeLedger has its charge), and a sweep does not log foreign keys.     *)
(*                                                                         *)
(* Times are relative to the gateway clock, so that it needs no bound: Tick*)
(* ages what is stamped and shortens what is due. A call reads its now as  *)
(* it begins; its lag is how far that is behind the clock since. A version *)
(* is a link: it holds from a read of a key until the next write of it by  *)
(* anyone. Each action is one host call, except that a counter's read and  *)
(* write are one (lost races on it are taken to win in the end), and so are*)
(* a sweep's listing and its read of the cursor. Bounded retries give up   *)
(* after any number of lost races.                                         *)
(*                                                                         *)
(* An operator whose name ends in _No... or _With... is a mutant: the      *)
(* mistaken form of the definition that follows it.                        *)
(***************************************************************************)
EXTENDS Integers, FiniteSets, FiniteSetsExt, Functions

CONSTANTS Workers,      \* the replica's workers
          ScopeCount,   \* scopes are 1 .. ScopeCount, in the order of their keys
          Ids,          \* reservation ids; one that is forgotten is used again
          Settlements,  \* how calls are settled: "commit", "release"
          MaxScopes,    \* max_scopes
          Ttl,          \* ttl
          Grace,        \* GRACE_MS
          Recover,      \* RECOVER_MS
          MinRescan,    \* MIN_RESCAN_MS
          MaxRescan,    \* MAX_RESCAN_MS
          GcInterval,   \* GC_INTERVAL_MS
          GcCheck,      \* GC_INTERVAL_MS / 4
          SweepBudget   \* records a sweep visits, from SWEEP_BUDGET

CONSTANTS Faults,       \* which may happen: see FaultKinds
          MaxFaults,    \* bound: how often
          MaxStall      \* bound: how far a call's now falls behind

FaultKinds == {"unwritten",  \* a write or delete that fails
               "landed",     \* a write or delete that lands but reports failure
               "restart"}    \* a VM restart

ASSUME SlotsAssumption   == /\ IsFiniteSet(Workers) /\ IsFiniteSet(Ids)
                            /\ ScopeCount \in Nat /\ MaxScopes \in Nat \ {0}
                            /\ Settlements \subseteq {"commit", "release"}
                            /\ SweepBudget \in Nat \ {0}
ASSUME FaultsAssumption  == Faults \subseteq FaultKinds /\ MaxFaults \in Nat
ASSUME TimesAssumption   == /\ {Ttl, Grace, Recover, MinRescan, MaxRescan, GcInterval} \subseteq Nat \ {0}
                            /\ GcCheck \in 1 .. GcInterval
                            /\ MinRescan <= MaxRescan /\ MinRescan <= GcInterval
(* No writer and no sweep stalls for long: "single-threaded VMs make both  *)
(* very unlikely".  A sweep that stalls stamps its tombstone early, so the *)
(* grace must cover its stall and a writer's.                              *)
ASSUME StallAssumption   == MaxStall \in Nat /\ 2 * MaxStall < Grace /\ MaxStall < Recover

VARIABLES record,      \* scope -> its record
          n,           \* the count of slots taken
          sweep,       \* the sweep key: not_before, next_gc, cursor
          next_check,  \* worker -> next_gc_check
          call,        \* worker -> the call it runs, and how far
          open,        \* id -> the reservation granted and not yet settled
          seen,        \* how many faults happened
          leaked       \* slots counted that nothing holds, for the properties

shared == <<record, n, sweep>>
vars == <<record, n, sweep, next_check, call, open, seen, leaked>>

Scopes == 1 .. ScopeCount
NoCursor == 0

Missing     == [kind |-> "missing"]
Vacant(age) == [kind |-> "vacant", age |-> age]
Doomed(age) == [kind |-> "doomed", age |-> age]
Live(held, charged) == [kind |-> "live", held |-> held, charged |-> charged]

IsLive(value) == value.kind = "live"

Idle == [at |-> "idle"]

Init ==
  /\ record = [s \in Scopes |-> Missing]
  /\ n = 0
  /\ sweep = [not_before |-> -MaxStall, next_gc |-> -MaxStall, cursor |-> NoCursor]
  /\ next_check = [w \in Workers |-> 0]
  /\ call = [w \in Workers |-> Idle]
  /\ open = <<>>
  /\ seen = 0 /\ leaked = 0

-----------------------------------------------------------------------------
Reclaimed_NoTombstone(value, lag) ==
  [value EXCEPT !.held = Restrict(@, {id \in DOMAIN @ : @[id] + lag > Ttl})]

(* A record's holds are due when now has passed the end of their tombstone.*)
Reclaimed(value, lag) ==
  [value EXCEPT !.held = Restrict(@, {id \in DOMAIN @ : @[id] + lag > 0})]

IsIdle(value) == ~value.charged /\ DOMAIN value.held = {}

(* When the record is idle if nothing else happens, in MaxRescan at most.  *)
IdleAt(value, lag) ==
  Min({MaxRescan - lag} \cup
      (IF value.charged THEN {} ELSE {Max({-lag} \cup Range(value.held))}))

(* Stamped at the sweep's clock, and old by it.                            *)
Aged(value, age, clock_lag) == value.age - clock_lag >= age

-----------------------------------------------------------------------------
(* How faults enter: a step works, or it is one of the faults.             *)
Works == UNCHANGED seen
Fails(kind) == kind \in Faults /\ seen < MaxFaults /\ seen' = seen + 1

(* A call that begins.  linked and read are of its own scope's record; the *)
(* rest is of a sweep it runs: whether it still owns the claim it wrote,   *)
(* the key it is at and what it found there, the keys left, whether there  *)
(* are more than its budget, and the slots it freed.                       *)
NewCall(op, scope, id) ==
  [op |-> op, scope |-> scope, id |-> id, lag |-> 0, at |-> "read",
   linked |-> FALSE, read |-> Missing, slot |-> FALSE, swept |-> FALSE, why |-> "none",
   owns |-> FALSE, clock_lag |-> 0, todo |-> {}, partial |-> FALSE, cursor |-> NoCursor,
   key |-> 0, key_linked |-> FALSE, found |-> Missing, freed |-> 0, next_idle |-> 0]

Again(c, at) == [NewCall(c.op, c.scope, c.id) EXCEPT !.lag = c.lag, !.at = at]

Go(w, c) == call' = [call EXCEPT ![w] = c]

(* A write of a scope's key ends every link to it.                         *)
Unlinked(c, s) ==
  IF c = Idle THEN c
  ELSE [c EXCEPT !.linked = @ /\ c.scope # s, !.key_linked = @ /\ c.key # s]

Write(w, c, s, value) ==
  /\ record' = [record EXCEPT ![s] = value]
  /\ call' = [v \in Workers |-> Unlinked(IF v = w THEN c ELSE call[v], s)]

WriteSweep(w, c, value) ==
  /\ sweep' = value
  /\ call' = [v \in Workers |->
                IF v = w THEN c
                ELSE IF call[v] = Idle THEN Idle ELSE [call[v] EXCEPT !.owns = FALSE]]

Wins_NoCompare(linked, s) == TRUE

(* A compare-and-swap wins on the version read, and creates a missing key. *)
Wins(linked, s) == linked \/ record[s] = Missing

-----------------------------------------------------------------------------
Used(id) ==
  \/ id \in DOMAIN open
  \/ \E s \in Scopes : IsLive(record[s]) /\ id \in DOMAIN record[s].held
  \/ \E w \in Workers : call[w] # Idle /\ call[w].id = id

(* reserve begins: maybe_collect looks at the sweep key, at most once per  *)
(* GcCheck on each worker.                                                 *)
Reserve(w, s, id) ==
  /\ call[w] = Idle /\ ~Used(id)
  /\ IF next_check[w] <= 0
     THEN /\ next_check' = [next_check EXCEPT ![w] = GcCheck]
          /\ Go(w, [NewCall("reserve", s, id) EXCEPT !.at = "gc"])
     ELSE /\ Go(w, NewCall("reserve", s, id))
          /\ UNCHANGED next_check
  /\ UNCHANGED <<shared, open, seen, leaked>>

(* commit or release begins, of a reservation the filter still carries.    *)
Settle(w, id, op) ==
  /\ call[w] = Idle
  /\ Go(w, NewCall(op, open[id].scope, id))
  /\ open' = Restrict(open, DOMAIN open \ {id})
  /\ UNCHANGED <<shared, next_check, seen, leaked>>

CheckGc(w) ==
  LET c == call[w]
  IN  /\ c.at = "gc"
      /\ Go(w, IF sweep.next_gc > -c.lag THEN [c EXCEPT !.at = "read"]
               ELSE [c EXCEPT !.at = "claim", !.why = "gc", !.owns = TRUE])
      /\ UNCHANGED <<shared, next_check, open, seen, leaked>>

(* One attempt reads its record: a doomed one is read again (which is to   *)
(* read it later) or the call is refused, a new one needs a slot, and a    *)
(* settlement needs a live one.                                            *)
ReadRecord(w) ==
  LET c     == call[w]
      value == record[c.scope]
      next  == [c EXCEPT !.linked = value # Missing, !.swept = FALSE,
                         !.read = IF IsLive(value) THEN value ELSE Missing]
  IN  /\ c.at = "read"
      /\ Go(w, IF IsLive(value) THEN [next EXCEPT !.at = "put"]
               ELSE IF c.op = "reserve" /\ value.kind # "doomed" THEN [next EXCEPT !.at = "slot"]
               ELSE Idle)
      /\ UNCHANGED <<shared, next_check, open, seen, leaked>>

-----------------------------------------------------------------------------
HasRoom_WithSlack == n <= MaxScopes

HasRoom == n < MaxScopes

(* acquire_slot counts the new record, or looks for a sweep, once.         *)
AcquireSlot(w) ==
  LET c == call[w]
      failed == HasRoom /\ Fails("unwritten")
      landed == HasRoom /\ Fails("landed")
  IN  /\ c.at = "slot"
      /\ \/ HasRoom /\ Works /\ Go(w, [c EXCEPT !.at = "put", !.slot = TRUE])
            /\ n' = n + 1 /\ UNCHANGED leaked
         \/ ~HasRoom /\ Works /\ Go(w, IF c.swept THEN Idle ELSE [c EXCEPT !.at = "cap"])
            /\ UNCHANGED <<n, leaked>>
         \/ failed /\ Go(w, Idle) /\ UNCHANGED <<n, leaked>>
         \/ landed /\ Go(w, Idle) /\ n' = n + 1 /\ leaked' = leaked + 1
      /\ UNCHANGED <<record, sweep, next_check, open>>

(* At the cap: refused, unless a sweep is due.                             *)
AtCap(w) ==
  LET c == call[w]
  IN  /\ c.at = "cap"
      /\ Go(w, IF sweep.not_before > -c.lag THEN Idle
               ELSE [c EXCEPT !.at = "claim", !.why = "cap", !.owns = TRUE])
      /\ UNCHANGED <<shared, next_check, open, seen, leaked>>

(* The state an attempt writes, from what it read.                         *)
Updated(c) ==
  LET base == IF IsLive(c.read) THEN c.read ELSE Live(<<>>, FALSE)
      kept == Reclaimed(base, c.lag).held
      others == Restrict(kept, DOMAIN kept \ {c.id})
      holds == c.id \in DOMAIN base.held
  IN  CASE c.op = "reserve" -> Live([id \in DOMAIN kept \cup {c.id} |->
                                       IF id = c.id THEN 2 * Ttl - c.lag ELSE kept[id]],
                                    base.charged)
        [] c.op = "release" -> Live(others, base.charged)
        [] c.op = "commit"  -> Live(others, base.charged \/ holds)

Granted(c) ==
  IF c.op = "reserve"
  THEN open' = [id \in DOMAIN open \cup {c.id} |->
                  IF id = c.id THEN [scope |-> c.scope, left |-> 2 * Ttl - c.lag] ELSE open[id]]
  ELSE UNCHANGED open

AfterPut(c) ==
  IF c.op # "reserve" /\ IsIdle(Updated(c)) THEN Again(c, "hint") ELSE Idle

LostSlot_NoGiveBack(c, next) == next

(* An attempt that did not write gives back the slot it took for it.       *)
LostSlot(c, next) ==
  IF c.slot THEN [Again(c, "give_back") EXCEPT !.slot = TRUE, !.why = next.at] ELSE next

(* The attempt's compare-and-swap: it wins, loses the race and is retried  *)
(* or refused, fails, or lands and reports failure.                        *)
PutRecord(w) ==
  LET c == call[w]
      unwritten == c.op # "reserve" /\ Updated(c) = c.read
      wins == Wins(c.linked, c.scope)
  IN  /\ c.at = "put"
      /\ \/ unwritten /\ Works /\ Go(w, Idle) /\ UNCHANGED <<record, open, leaked>>
         \/ /\ ~unwritten /\ wins /\ Works
            /\ Write(w, AfterPut(c), c.scope, Updated(c))
            /\ Granted(c) /\ UNCHANGED leaked
         \/ /\ ~unwritten /\ ~wins /\ Works
            /\ Go(w, LostSlot(c, Again(c, "read"))) \/ Go(w, LostSlot(c, Idle))
            /\ UNCHANGED <<record, open, leaked>>
         \/ /\ ~unwritten /\ Fails("unwritten")
            /\ Go(w, LostSlot(c, Idle)) /\ UNCHANGED <<record, open, leaked>>
         \/ /\ ~unwritten /\ wins /\ Fails("landed")
            /\ Write(w, LostSlot(c, Idle), c.scope, Updated(c))
            /\ leaked' = IF c.slot THEN leaked - 1 ELSE leaked
            /\ UNCHANGED open
      /\ UNCHANGED <<n, sweep, next_check>>

Decrement_NoFloor(slots) == n - slots

Decrement(slots) == Max({0, n - slots})

(* adjust_count, best effort: a decrement that fails leaves slots counted. *)
TakeOff(slots) ==
  \/ /\ Works \/ Fails("landed")
     /\ n' = Decrement(slots) /\ leaked' = leaked + slots - (n - n')
  \/ Fails("unwritten") /\ leaked' = leaked + slots /\ UNCHANGED n

GiveBack(w) ==
  LET c == call[w]
  IN  /\ c.at = "give_back"
      /\ Go(w, IF c.why = "read" THEN Again(c, "read") ELSE Idle)
      /\ TakeOff(1)
      /\ UNCHANGED <<record, sweep, next_check, open>>

(* hint_idle: a settlement left its scope idle, so the next sweep may come *)
(* sooner, though not within MinRescan of the last.                        *)
Soonest(c) == Max({sweep.next_gc - GcInterval + MinRescan, -c.lag})

HintIdle(w) ==
  LET c == call[w]
  IN  /\ c.at = "hint"
      /\ Go(w, IF sweep.not_before > Soonest(c) THEN [c EXCEPT !.at = "hinting", !.owns = TRUE]
               ELSE Idle)
      /\ UNCHANGED <<shared, next_check, open, seen, leaked>>

(* Its write is best effort: won, or lost or failed, the call is over.     *)
Hint(w) ==
  LET c == call[w]
  IN  /\ c.at = "hinting"
      /\ \/ c.owns /\ WriteSweep(w, Idle, [sweep EXCEPT !.not_before = Soonest(c)])
         \/ Go(w, Idle) /\ UNCHANGED sweep
      /\ UNCHANGED <<record, n, next_check, open, seen, leaked>>

-----------------------------------------------------------------------------
(* A sweep.  Where the call goes on after it, or when it lost the claim:   *)
(* collection lets the call go on, a call at the cap is refused, or, the   *)
(* sweep done, tries its slot once more.                                   *)
Unswept(c) ==
  IF c.why = "gc" THEN Again(c, "read")
  ELSE IF c.at = "claim" THEN Idle
  ELSE [Again(c, "slot") EXCEPT !.linked = c.linked, !.read = c.read, !.swept = TRUE]

(* put_sweep: the claim is written, and read back for its version.         *)
Claim(w) ==
  LET c == call[w]
      claim == [sweep EXCEPT !.next_gc = GcInterval - c.lag,
                             !.not_before = IF c.why = "cap" THEN MinRescan - c.lag ELSE @]
  IN  /\ c.at = "claim"
      /\ \/ c.owns /\ Works /\ WriteSweep(w, [c EXCEPT !.at = "own", !.owns = FALSE], claim)
         \/ /\ (~c.owns /\ Works) \/ Fails("unwritten")
            /\ Go(w, Unswept(c)) /\ UNCHANGED sweep
         \/ c.owns /\ Fails("landed") /\ WriteSweep(w, Unswept(c), claim)
      /\ UNCHANGED <<record, n, next_check, open, leaked>>

ReadBack(w) ==
  /\ call[w].at = "own"
  /\ Go(w, [call[w] EXCEPT !.at = "list", !.owns = TRUE])
  /\ UNCHANGED <<shared, next_check, open, seen, leaked>>

(* On to the next key, or to what ends the sweep.                          *)
NextKey(c) ==
  LET next == [c EXCEPT !.key_linked = FALSE, !.found = Missing]
  IN  IF c.todo # {}
      THEN [next EXCEPT !.at = "visit", !.key = Min(c.todo), !.todo = @ \ {Min(@)},
                        !.cursor = IF c.partial THEN Min(c.todo) ELSE NoCursor]
      ELSE [next EXCEPT !.at = IF c.freed > 0 THEN "uncount" ELSE "done",
                        !.key = 0, !.clock_lag = 0]

(* The keys after the cursor, which a partial sweep left.                  *)
Remaining == {s \in Scopes : record[s] # Missing /\ s > sweep.cursor}

(* The sweep reads the clock, lists the keys and takes what it has budget  *)
(* for, in order.                                                          *)
List(w) ==
  LET c == call[w]
      todo == {s \in Remaining : Cardinality({t \in Remaining : t <= s}) <= SweepBudget}
  IN  /\ c.at = "list"
      /\ Go(w, NextKey([c EXCEPT !.todo = todo, !.partial = todo # Remaining, !.clock_lag = 0,
                                 !.next_idle = MaxRescan - c.lag]))
      /\ UNCHANGED <<shared, next_check, open, seen, leaked>>

SweptAs_NoRecovery(c, value) ==
  CASE value.kind = "live" ->
         IF IsIdle(Reclaimed(value, c.lag)) THEN Vacant(c.clock_lag) ELSE Reclaimed(value, c.lag)
    [] value.kind = "vacant" -> IF Aged(value, Grace, c.clock_lag) THEN Doomed(c.clock_lag) ELSE value
    [] value.kind \in {"doomed", "missing"} -> value

(* What a sweep does to a key: it saves what is due, to Vacant if that     *)
(* leaves the record idle; it dooms an old Vacant; it takes a Doomed left  *)
(* behind back to Vacant.                                                  *)
SweptAs(c, value) ==
  CASE value.kind = "live" ->
         IF IsIdle(Reclaimed(value, c.lag)) THEN Vacant(c.clock_lag) ELSE Reclaimed(value, c.lag)
    [] value.kind = "vacant" -> IF Aged(value, Grace, c.clock_lag) THEN Doomed(c.clock_lag) ELSE value
    [] value.kind = "doomed" -> IF Aged(value, Recover, c.clock_lag) THEN Vacant(c.clock_lag) ELSE value
    [] value.kind = "missing" -> value

Noted(c, value) ==
  IF IsLive(value) THEN [c EXCEPT !.next_idle = Min({@, IdleAt(Reclaimed(value, c.lag), c.lag)})]
  ELSE c

Visit(w) ==
  LET c == call[w]
      value == record[c.key]
  IN  /\ c.at = "visit"
      /\ Go(w, IF IsLive(c.found) /\ ~IsLive(value) THEN NextKey(c)
               ELSE IF SweptAs(c, value) = value THEN NextKey(Noted(c, value))
               ELSE [c EXCEPT !.at = "swap", !.key_linked = TRUE, !.found = value])
      /\ UNCHANGED <<shared, next_check, open, seen, leaked>>

(* Only its own conversion of a live record frees a slot.                  *)
Freeing(c) == IsLive(c.found) /\ SweptAs(c, c.found).kind = "vacant"

AfterSwap(c) ==
  CASE c.found.kind = "vacant" -> [c EXCEPT !.at = "delete"]
    [] Freeing(c) -> NextKey([c EXCEPT !.freed = @ + 1])
    [] OTHER -> NextKey(Noted(c, c.found))

(* A lost race for a live record is read again, if it is still live.       *)
Swap(w) ==
  LET c == call[w]
      wins == Wins(c.key_linked, c.key)
  IN  /\ c.at = "swap"
      /\ \/ /\ wins /\ Works
            /\ Write(w, AfterSwap(c), c.key, SweptAs(c, c.found)) /\ UNCHANGED leaked
         \/ /\ ~wins /\ Works
            /\ \/ Go(w, NextKey(Noted(c, c.found)))
               \/ IsLive(c.found) /\ Go(w, [Noted(c, c.found) EXCEPT !.at = "visit"])
            /\ UNCHANGED <<record, leaked>>
         \/ /\ Fails("unwritten")
            /\ Go(w, NextKey(Noted(c, c.found))) /\ UNCHANGED <<record, leaked>>
         \/ /\ wins /\ Fails("landed")
            /\ Write(w, NextKey(Noted(c, c.found)), c.key, SweptAs(c, c.found))
            /\ leaked' = IF Freeing(c) THEN leaked + 1 ELSE leaked
      /\ UNCHANGED <<n, sweep, next_check, open>>

(* delete_vacant's delete, which is unconditional; if it fails, what is    *)
(* there is replaced by the Vacant it was.                                 *)
Delete(w) ==
  LET c == call[w]
      restore == [c EXCEPT !.at = "restore_read"]
  IN  /\ c.at = "delete"
      /\ \/ Works /\ Write(w, NextKey(c), c.key, Missing)
         \/ Fails("unwritten") /\ Go(w, restore) /\ UNCHANGED record
         \/ Fails("landed") /\ Write(w, restore, c.key, Missing)
      /\ UNCHANGED <<n, sweep, next_check, open, leaked>>

RestoreRead(w) ==
  LET c == call[w]
  IN  /\ c.at = "restore_read"
      /\ Go(w, IF record[c.key] = Missing THEN NextKey(c)
               ELSE [c EXCEPT !.at = "restore", !.key_linked = TRUE])
      /\ UNCHANGED <<shared, next_check, open, seen, leaked>>

(* It replaces whatever record was read, or is lost or fails, and nobody   *)
(* looks at which: a failure here is one with the delete's.                *)
Restore(w) ==
  LET c == call[w]
  IN  /\ c.at = "restore"
      /\ \/ /\ Wins(c.key_linked, c.key)
            /\ Write(w, NextKey(c), c.key, c.found)
            /\ leaked' = IF IsLive(record[c.key]) THEN leaked + 1 ELSE leaked
         \/ Go(w, NextKey(c)) /\ UNCHANGED <<record, leaked>>
      /\ UNCHANGED <<n, sweep, next_check, open, seen>>

(* The sweep takes the slots it freed off the count.                       *)
Uncount(w) ==
  LET c == call[w]
  IN  /\ c.at = "uncount"
      /\ Go(w, [c EXCEPT !.at = "done", !.freed = 0])
      /\ TakeOff(c.freed)
      /\ UNCHANGED <<record, sweep, next_check, open>>

(* The sweep is over: when the next may come, and from where.              *)
NextSweep(c) ==
  LET soon == MinRescan - c.lag
  IN  [not_before |-> IF c.partial THEN soon ELSE Max({c.next_idle, soon}),
       next_gc    |-> IF c.partial THEN soon ELSE GcInterval - c.lag,
       cursor     |-> IF c.partial THEN c.cursor ELSE NoCursor]

SweepDone(w) ==
  LET c == call[w]
  IN  /\ c.at = "done"
      /\ next_check' = [next_check EXCEPT ![w] = NextSweep(c).next_gc]
      /\ \/ /\ c.owns /\ (Works \/ Fails("landed"))
            /\ WriteSweep(w, Unswept(c), NextSweep(c))
         \/ /\ (~c.owns /\ Works) \/ Fails("unwritten")
            /\ Go(w, Unswept(c)) /\ UNCHANGED sweep
      /\ UNCHANGED <<record, n, open, leaked>>

-----------------------------------------------------------------------------
Slots(c) == IF c = Idle THEN 0 ELSE c.freed + (IF c.slot THEN 1 ELSE 0)

(* A worker's VM restarts: the call it ran is gone.                        *)
Restart(w) ==
  /\ Fails("restart") /\ call[w] # Idle
  /\ Go(w, Idle) /\ next_check' = [next_check EXCEPT ![w] = 0]
  /\ leaked' = leaked + Slots(call[w])
  /\ UNCHANGED <<shared, open>>

(* A call whose response never comes is never settled.                     *)
Forget(id) ==
  /\ open' = Restrict(open, DOMAIN open \ {id})
  /\ UNCHANGED <<shared, next_check, call, seen, leaked>>

Older(value) ==
  CASE value.kind = "vacant" -> Vacant(Min({value.age + 1, MaxStall + Grace}))
    [] value.kind = "doomed" -> Doomed(Min({value.age + 1, MaxStall + Recover}))
    [] value.kind = "live" ->
         [value EXCEPT !.held = [id \in DOMAIN @ |-> Max({@[id] - 1, -MaxStall})]]
    [] value.kind = "missing" -> value

Sooner(time) == Max({time - 1, -MaxStall})

Sweeping(c) == c.at \in {"visit", "swap", "delete", "restore_read", "restore"}

OlderCall(c) ==
  IF c = Idle THEN c
  ELSE LET older == [c EXCEPT !.lag = @ + 1, !.read = Older(@), !.found = Older(@)]
       IN  IF Sweeping(c) THEN [older EXCEPT !.clock_lag = @ + 1, !.next_idle = @ - 1]
           ELSE IF c.at \in {"uncount", "done"} THEN [older EXCEPT !.next_idle = @ - 1]
           ELSE older

Tick ==
  /\ \A w \in Workers : call[w] # Idle => call[w].lag < MaxStall
  /\ record' = [s \in Scopes |-> Older(record[s])]
  /\ sweep' = [sweep EXCEPT !.not_before = Sooner(@), !.next_gc = Sooner(@)]
  /\ next_check' = [w \in Workers |-> Max({next_check[w] - 1, 0})]
  /\ call' = [w \in Workers |-> OlderCall(call[w])]
  /\ open' = [id \in DOMAIN open |-> [open[id] EXCEPT !.left = Max({@ - 1, 0})]]
  /\ UNCHANGED <<n, seen, leaked>>

(* A worker goes on with the call it runs.                                 *)
Continue(w) ==
  \/ CheckGc(w) \/ ReadRecord(w) \/ AcquireSlot(w) \/ AtCap(w) \/ PutRecord(w) \/ GiveBack(w)
  \/ HintIdle(w) \/ Hint(w)
  \/ Claim(w) \/ ReadBack(w) \/ List(w) \/ Visit(w) \/ Swap(w)
  \/ Delete(w) \/ RestoreRead(w) \/ Restore(w) \/ Uncount(w) \/ SweepDone(w)

Begin(w) ==
  \/ \E s \in Scopes, id \in Ids : Reserve(w, s, id)
  \/ \E id \in DOMAIN open, op \in Settlements : Settle(w, id, op)

Next ==
  \/ Tick
  \/ \E id \in DOMAIN open : Forget(id)
  \/ \E w \in Workers : Begin(w) \/ Continue(w) \/ Restart(w)

Spec == Init /\ [][Next]_vars

(* A call that began is run to its end, and the clock goes on for ever,    *)
(* however many calls overlap.                                             *)
FairSpec == Spec /\ []<><<Tick>>_vars /\ \A w \in Workers : WF_vars(Continue(w))

-----------------------------------------------------------------------------
LiveScopes == {s \in Scopes : IsLive(record[s])}

TypeOK ==
  /\ n \in Nat
  /\ \A s \in Scopes :
       /\ record[s].kind \in {"missing", "vacant", "doomed", "live"}
       /\ record[s].kind \in {"vacant", "doomed"} => record[s].age \in Nat
       /\ IsLive(record[s]) => /\ DOMAIN record[s].held \subseteq Ids
                              /\ Range(record[s].held) \subseteq -MaxStall .. 2 * Ttl
  /\ sweep.not_before \in -MaxStall .. MaxRescan /\ sweep.next_gc \in -MaxStall .. GcInterval
  /\ sweep.cursor \in Scopes \cup {NoCursor}
  /\ \A w \in Workers : next_check[w] \in -MaxStall .. GcInterval
  /\ \A w \in Workers : call[w] = Idle \/ call[w].lag \in 0 .. MaxStall
  /\ DOMAIN open \subseteq Ids

(* Every slot that is counted is accounted for: a live record has it, or a *)
(* worker that took it and has yet to write its record or give it back, or *)
(* a sweep that freed it and has yet to take it off the count, or a failure*)
(* left it counted ("nothing recounts n").                                 *)
SlotsExact ==
  n = Cardinality(LiveScopes) + SumFunction([w \in Workers |-> Slots(call[w])]) + leaked

(* "maxScopes is enforced per replica": however the workers race for slots,*)
(* there are never more live records than that.                            *)
CapHeld == Cardinality(LiveScopes) <= MaxScopes

(* "Live state is never evicted": a reservation granted and not yet settled*)
(* is on its scope's live record until its tombstone's window has passed,  *)
(* through every sweep, deletion and re-creation of the record.            *)
HeldInWindow ==
  \A id \in DOMAIN open :
    open[id].left > 0 =>
      IsLive(record[open[id].scope]) /\ id \in DOMAIN record[open[id].scope].held

MayBecome(was, now) ==
  /\ IsLive(was) /\ ~IsLive(now) =>
       now.kind = "vacant" /\ ~was.charged /\ \A id \in DOMAIN was.held : was.held[id] <= 0
  /\ now = Missing /\ was # Missing =>
       was.kind = "doomed" /\ was.age <= MaxStall

(* A record goes from live to Vacant alone, and only when nothing is       *)
(* charged to it and every hold on it is due; and what goes missing is the *)
(* doomed record of the sweep that deletes it, which no other writer       *)
(* replaced.                                                               *)
LeavesInOrder ==
  [][\A s \in Scopes : MayBecome(record[s], record'[s])]_record

(* Only scope s is called any more, nothing is charged to another, and not *)
(* every slot has leaked.                                                  *)
OnlyCalled(s) ==
  /\ \A w \in Workers : call[w] = Idle \/ call[w].scope = s
  /\ \A id \in DOMAIN open : open[id].scope = s
  /\ \A t \in Scopes \ {s} : IsLive(record[t]) => ~record[t].charged
  /\ leaked < MaxScopes

Reserving(s) == \E w \in Workers : call[w] # Idle /\ call[w].op = "reserve" /\ call[w].scope = s

(* A full ledger makes room: a scope that calls keep reserving is admitted *)
(* again and again once no other scope is called, however sweeps were cut  *)
(* short, lost their claim or stopped in the middle ("at the cap a new     *)
(* scope may take the place of an idle scope").                            *)
RoomReturns ==
  \A s \in Scopes :
    <>[]OnlyCalled(s) /\ []<>Reserving(s) => []<>IsLive(record[s])
=============================================================================

---------------------------- MODULE ExposureLedger ----------------------------
(***************************************************************************)
(* What a ledger of aggregate-risk-gate promises its filter (the trait     *)
(* LedgerStore of src/ledger.rs), whatever table, lock or shared record is *)
(* behind it.  Every call's reservation is an entry that is held from its  *)
(* admission on; it stops being held because its own call settled it or,   *)
(* past its deadline, because it lapsed, charged or not as the timeout rule*)
(* says; it stays recognised for one more ttl.  In block mode an entry is  *)
(* admitted only within the budget.  When an overdue entry lapses, and     *)
(* which other entries lapse in the same step, is left open: ledgers       *)
(* reclaim when they next touch a scope.                                   *)
(*                                                                         *)
(* WorkerLedger implements it, and GateFilter is built on it.              *)
(***************************************************************************)
EXTENDS Integers, Functions

CONSTANTS Ids,         \* names of entries
          Scopes,      \* scope keys
          Costs,       \* what a call may cost
          Ttl,         \* lifetime of a reservation, positive
          Window,      \* length of the fixed window; 0 for none
          Lag          \* how far the instant a call is stamped with may lag

VARIABLES rules,       \* block, budget, and provisional: lapsed is charged
          entries,     \* id -> its entry
          clock        \* the gateway's clock

exposureVars == <<rules, entries, clock>>

Uncharged == -1

PeriodOf(now) == IF Window = 0 THEN 0 ELSE now \div Window

Stamps == {now \in 0 .. clock : clock - now <= Lag}

(* The periods a call stamped within Lag of the clock may fall in.         *)
Current == PeriodOf(IF clock < Lag THEN 0 ELSE clock - Lag) .. PeriodOf(clock)

Init ==
  /\ rules.block \in BOOLEAN /\ rules.provisional \in BOOLEAN /\ rules.budget \in Nat
  /\ entries = <<>>
  /\ clock \in Nat

(* A scope's exposure: what its entries hold, or are charged this period.  *)
Exposed(scope) ==
  {id \in DOMAIN entries :
     /\ entries[id].scope = scope
     /\ entries[id].status = "held" \/ entries[id].charged = PeriodOf(clock)}

Exposure(scope) == SumFunction([id \in Exposed(scope) |-> entries[id].units])

Overdue == {id \in DOMAIN entries :
              entries[id].status = "held" /\ clock >= entries[id].deadline}

Stale == {id \in DOMAIN entries :
            entries[id].status # "closed" /\ clock >= entries[id].deadline + Ttl}

(* The entries once those in lapsed did, charged in the period at gives.   *)
Lapsed(lapsed, at) ==
  [id \in DOMAIN entries |->
     IF id \notin lapsed THEN entries[id]
     ELSE [entries[id] EXCEPT !.status = "lapsed",
                              !.charged = IF rules.provisional THEN at[id] ELSE @]]

Forgotten(map, forgotten) ==
  [id \in DOMAIN map |->
     IF id \in forgotten /\ map[id].status = "lapsed"
     THEN [map[id] EXCEPT !.status = "closed"] ELSE map[id]]

(* What time alone may have made of the entries.                           *)
Aged ==
  {Forgotten(Lapsed(lapsed, at), forgotten) :
     lapsed \in SUBSET Overdue, at \in [Overdue -> Current], forgotten \in SUBSET Stale}

Age == entries' \in Aged /\ UNCHANGED <<rules, clock>>

Entry(scope, units, stamp) ==
  [scope |-> scope, units |-> units, deadline |-> stamp + Ttl,
   status |-> IF units = 0 THEN "closed" ELSE "held", charged |-> Uncharged]

(* A call is admitted: in block mode within the budget.                    *)
Admit(id, scope, units, stamp) ==
  /\ id \notin DOMAIN entries
  /\ clock < stamp + Ttl
  /\ \E map \in Aged :
       entries' = [i \in DOMAIN map \cup {id} |->
                     IF i = id THEN Entry(scope, units, stamp) ELSE map[i]]
  /\ rules.block => Exposure(scope)' <= rules.budget
  /\ UNCHANGED <<rules, clock>>

(* An entry, settled in period now.  Only the first settlement does it.    *)
Settled(entry, success, now) ==
  IF entry.status = "closed" THEN entry
  ELSE [entry EXCEPT
          !.status = "closed",
          !.charged = IF success THEN (IF @ = Uncharged THEN now ELSE @)
                      ELSE IF @ = now THEN Uncharged ELSE @]

Settle(id, success) ==
  /\ id \in DOMAIN entries
  /\ \E map \in Aged :
       entries' = [map EXCEPT ![id] = Settled(@, success, PeriodOf(clock))]
  /\ UNCHANGED <<rules, clock>>

Tick ==
  /\ clock' = clock + 1
  /\ UNCHANGED <<rules, entries>>

Next ==
  \/ Tick
  \/ \E id \in Ids \ DOMAIN entries :
       /\ id \in DOMAIN entries'
       /\ \E scope \in Scopes, units \in Costs, stamp \in Stamps :
            Admit(id, scope, units, stamp)
  \/ Age
  \/ \E id \in DOMAIN entries, success \in BOOLEAN : Settle(id, success)

Spec == Init /\ [][Next]_exposureVars
=============================================================================

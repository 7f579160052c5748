------------------------------ MODULE NonceStore ------------------------------
(***************************************************************************)
(* Single use of an approval (predicate P6) in approval-execution-binding: *)
(* reserve_nonce in src/lib.rs, run by every worker of one gateway replica *)
(* against the replica's one local store of reserved nonces.               *)
(*                                                                         *)
(* A worker is a single-threaded VM that serves one call at a time, and a  *)
(* store operation is one host call: workers interleave between any two of *)
(* them.  Each action below is the code of reserve_nonce from one store    *)
(* operation up to the next.  The store is PDK's local storage, seen       *)
(* through the code that calls it: create-only store, unconditional        *)
(* delete, a get that reads a host error as absent.                        *)
(*                                                                         *)
(* Time runs in ticks, several to the second, because P4 compares instants *)
(* and the sweep compares whole seconds.                                   *)
(*                                                                         *)
(* An operator whose name ends in _No... or _With... is a mutant: the      *)
(* mistaken form of the definition that follows it, which PROJECT.json     *)
(* names to show that a property would catch the mistake.                  *)
(***************************************************************************)
EXTENDS Integers, FiniteSets, FiniteSetsExt, Functions

CONSTANTS Workers,      \* the replica's workers
          Approvals,    \* approvals presented: [nonce, deadline]
          Corrupt,      \* nonces an earlier build may have left unreadable
          Cap,          \* MAX_RESERVED_NONCES
          LowWater,     \* SWEEP_LOW_WATER
          Backoff,      \* UNREADABLE_RESCAN_BACKOFF_SECONDS
          Never,        \* NONCE_NEVER_EXPIRES
          Second        \* ticks in a second

CONSTANTS MaxClock,     \* bound: the last tick reached
          MaxRebuilds,  \* bound: VM rebuilds
          MaxStall      \* assumed: ticks from a call's P4 check to its store

ASSUME CapAssumption == Cap \in Nat \ {0} /\ LowWater \in Nat /\ Backoff \in Nat
ASSUME TimeAssumption == /\ Second \in Nat \ {0} /\ Never \in Nat
                         /\ MaxClock \in Nat /\ MaxClock < Never
ASSUME ApprovalsAssumption == /\ \A a \in Approvals : a.deadline \in Nat
                              /\ Corrupt \subseteq {a.nonce : a \in Approvals}
ASSUME BoundsAssumption == /\ MaxRebuilds \in Nat
                           /\ MaxStall \in Nat

VARIABLES store,        \* nonce -> its stored expiry, in seconds
          cap,          \* worker -> NonceCap: since_sweep, full_until
          call,         \* worker -> the call it is serving, and how far
          clock,        \* the gateway's clock, in ticks
          rebuilds      \* VM rebuilds so far

(* What really happened, for the properties: how often each approval was   *)
(* forwarded, the nonces each worker counted in its last sweep or stored   *)
(* since, and whether a listed key's read was ever missed.                 *)
VARIABLES uses, known, missed

history == <<uses, known, missed>>
vars == <<store, cap, call, clock, rebuilds, uses, known, missed>>

Nonces == {a.nonce : a \in Approvals}
NoBound == -1                \* full_until's i64::MIN
Unreadable == -2             \* a stored value that does not decode
Idle == [at |-> "idle"]

Now == clock \div Second     \* Utc::now().timestamp()

Lower(a, b) == IF a <= b THEN a ELSE b
Higher(a, b) == IF a >= b THEN a ELSE b

(* nonce_expiry: the P4 deadline in whole seconds, or never when it cannot *)
(* be represented.                                                         *)
NonceExpiry(approval) == Lower(approval.deadline \div Second, Never)

(* check_freshness at the gateway's instant.                               *)
Fresh(approval) == clock <= approval.deadline

SweepDue_NoGrace(now, expiry) == expiry # Unreadable /\ now >= expiry

(* nonce_sweep_due: strictly past the expiry and one second more.          *)
SweepDue(now, expiry) == expiry # Unreadable /\ now > expiry + 1

AtCap_WithSlack(count) == count > Cap

AtCap(count) == count >= Cap

Init ==
  /\ \E junk \in SUBSET Corrupt : store = [nonce \in junk |-> Unreadable]
  /\ cap = [worker \in Workers |-> [since_sweep |-> 0, full_until |-> NoBound]]
  /\ call = [worker \in Workers |-> Idle]
  /\ clock = 0 /\ rebuilds = 0
  /\ uses = [approval \in Approvals |-> 0]
  /\ known = [worker \in Workers |-> {}]
  /\ missed = FALSE

-----------------------------------------------------------------------------
Working(worker, at) == call[worker].at = at

(* The worker goes on to another step of its call.                         *)
Goto(worker, at) == call' = [call EXCEPT ![worker].at = at]

(* The call ends refused under P6: Replay, AtCapacity or Unavailable.      *)
Refuse(worker) == call' = [call EXCEPT ![worker] = Idle]

(* A block-mode call passes every required predicate, P4 among them, and   *)
(* goes on to reserve its nonce.  A stale approval ends in a P4 denial     *)
(* that never touches the store, so nothing here.                          *)
Evaluate(worker, approval) ==
  /\ Working(worker, "idle")
  /\ Fresh(approval)
  /\ call' = [call EXCEPT ![worker] =
                [at |-> "get", approval |-> approval, since |-> clock]]
  /\ UNCHANGED <<store, cap, clock, rebuilds, history>>

(* The get finds the nonce reserved (a replay), or a value it cannot read. *)
GetRefused(worker) ==
  /\ Working(worker, "get")
  /\ call[worker].approval.nonce \in DOMAIN store
  /\ Refuse(worker)
  /\ UNCHANGED <<store, cap, clock, rebuilds, history>>

(* The get finds nothing: the nonce is not there, or the host failed.  The *)
(* cap is looked at before the next store operation.                       *)
GetAbsent(worker) ==
  /\ Working(worker, "get")
  /\ LET c == cap[worker]
     IN  IF ~AtCap(c.since_sweep) THEN Goto(worker, "store")
         ELSE IF Now <= c.full_until THEN Refuse(worker)
         ELSE call' = [call EXCEPT ![worker] =
                         [at |-> "list", approval |-> @.approval, since |-> @.since,
                          now |-> Now]]
  /\ UNCHANGED <<store, cap, clock, rebuilds, history>>

(* The end of a sweep that counted the keys in kept, the earliest of them  *)
(* bounding the next: the worker's bookkeeping, and its refusal if the     *)
(* store is still full.                                                    *)
Swept(worker, kept, earliest) ==
  LET remaining == Cardinality(kept)
      roomy == Cap - remaining >= LowWater
  IN  /\ cap' = [cap EXCEPT ![worker] =
                   [since_sweep |-> remaining,
                    full_until |-> IF ~AtCap(remaining) /\ roomy THEN NoBound
                                   ELSE earliest]]
      /\ known' = [known EXCEPT ![worker] = kept]
      /\ IF remaining >= Cap THEN Refuse(worker)
         ELSE call' = [call EXCEPT ![worker] =
                         [at |-> "store", approval |-> @.approval, since |-> @.since]]

(* Go on with the keys still to visit, or end the sweep.                   *)
Visit(worker, todo, kept, earliest) ==
  IF todo = {} THEN Swept(worker, kept, earliest)
  ELSE /\ call' = [call EXCEPT ![worker] =
                     [at |-> "visit", approval |-> @.approval, since |-> @.since,
                      now |-> @.now, todo |-> todo, kept |-> kept,
                      earliest |-> earliest]]
       /\ UNCHANGED <<cap, known>>

List(worker) ==
  /\ Working(worker, "list")
  /\ Visit(worker, DOMAIN store, {}, Never)
  /\ UNCHANGED <<store, clock, rebuilds, uses, missed>>

BoundBy_NoBackoff(now, value) == IF value = Unreadable THEN Never ELSE Higher(value, now)

(* When a kept entry lets the next sweep run: at its expiry, or soon when  *)
(* its expiry is unknown.                                                  *)
BoundBy(now, value) ==
  IF value = Unreadable THEN now + Backoff ELSE Higher(value, now)

(* One key of the listing is read: kept and counted.                       *)
VisitKept(worker, key) ==
  LET c == call[worker]
  IN  /\ Working(worker, "visit") /\ key \in c.todo
      /\ key \in DOMAIN store
      /\ ~SweepDue(c.now, store[key])
      /\ Visit(worker, c.todo \ {key}, c.kept \cup {key},
               Lower(c.earliest, BoundBy(c.now, store[key])))
      /\ UNCHANGED <<store, clock, rebuilds, uses, missed>>

(* One key of the listing reads as absent: another worker deleted it, or   *)
(* the host failed.                                                        *)
VisitAbsent(worker, key) ==
  LET c == call[worker]
  IN  /\ Working(worker, "visit") /\ key \in c.todo
      /\ Visit(worker, c.todo \ {key}, c.kept, c.earliest)
      /\ missed' = (missed \/ key \in DOMAIN store)
      /\ UNCHANGED <<store, clock, rebuilds, uses>>

(* One key of the listing is past its expiry: its delete is next.          *)
VisitDue(worker, key) ==
  LET c == call[worker]
  IN  /\ Working(worker, "visit") /\ key \in c.todo
      /\ key \in DOMAIN store
      /\ SweepDue(c.now, store[key])
      /\ call' = [call EXCEPT ![worker] =
                    [at |-> "delete", approval |-> @.approval, since |-> @.since,
                     now |-> @.now, todo |-> @.todo \ {key}, kept |-> @.kept,
                     earliest |-> @.earliest, victim |-> key]]
      /\ UNCHANGED <<store, cap, clock, rebuilds, history>>

(* The delete, whatever the key holds by now.                              *)
Delete(worker) ==
  LET c == call[worker]
  IN  /\ Working(worker, "delete")
      /\ store' = Restrict(store, DOMAIN store \ {c.victim})
      /\ Visit(worker, c.todo, c.kept, c.earliest)
      /\ UNCHANGED <<clock, rebuilds, uses, missed>>

Bounded_NoLowering(bound, expiry) == bound

(* A reservation of this worker's own lowers the bound of its next sweep.  *)
Bounded(bound, expiry) == Lower(bound, expiry)

CanCreate_WithReplace(nonce) == TRUE

(* StoreMode::Absent: the store creates a key only where there is none.    *)
CanCreate(nonce) == nonce \notin DOMAIN store

(* The nonce is reserved, and the call forwarded.                          *)
Store(worker) ==
  LET approval == call[worker].approval
      expiry   == NonceExpiry(approval)
  IN  /\ Working(worker, "store")
      /\ CanCreate(approval.nonce)
      /\ store' = [nonce \in DOMAIN store \cup {approval.nonce} |->
                     IF nonce = approval.nonce THEN expiry ELSE store[nonce]]
      /\ cap' = [cap EXCEPT ![worker] =
                   [since_sweep |-> @.since_sweep + 1,
                    full_until |-> Bounded(@.full_until, expiry)]]
      /\ uses' = [uses EXCEPT ![approval] = @ + 1]
      /\ known' = [known EXCEPT ![worker] = @ \cup {approval.nonce}]
      /\ Refuse(worker)
      /\ UNCHANGED <<clock, rebuilds, missed>>

(* The nonce was reserved since the get: a replay after all.               *)
StoreMismatch(worker) ==
  /\ Working(worker, "store")
  /\ ~CanCreate(call[worker].approval.nonce)
  /\ Refuse(worker)
  /\ UNCHANGED <<store, cap, clock, rebuilds, history>>

(* Listing, deleting or storing fails: the call is refused Unavailable.    *)
StoreFails(worker) ==
  /\ \E at \in {"list", "delete", "store"} : Working(worker, at)
  /\ Refuse(worker)
  /\ UNCHANGED <<store, cap, clock, rebuilds, history>>

(* The worker's VM is rebuilt: its call and its bookkeeping are lost, the  *)
(* store is not.                                                           *)
Rebuild(worker) ==
  /\ rebuilds < MaxRebuilds
  /\ call' = [call EXCEPT ![worker] = Idle]
  /\ cap' = [cap EXCEPT ![worker] = [since_sweep |-> 0, full_until |-> NoBound]]
  /\ known' = [known EXCEPT ![worker] = {}]
  /\ rebuilds' = rebuilds + 1
  /\ UNCHANGED <<store, clock, uses, missed>>

HeldUp(worker) == ~Working(worker, "idle") /\ clock - call[worker].since >= MaxStall

(* Time passes, while no call is held up longer than assumed.              *)
Tick ==
  /\ clock < MaxClock
  /\ ~\E worker \in Workers : HeldUp(worker)
  /\ clock' = clock + 1
  /\ UNCHANGED <<store, cap, call, rebuilds, history>>

ReserveNonce(worker) ==
  \/ \E approval \in Approvals : Evaluate(worker, approval)
  \/ GetRefused(worker)
  \/ GetAbsent(worker)
  \/ List(worker)
  \/ \E key \in Nonces : \/ VisitKept(worker, key)
                         \/ VisitAbsent(worker, key)
                         \/ VisitDue(worker, key)
  \/ Delete(worker)
  \/ Store(worker)
  \/ StoreMismatch(worker)
  \/ StoreFails(worker)

Next ==
  \/ \E worker \in Workers : ReserveNonce(worker) \/ Rebuild(worker)
  \/ Tick

Spec == Init /\ [][Next]_vars

-----------------------------------------------------------------------------
(* P6, "single use": no approval is forwarded twice on this replica,       *)
(* whichever workers it is presented to, through sweeps, races between a   *)
(* get and a store, failing store operations and VM rebuilds.              *)
SingleUse == \A approval \in Approvals : uses[approval] <= 1

(* "Only a P4-rejected approval is safe to forget": while an approval that *)
(* was forwarded would still pass P4, its nonce is in the store.           *)
KeptWhileFresh ==
  \A approval \in Approvals :
    uses[approval] > 0 /\ Fresh(approval) => approval.nonce \in DOMAIN store

(* "until now passes it a rescan would free nothing this worker knows of": *)
(* a worker refuses at the cap without a sweep only while no nonce it      *)
(* counted or stored is due to be swept; and it does so for good only while*)
(* none of them ever will be ("without this bound it would refuse on that  *)
(* worker forever").                                                       *)
BoundHonest ==
  \A worker \in Workers :
    LET c == cap[worker]
        stored == {store[nonce] : nonce \in known[worker] \cap DOMAIN store}
    IN  /\ AtCap(c.since_sweep) /\ Now <= c.full_until =>
             \A expiry \in stored : ~SweepDue(Now, expiry)
        /\ c.full_until = Never => stored \subseteq {Never}

(* "the store can exceed the cap by up to the cap per worker": each worker *)
(* that has run, rebuilt ones included, leaves at most Cap nonces, as long *)
(* as no listed key's read was missed.                                     *)
StoreBounded ==
  ~missed =>
    Cardinality({nonce \in DOMAIN store : store[nonce] # Unreadable})
      <= Cap * (Cardinality(Workers) + rebuilds)

Register == INSTANCE NonceRegister
              WITH Leftover <- Corrupt, Grace <- MaxStall, reserved <- DOMAIN store,
                   deadline <- [approval \in Approvals |-> approval.deadline]

(* Behind its gets, sweeps, caps, failures and rebuilds the store is one   *)
(* register: a call is forwarded in the step that reserves its nonce, and  *)
(* a nonce is forgotten only once no call that bears it can still be       *)
(* reserved, however late the sweep or the call is.                        *)
ImplementsRegister == Register!Spec
=============================================================================

-------------------------- MODULE NonceStore_proofs --------------------------
(***************************************************************************)
(* That reserve_nonce makes an atomic register of the store, and grants    *)
(* single use, for any workers, approvals, caps, backoff and clocks, as    *)
(* long as no two approvals share a nonce and no call is held up for more  *)
(* than a second between its P4 check and its store.  Without the first    *)
(* the code does not (run nonce_shared).                                   *)
(*                                                                         *)
(* A sweep judges a key in one host call and deletes it in a later one.    *)
(* The inductive invariant says why that is safe: a key is judged due only *)
(* when its approval can come no more (DueIsGone: the second of slack in   *)
(* nonce_sweep_due covers both the rounding of the expiry and the call     *)
(* that is held up), and then no later reservation can be in its place.    *)
(*                                                                         *)
(* Two more inductions are about the workers' bookkeeping, which no worker *)
(* shares: BInv, that the bound a worker keeps on its next sweep is right  *)
(* however the others change the store, and CInv, that the nonces in the   *)
(* store can be shared out at most Cap to each worker and rebuilt VM.      *)
(***************************************************************************)
EXTENDS NonceStore, Sums_proofs

(* The approval can be presented no more, and no call for it is under way. *)
Gone(approval) == clock > approval.deadline + MaxStall

Steps == {"idle", "get", "list", "visit", "delete", "store"}

(* One worker's call: it was checked in time and is not held up too long;  *)
(* its sweep's clock is not ahead; what it is to delete can come no more.  *)
CallOK(c) ==
  /\ c.at \in Steps
  /\ c.at # "idle" =>
       /\ c.approval \in Approvals /\ c.since \in Nat
       /\ c.since <= c.approval.deadline
       /\ clock <= c.since + MaxStall
  /\ c.at = "get" => c = [at |-> "get", approval |-> c.approval, since |-> c.since]
  /\ c.at \in {"list", "visit", "delete"} => c.now \in Nat /\ c.now * Second <= clock
  /\ c.at = "delete" => \A a \in Approvals : a.nonce = c.victim => Gone(a)

CallsOK ==
  /\ DOMAIN call = Workers
  /\ call = [worker \in Workers |-> call[worker]]
  /\ \A worker \in Workers : CallOK(call[worker])

(* What is stored is an approval's expiry, or a leftover of another build. *)
StoreOK ==
  \A nonce \in DOMAIN store :
    \/ store[nonce] = Unreadable
    \/ \E a \in Approvals : a.nonce = nonce /\ store[nonce] = NonceExpiry(a)

(* The nonce of an approval that was used is stored while it can come.     *)
Remembered ==
  \A a \in Approvals : uses[a] > 0 => a.nonce \in DOMAIN store \/ Gone(a)

UsesOK == uses \in [Approvals -> Nat] /\ SingleUse /\ Remembered

IInv == clock \in 0 .. MaxClock /\ CallsOK /\ StoreOK /\ UsesOK

NoncesDistinct == \A a, b \in Approvals : a.nonce = b.nonce => a = b

-----------------------------------------------------------------------------
LEMMA DivBounds ==
  ASSUME NEW n \in Nat PROVE /\ n \div Second \in Nat
                             /\ (n \div Second) * Second <= n
                             /\ n < (n \div Second) * Second + Second
BY TimeAssumption

(* A key a sweep finds due belongs to an approval that can come no more.   *)
LEMMA DueIsGone ==
  ASSUME MaxStall <= Second, clock \in 0 .. MaxClock, NEW a \in Approvals,
         NEW now \in Nat, now * Second <= clock, SweepDue(now, NonceExpiry(a))
  PROVE  Gone(a)
<1> DEFINE d == a.deadline \div Second
<1>1. /\ a.deadline \in Nat /\ Second \in Nat \ {0} /\ Never \in Nat
      /\ MaxClock \in Nat /\ MaxClock < Never /\ MaxStall \in Nat
  BY TimeAssumption, ApprovalsAssumption, BoundsAssumption
<1>2. d \in Nat /\ a.deadline < d * Second + Second
  BY <1>1, DivBounds
<1>3. now <= clock
  BY <1>1
<1>4. NonceExpiry(a) = d /\ now > d + 1
  BY <1>1, <1>2, <1>3 DEF NonceExpiry, Lower, SweepDue
<1> HIDE DEF d
<1>5. now = (d + 2) + (now - d - 2) /\ now - d - 2 \in Nat
  BY <1>2, <1>4
<1>6. now * Second >= (d + 2) * Second
  BY <1>1, <1>2, <1>5
<1>7. (d + 2) * Second = d * Second + Second + Second
  BY <1>1, <1>2
<1>8. QED
  BY <1>1, <1>2, <1>6, <1>7 DEF Gone

-----------------------------------------------------------------------------
LEMMA InitIInv == Init => IInv
BY TimeAssumption DEF Init, IInv, CallsOK, CallOK, StoreOK, UsesOK, SingleUse, Remembered,
                      Idle, Steps

(* A step that puts one worker's call in a good state.                     *)
LEMMA CallStep ==
  ASSUME CallsOK, NEW worker \in Workers, NEW c, CallOK(c),
         call' = [call EXCEPT ![worker] = c], clock' = clock
  PROVE  CallsOK'
BY DEF CallsOK, CallOK, Gone

LEMMA IdleOK == CallOK(Idle)
BY DEF CallOK, Idle, Steps

LEMMA RefuseStep ==
  ASSUME CallsOK, NEW worker \in Workers, Refuse(worker), clock' = clock
  PROVE  CallsOK'
BY CallStep, IdleOK DEF Refuse

(* A sweep goes on, or ends.                                               *)
LEMMA VisitStep ==
  ASSUME CallsOK, NEW worker \in Workers, call[worker].at \in {"list", "visit", "delete"},
         NEW todo, NEW kept, NEW earliest, Visit(worker, todo, kept, earliest), clock' = clock
  PROVE  CallsOK'
<1> DEFINE c == call[worker]
           visit == [at |-> "visit", approval |-> c.approval, since |-> c.since, now |-> c.now,
                     todo |-> todo, kept |-> kept, earliest |-> earliest]
           goOn == [at |-> "store", approval |-> c.approval, since |-> c.since]
<1>1. CallOK(c)
  BY DEF CallsOK
<1>2. CallOK(visit) /\ CallOK(goOn)
  BY <1>1 DEF CallOK, Steps
<1>3. \/ call' = [call EXCEPT ![worker] = visit]
      \/ call' = [call EXCEPT ![worker] = goOn]
      \/ Refuse(worker)
  BY DEF Visit, Swept
<1> HIDE DEF visit, goOn
<1>4. QED
  BY <1>2, <1>3, CallStep, RefuseStep

(* A step that leaves the clock, the store and what was used alone.        *)
LEMMA SameBooks ==
  ASSUME IInv, CallsOK', UNCHANGED <<clock, store, uses>> PROVE IInv'
BY DEF IInv, StoreOK, UsesOK, SingleUse, Remembered, Gone

LEMMA EvaluateIInv ==
  ASSUME IInv, NEW worker \in Workers, NEW approval \in Approvals, Evaluate(worker, approval)
  PROVE  IInv'
<1> DEFINE c == [at |-> "get", approval |-> approval, since |-> clock]
<1>1. CallOK(c)
  BY ApprovalsAssumption, BoundsAssumption, TimeAssumption
     DEF IInv, Evaluate, Fresh, CallOK, Steps
<1>2. CallsOK'
  <2> HIDE DEF c
  <2>1. call' = [call EXCEPT ![worker] = c] /\ clock' = clock
    BY DEF Evaluate, c
  <2>2. QED
    BY <1>1, <2>1, CallStep DEF IInv
<1>3. QED
  BY <1>2, SameBooks DEF Evaluate, history

LEMMA GetAbsentIInv ==
  ASSUME IInv, NEW worker \in Workers, GetAbsent(worker) PROVE IInv'
<1> DEFINE c == call[worker]
           list == [at |-> "list", approval |-> c.approval, since |-> c.since, now |-> Now]
           goOn == [at |-> "store", approval |-> c.approval, since |-> c.since]
<1>1. CallOK(c) /\ c.at = "get" /\ DOMAIN call = Workers /\ clock \in Nat
  BY DEF IInv, CallsOK, GetAbsent, Working
<1>2. Now \in Nat /\ Now * Second <= clock
  BY <1>1, DivBounds DEF Now
<1>3. CallOK(list) /\ CallOK(goOn)
  BY <1>1, <1>2 DEF CallOK, Steps
<1>4. [c EXCEPT !.at = "store"] = goOn
  BY <1>1 DEF CallOK
<1>5. \/ call' = [call EXCEPT ![worker] = list]
      \/ call' = [call EXCEPT ![worker] = goOn]
      \/ Refuse(worker)
  BY <1>1, <1>4 DEF GetAbsent, Goto
<1>6. CallsOK' 
  <2> HIDE DEF list, goOn
  <2>1. clock' = clock /\ CallsOK
    BY DEF GetAbsent, IInv
  <2>2. QED
    BY <2>1, <1>3, <1>5, CallStep, RefuseStep
<1>7. QED
  BY <1>6, SameBooks DEF GetAbsent, history

LEMMA SweepIInv ==
  ASSUME IInv, NEW worker \in Workers, NEW key,
         List(worker) \/ VisitKept(worker, key) \/ VisitAbsent(worker, key)
  PROVE  IInv'
<1>1. CallsOK /\ clock' = clock /\ store' = store /\ uses' = uses
  BY DEF IInv, List, VisitKept, VisitAbsent
<1>2. call[worker].at \in {"list", "visit", "delete"}
  BY DEF List, VisitKept, VisitAbsent, Working
<1>3. \E todo, kept, earliest : Visit(worker, todo, kept, earliest)
  BY DEF List, VisitKept, VisitAbsent
<1>4. CallsOK'
  BY <1>1, <1>2, <1>3, VisitStep
<1>5. QED
  BY <1>1, <1>4, SameBooks

(* A key is judged due: its approval can come no more.                     *)
LEMMA VisitDueIInv ==
  ASSUME NoncesDistinct, MaxStall <= Second,
         IInv, NEW worker \in Workers, NEW key \in Nonces, VisitDue(worker, key)
  PROVE  IInv'
<1> DEFINE c == call[worker]
           next == [at |-> "delete", approval |-> c.approval, since |-> c.since, now |-> c.now,
                    todo |-> c.todo \ {key}, kept |-> c.kept, earliest |-> c.earliest,
                    victim |-> key]
<1>1. CallOK(c) /\ c.at = "visit" /\ clock \in 0 .. MaxClock
  BY DEF IInv, CallsOK, VisitDue, Working
<1>2. c.now \in Nat /\ c.now * Second <= clock
  BY <1>1 DEF CallOK
<1>3. PICK owner \in Approvals : owner.nonce = key /\ store[key] = NonceExpiry(owner)
  BY DEF IInv, StoreOK, VisitDue, SweepDue
<1>4. SweepDue(c.now, NonceExpiry(owner))
  BY <1>3 DEF VisitDue
<1>5. Gone(owner)
  <2> HIDE DEF c
  <2>1. QED
    BY <1>1, <1>2, <1>4, DueIsGone
<1>6. \A a \in Approvals : a.nonce = key => Gone(a)
  BY <1>3, <1>5 DEF NoncesDistinct
<1>7. CallOK(next)
  BY <1>1, <1>6 DEF CallOK, Steps
<1>8. CallsOK'
  <2>1. call' = [call EXCEPT ![worker] = next] /\ clock' = clock /\ CallsOK
    BY DEF VisitDue, IInv
  <2> HIDE DEF next
  <2>2. QED
    BY <1>7, <2>1, CallStep
<1>9. QED
  BY <1>8, SameBooks DEF VisitDue, history

(* The delete takes away only what can come no more.                       *)
LEMMA DeleteIInv ==
  ASSUME IInv, NEW worker \in Workers, Delete(worker) PROVE IInv'
<1> DEFINE c == call[worker]
<1>1. CallsOK /\ CallOK(c) /\ c.at = "delete" /\ clock' = clock /\ uses' = uses
  BY DEF IInv, CallsOK, Delete, Working
<1>2. CallsOK'
  BY <1>1, VisitStep DEF Delete
<1>3. /\ DOMAIN store' = DOMAIN store \ {c.victim}
      /\ \A nonce \in DOMAIN store' : store'[nonce] = store[nonce]
  BY DEF Delete, Restrict
<1>4. StoreOK'
  BY <1>3 DEF IInv, StoreOK, NonceExpiry
<1>5. UsesOK'
  BY <1>1, <1>3 DEF IInv, UsesOK, SingleUse, Remembered, CallOK, Gone
<1>6. QED
  BY <1>1, <1>2, <1>4, <1>5 DEF IInv

(* A call that stores its nonce is the first for its approval.             *)
LEMMA FirstUse ==
  ASSUME IInv, NEW worker \in Workers, Store(worker)
  PROVE  LET approval == call[worker].approval
         IN  approval \in Approvals /\ ~Gone(approval) /\ uses[approval] = 0
<1> DEFINE c == call[worker]
<1>1. CallOK(c) /\ c.at = "store" /\ clock \in Nat
  BY TimeAssumption DEF IInv, CallsOK, Store, Working
<1>2. c.approval \in Approvals /\ ~Gone(c.approval)
  BY <1>1, ApprovalsAssumption, BoundsAssumption DEF CallOK, Gone
<1>3. c.approval.nonce \notin DOMAIN store
  BY DEF Store, CanCreate
<1>4. uses[c.approval] = 0
  BY <1>2, <1>3 DEF IInv, UsesOK, Remembered
<1>5. QED
  BY <1>2, <1>4

LEMMA StoreIInv ==
  ASSUME IInv, NEW worker \in Workers, Store(worker) PROVE IInv'
<1> DEFINE approval == call[worker].approval
<1>1. approval \in Approvals /\ uses[approval] = 0
  BY FirstUse
<1>2. /\ clock' = clock /\ CallsOK /\ Refuse(worker)
      /\ uses' = [uses EXCEPT ![approval] = @ + 1]
      /\ store' = [nonce \in DOMAIN store \cup {approval.nonce} |->
                     IF nonce = approval.nonce THEN NonceExpiry(approval) ELSE store[nonce]]
  BY DEF Store, IInv
<1>3. CallsOK'
  BY <1>2, RefuseStep
<1>4. StoreOK'
  BY <1>1, <1>2 DEF IInv, StoreOK, NonceExpiry
<1>5. UsesOK'
  BY <1>1, <1>2 DEF IInv, UsesOK, SingleUse, Remembered, Gone
<1>6. QED
  BY <1>2, <1>3, <1>4, <1>5 DEF IInv

LEMMA TickIInv == ASSUME IInv, Tick PROVE IInv'
<1>1. clock \in Nat /\ clock' \in 0 .. MaxClock /\ clock' = clock + 1
  BY TimeAssumption DEF IInv, Tick
<1>2. \A a \in Approvals : Gone(a) => Gone(a)'
  BY <1>1, ApprovalsAssumption, BoundsAssumption DEF Gone
<1>3. CallsOK'
  BY <1>1, <1>2, TimeAssumption, BoundsAssumption
     DEF IInv, CallsOK, CallOK, Tick, HeldUp, Working
<1>4. StoreOK' /\ UsesOK'
  BY <1>2 DEF IInv, StoreOK, UsesOK, SingleUse, Remembered, Tick, history
<1>5. QED
  BY <1>1, <1>3, <1>4 DEF IInv

LEMMA ReserveNonceIInv ==
  ASSUME NoncesDistinct, MaxStall <= Second,
         IInv, NEW worker \in Workers, ReserveNonce(worker)
  PROVE  IInv'
<1>1. CASE GetRefused(worker) \/ StoreMismatch(worker) \/ StoreFails(worker)
  <2>1. CallsOK'
    BY <1>1, RefuseStep DEF IInv, GetRefused, StoreMismatch, StoreFails
  <2>2. QED
    BY <1>1, <2>1, SameBooks DEF GetRefused, StoreMismatch, StoreFails, history
<1>2. QED
  BY <1>1, EvaluateIInv, GetAbsentIInv, SweepIInv, VisitDueIInv, DeleteIInv, StoreIInv
     DEF ReserveNonce

LEMMA RebuildIInv == ASSUME IInv, NEW worker \in Workers, Rebuild(worker) PROVE IInv'
<1>1. CallsOK'
  BY CallStep, IdleOK DEF IInv, Rebuild
<1>2. QED
  BY <1>1, SameBooks DEF Rebuild

LEMMA Inductive ==
  ASSUME NoncesDistinct, MaxStall <= Second, IInv, [Next]_vars PROVE IInv'
<1>1. CASE Next
  BY <1>1, ReserveNonceIInv, RebuildIInv, TickIInv DEF Next
<1>2. CASE UNCHANGED vars
  <2>1. CallsOK'
    BY <1>2 DEF vars, IInv, CallsOK, CallOK, Gone
  <2>2. QED
    BY <1>2, <2>1, SameBooks DEF vars
<1>3. QED
  BY <1>1, <1>2

LEMMA Invariance ==
  ASSUME NoncesDistinct, MaxStall <= Second PROVE Spec => []IInv
BY InitIInv, Inductive, PTL DEF Spec

-----------------------------------------------------------------------------
(* No approval is forwarded twice, whatever workers it is presented to     *)
(* (predicate P6).                                                         *)
THEOREM NonceSingleUse ==
  ASSUME NoncesDistinct, MaxStall <= Second PROVE Spec => []SingleUse
<1>1. IInv => SingleUse
  BY DEF IInv, UsesOK
<1>2. QED
  BY Invariance, <1>1, PTL

(* While an approval that was forwarded would still pass P4, its nonce is  *)
(* in the store ("Only a P4-rejected approval is safe to forget").         *)
THEOREM NonceKept ==
  ASSUME NoncesDistinct, MaxStall <= Second PROVE Spec => []KeptWhileFresh
<1>1. IInv => KeptWhileFresh
  BY ApprovalsAssumption, BoundsAssumption, TimeAssumption
     DEF IInv, UsesOK, Remembered, KeptWhileFresh, Fresh, Gone
<1>2. QED
  BY Invariance, <1>1, PTL
-----------------------------------------------------------------------------
(* Each step of a worker is a step of the register, or none of its steps.  *)
LEMMA StoreReserves ==
  ASSUME IInv, NEW worker \in Workers, Store(worker)
  PROVE  Register!Reserve(call[worker].approval)
<1> DEFINE approval == call[worker].approval
<1>1. approval \in Approvals /\ ~Gone(approval)
  BY FirstUse
<1>2. approval.nonce \notin DOMAIN store
  BY DEF Store, CanCreate
<1>3. DOMAIN store' = DOMAIN store \cup {approval.nonce}
  BY DEF Store
<1>4. uses' = [uses EXCEPT ![approval] = @ + 1] /\ clock' = clock
  BY DEF Store
<1> HIDE DEF approval
<1>5. QED
  BY <1>1, <1>2, <1>3, <1>4 DEF Register!Reserve, Register!Gone, Gone, approval

LEMMA DeleteForgets ==
  ASSUME IInv, NEW worker \in Workers, Delete(worker)
  PROVE  (\E nonce \in DOMAIN store : Register!Forget(nonce))
           \/ UNCHANGED Register!registerVars
<1> DEFINE victim == call[worker].victim
<1>1. \A a \in Approvals : a.nonce = victim => Gone(a)
  BY DEF IInv, CallsOK, CallOK, Delete, Working
<1>2. /\ DOMAIN store' = DOMAIN store \ {victim}
      /\ uses' = uses /\ clock' = clock /\ DOMAIN uses = Approvals
  BY DEF Delete, Restrict, IInv, UsesOK
<1> HIDE DEF victim
<1>3. CASE victim \in DOMAIN store
  BY <1>1, <1>2, <1>3 DEF Register!Forget, Register!Gone, Gone
<1>4. CASE victim \notin DOMAIN store
  BY <1>2, <1>4 DEF Register!registerVars
<1>5. QED
  BY <1>3, <1>4

LEMMA RegisterStep ==
  ASSUME IInv, [Next]_vars PROVE [Register!Next]_(Register!registerVars)
<1>1. ASSUME NEW worker \in Workers, Store(worker) PROVE Register!Next
  <2>1. call[worker].approval \in Approvals
    BY <1>1, FirstUse
  <2>2. QED
    BY <1>1, <2>1, StoreReserves DEF Register!Next
<1>2. ASSUME NEW worker \in Workers, Delete(worker)
      PROVE  [Register!Next]_(Register!registerVars)
  BY <1>2, DeleteForgets DEF Register!Next
<1>3. ASSUME Tick PROVE Register!Next
  BY <1>3 DEF Tick, history, Register!Next, Register!Tick
<1>4. ASSUME NEW worker \in Workers, ReserveNonce(worker), ~Store(worker), ~Delete(worker)
      PROVE  UNCHANGED Register!registerVars
  BY <1>4 DEF ReserveNonce, Evaluate, GetRefused, GetAbsent, List, VisitKept, VisitAbsent,
              VisitDue, StoreMismatch, StoreFails, history, Register!registerVars
<1>5. ASSUME NEW worker \in Workers, Rebuild(worker) PROVE UNCHANGED Register!registerVars
  BY <1>5 DEF Rebuild, Register!registerVars
<1>6. CASE UNCHANGED vars
  BY <1>6 DEF vars, Register!registerVars
<1>7. QED
  BY <1>1, <1>2, <1>3, <1>4, <1>5, <1>6 DEF Next

(* Behind its gets, sweeps, caps, failures and rebuilds the store is one   *)
(* atomic register of nonces.                                              *)
THEOREM StoreIsRegister ==
  ASSUME NoncesDistinct, MaxStall <= Second PROVE Spec => ImplementsRegister
<1>1. Init => Register!Init
  BY ApprovalsAssumption DEF Init, Register!Init
<1>2. QED
  BY Invariance, <1>1, RegisterStep, PTL DEF Spec, ImplementsRegister, Register!Spec
-----------------------------------------------------------------------------
(* A register's approval that was used, and may still come, is remembered. *)
RInv ==
  /\ uses \in [Approvals -> Nat] /\ clock \in Nat
  /\ Register!SingleUse
  /\ \A approval, other \in Approvals :
       uses[approval] > 0 /\ approval.nonce = other.nonce /\ ~Register!Gone(other) =>
         approval.nonce \in DOMAIN store

(* An approval that is granted had not been used, nor had any other of its *)
(* nonce: else the nonce would be remembered.                              *)
LEMMA RegisterReserves ==
  ASSUME RInv, NEW approval \in Approvals, Register!Reserve(approval) PROVE RInv'
<1>1. \A other \in Approvals : other.nonce = approval.nonce => uses[other] = 0
  BY DEF RInv, Register!Reserve
<1>2. uses' \in [Approvals -> Nat] /\ clock' \in Nat
  BY DEF RInv, Register!Reserve
<1>3. Register!SingleUse'
  BY <1>1 DEF RInv, Register!SingleUse, Register!Reserve
<1>4. QED
  BY <1>2, <1>3 DEF RInv, Register!Reserve, Register!Gone

(* Only a nonce no approval can come with any more is forgotten.           *)
LEMMA RegisterForgets ==
  ASSUME RInv, NEW nonce \in DOMAIN store, Register!Forget(nonce) PROVE RInv'
<1>1. DOMAIN uses = Approvals
  BY DEF RInv
<1>2. QED
  BY <1>1 DEF RInv, Register!SingleUse, Register!Forget, Register!Gone

(* An approval that is gone stays gone.                                    *)
LEMMA RegisterTicks == ASSUME RInv, Register!Tick PROVE RInv'
BY ApprovalsAssumption, BoundsAssumption
   DEF RInv, Register!SingleUse, Register!Tick, Register!Gone

(* Such a register grants single use, whatever is reserved and forgotten:  *)
(* no approval is used twice, nor two of one nonce (lib.rs:1400, "the      *)
(* second use is a P6 denial").                                            *)
THEOREM RegisterSingleUse == Register!Spec => []Register!SingleUse
<1>1. Register!Init => RInv
  BY DEF Register!Init, RInv, Register!SingleUse
<1>2. RInv /\ [Register!Next]_(Register!registerVars) => RInv'
  <2>1. SUFFICES ASSUME RInv, [Register!Next]_(Register!registerVars) PROVE RInv'
    OBVIOUS
  <2>2. CASE Register!Next
    BY <2>1, <2>2, RegisterReserves, RegisterForgets, RegisterTicks DEF Register!Next
  <2>3. CASE UNCHANGED Register!registerVars
    BY <2>1, <2>3 DEF Register!registerVars, RInv, Register!SingleUse, Register!Gone
  <2>4. QED
    BY <2>1, <2>2, <2>3
<1>3. RInv => Register!SingleUse
  BY DEF RInv
<1>4. QED
  BY <1>1, <1>2, <1>3, PTL DEF Register!Spec

-----------------------------------------------------------------------------
(* The code's backoff is a minute, and Never the largest i64.              *)
BackoffFits == MaxClock + Backoff < Never

Leftover(nonce) == nonce \in DOMAIN store /\ store[nonce] = Unreadable

(* A bound on when a sweep is of use to a worker that knows these nonces:  *)
(* no later than a second past each one's expiry, and Never only if it     *)
(* never expires; one that cannot be read bounds it by the backoff.  It    *)
(* speaks of the approvals, not of what is stored now: another worker may  *)
(* delete a nonce and reserve it again meanwhile.                          *)
Bounds(bound, nonces) ==
  /\ bound \in Int /\ bound <= Never
  /\ \A a \in Approvals : a.nonce \in nonces =>
       IF Leftover(a.nonce) THEN BackoffFits => bound < Never
       ELSE bound <= NonceExpiry(a) + 1 /\ (bound = Never => NonceExpiry(a) = Never)

Sweeping(c) == c.at \in {"visit", "delete"}

SweepBounds(c) ==
  /\ c.at = "list" => c.now \in Nat /\ c.now <= MaxClock
  /\ Sweeping(c) => /\ c.now \in Nat /\ c.now <= MaxClock
                    /\ Bounds(c.earliest, c.kept)
  /\ c.at = "delete" => ~Leftover(c.victim)
  /\ c.at # "idle" => c.approval \in Approvals

BInv ==
  /\ clock \in 0 .. MaxClock
  /\ DOMAIN call = Workers /\ DOMAIN cap = Workers /\ DOMAIN known = Workers
  /\ StoreOK /\ \A nonce : Leftover(nonce) => nonce \in Nonces
  /\ \A w \in Workers : SweepBounds(call[w])
  /\ \A w \in Workers : Bounds(cap[w].full_until, known[w])

LEMMA ExpiryNat ==
  ASSUME NEW a \in Approvals PROVE NonceExpiry(a) \in Nat /\ NonceExpiry(a) <= Never
<1>1. a.deadline \in Nat /\ a.deadline \div Second \in Nat /\ Never \in Nat
  BY ApprovalsAssumption, TimeAssumption, DivBounds
<1>2. QED
  BY <1>1 DEF NonceExpiry, Lower

LEMMA NowFits == ASSUME clock \in 0 .. MaxClock PROVE Now \in Nat /\ Now <= MaxClock
<1>1. clock \in Nat /\ Now \in Nat /\ Now * Second <= clock /\ Second \in Nat \ {0}
  BY DivBounds, TimeAssumption DEF Now
<1>2. Now <= Now * Second
  BY <1>1
<1>3. QED
  BY <1>1, <1>2, TimeAssumption

(* A bound stays one while the nonces that cannot be read are the same.    *)
LEMMA BoundsStay ==
  ASSUME NEW bound, NEW nonces, Bounds(bound, nonces),
         \A nonce : Leftover(nonce) <=> Leftover(nonce)'
  PROVE  Bounds(bound, nonces)'
BY DEF Bounds, NonceExpiry

LEMMA BoundsFewer ==
  ASSUME NEW bound, NEW nonces, NEW fewer \in SUBSET nonces, Bounds(bound, nonces)
  PROVE  Bounds(bound, fewer)
BY DEF Bounds

(* A nonce kept by a sweep bounds the next one.                            *)
LEMMA KeptBounds ==
  ASSUME NoncesDistinct, StoreOK, NEW key \in DOMAIN store,
         NEW now \in Nat, now <= MaxClock, ~SweepDue(now, store[key]),
         NEW bound, NEW kept, Bounds(bound, kept)
  PROVE  Bounds(Lower(bound, BoundBy(now, store[key])), kept \cup {key})
<1> DEFINE by == BoundBy(now, store[key])
           next == Lower(bound, by)
<1>1. Never \in Nat /\ MaxClock \in Nat /\ MaxClock < Never /\ Backoff \in Nat
  BY TimeAssumption, CapAssumption
<1>2. CASE store[key] = Unreadable
  <2>1. by = now + Backoff /\ (BackoffFits => by < Never) /\ by \in Int
    BY <1>1, <1>2 DEF BoundBy, BackoffFits
  <2> HIDE DEF by
  <2>2. /\ next \in Int /\ next <= bound /\ next <= Never /\ bound <= Never /\ bound \in Int
        /\ BackoffFits => next < Never
    BY <2>1, <1>1 DEF Bounds, Lower
  <2> HIDE DEF next
  <2>3. ASSUME NEW a \in Approvals, a.nonce \in kept \cup {key}
        PROVE  IF Leftover(a.nonce) THEN BackoffFits => next < Never
               ELSE next <= NonceExpiry(a) + 1 /\ (next = Never => NonceExpiry(a) = Never)
    <3>1. CASE a.nonce = key
      BY <1>2, <2>2, <3>1 DEF Leftover
    <3>2. CASE a.nonce # key
      BY <2>2, <2>3, <3>2, <1>1, ExpiryNat DEF Bounds
    <3>3. QED
      BY <3>1, <3>2
  <2>4. QED
    BY <1>1, <2>2, <2>3 DEF Bounds, by, next
<1>3. CASE store[key] # Unreadable
  <2>1. PICK owner \in Approvals : owner.nonce = key /\ store[key] = NonceExpiry(owner)
    BY <1>3 DEF StoreOK
  <2>2. NonceExpiry(owner) \in Nat /\ NonceExpiry(owner) <= Never
    BY ExpiryNat
  <2>3. by = Higher(NonceExpiry(owner), now) /\ now <= NonceExpiry(owner) + 1
    BY <1>3, <2>1, <2>2 DEF BoundBy, SweepDue
  <2>4. by \in Int /\ by <= NonceExpiry(owner) + 1 /\ by <= Never
        /\ (by = Never => NonceExpiry(owner) = Never)
    BY <1>1, <2>2, <2>3 DEF Higher
  <2> HIDE DEF by
  <2>5. next \in Int /\ next <= bound /\ next <= by /\ next <= Never /\ bound \in Int
        /\ bound <= Never
    BY <2>4, <1>1 DEF Bounds, Lower
  <2> HIDE DEF next
  <2>6. ASSUME NEW a \in Approvals, a.nonce \in kept \cup {key}
        PROVE  IF Leftover(a.nonce) THEN BackoffFits => next < Never
               ELSE next <= NonceExpiry(a) + 1 /\ (next = Never => NonceExpiry(a) = Never)
    <3>1. CASE a.nonce = key
      <4>1. a = owner
        BY <2>1, <3>1 DEF NoncesDistinct
      <4>2. QED
        BY <1>1, <1>3, <2>1, <2>2, <2>4, <2>5, <4>1 DEF Leftover
    <3>2. CASE a.nonce # key
      BY <2>5, <2>6, <3>2, <1>1, ExpiryNat DEF Bounds
    <3>3. QED
      BY <3>1, <3>2
  <2>7. QED
    BY <2>5, <2>6 DEF Bounds, by, next
<1>4. QED
  BY <1>2, <1>3

(* A worker's own reservation lowers its bound.                            *)
LEMMA OwnBounds ==
  ASSUME NoncesDistinct, NEW a \in Approvals, NEW bound, NEW nonces, Bounds(bound, nonces),
         ~Leftover(a.nonce)
  PROVE  Bounds(Lower(bound, NonceExpiry(a)), nonces \cup {a.nonce})
<1> DEFINE next == Lower(bound, NonceExpiry(a))
<1>1. NonceExpiry(a) \in Nat /\ NonceExpiry(a) <= Never /\ Never \in Nat
  BY ExpiryNat, TimeAssumption
<1>2. bound \in Int /\ bound <= Never /\ next \in Int /\ next <= bound /\ next <= NonceExpiry(a)
  BY <1>1 DEF Bounds, Lower
<1> HIDE DEF next
<1>3. ASSUME NEW b \in Approvals, b.nonce \in nonces \cup {a.nonce}
      PROVE  IF Leftover(b.nonce) THEN BackoffFits => next < Never
             ELSE next <= NonceExpiry(b) + 1 /\ (next = Never => NonceExpiry(b) = Never)
  <2>1. CASE b.nonce = a.nonce
    BY <1>1, <1>2, <2>1 DEF NoncesDistinct
  <2>2. CASE b.nonce # a.nonce
    BY <1>1, <1>2, <1>3, <2>2, ExpiryNat DEF Bounds
  <2>3. QED
    BY <2>1, <2>2
<1>4. QED
  BY <1>1, <1>2, <1>3 DEF Bounds, next

LEMMA NoneBounds ==
  /\ \A bound \in Int : bound <= Never => Bounds(bound, {})
  /\ \A nonces : Bounds(NoBound, nonces)
<1>1. Never \in Nat /\ \A a \in Approvals : NonceExpiry(a) \in Nat
  BY TimeAssumption, ExpiryNat
<1>2. QED
  BY <1>1 DEF Bounds, NoBound

-----------------------------------------------------------------------------
LEMMA InitBInv == Init => BInv
<1> SUFFICES ASSUME Init PROVE BInv
  OBVIOUS
<1>1. clock \in 0 .. MaxClock /\ StoreOK /\ \A nonce : Leftover(nonce) => nonce \in Nonces
  BY TimeAssumption, ApprovalsAssumption DEF Init, StoreOK, Leftover, Nonces
<1>2. \A w \in Workers : call[w] = Idle /\ cap[w].full_until = NoBound
  BY DEF Init
<1>3. \A w \in Workers : SweepBounds(call[w])
  BY <1>2 DEF SweepBounds, Sweeping, Idle
<1>4. \A w \in Workers : Bounds(cap[w].full_until, known[w])
  BY <1>2, NoneBounds
<1>5. QED
  BY <1>1, <1>3, <1>4 DEF BInv, Init

(* A step of one worker that leaves the clock alone: it has to put that    *)
(* worker's call and bookkeeping right, and keep what is unreadable.       *)
LEMMA BoundStep ==
  ASSUME BInv, NEW worker \in Workers, NEW c, NEW b, NEW k,
         call' = [call EXCEPT ![worker] = c],
         cap' = [cap EXCEPT ![worker] = b],
         known' = [known EXCEPT ![worker] = k],
         UNCHANGED clock, StoreOK',
         \A nonce : Leftover(nonce) <=> Leftover(nonce)',
         SweepBounds(c), Bounds(b.full_until, k)
  PROVE  BInv'
<1>1. ASSUME NEW w \in Workers PROVE SweepBounds(call[w])' /\ Bounds(cap[w].full_until, known[w])'
  <2>1. \A d : SweepBounds(d) => SweepBounds(d)'
    BY BoundsStay DEF SweepBounds
  <2>2. \A bound, nonces : Bounds(bound, nonces) => Bounds(bound, nonces)'
    BY BoundsStay
  <2>3. SweepBounds(call'[w]) /\ Bounds(cap'[w].full_until, known'[w])
    BY DEF BInv
  <2>4. QED
    BY <2>1, <2>2, <2>3
<1>2. QED
  BY <1>1 DEF BInv

(* A step that leaves the store and the bookkeeping alone.                 *)
LEMMA CallBounds ==
  ASSUME BInv, NEW worker \in Workers, NEW c, call' = [call EXCEPT ![worker] = c],
         UNCHANGED <<store, cap, known, clock>>, SweepBounds(c)
  PROVE  BInv'
<1>1. StoreOK' /\ \A nonce : Leftover(nonce) <=> Leftover(nonce)'
  BY DEF BInv, StoreOK, NonceExpiry, Leftover
<1>2. ASSUME NEW w \in Workers PROVE SweepBounds(call[w])' /\ Bounds(cap[w].full_until, known[w])'
  <2>1. \A d : SweepBounds(d) => SweepBounds(d)'
    BY <1>1, BoundsStay DEF SweepBounds
  <2>2. \A bound, nonces : Bounds(bound, nonces) => Bounds(bound, nonces)'
    BY <1>1, BoundsStay
  <2>3. SweepBounds(call'[w]) /\ Bounds(cap'[w].full_until, known'[w])
    BY DEF BInv
  <2>4. QED
    BY <2>1, <2>2, <2>3
<1>3. QED
  BY <1>1, <1>2 DEF BInv

LEMMA IdleBounds == SweepBounds(Idle)
BY DEF SweepBounds, Sweeping, Idle

(* A sweep goes on with what it kept, or ends and makes it the worker's.   *)
LEMMA VisitBounds ==
  ASSUME BInv, NEW worker \in Workers, NEW todo, NEW kept, NEW earliest,
         Visit(worker, todo, kept, earliest), UNCHANGED clock, StoreOK',
         \A nonce : Leftover(nonce) <=> Leftover(nonce)',
         call[worker].at \in {"list", "visit", "delete"}, Bounds(earliest, kept)
  PROVE  BInv'
<1> DEFINE c == call[worker]
           visit == [at |-> "visit", approval |-> c.approval, since |-> c.since, now |-> c.now,
                     todo |-> todo, kept |-> kept, earliest |-> earliest]
           store_next == [at |-> "store", approval |-> c.approval, since |-> c.since]
           full == IF ~AtCap(Cardinality(kept)) /\ Cap - Cardinality(kept) >= LowWater
                   THEN NoBound ELSE earliest
           book == [since_sweep |-> Cardinality(kept), full_until |-> full]
<1>1. SweepBounds(c)
  BY DEF BInv
<1>2. SweepBounds(visit) /\ SweepBounds(store_next)
  BY <1>1 DEF SweepBounds, Sweeping
<1>3. Bounds(book.full_until, kept)
  BY NoneBounds
<1>4. DOMAIN cap = Workers /\ DOMAIN known = Workers
  BY DEF BInv
<1>5. CASE todo = {}
  <2>1. /\ cap' = [cap EXCEPT ![worker] = book]
        /\ known' = [known EXCEPT ![worker] = kept]
        /\ \/ call' = [call EXCEPT ![worker] = Idle]
           \/ call' = [call EXCEPT ![worker] = store_next]
    BY <1>5 DEF Visit, Swept, Refuse
  <2> HIDE DEF book, store_next
  <2>2. QED
    BY <1>2, <1>3, <2>1, BoundStep, IdleBounds
<1>6. CASE todo # {}
  <2>1. call' = [call EXCEPT ![worker] = visit] /\ UNCHANGED <<cap, known>>
    BY <1>6 DEF Visit
  <2> HIDE DEF visit
  <2>2. ASSUME NEW w \in Workers
        PROVE  SweepBounds(call[w])' /\ Bounds(cap[w].full_until, known[w])'
    <3>1. \A d : SweepBounds(d) => SweepBounds(d)'
      BY BoundsStay DEF SweepBounds
    <3>2. \A bound, nonces : Bounds(bound, nonces) => Bounds(bound, nonces)'
      BY BoundsStay
    <3>3. SweepBounds(call'[w]) /\ Bounds(cap'[w].full_until, known'[w])
      BY <1>2, <2>1 DEF BInv
    <3>4. QED
      BY <3>1, <3>2, <3>3
  <2>3. QED
    BY <2>1, <2>2 DEF BInv
<1>7. QED
  BY <1>5, <1>6

LEMMA SweepStepBounds ==
  ASSUME NoncesDistinct, BInv, NEW worker \in Workers, NEW key,
         List(worker) \/ VisitKept(worker, key) \/ VisitAbsent(worker, key)
  PROVE  BInv'
<1> DEFINE c == call[worker]
<1>1. UNCHANGED <<store, clock>> /\ c.at \in {"list", "visit", "delete"} /\ SweepBounds(c)
  BY DEF BInv, List, VisitKept, VisitAbsent, Working
<1>2. StoreOK' /\ \A nonce : Leftover(nonce) <=> Leftover(nonce)'
  BY <1>1 DEF BInv, StoreOK, NonceExpiry, Leftover
<1>3. CASE List(worker)
  <2>1. Visit(worker, DOMAIN store, {}, Never) /\ Never \in Int
    BY <1>3, TimeAssumption DEF List
  <2>2. QED
    BY <1>1, <1>2, <2>1, NoneBounds, VisitBounds
<1>4. CASE VisitKept(worker, key)
  <2>1. /\ c.at = "visit" /\ key \in DOMAIN store /\ ~SweepDue(c.now, store[key])
        /\ Visit(worker, c.todo \ {key}, c.kept \cup {key},
                 Lower(c.earliest, BoundBy(c.now, store[key])))
    BY <1>4 DEF VisitKept, Working
  <2>2. c.now \in Nat /\ c.now <= MaxClock /\ Bounds(c.earliest, c.kept)
    BY <1>1, <2>1 DEF SweepBounds, Sweeping
  <2>3. Bounds(Lower(c.earliest, BoundBy(c.now, store[key])), c.kept \cup {key})
    <3> HIDE DEF c
    <3>1. StoreOK
      BY DEF BInv
    <3>2. QED
      BY <2>1, <2>2, <3>1, KeptBounds
  <2>4. QED
    BY <1>1, <1>2, <2>1, <2>3, VisitBounds
<1>5. CASE VisitAbsent(worker, key)
  <2>1. c.at = "visit" /\ Visit(worker, c.todo \ {key}, c.kept, c.earliest)
    BY <1>5 DEF VisitAbsent, Working
  <2>2. Bounds(c.earliest, c.kept)
    BY <1>1, <2>1 DEF SweepBounds, Sweeping
  <2>3. QED
    BY <1>1, <1>2, <2>1, <2>2, VisitBounds
<1>6. QED
  BY <1>3, <1>4, <1>5

LEMMA DueBounds ==
  ASSUME BInv, NEW worker \in Workers, NEW key, VisitDue(worker, key) PROVE BInv'
<1> DEFINE c == call[worker]
           next == [at |-> "delete", approval |-> c.approval, since |-> c.since, now |-> c.now,
                    todo |-> c.todo \ {key}, kept |-> c.kept, earliest |-> c.earliest,
                    victim |-> key]
<1>1. SweepBounds(c) /\ c.at = "visit" /\ ~Leftover(key)
  BY DEF BInv, VisitDue, Working, SweepDue, Leftover
<1>2. SweepBounds(next)
  BY <1>1 DEF SweepBounds, Sweeping
<1>3. call' = [call EXCEPT ![worker] = next] /\ UNCHANGED <<store, cap, known, clock>>
  BY DEF VisitDue, history
<1> HIDE DEF next
<1>4. QED
  BY <1>2, <1>3, CallBounds

LEMMA DeleteBounds ==
  ASSUME BInv, NEW worker \in Workers, Delete(worker) PROVE BInv'
<1> DEFINE c == call[worker]
<1>1. SweepBounds(c) /\ c.at = "delete" /\ UNCHANGED clock
      /\ Visit(worker, c.todo, c.kept, c.earliest)
  BY DEF BInv, Delete, Working
<1>2. ~Leftover(c.victim) /\ Bounds(c.earliest, c.kept)
  BY <1>1 DEF SweepBounds, Sweeping
<1>3. /\ DOMAIN store' = DOMAIN store \ {c.victim}
      /\ \A nonce \in DOMAIN store' : store'[nonce] = store[nonce]
  BY DEF Delete, Restrict
<1>4. StoreOK' /\ \A nonce : Leftover(nonce) <=> Leftover(nonce)'
  BY <1>2, <1>3 DEF BInv, StoreOK, NonceExpiry, Leftover
<1>5. QED
  BY <1>1, <1>2, <1>4, VisitBounds

LEMMA StoreBounds ==
  ASSUME NoncesDistinct, BInv, NEW worker \in Workers, Store(worker) PROVE BInv'
<1> DEFINE approval == call[worker].approval
           expiry == NonceExpiry(approval)
           b == [since_sweep |-> cap[worker].since_sweep + 1,
                 full_until |-> Lower(cap[worker].full_until, expiry)]
           k == known[worker] \cup {approval.nonce}
<1>1. /\ call' = [call EXCEPT ![worker] = Idle] /\ cap' = [cap EXCEPT ![worker] = b]
      /\ known' = [known EXCEPT ![worker] = k] /\ UNCHANGED clock
  BY DEF Store, Refuse, Bounded, BInv
<1>2. /\ approval.nonce \notin DOMAIN store
      /\ store' = [nonce \in DOMAIN store \cup {approval.nonce} |->
                     IF nonce = approval.nonce THEN expiry ELSE store[nonce]]
  BY DEF Store, CanCreate
<1>3. approval \in Approvals /\ Bounds(cap[worker].full_until, known[worker])
  BY DEF BInv, SweepBounds, Store, Working
<1>4. expiry # Unreadable
  BY <1>3, ExpiryNat DEF Unreadable
<1>5. StoreOK' /\ \A nonce : Leftover(nonce) <=> Leftover(nonce)'
  BY <1>2, <1>3, <1>4 DEF BInv, StoreOK, NonceExpiry, Leftover
<1>6. Bounds(b.full_until, k)
  BY <1>2, <1>3, OwnBounds DEF Leftover
<1> HIDE DEF b, k
<1>7. QED
  BY <1>1, <1>5, <1>6, BoundStep, IdleBounds

LEMMA RebuildBounds ==
  ASSUME BInv, NEW worker \in Workers, Rebuild(worker) PROVE BInv'
<1> DEFINE b == [since_sweep |-> 0, full_until |-> NoBound]
<1>1. /\ call' = [call EXCEPT ![worker] = Idle] /\ cap' = [cap EXCEPT ![worker] = b]
      /\ known' = [known EXCEPT ![worker] = {}] /\ UNCHANGED <<store, clock>>
  BY DEF Rebuild
<1>2. StoreOK' /\ \A nonce : Leftover(nonce) <=> Leftover(nonce)'
  BY <1>1 DEF BInv, StoreOK, NonceExpiry, Leftover
<1>3. Bounds(b.full_until, {})
  BY NoneBounds
<1> HIDE DEF b
<1>4. QED
  BY <1>1, <1>2, <1>3, BoundStep, IdleBounds

LEMMA OtherBounds ==
  ASSUME BInv, NEW worker \in Workers,
         \/ \E approval \in Approvals : Evaluate(worker, approval)
         \/ GetRefused(worker) \/ GetAbsent(worker) \/ StoreMismatch(worker) \/ StoreFails(worker)
  PROVE  BInv'
<1> DEFINE c == call[worker]
           list == [at |-> "list", approval |-> c.approval, since |-> c.since, now |-> Now]
<1>1. SweepBounds(c) /\ UNCHANGED <<store, cap, known, clock>>
  BY DEF BInv, Evaluate, GetRefused, GetAbsent, StoreMismatch, StoreFails, history
<1>2. CASE GetRefused(worker) \/ StoreMismatch(worker) \/ StoreFails(worker)
  BY <1>1, <1>2, CallBounds, IdleBounds DEF GetRefused, StoreMismatch, StoreFails, Refuse
<1>3. ASSUME NEW approval \in Approvals, Evaluate(worker, approval) PROVE BInv'
  <2> DEFINE next == [at |-> "get", approval |-> approval, since |-> clock]
  <2>1. SweepBounds(next) /\ call' = [call EXCEPT ![worker] = next]
    BY <1>3 DEF Evaluate, SweepBounds, Sweeping
  <2> HIDE DEF next
  <2>2. QED
    BY <1>1, <2>1, CallBounds
<1>4. CASE GetAbsent(worker)
  <2>1. c.at = "get" /\ c.approval \in Approvals
    BY <1>1, <1>4 DEF GetAbsent, Working, SweepBounds
  <2>2. SweepBounds(list)
    BY <2>1, NowFits DEF SweepBounds, Sweeping, BInv
  <2>3. SweepBounds([c EXCEPT !.at = "store"])
    BY <2>1 DEF SweepBounds, Sweeping
  <2>4. \/ call' = [call EXCEPT ![worker] = list]
        \/ call' = [call EXCEPT ![worker] = [c EXCEPT !.at = "store"]]
        \/ call' = [call EXCEPT ![worker] = Idle]
    BY <1>4 DEF GetAbsent, Goto, Refuse, BInv
  <2> HIDE DEF list
  <2>5. QED
    BY <1>1, <2>2, <2>3, <2>4, CallBounds, IdleBounds
<1>5. QED
  BY <1>2, <1>3, <1>4

LEMMA BoundsInductive ==
  ASSUME NoncesDistinct, BInv, [Next]_vars PROVE BInv'
<1>1. ASSUME NEW worker \in Workers, ReserveNonce(worker) PROVE BInv'
  BY <1>1, SweepStepBounds, DueBounds, DeleteBounds, StoreBounds, OtherBounds DEF ReserveNonce
<1>2. CASE Tick
  <2>1. clock' \in 0 .. MaxClock /\ UNCHANGED <<store, cap, call, known>>
    BY <1>2, TimeAssumption DEF Tick, history, BInv
  <2>2. QED
    BY <2>1 DEF BInv, StoreOK, NonceExpiry, SweepBounds, Sweeping, Bounds, Leftover
<1>3. CASE UNCHANGED vars
  BY <1>3 DEF vars, history, BInv, StoreOK, NonceExpiry, SweepBounds, Sweeping, Bounds, Leftover
<1>4. QED
  BY <1>1, <1>2, <1>3, RebuildBounds DEF Next

LEMMA BoundsAlways == ASSUME NoncesDistinct PROVE Spec => []BInv
BY InitBInv, BoundsInductive, PTL DEF Spec

(* A worker refuses at the cap without a sweep only while no nonce it      *)
(* knows of is due to be swept ("until now passes it a rescan would free   *)
(* nothing this worker knows of"), whatever the other workers sweep        *)
(* meanwhile, store and lose; and for good only while all of them are such *)
(* as never expire: one that cannot be read is looked at again after the   *)
(* backoff.                                                                *)
THEOREM BoundIsHonest ==
  ASSUME NoncesDistinct, BackoffFits PROVE Spec => []BoundHonest
<1>1. ASSUME BInv, NEW worker \in Workers, Now <= cap[worker].full_until,
             NEW nonce \in known[worker] \cap DOMAIN store
      PROVE  ~SweepDue(Now, store[nonce])
  <2> SUFFICES ASSUME store[nonce] # Unreadable PROVE ~SweepDue(Now, store[nonce])
    BY DEF SweepDue
  <2>1. PICK a \in Approvals : a.nonce = nonce /\ store[nonce] = NonceExpiry(a)
    BY <1>1 DEF BInv, StoreOK
  <2>2. cap[worker].full_until \in Int /\ cap[worker].full_until <= NonceExpiry(a) + 1
    BY <1>1, <2>1 DEF BInv, Bounds, Leftover
  <2>3. Now \in Nat /\ NonceExpiry(a) \in Nat
    BY <1>1, NowFits, ExpiryNat DEF BInv
  <2>4. QED
    BY <1>1, <2>1, <2>2, <2>3 DEF SweepDue
<1>2. ASSUME BInv, NEW worker \in Workers, cap[worker].full_until = Never,
             NEW nonce \in known[worker] \cap DOMAIN store
      PROVE  store[nonce] = Never
  <2>1. Never \in Nat /\ Bounds(Never, known[worker])
    BY <1>2, TimeAssumption DEF BInv
  <2>2. CASE store[nonce] = Unreadable
    <3>1. PICK a \in Approvals : a.nonce = nonce
      BY <1>2, <2>2 DEF BInv, Leftover, Nonces
    <3>2. QED
      BY <1>2, <2>1, <2>2, <3>1 DEF Bounds, Leftover
  <2>3. CASE store[nonce] # Unreadable
    <3>1. PICK a \in Approvals : a.nonce = nonce /\ store[nonce] = NonceExpiry(a)
      BY <1>2, <2>3 DEF BInv, StoreOK
    <3>2. QED
      BY <1>2, <2>1, <2>3, <3>1 DEF Bounds, Leftover
  <2>4. QED
    BY <2>2, <2>3
<1>3. BInv => BoundHonest
  BY <1>1, <1>2 DEF BoundHonest
<1>4. QED
  BY BoundsAlways, <1>3, PTL
-----------------------------------------------------------------------------
(* How far the workers together exceed the cap.  Each worker owns at most  *)
(* Cap of the readable nonces in the store, all of them nonces it still    *)
(* counts, or will again when its sweep ends (Firm); what a VM that was    *)
(* rebuilt owned is left behind.  Whose a nonce is cannot be read off the  *)
(* store, several workers may count it: the invariant says that they can   *)
(* be shared out so.                                                       *)
Readable == {nonce \in DOMAIN store : store[nonce] # Unreadable}

Firm(c, nonces) ==
  CASE c.at = "visit" -> nonces \cap (c.todo \cup c.kept)
    [] c.at = "delete" -> nonces \cap (c.todo \cup c.kept \cup {c.victim})
    [] OTHER -> nonces

Shared(own, behind) ==
  /\ IsFiniteSet(behind) /\ Cardinality(behind) <= Cap * rebuilds
  /\ \A w \in Workers : /\ own[w] \subseteq Firm(call[w], known[w])
                        /\ IsFiniteSet(own[w]) /\ Cardinality(own[w]) <= Cap
  /\ Readable \subseteq behind \cup UNION {own[w] : w \in Workers}

(* What a worker counted is at least what it knows of.                     *)
Counts(w) ==
  /\ cap[w].since_sweep \in Nat /\ IsFiniteSet(known[w])
  /\ Cardinality(known[w]) <= cap[w].since_sweep
  /\ call[w].at = "store" => cap[w].since_sweep < Cap
  /\ Sweeping(call[w]) => IsFiniteSet(call[w].kept)

CInv ==
  /\ DOMAIN call = Workers /\ DOMAIN cap = Workers /\ DOMAIN known = Workers
  /\ rebuilds \in Nat /\ missed \in BOOLEAN
  /\ \A w \in Workers : Counts(w)
  /\ ~missed => \E own, behind : Shared(own, behind)

LEMMA InitCInv == Init => CInv
<1> SUFFICES ASSUME Init PROVE CInv
  OBVIOUS
<1> DEFINE own == [w \in Workers |-> {}]
<1>1. Readable = {} /\ rebuilds = 0
  BY DEF Init, Readable
<1>2. IsFiniteSet({}) /\ Cardinality({}) = 0
  BY FS_EmptySet
<1>3. Shared(own, {})
  BY <1>1, <1>2, CapAssumption DEF Shared
<1>4. \A w \in Workers : Counts(w)
  BY <1>2 DEF Init, Counts, Idle, Sweeping
<1>5. \E held, behind : Shared(held, behind)
  <2> HIDE DEF own
  <2>1. QED
    BY <1>3
<1>6. /\ DOMAIN call = Workers /\ DOMAIN cap = Workers /\ DOMAIN known = Workers
      /\ missed \in BOOLEAN
  BY DEF Init
<1>7. QED
  BY <1>1, <1>4, <1>5, <1>6 DEF CInv

(* A step that makes no nonce readable, and after which each worker holds  *)
(* to what it held of those that still are.                                *)
LEMMA CountStep ==
  ASSUME CInv, Readable' \subseteq Readable, UNCHANGED rebuilds,
         DOMAIN call' = Workers, DOMAIN cap' = Workers, DOMAIN known' = Workers,
         missed' \in BOOLEAN, ~missed' => ~missed,
         \A w \in Workers : Counts(w)',
         ~missed' => \A w \in Workers :
           Firm(call[w], known[w]) \cap Readable' \subseteq Firm(call'[w], known'[w])
  PROVE  CInv'
<1>1. ASSUME ~missed' PROVE \E own, behind : Shared(own, behind)'
  <2>1. PICK own, behind : Shared(own, behind)
    BY <1>1 DEF CInv
  <2> PICK still : still = [w \in Workers |-> own[w] \cap Readable']
    OBVIOUS
  <2>2. \A w \in Workers : /\ still[w] \subseteq Firm(call'[w], known'[w])
                           /\ IsFiniteSet(still[w]) /\ Cardinality(still[w]) <= Cap
    <3> SUFFICES ASSUME NEW w \in Workers
                 PROVE  /\ still[w] \subseteq Firm(call'[w], known'[w])
                        /\ IsFiniteSet(still[w]) /\ Cardinality(still[w]) <= Cap
      OBVIOUS
    <3>1. /\ own[w] \subseteq Firm(call[w], known[w])
          /\ IsFiniteSet(own[w]) /\ Cardinality(own[w]) <= Cap
      BY <2>1 DEF Shared
    <3>2. still[w] \subseteq own[w] /\ still[w] \subseteq Readable'
      OBVIOUS
    <3>3. IsFiniteSet(still[w]) /\ Cardinality(still[w]) <= Cardinality(own[w])
      BY <3>1, <3>2, FS_Subset
    <3>4. Cardinality(still[w]) \in Nat /\ Cardinality(own[w]) \in Nat /\ Cap \in Nat
      BY <3>1, <3>3, FS_CardinalityType, CapAssumption
    <3>5. QED
      BY <1>1, <3>1, <3>2, <3>3, <3>4
  <2>3. Readable' \subseteq behind \cup UNION {still[w] : w \in Workers}
    BY <2>1 DEF Shared
  <2>4. Shared(still, behind)'
    BY <2>1, <2>2, <2>3 DEF Shared
  <2>5. QED
    BY <2>4
<1>2. QED
  BY <1>1 DEF CInv

LEMMA VisitCounts ==
  ASSUME CInv, NEW worker \in Workers, NEW todo, NEW kept, NEW earliest,
         Visit(worker, todo, kept, earliest), UNCHANGED rebuilds,
         Readable' \subseteq Readable, missed' \in BOOLEAN, ~missed' => ~missed,
         IsFiniteSet(kept),
         ~missed' => Firm(call[worker], known[worker]) \cap Readable' \subseteq todo \cup kept
  PROVE  CInv'
<1> DEFINE c == call[worker]
           visit == [at |-> "visit", approval |-> c.approval, since |-> c.since, now |-> c.now,
                     todo |-> todo, kept |-> kept, earliest |-> earliest]
           store_next == [at |-> "store", approval |-> c.approval, since |-> c.since]
           n == Cardinality(kept)
           full == IF ~AtCap(n) /\ Cap - n >= LowWater THEN NoBound ELSE earliest
           book == [since_sweep |-> n, full_until |-> full]
<1>1. n \in Nat /\ Cap \in Nat
  BY FS_CardinalityType, CapAssumption
<1>2. DOMAIN call = Workers /\ DOMAIN cap = Workers /\ DOMAIN known = Workers
      /\ \A w \in Workers : Counts(w)
  BY DEF CInv
<1>3. CASE todo = {}
  <2>1. /\ cap' = [cap EXCEPT ![worker] = book]
        /\ known' = [known EXCEPT ![worker] = kept]
        /\ \/ call' = [call EXCEPT ![worker] = Idle]
           \/ n < Cap /\ call' = [call EXCEPT ![worker] = store_next]
    BY <1>1, <1>3 DEF Visit, Swept, Refuse
  <2>2. PICK d : /\ call' = [call EXCEPT ![worker] = d] /\ d.at \in {"idle", "store"}
                 /\ d.at = "store" => n < Cap
    <3>1. Idle.at = "idle" /\ store_next.at = "store"
      BY DEF Idle
    <3> HIDE DEF store_next
    <3>2. QED
      BY <2>1, <3>1
  <2>3. book.since_sweep = n
    OBVIOUS
  <2> HIDE DEF book, store_next, n
  <2>4. \A w \in Workers : Counts(w)'
    BY <1>1, <1>2, <2>1, <2>2, <2>3 DEF Counts, Sweeping, n
  <2>5. Firm(d, kept) = kept
    BY <2>2 DEF Firm
  <2>6. ~missed' => \A w \in Workers :
          Firm(call[w], known[w]) \cap Readable' \subseteq Firm(call'[w], known'[w])
    BY <1>2, <1>3, <2>1, <2>2, <2>5
  <2>7. QED
    BY <1>2, <2>1, <2>2, <2>4, <2>6, CountStep
<1>4. CASE todo # {}
  <2>1. call' = [call EXCEPT ![worker] = visit] /\ UNCHANGED <<cap, known>>
    BY <1>4 DEF Visit
  <2>2. /\ visit.at = "visit" /\ visit.kept = kept
        /\ Firm(visit, known[worker]) = known[worker] \cap (todo \cup kept)
    BY DEF Firm
  <2> HIDE DEF visit
  <2>3. \A w \in Workers : Counts(w)'
    BY <1>2, <2>1, <2>2 DEF Counts, Sweeping
  <2>4. Firm(call[worker], known[worker]) \subseteq known[worker]
    BY DEF Firm
  <2>5. ~missed' => \A w \in Workers :
          Firm(call[w], known[w]) \cap Readable' \subseteq Firm(call'[w], known'[w])
    BY <1>2, <2>1, <2>2, <2>4
  <2>6. QED
    BY <1>2, <2>1, <2>3, <2>5, CountStep
<1>5. QED
  BY <1>3, <1>4

LEMMA SweepCounts ==
  ASSUME CInv, NEW worker \in Workers, NEW key,
         List(worker) \/ VisitKept(worker, key) \/ VisitAbsent(worker, key) \/ Delete(worker)
  PROVE  CInv'
<1> DEFINE c == call[worker]
<1>1. /\ UNCHANGED rebuilds /\ Readable' \subseteq Readable
      /\ missed \in BOOLEAN /\ missed' \in BOOLEAN /\ (~missed' => ~missed)
      /\ Sweeping(c) => IsFiniteSet(c.kept)
  <2>1. missed \in BOOLEAN /\ (Sweeping(c) => IsFiniteSet(c.kept))
    BY DEF CInv, Counts
  <2>2. QED
    BY <2>1 DEF List, VisitKept, VisitAbsent, Delete, Readable, Restrict
<1>2. CASE List(worker)
  <2>1. Visit(worker, DOMAIN store, {}, Never) /\ UNCHANGED store
    BY <1>2 DEF List
  <2>2. Readable' \subseteq DOMAIN store /\ IsFiniteSet({})
    BY <2>1, FS_EmptySet DEF Readable
  <2>3. QED
    BY <1>1, <2>1, <2>2, VisitCounts
<1>3. CASE VisitKept(worker, key)
  <2>1. c.at = "visit" /\ \E e : Visit(worker, c.todo \ {key}, c.kept \cup {key}, e)
    BY <1>3 DEF VisitKept, Working
  <2>2. IsFiniteSet(c.kept \cup {key})
    BY <1>1, <2>1, FS_AddElement DEF Sweeping
  <2>3. Firm(c, known[worker]) \subseteq (c.todo \ {key}) \cup (c.kept \cup {key})
    BY <2>1 DEF Firm
  <2>4. QED
    BY <1>1, <2>1, <2>2, <2>3, VisitCounts
<1>4. CASE VisitAbsent(worker, key)
  <2>1. c.at = "visit" /\ Visit(worker, c.todo \ {key}, c.kept, c.earliest)
        /\ UNCHANGED store /\ (~missed' => key \notin DOMAIN store)
    BY <1>4 DEF VisitAbsent, Working
  <2>2. IsFiniteSet(c.kept)
    BY <1>1, <2>1 DEF Sweeping
  <2>3. ~missed' => Firm(c, known[worker]) \cap Readable' \subseteq (c.todo \ {key}) \cup c.kept
    BY <2>1 DEF Firm, Readable
  <2>4. QED
    BY <1>1, <2>1, <2>2, <2>3, VisitCounts
<1>5. CASE Delete(worker)
  <2>1. c.at = "delete" /\ Visit(worker, c.todo, c.kept, c.earliest)
        /\ DOMAIN store' = DOMAIN store \ {c.victim}
    BY <1>5 DEF Delete, Working, Restrict
  <2>2. IsFiniteSet(c.kept)
    BY <1>1, <2>1 DEF Sweeping
  <2>3. Firm(c, known[worker]) \cap Readable' \subseteq c.todo \cup c.kept
    BY <2>1 DEF Firm, Readable
  <2>4. QED
    BY <1>1, <2>1, <2>2, <2>3, VisitCounts
<1>6. QED
  BY <1>2, <1>3, <1>4, <1>5

(* A reservation becomes its worker's.                                     *)
LEMMA StoreCounts ==
  ASSUME CInv, NEW worker \in Workers, Store(worker) PROVE CInv'
<1> DEFINE nonce == call[worker].approval.nonce
           since == cap[worker].since_sweep
<1>1. /\ DOMAIN call = Workers /\ DOMAIN cap = Workers /\ DOMAIN known = Workers
      /\ rebuilds \in Nat /\ missed \in BOOLEAN /\ \A w \in Workers : Counts(w)
      /\ call[worker].at = "store" /\ Cap \in Nat
  BY CapAssumption DEF CInv, Store, Working
<1>2. /\ since \in Nat /\ since < Cap /\ IsFiniteSet(known[worker])
      /\ Cardinality(known[worker]) <= since
  BY <1>1 DEF Counts
<1>3. /\ call' = [call EXCEPT ![worker] = Idle]
      /\ known' = [known EXCEPT ![worker] = known[worker] \cup {nonce}]
      /\ UNCHANGED <<rebuilds, missed>>
      /\ DOMAIN cap' = Workers /\ cap'[worker].since_sweep = since + 1
      /\ \A w \in Workers \ {worker} : cap'[w] = cap[w]
  BY <1>1 DEF Store, Refuse
<1>4. Readable' \subseteq Readable \cup {nonce}
  BY DEF Store, Readable
<1> HIDE DEF nonce, since
<1>5. /\ IsFiniteSet(known[worker] \cup {nonce})
      /\ Cardinality(known[worker] \cup {nonce}) \in Nat
      /\ Cardinality(known[worker] \cup {nonce}) <= since + 1
      /\ Cardinality(known[worker]) \in Nat
  <2>1. /\ IsFiniteSet(known[worker] \cup {nonce})
        /\ Cardinality(known[worker] \cup {nonce}) =
             IF nonce \in known[worker] THEN Cardinality(known[worker])
             ELSE Cardinality(known[worker]) + 1
    BY <1>2, FS_AddElement
  <2>2. Cardinality(known[worker]) \in Nat /\ Cardinality(known[worker] \cup {nonce}) \in Nat
    BY <1>2, <2>1, FS_CardinalityType
  <2>3. QED
    BY <1>2, <2>1, <2>2
<1>6. \A w \in Workers : Counts(w)'
  BY <1>1, <1>2, <1>3, <1>5 DEF Counts, Sweeping, Idle
<1>7. ASSUME ~missed' PROVE \E own, behind : Shared(own, behind)'
  <2>1. PICK own, behind : Shared(own, behind)
    BY <1>3, <1>7 DEF CInv
  <2> PICK now : now = [w \in Workers |-> IF w = worker THEN own[w] \cup {nonce} ELSE own[w]]
    OBVIOUS
  <2>2. /\ own[worker] \subseteq known[worker] /\ IsFiniteSet(own[worker])
    BY <1>1, <2>1 DEF Shared, Firm
  <2>3. /\ IsFiniteSet(now[worker]) /\ Cardinality(now[worker]) <= Cap
        /\ now[worker] \subseteq known'[worker]
    <3>1. now[worker] = own[worker] \cup {nonce}
          /\ now[worker] \subseteq known[worker] \cup {nonce}
      BY <2>2
    <3>2. /\ IsFiniteSet(now[worker])
          /\ Cardinality(now[worker]) <= Cardinality(known[worker] \cup {nonce})
          /\ Cardinality(now[worker]) \in Nat
      BY <1>5, <3>1, FS_Subset, FS_CardinalityType
    <3>3. QED
      BY <1>1, <1>2, <1>3, <1>5, <3>1, <3>2
  <2>4. ASSUME NEW w \in Workers
        PROVE  /\ now[w] \subseteq Firm(call'[w], known'[w])
               /\ IsFiniteSet(now[w]) /\ Cardinality(now[w]) <= Cap
    <3>1. CASE w = worker
      <4>1. Firm(call'[w], known'[w]) = known'[worker]
        BY <1>1, <1>3, <3>1 DEF Firm, Idle
      <4>2. QED
        BY <2>3, <3>1, <4>1
    <3>2. CASE w # worker
      BY <1>1, <1>3, <2>1, <3>2 DEF Shared
    <3>3. QED
      BY <3>1, <3>2
  <2>5. Readable' \subseteq behind \cup UNION {now[w] : w \in Workers}
    BY <1>4, <2>1 DEF Shared
  <2>6. Shared(now, behind)'
    BY <1>3, <2>1, <2>4, <2>5 DEF Shared
  <2>7. QED
    BY <2>6
<1>8. QED
  BY <1>1, <1>3, <1>6, <1>7 DEF CInv

(* A VM that is rebuilt leaves what it owned behind.                       *)
LEMMA RebuildCounts ==
  ASSUME CInv, NEW worker \in Workers, Rebuild(worker) PROVE CInv'
<1>1. /\ DOMAIN call = Workers /\ DOMAIN cap = Workers /\ DOMAIN known = Workers
      /\ rebuilds \in Nat /\ missed \in BOOLEAN /\ \A w \in Workers : Counts(w)
      /\ Cap \in Nat
  BY CapAssumption DEF CInv
<1>2. /\ call' = [call EXCEPT ![worker] = Idle]
      /\ known' = [known EXCEPT ![worker] = {}]
      /\ rebuilds' = rebuilds + 1 /\ UNCHANGED <<store, missed>>
      /\ DOMAIN cap' = Workers /\ cap'[worker].since_sweep = 0
      /\ \A w \in Workers \ {worker} : cap'[w] = cap[w]
  BY <1>1 DEF Rebuild
<1>3. IsFiniteSet({}) /\ Cardinality({}) = 0
  BY FS_EmptySet
<1>4. \A w \in Workers : Counts(w)'
  BY <1>1, <1>2, <1>3 DEF Counts, Sweeping, Idle
<1>5. ASSUME ~missed' PROVE \E own, behind : Shared(own, behind)'
  <2>1. PICK own, behind : Shared(own, behind)
    BY <1>2, <1>5 DEF CInv
  <2> PICK now : now = [w \in Workers |-> IF w = worker THEN {} ELSE own[w]]
    OBVIOUS
  <2> DEFINE left == behind \cup own[worker]
  <2>2. IsFiniteSet(left) /\ Cardinality(left) <= Cap * rebuilds'
    <3>1. /\ IsFiniteSet(behind) /\ Cardinality(behind) <= Cap * rebuilds
          /\ IsFiniteSet(own[worker]) /\ Cardinality(own[worker]) <= Cap
      BY <2>1 DEF Shared
    <3>2. IsFiniteSet(behind \cap own[worker])
      BY <3>1, FS_Subset
    <3>3. /\ IsFiniteSet(left)
          /\ Cardinality(left) = Cardinality(behind) + Cardinality(own[worker])
                                   - Cardinality(behind \cap own[worker])
          /\ Cardinality(behind \cap own[worker]) \in Nat
          /\ Cardinality(behind) \in Nat /\ Cardinality(own[worker]) \in Nat
      BY <3>1, <3>2, FS_Union, FS_CardinalityType
    <3>4. Cap * rebuilds' = Cap * rebuilds + Cap /\ Cap * rebuilds \in Nat
      BY <1>1, <1>2
    <3> HIDE DEF left
    <3>5. QED
      BY <1>1, <3>1, <3>3, <3>4
  <2>3. ASSUME NEW w \in Workers
        PROVE  /\ now[w] \subseteq Firm(call'[w], known'[w])
               /\ IsFiniteSet(now[w]) /\ Cardinality(now[w]) <= Cap
    BY <1>1, <1>2, <1>3, <2>1 DEF Shared
  <2>4. Readable' \subseteq left \cup UNION {now[w] : w \in Workers}
    <3>1. Readable' = Readable
      BY <1>2 DEF Readable
    <3>2. ASSUME NEW nonce \in Readable, nonce \notin left
          PROVE  \E w \in Workers : nonce \in now[w]
      <4>1. PICK w \in Workers : nonce \in own[w]
        BY <2>1, <3>2 DEF Shared
      <4>2. w # worker
        BY <3>2, <4>1
      <4>3. QED
        BY <4>1, <4>2
    <3>3. QED
      BY <3>1, <3>2
  <2> HIDE DEF left
  <2>5. Shared(now, left)'
    BY <2>2, <2>3, <2>4 DEF Shared, left
  <2>6. QED
    BY <2>5
<1>6. QED
  BY <1>1, <1>2, <1>4, <1>5 DEF CInv

(* The rest of a call's steps leave the store and the bookkeeping alone.   *)
LEMMA CallCounts ==
  ASSUME CInv, NEW worker \in Workers, NEW c, call' = [call EXCEPT ![worker] = c],
         UNCHANGED <<store, cap, known, rebuilds, missed>>,
         c.at = "store" => cap[worker].since_sweep < Cap,
         Sweeping(c) => IsFiniteSet(c.kept),
         Firm(call[worker], known[worker]) \subseteq Firm(c, known[worker])
  PROVE  CInv'
<1>1. DOMAIN call = Workers /\ missed \in BOOLEAN /\ Readable' = Readable
      /\ DOMAIN cap = Workers /\ DOMAIN known = Workers /\ \A w \in Workers : Counts(w)
  BY DEF CInv, Readable
<1>2. \A w \in Workers : Counts(w)'
  BY <1>1 DEF Counts, Sweeping
<1>3. \A w \in Workers : Firm(call[w], known[w]) \cap Readable' \subseteq Firm(call'[w], known'[w])
  BY <1>1
<1>4. QED
  BY <1>1, <1>2, <1>3, CountStep

LEMMA IdleCounts ==
  ASSUME NEW c, NEW nonces PROVE Firm(c, nonces) \subseteq Firm(Idle, nonces)
BY DEF Firm, Idle

LEMMA OtherCounts ==
  ASSUME CInv, NEW worker \in Workers,
         \/ \E approval \in Approvals : Evaluate(worker, approval)
         \/ GetRefused(worker) \/ GetAbsent(worker) \/ StoreMismatch(worker) \/ StoreFails(worker)
         \/ \E key \in Nonces : VisitDue(worker, key)
  PROVE  CInv'
<1> DEFINE c == call[worker]
<1>1. /\ UNCHANGED <<store, cap, known, rebuilds, missed>> /\ DOMAIN call = Workers
      /\ cap[worker].since_sweep \in Nat /\ Cap \in Nat
      /\ Sweeping(c) => IsFiniteSet(c.kept)
  BY CapAssumption DEF CInv, Counts, Evaluate, GetRefused, GetAbsent, StoreMismatch,
                       StoreFails, VisitDue, history
<1>2. CASE GetRefused(worker) \/ StoreMismatch(worker) \/ StoreFails(worker)
  <2>1. call' = [call EXCEPT ![worker] = Idle] /\ ~Sweeping(Idle) /\ Idle.at # "store"
    BY <1>2 DEF GetRefused, StoreMismatch, StoreFails, Refuse, Idle, Sweeping
  <2>2. QED
    BY <1>1, <2>1, IdleCounts, CallCounts
<1>3. ASSUME NEW approval \in Approvals, Evaluate(worker, approval) PROVE CInv'
  <2> DEFINE next == [at |-> "get", approval |-> approval, since |-> clock]
  <2>1. /\ ~Sweeping(next) /\ next.at # "store" /\ call' = [call EXCEPT ![worker] = next]
        /\ Firm(next, known[worker]) = known[worker]
        /\ Firm(c, known[worker]) \subseteq known[worker]
    BY <1>3 DEF Evaluate, Sweeping, Firm
  <2> HIDE DEF next
  <2>2. QED
    BY <1>1, <2>1, CallCounts
<1>4. CASE GetAbsent(worker)
  <2> DEFINE list == [at |-> "list", approval |-> c.approval, since |-> c.since, now |-> Now]
             goOn == [c EXCEPT !.at = "store"]
  <2>1. c.at = "get" /\ Firm(c, known[worker]) = known[worker]
    BY <1>4 DEF GetAbsent, Working, Firm
  <2>2. \/ call' = [call EXCEPT ![worker] = list]
        \/ call' = [call EXCEPT ![worker] = goOn] /\ cap[worker].since_sweep < Cap
        \/ call' = [call EXCEPT ![worker] = Idle]
    BY <1>1, <1>4 DEF GetAbsent, Goto, Refuse, AtCap
  <2>3. PICK d : /\ call' = [call EXCEPT ![worker] = d]
                 /\ d = list \/ (d = goOn /\ cap[worker].since_sweep < Cap) \/ d = Idle
    BY <2>2
  <2>4. /\ list.at = "list" /\ Idle.at = "idle" /\ ~Sweeping(goOn)
        /\ Firm(goOn, known[worker]) = known[worker]
    BY <2>1 DEF Idle, Sweeping, Firm
  <2> HIDE DEF list, goOn
  <2>5. ~Sweeping(d) /\ Firm(d, known[worker]) = known[worker]
        /\ (d.at = "store" => cap[worker].since_sweep < Cap)
    BY <2>3, <2>4 DEF Sweeping, Firm
  <2>6. QED
    BY <1>1, <2>1, <2>3, <2>5, CallCounts
<1>5. ASSUME NEW key \in Nonces, VisitDue(worker, key) PROVE CInv'
  <2> DEFINE next == [at |-> "delete", approval |-> c.approval, since |-> c.since,
                      now |-> c.now, todo |-> c.todo \ {key}, kept |-> c.kept,
                      earliest |-> c.earliest, victim |-> key]
  <2>1. c.at = "visit" /\ call' = [call EXCEPT ![worker] = next]
    BY <1>5 DEF VisitDue, Working
  <2>2. IsFiniteSet(next.kept) /\ next.at # "store"
    BY <1>1, <2>1 DEF Sweeping
  <2>3. Firm(c, known[worker]) \subseteq Firm(next, known[worker])
    BY <2>1 DEF Firm
  <2> HIDE DEF next
  <2>4. QED
    BY <1>1, <2>1, <2>2, <2>3, CallCounts
<1>6. QED
  BY <1>2, <1>3, <1>4, <1>5

LEMMA CountsInductive == ASSUME CInv, [Next]_vars PROVE CInv'
<1>1. ASSUME NEW worker \in Workers, ReserveNonce(worker) PROVE CInv'
  BY <1>1, SweepCounts, StoreCounts, OtherCounts DEF ReserveNonce
<1>2. CASE Tick \/ UNCHANGED vars
  <2>1. UNCHANGED <<store, cap, call, rebuilds, known, missed>>
    BY <1>2 DEF Tick, vars, history
  <2>2. Readable' = Readable
    BY <2>1 DEF Readable
  <2>3. \A w \in Workers : Counts(w)'
    BY <2>1 DEF CInv, Counts, Sweeping
  <2>4. QED
    BY <2>1, <2>2, <2>3, CountStep DEF CInv
<1>3. QED
  BY <1>1, <1>2, RebuildCounts DEF Next

LEMMA CountsAlways == Spec => []CInv
BY InitCInv, CountsInductive, PTL DEF Spec

(* Sets of at most m each, one for each member of W.                       *)
LEMMA UnionBound ==
  ASSUME NEW W, IsFiniteSet(W), NEW m \in Nat, NEW own,
         \A w \in W : IsFiniteSet(own[w]) /\ Cardinality(own[w]) <= m
  PROVE  LET all == UNION {own[w] : w \in W}
         IN  IsFiniteSet(all) /\ Cardinality(all) <= m * Cardinality(W)
<1> DEFINE Of(R) == UNION {own[w] : w \in R}
           Fits(R) == IsFiniteSet(Of(R)) /\ Cardinality(Of(R)) <= m * Cardinality(R)
           T == {n \in Nat : \A R \in SUBSET W : Cardinality(R) = n => Fits(R)}
<1>1. 0 \in T
  <2>1. ASSUME NEW R \in SUBSET W, Cardinality(R) = 0 PROVE Fits(R)
    <3>1. R = {}
      BY <2>1, FS_Subset, FS_EmptySet
    <3>2. Of({}) = {}
      OBVIOUS
    <3>3. QED
      BY <3>1, <3>2, FS_EmptySet
  <2>2. QED
    BY <2>1
<1>2. ASSUME NEW n \in T PROVE n + 1 \in T
  <2>1. ASSUME NEW R \in SUBSET W, Cardinality(R) = n + 1 PROVE Fits(R)
    <3>0. IsFiniteSet(R) /\ n \in Nat
      BY FS_Subset
    <3>1. R # {}
      BY <2>1, <3>0, FS_EmptySet
    <3>2. PICK w : w \in R
      BY <3>1
    <3> DEFINE rest == R \ {w}
    <3>3. IsFiniteSet(rest) /\ Cardinality(rest) = n
      <4> HIDE DEF Of, Fits, T
      <4>1. IsFiniteSet(rest) /\ Cardinality(rest) = Cardinality(R) - 1
        BY <3>0, <3>2, FS_RemoveElement
      <4>2. QED
        BY <2>1, <3>0, <4>1
    <3>4. IsFiniteSet(Of(rest)) /\ Cardinality(Of(rest)) <= m * n
      BY <3>3
    <3>5. IsFiniteSet(own[w]) /\ Cardinality(own[w]) <= m
      BY <3>2
    <3>6. Of(R) = Of(rest) \cup own[w]
      BY <3>2
    <3> HIDE DEF Of, T, rest
    <3>7. /\ IsFiniteSet(Of(R))
          /\ Cardinality(Of(R)) = Cardinality(Of(rest)) + Cardinality(own[w])
                                    - Cardinality(Of(rest) \cap own[w])
      BY <3>4, <3>5, <3>6, FS_Union
    <3>8. Cardinality(Of(rest)) \in Nat /\ Cardinality(own[w]) \in Nat
          /\ Cardinality(Of(rest) \cap own[w]) \in Nat
      BY <3>4, <3>5, FS_Subset, FS_CardinalityType
    <3>9. m * (n + 1) = m * n + m /\ m * n \in Nat
      BY <3>0
    <3>10. QED
      BY <2>1, <3>4, <3>5, <3>7, <3>8, <3>9
  <2>2. n + 1 \in Nat
    BY <1>2
  <2>3. QED
    BY <2>1, <2>2
<1>3. T = Nat
  <2> HIDE DEF T
  <2>1. T \subseteq Nat
    BY DEF T
  <2>2. QED
    BY <1>1, <1>2, <2>1, NatSetInduction
<1>4. Cardinality(W) \in T
  BY <1>3, FS_CardinalityType
<1>5. Fits(W)
  BY <1>4
<1>6. QED
  BY <1>5

(* The store exceeds the cap by at most the cap per worker, each VM that   *)
(* was rebuilt counted too ("the store can exceed the cap by up to the cap *)
(* per worker"), as long as no listed key's read was missed.               *)
THEOREM StoreIsBounded ==
  ASSUME IsFiniteSet(Workers) PROVE Spec => []StoreBounded
<1>1. CInv => StoreBounded
  <2> SUFFICES ASSUME CInv, ~missed
               PROVE  Cardinality(Readable) <= Cap * (Cardinality(Workers) + rebuilds)
    BY DEF StoreBounded, Readable
  <2>1. PICK own, behind : Shared(own, behind)
    BY DEF CInv
  <2> DEFINE all == UNION {own[w] : w \in Workers}
             both == behind \cup all
  <2>2. Cap \in Nat /\ rebuilds \in Nat /\ Cardinality(Workers) \in Nat
    BY CapAssumption, FS_CardinalityType DEF CInv
  <2>3. IsFiniteSet(behind) /\ Cardinality(behind) <= Cap * rebuilds
        /\ \A w \in Workers : IsFiniteSet(own[w]) /\ Cardinality(own[w]) <= Cap
    BY <2>1 DEF Shared
  <2>4. IsFiniteSet(all) /\ Cardinality(all) <= Cap * Cardinality(Workers)
    BY <2>2, <2>3, UnionBound
  <2>5. Readable \subseteq both
    BY <2>1 DEF Shared
  <2> HIDE DEF all
  <2>6. /\ IsFiniteSet(both)
        /\ Cardinality(both) = Cardinality(behind) + Cardinality(all)
                                 - Cardinality(behind \cap all)
        /\ Cardinality(behind \cap all) \in Nat
        /\ Cardinality(behind) \in Nat /\ Cardinality(all) \in Nat
    BY <2>3, <2>4, FS_Union, FS_Subset, FS_CardinalityType
  <2> HIDE DEF both
  <2>7. Cardinality(Readable) <= Cardinality(both) /\ Cardinality(Readable) \in Nat
        /\ Cardinality(both) \in Nat
    BY <2>5, <2>6, FS_Subset, FS_CardinalityType
  <2>8. Cap * (Cardinality(Workers) + rebuilds) = Cap * Cardinality(Workers) + Cap * rebuilds
        /\ Cap * Cardinality(Workers) \in Nat /\ Cap * rebuilds \in Nat
    BY <2>2
  <2>9. QED
    BY <2>3, <2>4, <2>6, <2>7, <2>8
<1>2. QED
  BY CountsAlways, <1>1, PTL
=============================================================================

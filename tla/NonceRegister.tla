---------------------------- MODULE NonceRegister ----------------------------
(***************************************************************************)
(* What the nonce store of approval-execution-binding promises its filter, *)
(* whatever the workers, sweeps and faults behind it: a register of nonces *)
(* in which a reservation is one atomic step, granted only where there is  *)
(* none, and in which a nonce is forgotten only once no approval that bears*)
(* it can be presented any more ("Only a P4-rejected approval is safe to   *)
(* forget").  NonceStore implements it while no two approvals share a nonce.*)
(***************************************************************************)
EXTENDS Integers

CONSTANTS Approvals,   \* approvals presented; each bears a nonce
          Leftover,    \* nonces an earlier build may have left behind
          Grace        \* a natural: how long past its deadline an approval
                       \* may arrive

VARIABLES reserved,    \* the nonces in the register
          uses,        \* approval -> how often it was reserved and forwarded
          deadline,    \* approval -> the last instant it passes P4
          clock        \* the gateway's clock

registerVars == <<reserved, uses, deadline, clock>>

Init ==
  /\ reserved \in SUBSET Leftover
  /\ uses = [approval \in Approvals |-> 0]
  /\ deadline \in [Approvals -> Nat]
  /\ clock = 0

Gone(approval) == clock > deadline[approval] + Grace

(* A reservation is granted, and its call forwarded.                       *)
Reserve(approval) ==
  /\ approval.nonce \notin reserved
  /\ ~Gone(approval)
  /\ reserved' = reserved \cup {approval.nonce}
  /\ uses' = [uses EXCEPT ![approval] = @ + 1]
  /\ UNCHANGED <<deadline, clock>>

Forget(nonce) ==
  /\ nonce \in reserved
  /\ \A approval \in DOMAIN uses : approval.nonce = nonce => Gone(approval)
  /\ reserved' = reserved \ {nonce}
  /\ UNCHANGED <<uses, deadline, clock>>

Tick ==
  /\ clock' = clock + 1
  /\ UNCHANGED <<reserved, uses, deadline>>

Next ==
  \/ \E approval \in Approvals : Reserve(approval)
  \/ \E nonce \in reserved : Forget(nonce)
  \/ Tick

Spec == Init /\ [][Next]_registerVars

-----------------------------------------------------------------------------
(* No approval is forwarded twice, and of two that share a nonce only one  *)
(* ever is (lib.rs:1400, "the second use is a P6 denial").                 *)
SingleUse ==
  \A approval, other \in Approvals :
    /\ uses[approval] <= 1
    /\ approval # other /\ approval.nonce = other.nonce =>
         uses[approval] = 0 \/ uses[other] = 0
=============================================================================

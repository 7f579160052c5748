---------------------------- MODULE MCNonceStore ----------------------------
(* Instances of NonceStore for TLC: which approvals share a nonce, and when*)
(* each can last be used.                                                  *)
EXTENDS NonceStore, TLC

CONSTANTS n1, n2, n3

Approval(n, at) == [nonce |-> n, deadline |-> at]

(* A nonce each; the deadlines fall on and between whole seconds, and one  *)
(* is too far to be represented.                                           *)
OneNonceEach == {Approval(n1, 1), Approval(n2, 3), Approval(n3, 99)}

(* Two approvals by issuers that picked the same nonce.                    *)
SharedNonce == {Approval(n1, 1), Approval(n1, 9), Approval(n2, 1)}

WorkerSymmetry == Permutations(Workers)
=============================================================================

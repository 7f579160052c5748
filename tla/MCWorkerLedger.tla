--------------------------- MODULE MCWorkerLedger ---------------------------
(* Instances of WorkerLedger for TLC.                                      *)
EXTENDS WorkerLedger, TLC

ScopeSymmetry == Permutations(Scopes)
=============================================================================

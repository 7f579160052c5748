---------------------------- MODULE MCNodeLedger ----------------------------
(* Instances of NodeLedger for TLC.                                        *)
EXTENDS NodeLedger, TLC

CONSTANTS u, v

WorkerSymmetry == Permutations(Workers)
=============================================================================

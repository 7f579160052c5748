------------------------------ MODULE MCNodeSlots ------------------------------
EXTENDS NodeSlots, TLC

CONSTANTS w1, w2, a, b

Symmetry == Permutations({w1, w2}) \cup Permutations({a, b})
=============================================================================

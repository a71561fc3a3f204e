---------------------------- MODULE MCQueryCache ----------------------------
EXTENDS QueryCache, TLC
CONSTANTS r1, r2, r3
Symmetry == Permutations(Requests)
=============================================================================

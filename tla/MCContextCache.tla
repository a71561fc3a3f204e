--------------------------- MODULE MCContextCache ---------------------------
(* Instance of ContextCache for TLC.                                        *)
EXTENDS ContextCache, TLC
CONSTANTS t1, t2, c1, c2, q1
Symmetry == Permutations(Turns) \cup Permutations(Connections)
=============================================================================

------------------------ MODULE MCConnectorRegistry ------------------------
(* The connectors for TLC: two requests, two connections, room for one.     *)
EXTENDS ConnectorRegistry, TLC

CONSTANTS a1, a2, c1, c2, o1, o2, o3, o4

Symmetry == Permutations(Objs) \cup Permutations(Tasks)
=============================================================================

-------------------------- MODULE MCAdministration --------------------------
(* Instance of Administration for TLC.                                      *)
EXTENDS Administration, TLC

\* One role or activation at a time.
MCChanges == [{"admin"} -> BOOLEAN] \cup [{"active"} -> BOOLEAN]
Symmetry == Permutations(Users) \cup Permutations(Clients) \cup Permutations(Requests)
=============================================================================

--------------------------- MODULE MC_Permissions ---------------------------
(* Permissions with small sets.                                            *)
EXTENDS Permissions, TLC

Symmetry == Permutations(Request) \cup Permutations(Role) \cup Permutations(Perm)
=============================================================================

---------------------------- MODULE MC_Sandboxes ----------------------------
(* Sandboxes with small sets: fewer slots than visitors.                   *)
EXTENDS Sandboxes, TLC

Symmetry == Permutations(Sandbox) \cup Permutations(Request)
=============================================================================

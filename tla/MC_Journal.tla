----------------------------- MODULE MC_Journal -----------------------------
(* Journal with small sets.                                                *)
EXTENDS Journal, TLC

Symmetry == Permutations(Request)
=============================================================================

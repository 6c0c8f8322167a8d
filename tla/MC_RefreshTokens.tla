-------------------------- MODULE MC_RefreshTokens --------------------------
(* RefreshTokens with small sets.  Both families belong to one user, so    *)
(* that a cascade reaches beyond the family whose token was replayed.      *)
EXTENDS RefreshTokens, TLC

CONSTANTS u1

OneOwner == [f \in Family |-> u1]

Symmetry == Permutations(Token) \cup Permutations(Request) \cup Permutations(Family)
=============================================================================

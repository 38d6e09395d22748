---------------------------- MODULE MCUserTokens ----------------------------
(* Small instances of UserTokens for TLC, and its refinement mapping.       *)
EXTENDS UserTokensRefinement, TLC

Symmetry == Permutations(Tasks) \cup Permutations(Users)
=============================================================================

-------------------------- MODULE MCIdentityTable --------------------------
(* Instances of IdentityTable for TLC.                                     *)
EXTENDS IdentityTable, TLC

Symmetry == Permutations(OpenIds) \cup Permutations(Requests)
=============================================================================

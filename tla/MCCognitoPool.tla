--------------------------- MODULE MCCognitoPool ---------------------------
(* Instances of CognitoPool for TLC.                                       *)
EXTENDS CognitoPool, TLC

Symmetry == Permutations(Routers)
=============================================================================

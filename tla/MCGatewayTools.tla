--------------------------- MODULE MCGatewayTools ---------------------------
(* A small instance of GatewayTools for TLC.                                *)
EXTENDS GatewayTools, TLC

Symmetry == Permutations(Turns) \cup Permutations(Users)
=============================================================================

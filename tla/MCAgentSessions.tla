-------------------------- MODULE MCAgentSessions --------------------------
(* A small instance of AgentSessions: an actor with an earlier and a later  *)
(* token.                                                                   *)
EXTENDS AgentSessionsRefinement, TLC

CONSTANTS alice, early, late

TwoTokens   == {early, late}
OneOwner    == [t \in TwoTokens |-> alice]
TwoExpiries == [t \in TwoTokens |-> IF t = early THEN 2 ELSE 3]

Symmetry == Permutations(Calls)
=============================================================================

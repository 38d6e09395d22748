---------------------- MODULE AgentSessionsRefinement ----------------------
(* AgentSessions implements AgentTurn: what a call is to its client.        *)
EXTENDS AgentSessions

\* A run acts with the token that its session pins.
TurnOf(c) ==
  [phase  |-> IF call[c].pc = "idle" THEN "idle"
              ELSE IF call[c].emitted THEN "speaking" ELSE "quiet",
   token  |-> call[c].token,
   acting |-> IF call[c].pc = "run" THEN token[call[c].session] ELSE NoToken,
   second |-> call[c].retry \/ call[c].pc = "invalidate"]

turns == [c \in Calls |-> TurnOf(c)]

Turns == INSTANCE AgentTurn WITH Threads <- Calls, turn <- turns

\* To its client each call is one turn, whatever session it is handed and
\* whatever other calls do to that session: it acts with the caller's token
\* throughout, is repeated once at the most, and not after its first delta
\* (agent_core.py:121-213).
RunsTurns == Turns!Spec
=============================================================================

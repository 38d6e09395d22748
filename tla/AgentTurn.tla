----------------------------- MODULE AgentTurn -----------------------------
(***************************************************************************)
(* What the agent promises of each message, without sessions, connections, *)
(* locks or clocks: the turn acts with the token the message came with and *)
(* no other, it may be started anew once, and never after the client has   *)
(* seen some of it.                                                        *)
(*                                                                         *)
(* Implemented by AgentSessions (AgentSessionsRefinement).                 *)
(***************************************************************************)
CONSTANTS
  Threads,
  Tokens,
  NoToken

VARIABLE turn

(***************************************************************************)
(* quiet: the client has seen nothing; speaking: it has seen a delta.      *)
(* acting is the token the turn uses the tools with, second its retry.     *)
(***************************************************************************)
Turn == [phase : {"idle", "quiet", "speaking"},
         token : Tokens \cup {NoToken},
         acting : Tokens \cup {NoToken},
         second : BOOLEAN]

NoTurn == [phase |-> "idle", token |-> NoToken, acting |-> NoToken,
           second |-> FALSE]

Init == turn = [c \in Threads |-> NoTurn]

Become(c, t) == turn' = [turn EXCEPT ![c] = t]

Begin(c, k) ==
  /\ turn[c].phase = "idle"
  /\ Become(c, [phase |-> "quiet", token |-> k, acting |-> NoToken,
               second |-> FALSE])

Act(c) ==
  /\ turn[c].phase = "quiet"
  /\ Become(c, [turn[c] EXCEPT !.acting = turn[c].token])

Speak(c) ==
  /\ turn[c].acting # NoToken
  /\ Become(c, [turn[c] EXCEPT !.phase = "speaking"])

\* The attempt has failed and another one will be made.
Again(c) ==
  /\ turn[c].phase = "quiet" /\ ~turn[c].second
  /\ Become(c, [phase |-> "quiet", token |-> turn[c].token,
               acting |-> NoToken, second |-> TRUE])

End(c) ==
  /\ turn[c].phase # "idle"
  /\ Become(c, NoTurn)

Next ==
  \E c \in Threads :
    \/ \E k \in Tokens : Begin(c, k)
    \/ Act(c) \/ Speak(c) \/ Again(c) \/ End(c)

Spec == Init /\ [][Next]_turn
=============================================================================

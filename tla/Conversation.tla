---------------------------- MODULE Conversation ----------------------------
(***************************************************************************)
(* What the chat page and the agent make of each message, whatever sockets *)
(* come and go: it is given to the agent once at the most, worked on once  *)
(* at the most, and its reply is open from its sending until it ends or is *)
(* cut off.  Text appears in an open reply only, and only of a turn the    *)
(* agent has taken; a reply does not end while the turn is at work.  What  *)
(* is on its way when the reply is cut off may be taken after that.        *)
(*                                                                         *)
(* Implemented by WebChat (WebChatRefinement).                             *)
(***************************************************************************)
CONSTANTS
  Messages,
  Lossy   \* whether a socket may be lost

VARIABLES
  state,   \* what has become of each message on the page
  shown,   \* the bubbles that show something of its reply
  work     \* what has become of it at the agent

conversation == <<state, shown, work>>

Init ==
  /\ state = [m \in Messages |-> "blank"]
  /\ shown = [m \in Messages |-> {}]
  /\ work = [m \in Messages |-> "idle"]

Become(m, s) == state' = [state EXCEPT ![m] = s]

\* The page has to reconnect before it can send the message.
Ask(m) ==
  /\ state[m] = "blank"
  /\ Become(m, "asking")
  /\ UNCHANGED <<shown, work>>

Send(m) ==
  /\ state[m] \in {"blank", "asking"}
  /\ Become(m, "open")
  /\ UNCHANGED <<shown, work>>

GiveUp(m) ==
  /\ state[m] = "asking"
  /\ Become(m, "given up")
  /\ UNCHANGED <<shown, work>>

Take(m) ==
  /\ state[m] \in {"open", "cut"} /\ work[m] = "idle"
  /\ work' = [work EXCEPT ![m] = "busy"]
  /\ UNCHANGED <<state, shown>>

Show(m) ==
  /\ state[m] = "open" /\ work[m] # "idle"
  /\ shown[m] \subseteq shown'[m]
  /\ shown' = [shown EXCEPT ![m] = shown'[m]]
  /\ UNCHANGED <<state, work>>

\* The turn has come to its end or has failed.
Finish(m) ==
  /\ work[m] = "busy"
  /\ work' = [work EXCEPT ![m] = "over"]
  /\ UNCHANGED <<state, shown>>

\* The agent's turn is over, or the agent has refused the message.
End(m) ==
  /\ state[m] = "open" /\ work[m] # "busy"
  /\ Become(m, "ended")
  /\ UNCHANGED <<shown, work>>

\* The socket that these messages were sent on is lost.
Cut(ms) ==
  /\ Lossy /\ \A m \in ms : state[m] = "open"
  /\ state' = [m \in Messages |-> IF m \in ms THEN "cut" ELSE state[m]]
  /\ UNCHANGED <<shown, work>>

Next ==
  \/ \E m \in Messages :
       \/ Ask(m) \/ Send(m) \/ GiveUp(m)
       \/ Take(m) \/ Show(m) \/ Finish(m) \/ End(m)
  \/ \E ms \in SUBSET Messages : Cut(ms)

Spec == Init /\ [][Next]_conversation
=============================================================================

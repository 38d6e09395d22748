------------------------- MODULE WebChatRefinement -------------------------
(***************************************************************************)
(* The chat page and the agent's handler implement Conversation.  A        *)
(* message is open from the moment it is on the wire until the page has    *)
(* seen an error or final frame of it or its socket is lost; its bubbles   *)
(* are those that show a delta of it.                                      *)
(***************************************************************************)
EXTENDS WebChat

Lossy == Faults \cap {"drop", "closing"} # {}

State(m) ==
  LET on == turn[m].on IN
  IF on = NoSocket
    THEN IF m > sent THEN "blank"
         ELSE IF chain[m] = "failed" THEN "given up" ELSE "asking"
    ELSE IF turn[m].ended THEN "ended"
         ELSE IF sock[on] = "open" THEN "open" ELSE "cut"

Shown(m) == {b \in DOMAIN bubbles : m \in bubbles[b]}

Work(m) ==
  IF job[m].pc = "none" THEN "idle"
  ELSE IF job[m].failed \/ job[m].pc = "done" THEN "over" ELSE "busy"

state == [m \in Messages |-> State(m)]
shown == [m \in Messages |-> Shown(m)]
work  == [m \in Messages |-> Work(m)]

Talk == INSTANCE Conversation

\* No message is given to the agent or worked on twice, and none whose
\* reconnect failed at all; nothing of a reply is shown after its error or
\* final frame, nor after its socket was lost though the turn goes on, nor of a
\* message the agent refused; no reply ends while its turn is at work.  This
\* holds of late close events too, where replies may share a bubble
\* (app.js:189-230, 246-256; server.py:90-148).
ConversationKept == Talk!Spec
=============================================================================

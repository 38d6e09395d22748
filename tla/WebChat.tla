------------------------------ MODULE WebChat ------------------------------
(***************************************************************************)
(* The chat page (web-ui/app.js) against the agent's WebSocket handler     *)
(* (handle_ws of agent/server.py).  The page is a set of callbacks over    *)
(* the shared "state": the promise chain of each send, and the socket      *)
(* events, which interleave freely.  The handler of a socket takes one     *)
(* message at a time and reads the next only after the turn's "final".     *)
(* The turns run in the threads of one executor, which takes them in the   *)
(* order of their submission, and go on when their socket is lost.         *)
(*                                                                         *)
(* Message m is the m-th one submitted; its promise chain opens socket m   *)
(* if it needs one.  The boot sequence is chain 0.  A token is represented *)
(* by its expiry; web_api answers a session call with a fresh access token *)
(* in one step, and refuses it (401) when the id token has expired.        *)
(* Rendering and status texts are left out.                                *)
(***************************************************************************)
EXTENDS Integers, Sequences, FiniteSets

CONSTANTS
  Faults,       \* a subset of FaultKind
  Life,         \* the life of the Cognito tokens
  Skew,         \* how long before its expiry a stored token is not used
  Workers,      \* the threads of the executor
  MaxMessages,  \* bound on the messages submitted
  MaxDeltas,    \* bound on the deltas of a turn
  MaxTime       \* bound on the clock

\* api: a call of web_api or the Lark login fails; connect: a socket does not
\* open; drop: an open socket is closed; closing: the page may run between the
\* close frame and the close event; agent: stream_chat raises.
FaultKind == {"api", "connect", "drop", "closing", "agent"}

ASSUME WebChatAssumption ==
  /\ Faults \subseteq FaultKind
  /\ Life \in Nat \ {0} /\ Skew \in Nat
  /\ Workers \in Nat \ {0}
  /\ MaxMessages \in Nat /\ MaxDeltas \in Nat /\ MaxTime \in Nat

Messages == 1..MaxMessages
Chains   == 0..MaxMessages
NoSocket == -1
NoBubble == 0
NoTurn   == 0

VARIABLES
  now,        \* the clock
  stored,     \* sessionStorage: the expiry of the id token kept, or 0
  idExp,      \* state.idToken
  accessExp,  \* state.accessToken
  ws,         \* state.ws
  enabled,    \* the composer is enabled
  bot,        \* state.currentBot
  bubbles,    \* the turns whose deltas each reply bubble on the page shows
  sent,       \* how many messages have been submitted
  chain,      \* where each promise chain is
  turn,       \* history: what the page has seen of each message's turn
  sock,       \* the readyState of each socket
  up,         \* per socket, the messages on their way to the agent
  down,       \* per socket, the frames on their way to the page
  srv,        \* the turn that the handler of each socket forwards
  pool,       \* the turns submitted to the executor that wait for a thread
  job,        \* the turn of each message in its thread
  late        \* history: a close event has come when the page had moved on to
              \* another socket or another message

tokens == <<stored, idExp, accessExp>>
page   == <<tokens, ws, enabled, bot, bubbles, sent, chain, turn>>
net    == <<sock, up, down>>
agent  == <<srv, pool, job>>
vars   == <<now, page, net, agent, late>>

\* An error frame that refuses the token starts no turn: it is told apart.
Frame == [kind : {"delta", "final", "error", "refused"}, turn : Messages]

NoJob == [pc |-> "none", deltas |-> 0, failed |-> FALSE]

TypeOK ==
  /\ now \in Nat /\ stored \in Nat /\ idExp \in Nat /\ accessExp \in Nat
  /\ ws \in Chains \cup {NoSocket}
  /\ enabled \in BOOLEAN
  /\ bubbles \in Seq(SUBSET Messages)
  /\ bot \in 0..Len(bubbles)
  /\ sent \in 0..MaxMessages
  /\ chain \in [Chains -> {"none", "login", "session", "refresh", "connect",
                           "done", "failed"}]
  /\ turn \in [Messages -> [on : Chains \cup {NoSocket}, ended : BOOLEAN,
                          failed : BOOLEAN]]
  /\ sock \in [Chains -> {"none", "connecting", "open", "closing", "closed"}]
  /\ up \in [Chains -> Seq([turn : Messages, exp : Nat])]
  /\ down \in [Chains -> Seq(Frame)]
  /\ srv \in [Chains -> Messages \cup {NoTurn}]
  /\ pool \in Seq(Messages)
  /\ job \in [Messages -> [pc : {"none", "queued", "running", "done"},
                          deltas : 0..MaxDeltas, failed : BOOLEAN]]
  /\ late \in BOOLEAN
  /\ ws # NoSocket => sock[ws] # "none"

\* The page has just been loaded, with or without a token kept by an earlier
\* load; boot has run ensureAuth up to its first promise.
Init ==
  /\ now = 0
  /\ stored \in 0..Life
  /\ idExp = stored
  /\ chain = [j \in Chains |->
       IF j # 0 THEN "none"
       ELSE IF stored > now + Skew THEN "session" ELSE "login"]
  /\ accessExp = 0 /\ ws = NoSocket /\ enabled = FALSE
  /\ bot = NoBubble /\ bubbles = << >> /\ sent = 0
  /\ turn = [m \in Messages |->
       [on |-> NoSocket, ended |-> FALSE, failed |-> FALSE]]
  /\ sock = [j \in Chains |-> "none"]
  /\ up = [j \in Chains |-> << >>] /\ down = [j \in Chains |-> << >>]
  /\ srv = [j \in Chains |-> NoTurn]
  /\ pool = << >> /\ job = [m \in Messages |-> NoJob]
  /\ late = FALSE

-----------------------------------------------------------------------------
(* Sending, and the promise chain of a send                                *)

\* Mutant of Deliver: the reply bubble of an earlier turn is kept.
DeliverInto(m, s) ==
  /\ up' = [up EXCEPT ![s] = Append(@, [turn |-> m, exp |-> accessExp])]
  /\ turn' = [turn EXCEPT ![m].on = s]
  /\ UNCHANGED bot

\* state.ws.send, with the access token the page has.
Deliver(m, s) ==
  /\ bot' = NoBubble
  /\ up' = [up EXCEPT ![s] = Append(@, [turn |-> m, exp |-> accessExp])]
  /\ turn' = [turn EXCEPT ![m].on = s]

\* Mutant of Composer: a send leaves the composer enabled.
ComposerAlways(on) == enabled' = (on \/ enabled)

Composer(on) == enabled' = on

\* The user submits a message: on the open socket, or after reconnecting.
Submit ==
  LET m == sent + 1 IN
    /\ enabled /\ sent < MaxMessages
    /\ sent' = m
    /\ Composer(FALSE)
    /\ IF ws # NoSocket /\ sock[ws] = "open"
         THEN /\ Deliver(m, ws)
              /\ chain' = [chain EXCEPT ![m] = "done"]
         ELSE /\ chain' = [chain EXCEPT ![m] = "refresh"]
              /\ UNCHANGED <<bot, up, turn>>
    /\ UNCHANGED <<now, tokens, ws, bubbles, sock, down, agent, late>>

\* Mutant of Caught: the failure of a reconnect is only shown.
CaughtShown(j) ==
  /\ chain' = [chain EXCEPT ![j] = "failed"]
  /\ UNCHANGED enabled

\* The catch of the chain: a send gives the composer back, boot does not.
Caught(j) ==
  /\ chain' = [chain EXCEPT ![j] = "failed"]
  /\ IF j = 0 THEN UNCHANGED enabled ELSE Composer(TRUE)

\* connectWs is called with the fresh URL.
StartSocket(j) ==
  /\ accessExp' = now + Life
  /\ sock' = [sock EXCEPT ![j] = "connecting"]
  /\ chain' = [chain EXCEPT ![j] = "connect"]

\* authenticate: the Lark code is exchanged for new tokens, which are kept.
Login(j) ==
  /\ chain[j] = "login"
  /\ \/ /\ idExp' = now + Life /\ accessExp' = now + Life
        /\ stored' = now + Life
        /\ chain' = [chain EXCEPT ![j] = "session"]
        /\ UNCHANGED enabled
     \/ /\ "api" \in Faults
        /\ Caught(j)
        /\ UNCHANGED <<idExp, accessExp, stored>>
  /\ UNCHANGED <<now, ws, bot, bubbles, sent, turn, net, agent, late>>

\* createSession: any refusal ends the chain.
CreateSession(j) ==
  /\ chain[j] = "session"
  /\ \/ /\ now < idExp
        /\ StartSocket(j)
        /\ UNCHANGED enabled
     \/ /\ now >= idExp \/ "api" \in Faults
        /\ Caught(j)
        /\ UNCHANGED <<accessExp, sock>>
  /\ UNCHANGED <<now, stored, idExp, ws, bot, bubbles, sent, turn, up, down,
                 agent, late>>

\* refreshSession: an expired id token is dropped and the user logged in again.
RefreshSession(j) ==
  /\ chain[j] = "refresh"
  /\ \/ /\ now < idExp
        /\ StartSocket(j)
        /\ UNCHANGED <<enabled, stored>>
     \/ /\ now >= idExp
        /\ stored' = 0
        /\ chain' = [chain EXCEPT ![j] = "login"]
        /\ UNCHANGED <<enabled, accessExp, sock>>
     \/ /\ "api" \in Faults
        /\ Caught(j)
        /\ UNCHANGED <<accessExp, sock, stored>>
  /\ UNCHANGED <<now, idExp, ws, bot, bubbles, sent, turn, up, down,
                 agent, late>>

-----------------------------------------------------------------------------
(* Socket events                                                           *)

\* onopen; the rest of the chain runs before any other event.
OnOpen(j) ==
  /\ sock[j] = "connecting"
  /\ sock' = [sock EXCEPT ![j] = "open"]
  /\ ws' = j
  /\ chain' = [chain EXCEPT ![j] = "done"]
  /\ IF j = 0 THEN Composer(TRUE) /\ UNCHANGED <<bot, up, turn>>
              ELSE Deliver(j, j) /\ UNCHANGED enabled
  /\ UNCHANGED <<now, tokens, bubbles, sent, down, agent, late>>

\* A message waits for its reply: its chain is reconnecting, or its turn has
\* not ended on a socket that is open.
Awaiting(m) ==
  \/ chain[m] \in {"login", "session", "refresh", "connect"}
  \/ /\ turn[m].on # NoSocket
     /\ sock[turn[m].on] = "open"
     /\ ~turn[m].ended

\* onclose, whichever socket it is that closes.
Closed(j) ==
  /\ sock' = [sock EXCEPT ![j] = "closed"]
  /\ down' = [down EXCEPT ![j] = << >>]
  /\ ws' = NoSocket
  /\ Composer(TRUE)
  /\ late' = \/ late \/ ws \notin {j, NoSocket}
             \/ \E m \in Messages \ {j} : Awaiting(m) /\ turn[m].on # j

\* The connection fails: onerror rejects the chain, onclose follows.
OnError(j) ==
  /\ "connect" \in Faults
  /\ sock[j] = "connecting"
  /\ chain' = [chain EXCEPT ![j] = "failed"]
  /\ Closed(j)
  /\ UNCHANGED <<now, tokens, bot, bubbles, sent, turn, up, agent>>

\* The close frame has arrived, the close event has not been fired.
OnClosing(j) ==
  /\ "closing" \in Faults
  /\ sock[j] = "open"
  /\ sock' = [sock EXCEPT ![j] = "closing"]
  /\ down' = [down EXCEPT ![j] = << >>]
  /\ UNCHANGED <<now, page, up, agent, late>>

\* AgentCore, the agent or the network closes the socket, or has closed it.
OnClose(j) ==
  /\ \/ "drop" \in Faults /\ sock[j] = "open"
     \/ sock[j] = "closing"
  /\ Closed(j)
  /\ UNCHANGED <<now, tokens, bot, bubbles, sent, chain, turn, up, agent>>

Ended(f) ==
  /\ bot' = NoBubble
  /\ turn' = [turn EXCEPT ![f.turn] =
       [on |-> @.on, ended |-> TRUE, failed |-> @.failed \/ f.kind = "error"]]
  /\ Composer(TRUE)
  /\ UNCHANGED bubbles

\* Mutant of OnDelta: the new bubble is not put on the page.
OnDeltaNoBubble(f) ==
  /\ bot' = IF bot = NoBubble THEN Len(bubbles) + 1 ELSE bot
  /\ UNCHANGED <<bubbles, turn, enabled>>

\* A delta goes to the current bubble, whichever socket it comes from.
OnDelta(f) ==
  /\ IF bot = NoBubble
       THEN bot' = Len(bubbles) + 1 /\ bubbles' = Append(bubbles, {f.turn})
       ELSE UNCHANGED bot /\
            bubbles' = [bubbles EXCEPT ![bot] = @ \cup {f.turn}]
  /\ UNCHANGED <<turn, enabled>>

OnMessage(j) ==
  /\ sock[j] = "open" /\ down[j] # << >>
  /\ down' = [down EXCEPT ![j] = Tail(@)]
  /\ LET f == Head(down[j]) IN
       IF f.kind = "delta" THEN OnDelta(f) ELSE Ended(f)
  /\ UNCHANGED <<now, tokens, ws, sent, chain, sock, up, agent, late>>

-----------------------------------------------------------------------------
(* The agent: the handler of each socket and the executor's threads        *)

\* What the thread of turn m puts on the queue is forwarded by the handler of
\* its socket, or dropped when the socket is gone.
Send(m, k) ==
  LET j == turn[m].on IN
    down' = IF sock[j] = "open"
            THEN [down EXCEPT ![j] = Append(@, [kind |-> k, turn |-> m])]
            ELSE down

\* The handler takes the next message it has received, whether or not the page
\* still has the socket.  One with an expired token is answered by an error and
\* no final; any other is submitted to the executor.  (A message that never
\* arrived, and a handler that has ended on a socket that is gone, are a Take
\* that does not happen.)
Take(j) ==
  /\ srv[j] = NoTurn /\ up[j] # << >>
  /\ up' = [up EXCEPT ![j] = Tail(@)]
  /\ LET m == Head(up[j]).turn IN
       IF now < Head(up[j]).exp
         THEN /\ srv' = [srv EXCEPT ![j] = m]
              /\ pool' = Append(pool, m)
              /\ job' = [job EXCEPT ![m].pc = "queued"]
              /\ UNCHANGED down
         ELSE Send(m, "refused") /\ UNCHANGED agent
  /\ UNCHANGED <<now, page, sock, late>>

Running == {m \in Messages : job[m].pc = "running"}

\* A free thread takes the turn submitted first.
Run ==
  /\ pool # << >> /\ Cardinality(Running) < Workers
  /\ job' = [job EXCEPT ![Head(pool)].pc = "running"]
  /\ pool' = Tail(pool)
  /\ UNCHANGED <<now, page, net, srv, late>>

Delta(m) ==
  /\ job[m].pc = "running" /\ ~job[m].failed /\ job[m].deltas < MaxDeltas
  /\ Send(m, "delta")
  /\ job' = [job EXCEPT ![m].deltas = @ + 1]
  /\ UNCHANGED <<now, page, sock, up, srv, pool, late>>

\* Mutant of Raise: the stream is read on after an exception.
RaiseOn(m) ==
  /\ "agent" \in Faults
  /\ job[m].pc = "running" /\ job[m].deltas < MaxDeltas
  /\ Send(m, "error")
  /\ job' = [job EXCEPT ![m].deltas = @ + 1]
  /\ UNCHANGED <<now, page, sock, up, srv, pool, late>>

\* stream_chat raises: an error frame, and the final one after it.
Raise(m) ==
  /\ "agent" \in Faults
  /\ job[m].pc = "running" /\ ~job[m].failed
  /\ Send(m, "error")
  /\ job' = [job EXCEPT ![m].failed = TRUE]
  /\ UNCHANGED <<now, page, sock, up, srv, pool, late>>

\* Mutant of Final: the queue is bounded, and nobody empties it any more.
FinalBlocked(m) ==
  /\ job[m].pc = "running" /\ sock[turn[m].on] = "open"
  /\ Send(m, "final")
  /\ job' = [job EXCEPT ![m].pc = "done"]
  /\ srv' = [srv EXCEPT ![turn[m].on] = NoTurn]
  /\ UNCHANGED <<now, page, sock, up, pool, late>>

\* The turn ends and frees its thread; its socket's handler reads on.
Final(m) ==
  /\ job[m].pc = "running"
  /\ Send(m, "final")
  /\ job' = [job EXCEPT ![m].pc = "done"]
  /\ srv' = [srv EXCEPT ![turn[m].on] = NoTurn]
  /\ UNCHANGED <<now, page, sock, up, pool, late>>

Tick ==
  /\ now < MaxTime
  /\ now' = now + 1
  /\ UNCHANGED <<page, net, agent, late>>

Chain(j)   == Login(j) \/ CreateSession(j) \/ RefreshSession(j)
Connect(j) == OnOpen(j) \/ OnError(j)

Next ==
  \/ Submit
  \/ \E j \in Chains :
       \/ Chain(j) \/ Connect(j) \/ OnMessage(j) \/ OnClosing(j) \/ OnClose(j)
       \/ Take(j)
  \/ Run
  \/ \E m \in Messages : Delta(m) \/ Raise(m) \/ Final(m)
  \/ Tick

Spec == Init /\ [][Next]_vars

\* Calls are answered or fail, sockets open or fail, frames arrive while their
\* socket is open, a turn of the agent ends and a closing socket closes; the
\* user need not send.
FairSpec ==
  /\ Spec
  /\ \A j \in Chains :
       /\ WF_vars(Chain(j)) /\ WF_vars(Connect(j)) /\ WF_vars(OnMessage(j))
       /\ WF_vars(sock[j] = "open" /\ Take(j))
       /\ WF_vars(sock[j] = "closing" /\ OnClose(j))
  /\ WF_vars(Run) /\ \A m \in Messages : WF_vars(Final(m))

-----------------------------------------------------------------------------
(* Safety                                                                  *)

\* A reply bubble shows one turn only, whatever sockets come and go, unless a
\* close event came late: the bubble a lost socket leaves behind is not written
\* to by the next turn, nor by a turn that outlived its socket
\* (app.js:204-222, 227-230; server.py:126-145).
BubbleSingleTurn ==
  late \/ \A b \in DOMAIN bubbles : Cardinality(bubbles[b]) <= 1

\* Until a turn has failed or a close event came late, the user cannot send
\* while a message waits, through reconnects, logins and refused tokens
\* (app.js:86-87, 204-222, 246-256).
BusyUntilFailure ==
  (~late /\ \A m \in Messages : ~turn[m].failed) =>
    \A m \in Messages : Awaiting(m) => ~enabled

-----------------------------------------------------------------------------
(* Liveness                                                                *)

\* Once the user has sent something, a disabled composer is always enabled
\* again: by the reply, an error, a failed reconnect or the loss of the socket.
ComposerRecovers ==
  (~enabled /\ sent > 0) ~> enabled

\* A turn the agent has taken ends on the page too unless its socket is lost,
\* though turns that nobody waits for any more hold the threads before it
\* (server.py:126-148).
AnswerComes ==
  \A j \in Chains, m \in Messages :
    (sock[j] = "open" /\ srv[j] = m) ~> (turn[m].ended \/ sock[j] # "open")

-----------------------------------------------------------------------------
(* What the repository says and the code does not do                       *)

\* "the composer is disabled while the agent works" (app.js:86), whether or not
\* a turn has failed before.
ComposerBusy == \A m \in Messages : Awaiting(m) => ~enabled
=============================================================================

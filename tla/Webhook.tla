------------------------------ MODULE Webhook ------------------------------
(***************************************************************************)
(* The router Lambda (lambda/router/index.py and lark.py): a webhook of    *)
(* Lark's is verified and dispatched to an asynchronous invocation of the  *)
(* same function before it is acknowledged; that invocation decrypts the   *)
(* event, resolves the sender, has the agent take a turn and sends the     *)
(* reply.  Any sandbox may run either kind, and what a sandbox has cached  *)
(* (Lark's credentials, the tenant token) is its own.                      *)
(*                                                                         *)
(* Lark and Lambda's event queue are external: Lark delivers an event      *)
(* again until a delivery is acknowledged, Lambda starts an invocation     *)
(* that ended with an error Retries more times, and otherwise once (that   *)
(* its queue may deliver an event twice, and botocore repeat a call, is    *)
(* left out).  The credentials are represented by the version of the       *)
(* encrypt key.  url_verification and /health keep no state and are left   *)
(* out, as are the content of messages and the events that are no message  *)
(* of a user, which are ignored.                                           *)
(***************************************************************************)
EXTENDS Integers, Sequences, FiniteSets

CONSTANTS
  Events,         \* messages of users, by event id
  Encrypted,      \* those delivered encrypted
  Sandboxes,      \* sandboxes of the router
  Faults,         \* a subset of FaultKind
  Window,         \* _REPLAY_WINDOW_SECONDS
  Margin,         \* how long before its expiry a tenant token is not used
  Life,           \* the life of a tenant token
  Timeout,        \* LAMBDA_TIMEOUT, which also bounds every call it makes
  Retries,        \* of Lambda, for an asynchronous invocation
  MaxDeliveries,  \* bound on the deliveries of each event
  MaxRuns,        \* bound on the asynchronous invocations
  MaxRotations,   \* bound on the rotations of the encrypt key
  MaxTime         \* bound on the clock

\* crash: an uncaught error, the Lambda timeout or the loss of the sandbox;
\* read: reading the credentials fails; dispatch: the self-invocation fails;
\* repeat: a delivery arrives twice; agent: invoke_agent raises; silent: the
\* agent's reply is empty; lark: a call of Lark's API fails.
FaultKind == {"crash", "read", "dispatch", "repeat", "agent", "silent", "lark"}

ASSUME WebhookAssumption ==
  /\ Encrypted \subseteq Events
  /\ Faults \subseteq FaultKind
  /\ Window \in Nat /\ Margin \in Nat /\ Life \in Nat /\ Timeout \in Nat
  /\ 2 * Timeout <= Margin /\ 2 * Timeout < Life
  /\ Retries \in Nat /\ MaxDeliveries \in Nat /\ MaxRuns \in Nat
  /\ MaxRotations \in Nat /\ MaxTime \in Nat

VARIABLES
  now,        \* the clock
  key,        \* the version of the encrypt key
  delivered,  \* how often Lark has delivered each event
  inflight,   \* the deliveries on their way
  acked,      \* the events Lark has been told 200 for
  runs,       \* the asynchronous invocations, in the order of their dispatch
  creds,      \* _creds_cache of each sandbox
  tenant,     \* _token_cache of each sandbox, and until when Lark is sure to
              \* take that token
  task,       \* the invocation in each sandbox
  answered,   \* events that have been answered in their chat
  lost        \* history: events whose processing a fault has hit

lark == <<key, delivered>>
vars == <<now, lark, inflight, acked, runs, creds, tenant, task, answered, lost>>

Unread  == -2   \* the credentials have not been read
NoCreds == -1   \* reading them has failed
NoRun   == 0

Delivery == [event : Events, stamp : Nat, key : Nat]

Run == [event : Events, key : Nat,
        state : {"queued", "running", "over"},
        left : 0..Retries,   \* retries Lambda has left
        turns : Nat]         \* history: turns of the agent in this start

\* verify -> ack, or decrypt -> agent -> token -> post -> sent.
Processing == {"decrypt", "agent", "token", "post", "sent"}

Task == [pc : {"idle", "verify", "ack"} \cup Processing,
         hook : SUBSET Delivery,   \* the delivery it handles, if any
         run : Nat,                \* the asynchronous invocation it is, if any
         due : Nat]                \* when the platform has ended it

IdleTask == [pc |-> "idle", hook |-> {}, run |-> NoRun, due |-> 0]

NoToken == [exp |-> 0, live |-> 0]

TypeOK ==
  /\ now \in Nat /\ key \in Nat
  /\ delivered \in [Events -> Nat]
  /\ inflight \subseteq Delivery
  /\ acked \subseteq Events /\ answered \subseteq Events /\ lost \subseteq Events
  /\ runs \in Seq(Run)
  /\ creds \in [Sandboxes -> {Unread, NoCreds} \cup 0..key]
  /\ tenant \in [Sandboxes -> [exp : Nat, live : Nat]]
  /\ task \in [Sandboxes -> Task]
  /\ \A s \in Sandboxes :
       /\ task[s].pc \in {"verify", "ack"} =>
            \E h \in task[s].hook : task[s].hook = {h}
       /\ task[s].pc \in Processing =>
            /\ task[s].run \in DOMAIN runs
            /\ runs[task[s].run].state = "running"

Init ==
  /\ now = 0 /\ key = 0
  /\ delivered = [e \in Events |-> 0]
  /\ inflight = {} /\ acked = {} /\ answered = {} /\ lost = {}
  /\ runs = << >>
  /\ creds = [s \in Sandboxes |-> Unread]
  /\ tenant = [s \in Sandboxes |-> NoToken]
  /\ task = [s \in Sandboxes |-> IdleTask]

-----------------------------------------------------------------------------
At(s, pc)   == task[s].pc = pc
Goto(s, pc) == task' = [task EXCEPT ![s].pc = pc]
Leave(s)    == task' = [task EXCEPT ![s] = IdleTask]
Hook(s)     == CHOOSE h \in task[s].hook : TRUE
RunOf(s)    == runs[task[s].run]

\* Lark delivers an event, again if it has not been told 200.
Deliver(e) ==
  /\ e \notin acked
  /\ delivered[e] < MaxDeliveries
  /\ delivered' = [delivered EXCEPT ![e] = @ + 1]
  /\ inflight' = inflight \cup {[event |-> e, stamp |-> now, key |-> key]}
  /\ UNCHANGED <<now, key, acked, runs, creds, tenant, task, answered, lost>>

\* get_credentials reads them once in the life of a sandbox; a failure is
\* cached like an answer.
ReadCreds(s) ==
  /\ task[s].pc \in {"verify", "decrypt", "token"}
  /\ At(s, "decrypt") => RunOf(s).event \in Encrypted
  /\ At(s, "token") => now >= tenant[s].exp - Margin
  /\ creds[s] = Unread
  /\ \E c \in {key} \cup (IF "read" \in Faults THEN {NoCreds} ELSE {}) :
       creds' = [creds EXCEPT ![s] = c]
  /\ UNCHANGED <<now, lark, inflight, acked, runs, tenant, task, answered, lost>>

-----------------------------------------------------------------------------
(* The webhook: handler                                                    *)

Receive(s, h) ==
  /\ At(s, "idle") /\ h \in inflight
  /\ Len(runs) + Cardinality({t \in Sandboxes : At(t, "verify")}) < MaxRuns
  /\ task' = [task EXCEPT ![s] =
       [pc |-> "verify", hook |-> {h}, run |-> NoRun, due |-> now + Timeout]]
  /\ \/ inflight' = inflight \ {h}
     \/ "repeat" \in Faults /\ UNCHANGED inflight
  /\ UNCHANGED <<now, lark, acked, runs, creds, tenant, answered, lost>>

\* verify_signature: the sandbox has the key it was signed with, and the time
\* stamp is in the replay window.
Verified(s) == creds[s] = Hook(s).key /\ now - Hook(s).stamp <= Window

\* 401; Lark may deliver the event again.
Reject(s) ==
  /\ At(s, "verify") /\ creds[s] # Unread /\ ~Verified(s)
  /\ Leave(s)
  /\ UNCHANGED <<now, lark, inflight, acked, runs, creds, tenant, answered, lost>>

NewRun(h) == [event |-> h.event, key |-> h.key, state |-> "queued",
              left |-> Retries, turns |-> 0]

\* Mutant of Dispatch: Lark is answered first.
DispatchAfterAck(s) ==
  /\ At(s, "verify") /\ Verified(s)
  /\ IF Hook(s).event \in acked
       THEN runs' = Append(runs, NewRun(Hook(s))) /\ Leave(s) /\ UNCHANGED acked
       ELSE acked' = acked \cup {Hook(s).event} /\ UNCHANGED <<runs, task>>
  /\ UNCHANGED <<now, lark, inflight, creds, tenant, answered, lost>>

\* The function invokes itself asynchronously ...
Dispatch(s) ==
  /\ At(s, "verify") /\ Verified(s)
  /\ runs' = Append(runs, NewRun(Hook(s)))
  /\ Goto(s, "ack")
  /\ UNCHANGED <<now, lark, inflight, acked, creds, tenant, answered, lost>>

\* ... or fails to: the error is logged, and Lark told 200 all the same.
DispatchFails(s) ==
  /\ "dispatch" \in Faults
  /\ At(s, "verify") /\ Verified(s)
  /\ lost' = lost \cup {Hook(s).event}
  /\ Goto(s, "ack")
  /\ UNCHANGED <<now, lark, inflight, acked, runs, creds, tenant, answered>>

Ack(s) ==
  /\ At(s, "ack")
  /\ acked' = acked \cup {Hook(s).event}
  /\ Leave(s)
  /\ UNCHANGED <<now, lark, inflight, runs, creds, tenant, answered, lost>>

-----------------------------------------------------------------------------
(* The asynchronous invocation: process_lark_event                         *)

\* Mutant of Start: the handler does not know its own invocation, and another
\* sandbox takes it up too.
StartTwice(s, i) ==
  /\ At(s, "idle") /\ runs[i].state = "queued"
  /\ task' = [task EXCEPT ![s] =
       [pc |-> "decrypt", hook |-> {}, run |-> i, due |-> now + Timeout]]
  /\ runs' = [runs EXCEPT ![i].turns = 0]
  /\ UNCHANGED <<now, lark, inflight, acked, creds, tenant, answered, lost>>

Start(s, i) ==
  /\ At(s, "idle") /\ runs[i].state = "queued"
  /\ task' = [task EXCEPT ![s] =
       [pc |-> "decrypt", hook |-> {}, run |-> i, due |-> now + Timeout]]
  /\ runs' = [runs EXCEPT ![i].state = "running", ![i].turns = 0]
  /\ UNCHANGED <<now, lark, inflight, acked, creds, tenant, answered, lost>>

\* The invocation is over; Lambda does not start it again, and its turns are
\* forgotten.
Conclude(s) ==
  /\ Leave(s)
  /\ runs' = [runs EXCEPT ![task[s].run].state = "over", ![task[s].run].turns = 0]

Lose(s) == lost' = lost \cup {RunOf(s).event}

\* decrypt_event has no key or another one: the event is dropped.
DecryptFails(s) ==
  /\ At(s, "decrypt") /\ RunOf(s).event \in Encrypted
  /\ creds[s] \notin {Unread, RunOf(s).key}
  /\ Conclude(s) /\ Lose(s)
  /\ UNCHANGED <<now, lark, inflight, acked, creds, tenant, answered>>

\* Then resolve_user and get_or_create_session (see IdentityTable): a sender
\* who is not admitted is told so.
Read(s) ==
  /\ At(s, "decrypt")
  /\ RunOf(s).event \in Encrypted => creds[s] = RunOf(s).key
  /\ \E pc \in {"agent", "token"} : Goto(s, pc)
  /\ UNCHANGED <<now, lark, inflight, acked, runs, creds, tenant, answered, lost>>

Turn(s, n) == runs' = [runs EXCEPT ![task[s].run].turns = @ + n]

Agent(s) ==
  /\ At(s, "agent")
  /\ Turn(s, 1)
  /\ Goto(s, "token")
  /\ UNCHANGED <<now, lark, inflight, acked, creds, tenant, answered, lost>>

\* An empty reply is not sent.
AgentSilent(s) ==
  /\ "silent" \in Faults
  /\ At(s, "agent")
  /\ Leave(s)
  /\ runs' = [runs EXCEPT ![task[s].run].state = "over",
                          ![task[s].run].turns = @ + 1]
  /\ Lose(s)
  /\ UNCHANGED <<now, lark, inflight, acked, creds, tenant, answered>>

\* Mutant of AgentFails: the client repeats the call (max_attempts).
AgentFailsRepeated(s) ==
  /\ "agent" \in Faults
  /\ At(s, "agent") /\ RunOf(s).turns <= 1
  /\ Turn(s, 1)
  /\ UNCHANGED <<now, lark, inflight, acked, creds, tenant, task, answered, lost>>

\* The mint, the call or its answer fails, the turn taken or not: an apology.
AgentFails(s) ==
  /\ "agent" \in Faults
  /\ At(s, "agent")
  /\ \E n \in {0, 1} : Turn(s, n)
  /\ Goto(s, "token")
  /\ UNCHANGED <<now, lark, inflight, acked, creds, tenant, answered, lost>>

\* Mutant of TokenFresh: no margin.
TokenFreshToTheEnd(s) == now < tenant[s].exp

TokenFresh(s) == now < tenant[s].exp - Margin

\* get_tenant_token, from the cache or from Lark; expires_at is computed when
\* the answer has arrived, up to Timeout after the token was issued.  Without a
\* token nothing is sent.
GetToken(s) ==
  /\ At(s, "token")
  /\ \/ TokenFresh(s) /\ Goto(s, "post") /\ UNCHANGED <<tenant, runs, lost>>
     \/ /\ ~TokenFresh(s) /\ creds[s] \notin {Unread, NoCreds}
        /\ tenant' = [tenant EXCEPT ![s] = [exp  |-> now + Life,
                                            live |-> now + Life - Timeout]]
        /\ Goto(s, "post")
        /\ UNCHANGED <<runs, lost>>
     \/ /\ ~TokenFresh(s)
        /\ creds[s] = NoCreds \/ (creds[s] # Unread /\ "lark" \in Faults)
        /\ Conclude(s) /\ Lose(s)
        /\ UNCHANGED tenant
  /\ UNCHANGED <<now, lark, inflight, acked, creds, answered>>

\* send_message: the reply is in the chat, whether Lark's answer arrives or
\* not; or it is refused, which is logged.
Post(s) ==
  /\ At(s, "post")
  /\ \/ /\ answered' = answered \cup {RunOf(s).event}
        /\ Goto(s, "sent")
        /\ UNCHANGED <<runs, lost>>
     \/ /\ "lark" \in Faults
        /\ Conclude(s) /\ Lose(s)
        /\ UNCHANGED answered
  /\ UNCHANGED <<now, lark, inflight, acked, creds, tenant>>

\* Mutant of Return: a sender who is not admitted is told so, and the handler
\* goes on to the agent.
ReturnMissing(s) ==
  /\ At(s, "sent")
  /\ IF RunOf(s).turns = 0 THEN Goto(s, "agent") /\ UNCHANGED runs ELSE Conclude(s)
  /\ UNCHANGED <<now, lark, inflight, acked, creds, tenant, answered, lost>>

\* The handler returns.  Cut off before that, the invocation is started again
\* and replies once more.
Return(s) ==
  /\ At(s, "sent")
  /\ Conclude(s)
  /\ UNCHANGED <<now, lark, inflight, acked, creds, tenant, answered, lost>>

-----------------------------------------------------------------------------
(* The platform                                                            *)

\* An invocation ends with an error: an asynchronous one is started again as
\* long as Lambda has retries left.
Crash(s) ==
  /\ "crash" \in Faults
  /\ ~At(s, "idle")
  /\ Leave(s)
  /\ IF task[s].run = NoRun THEN UNCHANGED <<runs, lost>>
     ELSE IF RunOf(s).left > 0
       THEN /\ runs' = [runs EXCEPT ![task[s].run].state = "queued",
                                    ![task[s].run].left = @ - 1,
                                    ![task[s].run].turns = 0]
            /\ UNCHANGED lost
       ELSE /\ runs' = [runs EXCEPT ![task[s].run].state = "over",
                                    ![task[s].run].turns = 0]
            /\ Lose(s)
  /\ UNCHANGED <<now, lark, inflight, acked, creds, tenant, answered>>

\* The sandbox is replaced by a fresh one.
Recycle(s) ==
  /\ At(s, "idle")
  /\ creds' = [creds EXCEPT ![s] = Unread]
  /\ tenant' = [tenant EXCEPT ![s] = NoToken]
  /\ UNCHANGED <<now, lark, inflight, acked, runs, task, answered, lost>>

\* The encrypt key is replaced, in Lark's console and in Secrets Manager.
Rotate ==
  /\ key < MaxRotations
  /\ key' = key + 1
  /\ UNCHANGED <<now, delivered, inflight, acked, runs, creds, tenant, task,
                 answered, lost>>

\* Time passes, but no invocation outlives its timeout.
Tick ==
  /\ now < MaxTime
  /\ \A s \in Sandboxes : At(s, "idle") \/ now < task[s].due
  /\ now' = now + 1
  /\ UNCHANGED <<lark, inflight, acked, runs, creds, tenant, task, answered, lost>>

Work(s) ==
  \/ ReadCreds(s) \/ Reject(s) \/ Dispatch(s) \/ DispatchFails(s) \/ Ack(s)
  \/ DecryptFails(s) \/ Read(s) \/ Agent(s) \/ AgentSilent(s) \/ AgentFails(s)
  \/ GetToken(s) \/ Post(s) \/ Return(s)

Next ==
  \/ \E e \in Events : Deliver(e)
  \/ \E s \in Sandboxes :
       \/ \E h \in inflight : Receive(s, h)
       \/ \E i \in DOMAIN runs : Start(s, i)
       \/ Work(s) \/ Crash(s) \/ Recycle(s)
  \/ Rotate \/ Tick

Spec == Init /\ [][Next]_vars

-----------------------------------------------------------------------------
(* Safety                                                                  *)

\* A message has been answered, was hit by a fault, or is queued or under way.
Accounted(e) ==
  \/ e \in answered \cup lost
  \/ \E i \in DOMAIN runs : runs[i].event = e /\ runs[i].state # "over"

\* A message that Lark has been told 200 for, and so will not deliver again,
\* has been answered in its chat, is queued or being processed, or was hit by
\* a fault: whichever sandboxes the two invocations land in, and wherever they
\* are cut short, no message is dropped by the design of the handover
\* (router/index.py:187-202).
AckedAccounted == \A e \in acked : Accounted(e)

\* The agent takes at most one turn each time an invocation is started, even
\* when the answer to the turn is lost (router/index.py:38-42, 137-141).
TurnPerStart == \A i \in DOMAIN runs : runs[i].turns <= 1

\* The five minutes of get_tenant_token are enough: a message is never sent
\* with a tenant token that has stopped working, though expires_at is computed
\* after the token was issued and the token is used after it was checked.
LiveTenantToken == \A s \in Sandboxes : At(s, "post") => now < tenant[s].live
=============================================================================

--------------------------- MODULE IdentityTable ---------------------------
(***************************************************************************)
(* The DynamoDB identity table, written by two Lambda functions that carry *)
(* a copy of the same code (lambda/router/identity.py for the webhook,     *)
(* lambda/web_api/identity.py for the web UI) and by the administrator     *)
(* (scripts/manage-allowlist.sh).  DynamoDB executes each call atomically; *)
(* nothing joins the calls of a request, and every put is unconditional.   *)
(*                                                                         *)
(* user_id is a hash of the channel key, so the open_id stands for it.     *)
(* Names, time stamps and the form of a session id are left out.  Nothing  *)
(* ever deletes an item but the administrator's ALLOW items.               *)
(***************************************************************************)
EXTENDS Integers, FiniteSets

CONSTANTS
  OpenIds,       \* the open_ids of Lark users
  Requests,      \* Lambda sandboxes, each with one invocation at a time
  Open,          \* REGISTRATION_OPEN
  Faults,        \* a subset of FaultKind
  NoUser,        \* no open_id
  MaxSessions,   \* bound on the session ids generated
  MaxAdmin       \* bound on the administrator's commands

FaultKind == {"crash"}

ASSUME IdentityTableAssumption ==
  /\ Open \in BOOLEAN
  /\ Faults \subseteq FaultKind
  /\ NoUser \notin OpenIds
  /\ MaxSessions \in Nat /\ MaxAdmin \in Nat

VARIABLES
  allow,     \* ALLOW#..   / ALLOW:      who is on the allowlist
  profile,   \* USER#..    / PROFILE:    who has a profile
  channel,   \* CHANNEL#.. / PROFILE:    who resolves to a user
  reverse,   \* USER#..    / CHANNEL#..: whose channel is listed
  session,   \* USER#..    / SESSION:    the session id of each user
  minted,    \* how many session ids have been generated
  task,      \* the invocation in each sandbox
  admin,     \* how many commands the administrator has given
  torn,      \* history: users whose registration crashed before its last put
  given,     \* history: the session ids each user has been served in
  racers     \* history: the invocations that were under way for a user when
             \* the user's first session id was stored

table == <<allow, profile, channel, reverse, session>>
vars == <<table, minted, task, admin, torn, given, racers>>

NoSession == 0

Task == [pc : {"idle", "channel", "allow", "put_profile", "put_channel",
               "put_reverse", "session", "touch", "put_session"},
         user : OpenIds \cup {NoUser},
         login : BOOLEAN,       \* /api/lark/auth, which needs no session
         sid : Nat,             \* the session id read or generated
         permitted : BOOLEAN]   \* history: on the allowlist since it began

IdleTask == [pc |-> "idle", user |-> NoUser, login |-> FALSE,
             sid |-> NoSession, permitted |-> FALSE]

TypeOK ==
  /\ allow \subseteq OpenIds /\ profile \subseteq OpenIds
  /\ channel \subseteq OpenIds /\ reverse \subseteq OpenIds
  /\ torn \subseteq OpenIds
  /\ minted \in Nat /\ admin \in Nat
  /\ session \in [OpenIds -> 0..minted]
  /\ given \in [OpenIds -> SUBSET (1..minted)]
  /\ racers \in [OpenIds -> SUBSET Requests]
  /\ task \in [Requests -> Task]
  /\ \A r \in Requests :
       /\ task[r].pc # "idle" => task[r].user \in OpenIds
       /\ task[r].pc \in {"touch", "put_session"} => task[r].sid \in 1..minted

Init ==
  /\ allow = {} /\ profile = {} /\ channel = {} /\ reverse = {}
  /\ session = [u \in OpenIds |-> NoSession]
  /\ minted = 0 /\ admin = 0 /\ torn = {}
  /\ task = [r \in Requests |-> IdleTask]
  /\ given = [u \in OpenIds |-> {}]
  /\ racers = [u \in OpenIds |-> {}]

-----------------------------------------------------------------------------
Under(r, pc) == task[r].pc = pc
Goto(r, pc)  == task' = [task EXCEPT ![r].pc = pc]

\* The invocation is over, by an answer, a refusal or a crash.
Leave(r) ==
  /\ task' = [task EXCEPT ![r] = IdleTask]
  /\ racers' = [u \in OpenIds |-> racers[u] \ {r}]

\* resolve_user returns: a login is answered, the others want the session.
AfterResolve(r) ==
  IF task[r].login THEN Leave(r)
                   ELSE Goto(r, "session") /\ UNCHANGED racers

Begin(r, u, login) ==
  /\ Under(r, "idle")
  /\ task' = [task EXCEPT ![r] =
       [pc |-> "channel", user |-> u, login |-> login, sid |-> NoSession,
        permitted |-> u \in allow]]
  /\ UNCHANGED <<table, minted, admin, torn, given, racers>>

\* A message, POST or GET /api/session: to be served in the user's session.
BeginServe(r, u) == Begin(r, u, FALSE)

\* POST /api/lark/auth: provisions the user, whatever resolve_user returns.
BeginLogin(r, u) == Begin(r, u, TRUE)

\* A known user is not looked up on the allowlist again.
ReadChannel(r) ==
  /\ Under(r, "channel")
  /\ IF task[r].user \in channel
       THEN AfterResolve(r)
       ELSE Goto(r, "allow") /\ UNCHANGED racers
  /\ UNCHANGED <<table, minted, admin, torn, given>>

\* Mutant of Allowed: registration is open whatever the configuration says.
AllowedAll(u) == TRUE

Allowed(u) == Open \/ u \in allow

ReadAllow(r) ==
  /\ Under(r, "allow")
  /\ IF Allowed(task[r].user)
       THEN Goto(r, "put_profile") /\ UNCHANGED racers
       ELSE Leave(r)
  /\ UNCHANGED <<table, minted, admin, torn, given>>

\* Mutant of PutProfile: the channel is written first.
PutProfileLast(r) ==
  /\ Under(r, "put_profile")
  /\ channel' = channel \cup {task[r].user}
  /\ Goto(r, "put_channel")
  /\ UNCHANGED <<allow, profile, reverse, session, minted, admin, torn, given,
                 racers>>

PutProfile(r) ==
  /\ Under(r, "put_profile")
  /\ profile' = profile \cup {task[r].user}
  /\ Goto(r, "put_channel")
  /\ UNCHANGED <<allow, channel, reverse, session, minted, admin, torn, given,
                 racers>>

PutChannel(r) ==
  /\ Under(r, "put_channel")
  /\ channel' = channel \cup {task[r].user}
  /\ Goto(r, "put_reverse")
  /\ UNCHANGED <<allow, profile, reverse, session, minted, admin, torn, given,
                 racers>>

PutReverse(r) ==
  /\ Under(r, "put_reverse")
  /\ reverse' = reverse \cup {task[r].user}
  /\ AfterResolve(r)
  /\ UNCHANGED <<allow, profile, channel, session, minted, admin, torn, given>>

\* Mutant of ReadSession: the missing session id is stored as it was read.
ReadSessionEmpty(r) ==
  LET s == session[task[r].user] IN
    /\ Under(r, "session")
    /\ task' = [task EXCEPT
         ![r].pc = IF s = NoSession THEN "put_session" ELSE "touch",
         ![r].sid = s]
    /\ UNCHANGED <<table, minted, admin, torn, given, racers>>

\* Mutant of ReadSession: every request generates a session id.
ReadSessionAnew(r) ==
  /\ Under(r, "session")
  /\ minted < MaxSessions
  /\ minted' = minted + 1
  /\ task' = [task EXCEPT ![r].pc = "put_session", ![r].sid = minted + 1]
  /\ UNCHANGED <<table, admin, torn, given, racers>>

\* The stored session id is taken, or a new one generated (a uuid: no other
\* request generates the same).
ReadSession(r) ==
  LET s == session[task[r].user] IN
    /\ Under(r, "session")
    /\ \/ /\ s # NoSession
          /\ task' = [task EXCEPT ![r].pc = "touch", ![r].sid = s]
          /\ UNCHANGED minted
       \/ /\ s = NoSession
          /\ minted < MaxSessions
          /\ minted' = minted + 1
          /\ task' = [task EXCEPT ![r].pc = "put_session", ![r].sid = minted + 1]
    /\ UNCHANGED <<table, admin, torn, given, racers>>

\* The request goes on with the session id it has in hand: the agent is
\* invoked, or the presigned URL answered, under it.
Serve(r) ==
  /\ given' = [given EXCEPT ![task[r].user] = @ \cup {task[r].sid}]
  /\ task' = [task EXCEPT ![r] = IdleTask]

\* lastActivity only.
TouchSession(r) ==
  /\ Under(r, "touch")
  /\ Serve(r)
  /\ racers' = [u \in OpenIds |-> racers[u] \ {r}]
  /\ UNCHANGED <<table, minted, admin, torn>>

PutSession(r) ==
  LET u == task[r].user
      others == {q \in Requests \ {r} : task[q].user = u} IN
    /\ Under(r, "put_session")
    /\ session' = [session EXCEPT ![u] = task[r].sid]
    /\ Serve(r)
    /\ racers' = [v \in OpenIds |->
         (IF v = u /\ session[u] = NoSession THEN others ELSE racers[v]) \ {r}]
    /\ UNCHANGED <<allow, profile, channel, reverse, minted, admin, torn>>

\* The sandbox is stopped or a call fails: what was put stays.  Lambda repeats
\* an asynchronous invocation, which is a new Begin.
Crash(r) ==
  /\ "crash" \in Faults
  /\ ~Under(r, "idle")
  /\ torn' = IF Under(r, "put_reverse") THEN torn \cup {task[r].user} ELSE torn
  /\ Leave(r)
  /\ UNCHANGED <<table, minted, admin, given>>

\* manage-allowlist.sh add and remove.
AllowAdd(u) ==
  /\ admin < MaxAdmin /\ admin' = admin + 1
  /\ allow' = allow \cup {u}
  /\ task' = [r \in Requests |->
       IF task[r].user = u THEN [task[r] EXCEPT !.permitted = TRUE] ELSE task[r]]
  /\ UNCHANGED <<profile, channel, reverse, session, minted, torn, given, racers>>

AllowRemove(u) ==
  /\ admin < MaxAdmin /\ admin' = admin + 1
  /\ allow' = allow \ {u}
  /\ UNCHANGED <<profile, channel, reverse, session, minted, task, torn, given,
                 racers>>

Resolve(r) ==
  \/ ReadChannel(r) \/ ReadAllow(r)
  \/ PutProfile(r) \/ PutChannel(r) \/ PutReverse(r)

GetOrCreateSession(r) == ReadSession(r) \/ TouchSession(r) \/ PutSession(r)

Next ==
  \/ \E r \in Requests :
       \/ \E u \in OpenIds : BeginServe(r, u) \/ BeginLogin(r, u)
       \/ Resolve(r) \/ GetOrCreateSession(r) \/ Crash(r)
  \/ \E u \in OpenIds : AllowAdd(u) \/ AllowRemove(u)

Spec == Init /\ [][Next]_vars

-----------------------------------------------------------------------------
(* Safety                                                                  *)

\* Whoever resolves to a user has a profile, and is listed under it unless the
\* registration is still under way or crashed before its last put: the order
\* of the three puts of resolve_user makes a crash harmless to later requests,
\* which find either nothing or a whole user (router/identity.py:49-63).
RegisteredWhole ==
  \A u \in channel :
    /\ u \in profile
    /\ \/ u \in reverse \cup torn
       \/ \E r \in Requests : task[r].user = u /\ Under(r, "put_reverse")

\* A user is only registered by a request during which the administrator had
\* the user on the allowlist, however removals and concurrent requests fall
\* between its check and its puts (router/identity.py:45-58).
AdmitsOnlyAllowed ==
  [][\A u \in channel' \ channel :
       \/ Open
       \/ \E r \in Requests : task[r].user = u /\ task[r].permitted]_vars

\* Once a user has a session id it only changes through the requests that were
\* under way when the first one was stored: every later request, of either
\* entrypoint, meets a session that has settled (router/identity.py:66-85).
SessionSettles ==
  [][\A u \in OpenIds :
       (session[u] # NoSession /\ session'[u] # session[u]) =>
         \E r \in racers[u] : Under(r, "put_session") /\ task[r].user = u]_vars

-----------------------------------------------------------------------------
(* What the repository says and the code does not do                       *)

\* "a user's profile/session is shared" (router/identity.py:3-4): all requests
\* of a user are served in one session.
OneSession == \A u \in OpenIds : Cardinality(given[u]) <= 1
=============================================================================

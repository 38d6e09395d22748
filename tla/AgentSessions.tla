--------------------------- MODULE AgentSessions ---------------------------
(***************************************************************************)
(* The agent's session cache (agent/agent_core.py): per actor one session, *)
(* which pins an MCP connection to the Gateway and the access token the    *)
(* connection was opened with.  Calls of run_chat and stream_chat run in   *)
(* executor threads, so any number of them share the cache; _lock is held  *)
(* from the lookup to the end of a rebuild and, in _invalidate, for the    *)
(* removal only.                                                           *)
(*                                                                         *)
(* A call starts with a token that verify_access_token has accepted        *)
(* (agent/identity.py): it is live and names the actor.  The Gateway is    *)
(* external: it rejects an expired token, and with the fault "reject" any  *)
(* token.  Sessions are numbered in the order they are built.              *)
(***************************************************************************)
EXTENDS Integers, FiniteSets

CONSTANTS
  Actors,       \* actor ids, lark:{open_id}
  Tokens,       \* access tokens
  Owner,        \* their actors, a function on Tokens
  Exp,          \* their exp claims, a function on Tokens
  Margin,       \* SESSION_EXPIRY_MARGIN
  Calls,        \* executor threads
  Nobody,       \* no call
  NoToken,      \* no access token
  Faults,       \* the faults the environment may inject, a subset of FaultKind
  MaxSessions,  \* bound on the sessions built
  MaxTime       \* bound on the clock

\* reject: the Gateway refuses a live token; unavailable: connecting or the
\* model fails otherwise; list_fails: tools/list fails on an open connection.
FaultKind == {"reject", "unavailable", "list_fails"}

ASSUME AgentSessionsAssumption ==
  /\ Owner \in [Tokens -> Actors]
  /\ Exp \in [Tokens -> Nat]
  /\ Margin \in Nat
  /\ Nobody \notin Calls /\ NoToken \notin Tokens
  /\ Faults \subseteq FaultKind
  /\ MaxSessions \in Nat /\ MaxTime \in Nat

VARIABLES
  now,     \* the clock
  cache,   \* _sessions: the session cached for each actor
  built,   \* how many sessions have been built
  token,   \* the token each session pins
  conn,    \* the state of each session's connection; leaked: it is open, and
           \* no session was made of it
  lock,    \* the holder of _lock
  call,    \* the call running in each thread
  failed   \* history: actors whose last rebuild failed

vars == <<now, cache, built, token, conn, lock, call, failed>>

NoSession == 0

(***************************************************************************)
(* idle -> get -> (build ->) run -> idle; an authorization failure leads   *)
(* once through invalidate -> (close ->) back to get.                      *)
(***************************************************************************)
Call == [pc : {"idle", "get", "build", "run", "invalidate", "close"},
         streaming : BOOLEAN,          \* stream_chat, not run_chat
         token : Tokens \cup {NoToken},   \* the caller's token
         session : Nat,                \* in use, or to be closed
         retry : BOOLEAN,              \* the second attempt is under way
         emitted : BOOLEAN,            \* this attempt has sent a delta
         shown : Nat]                  \* history: attempts that sent a delta

IdleCall == [pc |-> "idle", streaming |-> FALSE, token |-> NoToken,
             session |-> NoSession, retry |-> FALSE, emitted |-> FALSE,
             shown |-> 0]

TypeOK ==
  /\ now \in Nat /\ built \in Nat
  /\ cache \in [Actors -> 0..built]
  /\ token \in [1..built -> Tokens]
  /\ conn \in [1..built -> {"open", "closed", "leaked"}]
  /\ lock \in Calls \cup {Nobody}
  /\ call \in [Calls -> Call]
  /\ failed \subseteq Actors
  /\ \A c \in Calls :
       /\ call[c].pc # "idle" => call[c].token \in Tokens
       /\ call[c].pc \in {"run", "close"} => call[c].session \in 1..built
       /\ call[c].pc = "build" <=> lock = c

Init ==
  /\ now = 0 /\ built = 0
  /\ cache = [a \in Actors |-> NoSession]
  /\ token = << >> /\ conn = << >>
  /\ lock = Nobody
  /\ call = [c \in Calls |-> IdleCall]
  /\ failed = {}

-----------------------------------------------------------------------------
Actor(c) == Owner[call[c].token]

Close(s) == conn' = IF s = NoSession THEN conn
                    ELSE [conn EXCEPT ![s] = "closed"]

Goto(c, pc) == call' = [call EXCEPT ![c].pc = pc]
Leave(c)    == call' = [call EXCEPT ![c] = IdleCall]

\* Each call builds two sessions at the most: bound on the calls.
Room == built + 2 * (1 + Cardinality({c \in Calls : call[c].pc # "idle"}))
          <= MaxSessions

\* A verified message arrives.
Start(c, t, s) ==
  /\ call[c].pc = "idle"
  /\ Room
  /\ now < Exp[t]
  /\ call' = [call EXCEPT ![c] =
       [pc |-> "get", streaming |-> s, token |-> t, session |-> NoSession,
        retry |-> FALSE, emitted |-> FALSE, shown |-> 0]]
  /\ UNCHANGED <<now, cache, built, token, conn, lock, failed>>

\* Mutant of Fresh: the caller's token is not compared.
FreshAnyToken(c) ==
  LET s == cache[Actor(c)] IN
    /\ s # NoSession
    /\ now < Exp[token[s]] - Margin

\* Mutant of Fresh: the expiry is not looked at.
FreshForever(c) ==
  LET s == cache[Actor(c)] IN
    /\ s # NoSession
    /\ token[s] = call[c].token

Fresh(c) ==
  LET s == cache[Actor(c)] IN
    /\ s # NoSession
    /\ now < Exp[token[s]] - Margin
    /\ token[s] = call[c].token

GetFresh(c) ==
  /\ call[c].pc = "get"
  /\ lock = Nobody
  /\ Fresh(c)
  /\ call' = [call EXCEPT ![c].pc = "run", ![c].session = cache[Actor(c)]]
  /\ UNCHANGED <<now, cache, built, token, conn, lock, failed>>

\* Mutant of GetStale: the stale session is only overwritten.
GetStaleUnclosed(c) ==
  /\ call[c].pc = "get"
  /\ lock = Nobody
  /\ ~Fresh(c)
  /\ lock' = c
  /\ Goto(c, "build")
  /\ UNCHANGED <<now, cache, built, token, conn, failed>>

\* The connection of the stale session is dropped before the new one is
\* built; the cache keeps it until then.
GetStale(c) ==
  /\ call[c].pc = "get"
  /\ lock = Nobody
  /\ ~Fresh(c)
  /\ Close(cache[Actor(c)])
  /\ lock' = c
  /\ Goto(c, "build")
  /\ UNCHANGED <<now, cache, built, token, failed>>

Extend(f, v) == [i \in 1..built + 1 |-> IF i = built + 1 THEN v ELSE f[i]]

BuildOk(c) ==
  /\ call[c].pc = "build"
  /\ now < Exp[call[c].token]
  /\ built' = built + 1
  /\ token' = Extend(token, call[c].token)
  /\ conn' = Extend(conn, "open")
  /\ cache' = [cache EXCEPT ![Actor(c)] = built + 1]
  /\ lock' = Nobody
  /\ call' = [call EXCEPT ![c].pc = "run", ![c].session = built + 1]
  /\ failed' = failed \ {Actor(c)}
  /\ UNCHANGED now

\* Whether the Gateway may refuse the token of call c.
Rejects(c) == now >= Exp[call[c].token] \/ "reject" \in Faults

\* Mutant of Fail: stream_chat retries whatever it has sent.
FailAfterOutput(c, auth) ==
  IF auth /\ ~call[c].retry THEN Goto(c, "invalidate") ELSE Leave(c)

\* Mutant of Fail: the number of retries is not limited.
FailForever(c, auth) ==
  IF auth /\ ~(call[c].streaming /\ call[c].emitted)
    THEN Goto(c, "invalidate")
    ELSE Leave(c)

\* An authorization failure is retried once, and by stream_chat only before
\* the first delta; any other failure ends the call.
Fail(c, auth) ==
  IF auth /\ ~call[c].retry /\ ~(call[c].streaming /\ call[c].emitted)
    THEN Goto(c, "invalidate")
    ELSE Leave(c)

\* Mutant of BuildFails: the lock is not released on the way out.
BuildFailsLocked(c) ==
  /\ call[c].pc = "build"
  /\ \/ Rejects(c) /\ Fail(c, TRUE)
     \/ "unavailable" \in Faults /\ Fail(c, FALSE)
  /\ UNCHANGED <<now, cache, built, token, conn, lock, failed>>

\* Connecting fails: nothing is built, and the cache is not touched.
BuildFails(c) ==
  /\ call[c].pc = "build"
  /\ \/ Rejects(c) /\ Fail(c, TRUE)
     \/ "unavailable" \in Faults /\ Fail(c, FALSE)
  /\ lock' = Nobody
  /\ failed' = failed \cup {Actor(c)}
  /\ UNCHANGED <<now, cache, built, token, conn>>

\* tools/list fails on the open connection, which nothing refers to.
ListFails(c) ==
  /\ "list_fails" \in Faults
  /\ call[c].pc = "build"
  /\ built' = built + 1
  /\ token' = Extend(token, call[c].token)
  /\ conn' = Extend(conn, "leaked")
  /\ lock' = Nobody
  /\ \E auth \in BOOLEAN : Fail(c, auth)
  /\ failed' = failed \cup {Actor(c)}
  /\ UNCHANGED <<now, cache>>

\* A delta reaches the client: stream_chat only, run_chat answers at the end.
Emit(c) ==
  /\ call[c].pc = "run"
  /\ call[c].streaming
  /\ call' = [call EXCEPT ![c].emitted = TRUE,
       ![c].shown = call[c].shown + (IF call[c].emitted THEN 0 ELSE 1)]
  /\ UNCHANGED <<now, cache, built, token, conn, lock, failed>>

Finish(c) ==
  /\ call[c].pc = "run"
  /\ Leave(c)
  /\ UNCHANGED <<now, cache, built, token, conn, lock, failed>>

\* The Gateway refuses the pinned token, or the run fails otherwise: the
\* model, or a connection that another call has closed.
RunFails(c) ==
  /\ call[c].pc = "run"
  /\ \/ Rejects(c) /\ Fail(c, TRUE)
     \/ /\ "unavailable" \in Faults \/ conn[call[c].session] = "closed"
        /\ Fail(c, FALSE)
  /\ UNCHANGED <<now, cache, built, token, conn, lock, failed>>

\* Mutant of Invalidate: the session stays in the cache (get, not pop).
InvalidateKept(c) ==
  /\ call[c].pc = "invalidate"
  /\ lock = Nobody
  /\ call' = [call EXCEPT
       ![c].pc = IF cache[Actor(c)] = NoSession THEN "get" ELSE "close",
       ![c].session = cache[Actor(c)],
       ![c].retry = TRUE, ![c].emitted = FALSE]
  /\ UNCHANGED <<now, cache, built, token, conn, lock, failed>>

\* _invalidate takes whatever session is cached now out under the lock ...
Invalidate(c) ==
  /\ call[c].pc = "invalidate"
  /\ lock = Nobody
  /\ cache' = [cache EXCEPT ![Actor(c)] = NoSession]
  /\ call' = [call EXCEPT
       ![c].pc = IF cache[Actor(c)] = NoSession THEN "get" ELSE "close",
       ![c].session = cache[Actor(c)],
       ![c].retry = TRUE, ![c].emitted = FALSE]
  /\ UNCHANGED <<now, built, token, conn, lock, failed>>

\* ... and closes it after releasing the lock.
CloseVictim(c) ==
  /\ call[c].pc = "close"
  /\ Close(call[c].session)
  /\ call' = [call EXCEPT ![c].pc = "get", ![c].session = NoSession]
  /\ UNCHANGED <<now, cache, built, token, lock, failed>>

Tick ==
  /\ now < MaxTime
  /\ now' = now + 1
  /\ UNCHANGED <<cache, built, token, conn, lock, call, failed>>

Take(c) == GetFresh(c) \/ GetStale(c) \/ Invalidate(c)

Work(c) ==
  \/ BuildOk(c) \/ BuildFails(c) \/ ListFails(c)
  \/ Finish(c) \/ RunFails(c) \/ CloseVictim(c)

Next ==
  \/ \E c \in Calls :
       \/ \E t \in Tokens, s \in BOOLEAN : Start(c, t, s)
       \/ Take(c) \/ Work(c) \/ Emit(c)
  \/ Tick

Spec == Init /\ [][Next]_vars

\* A thread that may go on does, and one that keeps finding the lock free
\* gets it; messages and time need not come.
FairSpec ==
  /\ Spec
  /\ \A c \in Calls : WF_vars(Work(c)) /\ SF_vars(Take(c))

-----------------------------------------------------------------------------
(* Safety                                                                  *)

\* A run acts with the token its own caller was verified with, whatever other
\* calls, of the same actor or of others, cache and evict meanwhile: the
\* "fresh" test compares the token, not only the actor (agent_core.py:127).
OwnToken ==
  \A c \in Calls :
    call[c].pc = "run" => token[call[c].session] = call[c].token

\* However long a call waits for the lock, its run starts with a live token:
\* a cached session is given up Margin before its token expires and a new one
\* is only built when the Gateway takes the token.
StartsLive ==
  [][\A c \in Calls :
       (call[c].pc # "run" /\ call'[c].pc = "run") =>
         now < Exp[token'[call'[c].session]]]_vars

\* "A recovery can never duplicate output that was already rendered"
\* (agent_core.py:170-171): one attempt of a call sends deltas, at the most.
NoDuplicateOutput == \A c \in Calls : call[c].shown <= 1

\* No session's connection is forgotten open, whichever calls rebuild, evict
\* and fail at once: it is the cached one of some actor or the one a call has
\* just taken out of the cache to close (agent_core.py:128-133, 139-145).  Only
\* a connection on which tools/list failed is ever leaked.
ConnectionsOwned ==
  \A s \in 1..built :
    conn[s] = "open" =>
      \/ \E a \in Actors : cache[a] = s
      \/ \E c \in Calls : call[c].pc = "close" /\ call[c].session = s

\* Whichever calls evict, close and rebuild at once, the cache only offers a
\* session without its connection while a call of its actor rebuilds it, or
\* after that has failed (agent_core.py:130-133, 139-145).
CachedConnected ==
  \A a \in Actors :
    (cache[a] # NoSession /\ conn[cache[a]] # "open") =>
      \/ a \in failed
      \/ \E c \in Calls : call[c].pc = "build" /\ Actor(c) = a

-----------------------------------------------------------------------------
(* Liveness                                                                *)

\* Every call ends: the lock is released on every path, and a token the
\* Gateway keeps refusing is retried once only (agent_core.py:154-155).
CallEnds == \A c \in Calls : (call[c].pc # "idle") ~> (call[c].pc = "idle")

-----------------------------------------------------------------------------
(* What the repository says and the code does not do                       *)

\* "Persistent connection for the session's lifetime" (agent_core.py:103): no
\* run loses its connection while it goes on.
RunsConnected ==
  \A c \in Calls : call[c].pc = "run" => conn[call[c].session] = "open"
=============================================================================

------------------------ MODULE IdentityTableProofs ------------------------
(* The inductive invariant of IdentityTable and what follows from it.       *)
EXTENDS IdentityTable, TLAPS

-----------------------------------------------------------------------------
(* The inductive invariant                                                 *)

\* What an invocation may rely on between its calls: what it has seen of the
\* allowlist, and the puts that precede the next one.
RequestInv(r) ==
  /\ task[r].user \in allow => task[r].permitted
  /\ task[r].pc \in {"put_profile", "put_channel"} => Open \/ task[r].permitted
  /\ task[r].pc = "put_channel" => task[r].user \in profile
  /\ (task[r].pc = "put_session" /\ session[task[r].user] # NoSession) =>
       r \in racers[task[r].user]

IInv ==
  /\ TypeOK
  /\ \A r \in Requests : RequestInv(r)
  /\ RegisteredWhole

-----------------------------------------------------------------------------
LEMMA IdleTaskFacts ==
  /\ IdleTask \in Task /\ IdleTask.pc = "idle" /\ IdleTask.user = NoUser
  /\ NoUser \notin OpenIds
BY IdentityTableAssumption DEF IdleTask, Task, NoSession

\* The invocation leaves; the table may have changed before.
LEMMA LeaveFacts ==
  ASSUME TypeOK, NEW r \in Requests, Leave(r)
  PROVE  /\ task' \in [Requests -> Task] /\ task'[r] = IdleTask
         /\ \A q \in Requests \ {r} : task'[q] = task[q]
         /\ racers' \in [OpenIds -> SUBSET Requests]
         /\ \A u \in OpenIds, q \in Requests \ {r} :
              q \in racers[u] => q \in racers'[u]
BY IdleTaskFacts DEF Leave, TypeOK

\* The invocation goes on to its next call.
LEMMA GotoFacts ==
  ASSUME TypeOK, NEW r \in Requests,
         NEW pc \in {"channel", "allow", "put_profile", "put_channel",
                     "put_reverse", "session"}, Goto(r, pc)
  PROVE  /\ task' \in [Requests -> Task]
         /\ task'[r].pc = pc /\ task'[r].user = task[r].user
         /\ task'[r].permitted = task[r].permitted
         /\ \A q \in Requests \ {r} : task'[q] = task[q]
<1>1. task \in [Requests -> Task]
  BY DEF TypeOK
<1>2. [task[r] EXCEPT !.pc = pc] \in Task
  BY <1>1 DEF Task
<1>3. task' = [task EXCEPT ![r] = [task[r] EXCEPT !.pc = pc]]
  BY <1>1 DEF Goto
<1>. QED
  BY <1>1, <1>2, <1>3 DEF Task

\* resolve_user returns.
LEMMA AfterResolveFacts ==
  ASSUME TypeOK, NEW r \in Requests, AfterResolve(r)
  PROVE  /\ task' \in [Requests -> Task]
         /\ \/ task'[r] = IdleTask
            \/ /\ task'[r].pc = "session" /\ task'[r].user = task[r].user
               /\ task'[r].permitted = task[r].permitted
         /\ \A q \in Requests \ {r} : task'[q] = task[q]
         /\ racers' \in [OpenIds -> SUBSET Requests]
         /\ \A u \in OpenIds, q \in Requests \ {r} :
              q \in racers[u] => q \in racers'[u]
<1>1. CASE task[r].login
  BY <1>1, LeaveFacts DEF AfterResolve
<1>2. CASE ~task[r].login
  BY <1>2, GotoFacts DEF AfterResolve, TypeOK
<1>. QED
  BY <1>1, <1>2

\* The request is served under the session id it has in hand.
LEMMA ServeFacts ==
  ASSUME TypeOK, NEW r \in Requests, Serve(r),
         task[r].pc \in {"touch", "put_session"}
  PROVE  /\ task' \in [Requests -> Task] /\ task'[r] = IdleTask
         /\ \A q \in Requests \ {r} : task'[q] = task[q]
         /\ given' \in [OpenIds -> SUBSET (1..minted)]
         /\ task[r].user \in OpenIds /\ task[r].sid \in 1..minted
BY IdleTaskFacts DEF Serve, TypeOK

-----------------------------------------------------------------------------
(* Every step preserves it                                                 *)

LEMMA InitInv == Init => IInv
BY IdleTaskFacts DEF Init, IInv, TypeOK, RequestInv, RegisteredWhole,
                     NoSession, IdleTask

LEMMA BeginStep ==
  ASSUME IInv, NEW r \in Requests, NEW u \in OpenIds, NEW login \in BOOLEAN,
         Begin(r, u, login)
  PROVE  IInv'
<1>1. TypeOK'
  BY DEF IInv, TypeOK, Begin, table, Task, NoSession
<1>2. \A q \in Requests : RequestInv(q)'
  BY DEF IInv, TypeOK, RequestInv, Begin, table
<1>3. RegisteredWhole'
  BY DEF IInv, TypeOK, RegisteredWhole, Begin, table, Under
<1>. QED
  BY <1>1, <1>2, <1>3 DEF IInv

LEMMA ReadChannelStep ==
  ASSUME IInv, NEW r \in Requests, ReadChannel(r)
  PROVE  IInv'
<1>1. TypeOK
  BY DEF IInv
<1>2. /\ task' \in [Requests -> Task]
      /\ \/ task'[r] = IdleTask
         \/ /\ task'[r].pc \in {"session", "allow"}
            /\ task'[r].user = task[r].user
            /\ task'[r].permitted = task[r].permitted
      /\ \A q \in Requests \ {r} : task'[q] = task[q]
      /\ racers' \in [OpenIds -> SUBSET Requests]
      /\ \A u \in OpenIds, q \in Requests \ {r} :
           q \in racers[u] => q \in racers'[u]
  <2>1. CASE task[r].user \in channel
    BY <1>1, <2>1, AfterResolveFacts DEF ReadChannel
  <2>2. CASE task[r].user \notin channel
    BY <1>1, <2>2, GotoFacts DEF ReadChannel, TypeOK
  <2>. QED
    BY <2>1, <2>2
<1>3. TypeOK'
  BY <1>2, IdleTaskFacts DEF IInv, TypeOK, ReadChannel, table, Under
<1>4. \A q \in Requests : RequestInv(q)'
  BY <1>2, IdleTaskFacts DEF IInv, TypeOK, RequestInv, ReadChannel, table
<1>5. RegisteredWhole'
  BY <1>2, IdleTaskFacts DEF IInv, RegisteredWhole, ReadChannel, table, Under
<1>. QED
  BY <1>3, <1>4, <1>5 DEF IInv

LEMMA ReadAllowStep ==
  ASSUME IInv, NEW r \in Requests, ReadAllow(r)
  PROVE  IInv'
<1>1. TypeOK
  BY DEF IInv
<1>2. /\ task' \in [Requests -> Task]
      /\ \/ task'[r] = IdleTask
         \/ /\ task'[r].pc = "put_profile" /\ task'[r].user = task[r].user
            /\ task'[r].permitted = task[r].permitted
            /\ Allowed(task[r].user)
      /\ \A q \in Requests \ {r} : task'[q] = task[q]
      /\ racers' \in [OpenIds -> SUBSET Requests]
      /\ \A u \in OpenIds, q \in Requests \ {r} :
           q \in racers[u] => q \in racers'[u]
  <2>1. CASE Allowed(task[r].user)
    BY <1>1, <2>1, GotoFacts DEF ReadAllow, TypeOK
  <2>2. CASE ~Allowed(task[r].user)
    BY <1>1, <2>2, LeaveFacts DEF ReadAllow
  <2>. QED
    BY <2>1, <2>2
<1>3. TypeOK'
  BY <1>2, IdleTaskFacts DEF IInv, TypeOK, ReadAllow, table, Under
<1>4. \A q \in Requests : RequestInv(q)'
  BY <1>2, IdleTaskFacts DEF IInv, TypeOK, RequestInv, ReadAllow, table,
                             Allowed, Under
<1>5. RegisteredWhole'
  BY <1>2, IdleTaskFacts DEF IInv, RegisteredWhole, ReadAllow, table, Under
<1>. QED
  BY <1>3, <1>4, <1>5 DEF IInv

LEMMA PutProfileStep ==
  ASSUME IInv, NEW r \in Requests, PutProfile(r)
  PROVE  IInv'
<1>1. /\ task' \in [Requests -> Task]
      /\ task'[r].pc = "put_channel" /\ task'[r].user = task[r].user
      /\ task'[r].permitted = task[r].permitted
      /\ \A q \in Requests \ {r} : task'[q] = task[q]
  BY GotoFacts DEF PutProfile, IInv
<1>2. TypeOK'
  BY <1>1 DEF IInv, TypeOK, PutProfile, Under
<1>3. \A q \in Requests : RequestInv(q)'
  BY <1>1 DEF IInv, TypeOK, RequestInv, PutProfile, Under
<1>4. RegisteredWhole'
  BY <1>1 DEF IInv, RegisteredWhole, PutProfile, Under
<1>. QED
  BY <1>2, <1>3, <1>4 DEF IInv

LEMMA PutChannelStep ==
  ASSUME IInv, NEW r \in Requests, PutChannel(r)
  PROVE  IInv'
<1>1. /\ task' \in [Requests -> Task]
      /\ task'[r].pc = "put_reverse" /\ task'[r].user = task[r].user
      /\ task'[r].permitted = task[r].permitted
      /\ \A q \in Requests \ {r} : task'[q] = task[q]
  BY GotoFacts DEF PutChannel, IInv
<1>2. TypeOK'
  BY <1>1 DEF IInv, TypeOK, PutChannel, Under
<1>3. \A q \in Requests : RequestInv(q)'
  BY <1>1 DEF IInv, TypeOK, RequestInv, PutChannel, Under
<1>4. RegisteredWhole'
  BY <1>1 DEF IInv, RegisteredWhole, RequestInv, PutChannel, Under
<1>. QED
  BY <1>2, <1>3, <1>4 DEF IInv

LEMMA PutReverseStep ==
  ASSUME IInv, NEW r \in Requests, PutReverse(r)
  PROVE  IInv'
<1>1. /\ task' \in [Requests -> Task]
      /\ \/ task'[r] = IdleTask
         \/ /\ task'[r].pc = "session" /\ task'[r].user = task[r].user
            /\ task'[r].permitted = task[r].permitted
      /\ \A q \in Requests \ {r} : task'[q] = task[q]
      /\ racers' \in [OpenIds -> SUBSET Requests]
      /\ \A u \in OpenIds, q \in Requests \ {r} :
           q \in racers[u] => q \in racers'[u]
  BY AfterResolveFacts DEF PutReverse, IInv
<1>2. TypeOK'
  BY <1>1, IdleTaskFacts DEF IInv, TypeOK, PutReverse, Under
<1>3. \A q \in Requests : RequestInv(q)'
  BY <1>1, IdleTaskFacts DEF IInv, TypeOK, RequestInv, PutReverse, Under
<1>4. RegisteredWhole'
  BY <1>1, IdleTaskFacts DEF IInv, RegisteredWhole, PutReverse, Under
<1>. QED
  BY <1>2, <1>3, <1>4 DEF IInv

LEMMA ReadSessionStep ==
  ASSUME IInv, NEW r \in Requests, ReadSession(r)
  PROVE  IInv'
<1>1. /\ task[r].pc = "session" /\ task[r].user \in OpenIds
      /\ task \in [Requests -> Task]
      /\ session[task[r].user] \in 0..minted /\ minted \in Nat
  BY DEF IInv, TypeOK, ReadSession, Under
<1>2. PICK pc \in {"touch", "put_session"}, s \in Nat :
        /\ task' = [task EXCEPT ![r].pc = pc, ![r].sid = s]
        /\ minted' \in Nat /\ minted <= minted' /\ s \in 1..minted'
        /\ pc = "put_session" => session[task[r].user] = NoSession
  BY <1>1 DEF ReadSession, NoSession
<1>3. [task[r] EXCEPT !.pc = pc, !.sid = s] \in Task
  BY <1>1 DEF Task
<1>4. /\ task' \in [Requests -> Task]
      /\ task'[r].pc = pc /\ task'[r].sid = s /\ task'[r].user = task[r].user
      /\ \A q \in Requests \ {r} : task'[q] = task[q]
  BY <1>1, <1>2, <1>3 DEF Task
<1>5. UNCHANGED <<allow, profile, channel, reverse, session, admin, torn,
                  given, racers>>
  BY DEF ReadSession, table
<1>6. TypeOK'
  <2>1. /\ session' \in [OpenIds -> 0..minted']
        /\ given' \in [OpenIds -> SUBSET (1..minted')]
    BY <1>1, <1>2, <1>5 DEF IInv, TypeOK
  <2>2. \A q \in Requests :
          /\ task'[q].pc # "idle" => task'[q].user \in OpenIds
          /\ task'[q].pc \in {"touch", "put_session"} =>
               task'[q].sid \in 1..minted'
    BY <1>1, <1>2, <1>4 DEF IInv, TypeOK
  <2>. QED
    BY <1>2, <1>4, <1>5, <2>1, <2>2 DEF IInv, TypeOK
<1>7. \A q \in Requests : RequestInv(q)'
  BY <1>1, <1>2, <1>4, <1>5 DEF IInv, RequestInv
<1>8. RegisteredWhole'
  BY <1>1, <1>4, <1>5 DEF IInv, RegisteredWhole, Under
<1>. QED
  BY <1>6, <1>7, <1>8 DEF IInv

LEMMA TouchSessionStep ==
  ASSUME IInv, NEW r \in Requests, TouchSession(r)
  PROVE  IInv'
<1>1. /\ task' \in [Requests -> Task] /\ task'[r] = IdleTask
      /\ \A q \in Requests \ {r} : task'[q] = task[q]
      /\ given' \in [OpenIds -> SUBSET (1..minted)]
  BY ServeFacts DEF TouchSession, Under, IInv
<1>2. TypeOK'
  BY <1>1, IdleTaskFacts DEF IInv, TypeOK, TouchSession, table
<1>3. \A q \in Requests : RequestInv(q)'
  BY <1>1, IdleTaskFacts DEF IInv, TypeOK, RequestInv, TouchSession, table
<1>4. RegisteredWhole'
  BY <1>1, IdleTaskFacts DEF IInv, RegisteredWhole, TouchSession, table, Under
<1>. QED
  BY <1>2, <1>3, <1>4 DEF IInv

LEMMA PutSessionStep ==
  ASSUME IInv, NEW r \in Requests, PutSession(r)
  PROVE  IInv'
<1>. PICK u \in OpenIds : u = task[r].user
  BY DEF PutSession, Under, IInv, TypeOK
<1>1. /\ task' \in [Requests -> Task] /\ task'[r] = IdleTask
      /\ \A q \in Requests \ {r} : task'[q] = task[q]
      /\ given' \in [OpenIds -> SUBSET (1..minted)]
      /\ task[r].sid \in 1..minted
  BY ServeFacts DEF PutSession, Under, IInv
<1>2. /\ racers' \in [OpenIds -> SUBSET Requests]
      /\ \A v \in OpenIds, q \in Requests \ {r} :
           q \in racers[v] /\ (v = u => session[u] # NoSession)
             => q \in racers'[v]
      /\ session[u] = NoSession =>
           \A q \in Requests \ {r} : task[q].user = u => q \in racers'[u]
  BY DEF PutSession, IInv, TypeOK
<1>3. /\ session' = [session EXCEPT ![u] = task[r].sid]
      /\ UNCHANGED <<allow, profile, channel, reverse, minted, admin, torn>>
  BY DEF PutSession
<1>4. TypeOK'
  <2>1. session' \in [OpenIds -> 0..minted]
    BY <1>1, <1>3 DEF IInv, TypeOK
  <2>. QED
    BY <1>1, <1>2, <1>3, <2>1, IdleTaskFacts DEF IInv, TypeOK
<1>5. ASSUME NEW q \in Requests PROVE RequestInv(q)'
  <2>1. CASE q = r
    BY <1>1, <1>3, <2>1, IdleTaskFacts DEF RequestInv, IInv, TypeOK
  <2>2. CASE q # r
    <3>1. task'[q] = task[q]
      BY <1>1, <2>2
    <3>2. CASE task[q].user = u
      BY <1>2, <1>3, <2>2, <3>1, <3>2 DEF IInv, TypeOK, RequestInv
    <3>3. CASE task[q].pc = "put_session" /\ task[q].user # u
      BY <1>2, <1>3, <2>2, <3>1, <3>3 DEF IInv, TypeOK, RequestInv
    <3>4. CASE task[q].pc # "put_session"
      BY <1>3, <3>1, <3>4 DEF IInv, RequestInv
    <3>. QED
      BY <3>2, <3>3, <3>4
  <2>. QED
    BY <2>1, <2>2
<1>6. RegisteredWhole'
  BY <1>1, <1>3, IdleTaskFacts DEF IInv, RegisteredWhole, PutSession, Under
<1>. QED
  BY <1>4, <1>5, <1>6 DEF IInv

LEMMA CrashStep ==
  ASSUME IInv, NEW r \in Requests, Crash(r)
  PROVE  IInv'
<1>1. /\ task' \in [Requests -> Task] /\ task'[r] = IdleTask
      /\ \A q \in Requests \ {r} : task'[q] = task[q]
      /\ racers' \in [OpenIds -> SUBSET Requests]
      /\ \A u \in OpenIds, q \in Requests \ {r} :
           q \in racers[u] => q \in racers'[u]
  BY LeaveFacts DEF Crash, IInv
<1>2. TypeOK'
  BY <1>1, IdleTaskFacts DEF IInv, TypeOK, Crash, table, Under
<1>3. \A q \in Requests : RequestInv(q)'
  BY <1>1, IdleTaskFacts DEF IInv, TypeOK, RequestInv, Crash, table
<1>4. RegisteredWhole'
  BY <1>1, IdleTaskFacts DEF IInv, RegisteredWhole, Crash, table, Under
<1>. QED
  BY <1>2, <1>3, <1>4 DEF IInv

LEMMA AdminStep ==
  ASSUME IInv, NEW u \in OpenIds, AllowAdd(u) \/ AllowRemove(u)
  PROVE  IInv'
<1>1. /\ task' \in [Requests -> Task]
      /\ \A q \in Requests : /\ task'[q].pc = task[q].pc
                             /\ task'[q].user = task[q].user
                             /\ task'[q].sid = task[q].sid
                             /\ task[q].permitted => task'[q].permitted
                             /\ task[q].user \in allow' \ allow =>
                                  task'[q].permitted
  <2>1. task \in [Requests -> Task]
    BY DEF IInv, TypeOK
  <2>2. CASE AllowAdd(u)
    BY <2>1, <2>2 DEF AllowAdd, Task
  <2>3. CASE AllowRemove(u)
    BY <2>1, <2>3 DEF AllowRemove
  <2>. QED
    BY <2>2, <2>3
<1>2. UNCHANGED <<profile, channel, reverse, session, minted, torn, given, racers>>
  BY DEF AllowAdd, AllowRemove
<1>3. TypeOK'
  BY <1>1, <1>2 DEF IInv, TypeOK, AllowAdd, AllowRemove
<1>4. \A q \in Requests : RequestInv(q)'
  BY <1>1, <1>2 DEF IInv, RequestInv
<1>5. RegisteredWhole'
  BY <1>1, <1>2 DEF IInv, RegisteredWhole, Under
<1>. QED
  BY <1>3, <1>4, <1>5 DEF IInv

LEMMA NextInv == IInv /\ [Next]_vars => IInv'
<1>. SUFFICES ASSUME IInv, [Next]_vars PROVE IInv'
  OBVIOUS
<1>1. ASSUME NEW r \in Requests, NEW u \in OpenIds,
             BeginServe(r, u) \/ BeginLogin(r, u)
      PROVE  IInv'
  BY <1>1, BeginStep DEF BeginServe, BeginLogin
<1>2. ASSUME NEW r \in Requests, Resolve(r) PROVE IInv'
  BY <1>2, ReadChannelStep, ReadAllowStep, PutProfileStep, PutChannelStep,
     PutReverseStep DEF Resolve
<1>3. ASSUME NEW r \in Requests, GetOrCreateSession(r) PROVE IInv'
  BY <1>3, ReadSessionStep, TouchSessionStep, PutSessionStep
     DEF GetOrCreateSession
<1>4. ASSUME NEW r \in Requests, Crash(r) PROVE IInv'
  BY <1>4, CrashStep
<1>5. ASSUME NEW u \in OpenIds, AllowAdd(u) \/ AllowRemove(u) PROVE IInv'
  BY <1>5, AdminStep
<1>6. CASE UNCHANGED vars
  BY <1>6 DEF vars, table, IInv, TypeOK, RequestInv, RegisteredWhole, Under
<1>. QED
  BY <1>1, <1>2, <1>3, <1>4, <1>5, <1>6 DEF Next

\* The inductive invariant holds in every reachable state.
THEOREM Invariance == Spec => []IInv
BY InitInv, NextInv, PTL DEF Spec

-----------------------------------------------------------------------------
(* The theorems                                                            *)

\* Every variable keeps to its type (router/identity.py, web_api/identity.py).
THEOREM TypeCorrectness == Spec => []TypeOK
<1>1. IInv => TypeOK
  BY DEF IInv
<1>. QED
  BY <1>1, Invariance, PTL

\* Whoever resolves to a user has a profile and, but for a crash, a reverse
\* entry (router/identity.py 49-63).
THEOREM WholeRegistration == Spec => []RegisteredWhole
<1>1. IInv => RegisteredWhole
  BY DEF IInv
<1>. QED
  BY <1>1, Invariance, PTL

\* Only users on the allowlist are registered (router/identity.py 45-58).
THEOREM AdmissionByAllowlist == Spec => AdmitsOnlyAllowed
<1>1. ASSUME IInv, [Next]_vars, NEW u \in channel' \ channel
      PROVE  \/ Open
             \/ \E r \in Requests : task[r].user = u /\ task[r].permitted
  <2>1. PICK r \in Requests : PutChannel(r)
    BY <1>1 DEF Next, vars, table, BeginServe, BeginLogin, Begin, Resolve,
       ReadChannel, ReadAllow, PutProfile, PutReverse, GetOrCreateSession,
       ReadSession, TouchSession, PutSession, Crash, AllowAdd, AllowRemove
  <2>. QED
    BY <1>1, <2>1 DEF PutChannel, Under, IInv, RequestInv
<1>2. IInv /\ [Next]_vars =>
        [\A u \in channel' \ channel :
           \/ Open
           \/ \E r \in Requests : task[r].user = u /\ task[r].permitted]_vars
  BY <1>1
<1>. QED
  BY <1>2, Invariance, PTL DEF Spec, AdmitsOnlyAllowed

\* A stored session id is only replaced by the requests that raced for the
\* first one (router/identity.py 66-85).
THEOREM SessionSettling == Spec => SessionSettles
<1>1. ASSUME IInv, [Next]_vars, NEW u \in OpenIds,
             session[u] # NoSession, session'[u] # session[u]
      PROVE  \E r \in racers[u] : Under(r, "put_session") /\ task[r].user = u
  <2>1. PICK r \in Requests : PutSession(r)
    BY <1>1 DEF Next, vars, table, BeginServe, BeginLogin, Begin, Resolve,
       ReadChannel, ReadAllow, PutProfile, PutChannel, PutReverse,
       GetOrCreateSession, ReadSession, TouchSession, Crash, AllowAdd,
       AllowRemove
  <2>2. task[r].user = u /\ Under(r, "put_session")
    BY <1>1, <2>1 DEF PutSession, IInv, TypeOK
  <2>. QED
    BY <1>1, <2>2 DEF Under, IInv, RequestInv
<1>2. IInv /\ [Next]_vars =>
        [\A u \in OpenIds :
           (session[u] # NoSession /\ session'[u] # session[u]) =>
             \E r \in racers[u] : Under(r, "put_session") /\ task[r].user = u]_vars
  BY <1>1
<1>. QED
  BY <1>2, Invariance, PTL DEF Spec, SessionSettles
=============================================================================

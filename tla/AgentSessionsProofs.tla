------------------------ MODULE AgentSessionsProofs ------------------------
(* The inductive invariant of AgentSessions and what follows from it.       *)
EXTENDS AgentSessionsRefinement, TLAPS

-----------------------------------------------------------------------------
(* The inductive invariant                                                 *)

\* What a call in a thread may rely on between its steps.
CallInv(c) ==
  /\ call[c].shown = IF call[c].emitted THEN 1 ELSE 0
  /\ call[c].pc \in {"idle", "get", "build", "invalidate", "close"} =>
       ~(call[c].streaming /\ call[c].emitted)
  /\ call[c].emitted => call[c].streaming
  /\ call[c].pc = "run" => token[call[c].session] = call[c].token

\* Until the rebuild is over the cache names a session without connection.
BuildInv ==
  \A c \in Calls :
    call[c].pc = "build" =>
      \/ cache[Actor(c)] = NoSession
      \/ conn[cache[Actor(c)]] = "closed"

IInv ==
  /\ TypeOK
  /\ \A c \in Calls : CallInv(c)
  /\ BuildInv

-----------------------------------------------------------------------------
LEMMA Constants ==
  /\ Owner \in [Tokens -> Actors] /\ Exp \in [Tokens -> Nat]
  /\ Margin \in Nat /\ Nobody \notin Calls /\ NoToken \notin Tokens
BY AgentSessionsAssumption

LEMMA IdleCallFields ==
  /\ IdleCall \in Call /\ IdleCall.pc = "idle" /\ IdleCall.shown = 0
  /\ ~IdleCall.emitted
BY DEF IdleCall, Call, NoSession

\* A new session takes the next number and leaves the others alone.
LEMMA ExtendFacts ==
  ASSUME built \in Nat, NEW S, NEW f \in [1..built -> S], NEW v \in S
  PROVE  /\ Extend(f, v) \in [1..built + 1 -> S]
         /\ Extend(f, v)[built + 1] = v
         /\ \A i \in 1..built : Extend(f, v)[i] = f[i]
BY DEF Extend

\* ... whether it is cached or, its tools unlisted, forgotten.
LEMMA NewSession ==
  ASSUME TypeOK, NEW t \in Tokens, built' = built + 1,
         NEW v \in {"open", "leaked"},
         token' = Extend(token, t), conn' = Extend(conn, v)
  PROVE  /\ built' \in Nat /\ built <= built'
         /\ token' \in [1..built' -> Tokens] /\ token'[built'] = t
         /\ conn' \in [1..built' -> {"open", "closed", "leaked"}]
         /\ \A i \in 1..built : token'[i] = token[i] /\ conn'[i] = conn[i]
<1>1. built \in Nat /\ token \in [1..built -> Tokens]
  BY DEF TypeOK
<1>2. /\ token' \in [1..built + 1 -> Tokens] /\ token'[built + 1] = t
      /\ \A i \in 1..built : token'[i] = token[i]
  BY <1>1 DEF Extend
<1>3. /\ conn \in [1..built -> {"open", "closed", "leaked"}]
      /\ v \in {"open", "closed", "leaked"}
  BY DEF TypeOK
<1>4. /\ Extend(conn, v) \in [1..built + 1 -> {"open", "closed", "leaked"}]
      /\ \A i \in 1..built : Extend(conn, v)[i] = conn[i]
  BY <1>1, <1>3 DEF Extend
<1>. QED
  BY <1>1, <1>2, <1>4

LEMMA InitInv == Init => IInv
<1>. SUFFICES ASSUME Init PROVE IInv
  OBVIOUS
<1>1. TypeOK
  BY IdleCallFields, Constants DEF Init, TypeOK, NoSession
<1>2. \A c \in Calls : CallInv(c)
  BY IdleCallFields DEF Init, CallInv
<1>3. BuildInv
  BY IdleCallFields DEF Init, BuildInv
<1>. QED
  BY <1>1, <1>2, <1>3 DEF IInv

LEMMA StartStep ==
  ASSUME IInv, NEW c \in Calls, NEW t \in Tokens, NEW s \in BOOLEAN,
         Start(c, t, s)
  PROVE  IInv'
<1>1. TypeOK'
  BY Constants DEF IInv, TypeOK, Start, Call, NoSession
<1>2. \A d \in Calls : CallInv(d)'
  BY DEF IInv, TypeOK, Start, CallInv
<1>3. BuildInv'
  BY DEF IInv, TypeOK, Start, BuildInv, Actor
<1>. QED
  BY <1>1, <1>2, <1>3 DEF IInv

LEMMA GetFreshStep ==
  ASSUME IInv, NEW c \in Calls, GetFresh(c)
  PROVE  IInv'
<1>1. Actor(c) \in Actors /\ cache[Actor(c)] \in 1..built
  BY Constants DEF IInv, TypeOK, GetFresh, Fresh, Actor, NoSession
<1>2. TypeOK'
  <2>1. call \in [Calls -> Call] /\ cache[Actor(c)] \in Nat
    BY <1>1 DEF IInv, TypeOK
  <2>2. call' \in [Calls -> Call]
    BY ZenonT(60), <2>1 DEF GetFresh, Call
  <2>3. \A d \in Calls :
          /\ call'[d].pc = (IF d = c THEN "run" ELSE call[d].pc)
          /\ call'[d].token = call[d].token
          /\ call'[d].session = IF d = c THEN cache[Actor(c)] ELSE call[d].session
    BY <2>1 DEF GetFresh, Call
  <2>4. call[c].pc = "get"
    BY DEF GetFresh
  <2>. QED
    BY <1>1, <2>2, <2>3, <2>4, Constants DEF IInv, TypeOK, GetFresh
<1>3. \A d \in Calls : CallInv(d)'
  BY <1>1 DEF IInv, TypeOK, GetFresh, Fresh, CallInv, Call
<1>4. BuildInv'
  BY DEF IInv, TypeOK, GetFresh, BuildInv, Actor, Call
<1>. QED
  BY <1>2, <1>3, <1>4 DEF IInv

LEMMA GetStaleStep ==
  ASSUME IInv, NEW c \in Calls, GetStale(c)
  PROVE  IInv'
<1>1. Actor(c) \in Actors /\ cache[Actor(c)] \in 0..built
  BY Constants DEF IInv, TypeOK, GetStale, Actor
<1>2. /\ conn' \in [1..built -> {"open", "closed", "leaked"}]
      /\ cache[Actor(c)] # NoSession => conn'[cache[Actor(c)]] = "closed"
      /\ \A s \in 1..built : conn[s] = "closed" => conn'[s] = "closed"
  BY <1>1 DEF GetStale, Close, IInv, TypeOK, NoSession
<1>3. TypeOK'
  <2>1. call' \in [Calls -> Call]
    BY ZenonT(60) DEF IInv, TypeOK, GetStale, Goto, Call
  <2>2. \A d \in Calls :
          /\ call'[d].pc = (IF d = c THEN "build" ELSE call[d].pc)
          /\ call'[d].token = call[d].token
          /\ call'[d].session = call[d].session
    BY DEF IInv, TypeOK, GetStale, Goto, Call
  <2>3. \A d \in Calls : call[d].pc # "build"
    BY Constants DEF IInv, TypeOK, GetStale
  <2>. QED
    BY <1>2, <2>1, <2>2, <2>3, Constants DEF IInv, TypeOK, GetStale
<1>4. \A d \in Calls : CallInv(d)'
  BY DEF IInv, TypeOK, GetStale, Goto, CallInv, Call
<1>5. BuildInv'
  BY <1>2, Constants DEF IInv, TypeOK, GetStale, Goto, BuildInv, Actor, Call
<1>. QED
  BY <1>3, <1>4, <1>5 DEF IInv

LEMMA BuildOkStep ==
  ASSUME IInv, NEW c \in Calls, BuildOk(c)
  PROVE  IInv'
<1>1. Actor(c) \in Actors /\ call[c].token \in Tokens /\ lock = c
  BY Constants DEF IInv, TypeOK, BuildOk, Actor
<1>2. /\ token' \in [1..built' -> Tokens] /\ token'[built'] = call[c].token
      /\ \A i \in 1..built : token'[i] = token[i]
      /\ conn' \in [1..built' -> {"open", "closed", "leaked"}]
  BY <1>1, NewSession DEF BuildOk, IInv
<1>3. TypeOK'
  <2>1. /\ built \in Nat /\ built' = built + 1 /\ built + 1 \in Nat
        /\ call \in [Calls -> Call]
    BY DEF BuildOk, IInv, TypeOK
  <2>2. call' \in [Calls -> Call]
    BY ZenonT(60), <2>1 DEF BuildOk, Call
  <2>3. cache' \in [Actors -> 0..built']
    BY <1>1, <2>1 DEF BuildOk, IInv, TypeOK
  <2>4. \A d \in Calls :
          /\ call'[d].pc = (IF d = c THEN "run" ELSE call[d].pc)
          /\ call'[d].token = call[d].token
          /\ call'[d].session = (IF d = c THEN built' ELSE call[d].session)
    BY <2>1 DEF BuildOk, Call
  <2>5. \A d \in Calls : call'[d].pc # "build"
    BY <1>1, <2>4 DEF IInv, TypeOK
  <2>. QED
    BY <1>1, <1>2, <2>1, <2>2, <2>3, <2>4, <2>5, Constants
       DEF IInv, TypeOK, BuildOk
<1>4. \A d \in Calls : CallInv(d)'
  BY <1>1, <1>2 DEF IInv, TypeOK, BuildOk, CallInv, Call
<1>5. BuildInv'
  <2>1. \A d \in Calls : call'[d].pc # "build"
    BY <1>1 DEF IInv, TypeOK, BuildOk, Call
  <2>. QED
    BY <2>1 DEF BuildInv
<1>. QED
  BY <1>3, <1>4, <1>5 DEF IInv

\* What a failure does to its call.
LEMMA FailFacts ==
  ASSUME IInv, NEW c \in Calls, NEW auth \in BOOLEAN, Fail(c, auth)
  PROVE  /\ call' \in [Calls -> Call]
         /\ \A d \in Calls \ {c} : call'[d] = call[d]
         /\ \/ call'[c] = IdleCall
            \/ /\ call'[c].pc = "invalidate"
               /\ call'[c].token = call[c].token
               /\ call'[c].shown = call[c].shown
               /\ call'[c].emitted = call[c].emitted
               /\ call'[c].streaming = call[c].streaming
               /\ ~(call[c].streaming /\ call[c].emitted)
<1>1. call \in [Calls -> Call]
  BY DEF IInv, TypeOK
<1>2. CASE Leave(c)
  BY <1>1, <1>2, IdleCallFields DEF Leave
<1>3. CASE Goto(c, "invalidate") /\ ~(call[c].streaming /\ call[c].emitted)
  BY <1>1, <1>3 DEF Goto, Call
<1>. QED
  BY <1>2, <1>3 DEF Fail

LEMMA FailStep ==
  ASSUME IInv, NEW c \in Calls, call[c].pc \in {"build", "run"},
         NEW auth \in BOOLEAN, Fail(c, auth),
         lock' = IF call[c].pc = "build" THEN Nobody ELSE lock,
         UNCHANGED <<now, cache>>, failed' \subseteq Actors,
         built' \in Nat, built <= built',
         token' \in [1..built' -> Tokens],
         conn' \in [1..built' -> {"open", "closed", "leaked"}],
         \A i \in 1..built : token'[i] = token[i] /\ conn'[i] = conn[i]
  PROVE  IInv'
<1>1. call' \in [Calls -> Call] /\ \A d \in Calls \ {c} : call'[d] = call[d]
  BY FailFacts
<1>2. /\ call'[c].pc \in {"idle", "invalidate"}
      /\ call'[c].pc # "idle" => call'[c].token \in Tokens
  BY FailFacts, IdleCallFields DEF IInv, TypeOK
<1>3. TypeOK'
  BY <1>1, <1>2, Constants DEF IInv, TypeOK, NoSession
<1>4. \A d \in Calls : CallInv(d)'
  <2>1. CallInv(c)'
    BY FailFacts, IdleCallFields DEF IInv, CallInv
  <2>2. ASSUME NEW d \in Calls, d # c PROVE CallInv(d)'
    BY <1>1, <2>2 DEF IInv, TypeOK, CallInv
  <2>. QED
    BY <2>1, <2>2
<1>5. BuildInv'
  <2>1. ASSUME NEW d \in Calls, call'[d].pc = "build"
        PROVE  call'[d] = call[d] /\ Actor(d) \in Actors
    BY <1>1, <1>2, <2>1, Constants DEF IInv, TypeOK, Actor
  <2>2. \A a \in Actors : cache[a] # NoSession => cache[a] \in 1..built
    BY DEF IInv, TypeOK, NoSession
  <2>. QED
    BY <2>1, <2>2 DEF IInv, BuildInv, Actor
<1>. QED
  BY <1>3, <1>4, <1>5 DEF IInv

LEMMA FailureSteps ==
  ASSUME IInv, NEW c \in Calls, BuildFails(c) \/ ListFails(c) \/ RunFails(c)
  PROVE  IInv'
<1>1. CASE BuildFails(c)
  <2>1. PICK auth \in BOOLEAN : Fail(c, auth)
    BY <1>1 DEF BuildFails
  <2>2. failed' \subseteq Actors
    BY <1>1, Constants DEF BuildFails, IInv, TypeOK, Actor
  <2>. QED
    BY <1>1, <2>1, <2>2, FailStep DEF BuildFails, IInv, TypeOK
<1>2. CASE ListFails(c)
  <2>1. PICK auth \in BOOLEAN : Fail(c, auth)
    BY <1>2 DEF ListFails
  <2>2. call[c].token \in Tokens /\ built \in Nat
    BY <1>2 DEF ListFails, IInv, TypeOK
  <2>3. /\ built' \in Nat /\ built <= built'
        /\ token' \in [1..built' -> Tokens]
        /\ conn' \in [1..built' -> {"open", "closed", "leaked"}]
        /\ \A i \in 1..built : token'[i] = token[i] /\ conn'[i] = conn[i]
    BY <1>2, <2>2, NewSession DEF ListFails, IInv
  <2>4. failed' \subseteq Actors
    BY <1>2, Constants DEF ListFails, IInv, TypeOK, Actor
  <2>. QED
    BY <1>2, <2>1, <2>3, <2>4, FailStep DEF ListFails
<1>3. CASE RunFails(c)
  <2>1. PICK auth \in BOOLEAN : Fail(c, auth)
    BY <1>3 DEF RunFails
  <2>. QED
    BY <1>3, <2>1, FailStep DEF RunFails, IInv, TypeOK
<1>. QED
  BY <1>1, <1>2, <1>3

LEMMA EmitStep ==
  ASSUME IInv, NEW c \in Calls, Emit(c)
  PROVE  IInv'
<1>1. TypeOK'
  <2>1. call \in [Calls -> Call] /\ call[c].shown \in Nat
    BY DEF IInv, TypeOK, Call
  <2>2. call[c].shown + (IF call[c].emitted THEN 0 ELSE 1) \in Nat
    BY <2>1
  <2>. PICK n \in Nat : call' = [call EXCEPT ![c].emitted = TRUE,
                                              ![c].shown = n]
    BY <2>2 DEF Emit
  <2>3. call' \in [Calls -> Call]
    BY ZenonT(60), <2>1 DEF Call
  <2>4. \A d \in Calls : /\ call'[d].pc = call[d].pc
                         /\ call'[d].token = call[d].token
                         /\ call'[d].session = call[d].session
    BY <2>1 DEF Call
  <2>. QED
    BY <2>3, <2>4, Constants DEF IInv, TypeOK, Emit
<1>2. \A d \in Calls : CallInv(d)'
  BY DEF IInv, TypeOK, Emit, CallInv, Call
<1>3. BuildInv'
  BY DEF IInv, TypeOK, Emit, BuildInv, Actor, Call
<1>. QED
  BY <1>1, <1>2, <1>3 DEF IInv

LEMMA FinishStep ==
  ASSUME IInv, NEW c \in Calls, Finish(c)
  PROVE  IInv'
<1>1. TypeOK'
  BY IdleCallFields, Constants DEF IInv, TypeOK, Finish, Leave
<1>2. \A d \in Calls : CallInv(d)'
  BY IdleCallFields DEF IInv, TypeOK, Finish, Leave, CallInv
<1>3. BuildInv'
  BY IdleCallFields DEF IInv, TypeOK, Finish, Leave, BuildInv, Actor
<1>. QED
  BY <1>1, <1>2, <1>3 DEF IInv

LEMMA InvalidateStep ==
  ASSUME IInv, NEW c \in Calls, Invalidate(c)
  PROVE  IInv'
<1>1. Actor(c) \in Actors /\ cache[Actor(c)] \in 0..built /\ built \in Nat
  BY Constants DEF IInv, TypeOK, Invalidate, Actor
<1>2. TypeOK'
  <2>1. call \in [Calls -> Call] /\ cache[Actor(c)] \in Nat
    BY <1>1 DEF IInv, TypeOK
  <2>. PICK p \in {"get", "close"}, n \in Nat :
         /\ call' = [call EXCEPT ![c].pc = p, ![c].session = n,
                                 ![c].retry = TRUE, ![c].emitted = FALSE]
         /\ n = cache[Actor(c)]
         /\ p = "close" => cache[Actor(c)] # NoSession
    BY <2>1 DEF Invalidate
  <2>8. [call[c] EXCEPT !.pc = p, !.session = n,
                        !.retry = TRUE, !.emitted = FALSE] \in Call
    BY <2>1 DEF Call
  <2>5. call' \in [Calls -> Call]
    BY <2>1, <2>8
  <2>6. \A d \in Calls \ {c} : call'[d] = call[d]
    BY <2>1
  <2>7. /\ call'[c].pc = p /\ call'[c].token = call[c].token
        /\ call'[c].session = n
    BY <2>1 DEF Call
  <2>2. /\ call' \in [Calls -> Call]
        /\ \A d \in Calls \ {c} : call'[d] = call[d]
        /\ call'[c].pc = p /\ call'[c].token = call[c].token
        /\ call'[c].session = n
    BY <2>5, <2>6, <2>7
  <2>4. p = "close" => n \in 1..built
    BY <1>1 DEF NoSession
  <2>3. cache' \in [Actors -> 0..built] /\ call[c].pc = "invalidate"
    BY <1>1 DEF Invalidate, IInv, TypeOK, NoSession
  <2>. QED
    <3>1. \A d \in Calls :
            /\ call'[d].pc # "idle" => call'[d].token \in Tokens
            /\ call'[d].pc \in {"run", "close"} => call'[d].session \in 1..built
            /\ call'[d].pc = "build" <=> lock = d
      BY <2>2, <2>3, <2>4, Constants DEF IInv, TypeOK, Invalidate
    <3>. QED
      BY <2>2, <2>3, <3>1 DEF IInv, TypeOK, Invalidate
<1>3. \A d \in Calls : CallInv(d)'
  BY <1>1 DEF IInv, TypeOK, Invalidate, CallInv, Call
<1>4. BuildInv'
  BY <1>1, Constants DEF IInv, TypeOK, Invalidate, BuildInv, Call
<1>. QED
  BY <1>2, <1>3, <1>4 DEF IInv

LEMMA CloseVictimStep ==
  ASSUME IInv, NEW c \in Calls, CloseVictim(c)
  PROVE  IInv'
<1>1. /\ conn' \in [1..built -> {"open", "closed", "leaked"}]
      /\ \A s \in 1..built : conn[s] = "closed" => conn'[s] = "closed"
  BY DEF CloseVictim, Close, IInv, TypeOK
<1>2. TypeOK'
  <2>1. /\ call' \in [Calls -> Call]
        /\ call'[c].pc = "get"
        /\ \A d \in Calls \ {c} : call'[d] = call[d]
    BY DEF IInv, TypeOK, CloseVictim, Call, NoSession
  <2>2. call'[c].token = call[c].token /\ call[c].pc = "close"
    BY DEF IInv, TypeOK, CloseVictim, Call, NoSession
  <2>. QED
    BY <1>1, <2>1, <2>2 DEF IInv, TypeOK, CloseVictim
<1>3. \A d \in Calls : CallInv(d)'
  BY DEF IInv, TypeOK, CloseVictim, CallInv, Call
<1>4. BuildInv'
  BY <1>1, Constants DEF IInv, TypeOK, CloseVictim, BuildInv, Actor, Call,
                         NoSession
<1>. QED
  BY <1>2, <1>3, <1>4 DEF IInv

LEMMA NextInv == IInv /\ [Next]_vars => IInv'
<1>. SUFFICES ASSUME IInv, [Next]_vars PROVE IInv'
  OBVIOUS
<1>1. ASSUME NEW c \in Calls, NEW t \in Tokens, NEW s \in BOOLEAN, Start(c, t, s)
      PROVE  IInv'
  BY <1>1, StartStep
<1>2. ASSUME NEW c \in Calls, Take(c) PROVE IInv'
  BY <1>2, GetFreshStep, GetStaleStep, InvalidateStep DEF Take
<1>3. ASSUME NEW c \in Calls, Work(c) PROVE IInv'
  BY <1>3, BuildOkStep, FailureSteps, FinishStep, CloseVictimStep DEF Work
<1>4. ASSUME NEW c \in Calls, Emit(c) PROVE IInv'
  BY <1>4, EmitStep
<1>5. CASE Tick \/ UNCHANGED vars
  BY <1>5 DEF Tick, vars, IInv, TypeOK, CallInv, BuildInv, Actor
<1>. QED
  BY <1>1, <1>2, <1>3, <1>4, <1>5 DEF Next

\* The inductive invariant holds in every reachable state.
THEOREM Invariance == Spec => []IInv
BY InitInv, NextInv, PTL DEF Spec

-----------------------------------------------------------------------------
(* The theorems                                                            *)

\* Every variable keeps to its type, and the lock is held by the call that
\* builds and by no other (agent_core.py 121-143).
THEOREM TypeCorrectness == Spec => []TypeOK
<1>1. IInv => TypeOK
  BY DEF IInv
<1>. QED
  BY <1>1, Invariance, PTL

\* A run uses the token of its own caller (agent_core.py 121-134).
THEOREM ActingWithOwnToken == Spec => []OwnToken
<1>1. IInv => OwnToken
  BY DEF IInv, CallInv, OwnToken
<1>. QED
  BY <1>1, Invariance, PTL

\* A retry never repeats rendered output (agent_core.py 167-213).
THEOREM NoRepeatedOutput == Spec => []NoDuplicateOutput
<1>1. IInv => NoDuplicateOutput
  BY DEF IInv, CallInv, NoDuplicateOutput
<1>. QED
  BY <1>1, Invariance, PTL

-----------------------------------------------------------------------------
(* Connections                                                             *)

LEMMA FailKeepsClosers ==
  ASSUME IInv, NEW c \in Calls, call[c].pc \in {"build", "run"},
         NEW auth \in BOOLEAN, Fail(c, auth)
  PROVE  \A d \in Calls : call[d].pc = "close" => call'[d] = call[d]
BY FailFacts

LEMMA ConnectionsStep ==
  IInv /\ ConnectionsOwned /\ [Next]_vars => ConnectionsOwned'
<1>. SUFFICES ASSUME IInv, ConnectionsOwned, [Next]_vars,
                     NEW s \in 1..built', conn'[s] = "open"
              PROVE  \/ \E a \in Actors : cache'[a] = s
                     \/ \E d \in Calls : call'[d].pc = "close" /\ call'[d].session = s
  BY DEF ConnectionsOwned
<1>. DEFINE Owned == \/ \E a \in Actors : cache'[a] = s
                     \/ \E d \in Calls : /\ call'[d].pc = "close"
                                         /\ call'[d].session = s
<1>1. /\ built \in Nat /\ cache \in [Actors -> 0..built]
      /\ token \in [1..built -> Tokens]
      /\ conn \in [1..built -> {"open", "closed", "leaked"}]
      /\ call \in [Calls -> Call]
      /\ \A d \in Calls : call[d].pc # "idle" => Actor(d) \in Actors
  BY Constants DEF IInv, TypeOK, Actor
\* The calls that close and the cache stay as they are.
<1>2. ASSUME s \in 1..built, conn[s] = "open", UNCHANGED cache,
             \A d \in Calls : call[d].pc = "close" => call'[d] = call[d]
      PROVE  Owned
  BY <1>2 DEF ConnectionsOwned
<1>3. ASSUME NEW c \in Calls, NEW t \in Tokens, NEW b \in BOOLEAN, Start(c, t, b)
      PROVE  Owned
  BY <1>1, <1>2, <1>3 DEF Start
<1>4. ASSUME NEW c \in Calls, GetFresh(c) PROVE Owned
  BY <1>1, <1>2, <1>4 DEF GetFresh
<1>5. ASSUME NEW c \in Calls, GetStale(c) PROVE Owned
  BY <1>1, <1>2, <1>5 DEF GetStale, Close, Goto
<1>6. ASSUME NEW c \in Calls, BuildOk(c) PROVE Owned
  <2>1. /\ built' = built + 1 /\ Actor(c) \in Actors /\ call[c].pc = "build"
        /\ cache' = [cache EXCEPT ![Actor(c)] = built + 1]
        /\ \A d \in Calls : call[d].pc = "close" => call'[d] = call[d]
    BY <1>1, <1>6 DEF BuildOk
  <2>2. CASE s = built + 1
    BY <1>1, <2>1, <2>2
  <2>3. CASE s \in 1..built
    <3>1. conn[s] = "open"
      <4>1. call[c].token \in Tokens
        BY <1>6 DEF BuildOk, IInv, TypeOK
      <4>. QED
        BY <1>6, <2>3, <4>1, NewSession DEF BuildOk, IInv
    <3>2. s # cache[Actor(c)]
      BY <2>1, <2>3, <3>1 DEF IInv, BuildInv, NoSession
    <3>. QED
      BY SMTT(60), <1>1, <2>1, <2>3, <3>1, <3>2 DEF ConnectionsOwned
  <2>. QED
    BY <1>1, <2>1, <2>2, <2>3
<1>7. ASSUME NEW c \in Calls, BuildFails(c) \/ RunFails(c) PROVE Owned
  <2>1. \A d \in Calls : call[d].pc = "close" => call'[d] = call[d]
    BY <1>7, FailKeepsClosers DEF BuildFails, RunFails
  <2>. QED
    BY <1>2, <1>7, <2>1 DEF BuildFails, RunFails
<1>8. ASSUME NEW c \in Calls, ListFails(c) PROVE Owned
  <2>1. \A d \in Calls : call[d].pc = "close" => call'[d] = call[d]
    BY <1>8, FailKeepsClosers DEF ListFails
  <2>2. /\ built' = built + 1 /\ conn'[built + 1] = "leaked"
        /\ \A i \in 1..built : conn'[i] = conn[i]
    <3>1. call[c].token \in Tokens /\ built' = built + 1
      BY <1>8 DEF ListFails, IInv, TypeOK
    <3>2. \A i \in 1..built : conn'[i] = conn[i]
      BY <1>8, <3>1, NewSession DEF ListFails, IInv
    <3>3. conn'[built + 1] = "leaked"
      BY <1>1, <1>8 DEF ListFails, Extend
    <3>. QED
      BY <3>1, <3>2, <3>3
  <2>. QED
    BY <1>1, <1>2, <1>8, <2>1, <2>2 DEF ListFails
<1>9. ASSUME NEW c \in Calls, Emit(c) PROVE Owned
  BY <1>1, <1>2, <1>9 DEF Emit
<1>10. ASSUME NEW c \in Calls, Finish(c) PROVE Owned
  BY <1>1, <1>2, <1>10 DEF Finish, Leave
<1>11. ASSUME NEW c \in Calls, Invalidate(c) PROVE Owned
  <2>1. /\ s \in 1..built /\ conn[s] = "open" /\ Actor(c) \in Actors
        /\ cache' = [cache EXCEPT ![Actor(c)] = NoSession]
        /\ \A d \in Calls : call[d].pc = "close" => call'[d] = call[d]
    BY <1>1, <1>11 DEF Invalidate
  <2>2. CASE cache[Actor(c)] = s
    <3>1. call'[c].pc = "close" /\ call'[c].session = s
      BY <1>1, <1>11, <2>1, <2>2 DEF Invalidate, Call, NoSession
    <3>. QED
      BY <3>1
  <2>3. CASE cache[Actor(c)] # s
    BY SMTT(60), <1>1, <2>1, <2>3 DEF ConnectionsOwned
  <2>. QED
    BY <2>2, <2>3
<1>12. ASSUME NEW c \in Calls, CloseVictim(c) PROVE Owned
  <2>1. /\ s \in 1..built /\ conn[s] = "open" /\ s # call[c].session
        /\ UNCHANGED cache
        /\ \A d \in Calls \ {c} : call'[d] = call[d]
    BY <1>1, <1>12 DEF CloseVictim, Close, IInv, TypeOK, NoSession
  <2>. QED
    BY <2>1 DEF ConnectionsOwned
<1>13. CASE Tick \/ UNCHANGED vars
  BY <1>2, <1>13 DEF Tick, vars
<1>. QED
  BY <1>3, <1>4, <1>5, <1>6, <1>7, <1>8, <1>9, <1>10, <1>11, <1>12, <1>13
     DEF Next, Take, Work

\* No connection is forgotten open, however many threads and actors there are
\* (agent_core.py 121-145).
THEOREM NoForgottenConnection == Spec => []ConnectionsOwned
<1>1. Init => ConnectionsOwned
  BY DEF Init, ConnectionsOwned
<1>. QED
  BY <1>1, Invariance, ConnectionsStep, PTL DEF Spec

-----------------------------------------------------------------------------
(* The cache                                                               *)

\* Two actors never share a session, and one that is being closed after its
\* eviction is no actor's any more.
CacheInv ==
  /\ \A a, b \in Actors : cache[a] = cache[b] => a = b \/ cache[a] = NoSession
  /\ \A c \in Calls, a \in Actors :
       call[c].pc = "close" => cache[a] # call[c].session
  /\ CachedConnected

\* A step of call c that leaves the cache and its connections alone.
LEMMA CachedFrame ==
  ASSUME IInv, CacheInv, NEW c \in Calls, cache' = cache,
         \A i \in 1..built : conn'[i] = conn[i], failed \subseteq failed',
         \A d \in Calls \ {c} : call'[d] = call[d],
         call'[c].pc # "close",
         call[c].pc = "build" => Actor(c) \in failed'
  PROVE  CacheInv'
<1>1. cache \in [Actors -> 0..built] /\ built \in Nat
  BY DEF IInv, TypeOK
<1>2. CachedConnected'
  <2>. SUFFICES ASSUME NEW a \in Actors,
                       cache[a] # NoSession, conn'[cache[a]] # "open"
                PROVE  \/ a \in failed'
                       \/ \E d \in Calls : call'[d].pc = "build" /\ Actor(d)' = a
    BY DEF CachedConnected
  <2>1. conn[cache[a]] # "open"
    BY <1>1 DEF NoSession
  <2>2. \/ a \in failed
        \/ \E d \in Calls : call[d].pc = "build" /\ Actor(d) = a
    BY <2>1 DEF CacheInv, CachedConnected
  <2>. QED
    BY <2>2 DEF Actor
<1>3. \A d \in Calls, a \in Actors :
        call'[d].pc = "close" => cache'[a] # call'[d].session
  BY DEF CacheInv
<1>. QED
  BY <1>2, <1>3 DEF CacheInv

LEMMA GetStaleCached ==
  ASSUME IInv, CacheInv, NEW c \in Calls, GetStale(c)
  PROVE  CacheInv'
<1>1. /\ cache \in [Actors -> 0..built] /\ built \in Nat
      /\ call \in [Calls -> Call]
      /\ conn \in [1..built -> {"open", "closed", "leaked"}]
      /\ Actor(c) \in Actors
      /\ \A d \in Calls : call[d].pc # "build"
  BY Constants DEF IInv, TypeOK, Actor, GetStale
<1>2. /\ cache' = cache /\ failed' = failed
      /\ call'[c].pc = "build" /\ Actor(c)' = Actor(c)
      /\ \A d \in Calls \ {c} : call'[d] = call[d]
  BY <1>1 DEF GetStale, Goto, Actor, Call
<1>3. ASSUME NEW a \in Actors, a # Actor(c), cache[a] # NoSession
      PROVE  conn'[cache[a]] = conn[cache[a]]
  <2>1. cache[a] # cache[Actor(c)] /\ cache[a] \in 1..built
    BY <1>1, <1>3 DEF CacheInv, NoSession
  <2>. QED
    BY <1>1, <2>1 DEF GetStale, Close
<1>4. CachedConnected'
  BY <1>1, <1>2, <1>3 DEF CacheInv, CachedConnected
<1>. QED
  BY <1>2, <1>4 DEF CacheInv

LEMMA BuildOkCached ==
  ASSUME IInv, CacheInv, NEW c \in Calls, BuildOk(c)
  PROVE  CacheInv'
<1>1. /\ cache \in [Actors -> 0..built] /\ built \in Nat
      /\ call \in [Calls -> Call]
      /\ Actor(c) \in Actors /\ call[c].token \in Tokens
      /\ \A d \in Calls : call[d].pc = "close" => call[d].session \in 1..built
  BY Constants DEF IInv, TypeOK, Actor, BuildOk
<1>2. /\ cache' = [cache EXCEPT ![Actor(c)] = built + 1]
      /\ failed' = failed \ {Actor(c)}
      /\ call'[c].pc = "run"
      /\ \A d \in Calls \ {c} : call'[d] = call[d]
  BY <1>1 DEF BuildOk, Call
<1>3. conn'[built + 1] = "open" /\ \A i \in 1..built : conn'[i] = conn[i]
  <2>1. \A i \in 1..built : conn'[i] = conn[i]
    BY <1>1, NewSession DEF BuildOk, IInv
  <2>. QED
    BY <1>1, <2>1 DEF BuildOk, Extend
<1>4. ASSUME NEW a \in Actors, a # Actor(c)
      PROVE  cache'[a] = cache[a] /\ cache[a] # built + 1
  BY <1>1, <1>2, <1>4
<1>5. cache'[Actor(c)] = built + 1
  BY <1>1, <1>2
<1>6. CachedConnected'
  <2>. SUFFICES ASSUME NEW a \in Actors,
                       cache'[a] # NoSession, conn'[cache'[a]] # "open"
                PROVE  \/ a \in failed'
                       \/ \E d \in Calls : call'[d].pc = "build" /\ Actor(d)' = a
    BY DEF CachedConnected
  <2>1. a # Actor(c)
    BY <1>3, <1>5
  <2>2. conn[cache[a]] # "open" /\ cache[a] # NoSession
    BY <1>1, <1>3, <1>4, <2>1 DEF NoSession
  <2>3. \/ a \in failed
        \/ \E d \in Calls : call[d].pc = "build" /\ Actor(d) = a
    BY <2>2 DEF CacheInv, CachedConnected
  <2>. QED
    BY <1>2, <2>1, <2>3 DEF Actor
<1>7. \A d \in Calls, a \in Actors :
        call'[d].pc = "close" => cache'[a] # call'[d].session
  BY <1>1, <1>2, <1>4, <1>5 DEF CacheInv
<1>8. \A a, b \in Actors : cache'[a] = cache'[b] => a = b \/ cache'[a] = NoSession
  BY <1>4, <1>5 DEF CacheInv
<1>. QED
  BY <1>6, <1>7, <1>8 DEF CacheInv

LEMMA InvalidateCached ==
  ASSUME IInv, CacheInv, NEW c \in Calls, Invalidate(c)
  PROVE  CacheInv'
<1>1. /\ cache \in [Actors -> 0..built] /\ built \in Nat
      /\ call \in [Calls -> Call]
      /\ Actor(c) \in Actors
      /\ \A d \in Calls : call[d].pc # "build"
      /\ call[c].pc = "invalidate"
  BY Constants DEF IInv, TypeOK, Actor, Invalidate
<1>. PICK p \in {"get", "close"}, n \in Nat :
       /\ call' = [call EXCEPT ![c].pc = p, ![c].session = n,
                               ![c].retry = TRUE, ![c].emitted = FALSE]
       /\ n = cache[Actor(c)]
       /\ p = "close" => n # NoSession
  <2>1. cache[Actor(c)] \in Nat
    BY <1>1
  <2>. QED
    BY <2>1 DEF Invalidate
<1>2. /\ cache' = [cache EXCEPT ![Actor(c)] = NoSession]
      /\ failed' = failed /\ conn' = conn
      /\ call'[c].session = n /\ call'[c].pc = p
      /\ \A d \in Calls \ {c} : call'[d] = call[d]
  BY <1>1 DEF Invalidate, Call
<1>3. \A a \in Actors : cache'[a] = IF a = Actor(c) THEN NoSession ELSE cache[a]
  BY <1>1, <1>2
<1>4. CachedConnected'
  BY <1>1, <1>2, <1>3 DEF CacheInv, CachedConnected
<1>5. \A d \in Calls, a \in Actors :
        call'[d].pc = "close" => cache'[a] # call'[d].session
  <2>1. ASSUME NEW a \in Actors, p = "close" PROVE cache'[a] # n
    BY <1>1, <1>3, <2>1 DEF CacheInv
  <2>2. ASSUME NEW d \in Calls \ {c}, NEW a \in Actors, call[d].pc = "close"
        PROVE  cache'[a] # call[d].session
    BY <1>3, <2>2 DEF CacheInv, IInv, TypeOK, NoSession
  <2>. QED
    BY ZenonT(60), <1>2, <2>1, <2>2
<1>6. \A a, b \in Actors : cache'[a] = cache'[b] => a = b \/ cache'[a] = NoSession
  BY <1>3 DEF CacheInv
<1>. QED
  BY <1>4, <1>5, <1>6 DEF CacheInv

LEMMA CloseVictimCached ==
  ASSUME IInv, CacheInv, NEW c \in Calls, CloseVictim(c)
  PROVE  CacheInv'
<1>1. /\ cache \in [Actors -> 0..built] /\ built \in Nat
      /\ conn \in [1..built -> {"open", "closed", "leaked"}]
      /\ call \in [Calls -> Call] /\ call[c].pc = "close"
      /\ call[c].session \in 1..built
  BY DEF IInv, TypeOK, CloseVictim
<1>2. /\ cache' = cache /\ failed' = failed
      /\ call'[c].pc = "get"
      /\ \A d \in Calls \ {c} : call'[d] = call[d]
  BY <1>1 DEF CloseVictim, Call
<1>3. ASSUME NEW a \in Actors, cache[a] # NoSession
      PROVE  conn'[cache[a]] = conn[cache[a]]
  <2>1. cache[a] # call[c].session /\ cache[a] \in 1..built
    BY <1>1, <1>3 DEF CacheInv, NoSession
  <2>. QED
    BY <1>1, <2>1 DEF CloseVictim, Close
<1>4. CachedConnected'
  BY <1>1, <1>2, <1>3 DEF CacheInv, CachedConnected, Actor
<1>5. \A d \in Calls, a \in Actors :
        call'[d].pc = "close" => cache'[a] # call'[d].session
  BY <1>1, <1>2 DEF CacheInv
<1>. QED
  BY <1>2, <1>4, <1>5 DEF CacheInv

LEMMA CachedStep == IInv /\ CacheInv /\ [Next]_vars => CacheInv'
<1>. SUFFICES ASSUME IInv, CacheInv, [Next]_vars PROVE CacheInv'
  OBVIOUS
<1>1. call \in [Calls -> Call]
  BY DEF IInv, TypeOK
<1>2. ASSUME NEW c \in Calls, NEW t \in Tokens, NEW b \in BOOLEAN, Start(c, t, b)
      PROVE  CacheInv'
  <2>1. /\ call'[c].pc = "get" /\ call[c].pc = "idle"
        /\ \A d \in Calls \ {c} : call'[d] = call[d]
    BY <1>1, <1>2 DEF Start
  <2>. QED
    BY <1>2, <2>1, CachedFrame DEF Start
<1>3. ASSUME NEW c \in Calls, GetFresh(c) PROVE CacheInv'
  <2>1. /\ call'[c].pc = "run" /\ call[c].pc = "get"
        /\ \A d \in Calls \ {c} : call'[d] = call[d]
    BY <1>1, <1>3 DEF GetFresh, Call
  <2>. QED
    BY <1>3, <2>1, CachedFrame DEF GetFresh
<1>4. ASSUME NEW c \in Calls, BuildFails(c) \/ ListFails(c) \/ RunFails(c)
      PROVE  CacheInv'
  <2>. PICK auth \in BOOLEAN : Fail(c, auth) /\ call[c].pc \in {"build", "run"}
    BY <1>4 DEF BuildFails, ListFails, RunFails
  <2>1. /\ call'[c].pc # "close"
        /\ \A d \in Calls \ {c} : call'[d] = call[d]
    BY FailFacts, IdleCallFields
  <2>2. /\ cache' = cache /\ failed \subseteq failed'
        /\ call[c].pc = "build" => Actor(c) \in failed'
    BY <1>4 DEF BuildFails, ListFails, RunFails
  <2>3. \A i \in 1..built : conn'[i] = conn[i]
    <3>1. CASE ListFails(c)
      <4>1. call[c].token \in Tokens
        BY <3>1 DEF ListFails, IInv, TypeOK
      <4>. QED
        BY <3>1, <4>1, NewSession DEF ListFails, IInv
    <3>. QED
      BY <1>4, <3>1 DEF BuildFails, RunFails
  <2>. QED
    BY <2>1, <2>2, <2>3, CachedFrame
<1>5. ASSUME NEW c \in Calls, Emit(c) PROVE CacheInv'
  <2>1. /\ call'[c].pc = "run" /\ call[c].pc = "run"
        /\ \A d \in Calls \ {c} : call'[d] = call[d]
    <3>. PICK n : call' = [call EXCEPT ![c].emitted = TRUE, ![c].shown = n]
      BY <1>5 DEF Emit
    <3>. QED
      BY <1>1, <1>5 DEF Emit, Call
  <2>. QED
    BY <1>5, <2>1, CachedFrame DEF Emit
<1>6. ASSUME NEW c \in Calls, Finish(c) PROVE CacheInv'
  <2>1. /\ call'[c].pc = "idle" /\ call[c].pc = "run"
        /\ \A d \in Calls \ {c} : call'[d] = call[d]
    BY <1>1, <1>6, IdleCallFields DEF Finish, Leave
  <2>. QED
    BY <1>6, <2>1, CachedFrame DEF Finish
<1>7. CASE Tick \/ UNCHANGED vars
  BY <1>7 DEF Tick, vars, CacheInv, CachedConnected, Actor
<1>. QED
  BY <1>2, <1>3, <1>4, <1>5, <1>6, <1>7, GetStaleCached, BuildOkCached,
     InvalidateCached, CloseVictimCached DEF Next, Take, Work

\* The cache offers a session without its connection only while a call of its
\* actor rebuilds it or after that has failed, whatever calls of this and of
\* other actors evict and close meanwhile (agent_core.py 121-145).
THEOREM CacheStaysConnected == Spec => []CachedConnected
<1>1. Init => CacheInv
  BY IdleCallFields DEF Init, CacheInv, CachedConnected
<1>2. CacheInv => CachedConnected
  BY DEF CacheInv
<1>. QED
  BY <1>1, <1>2, Invariance, CachedStep, PTL DEF Spec

-----------------------------------------------------------------------------
(* Refinement                                                              *)

\* A step of call c leaves the turns of the other calls alone.
LEMMA OneTurn ==
  ASSUME IInv, NEW c \in Calls, NEW t, TurnOf(c)' = t,
         \A d \in Calls \ {c} : call'[d] = call[d],
         \A i \in 1..built : token'[i] = token[i]
  PROVE  /\ turns' = [turns EXCEPT ![c] = t]
         /\ turns[c] = TurnOf(c)
<1>1. ASSUME NEW d \in Calls \ {c} PROVE TurnOf(d)' = TurnOf(d)
  BY DEF TurnOf, IInv, TypeOK
<1>. QED
  BY <1>1 DEF turns

\* What the turn of a call is in its states.
LEMMA TurnFacts ==
  ASSUME IInv, NEW c \in Calls
  PROVE  /\ call[c].pc = "idle" => TurnOf(c).phase = "idle"
         /\ call[c].pc \in {"get", "build", "invalidate", "close"} =>
              TurnOf(c).phase = "quiet" /\ TurnOf(c).acting = NoToken
         /\ call[c].pc = "run" =>
              TurnOf(c).acting = call[c].token /\ call[c].token \in Tokens
         /\ call[c].pc = "run" /\ ~call[c].emitted => TurnOf(c).phase = "quiet"
         /\ TurnOf(c).token = call[c].token
         /\ call[c].pc # "idle" => TurnOf(c).phase # "idle"
BY DEF IInv, TypeOK, CallInv, TurnOf

\* A call that starts is a turn that begins,
LEMMA StartMaps ==
  ASSUME IInv, NEW c \in Calls, NEW t \in Tokens, NEW b \in BOOLEAN, Start(c, t, b)
  PROVE  Turns!Begin(c, t)
<1>1. call \in [Calls -> Call]
  BY DEF IInv, TypeOK
<1>2. TurnOf(c)' = [phase |-> "quiet", token |-> t, acting |-> NoToken,
                    second |-> FALSE]
  <2>1. /\ call'[c].pc = "get" /\ ~call'[c].emitted /\ call'[c].token = t
        /\ call'[c].retry = FALSE
    BY <1>1 DEF Start
  <2>. QED
    BY <2>1 DEF TurnOf
<1>3. \A d \in Calls \ {c} : call'[d] = call[d]
  BY <1>1 DEF Start
<1>. QED
  BY <1>2, <1>3, OneTurn, TurnFacts DEF Start, Turns!Begin, Turns!Become

\* one that gets a session acts with its own token,
LEMMA GetMaps ==
  ASSUME IInv, NEW c \in Calls, GetFresh(c) \/ BuildOk(c)
  PROVE  Turns!Act(c)
<1>1. /\ call \in [Calls -> Call] /\ built \in Nat
      /\ token \in [1..built -> Tokens] /\ cache \in [Actors -> 0..built]
      /\ call[c].pc \in {"get", "build"}
  BY DEF IInv, TypeOK, GetFresh, BuildOk
<1>2. /\ call'[c].pc = "run" /\ token'[call'[c].session] = call[c].token
      /\ call'[c].token = call[c].token /\ call'[c].retry = call[c].retry
      /\ call'[c].emitted = call[c].emitted
      /\ \A d \in Calls \ {c} : call'[d] = call[d]
      /\ \A i \in 1..built : token'[i] = token[i]
  <2>1. CASE GetFresh(c)
    BY <1>1, <2>1 DEF GetFresh, Fresh, Call
  <2>2. CASE BuildOk(c)
    <3>1. call[c].token \in Tokens
      BY <2>2 DEF IInv, TypeOK, BuildOk
    <3>2. /\ token'[built + 1] = call[c].token
          /\ \A i \in 1..built : token'[i] = token[i]
      BY <2>2, <3>1, NewSession DEF BuildOk, IInv
    <3>3. call' = [call EXCEPT ![c].pc = "run", ![c].session = built + 1]
      BY <2>2 DEF BuildOk
    <3>. QED
      BY <1>1, <3>2, <3>3 DEF Call
  <2>. QED
    BY <2>1, <2>2
<1>3. TurnOf(c)' = [TurnOf(c) EXCEPT !.acting = TurnOf(c).token]
  BY <1>1, <1>2 DEF TurnOf
<1>. QED
  BY <1>1, <1>2, <1>3, OneTurn, TurnFacts DEF Turns!Act, Turns!Become

\* one that fails ends or begins again,
LEMMA FailMaps ==
  ASSUME IInv, NEW c \in Calls, call[c].pc \in {"build", "run"},
         NEW auth \in BOOLEAN, Fail(c, auth),
         \A i \in 1..built : token'[i] = token[i]
  PROVE  Turns!End(c) \/ Turns!Again(c)
<1>1. call \in [Calls -> Call]
  BY DEF IInv, TypeOK
<1>2. \A d \in Calls \ {c} : call'[d] = call[d]
  BY FailFacts
<1>3. CASE Leave(c)
  <2>1. TurnOf(c)' = Turns!NoTurn
    BY <1>1, <1>3 DEF Leave, IdleCall, TurnOf, Turns!NoTurn
  <2>. QED
    BY <1>2, <2>1, OneTurn, TurnFacts DEF Turns!End, Turns!Become
<1>4. CASE /\ Goto(c, "invalidate") /\ ~call[c].retry
           /\ ~(call[c].streaming /\ call[c].emitted)
  <2>1. ~call[c].emitted
    BY <1>4 DEF IInv, CallInv
  <2>2. call' = [call EXCEPT ![c].pc = "invalidate"]
    BY <1>4 DEF Goto
  <2>3. TurnOf(c)' = [phase |-> "quiet", token |-> TurnOf(c).token,
                      acting |-> NoToken, second |-> TRUE]
    <3>1. /\ call'[c].pc = "invalidate" /\ ~call'[c].emitted
          /\ call'[c].token = call[c].token
      BY <1>1, <2>1, <2>2 DEF Call
    <3>. QED
      BY <3>1 DEF TurnOf
  <2>4. TurnOf(c).phase = "quiet" /\ ~TurnOf(c).second
    BY <1>4, <2>1 DEF TurnOf
  <2>. QED
    BY <1>2, <2>3, <2>4, OneTurn DEF Turns!Again, Turns!Become
<1>. QED
  BY <1>3, <1>4 DEF Fail

\* one that finishes ends,
LEMMA FinishMaps ==
  ASSUME IInv, NEW c \in Calls, Finish(c)
  PROVE  Turns!End(c)
<1>1. call \in [Calls -> Call] /\ \A d \in Calls \ {c} : call'[d] = call[d]
  BY DEF IInv, TypeOK, Finish, Leave
<1>2. TurnOf(c)' = Turns!NoTurn
  BY <1>1 DEF Finish, Leave, IdleCall, TurnOf, Turns!NoTurn
<1>. QED
  BY <1>1, <1>2, OneTurn, TurnFacts DEF Finish, Turns!End, Turns!Become

\* one that sends a delta speaks,
LEMMA EmitMaps ==
  ASSUME IInv, NEW c \in Calls, Emit(c)
  PROVE  Turns!Speak(c)
<1>1. call \in [Calls -> Call]
  BY DEF IInv, TypeOK
<1>. PICK n : call' = [call EXCEPT ![c].emitted = TRUE, ![c].shown = n]
  BY DEF Emit
<1>2. TurnOf(c)' = [TurnOf(c) EXCEPT !.phase = "speaking"]
  BY <1>1 DEF Emit, TurnOf, Call
<1>. QED
  BY <1>1, <1>2, OneTurn, TurnFacts, Constants DEF Emit, Turns!Speak, Turns!Become

\* and everything else a call does is nothing to its client.
LEMMA RestMaps ==
  ASSUME IInv, NEW c \in Calls,
         GetStale(c) \/ Invalidate(c) \/ CloseVictim(c)
  PROVE  UNCHANGED turns
<1>1. /\ call \in [Calls -> Call] /\ token' = token
      /\ \A d \in Calls \ {c} : call'[d] = call[d]
  BY DEF IInv, TypeOK, GetStale, Invalidate, CloseVictim, Goto
<1>2. TurnOf(c)' = TurnOf(c)
  <2>1. CASE GetStale(c)
    BY <1>1, <2>1 DEF GetStale, Goto, TurnOf, Call
  <2>2. CASE Invalidate(c)
    <3>1. ~call[c].emitted
      BY <2>2 DEF IInv, CallInv, Invalidate
    <3>2. PICK p \in {"get", "close"}, n \in {cache[Actor(c)]} :
            call' = [call EXCEPT ![c].pc = p, ![c].session = n,
                                 ![c].retry = TRUE, ![c].emitted = FALSE]
      BY <2>2 DEF Invalidate
    <3>3. /\ call'[c].pc = p /\ call'[c].retry /\ ~call'[c].emitted
          /\ call'[c].token = call[c].token
      BY <1>1, <3>2 DEF Call
    <3>. QED
      BY <1>1, <2>2, <3>1, <3>3 DEF Invalidate, TurnOf
  <2>3. CASE CloseVictim(c)
    BY <1>1, <2>3 DEF CloseVictim, TurnOf, Call
  <2>. QED
    BY <2>1, <2>2, <2>3
<1>3. ASSUME NEW d \in Calls PROVE TurnOf(d)' = TurnOf(d)
  BY <1>1, <1>2 DEF TurnOf
<1>. QED
  BY <1>3 DEF turns

LEMMA NextMaps ==
  IInv /\ [Next]_vars => [Turns!Next]_turns
<1>. SUFFICES ASSUME IInv, [Next]_vars
              PROVE  Turns!Next \/ UNCHANGED turns
  OBVIOUS
<1>1. ASSUME NEW c \in Calls, NEW t \in Tokens, NEW b \in BOOLEAN, Start(c, t, b)
      PROVE  Turns!Next
  BY <1>1, StartMaps DEF Turns!Next
<1>2. ASSUME NEW c \in Calls, GetFresh(c) \/ BuildOk(c) PROVE Turns!Next
  BY <1>2, GetMaps DEF Turns!Next
<1>3. ASSUME NEW c \in Calls, BuildFails(c) \/ ListFails(c) \/ RunFails(c)
      PROVE  Turns!Next
  <2>1. /\ call[c].pc \in {"build", "run"}
        /\ \E auth \in BOOLEAN : Fail(c, auth)
    BY <1>3 DEF BuildFails, ListFails, RunFails
  <2>2. \A i \in 1..built : token'[i] = token[i]
    <3>1. /\ built \in Nat /\ token \in [1..built -> Tokens]
          /\ call[c].token \in Tokens
      BY <2>1 DEF IInv, TypeOK
    <3>2. CASE ListFails(c)
      BY <3>1, <3>2, NewSession DEF ListFails, IInv
    <3>. QED
      BY <1>3, <3>2 DEF BuildFails, RunFails
  <2>. QED
    BY <2>1, <2>2, FailMaps DEF Turns!Next
<1>4. ASSUME NEW c \in Calls, Finish(c) PROVE Turns!Next
  BY <1>4, FinishMaps DEF Turns!Next
<1>5. ASSUME NEW c \in Calls, Emit(c) PROVE Turns!Next
  BY <1>5, EmitMaps DEF Turns!Next
<1>6. ASSUME NEW c \in Calls, GetStale(c) \/ Invalidate(c) \/ CloseVictim(c)
      PROVE  UNCHANGED turns
  BY <1>6, RestMaps
<1>7. CASE Tick \/ UNCHANGED vars
  BY <1>7 DEF Tick, vars, TurnOf, turns
<1>. QED
  BY <1>1, <1>2, <1>3, <1>4, <1>5, <1>6, <1>7 DEF Next, Take, Work

\* Each call is to its client one turn with the caller's own token, started anew
\* once and silently at the most (agent_core.py 121-213).
THEOREM Refinement == Spec => RunsTurns
<1>1. Init => Turns!Init
  <2>1. ASSUME Init, NEW c \in Calls PROVE TurnOf(c) = Turns!NoTurn
    BY <2>1 DEF Init, IdleCall, Turns!NoTurn, TurnOf
  <2>. QED
    BY <2>1 DEF Turns!Init, turns
<1>2. IInv /\ [Next]_vars => [Turns!Next]_turns
  BY NextMaps
<1>. QED
  BY <1>1, <1>2, Invariance, PTL DEF Spec, RunsTurns, Turns!Spec

\* A run starts with a live token, however long the call has waited
\* (agent_core.py 121-143).
THEOREM RunsStartLive == Spec => StartsLive
<1>1. ASSUME IInv, [Next]_vars, NEW c \in Calls,
             call[c].pc # "run", call'[c].pc = "run"
      PROVE  now < Exp[token'[call'[c].session]]
  <2>1. /\ call \in [Calls -> Call] /\ now \in Nat /\ built \in Nat
        /\ token \in [1..built -> Tokens]
    BY <1>1 DEF IInv, TypeOK
  <2>2. CASE GetFresh(c)
    <3>1. /\ cache[Actor(c)] \in 1..built
          /\ now < Exp[token[cache[Actor(c)]]] - Margin
          /\ call'[c].session = cache[Actor(c)] /\ token' = token
      <4>1. Actor(c) \in Actors
        BY <1>1, <2>2, Constants DEF GetFresh, IInv, TypeOK, Actor
      <4>. QED
        BY <1>1, <2>1, <2>2, <4>1
           DEF GetFresh, Fresh, Call, IInv, TypeOK, NoSession
    <3>2. Exp[token[cache[Actor(c)]]] \in Nat
      BY <2>1, <3>1, Constants
    <3>. QED
      BY <2>1, <3>1, <3>2, Constants
  <2>3. CASE BuildOk(c)
    <3>1. call[c].token \in Tokens
      BY <1>1, <2>3 DEF IInv, TypeOK, BuildOk
    <3>2. token'[built + 1] = call[c].token
      BY <1>1, <2>3, <3>1, NewSession DEF BuildOk, IInv
    <3>. QED
      BY <2>1, <2>3, <3>2 DEF BuildOk, Call
  <2>4. ASSUME NEW d \in Calls, GetFresh(d) \/ BuildOk(d) PROVE d = c
    BY <1>1, <2>1, <2>4 DEF GetFresh, BuildOk
  <2>5. \E d \in Calls : GetFresh(d) \/ BuildOk(d)
    <3>1. ASSUME NEW d \in Calls, call[d].pc \in {"build", "run"},
                 NEW auth \in BOOLEAN, Fail(d, auth)
          PROVE  FALSE
      BY <1>1, <3>1, FailFacts, IdleCallFields
    <3>2. ASSUME NEW d \in Calls, BuildFails(d) \/ ListFails(d) \/ RunFails(d)
          PROVE  FALSE
      BY <3>1, <3>2 DEF BuildFails, ListFails, RunFails
    <3>3. ASSUME NEW d \in Calls, Finish(d) PROVE FALSE
      BY <1>1, <2>1, <3>3, IdleCallFields DEF Finish, Leave
    <3>4. ASSUME NEW d \in Calls,
                 GetStale(d) \/ Invalidate(d) \/ CloseVictim(d) \/ Emit(d)
          PROVE  FALSE
      <4>1. CASE Invalidate(d)
        <5>1. PICK p \in {"get", "close"}, n \in {cache[Actor(d)]} :
                call' = [call EXCEPT ![d].pc = p, ![d].session = n,
                                     ![d].retry = TRUE, ![d].emitted = FALSE]
          BY <4>1 DEF Invalidate
        <5>. QED
          BY <1>1, <2>1, <5>1 DEF Call
      <4>2. CASE Emit(d)
        <5>1. PICK n : call' = [call EXCEPT ![d].emitted = TRUE, ![d].shown = n]
          BY <4>2 DEF Emit
        <5>. QED
          BY <1>1, <2>1, <5>1 DEF Call
      <4>. QED
        BY <1>1, <2>1, <3>4, <4>1, <4>2 DEF GetStale, Goto, CloseVictim, Call
    <3>5. ASSUME NEW d \in Calls, NEW t \in Tokens, NEW b \in BOOLEAN,
                 Start(d, t, b)
          PROVE  FALSE
      BY <1>1, <2>1, <3>5 DEF Start
    <3>. QED
      BY <1>1, <3>2, <3>3, <3>4, <3>5 DEF Next, Take, Work, Tick, vars
  <2>. QED
    BY <2>2, <2>3, <2>4, <2>5
<1>2. IInv /\ [Next]_vars =>
        [\A c \in Calls :
           (call[c].pc # "run" /\ call'[c].pc = "run") =>
             now < Exp[token'[call'[c].session]]]_vars
  BY <1>1
<1>. QED
  BY <1>2, Invariance, PTL DEF Spec, StartsLive
=============================================================================

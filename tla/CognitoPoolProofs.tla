------------------------- MODULE CognitoPoolProofs -------------------------
(* The inductive invariants of CognitoPool and what follows from them.      *)
EXTENDS CognitoPool, TLAPS

-----------------------------------------------------------------------------
(* The inductive invariant                                                 *)

\* What a mint that nobody has raced may rely on: the user it is about to
\* create does not exist, and the password it has set is still there.
MintInv(s) ==
  ~task[s].raced =>
    /\ task[s].pc = "create" => pool[task[s].user] = Absent
    /\ (task[s].pc = "retry" \/ (task[s].pc = "auth" /\ s \in WebApis)) =>
         kept[s] # NoSalt /\ pool[task[s].user] = kept[s]

IInv ==
  /\ TypeOK
  /\ \A s \in Sandboxes : task[s].pc \in {"reset", "retry"} => kept[s] # NoSalt
  /\ \A s \in Sandboxes : MintInv(s)

-----------------------------------------------------------------------------
LEMMA Constants ==
  /\ \A s \in Routers : s \in Sandboxes /\ s \notin WebApis
  /\ \A s \in WebApis : s \in Sandboxes /\ s \notin Routers
  /\ \A s \in Sandboxes : s \in Routers \/ s \in WebApis
  /\ Margin \in Nat /\ Life \in Nat
BY CognitoPoolAssumption DEF Sandboxes

LEMMA IdleTaskFacts ==
  IdleTask \in Task /\ IdleTask.pc = "idle" /\ ~IdleTask.raced
BY DEF IdleTask, Task

\* The mint is over.
LEMMA ReturnFacts ==
  ASSUME TypeOK, NEW s \in Sandboxes,
         NEW how \in {"none", "token", "exists", "refused", "failed"},
         Return(s, how)
  PROVE  /\ task' \in [Sandboxes -> Task] /\ task'[s] = IdleTask
         /\ \A q \in Sandboxes \ {s} : task'[q] = task[q]
         /\ result' \in
              [Sandboxes -> {"none", "token", "exists", "refused", "failed"}]
BY IdleTaskFacts DEF Return, TypeOK

\* The mint goes on, and nobody else is concerned.
LEMMA GotoFacts ==
  ASSUME TypeOK, NEW s \in Sandboxes,
         NEW pc \in {"create", "set_password", "auth", "reset", "retry"},
         Goto(s, pc)
  PROVE  /\ task' \in [Sandboxes -> Task]
         /\ task'[s].pc = pc /\ task'[s].user = task[s].user
         /\ task'[s].raced = task[s].raced
         /\ \A q \in Sandboxes \ {s} : task'[q] = task[q]
<1>1. task \in [Sandboxes -> Task]
  BY DEF TypeOK
<1>2. [task[s] EXCEPT !.pc = pc] \in Task
  BY <1>1 DEF Task
<1>3. task' = [task EXCEPT ![s] = [task[s] EXCEPT !.pc = pc]]
  BY <1>1 DEF Goto
<1>. QED
  BY <1>1, <1>2, <1>3 DEF Task

\* The mint goes on, and the other mints for its user are raced.
LEMMA RacingFacts ==
  ASSUME TypeOK, NEW s \in Sandboxes, NEW u \in Users, task[s].user = u,
         NEW pc \in {"set_password", "auth", "retry"}, Racing(s, u, pc)
  PROVE  /\ task' \in [Sandboxes -> Task]
         /\ task'[s].pc = pc /\ task'[s].user = u
         /\ task'[s].raced = task[s].raced
         /\ \A q \in Sandboxes \ {s} :
              /\ task'[q].pc = task[q].pc /\ task'[q].user = task[q].user
              /\ task[q].raced => task'[q].raced
              /\ task[q].user = u => task'[q].raced
<1>1. task \in [Sandboxes -> Task]
  BY DEF TypeOK
<1>2. [task[s] EXCEPT !.pc = pc] \in Task
  BY <1>1 DEF Task
<1>3. \A q \in Sandboxes :
        [task[q] EXCEPT !.raced = @ \/ task[q].user = u] \in Task
  BY <1>1, Zenon DEF Task
<1>4. task' \in [Sandboxes -> Task]
  BY <1>2, <1>3 DEF Racing
<1>5. /\ task'[s].pc = pc /\ task'[s].user = u
      /\ task'[s].raced = task[s].raced
  BY <1>1 DEF Racing, Task
<1>6. ASSUME NEW q \in Sandboxes \ {s}
      PROVE  /\ task'[q].pc = task[q].pc /\ task'[q].user = task[q].user
             /\ task[q].raced => task'[q].raced
             /\ task[q].user = u => task'[q].raced
  BY <1>1 DEF Racing, Task
<1>. QED
  BY <1>4, <1>5, <1>6

\* A password is set: unless it was there, the other mints are raced.
LEMMA PutFacts ==
  ASSUME TypeOK, NEW s \in Sandboxes, NEW u \in Users, task[s].user = u,
         NEW pc \in {"auth", "retry"}, Put(s, pc)
  PROVE  /\ task' \in [Sandboxes -> Task]
         /\ task'[s].pc = pc /\ task'[s].user = u
         /\ \A q \in Sandboxes \ {s} :
              /\ task'[q].pc = task[q].pc /\ task'[q].user = task[q].user
              /\ task[q].raced => task'[q].raced
              /\ task[q].user = u => task'[q].raced \/ pool[u] = kept[s]
<1>1. CASE pool[u] = kept[s]
  BY <1>1, GotoFacts DEF Put
<1>2. CASE pool[u] # kept[s]
  BY <1>2, RacingFacts DEF Put
<1>. QED
  BY <1>1, <1>2

-----------------------------------------------------------------------------
(* Every step preserves it                                                 *)

LEMMA InitInv == Init => IInv
<1>. SUFFICES ASSUME Init PROVE IInv
  OBVIOUS
<1>1. \A s \in Sandboxes : task[s] = IdleTask
  BY DEF Init
<1>2. TypeOK
  <2>1. task \in [Sandboxes -> Task]
    BY IdleTaskFacts DEF Init
  <2>2. pool \in [Users -> {Absent, NoPassword} \cup 0..salt]
    BY DEF Init
  <2>3. kept \in [Sandboxes -> {NoSalt} \cup 0..salt]
    BY DEF Init
  <2>. QED
    BY <1>1, <2>1, <2>2, <2>3, IdleTaskFacts, Constants DEF Init, TypeOK
<1>. QED
  BY <1>1, <1>2, IdleTaskFacts DEF IInv, MintInv

LEMMA CacheHitStep ==
  ASSUME IInv, NEW s \in Sandboxes, NEW u \in Users, CacheHit(s, u)
  PROVE  IInv'
<1>1. /\ task' \in [Sandboxes -> Task] /\ task'[s] = IdleTask
      /\ \A q \in Sandboxes \ {s} : task'[q] = task[q]
      /\ result' \in
           [Sandboxes -> {"none", "token", "exists", "refused", "failed"}]
  BY ReturnFacts DEF CacheHit, IInv
<1>2. TypeOK'
  BY <1>1, IdleTaskFacts, Constants DEF IInv, TypeOK, CacheHit
<1>3. \A q \in Sandboxes : MintInv(q)'
  BY <1>1, IdleTaskFacts DEF IInv, MintInv, CacheHit
<1>. QED
  BY <1>1, <1>2, <1>3, IdleTaskFacts DEF IInv, CacheHit

LEMMA BeginStep ==
  ASSUME IInv, NEW s \in Sandboxes, NEW u \in Users, Begin(s, u)
  PROVE  IInv'
<1>1. TypeOK'
  BY Constants DEF IInv, TypeOK, Begin, Task
<1>2. \A q \in Sandboxes : MintInv(q)'
  BY DEF IInv, TypeOK, MintInv, Begin
<1>3. \A q \in Sandboxes : task'[q].pc \in {"reset", "retry"} => kept'[q] # NoSalt
  BY DEF IInv, TypeOK, Begin
<1>. QED
  BY <1>1, <1>2, <1>3 DEF IInv

LEMMA GetUserStep ==
  ASSUME IInv, NEW s \in Sandboxes, GetUser(s)
  PROVE  IInv'
<1>1. PICK pc \in {"create", "set_password", "auth"} :
        /\ Goto(s, pc)
        /\ pc = "create" => pool[task[s].user] = Absent
        /\ pc = "auth" => s \in Routers
  BY DEF GetUser
<1>2. /\ task' \in [Sandboxes -> Task]
      /\ task'[s].pc = pc /\ task'[s].user = task[s].user
      /\ task'[s].raced = task[s].raced
      /\ \A q \in Sandboxes \ {s} : task'[q] = task[q]
  BY <1>1, GotoFacts DEF IInv
<1>3. task[s].user \in Users
  BY DEF GetUser, At, IInv, TypeOK
<1>4. TypeOK'
  BY <1>2, <1>3, Constants DEF IInv, TypeOK, GetUser
<1>5. \A q \in Sandboxes : MintInv(q)'
  BY <1>1, <1>2, Constants DEF IInv, MintInv, GetUser
<1>. QED
  BY <1>2, <1>4, <1>5 DEF IInv, GetUser

LEMMA CreateUserStep ==
  ASSUME IInv, NEW s \in Sandboxes, CreateUser(s)
  PROVE  IInv'
<1>. PICK u \in Users : u = task[s].user
  BY DEF CreateUser, At, IInv, TypeOK
<1>1. CASE pool[u] = Absent
  <2>1. /\ pool' = [pool EXCEPT ![u] = NoPassword]
        /\ Racing(s, u, "set_password")
        /\ UNCHANGED <<now, salt, kept, cache, result>>
    BY <1>1 DEF CreateUser
  <2>2. /\ task' \in [Sandboxes -> Task]
        /\ task'[s].pc = "set_password" /\ task'[s].user = u
        /\ \A q \in Sandboxes \ {s} :
             /\ task'[q].pc = task[q].pc /\ task'[q].user = task[q].user
             /\ task[q].raced => task'[q].raced
             /\ task[q].user = u => task'[q].raced
    BY <2>1, RacingFacts DEF IInv
  <2>3. TypeOK'
    BY <2>1, <2>2, Constants DEF IInv, TypeOK
  <2>4. \A q \in Sandboxes : MintInv(q)'
    BY <2>1, <2>2 DEF IInv, TypeOK, MintInv
  <2>. QED
    BY <2>1, <2>2, <2>3, <2>4 DEF IInv
<1>2. CASE pool[u] # Absent
  <2>1. Return(s, "exists") /\ UNCHANGED <<now, salt, pool, kept, cache>>
    BY <1>2 DEF CreateUser
  <2>2. /\ task' \in [Sandboxes -> Task] /\ task'[s] = IdleTask
        /\ \A q \in Sandboxes \ {s} : task'[q] = task[q]
        /\ result' \in
             [Sandboxes -> {"none", "token", "exists", "refused", "failed"}]
    BY <2>1, ReturnFacts DEF IInv
  <2>3. TypeOK'
    BY <2>1, <2>2, IdleTaskFacts, Constants DEF IInv, TypeOK
  <2>4. \A q \in Sandboxes : MintInv(q)'
    BY <2>1, <2>2, IdleTaskFacts DEF IInv, MintInv
  <2>. QED
    BY <2>1, <2>2, <2>3, <2>4, IdleTaskFacts DEF IInv
<1>. QED
  BY <1>1, <1>2

LEMMA ReadSaltStep ==
  ASSUME IInv, NEW s \in Sandboxes, ReadSalt(s)
  PROVE  IInv'
<1>1. TypeOK'
  BY DEF IInv, TypeOK, ReadSalt
<1>2. \A q \in Sandboxes : MintInv(q)'
  BY DEF IInv, TypeOK, MintInv, ReadSalt
<1>3. \A q \in Sandboxes : task'[q].pc \in {"reset", "retry"} => kept'[q] # NoSalt
  BY DEF IInv, TypeOK, ReadSalt
<1>. QED
  BY <1>1, <1>2, <1>3 DEF IInv

\* Setting the password, first or again.
LEMMA PutStep ==
  ASSUME IInv, NEW s \in Sandboxes, NEW pc \in {"auth", "retry"}, Put(s, pc),
         kept[s] # NoSalt, task[s].pc # "idle", pc = "retry" => s \in Routers
  PROVE  IInv'
<1>. PICK u \in Users : u = task[s].user
  BY DEF IInv, TypeOK
<1>1. /\ pool' = [pool EXCEPT ![u] = kept[s]]
      /\ UNCHANGED <<now, salt, kept, cache, result>>
  BY DEF Put
<1>2. /\ task' \in [Sandboxes -> Task]
      /\ task'[s].pc = pc /\ task'[s].user = u
      /\ \A q \in Sandboxes \ {s} :
           /\ task'[q].pc = task[q].pc /\ task'[q].user = task[q].user
           /\ task[q].raced => task'[q].raced
           /\ task[q].user = u => task'[q].raced \/ pool[u] = kept[s]
  BY PutFacts DEF IInv
<1>3. kept[s] \in 0..salt
  BY DEF IInv, TypeOK
<1>4. pool' \in [Users -> {Absent, NoPassword} \cup 0..salt] /\ pool'[u] = kept[s]
      /\ \A v \in Users \ {u} : pool'[v] = pool[v]
  BY <1>1, <1>3 DEF IInv, TypeOK
<1>5. TypeOK'
  <2>1. \A q \in Sandboxes : task'[q].pc # "idle" => task'[q].user \in Users
    BY <1>2 DEF IInv, TypeOK
  <2>2. \A q \in WebApis : task'[q].pc \notin {"reset", "retry"}
    BY <1>2, Constants DEF IInv, TypeOK
  <2>. QED
    BY <1>1, <1>2, <1>4, <2>1, <2>2 DEF IInv, TypeOK
<1>6. ASSUME NEW q \in Sandboxes PROVE MintInv(q)'
  <2>1. CASE q = s
    BY <1>1, <1>2, <1>4, <2>1 DEF MintInv
  <2>2. CASE q # s /\ task[q].user = u
    BY <1>1, <1>2, <1>4, <2>2 DEF IInv, MintInv
  <2>3. CASE q # s /\ task[q].user # u
    <3>1. task[q].pc # "idle" => task[q].user \in Users \ {u}
      BY <2>3 DEF IInv, TypeOK
    <3>. QED
      BY <1>1, <1>2, <1>4, <2>3, <3>1 DEF IInv, MintInv
  <2>. QED
    BY <2>1, <2>2, <2>3
<1>. QED
  BY <1>1, <1>2, <1>5, <1>6 DEF IInv

LEMMA AuthenticateStep ==
  ASSUME IInv, NEW s \in Sandboxes, Authenticate(s)
  PROVE  IInv'
<1>1. /\ UNCHANGED <<now, salt, pool, kept>> /\ kept[s] # NoSalt
      /\ task[s].user \in Users
  BY DEF Authenticate, IInv, TypeOK
<1>2. CASE task' = [task EXCEPT ![s] = IdleTask]
  <2>1. /\ task' \in [Sandboxes -> Task] /\ task'[s] = IdleTask
        /\ \A q \in Sandboxes \ {s} : task'[q] = task[q]
    BY <1>2, IdleTaskFacts DEF IInv, TypeOK
  <2>2. result' \in
          [Sandboxes -> {"none", "token", "exists", "refused", "failed"}]
    BY <1>1 DEF Authenticate, Minted, Refused, Return, IInv, TypeOK
  <2>5. cache' \in [Routers -> [Users -> Nat]]
    <3>1. now + Life \in Nat /\ cache \in [Routers -> [Users -> Nat]]
      BY Constants DEF IInv, TypeOK
    <3>. PICK u \in Users : u = task[s].user
      BY <1>1
    <3>2. \/ cache' = cache
          \/ s \in Routers /\ cache' = [cache EXCEPT ![s][u] = now + Life]
      BY DEF Authenticate, Minted
    <3>. QED
      BY <3>1, <3>2
  <2>3. TypeOK'
    BY <1>1, <2>1, <2>2, <2>5, IdleTaskFacts, Constants DEF IInv, TypeOK
  <2>4. \A q \in Sandboxes : MintInv(q)'
    BY <1>1, <2>1, IdleTaskFacts DEF IInv, MintInv
  <2>. QED
    BY <1>1, <2>1, <2>3, <2>4, IdleTaskFacts DEF IInv
<1>3. CASE Goto(s, "reset") /\ s \in Routers /\ UNCHANGED <<result, cache>>
  <2>1. /\ task' \in [Sandboxes -> Task]
        /\ task'[s].pc = "reset" /\ task'[s].user = task[s].user
        /\ \A q \in Sandboxes \ {s} : task'[q] = task[q]
    BY <1>3, GotoFacts DEF IInv
  <2>2. TypeOK'
    BY <1>1, <1>3, <2>1, Constants DEF IInv, TypeOK
  <2>3. \A q \in Sandboxes : MintInv(q)'
    BY <1>1, <2>1 DEF IInv, MintInv
  <2>. QED
    BY <1>1, <2>1, <2>2, <2>3 DEF IInv
<1>. QED
  BY <1>2, <1>3 DEF Authenticate, Minted, Refused, Return

LEMMA FailStep ==
  ASSUME IInv, NEW s \in Sandboxes, Fail(s)
  PROVE  IInv'
<1>1. /\ task' \in [Sandboxes -> Task] /\ task'[s] = IdleTask
      /\ \A q \in Sandboxes \ {s} : task'[q] = task[q]
      /\ result' \in
           [Sandboxes -> {"none", "token", "exists", "refused", "failed"}]
  BY ReturnFacts DEF Fail, IInv
<1>2. TypeOK'
  BY <1>1, IdleTaskFacts, Constants DEF IInv, TypeOK, Fail
<1>3. \A q \in Sandboxes : MintInv(q)'
  BY <1>1, IdleTaskFacts DEF IInv, MintInv, Fail
<1>. QED
  BY <1>1, <1>2, <1>3, IdleTaskFacts DEF IInv, Fail

LEMMA RecycleStep ==
  ASSUME IInv, NEW s \in Sandboxes, Recycle(s)
  PROVE  IInv'
<1>1. cache' \in [Routers -> [Users -> Nat]]
  BY DEF Recycle, IInv, TypeOK
<1>2. TypeOK'
  BY <1>1 DEF IInv, TypeOK, Recycle
<1>3. \A q \in Sandboxes : MintInv(q)'
  BY DEF IInv, TypeOK, MintInv, Recycle, At
<1>4. \A q \in Sandboxes : task'[q].pc \in {"reset", "retry"} => kept'[q] # NoSalt
  BY DEF IInv, TypeOK, Recycle, At
<1>. QED
  BY <1>2, <1>3, <1>4 DEF IInv

LEMMA OtherSteps ==
  ASSUME IInv, Rotate \/ Tick \/ UNCHANGED vars
  PROVE  IInv'
<1>1. TypeOK'
  BY DEF IInv, TypeOK, Rotate, Tick, vars
<1>2. UNCHANGED <<task, pool, kept>>
  BY DEF Rotate, Tick, vars
<1>3. \A q \in Sandboxes : MintInv(q)'
  BY <1>2 DEF IInv, MintInv
<1>. QED
  BY <1>1, <1>2, <1>3 DEF IInv

LEMMA NextInv == IInv /\ [Next]_vars => IInv'
<1>. SUFFICES ASSUME IInv, [Next]_vars PROVE IInv'
  OBVIOUS
<1>1. ASSUME NEW s \in Sandboxes, NEW u \in Users, CacheHit(s, u) \/ Begin(s, u)
      PROVE  IInv'
  BY <1>1, CacheHitStep, BeginStep
<1>2. ASSUME NEW s \in Sandboxes, SetPassword(s) \/ ResetPassword(s)
      PROVE  IInv'
  BY <1>2, PutStep, Constants DEF SetPassword, ResetPassword, At, IInv, TypeOK
<1>3. ASSUME NEW s \in Sandboxes, Work(s) PROVE IInv'
  BY <1>2, <1>3, GetUserStep, CreateUserStep, ReadSaltStep, AuthenticateStep
     DEF Work
<1>4. ASSUME NEW s \in Sandboxes, Fail(s) \/ Recycle(s) PROVE IInv'
  BY <1>4, FailStep, RecycleStep
<1>. QED
  BY <1>1, <1>3, <1>4, OtherSteps DEF Next

\* The inductive invariant holds in every reachable state.
THEOREM Invariance == Spec => []IInv
BY InitInv, NextInv, PTL DEF Spec

-----------------------------------------------------------------------------
(* The theorems                                                            *)

\* Every variable keeps to its type; only the router resets a password after
\* a refusal (cognito.py 103-115, cognito_mint.py 62-77).
THEOREM TypeCorrectness == Spec => []TypeOK
<1>1. IInv => TypeOK
  BY DEF IInv
<1>. QED
  BY <1>1, Invariance, PTL

\* A mint that fails for another reason than a failing call was raced
\* (cognito.py 62-115, cognito_mint.py 44-75).
THEOREM FailingOnlyRaced == Spec => FailsOnlyRaced
<1>1. ASSUME IInv, [Next]_vars, NEW s \in Sandboxes, task[s].pc # "idle",
             task'[s].pc = "idle", result'[s] \in {"exists", "refused"},
             ~task[s].raced
      PROVE  FALSE
  <2>1. ASSUME NEW q \in Sandboxes, NEW u \in Users, CacheHit(q, u) \/ Begin(q, u)
        PROVE  FALSE
    BY <1>1, <2>1 DEF CacheHit, Begin, At, Return, IInv, TypeOK
  <2>2. ASSUME NEW q \in Sandboxes, SetPassword(q) \/ ResetPassword(q)
        PROVE  FALSE
    <3>1. task[q].user \in Users
      BY <1>1, <2>2 DEF SetPassword, ResetPassword, At, IInv, TypeOK
    <3>2. PICK pc \in {"auth", "retry"} : Put(q, pc)
      BY <2>2 DEF SetPassword, ResetPassword
    <3>. QED
      BY <1>1, <3>1, <3>2, PutFacts DEF IInv
  <2>3. ASSUME NEW q \in Sandboxes, CreateUser(q) PROVE FALSE
    <3>1. task[q].user \in Users /\ task[q].pc = "create"
      BY <1>1, <2>3 DEF CreateUser, At, IInv, TypeOK
    <3>2. CASE Racing(q, task[q].user, "set_password")
      BY <1>1, <3>1, <3>2, RacingFacts DEF IInv
    <3>3. CASE Return(q, "exists") /\ pool[task[q].user] # Absent
      <4>1. q = s
        BY <1>1, <3>3, ReturnFacts DEF IInv
      <4>2. MintInv(s)
        BY <1>1 DEF IInv
      <4>. QED
        BY <1>1, <3>1, <3>3, <4>1, <4>2 DEF MintInv
    <3>. QED
      BY <2>3, <3>2, <3>3 DEF CreateUser
  <2>4. ASSUME NEW q \in Sandboxes, Authenticate(q) PROVE FALSE
    <3>1. task[q].pc \in {"auth", "retry"}
      BY <2>4 DEF Authenticate
    <3>2. CASE Return(q, "token")
      <4>1. q = s
        BY <1>1, <3>2, ReturnFacts DEF IInv
      <4>. QED
        BY <1>1, <3>2, <4>1 DEF Return, IInv, TypeOK
    <3>3. CASE Goto(q, "reset")
      BY <1>1, <3>3, GotoFacts DEF IInv
    <3>4. CASE /\ Return(q, "refused") /\ pool[task[q].user] # kept[q]
               /\ ~(q \in Routers /\ task[q].pc = "auth")
      <4>1. q = s
        BY <1>1, <3>4, ReturnFacts DEF IInv
      <4>2. MintInv(s)
        BY <1>1 DEF IInv
      <4>3. s \in WebApis \/ task[s].pc = "retry"
        BY <3>1, <3>4, <4>1, Constants
      <4>4. ~task[s].raced
        BY <1>1
      <4>5. pool[task[s].user] = kept[s]
        BY <3>1, <4>1, <4>2, <4>3, <4>4 DEF MintInv
      <4>. QED
        BY <3>4, <4>1, <4>5
    <3>. QED
      BY <2>4, <3>2, <3>3, <3>4 DEF Authenticate, Minted, Refused, At
  <2>5. ASSUME NEW q \in Sandboxes, GetUser(q) \/ ReadSalt(q) PROVE FALSE
    <3>1. CASE GetUser(q)
      <4>1. PICK pc \in {"create", "set_password", "auth"} : Goto(q, pc)
        BY <3>1 DEF GetUser
      <4>. QED
        BY <1>1, <4>1, GotoFacts DEF IInv
    <3>2. CASE ReadSalt(q)
      BY <1>1, <3>2 DEF ReadSalt
    <3>. QED
      BY <2>5, <3>1, <3>2
  <2>6. ASSUME NEW q \in Sandboxes, Fail(q) \/ Recycle(q) PROVE FALSE
    BY <1>1, <2>6 DEF Fail, Recycle, Return, IInv, TypeOK
  <2>7. CASE Rotate \/ Tick \/ UNCHANGED vars
    BY <1>1, <2>7 DEF Rotate, Tick, vars
  <2>. QED
    BY <1>1, <2>1, <2>2, <2>3, <2>4, <2>5, <2>6, <2>7 DEF Next, Work
<1>2. IInv /\ [Next]_vars =>
        [\A s \in Sandboxes :
           (~At(s, "idle") /\ task'[s].pc = "idle"
              /\ result'[s] \in {"exists", "refused"}) => task[s].raced]_vars
  BY <1>1 DEF At
<1>. QED
  BY <1>2, Invariance, PTL DEF Spec, FailsOnlyRaced

-----------------------------------------------------------------------------
(* Until the salt is rotated                                                *)

\* There is one password only: a mint that has set it finds it in place,
\* raced or not.
SaltInv ==
  /\ salt = 0 =>
       \A s \in Sandboxes :
         (task[s].pc = "retry" \/ (task[s].pc = "auth" /\ s \in WebApis)) =>
           pool[task[s].user] = 0
  /\ NeverRefused

\* Any step keeps the password of a user that has it.
LEMMA PasswordStays ==
  ASSUME IInv, salt = 0, [Next]_vars, NEW u \in Users, pool[u] = 0
  PROVE  pool'[u] = 0
<1>1. ASSUME NEW s \in Sandboxes, CreateUser(s) PROVE pool'[u] = 0
  BY <1>1 DEF CreateUser, Absent, IInv, TypeOK
<1>2. ASSUME NEW s \in Sandboxes, SetPassword(s) \/ ResetPassword(s)
      PROVE  pool'[u] = 0
  <2>1. kept[s] # NoSalt /\ kept[s] \in {NoSalt} \cup 0..0
    BY <1>2 DEF SetPassword, ResetPassword, At, IInv, TypeOK
  <2>. QED
    BY <1>2, <2>1 DEF SetPassword, ResetPassword, Put, IInv, TypeOK
<1>. QED
  BY <1>1, <1>2 DEF Next, Work, CacheHit, Begin, GetUser, ReadSalt,
     Authenticate, Fail, Recycle, Rotate, Tick, vars

\* A mint gets to the point where it relies on its password by setting it.
LEMMA OtherMoves ==
  ASSUME IInv, [Next]_vars, NEW s \in Sandboxes,
         task'[s].pc = "retry" \/ (task'[s].pc = "auth" /\ s \in WebApis),
         ~\E q \in Sandboxes : SetPassword(q) \/ ResetPassword(q)
  PROVE  task[s].pc = task'[s].pc /\ task[s].user = task'[s].user
<1>1. ASSUME NEW q \in Sandboxes, NEW u \in Users, CacheHit(q, u) \/ Begin(q, u)
      PROVE  task[s].pc = task'[s].pc /\ task[s].user = task'[s].user
  BY <1>1, IdleTaskFacts DEF CacheHit, Begin, Return, IInv, TypeOK
<1>2. ASSUME NEW q \in Sandboxes, GetUser(q)
      PROVE  task[s].pc = task'[s].pc /\ task[s].user = task'[s].user
  <2>1. PICK pc \in {"create", "set_password", "auth"} :
          Goto(q, pc) /\ (pc = "auth" => q \in Routers)
    BY <1>2 DEF GetUser
  <2>. QED
    BY <2>1, GotoFacts, Constants DEF IInv
<1>3. ASSUME NEW q \in Sandboxes, CreateUser(q)
      PROVE  task[s].pc = task'[s].pc /\ task[s].user = task'[s].user
  <2>1. task[q].user \in Users
    BY <1>3 DEF CreateUser, At, IInv, TypeOK
  <2>2. CASE Racing(q, task[q].user, "set_password")
    BY <2>1, <2>2, RacingFacts DEF IInv
  <2>3. CASE Return(q, "exists")
    BY <2>3, ReturnFacts, IdleTaskFacts DEF IInv
  <2>. QED
    BY <1>3, <2>2, <2>3 DEF CreateUser
<1>4. ASSUME NEW q \in Sandboxes, Authenticate(q)
      PROVE  task[s].pc = task'[s].pc /\ task[s].user = task'[s].user
  <2>1. CASE Return(q, "token") \/ Return(q, "refused")
    BY <2>1, ReturnFacts, IdleTaskFacts DEF IInv
  <2>2. CASE Goto(q, "reset")
    BY <2>2, GotoFacts DEF IInv
  <2>. QED
    BY <1>4, <2>1, <2>2 DEF Authenticate, Minted, Refused
<1>5. ASSUME NEW q \in Sandboxes, Fail(q)
      PROVE  task[s].pc = task'[s].pc /\ task[s].user = task'[s].user
  BY <1>5, ReturnFacts, IdleTaskFacts DEF Fail, IInv
<1>. QED
  BY <1>1, <1>2, <1>3, <1>4, <1>5 DEF Next, Work, ReadSalt, Recycle, Rotate,
     Tick, vars

\* What a refusal that ends the mint has seen.
LEMMA RefusalFacts ==
  ASSUME IInv, NEW q \in Sandboxes, Authenticate(q), Return(q, "refused")
  PROVE  /\ task[q].pc = "retry" \/ (task[q].pc = "auth" /\ q \in WebApis)
         /\ kept[q] # NoSalt /\ pool[task[q].user] # kept[q]
<1>1. ~Return(q, "token")
  BY DEF Return, IInv, TypeOK
<1>2. ~Goto(q, "reset")
  <2>1. task'[q].pc = "idle"
    BY ReturnFacts, IdleTaskFacts DEF IInv
  <2>. QED
    BY <2>1, GotoFacts DEF IInv
<1>. QED
  BY <1>1, <1>2, Constants DEF Authenticate, Minted, Refused, At

\* No mint is refused until the salt is rotated (cognito.py 47-50, 103-115,
\* cognito_mint.py 39-41, 56).
THEOREM RefusedNever == Spec => []NeverRefused
<1>1. Init => SaltInv
  BY IdleTaskFacts DEF Init, SaltInv, NeverRefused
<1>2. ASSUME IInv, SaltInv, [Next]_vars, salt' = 0
      PROVE  /\ \A s \in Sandboxes :
                  (task'[s].pc = "retry"
                     \/ (task'[s].pc = "auth" /\ s \in WebApis)) =>
                    pool'[task'[s].user] = 0
             /\ \A s \in Sandboxes : result'[s] # "refused"
  <2>1. salt = 0
    BY <1>2 DEF IInv, TypeOK, Next, Work, CacheHit, Begin, GetUser, CreateUser,
       ReadSalt, SetPassword, ResetPassword, Put, Authenticate, Fail, Recycle,
       Rotate, Tick, vars
  <2>2. ASSUME NEW s \in Sandboxes,
               task'[s].pc = "retry" \/ (task'[s].pc = "auth" /\ s \in WebApis)
        PROVE  pool'[task'[s].user] = 0
    <3>1. CASE \E q \in Sandboxes : SetPassword(q) \/ ResetPassword(q)
      <4>. PICK q \in Sandboxes : SetPassword(q) \/ ResetPassword(q)
        BY <3>1
      <4>. PICK pc \in {"auth", "retry"} : Put(q, pc)
        BY DEF SetPassword, ResetPassword
      <4>1. kept[q] = 0
        BY <1>2, <2>1 DEF SetPassword, ResetPassword, At, IInv, TypeOK, NoSalt
      <4>. PICK u \in Users : u = task[q].user
        BY <1>2 DEF SetPassword, ResetPassword, At, IInv, TypeOK
      <4>2. /\ task'[q].user = u
            /\ \A r \in Sandboxes \ {q} :
                 task'[r].pc = task[r].pc /\ task'[r].user = task[r].user
        BY <1>2, PutFacts DEF IInv
      <4>3. CASE s = q
        BY <1>2, <4>1, <4>2, <4>3 DEF Put, IInv, TypeOK
      <4>4. CASE s # q
        BY <1>2, <2>1, <2>2, <4>2, <4>4, PasswordStays DEF SaltInv, IInv, TypeOK
      <4>. QED
        BY <4>3, <4>4
    <3>2. CASE ~\E q \in Sandboxes : SetPassword(q) \/ ResetPassword(q)
      <4>1. task[s].pc = task'[s].pc /\ task[s].user = task'[s].user
        BY <1>2, <2>2, <3>2, OtherMoves
      <4>2. task[s].user \in Users
        BY <1>2, <2>2, <4>1 DEF IInv, TypeOK
      <4>. QED
        BY <1>2, <2>1, <2>2, <4>1, <4>2, PasswordStays DEF SaltInv
    <3>. QED
      BY <3>1, <3>2
  <2>3. ASSUME NEW s \in Sandboxes, result'[s] = "refused" PROVE FALSE
    <3>1. PICK q \in Sandboxes : Authenticate(q) /\ Return(q, "refused")
      BY <1>2, <2>1, <2>3 DEF SaltInv, NeverRefused, IInv, TypeOK, Next, Work,
         CacheHit, Begin, GetUser, CreateUser, ReadSalt, SetPassword,
         ResetPassword, Put, Authenticate, Minted, Refused, Fail, Recycle,
         Return, Rotate, Tick, vars
    <3>2. /\ task[q].pc = "retry" \/ (task[q].pc = "auth" /\ q \in WebApis)
          /\ kept[q] # NoSalt /\ pool[task[q].user] # kept[q]
      BY <1>2, <3>1, Constants, RefusalFacts
    <3>. QED
      BY <1>2, <2>1, <3>2 DEF SaltInv, IInv, TypeOK
  <2>. QED
    BY <2>2, <2>3
<1>3. IInv /\ SaltInv /\ [Next]_vars => SaltInv'
  BY <1>2 DEF SaltInv, NeverRefused
<1>. QED
  BY <1>1, <1>3, Invariance, PTL DEF Spec, SaltInv
=============================================================================

--------------------- MODULE UserTokensRefinementProofs ---------------------
(* UserTokens implements UserAuthorization, for every set of users, of      *)
(* concurrent invocations and of faults.                                    *)
EXTENDS UserTokensProofs, UserTokensRefinement

auth == [u \in Users |-> AuthOf(u)]

\* A step that changes what one secret means is a step of that user.
LEMMA OneUser ==
  ASSUME NEW u \in Users, NEW s, AuthOf(u)' = s,
         \A v \in Users \ {u} : AuthOf(v)' = AuthOf(v)
  PROVE  auth' = [auth EXCEPT ![u] = s]
BY DEF auth

\* A step that changes what no secret means is a stutter.
LEMMA NoUserMoves ==
  ASSUME \A v \in Users : AuthOf(v)' = AuthOf(v)
  PROVE  auth' = auth
BY DEF auth

\* The meaning of a secret, case by case.
LEMMA Meaning ==
  ASSUME TypeOK, NEW u \in Users
  PROVE  /\ secret[u] = NoBundle => AuthOf(u) = "none"
         /\ secret[u] # NoBundle /\ secret[u].rt = NoGrant => AuthOf(u) = "once"
         /\ Redeemable(secret[u].rt) => AuthOf(u) = "renewable"
         /\ secret[u] # NoBundle /\ secret[u].rt # NoGrant
            /\ ~Redeemable(secret[u].rt) /\ LastAnswer(secret[u]) =>
              AuthOf(u) = "ended"
         /\ secret[u] # NoBundle /\ secret[u].rt # NoGrant
            /\ ~Redeemable(secret[u].rt) /\ ~LastAnswer(secret[u])
            /\ Renewing(u) => AuthOf(u) = "renewing"
         /\ secret[u] # NoBundle /\ secret[u].rt # NoGrant
            /\ ~Redeemable(secret[u].rt) /\ ~LastAnswer(secret[u])
            /\ ~Renewing(u) => AuthOf(u) = "lost"
<1>1. Redeemable(secret[u].rt) =>
        secret[u].rt # NoGrant /\ secret[u] # NoBundle
  BY DEF Redeemable, NoBundle, NoGrant, TypeOK, Grant
<1>. QED
  BY <1>1 DEF AuthOf

LEMMA InitRefines == Init => Authorization!Init
BY DEF Init, Authorization!Init, AuthOf

\* A step that leaves Lark's tokens, the secrets and the renewals alone.
LEMMA Unmoved ==
  ASSUME IInv, UNCHANGED <<offline, ended, spent, lapsed, secret>>,
         \A v \in Users : Renewing(v)' <=> Renewing(v)
  PROVE  auth' = auth
<1>1. \A v \in Users : AuthOf(v)' = AuthOf(v)
  BY DEF AuthOf, LastAnswer, Redeemable
<1>. QED
  BY <1>1, NoUserMoves

\* The same of the state after a step.
LEMMA MeaningNext ==
  ASSUME TypeOK', NEW u \in Users
  PROVE  /\ secret'[u] = NoBundle => AuthOf(u)' = "none"
         /\ secret'[u] # NoBundle /\ secret'[u].rt = NoGrant =>
              AuthOf(u)' = "once"
         /\ Redeemable(secret[u].rt)' => AuthOf(u)' = "renewable"
         /\ secret'[u] # NoBundle /\ secret'[u].rt # NoGrant
            /\ ~Redeemable(secret[u].rt)' /\ LastAnswer(secret[u])' =>
              AuthOf(u)' = "ended"
         /\ secret'[u] # NoBundle /\ secret'[u].rt # NoGrant
            /\ ~Redeemable(secret[u].rt)' /\ ~LastAnswer(secret[u])'
            /\ Renewing(u)' => AuthOf(u)' = "renewing"
         /\ secret'[u] # NoBundle /\ secret'[u].rt # NoGrant
            /\ ~Redeemable(secret[u].rt)' /\ ~LastAnswer(secret[u])'
            /\ ~Renewing(u)' => AuthOf(u)' = "lost"
<1>1. Redeemable(secret[u].rt)' =>
        secret'[u].rt # NoGrant /\ secret'[u] # NoBundle
  BY DEF Redeemable, NoBundle, NoGrant, TypeOK, Grant
<1>. QED
  BY <1>1 DEF AuthOf

\* Issuing the next grant changes what no stored refresh token is worth.
LEMMA IssueUnseen ==
  ASSUME IInv, NEW o \in Users, NEW r \in BOOLEAN, Issue(o, r),
         UNCHANGED <<secret, lapsed>>, NEW v \in Users,
         secret[v].rt \in spent' <=> secret[v].rt \in spent,
         Tasks # {}
  PROVE  Redeemable(secret[v].rt)' <=> Redeemable(secret[v].rt)
<1>1. secret[v].rt # issued + 1
  BY NextGrantUnknown
<1>. QED
  BY <1>1 DEF Redeemable, Issue

\* The tool and login steps that store and redeem nothing.
LEMMA QuietRefines ==
  ASSUME IInv, NEW i \in Tasks,
         \/ \E u \in Users : BeginTool(i, u)
         \/ RefreshRefused(i) \/ Return(i) \/ UserInfo(i) \/ StoreNotFound(i)
  PROVE  auth' = auth
<1>1. UNCHANGED <<offline, ended, spent, lapsed, secret>> /\ task[i].pc # "rotated"
  BY DEF BeginTool, RefreshRefused, Return, UserInfo, StoreNotFound, lark
<1>2. task \in [Tasks -> Task]
  BY DEF IInv, TypeOK
<1>3. task'[i].pc # "rotated" /\ \A j \in Tasks \ {i} : task'[j] = task[j]
  BY <1>2 DEF BeginTool, RefreshRefused, Return, UserInfo, StoreNotFound, Goto,
              AfterLoad, Idle, Task
<1>4. \A v \in Users : Renewing(v)' <=> Renewing(v)
  BY <1>1, <1>3 DEF Renewing
<1>. QED
  BY <1>1, <1>4, Unmoved

LEMMA BeginLoginRefines ==
  ASSUME IInv, NEW i \in Tasks, NEW u \in Users, NEW r \in BOOLEAN,
         BeginLogin(i, u, r)
  PROVE  auth' = auth
<1>1. \A v \in Users : Redeemable(secret[v].rt)' <=> Redeemable(secret[v].rt)
  BY IssueUnseen DEF BeginLogin
<1>2. task'[i].pc # "rotated" /\ \A j \in Tasks \ {i} : task'[j] = task[j]
  BY DEF BeginLogin, Idle, IInv, TypeOK
<1>3. secret' = secret /\ task[i].pc # "rotated"
  BY DEF BeginLogin
<1>4. \A v \in Users : Renewing(v)' <=> Renewing(v)
  BY <1>2, <1>3 DEF Renewing
<1>5. \A v \in Users : AuthOf(v)' = AuthOf(v)
  BY <1>1, <1>3, <1>4 DEF AuthOf, LastAnswer, BeginLogin
<1>. QED
  BY <1>5, NoUserMoves

\* A redemption ends or begins nothing for a secret with another token.
LEMMA OthersKept ==
  ASSUME IInv, NEW i \in Tasks, NEW r \in BOOLEAN, Redeem(i, r),
         UNCHANGED secret, NEW v \in Users, secret[v].rt # task[i].bundle.rt
  PROVE  LastAnswer(secret[v])' <=> LastAnswer(secret[v])
BY DEF LastAnswer, Redeem

\* A secret whose refresh token can be redeemed holds no last answer, nor will
\* it when the token is redeemed.
LEMMA NoLastAnswer ==
  ASSUME IInv, NEW v \in Users, Redeemable(secret[v].rt), UNCHANGED secret
  PROVE  ~LastAnswer(secret[v])'
<1>1. secret[v].rt \notin ended /\ secret[v].rt # NoGrant
  BY DEF IInv, LarkInv, Redeemable, TypeOK, NoGrant, Grant
<1>2. secret[v] # NoBundle
  BY <1>1 DEF NoBundle
<1>. QED
  BY <1>1, <1>2 DEF IInv, SecretInv, BundleOf, LastAnswer

\* A redeemed refresh token is in nobody's secret but the redeemer's.
LEMMA RefreshRefines ==
  ASSUME IInv, IInv', NEW i \in Tasks, Refresh(i)
  PROVE  auth' = auth \/ \E u \in Users : Authorization!Redeem(u)
<1>. PICK new \in BOOLEAN : Redeem(i, new)
  BY DEF Refresh
<1>. PICK u \in Users, r \in Grant : u = task[i].user /\ r = task[i].bundle.rt
  BY Redeeming DEF Redeem
<1>1. /\ u \in Users /\ r \in Grant /\ owner[r] = u /\ task[i].pc = "refresh"
      /\ Redeemable(r) /\ UNCHANGED <<secret, lapsed>>
      /\ spent' = spent \cup {r}
  BY Redeeming DEF Redeem, Refresh
<1>2. Issue(u, new)
  BY <1>1 DEF Redeem
<1>3. /\ task'[i].pc = "rotated" /\ task'[i].user = u /\ task'[i].bundle.rt = r
      /\ \A j \in Tasks \ {i} : task'[j] = task[j]
  BY <1>1 DEF Refresh, IInv, TypeOK, Task, ToolPC
<1>4. ASSUME NEW v \in Users, secret[v].rt # r
      PROVE  AuthOf(v)' = AuthOf(v)
  <2>1. Redeemable(secret[v].rt)' <=> Redeemable(secret[v].rt)
    BY <1>1, <1>2, <1>4, IssueUnseen
  <2>2. Renewing(v)' <=> Renewing(v)
    BY <1>1, <1>3, <1>4 DEF Renewing
  <2>3. LastAnswer(secret[v])' <=> LastAnswer(secret[v])
    BY <1>1, <1>4, OthersKept
  <2>. QED
    BY <1>1, <2>1, <2>2, <2>3 DEF AuthOf
<1>5. CASE secret[u].rt # r
  <2>1. \A v \in Users : secret[v].rt # r
    BY <1>1, <1>5, RedeemedIsOwn
  <2>. QED
    BY <1>4, <2>1, NoUserMoves
<1>6. CASE secret[u].rt = r
  <2>1. AuthOf(u) = "renewable"
    BY <1>1, <1>6, Meaning DEF IInv
  <2>2. AuthOf(u)' = "renewing"
    <3>1. /\ ~Redeemable(secret[u].rt)' /\ Renewing(u)'
          /\ ~LastAnswer(secret[u])'
      BY <1>1, <1>3, <1>6, NoLastAnswer DEF Redeemable, Renewing
    <3>2. secret'[u].rt # NoGrant /\ secret'[u] # NoBundle
      BY <1>1, <1>6 DEF NoBundle, NoGrant, Grant
    <3>. QED
      BY <1>1, <3>1, <3>2, MeaningNext DEF IInv
  <2>3. \A v \in Users \ {u} : secret[v].rt # r
    BY <1>1, RedeemedIsOwn
  <2>4. auth' = [auth EXCEPT ![u] = "renewing"]
    BY <1>1, <1>4, <2>2, <2>3, OneUser
  <2>. QED
    BY <1>1, <2>1, <2>4 DEF Authorization!Redeem, Authorization!Become, auth
<1>. QED
  BY <1>5, <1>6

\* A fault: the renewal of invocation i ends with nothing stored.
LEMMA FaultRefines ==
  ASSUME IInv, IInv', NEW i \in Tasks,
         RefreshLost(i) \/ PersistFails(i) \/ Crash(i)
  PROVE  auth' = auth \/ \E u \in Users : Authorization!Lose(u)
<1>1. /\ Faults # {} /\ UNCHANGED <<secret, lapsed>>
      /\ task'[i].pc # "rotated" /\ \A j \in Tasks \ {i} : task'[j] = task[j]
  <2>1. task \in [Tasks -> Task]
    BY DEF IInv, TypeOK
  <2>2. CASE RefreshLost(i)
    BY <2>1, <2>2 DEF RefreshLost, Goto, Task
  <2>3. CASE PersistFails(i)
    BY ZenonT(60), <2>1, <2>3 DEF PersistFails, Use, Task
  <2>4. CASE Crash(i)
    BY <2>1, <2>4 DEF Crash, Idle
  <2>. QED
    BY <2>2, <2>3, <2>4
<1>2. CASE task[i].pc \notin {"refresh", "rotated"}
  <2>1. UNCHANGED <<offline, ended, spent, lapsed, secret>>
    BY <1>2 DEF RefreshLost, Redeem, PersistFails, Crash, lark
  <2>2. \A v \in Users : Renewing(v)' <=> Renewing(v)
    BY <1>1, <1>2 DEF Renewing
  <2>. QED
    BY <2>1, <2>2, Unmoved
<1>3. CASE task[i].pc = "rotated"
  <2>. PICK u \in Users : u = task[i].user
    BY <1>3, TaskTyped DEF IInv
  <2>1. UNCHANGED <<offline, ended, spent, lapsed, secret>> /\ u \in Users
    BY <1>3 DEF RefreshLost, Redeem, PersistFails, Crash, lark
  <2>2. ASSUME NEW v \in Users \ {u} PROVE AuthOf(v)' = AuthOf(v)
    <3>1. Renewing(v)' <=> Renewing(v)
      BY <1>1 DEF Renewing
    <3>. QED
      BY <2>1, <3>1 DEF AuthOf, LastAnswer, Redeemable
  <2>3. CASE AuthOf(u)' = AuthOf(u)
    BY <2>2, <2>3, NoUserMoves
  <2>4. CASE AuthOf(u)' # AuthOf(u)
    <3>1. AuthOf(u)' = "lost"
      <4>1. Renewing(u)' => Renewing(u)
        BY <1>1 DEF Renewing
      <4>. QED
        BY <2>1, <2>4, <4>1 DEF AuthOf, LastAnswer, Redeemable
    <3>. QED
      BY <1>1, <2>1, <2>2, <3>1, OneUser
         DEF Authorization!Lose, Authorization!Become, auth
  <2>. QED
    BY <2>3, <2>4
<1>4. CASE task[i].pc = "refresh"
  <2>. PICK u \in Users, r \in Grant : u = task[i].user /\ r = task[i].bundle.rt
    BY <1>4, Redeeming
  <2>1. u \in Users /\ r \in Grant /\ owner[r] = u
    BY <1>4, Redeeming
  <2>2. \A v \in Users : Renewing(v)' <=> Renewing(v)
    BY <1>1, <1>4 DEF Renewing
  <2>3. CASE Crash(i)
    <3>1. UNCHANGED <<offline, ended, spent, lapsed, secret>>
      BY <2>3 DEF Crash, lark
    <3>. QED
      BY <2>2, <3>1, Unmoved
  <2>4. CASE RefreshLost(i)
    <3>. PICK new \in BOOLEAN : Redeem(i, new)
      BY <2>4 DEF RefreshLost
    <3>1. Issue(u, new) /\ spent' = spent \cup {r} /\ Redeemable(r)
      BY <2>1 DEF Redeem
    <3>2. ASSUME NEW v \in Users, secret[v].rt # r
          PROVE  AuthOf(v)' = AuthOf(v)
      <4>1. Redeemable(secret[v].rt)' <=> Redeemable(secret[v].rt)
        BY <1>1, <2>1, <3>1, <3>2, IssueUnseen
      <4>2. LastAnswer(secret[v])' <=> LastAnswer(secret[v])
        BY <1>1, <3>2, OthersKept
      <4>. QED
        BY <1>1, <2>2, <4>1, <4>2 DEF AuthOf
    <3>3. CASE secret[u].rt # r
      <4>1. \A v \in Users : secret[v].rt # r
        BY <1>4, <3>3, RedeemedIsOwn
      <4>. QED
        BY <3>2, <4>1, NoUserMoves
    <3>4. CASE secret[u].rt = r
      <4>1. \A v \in Users \ {u} : secret[v].rt # r
        BY <1>4, RedeemedIsOwn
      <4>2. ~Redeemable(secret[u].rt)' /\ ~LastAnswer(secret[u])'
        BY <1>1, <3>1, <3>4, NoLastAnswer DEF Redeemable
      <4>3. secret'[u].rt # NoGrant /\ secret'[u] # NoBundle
        BY <1>1, <2>1, <3>4 DEF NoBundle, NoGrant, Grant
      <4>4. ~Renewing(u)'
        <5>1. r \notin spent
          BY <3>1 DEF Redeemable
        <5>. QED
          BY <2>1, <2>2, <3>4, <5>1 DEF Renewing, IInv, TaskInv
      <4>5. AuthOf(u)' = "lost"
        BY <2>1, <4>2, <4>3, <4>4, MeaningNext DEF IInv
      <4>. QED
        BY <1>1, <2>1, <3>2, <4>1, <4>5, OneUser
           DEF Authorization!Lose, Authorization!Become, auth
    <3>. QED
      BY <3>3, <3>4
  <2>. QED
    BY <1>4, <2>3, <2>4 DEF PersistFails
<1>. QED
  BY <1>2, <1>3, <1>4

\* What a store leaves its user with.
LEMMA StoreRefines ==
  ASSUME IInv, IInv', NEW i \in Tasks,
         Persist(i) \/ StorePut(i) \/ StoreCreate(i)
  PROVE  auth' = auth \/ \E u \in Users : \/ Authorization!Store(u)
                                          \/ Authorization!Lose(u)
<1>. PICK u \in Users : u = task[i].user
  BY TaskTyped DEF IInv, Persist, StorePut, StoreCreate
<1>1. /\ UNCHANGED <<offline, ended, spent, lapsed>> /\ u \in Users
      /\ \A v \in Users \ {u} : secret'[v] = secret[v]
      /\ task'[i].pc # "rotated" /\ \A j \in Tasks \ {i} : task'[j] = task[j]
  BY DEF Persist, StorePut, StoreCreate, Use, Idle, lark, IInv, TypeOK, Task
<1>2. ASSUME NEW v \in Users \ {u} PROVE AuthOf(v)' = AuthOf(v)
  <2>1. Renewing(v)' <=> Renewing(v)
    BY <1>1 DEF Renewing
  <2>. QED
    BY <1>1, <2>1 DEF AuthOf, LastAnswer, Redeemable
<1>3. CASE secret'[u] = secret[u] /\ task[i].pc # "rotated"
  <2>1. Renewing(u)' <=> Renewing(u)
    BY <1>1, <1>3 DEF Renewing
  <2>2. AuthOf(u)' = AuthOf(u)
    BY <1>1, <1>3, <2>1 DEF AuthOf, LastAnswer, Redeemable
  <2>. QED
    BY <1>2, <2>2, NoUserMoves
<1>4. CASE secret'[u] \in Bundle /\ secret'[u].rt \notin spent
  <2>1. ~Renewing(u)'
    BY <1>1, <1>4 DEF Renewing, IInv, TaskInv
  <2>2. secret'[u] # NoBundle
    BY <1>4 DEF Bundle, NoBundle, Grant, NoGrant
  <2>3. AuthOf(u)' \in {"once", "renewable", "ended", "lost"}
    BY <1>1, <2>1, <2>2, MeaningNext DEF IInv
  <2>4. AuthOf(u)' = "lost" => Faults # {}
    <3>1. secret'[u].rt # NoGrant => secret'[u].rt \in offline
      BY <1>1, <2>2 DEF IInv, SecretInv, BundleOf
    <3>. QED
      BY <1>1, <1>4, <2>2, <3>1, MeaningNext DEF IInv, LarkInv, Redeemable
  <2>5. auth' = [auth EXCEPT ![u] = AuthOf(u)']
    BY <1>1, <1>2, OneUser
  <2>. QED
    BY <1>1, <2>3, <2>4, <2>5
       DEF Authorization!Store, Authorization!Lose, Authorization!Become, auth
<1>5. CASE secret'[u] \in Bundle /\ LastAnswer(secret[u])'
  <2>1. secret'[u].rt \in spent /\ secret'[u].rt \in Grant
    BY <1>1, <1>5 DEF IInv, LarkInv, TypeOK, LastAnswer
  <2>2. secret'[u] # NoBundle /\ secret'[u].rt # NoGrant
    BY <2>1 DEF NoBundle, NoGrant, Grant
  <2>3. ~Redeemable(secret[u].rt)'
    BY <1>1, <2>1 DEF Redeemable
  <2>4. AuthOf(u)' = "ended"
    BY <1>1, <1>5, <2>2, <2>3, MeaningNext DEF IInv
  <2>5. auth' = [auth EXCEPT ![u] = "ended"]
    BY <1>1, <1>2, <2>4, OneUser
  <2>. QED
    BY <1>1, <2>5 DEF Authorization!Store, Authorization!Become, auth
<1>6. CASE secret'[u] # secret[u]
  <2>1. Next
    BY DEF Next
  <2>2. secret'[u] \in Bundle
    <3>1. ASSUME Persist(i) PROVE secret'[u] \in Bundle
      <4>1. PICK t \in ReadAt(task[i].grant) :
              secret'[u] = NewBundle(task[i].grant, task[i].bundle.rt, t)
        BY <3>1 DEF Persist, IInv, TypeOK
      <4>. QED
        BY <3>1, <4>1, RotatedBundle DEF Persist
    <3>2. ASSUME StorePut(i) \/ StoreCreate(i) PROVE secret'[u] \in Bundle
      BY <1>6, <3>2, LoginBundle DEF StorePut, StoreCreate, IInv, TypeOK
    <3>. QED
      BY <3>1, <3>2
  <2>. QED
    BY <1>1, <1>4, <1>5, <1>6, <2>1, <2>2, WritesFresh
<1>7. CASE Persist(i) /\ secret'[u] = secret[u]
  <2>1. PICK t \in ReadAt(task[i].grant) :
          secret'[u] = NewBundle(task[i].grant, task[i].bundle.rt, t)
    BY <1>7 DEF Persist, IInv, TypeOK
  <2>2. secret'[u] \in Bundle /\ task[i].grant \in Grant
    BY <1>7, <2>1, RotatedBundle DEF Persist
  <2>3. secret'[u].rt = task[i].grant \/ LastAnswer(secret'[u])
    BY <1>7, <2>1, RotatedToken DEF Persist
  <2>4. secret'[u].rt # task[i].grant
    BY <1>1, <1>7, <2>2 DEF IInv, FreshInv, NoGrant, Grant
  <2>5. LastAnswer(secret[u])'
    BY <1>1, <2>3, <2>4 DEF LastAnswer
  <2>. QED
    BY <1>5, <2>2, <2>5
<1>. QED
  BY <1>3, <1>6, <1>7 DEF StorePut, StoreCreate

LEMMA NextRefines ==
  IInv /\ IInv' /\ [Next]_vars => [Authorization!Next]_auth
<1>. SUFFICES ASSUME IInv, IInv', [Next]_vars
              PROVE  Authorization!Next \/ auth' = auth
  OBVIOUS
<1>1. ASSUME NEW i \in Tasks, \/ \E u \in Users : BeginTool(i, u)
                              \/ RefreshRefused(i) \/ Return(i)
                              \/ UserInfo(i) \/ StoreNotFound(i)
      PROVE  auth' = auth
  BY <1>1, QuietRefines
<1>2. ASSUME NEW i \in Tasks, NEW u \in Users, NEW r \in BOOLEAN,
             BeginLogin(i, u, r)
      PROVE  auth' = auth
  BY <1>2, BeginLoginRefines
<1>3. ASSUME NEW i \in Tasks, Refresh(i)
      PROVE  auth' = auth \/ \E u \in Users : Authorization!Redeem(u)
  BY <1>3, RefreshRefines
<1>4. ASSUME NEW i \in Tasks, RefreshLost(i) \/ PersistFails(i) \/ Crash(i)
      PROVE  auth' = auth \/ \E u \in Users : Authorization!Lose(u)
  BY <1>4, FaultRefines
<1>5. ASSUME NEW i \in Tasks, Persist(i) \/ StorePut(i) \/ StoreCreate(i)
      PROVE  auth' = auth \/ \E u \in Users : \/ Authorization!Store(u)
                                              \/ Authorization!Lose(u)
  BY <1>5, StoreRefines
<1>6. ASSUME NEW g \in Grant, Lapse(g)
      PROVE  auth' = auth \/ \E u \in Users : Authorization!Lose(u)
  <2>1. /\ UNCHANGED <<offline, ended, spent, secret, task>> /\ Faults # {}
        /\ lapsed' = lapsed \cup {g} /\ Redeemable(g)
    BY <1>6 DEF Lapse, lark
  <2>2. \A v \in Users : Renewing(v)' <=> Renewing(v)
    BY <2>1 DEF Renewing
  <2>3. \A v \in Users : secret[v].rt # g => AuthOf(v)' = AuthOf(v)
    BY <2>1, <2>2 DEF AuthOf, LastAnswer, Redeemable
  <2>4. CASE \A v \in Users : secret[v].rt # g
    BY <2>3, <2>4, NoUserMoves
  <2>5. ASSUME NEW u \in Users, secret[u].rt = g
        PROVE  Authorization!Lose(u)
    <3>1. secret[u] # NoBundle /\ g # NoGrant
      BY <2>5 DEF NoBundle, NoGrant, Grant
    <3>2. \A v \in Users \ {u} : secret[v].rt # g
      BY <2>5, <3>1 DEF IInv, SecretInv, BundleOf, NoBundle
    <3>3. /\ ~Redeemable(secret[u].rt)' /\ ~Renewing(u)
          /\ ~LastAnswer(secret[u])'
      BY <2>1, <2>5, NoLastAnswer DEF Redeemable, Renewing, IInv, TaskInv
    <3>4. AuthOf(u)' = "lost"
      BY <2>1, <2>2, <2>5, <3>1, <3>3, MeaningNext DEF IInv
    <3>. QED
      BY <2>1, <2>3, <3>2, <3>4, OneUser
         DEF Authorization!Lose, Authorization!Become, auth
  <2>. QED
    BY <2>4, <2>5
<1>7. CASE Tick \/ UNCHANGED vars
  <2>1. UNCHANGED <<offline, ended, spent, lapsed, secret, task>>
    BY <1>7 DEF Tick, vars, lark
  <2>. QED
    BY <2>1, Unmoved DEF Renewing
<1>. QED
  BY <1>1, <1>2, <1>3, <1>4, <1>5, <1>6, <1>7 DEF Next, Authorization!Next

\* Whatever the sandboxes interleave, a user's authorization is lost by a
\* fault or a withdrawal only, and ends otherwise only by an answer of Lark's
\* without a refresh token (tools/index.py 88-133, lark_oauth.py 76-124).
THEOREM Refinement == Spec => KeepsAuthorization
<1>1. Init => Authorization!Init
  BY InitRefines
<1>2. IInv /\ IInv' /\ [Next]_vars => [Authorization!Next]_auth
  BY NextRefines
<1>. QED
  BY <1>1, <1>2, Invariance, PTL
     DEF Spec, KeepsAuthorization, Authorization!Spec, auth
=============================================================================

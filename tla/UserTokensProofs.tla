-------------------------- MODULE UserTokensProofs --------------------------
(* The inductive invariant of UserTokens and what follows from it.          *)
EXTENDS UserTokens, TLAPS

-----------------------------------------------------------------------------
(* The inductive invariant                                                 *)

\* What Lark has issued; the grants to come are untouched.
LarkInv ==
  /\ \A g \in 1..issued : owner[g] \in Users /\ expiry[g] <= now + AccessTTL
  /\ offline \cup spent \cup lapsed \subseteq 1..issued
  /\ ended \subseteq spent
  /\ lapsed \cup orphaned # {} => Faults # {}

\* b is a bundle of user u whose expires_at is late by Timeout at most, and
\* whose two tokens come from one grant or from a last answer.
BundleOf(u, b) ==
  /\ b.at \in 1..issued /\ owner[b.at] = u
  /\ b.rt # NoGrant => /\ b.rt \in 1..issued /\ owner[b.rt] = u
                       /\ b.rt \in offline
                       /\ b.rt = b.at \/ b.rt \in ended
  /\ b.exp <= expiry[b.at] + Timeout

SecretInv == \A u \in Users : secret[u] # NoBundle => BundleOf(u, secret[u])

\* Whose tokens an invocation holds, and how the clock bounds it.
TaskInv(i) ==
  LET t == task[i] IN
    /\ t.pc \in {"refresh", "rotated", "call", "put", "create"} =>
         BundleOf(t.user, t.bundle)
    /\ t.grant # NoGrant => t.grant \in 1..issued
    /\ t.pc # "idle" => now <= t.due /\ t.due <= now + Timeout
    /\ t.pc = "refresh" => t.bundle.rt # NoGrant
    /\ t.pc = "rotated" => /\ owner[t.grant] = t.user /\ t.bundle.rt \in spent
                           /\ t.grant \in offline \/ t.bundle.rt \in ended
    /\ t.pc \in {"rotated", "redeemed"} =>
         t.due + AccessTTL <= expiry[t.grant] + Timeout
    /\ t.pc \in {"put", "create"} => t.bundle.rt \in {t.grant, NoGrant}
    /\ t.pc = "call" => t.due < expiry[t.bundle.at]

\* A grant not yet stored is known to its invocation alone, and unspent.
FreshInv ==
  \A i \in Tasks :
    task[i].grant # NoGrant =>
      /\ task[i].grant \notin spent
      /\ \A u \in Users : secret[u].rt # task[i].grant
      /\ \A j \in Tasks :
           /\ j # i => task[j].grant # task[i].grant
           /\ task[j].pc = "refresh" => task[j].bundle.rt # task[i].grant

IInv ==
  /\ TypeOK
  /\ LarkInv
  /\ SecretInv
  /\ \A i \in Tasks : TaskInv(i)
  /\ FreshInv
  /\ NoStranding

-----------------------------------------------------------------------------
(* What a step leaves alone                                                *)

\* Invocation i goes on with these fields, and no other invocation moves.
Moves(i, pc, user, bundle, grant, due) ==
  /\ task' \in [Tasks -> Task]
  /\ \A j \in Tasks \ {i} : task'[j] = task[j]
  /\ task'[i].pc = pc /\ task'[i].user = user /\ task'[i].bundle = bundle
  /\ task'[i].grant = grant /\ task'[i].due = due

\* Lark forgets nothing.
LarkExtends ==
  /\ issued' \in Nat /\ issued <= issued'
  /\ offline \subseteq offline' /\ ended \subseteq ended'
  /\ \A g \in 1..issued : owner'[g] = owner[g] /\ expiry'[g] = expiry[g]

LEMMA Constants ==
  /\ AccessTTL \in Nat /\ Margin \in Nat /\ Timeout \in Nat
  /\ MaxGrants \in Nat /\ MaxTime \in Nat
  /\ 2 * Timeout <= Margin /\ Timeout < AccessTTL
  /\ NoUser \notin Users
BY UserTokensAssumption

LEMMA MovesTyped ==
  ASSUME TypeOK, NEW i \in Tasks, NEW p, NEW u, NEW b, NEW g, NEW d,
         Moves(i, p, u, b, g, d),
         p \notin {"idle", "redeemed"} => u \in Users,
         p \notin {"idle", "denied", "redeemed"} => b \in Bundle,
         g \in Grant <=> p \in {"rotated"} \cup LoginPC
  PROVE  \A j \in Tasks :
           /\ task'[j].pc \notin {"idle", "redeemed"} => task'[j].user \in Users
           /\ task'[j].pc \notin {"idle", "denied", "redeemed"} =>
                task'[j].bundle \in Bundle
           /\ task'[j].grant \in Grant <=>
                task'[j].pc \in {"rotated"} \cup LoginPC
BY DEF TypeOK, Moves

LEMMA BundleKept ==
  ASSUME LarkExtends, issued \in Nat, NEW u, NEW b, BundleOf(u, b)
  PROVE  BundleOf(u, b)'
BY DEF LarkExtends, BundleOf

LEMMA SecretKept ==
  ASSUME SecretInv, LarkExtends, issued \in Nat, UNCHANGED secret
  PROVE  SecretInv'
BY DEF SecretInv, LarkExtends, BundleOf

LEMMA TaskKept ==
  ASSUME TypeOK, LarkExtends, now' = now, spent \subseteq spent',
         NEW j \in Tasks, TaskInv(j), task'[j] = task[j]
  PROVE  TaskInv(j)'
<1>1. \A u, b : BundleOf(u, b) => BundleOf(u, b)'
  BY BundleKept DEF TypeOK
<1>2. ASSUME NEW g \in 1..issued
      PROVE  g \in 1..issued' /\ owner'[g] = owner[g] /\ expiry'[g] = expiry[g]
  BY DEF LarkExtends, TypeOK
<1>3. task[j].pc = "call" => task[j].bundle.at \in 1..issued
  BY DEF TaskInv, BundleOf
<1>4. task[j].pc \in {"rotated", "redeemed"} => task[j].grant \in 1..issued
  BY DEF TaskInv, TypeOK, Grant, NoGrant, LoginPC
<1>5. offline \subseteq offline' /\ ended \subseteq ended'
  BY DEF LarkExtends
<1>. QED
  BY <1>1, <1>2, <1>3, <1>4, <1>5 DEF TaskInv

LEMMA FreshKept ==
  ASSUME TypeOK, FreshInv, NEW i \in Tasks,
         NEW p, NEW u, NEW b, NEW g, NEW d, Moves(i, p, u, b, g, d),
         spent' = spent,
         g \in {task[i].grant, NoGrant},
         p = "refresh" => \E v \in Users : b.rt = secret[v].rt,
         \A v \in Users :
           \/ secret'[v] = secret[v]
           \/ g = NoGrant /\ secret'[v].rt \in {task[i].grant, NoGrant} \cup spent
  PROVE  FreshInv'
<1>. SUFFICES ASSUME NEW k \in Tasks, task'[k].grant # NoGrant
              PROVE  /\ task'[k].grant \notin spent
                     /\ \A v \in Users : secret'[v].rt # task'[k].grant
                     /\ \A j \in Tasks :
                          /\ j # k => task'[j].grant # task'[k].grant
                          /\ task'[j].pc = "refresh" =>
                               task'[j].bundle.rt # task'[k].grant
  BY DEF FreshInv
<1>1. \A j \in Tasks : task'[j].grant \in {task[j].grant, NoGrant}
  BY DEF Moves
<1>2. task'[k].grant = task[k].grant
  BY <1>1
<1>3. \A v \in Users : secret'[v].rt # task'[k].grant
  BY <1>2 DEF FreshInv, Moves
<1>4. ASSUME NEW j \in Tasks, task'[j].pc = "refresh"
      PROVE  task'[j].bundle.rt # task'[k].grant
  BY <1>2, <1>4 DEF FreshInv, Moves
<1>5. ASSUME NEW j \in Tasks, j # k
      PROVE  task'[j].grant # task'[k].grant
  BY <1>1, <1>2, <1>5 DEF FreshInv
<1>. QED
  BY <1>2, <1>3, <1>4, <1>5 DEF FreshInv

LEMMA StrandingKept ==
  ASSUME TypeOK, NoStranding, NEW i \in Tasks,
         NEW p, NEW u, NEW b, NEW g, NEW d, Moves(i, p, u, b, g, d),
         UNCHANGED <<ended, spent, secret>>, orphaned \subseteq orphaned',
         task[i].pc = "rotated" => task[i].bundle.rt \in orphaned'
  PROVE  NoStranding'
BY DEF NoStranding, LastAnswer, Moves

\* A step of invocation i that Lark takes no part in and no secret changes.
LEMMA QuietStep ==
  ASSUME IInv, NEW i \in Tasks,
         NEW p, NEW u, NEW b, NEW g, NEW d, Moves(i, p, u, b, g, d),
         UNCHANGED <<now, lark, spent, lapsed, secret>>,
         orphaned \subseteq orphaned', orphaned' \subseteq Grant,
         orphaned' # {} => Faults # {},
         p \notin {"idle", "redeemed"} => u \in Users,
         p \notin {"idle", "denied", "redeemed"} => b \in Bundle,
         g \in Grant <=> p \in {"rotated"} \cup LoginPC,
         TaskInv(i)',
         g \in {task[i].grant, NoGrant},
         p = "refresh" => \E v \in Users : b.rt = secret[v].rt,
         task[i].pc = "rotated" => task[i].bundle.rt \in orphaned'
  PROVE  IInv'
<1>1. TypeOK'
  <2>1. \A j \in Tasks :
          /\ task'[j].pc \notin {"idle", "redeemed"} => task'[j].user \in Users
          /\ task'[j].pc \notin {"idle", "denied", "redeemed"} =>
               task'[j].bundle \in Bundle
          /\ task'[j].grant \in Grant <=>
               task'[j].pc \in {"rotated"} \cup LoginPC
    BY MovesTyped DEF IInv
  <2>. QED
    BY <2>1, Constants DEF IInv, TypeOK, Moves, lark, Grant
<1>2. LarkInv'
  BY DEF IInv, LarkInv, lark
<1>3. LarkExtends
  BY Constants DEF IInv, TypeOK, lark, LarkExtends
<1>4. SecretInv'
  BY <1>3, SecretKept DEF IInv, TypeOK
<1>5. \A j \in Tasks : TaskInv(j)'
  <2>1. ASSUME NEW j \in Tasks, j # i PROVE TaskInv(j)'
    BY <1>3, <2>1, TaskKept DEF IInv, Moves, lark
  <2>. QED
    BY <2>1
<1>6. FreshInv'
  BY FreshKept DEF IInv
<1>7. NoStranding'
  BY StrandingKept DEF IInv, lark
<1>. QED
  BY <1>1, <1>2, <1>4, <1>5, <1>6, <1>7 DEF IInv

-----------------------------------------------------------------------------
(* The steps Lark takes no part in and no secret changes                   *)

\* What the type invariant says of one invocation.
LEMMA TaskTyped ==
  ASSUME TypeOK, NEW i \in Tasks
  PROVE  /\ task[i] \in Task
         /\ task[i].user \in Users \cup {NoUser} /\ task[i].due \in Nat
         /\ task[i].bundle \in Bundle \cup {NoBundle}
         /\ task[i].pc \notin {"idle", "redeemed"} => task[i].user \in Users
         /\ task[i].pc \notin {"idle", "denied", "redeemed"} =>
              task[i].bundle \in Bundle
         /\ task[i].grant \in Grant \cup {NoGrant}
         /\ task[i].grant \in Grant <=> task[i].pc \in {"rotated"} \cup LoginPC
BY DEF TypeOK, Task

\* The redeemed refresh token of a refresh under way.
LEMMA SpentTyped ==
  ASSUME IInv, NEW i \in Tasks, task[i].pc = "rotated"
  PROVE  task[i].bundle.rt \in spent /\ task[i].bundle.rt \in Grant
BY DEF IInv, TaskInv, TypeOK

\* What QuietStep asks of the history.
LEMMA OrphanedTyped ==
  ASSUME IInv
  PROVE  orphaned \subseteq Grant /\ (orphaned # {} => Faults # {})
BY DEF IInv, TypeOK, LarkInv

LEMMA IdleFields ==
  /\ Idle \in Task
  /\ Idle.pc = "idle" /\ Idle.user = NoUser /\ Idle.bundle = NoBundle
  /\ Idle.grant = NoGrant /\ Idle.due = 0
BY DEF Idle, Task, NoBundle, NoGrant, Grant

LEMMA ToIdle ==
  ASSUME IInv, NEW i \in Tasks, task' = [task EXCEPT ![i] = Idle]
  PROVE  /\ Moves(i, "idle", NoUser, NoBundle, NoGrant, 0)
         /\ TaskInv(i)'
<1>1. Moves(i, "idle", NoUser, NoBundle, NoGrant, 0)
  BY IdleFields DEF Moves, IInv, TypeOK
<1>. QED
  BY <1>1 DEF TaskInv, Moves

LEMMA ToDenied ==
  ASSUME IInv, NEW i \in Tasks, Goto(i, "denied"), now' = now,
         task[i].pc = "refresh"
  PROVE  /\ Moves(i, "denied", task[i].user, task[i].bundle, NoGrant, task[i].due)
         /\ TaskInv(i)'
<1>1. task[i].grant = NoGrant
  BY TaskTyped DEF IInv, LoginPC
<1>2. Moves(i, "denied", task[i].user, task[i].bundle, NoGrant, task[i].due)
  BY <1>1, TaskTyped DEF Moves, IInv, TypeOK, Goto, Task, ToolPC
<1>. QED
  BY <1>2 DEF TaskInv, Moves, IInv

LEMMA RefreshRefusedStep ==
  ASSUME IInv, NEW i \in Tasks, RefreshRefused(i)
  PROVE  IInv'
<1>1. /\ Moves(i, "denied", task[i].user, task[i].bundle, NoGrant, task[i].due)
      /\ TaskInv(i)'
  BY ToDenied DEF RefreshRefused
<1>2. task[i].user \in Users /\ NoGrant \notin Grant
  BY TaskTyped DEF IInv, RefreshRefused, NoGrant, Grant
<1>3. task[i].grant = NoGrant /\ task[i].pc = "refresh"
  BY TaskTyped DEF IInv, RefreshRefused, LoginPC
<1>. QED
  BY <1>1, <1>2, <1>3, OrphanedTyped, QuietStep DEF RefreshRefused, LoginPC

LEMMA ReturnStep ==
  ASSUME IInv, NEW i \in Tasks, Return(i)
  PROVE  IInv'
<1>1. Moves(i, "idle", NoUser, NoBundle, NoGrant, 0) /\ TaskInv(i)'
  BY ToIdle DEF Return
<1>2. NoGrant \notin Grant
  BY DEF NoGrant, Grant
<1>. QED
  BY <1>1, <1>2, OrphanedTyped, QuietStep DEF Return, LoginPC

LEMMA CrashStep ==
  ASSUME IInv, NEW i \in Tasks, Crash(i)
  PROVE  IInv'
<1>1. Moves(i, "idle", NoUser, NoBundle, NoGrant, 0) /\ TaskInv(i)'
  BY ToIdle DEF Crash
<1>2. NoGrant \notin Grant
  BY DEF NoGrant, Grant
<1>3. /\ orphaned \subseteq orphaned' /\ orphaned' \subseteq Grant
      /\ orphaned' # {} => Faults # {}
      /\ task[i].pc = "rotated" => task[i].bundle.rt \in orphaned'
  BY SpentTyped DEF Crash, IInv, LarkInv, TaskInv, TypeOK
<1>. QED
  BY <1>1, <1>2, <1>3, QuietStep DEF Crash, LoginPC

LEMMA StoreNotFoundStep ==
  ASSUME IInv, NEW i \in Tasks, StoreNotFound(i)
  PROVE  IInv'
<1>1. Moves(i, "create", task[i].user, task[i].bundle, task[i].grant, task[i].due)
  BY TaskTyped DEF Moves, IInv, TypeOK, StoreNotFound, Goto, Task, LoginPC
<1>2. TaskInv(i)'
  BY <1>1 DEF TaskInv, Moves, IInv, StoreNotFound, lark, BundleOf
<1>3. /\ task[i].user \in Users /\ task[i].bundle \in Bundle
      /\ task[i].grant \in Grant
  BY TaskTyped DEF IInv, StoreNotFound, LoginPC
<1>. QED
  BY <1>1, <1>2, <1>3, OrphanedTyped, QuietStep DEF StoreNotFound, LoginPC

LEMMA UserInfoStep ==
  ASSUME IInv, NEW i \in Tasks, UserInfo(i)
  PROVE  IInv'
<1> DEFINE g == task[i].grant
           b == NewBundle(g, NoGrant, now)
<1>1. g \in Grant /\ g \in 1..issued /\ owner[g] \in Users
  BY TaskTyped DEF IInv, UserInfo, LoginPC, TaskInv, LarkInv, NoGrant, Grant
<1>2. /\ b \in Bundle /\ b.at = g /\ b.rt \in {g, NoGrant}
      /\ b.rt # NoGrant => b.rt \in offline
      /\ b.exp = now + AccessTTL
  BY <1>1, Constants DEF NewBundle, Bundle, IInv, TypeOK
<1>3. Moves(i, "put", owner[g], b, g, now + Timeout)
  <2>1. task' = [task EXCEPT ![i].pc = "put", ![i].user = owner[g],
                             ![i].bundle = b, ![i].due = now + Timeout]
    BY DEF UserInfo
  <2>2. now + Timeout \in Nat /\ task \in [Tasks -> Task]
    BY Constants DEF IInv, TypeOK
  <2> HIDE DEF b
  <2>. QED
    BY ZenonT(60), <1>1, <1>2, <2>1, <2>2 DEF Moves, Task, LoginPC
<1>4. BundleOf(owner[g], b)
  <2>1. task[i].due + AccessTTL <= expiry[g] + Timeout /\ now <= task[i].due
    BY DEF IInv, TaskInv, UserInfo
  <2>. QED
    BY <1>1, <1>2, <2>1, TaskTyped, Constants DEF BundleOf, IInv, TypeOK
<1>5. TaskInv(i)'
  <2>1. /\ task'[i].pc = "put" /\ task'[i].user = owner[g]
        /\ task'[i].bundle = b /\ task'[i].grant = g
        /\ task'[i].due = now + Timeout
    BY <1>3 DEF Moves
  <2>2. /\ UNCHANGED lark
        /\ UNCHANGED <<now, issued, owner, expiry, offline, ended>>
        /\ now \in Nat /\ now' <= now + Timeout
    BY Constants DEF UserInfo, lark, IInv, TypeOK
  <2>3. /\ b.at \in 1..issued' /\ owner'[b.at] = owner[g]
        /\ b.rt # NoGrant => /\ b.rt \in 1..issued' /\ owner'[b.rt] = owner[g]
                             /\ b.rt \in offline'
                             /\ b.rt = b.at \/ b.rt \in ended'
        /\ b.exp <= expiry'[b.at] + Timeout
    BY <1>4, <2>2 DEF BundleOf
  <2>4. /\ g \in 1..issued' /\ b.rt \in {g, NoGrant}
        /\ now' <= now + Timeout /\ now + Timeout <= now' + Timeout
    BY <1>1, <1>2, <2>2, Constants DEF UserInfo
  <2> HIDE DEF b
  <2>. QED
    BY <2>1, <2>3, <2>4 DEF TaskInv, BundleOf
<1>. QED
  BY <1>1, <1>2, <1>3, <1>5, OrphanedTyped, QuietStep DEF UserInfo, LoginPC

LEMMA BeginToolStep ==
  ASSUME IInv, NEW i \in Tasks, NEW u \in Users, BeginTool(i, u)
  PROVE  IInv'
<1> DEFINE b == secret[u]
           p == AfterLoad(b)
<1>1. /\ p \in {"denied", "call", "refresh"}
      /\ p \in {"call", "refresh"} => b # NoBundle
      /\ p = "call" => now < b.exp - Margin
      /\ p = "refresh" => b.rt # NoGrant
  <2>1. b.exp \in Nat
    BY DEF IInv, TypeOK, Bundle, NoBundle
  <2>2. now \in Nat
    BY DEF IInv, TypeOK
  <2> HIDE DEF b
  <2>3. CASE b = NoBundle
    BY <2>3 DEF AfterLoad, NoBundle
  <2>4. CASE b # NoBundle /\ ~NearExpiry(b)
    BY <2>1, <2>2, <2>4, Constants DEF AfterLoad, NearExpiry
  <2>5. CASE b # NoBundle /\ NearExpiry(b)
    BY <2>5 DEF AfterLoad
  <2>. QED
    BY <2>3, <2>4, <2>5
<1>2. b \in Bundle \cup {NoBundle} /\ (p # "denied" => b \in Bundle)
  BY <1>1 DEF IInv, TypeOK
<1>3. Moves(i, p, u, b, NoGrant, now + Timeout)
  BY <1>1, <1>2, Constants DEF Moves, BeginTool, IInv, TypeOK, Task, ToolPC
<1>4. p # "denied" => BundleOf(u, b)
  BY <1>1 DEF IInv, SecretInv
<1>5. p = "call" => now + Timeout < expiry[b.at]
  <2>1. p = "call" => b.exp \in Nat /\ b.exp <= expiry[b.at] + Timeout
                      /\ expiry[b.at] \in Nat
    BY <1>2, <1>4 DEF BundleOf, Bundle, IInv, TypeOK
  <2>. QED
    BY <1>1, <2>1, Constants DEF IInv, TypeOK
<1>6. TaskInv(i)'
  BY <1>1, <1>3, <1>4, <1>5, Constants
     DEF TaskInv, Moves, IInv, TypeOK, BeginTool, lark, BundleOf
<1>7. NoGrant \notin Grant /\ task[i].pc # "rotated"
  BY DEF NoGrant, Grant, BeginTool
<1> HIDE DEF b, p
<1>8. p = "refresh" => \E v \in Users : b.rt = secret[v].rt
  BY DEF b
<1>. QED
  BY <1>1, <1>2, <1>3, <1>6, <1>7, <1>8, OrphanedTyped, QuietStep
     DEF BeginTool, LoginPC

\* The bundle a refresh ends with, and what it does to its invocation.
LEMMA RotatedBundle ==
  ASSUME IInv, NEW i \in Tasks, task[i].pc = "rotated",
         NEW t \in ReadAt(task[i].grant),
         NEW b, b = NewBundle(task[i].grant, task[i].bundle.rt, t)
  PROVE  /\ b \in Bundle /\ b.at = task[i].grant
         /\ BundleOf(task[i].user, b)
         /\ task[i].grant \in Grant /\ task[i].user \in Users
         /\ task[i].due < expiry[b.at]
<1>1. /\ task[i].grant \in Grant /\ task[i].user \in Users
      /\ task[i].bundle \in Bundle
  BY TaskTyped DEF IInv
<1>2. /\ task[i].grant \in 1..issued
      /\ owner[task[i].grant] = task[i].user
      /\ BundleOf(task[i].user, task[i].bundle)
      /\ task[i].due + AccessTTL <= expiry[task[i].grant] + Timeout
      /\ now <= task[i].due
  BY <1>1 DEF IInv, TaskInv, Grant, NoGrant
<1>3. t \in Nat /\ t <= now
  BY DEF ReadAt, IInv, TypeOK
<1>4. /\ b.at = task[i].grant /\ b.exp = t + AccessTTL
      /\ b.rt \in {task[i].grant, task[i].bundle.rt}
      /\ b.rt \in offline \/ b.rt = task[i].bundle.rt
  BY DEF NewBundle
<1>5. b \in Bundle
  BY <1>1, <1>3, Constants DEF Bundle, NewBundle
<1>6. BundleOf(task[i].user, b)
  <2>1. /\ b.rt \in offline
        /\ b.rt = b.at \/ b.rt \in ended
    <3>1. task[i].bundle.rt # NoGrant /\ task[i].bundle.rt \in offline
      BY <1>2, SpentTyped DEF BundleOf, NoGrant, Grant
    <3>2. task[i].grant \in offline \/ task[i].bundle.rt \in ended
      BY DEF IInv, TaskInv
    <3>. QED
      BY <1>4, <3>1, <3>2 DEF NewBundle
  <2>. QED
    BY <1>1, <1>2, <1>3, <1>4, <2>1, TaskTyped, Constants
       DEF BundleOf, IInv, TypeOK
<1>7. task[i].due < expiry[b.at]
  BY <1>1, <1>2, <1>4, TaskTyped, Constants DEF IInv, TypeOK
<1>. QED
  BY <1>1, <1>4, <1>5, <1>6, <1>7

LEMMA ToCall ==
  ASSUME IInv, NEW i \in Tasks, task[i].pc = "rotated",
         NEW t \in ReadAt(task[i].grant),
         NEW b, b = NewBundle(task[i].grant, task[i].bundle.rt, t),
         Use(i, b), UNCHANGED <<now, lark>>
  PROVE  /\ Moves(i, "call", task[i].user, b, NoGrant, task[i].due)
         /\ TaskInv(i)'
<1>1. Moves(i, "call", task[i].user, b, NoGrant, task[i].due)
  <2>1. b \in Bundle /\ task \in [Tasks -> Task]
    BY RotatedBundle DEF IInv, TypeOK
  <2>. QED
    BY ZenonT(60), <2>1 DEF Moves, Use, Task, ToolPC
<1>2. BundleOf(task[i].user, b) /\ task[i].due < expiry[b.at]
  BY RotatedBundle
<1>. QED
  BY <1>1, <1>2 DEF TaskInv, Moves, IInv, lark, BundleOf

LEMMA PersistFailsStep ==
  ASSUME IInv, NEW i \in Tasks, PersistFails(i)
  PROVE  IInv'
<1>1. PICK t \in ReadAt(task[i].grant) :
        Use(i, NewBundle(task[i].grant, task[i].bundle.rt, t))
  BY DEF PersistFails
<1> DEFINE b == NewBundle(task[i].grant, task[i].bundle.rt, t)
<1>2. /\ Moves(i, "call", task[i].user, b, NoGrant, task[i].due)
      /\ TaskInv(i)'
  BY <1>1, ToCall DEF PersistFails
<1>3. b \in Bundle /\ task[i].user \in Users
  BY RotatedBundle DEF PersistFails
<1>4. NoGrant \notin Grant
  BY DEF NoGrant, Grant
<1>5. /\ orphaned \subseteq orphaned' /\ orphaned' \subseteq Grant
      /\ orphaned' # {} => Faults # {}
      /\ task[i].bundle.rt \in orphaned'
  BY TaskTyped, SpentTyped DEF PersistFails, IInv, LarkInv, TaskInv, TypeOK
<1> HIDE DEF b
<1>. QED
  BY <1>2, <1>3, <1>4, <1>5, QuietStep DEF PersistFails, LoginPC

-----------------------------------------------------------------------------
(* The steps that change a secret, Lark or the clock                       *)

\* A step of invocation i that stores b, its own or a rotated bundle.
LEMMA StoreStep ==
  ASSUME IInv, NEW i \in Tasks, task[i].user \in Users,
         task[i].grant \in Grant, task[i].pc # "redeemed",
         NEW b \in Bundle, BundleOf(task[i].user, b),
         b.rt \in {task[i].grant, NoGrant} \/ (b.rt \in spent /\ LastAnswer(b)),
         secret' = [secret EXCEPT ![task[i].user] = b],
         NEW p \in {"idle", "call"}, NEW u, NEW c, NEW d,
         Moves(i, p, u, c, NoGrant, d), TaskInv(i)',
         p = "call" => u \in Users /\ c \in Bundle,
         UNCHANGED <<now, lark, spent, lapsed, orphaned>>
  PROVE  IInv'
<1>1. TypeOK'
  <2>1. \A j \in Tasks :
          /\ task'[j].pc \notin {"idle", "redeemed"} => task'[j].user \in Users
          /\ task'[j].pc \notin {"idle", "denied", "redeemed"} =>
               task'[j].bundle \in Bundle
          /\ task'[j].grant \in Grant <=>
               task'[j].pc \in {"rotated"} \cup LoginPC
    <3>1. NoGrant \notin Grant /\ p \notin {"rotated"} \cup LoginPC
      BY DEF NoGrant, Grant, LoginPC
    <3>. QED
      BY <3>1, MovesTyped DEF IInv
  <2>2. secret' \in [Users -> Bundle \cup {NoBundle}]
    BY DEF IInv, TypeOK
  <2>. QED
    BY <2>1, <2>2 DEF IInv, TypeOK, Moves, lark
<1>2. LarkInv'
  BY DEF IInv, LarkInv, lark
<1>3. LarkExtends
  BY Constants DEF IInv, TypeOK, lark, LarkExtends
<1>4. SecretInv'
  <2>1. \A v, x : BundleOf(v, x) => BundleOf(v, x)'
    BY <1>3, BundleKept DEF IInv, TypeOK
  <2>. QED
    BY <2>1 DEF IInv, SecretInv, TypeOK
<1>5. \A j \in Tasks : TaskInv(j)'
  <2>1. ASSUME NEW j \in Tasks, j # i PROVE TaskInv(j)'
    BY <1>3, <2>1, TaskKept DEF IInv, Moves, lark
  <2>. QED
    BY <2>1
<1>6. FreshInv'
  <2>1. \A v \in Users : \/ secret'[v] = secret[v]
                         \/ secret'[v].rt \in {task[i].grant, NoGrant} \cup spent
    BY DEF IInv, TypeOK
  <2>2. TypeOK /\ FreshInv
    BY DEF IInv
  <2>. QED
    BY <2>1, <2>2, FreshKept
<1>7. NoStranding'
  <2>. SUFFICES ASSUME NEW v \in Users, secret'[v].rt \in spent
                PROVE  \/ secret'[v].rt \in orphaned
                       \/ LastAnswer(secret'[v])
                       \/ \E j \in Tasks : /\ task'[j].pc = "rotated"
                                           /\ task'[j].user = v
                                           /\ task'[j].bundle.rt = secret'[v].rt
    BY DEF NoStranding, LastAnswer, lark
  <2>1. CASE v = task[i].user
    <3>1. task[i].grant \notin spent /\ NoGrant \notin spent
      BY DEF IInv, FreshInv, TypeOK, NoGrant, Grant
    <3>2. secret'[v] = b
      BY <2>1 DEF IInv, TypeOK
    <3>. QED
      BY <3>1, <3>2
  <2>2. CASE v # task[i].user
    <3>1. secret'[v] = secret[v]
      BY <2>2 DEF IInv, TypeOK
    <3>. QED
      BY <2>2, <3>1 DEF IInv, NoStranding, Moves
  <2>. QED
    BY <2>1, <2>2
<1>. QED
  BY <1>1, <1>2, <1>4, <1>5, <1>6, <1>7 DEF IInv

\* A refresh stores its new refresh token, or the spent one if Lark gave none.
LEMMA RotatedToken ==
  ASSUME IInv, NEW i \in Tasks, task[i].pc = "rotated", NEW t,
         NEW b, b = NewBundle(task[i].grant, task[i].bundle.rt, t)
  PROVE  \/ b.rt = task[i].grant /\ task[i].grant \in offline
         \/ b.rt \in spent /\ LastAnswer(b)
<1>1. task[i].grant \in Grant /\ task[i].grant # NoGrant
  BY TaskTyped DEF IInv, NoGrant, Grant
<1>2. task[i].grant \notin spent
  BY <1>1 DEF IInv, FreshInv
<1>3. /\ task[i].bundle.rt \in spent
      /\ task[i].grant \in offline \/ task[i].bundle.rt \in ended
  BY DEF IInv, TaskInv
<1>4. CASE task[i].grant \in offline
  BY <1>4 DEF NewBundle
<1>5. CASE task[i].grant \notin offline
  <2>1. b.at = task[i].grant /\ b.rt = task[i].bundle.rt
    BY <1>5 DEF NewBundle
  <2>. QED
    BY <1>2, <1>3, <1>5, <2>1 DEF LastAnswer
<1>. QED
  BY <1>4, <1>5

LEMMA PersistStep ==
  ASSUME IInv, NEW i \in Tasks, Persist(i)
  PROVE  IInv'
<1>1. PICK t \in ReadAt(task[i].grant) :
        LET b == NewBundle(task[i].grant, task[i].bundle.rt, t) IN
          /\ secret' = [secret EXCEPT ![task[i].user] = b]
          /\ Use(i, b)
  BY DEF Persist
<1> DEFINE b == NewBundle(task[i].grant, task[i].bundle.rt, t)
<1>2. /\ Moves(i, "call", task[i].user, b, NoGrant, task[i].due)
      /\ TaskInv(i)'
  BY <1>1, ToCall DEF Persist
<1>3. /\ b \in Bundle /\ task[i].user \in Users /\ task[i].grant \in Grant
      /\ BundleOf(task[i].user, b)
  BY RotatedBundle DEF Persist
<1>4. b.rt = task[i].grant \/ (b.rt \in spent /\ LastAnswer(b))
  BY RotatedToken DEF Persist
<1>5. secret' = [secret EXCEPT ![task[i].user] = b]
  BY <1>1
<1> HIDE DEF b
<1>. QED
  BY <1>2, <1>3, <1>4, <1>5, StoreStep DEF Persist

\* The bundle a login is about to store.
LEMMA LoginBundle ==
  ASSUME IInv, NEW i \in Tasks, task[i].pc \in {"put", "create"}
  PROVE  /\ task[i].user \in Users /\ task[i].grant \in Grant
         /\ task[i].bundle \in Bundle /\ BundleOf(task[i].user, task[i].bundle)
         /\ task[i].bundle.rt \in {task[i].grant, NoGrant}
         /\ task[i].pc # "redeemed"
BY TaskTyped DEF IInv, TaskInv, LoginPC

LEMMA StorePutStep ==
  ASSUME IInv, NEW i \in Tasks, StorePut(i)
  PROVE  IInv'
<1>1. Moves(i, "idle", NoUser, NoBundle, NoGrant, 0) /\ TaskInv(i)'
  BY ToIdle DEF StorePut
<1>2. secret' = [secret EXCEPT ![task[i].user] = task[i].bundle]
  BY DEF StorePut
<1>. QED
  BY <1>1, <1>2, LoginBundle, StoreStep DEF StorePut

LEMMA StoreCreateStep ==
  ASSUME IInv, NEW i \in Tasks, StoreCreate(i)
  PROVE  IInv'
<1>1. Moves(i, "idle", NoUser, NoBundle, NoGrant, 0) /\ TaskInv(i)'
  BY ToIdle DEF StoreCreate
<1>2. CASE secret[task[i].user] = NoBundle
  <2>1. secret' = [secret EXCEPT ![task[i].user] = task[i].bundle]
    BY <1>2 DEF StoreCreate
  <2>. QED
    BY <1>1, <2>1, LoginBundle, StoreStep DEF StoreCreate
<1>3. CASE secret[task[i].user] # NoBundle
  <2>1. secret' = secret
    BY <1>3 DEF StoreCreate
  <2>2. NoGrant \notin Grant
    BY DEF NoGrant, Grant
  <2>. QED
    BY <1>1, <2>1, <2>2, OrphanedTyped, QuietStep DEF StoreCreate, LoginPC
<1>. QED
  BY <1>2, <1>3

LEMMA TickStep ==
  ASSUME IInv, Tick
  PROVE  IInv'
<1>1. now' = now + 1 /\ now \in Nat
  BY DEF Tick, IInv, TypeOK
<1>2. TypeOK'
  BY <1>1 DEF IInv, TypeOK, Tick, lark
<1>3. LarkInv'
  BY <1>1, Constants DEF IInv, LarkInv, TypeOK, Tick, lark, Grant
<1>4. SecretInv'
  BY DEF IInv, SecretInv, BundleOf, Tick, lark
<1>5. ASSUME NEW j \in Tasks
      PROVE  TaskInv(j)'
  <2>1. TaskInv(j) /\ (task[j].pc = "idle" \/ now < task[j].due)
    BY DEF IInv, Tick
  <2>2. task[j].due \in Nat /\ Timeout \in Nat
    BY TaskTyped, Constants DEF IInv
  <2>. QED
    BY <1>1, <2>1, <2>2 DEF TaskInv, BundleOf, Tick, lark
<1>6. FreshInv' /\ NoStranding'
  BY DEF IInv, FreshInv, NoStranding, LastAnswer, Tick, lark
<1>. QED
  BY <1>2, <1>3, <1>4, <1>5, <1>6 DEF IInv

LEMMA LapseStep ==
  ASSUME IInv, NEW g \in Grant, Lapse(g)
  PROVE  IInv'
<1>1. TypeOK'
  BY DEF IInv, TypeOK, Lapse, lark
<1>2. LarkInv'
  BY DEF IInv, LarkInv, Lapse, lark, Redeemable
<1>3. SecretInv'
  BY DEF IInv, SecretInv, BundleOf, Lapse, lark
<1>4. ASSUME NEW j \in Tasks
      PROVE  TaskInv(j)'
  BY DEF IInv, TaskInv, BundleOf, Lapse, lark
<1>5. FreshInv' /\ NoStranding'
  BY DEF IInv, FreshInv, NoStranding, LastAnswer, Lapse, lark
<1>. QED
  BY <1>1, <1>2, <1>3, <1>4, <1>5 DEF IInv

\* What Lark answers.
LEMMA IssueFacts ==
  ASSUME TypeOK, LarkInv, NEW u \in Users, NEW r \in BOOLEAN, Issue(u, r),
         now' = now, ended \subseteq ended'
  PROVE  /\ issued + 1 \in Grant /\ issued' = issued + 1
         /\ issued + 1 \notin 1..issued /\ 1..issued' = 1..issued \cup {issued + 1}
         /\ owner'[issued + 1] = u
         /\ expiry'[issued + 1] = now + AccessTTL
         /\ r => issued + 1 \in offline'
         /\ offline' \subseteq 1..issued'
         /\ LarkExtends
         /\ issued' \in 0..MaxGrants /\ offline' \subseteq Grant
         /\ owner' \in [Grant -> Users \cup {NoUser}]
         /\ expiry' \in [Grant -> Nat]
         /\ \A g \in 1..issued' :
              owner'[g] \in Users /\ expiry'[g] <= now' + AccessTTL
<1>1. /\ issued \in Nat /\ issued < MaxGrants /\ issued + 1 \in Grant
      /\ issued' = issued + 1 /\ issued + 1 \notin 1..issued
      /\ 1..issued' = 1..issued \cup {issued + 1} /\ 1..issued \subseteq Grant
      /\ issued' \in 0..MaxGrants
  BY Constants DEF Issue, TypeOK, Grant
<1>2. now + AccessTTL \in Nat
  BY Constants DEF TypeOK
<1>3. /\ owner' = [owner EXCEPT ![issued + 1] = u]
      /\ expiry' = [expiry EXCEPT ![issued + 1] = now + AccessTTL]
      /\ offline' = IF r THEN offline \cup {issued + 1} ELSE offline
  BY DEF Issue
<1>4. /\ owner'[issued + 1] = u /\ expiry'[issued + 1] = now + AccessTTL
      /\ \A g \in 1..issued : owner'[g] = owner[g] /\ expiry'[g] = expiry[g]
      /\ owner' \in [Grant -> Users \cup {NoUser}]
      /\ expiry' \in [Grant -> Nat]
  BY <1>1, <1>2, <1>3 DEF TypeOK
<1>5. /\ r => issued + 1 \in offline'
      /\ offline' \subseteq 1..issued' /\ offline \subseteq offline'
  BY <1>1, <1>3 DEF LarkInv
<1>6. LarkExtends
  BY <1>1, <1>4, <1>5 DEF LarkExtends
<1>7. \A g \in 1..issued' :
        owner'[g] \in Users /\ expiry'[g] <= now' + AccessTTL
  BY <1>1, <1>2, <1>4 DEF LarkInv
<1>8. 1..issued' \subseteq Grant
  BY <1>1
<1>. QED
  BY <1>1, <1>4, <1>5, <1>6, <1>7, <1>8

\* No one knows the next grant.
LEMMA NextGrantUnknown ==
  ASSUME IInv, NEW j \in Tasks
  PROVE  /\ issued + 1 \notin spent /\ task[j].grant # issued + 1
         /\ \A u \in Users : secret[u].rt # issued + 1
         /\ task[j].pc = "refresh" => task[j].bundle.rt # issued + 1
<1>1. issued \in Nat /\ issued + 1 \notin 1..issued /\ issued + 1 # NoGrant
  BY DEF IInv, TypeOK, NoGrant
<1>2. issued + 1 \notin spent
  BY <1>1 DEF IInv, LarkInv
<1>3. task[j].grant # issued + 1
  BY <1>1 DEF IInv, TaskInv
<1>4. ASSUME NEW u \in Users
      PROVE  secret[u].rt # issued + 1
  <2>1. CASE secret[u] = NoBundle
    BY <1>1, <2>1 DEF NoBundle
  <2>2. CASE secret[u] # NoBundle
    BY <1>1, <2>2 DEF IInv, SecretInv, BundleOf
  <2>. QED
    BY <2>1, <2>2
<1>5. task[j].pc = "refresh" => task[j].bundle.rt # issued + 1
  BY <1>1 DEF IInv, TaskInv, BundleOf
<1>. QED
  BY <1>2, <1>3, <1>4, <1>5

\* A step of invocation i that Lark answers with the next grant.
LEMMA IssueStep ==
  ASSUME IInv, NEW i \in Tasks, task[i].grant = NoGrant,
         NEW o \in Users, NEW r \in BOOLEAN, Issue(o, r),
         NEW p, NEW u, NEW b, NEW g, NEW d, Moves(i, p, u, b, g, d),
         p # "refresh",
         p \notin {"idle", "redeemed"} => u \in Users,
         p \notin {"idle", "denied", "redeemed"} => b \in Bundle,
         g \in Grant <=> p \in {"rotated"} \cup LoginPC,
         g \in {issued + 1, NoGrant},
         \/ spent' = spent /\ ended' = ended
         \/ /\ task[i].pc = "refresh" /\ spent' = spent \cup {task[i].bundle.rt}
            /\ ended' \in {ended, ended \cup {task[i].bundle.rt}},
         orphaned \subseteq orphaned', orphaned' \subseteq Grant,
         orphaned' # {} => Faults # {},
         TaskInv(i)', NoStranding',
         UNCHANGED <<now, lapsed, secret>>
  PROVE  IInv'
<1>1. TypeOK /\ LarkInv /\ ended \subseteq ended'
  BY DEF IInv
<1>2. LarkExtends /\ 1..issued' = 1..issued \cup {issued + 1}
  BY <1>1, IssueFacts
<1>3. /\ spent' \subseteq 1..issued /\ spent' \subseteq Grant
      /\ spent \subseteq spent' /\ ended \subseteq ended' /\ ended' \subseteq spent'
  <2>1. task[i].pc = "refresh" => task[i].bundle.rt \in 1..issued
    BY DEF IInv, TaskInv, BundleOf
  <2>2. 1..issued \subseteq Grant
    BY <1>1, Constants DEF TypeOK, Grant
  <2>. QED
    BY <1>1, <2>1, <2>2 DEF LarkInv
<1>4. TypeOK'
  <2>1. \A j \in Tasks :
          /\ task'[j].pc \notin {"idle", "redeemed"} => task'[j].user \in Users
          /\ task'[j].pc \notin {"idle", "denied", "redeemed"} =>
               task'[j].bundle \in Bundle
          /\ task'[j].grant \in Grant <=>
               task'[j].pc \in {"rotated"} \cup LoginPC
    BY <1>1, MovesTyped
  <2>2. task' \in [Tasks -> Task]
    BY DEF Moves
  <2>3. /\ issued' \in 0..MaxGrants /\ offline' \subseteq Grant
        /\ owner' \in [Grant -> Users \cup {NoUser}]
        /\ expiry' \in [Grant -> Nat]
    BY <1>1, IssueFacts
  <2>. QED
    BY <1>1, <1>3, <2>1, <2>2, <2>3 DEF TypeOK
<1>5. LarkInv'
  <2>1. /\ offline' \subseteq 1..issued'
        /\ \A h \in 1..issued' :
             owner'[h] \in Users /\ expiry'[h] <= now' + AccessTTL
    BY <1>1, IssueFacts
  <2>. QED
    BY <1>1, <1>2, <1>3, <2>1 DEF LarkInv
<1>6. SecretInv'
  BY <1>1, <1>2, SecretKept DEF IInv, TypeOK
<1>7. \A j \in Tasks : TaskInv(j)'
  <2>1. ASSUME NEW j \in Tasks, j # i PROVE TaskInv(j)'
    BY <1>1, <1>2, <1>3, <2>1, TaskKept DEF IInv, Moves
  <2>. QED
    BY <2>1
<1>8. FreshInv'
  <2>. SUFFICES ASSUME NEW k \in Tasks, task'[k].grant # NoGrant
                PROVE  /\ task'[k].grant \notin spent'
                       /\ \A v \in Users : secret'[v].rt # task'[k].grant
                       /\ \A j \in Tasks :
                            /\ j # k => task'[j].grant # task'[k].grant
                            /\ task'[j].pc = "refresh" =>
                                 task'[j].bundle.rt # task'[k].grant
    BY DEF FreshInv
  <2>1. CASE k = i
    <3>1. task'[k].grant = issued + 1
      BY <2>1 DEF Moves
    <3>2. issued + 1 \notin spent'
      BY <1>1, <1>3, IssueFacts
    <3>3. \A v \in Users : secret'[v].rt # issued + 1
      BY NextGrantUnknown
    <3>4. ASSUME NEW j \in Tasks, j # k
          PROVE  /\ task'[j].grant # issued + 1
                 /\ task'[j].pc = "refresh" => task'[j].bundle.rt # issued + 1
      BY <2>1, <3>4, NextGrantUnknown DEF Moves
    <3>5. task'[k].pc # "refresh"
      BY <2>1 DEF Moves
    <3>. QED
      BY <3>1, <3>2, <3>3, <3>4, <3>5
  <2>2. CASE k # i
    <3>1. task'[k] = task[k]
      BY <2>2 DEF Moves
    <3>2. task[k].grant \notin spent'
      BY <3>1 DEF IInv, FreshInv
    <3>3. \A v \in Users : secret'[v].rt # task[k].grant
      BY <3>1 DEF IInv, FreshInv
    <3>4. task'[i].grant # task[k].grant /\ task'[i].pc # "refresh"
      BY <3>1, NextGrantUnknown DEF Moves
    <3>5. ASSUME NEW j \in Tasks, j # i
          PROVE  /\ j # k => task'[j].grant # task[k].grant
                 /\ task'[j].pc = "refresh" => task'[j].bundle.rt # task[k].grant
      BY <3>1, <3>5 DEF IInv, FreshInv, Moves
    <3>. QED
      BY <3>1, <3>2, <3>3, <3>4, <3>5
  <2>. QED
    BY <2>1, <2>2
<1>. QED
  BY <1>4, <1>5, <1>6, <1>7, <1>8 DEF IInv

\* The refresh token a refresh is about to redeem.
LEMMA Redeeming ==
  ASSUME IInv, NEW i \in Tasks, task[i].pc = "refresh"
  PROVE  /\ task[i].bundle.rt \in 1..issued /\ task[i].bundle.rt \in Grant
         /\ owner[task[i].bundle.rt] = task[i].user
         /\ task[i].user \in Users /\ task[i].bundle \in Bundle
         /\ BundleOf(task[i].user, task[i].bundle)
         /\ task[i].grant = NoGrant
         /\ now <= task[i].due /\ task[i].due <= now + Timeout
         /\ task[i].due \in Nat
<1>1. /\ task[i].bundle.rt \in 1..issued
      /\ owner[task[i].bundle.rt] = task[i].user
      /\ BundleOf(task[i].user, task[i].bundle)
      /\ now <= task[i].due /\ task[i].due <= now + Timeout
  BY DEF IInv, TaskInv, BundleOf
<1>2. 1..issued \subseteq Grant
  BY Constants DEF IInv, TypeOK, Grant
<1>. QED
  BY <1>1, <1>2, TaskTyped DEF IInv, LoginPC

\* Once its refresh token is redeemed, a secret's user is the redeemer's.
LEMMA RedeemedIsOwn ==
  ASSUME IInv, NEW i \in Tasks, task[i].pc = "refresh", NEW u \in Users,
         secret[u].rt = task[i].bundle.rt
  PROVE  u = task[i].user
<1>1. /\ task[i].bundle.rt \in 1..issued
      /\ owner[task[i].bundle.rt] = task[i].user
  BY Redeeming
<1>2. secret[u].rt # NoGrant
  BY <1>1 DEF NoGrant, IInv, TypeOK
<1>3. secret[u] # NoBundle
  BY <1>2 DEF NoBundle
<1>. QED
  BY <1>1, <1>2, <1>3 DEF IInv, SecretInv, BundleOf

LEMMA RefreshStep ==
  ASSUME IInv, NEW i \in Tasks, Refresh(i)
  PROVE  IInv'
<1>. PICK new \in BOOLEAN : Redeem(i, new)
  BY DEF Refresh
<1> DEFINE r == task[i].bundle.rt
<1>1. /\ r \in 1..issued /\ r \in Grant /\ owner[r] = task[i].user
      /\ task[i].user \in Users /\ task[i].bundle \in Bundle
      /\ BundleOf(task[i].user, task[i].bundle)
      /\ task[i].grant = NoGrant
      /\ now <= task[i].due /\ task[i].due <= now + Timeout
      /\ task[i].due \in Nat
  BY Redeeming DEF Redeem
<1>2. /\ Issue(task[i].user, new) /\ TypeOK /\ LarkInv /\ now' = now
      /\ ended \subseteq ended'
  BY <1>1 DEF Redeem, Refresh, IInv
<1>3. /\ issued + 1 \in Grant /\ issued + 1 \in 1..issued'
      /\ owner'[issued + 1] = task[i].user
      /\ expiry'[issued + 1] = now + AccessTTL
      /\ new => issued + 1 \in offline'
      /\ LarkExtends
  BY <1>1, <1>2, IssueFacts
<1>4. Moves(i, "rotated", task[i].user, task[i].bundle, issued + 1, task[i].due)
  <2>1. task' = [task EXCEPT ![i].pc = "rotated", ![i].grant = issued + 1]
    BY DEF Refresh
  <2>2. task \in [Tasks -> Task]
    BY <1>2 DEF TypeOK
  <2>. QED
    BY <1>3, <2>1, <2>2 DEF Moves, Task, ToolPC
<1>5. BundleOf(task[i].user, task[i].bundle)'
  <2>1. ASSUME NEW u, NEW b, BundleOf(u, b) PROVE BundleOf(u, b)'
    BY <1>2, <1>3, <2>1, BundleKept DEF TypeOK
  <2>2. /\ task'[i].user = task[i].user /\ task'[i].bundle = task[i].bundle
    BY <1>4 DEF Moves
  <2>. QED
    BY <1>1, <2>1, <2>2 DEF BundleOf
<1>6. /\ spent' = spent \cup {r} /\ ended' \in {ended, ended \cup {r}}
      /\ new \/ r \in ended'
      /\ UNCHANGED <<now, lapsed, secret, orphaned>>
  BY DEF Redeem, Refresh
<1>7. TaskInv(i)'
  <2>1. task[i].due + AccessTTL <= now + AccessTTL + Timeout /\ now' = now
    BY <1>1, <1>2, Constants DEF TypeOK
  <2>. QED
    BY <1>1, <1>3, <1>4, <1>5, <1>6, <2>1 DEF TaskInv, Moves
<1>8. NoStranding'
  <2>. SUFFICES ASSUME NEW v \in Users, secret[v].rt \in spent'
                PROVE  \/ secret[v].rt \in orphaned
                       \/ LastAnswer(secret[v])'
                       \/ \E j \in Tasks : /\ task'[j].pc = "rotated"
                                           /\ task'[j].user = v
                                           /\ task'[j].bundle.rt = secret[v].rt
    BY <1>6 DEF NoStranding
  <2>1. CASE secret[v].rt = r
    <3>1. v = task[i].user
      BY <2>1, RedeemedIsOwn DEF Redeem
    <3>. QED
      BY <1>4, <2>1, <3>1 DEF Moves
  <2>2. CASE secret[v].rt \in spent
    <3>1. LastAnswer(secret[v]) => LastAnswer(secret[v])'
      BY <1>6 DEF LastAnswer
    <3>2. task[i].pc # "rotated"
      BY DEF Redeem
    <3>. QED
      BY <1>4, <2>2, <3>1, <3>2 DEF IInv, NoStranding, Moves
  <2>. QED
    BY <1>6, <2>1, <2>2
<1>9. orphaned' \subseteq Grant /\ (orphaned' # {} => Faults # {})
  BY <1>6, OrphanedTyped
<1>10. task[i].pc = "refresh"
  BY DEF Redeem
<1>. QED
  BY <1>1, <1>2, <1>3, <1>4, <1>6, <1>7, <1>8, <1>9, <1>10, IssueStep
     DEF LoginPC

LEMMA RefreshLostStep ==
  ASSUME IInv, NEW i \in Tasks, RefreshLost(i)
  PROVE  IInv'
<1>. PICK new \in BOOLEAN : Redeem(i, new)
  BY DEF RefreshLost
<1> DEFINE r == task[i].bundle.rt
<1>1. /\ r \in Grant /\ owner[r] = task[i].user /\ task[i].user \in Users
      /\ task[i].grant = NoGrant /\ task[i].pc = "refresh"
  BY Redeeming DEF Redeem
<1>2. Issue(task[i].user, new)
  BY <1>1 DEF Redeem
<1>3. /\ Moves(i, "denied", task[i].user, task[i].bundle, NoGrant, task[i].due)
      /\ TaskInv(i)'
  BY <1>1, ToDenied DEF RefreshLost
<1>4. /\ spent' = spent \cup {r} /\ orphaned' = orphaned \cup {r}
      /\ ended' \in {ended, ended \cup {r}}
      /\ UNCHANGED <<now, lapsed, secret>> /\ Faults # {}
  BY DEF Redeem, RefreshLost
<1>5. NoStranding'
  BY <1>1, <1>3, <1>4 DEF IInv, NoStranding, LastAnswer, Moves
<1>6. NoGrant \notin Grant /\ orphaned' \subseteq Grant
  BY <1>1, <1>4, OrphanedTyped DEF NoGrant, Grant
<1>. QED
  BY <1>1, <1>2, <1>3, <1>4, <1>5, <1>6, IssueStep DEF LoginPC

LEMMA BeginLoginStep ==
  ASSUME IInv, NEW i \in Tasks, NEW u \in Users, NEW r \in BOOLEAN,
         BeginLogin(i, u, r)
  PROVE  IInv'
<1>1. /\ task[i].pc = "idle" /\ Issue(u, r) /\ now' = now
      /\ UNCHANGED <<ended, spent, lapsed, secret, orphaned>>
      /\ TypeOK /\ LarkInv
  BY DEF BeginLogin, IInv
<1>2. task[i].grant = NoGrant /\ NoGrant \notin Grant
  BY <1>1, TaskTyped DEF LoginPC, NoGrant, Grant
<1>3. /\ issued + 1 \in Grant /\ issued + 1 \in 1..issued'
      /\ expiry'[issued + 1] = now + AccessTTL
  BY <1>1, IssueFacts
<1>4. Moves(i, "redeemed", NoUser, NoBundle, issued + 1, now + Timeout)
  <2>1. now + Timeout \in Nat /\ task \in [Tasks -> Task]
    BY <1>1, Constants DEF TypeOK
  <2>2. task' = [task EXCEPT ![i] = [Idle EXCEPT
          !.pc = "redeemed", !.grant = issued + 1, !.due = now + Timeout]]
    BY DEF BeginLogin
  <2>. QED
    BY <1>3, <2>1, <2>2 DEF Moves, Idle, Task, LoginPC
<1>5. TaskInv(i)'
  <2>1. /\ now \in Nat /\ now <= now + Timeout
        /\ now + Timeout <= now + Timeout
        /\ (now + Timeout) + AccessTTL <= (now + AccessTTL) + Timeout
    BY <1>1, Constants DEF TypeOK
  <2>. QED
    BY <1>1, <1>3, <1>4, <2>1 DEF TaskInv, Moves
<1>6. NoStranding'
  BY <1>1, <1>4 DEF IInv, NoStranding, LastAnswer, Moves
<1>7. orphaned' \subseteq Grant /\ (orphaned' # {} => Faults # {})
  BY <1>1, OrphanedTyped
<1>. QED
  BY <1>1, <1>2, <1>3, <1>4, <1>5, <1>6, <1>7, IssueStep DEF LoginPC

-----------------------------------------------------------------------------
(* The theorems                                                            *)

LEMMA InitInv == Init => IInv
<1>. SUFFICES ASSUME Init PROVE IInv
  OBVIOUS
<1>1. TypeOK
  BY IdleFields, Constants DEF Init, TypeOK, Grant, NoGrant, LoginPC
<1>2. LarkInv
  BY DEF Init, LarkInv
<1>3. SecretInv /\ NoStranding
  BY DEF Init, SecretInv, NoStranding
<1>4. \A i \in Tasks : TaskInv(i)
  BY IdleFields DEF Init, TaskInv
<1>5. FreshInv
  BY IdleFields DEF Init, FreshInv
<1>. QED
  BY <1>1, <1>2, <1>3, <1>4, <1>5 DEF IInv

LEMMA NextInv == IInv /\ [Next]_vars => IInv'
<1>. SUFFICES ASSUME IInv, [Next]_vars PROVE IInv'
  OBVIOUS
<1>1. ASSUME NEW i \in Tasks, NEW u \in Users, BeginTool(i, u) PROVE IInv'
  BY <1>1, BeginToolStep
<1>2. ASSUME NEW i \in Tasks, NEW u \in Users, NEW r \in BOOLEAN,
             BeginLogin(i, u, r)
      PROVE  IInv'
  BY <1>2, BeginLoginStep
<1>3. ASSUME NEW i \in Tasks, \/ Refresh(i) \/ RefreshLost(i)
                              \/ RefreshRefused(i) \/ Persist(i)
                              \/ PersistFails(i) \/ Return(i)
      PROVE  IInv'
  BY <1>3, RefreshStep, RefreshLostStep, RefreshRefusedStep, PersistStep,
     PersistFailsStep, ReturnStep
<1>4. ASSUME NEW i \in Tasks, \/ UserInfo(i) \/ StorePut(i)
                              \/ StoreNotFound(i) \/ StoreCreate(i) \/ Crash(i)
      PROVE  IInv'
  BY <1>4, UserInfoStep, StorePutStep, StoreNotFoundStep, StoreCreateStep,
     CrashStep
<1>5. ASSUME NEW g \in Grant, Lapse(g) PROVE IInv'
  BY <1>5, LapseStep
<1>6. CASE Tick
  BY <1>6, TickStep
<1>7. CASE UNCHANGED vars
  BY <1>7 DEF vars, lark, IInv, TypeOK, LarkInv, SecretInv, BundleOf, TaskInv,
              FreshInv, NoStranding, LastAnswer
<1>. QED
  BY <1>1, <1>2, <1>3, <1>4, <1>5, <1>6, <1>7 DEF Next

\* The inductive invariant holds in every reachable state.
THEOREM Invariance == Spec => []IInv
<1>. QED
  BY InitInv, NextInv, PTL DEF Spec

\* Every variable keeps to its type (the module's own state, Init and actions).
THEOREM TypeCorrectness == Spec => []TypeOK
<1>1. IInv => TypeOK
  BY DEF IInv
<1>. QED
  BY <1>1, Invariance, PTL

\* A tool only ever calls Lark as the user it runs for, and each secret holds
\* tokens of its own user (tools/index.py 125-148, lark_oauth.py 76-124).
THEOREM ActingAsCaller == Spec => []ActsAsCaller
<1>1. IInv => ActsAsCaller
  BY DEF IInv, SecretInv, TaskInv, BundleOf, ActsAsCaller
<1>. QED
  BY <1>1, Invariance, PTL

\* The 60s margin of _valid_user_token (tools/index.py 129) outlasts the tool.
THEOREM ActingWithLiveToken == Spec => []ActsWithLiveToken
<1>1. ASSUME IInv PROVE ActsWithLiveToken
  <2>. SUFFICES ASSUME NEW i \in Tasks, task[i].pc = "call"
                PROVE  now < expiry[task[i].bundle.at]
    BY DEF ActsWithLiveToken
  <2>1. /\ now <= task[i].due /\ task[i].due < expiry[task[i].bundle.at]
        /\ task[i].bundle.at \in 1..issued
    BY <1>1 DEF IInv, TaskInv, BundleOf
  <2>2. /\ now \in Nat /\ task[i].due \in Nat /\ task[i].bundle.at \in Grant
    BY <1>1, TaskTyped DEF IInv, TypeOK, Bundle
  <2>3. expiry[task[i].bundle.at] \in Nat
    BY <1>1, <2>2 DEF IInv, TypeOK
  <2>. QED
    BY <2>1, <2>2, <2>3
<1>. QED
  BY <1>1, Invariance, PTL

\* No interleaving of refreshes and logins leaves a secret whose refresh token
\* is spent and has a successor that nobody holds: only a fault does
\* (tools/index.py 88-122).
THEOREM NobodyStranded == Spec => []NoStranding
<1>1. IInv => NoStranding
  BY DEF IInv
<1>. QED
  BY <1>1, Invariance, PTL

\* What a write puts into a secret has not been redeemed, or Lark gave nothing
\* to take its place.
LEMMA WritesFresh ==
  ASSUME IInv, Next, NEW u \in Users, secret'[u] # secret[u]
  PROVE  secret'[u].rt \notin spent' \/ LastAnswer(secret[u])'
<1>1. NoGrant \notin spent /\ secret \in [Users -> Bundle \cup {NoBundle}]
  BY DEF IInv, TypeOK, NoGrant, Grant
<1>2. ASSUME NEW i \in Tasks, Persist(i)
      PROVE  secret'[u].rt \notin spent' \/ LastAnswer(secret[u])'
  <2>1. PICK t \in ReadAt(task[i].grant) :
          secret' = [secret EXCEPT ![task[i].user] =
                       NewBundle(task[i].grant, task[i].bundle.rt, t)]
    BY <1>2 DEF Persist
  <2> DEFINE b == NewBundle(task[i].grant, task[i].bundle.rt, t)
  <2>2. \/ b.rt = task[i].grant
        \/ LastAnswer(b)
    BY <1>2, RotatedToken DEF Persist
  <2>3. task[i].grant \in Grant
    BY <1>2, TaskTyped DEF IInv, Persist
  <2>4. task[i].grant \notin spent /\ spent' = spent /\ ended' = ended
    BY <1>2, <2>3 DEF IInv, FreshInv, Persist, lark, NoGrant, Grant
  <2> HIDE DEF b
  <2>5. secret'[u] = b
    BY <1>1, <2>1 DEF b
  <2>. QED
    BY <2>2, <2>4, <2>5 DEF LastAnswer
<1>3. ASSUME NEW i \in Tasks, StorePut(i) \/ StoreCreate(i)
      PROVE  secret'[u].rt \notin spent'
  <2>1. secret'[u] = task[i].bundle /\ spent' = spent
    BY <1>1, <1>3 DEF StorePut, StoreCreate
  <2>2. task[i].bundle.rt \in {task[i].grant, NoGrant} /\ task[i].grant \in Grant
    BY <1>3, LoginBundle DEF StorePut, StoreCreate
  <2>3. task[i].grant \notin spent
    BY <2>2 DEF IInv, FreshInv, NoGrant, Grant
  <2>. QED
    BY <1>1, <2>1, <2>2, <2>3
<1>. QED
  BY <1>2, <1>3
     DEF Next, BeginTool, BeginLogin, Refresh, RefreshLost, RefreshRefused,
         PersistFails, Return, UserInfo, StoreNotFound, Crash, Lapse, Tick

\* A write puts back a redeemed refresh token only when Lark gave no other
\* (tools/index.py 112, 118, lark_oauth.py 92-94), though none of them looks at
\* what it overwrites.
THEOREM WritingCurrent == Spec => WritesAreCurrent
<1>1. IInv /\ [Next]_vars =>
        [\A u \in Users :
           secret'[u] # secret[u] =>
             secret'[u].rt \notin spent' \/ LastAnswer(secret[u])']_vars
  BY WritesFresh
<1>. QED
  BY <1>1, Invariance, PTL DEF Spec, WritesAreCurrent

=============================================================================

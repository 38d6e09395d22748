----------------------------- MODULE UserTokens -----------------------------
(***************************************************************************)
(* The life of a user's Lark token bundle: the secret                      *)
(* {prefix}/user-tokens/{open_id} in Secrets Manager, written by the       *)
(* web_api Lambda at login (lambda/web_api/lark_oauth.py) and by the tool  *)
(* Lambda when it refreshes an expired token (lambda/tools/index.py), with *)
(* no lock and no conditional write between them.                          *)
(*                                                                         *)
(* Lark's OAuth server is external.  A grant is one of its answers: an     *)
(* access token and, as Lark decides, a refresh token that can be redeemed *)
(* once ("single-use", tools/index.py:89).  An answer without one is       *)
(* provided for at a login (lark_oauth.py:84) and at a refresh             *)
(* (tools/index.py:112), and happens at both.  Grants are numbered in the  *)
(* order Lark issues them and the number stands for both tokens.           *)
(*                                                                         *)
(* Time is discrete.  Timeout bounds how long an invocation lives between  *)
(* two readings of the clock: the tool Lambda's 15s, and the two 10s       *)
(* urlopen timeouts between the issue of a grant at login and the moment   *)
(* its expires_at is computed.  Margin is the 60s of _valid_user_token.    *)
(***************************************************************************)
EXTENDS Integers

CONSTANTS
  Users,      \* Lark open_ids
  NoUser,     \* not an open_id
  Tasks,      \* Lambda sandboxes; each runs one invocation at a time
  AccessTTL,  \* expires_in of an access token
  Margin,     \* how long before expires_at a token is refreshed
  Timeout,    \* see above
  Faults,     \* the faults the environment may inject, a subset of FaultKind
  MaxGrants,  \* bound on the grants Lark issues
  MaxTime     \* bound on the clock

FaultKind == {"crash", "unreachable", "response_lost", "put_fails", "lapse"}

ASSUME UserTokensAssumption ==
  /\ NoUser \notin Users
  /\ AccessTTL \in Nat /\ Margin \in Nat /\ Timeout \in Nat
  /\ 2 * Timeout <= Margin
  /\ Timeout < AccessTTL
  /\ Faults \subseteq FaultKind
  /\ MaxGrants \in Nat /\ MaxTime \in Nat

Grant   == 1..MaxGrants
NoGrant == 0

\* The secret's JSON: access token, refresh token ("" is NoGrant), expires_at.
Bundle   == [at : Grant, rt : Grant \cup {NoGrant}, exp : Nat]
NoBundle == [at |-> NoGrant, rt |-> NoGrant, exp |-> 0]

VARIABLES
  now,       \* the clock
  issued,    \* how many grants Lark has issued
  owner,     \* Lark: the user each grant was issued to
  expiry,    \* Lark: when each access token stops working
  offline,   \* Lark: the grants that came with a refresh token
  spent,     \* Lark: the refresh tokens already redeemed
  ended,     \* Lark: those it answered without a new refresh token
  lapsed,    \* Lark: the refresh tokens expired or revoked
  secret,    \* Secrets Manager: the bundle stored for each user
  task,      \* the invocation running in each sandbox
  orphaned   \* history: redeemed refresh tokens whose successor was lost

lark == <<issued, owner, expiry, offline, ended>>
vars == <<now, issued, owner, expiry, offline, ended, spent, lapsed, secret,
          task, orphaned>>

(***************************************************************************)
(* A tool invocation goes idle -> (refresh -> rotated ->) call -> idle, or *)
(* to denied when it finds no usable token.  A login goes idle -> redeemed *)
(* -> put (-> create) -> idle.                                             *)
(***************************************************************************)
ToolPC  == {"refresh", "rotated", "call", "denied"}
LoginPC == {"redeemed", "put", "create"}

Task == [pc : {"idle"} \cup ToolPC \cup LoginPC,
         user : Users \cup {NoUser},
         bundle : Bundle \cup {NoBundle},   \* loaded, or about to be stored
         grant : Grant \cup {NoGrant},      \* issued to it, not yet stored
         due : Nat]                         \* when the platform has ended it

Idle == [pc |-> "idle", user |-> NoUser, bundle |-> NoBundle,
         grant |-> NoGrant, due |-> 0]

TypeOK ==
  /\ now \in Nat
  /\ issued \in 0..MaxGrants
  /\ owner \in [Grant -> Users \cup {NoUser}]
  /\ expiry \in [Grant -> Nat]
  /\ offline \subseteq Grant /\ spent \subseteq Grant /\ ended \subseteq Grant
  /\ lapsed \subseteq Grant /\ orphaned \subseteq Grant
  /\ secret \in [Users -> Bundle \cup {NoBundle}]
  /\ task \in [Tasks -> Task]
  /\ \A i \in Tasks :
       /\ task[i].pc \notin {"idle", "redeemed"} => task[i].user \in Users
       /\ task[i].pc \notin {"idle", "denied", "redeemed"} =>
            task[i].bundle \in Bundle
       /\ task[i].grant \in Grant <=> task[i].pc \in {"rotated"} \cup LoginPC

Init ==
  /\ now = 0
  /\ issued = 0
  /\ owner = [g \in Grant |-> NoUser]
  /\ expiry = [g \in Grant |-> 0]
  /\ offline = {} /\ spent = {} /\ ended = {} /\ lapsed = {} /\ orphaned = {}
  /\ secret = [u \in Users |-> NoBundle]
  /\ task = [i \in Tasks |-> Idle]

-----------------------------------------------------------------------------
(* Lark (external)                                                         *)

\* Lark answers a token request for user u with the next grant.
Issue(u, withRefresh) ==
  /\ issued < MaxGrants
  /\ issued' = issued + 1
  /\ owner' = [owner EXCEPT ![issued + 1] = u]
  /\ expiry' = [expiry EXCEPT ![issued + 1] = now + AccessTTL]
  /\ offline' = IF withRefresh THEN offline \cup {issued + 1} ELSE offline

Redeemable(g) == g \in offline \ (spent \cup lapsed)

\* A refresh token runs out, or the user withdraws the app's access.
Lapse(g) ==
  /\ "lapse" \in Faults
  /\ Redeemable(g)
  /\ lapsed' = lapsed \cup {g}
  /\ UNCHANGED <<now, lark, spent, secret, task, orphaned>>

-----------------------------------------------------------------------------
(* The tool Lambda: _resolve_token and what it calls                       *)

Goto(i, pc) == task' = [task EXCEPT ![i].pc = pc]

\* Mutant of NearExpiry: no margin.
NearExpiryAtOnce(b) == now >= b.exp

NearExpiry(b) == now >= b.exp - Margin

\* _valid_user_token as far as the load: where the loaded bundle leads.
AfterLoad(b) ==
  IF b # NoBundle /\ ~NearExpiry(b) THEN "call"
  ELSE IF b.rt # NoGrant THEN "refresh" ELSE "denied"

BeginTool(i, u) ==
  /\ task[i].pc = "idle"
  /\ task' = [task EXCEPT ![i] =
       [pc |-> AfterLoad(secret[u]), user |-> u, bundle |-> secret[u],
        grant |-> NoGrant, due |-> now + Timeout]]
  /\ UNCHANGED <<now, lark, spent, lapsed, secret, orphaned>>

\* Lark redeems the refresh token of invocation i and answers with a new
\* access token, and with a new refresh token or (r FALSE) without one.
Redeem(i, r) ==
  /\ task[i].pc = "refresh"
  /\ Redeemable(task[i].bundle.rt)
  /\ Issue(owner[task[i].bundle.rt], r)
  /\ spent' = spent \cup {task[i].bundle.rt}
  /\ ended' = IF r THEN ended ELSE ended \cup {task[i].bundle.rt}

\* The answer reaches the invocation.
Refresh(i) ==
  /\ \E r \in BOOLEAN : Redeem(i, r)
  /\ task' = [task EXCEPT ![i].pc = "rotated", ![i].grant = issued + 1]
  /\ UNCHANGED <<now, lapsed, secret, orphaned>>

\* The answer is lost (timeout, reset).
RefreshLost(i) ==
  /\ "response_lost" \in Faults
  /\ \E r \in BOOLEAN : Redeem(i, r)
  /\ orphaned' = orphaned \cup {task[i].bundle.rt}
  /\ Goto(i, "denied")
  /\ UNCHANGED <<now, lapsed, secret>>

\* Lark refuses a token it no longer takes, or is not reached at all.
RefreshRefused(i) ==
  /\ task[i].pc = "refresh"
  /\ ~Redeemable(task[i].bundle.rt) \/ "unreachable" \in Faults
  /\ Goto(i, "denied")
  /\ UNCHANGED <<now, lark, spent, lapsed, secret, orphaned>>

\* Mutant of NewBundle: the refresh token at hand is preferred to the new one.
NewBundleKeepsOld(g, old, t) ==
  [at |-> g, rt |-> IF old # NoGrant \/ g \notin offline THEN old ELSE g,
   exp |-> t + AccessTTL]

\* The bundle built from grant g by code that read the clock at t; an answer
\* without a refresh token leaves the one in old, redeemed as it is.
NewBundle(g, old, t) ==
  [at |-> g, rt |-> IF g \in offline THEN g ELSE old, exp |-> t + AccessTTL]

\* The clock is read between the issue of the grant and the write.
ReadAt(g) == {t \in 0..now : expiry[g] <= t + AccessTTL}

Use(i, b) == task' = [task EXCEPT ![i].pc = "call", ![i].grant = NoGrant,
                                  ![i].bundle = b]

\* Mutant of Persist: the rotated bundle is only kept in memory.
PersistNothing(i) ==
  /\ task[i].pc = "rotated"
  /\ \E t \in ReadAt(task[i].grant) :
       Use(i, NewBundle(task[i].grant, task[i].bundle.rt, t))
  /\ UNCHANGED <<now, lark, spent, lapsed, secret, orphaned>>

\* put_secret_value with the rotated bundle: unconditional.
Persist(i) ==
  /\ task[i].pc = "rotated"
  /\ \E t \in ReadAt(task[i].grant) :
       LET b == NewBundle(task[i].grant, task[i].bundle.rt, t) IN
         /\ secret' = [secret EXCEPT ![task[i].user] = b]
         /\ Use(i, b)
  /\ UNCHANGED <<now, lark, spent, lapsed, orphaned>>

\* Mutant of PersistFails: the handler of the error returns without a bundle.
PersistFailsEmpty(i) ==
  /\ "put_fails" \in Faults
  /\ task[i].pc = "rotated"
  /\ orphaned' = orphaned \cup {task[i].bundle.rt}
  /\ Use(i, NoBundle)
  /\ UNCHANGED <<now, lark, spent, lapsed, secret>>

\* The write fails; the error is logged and the new token is used anyway.
PersistFails(i) ==
  /\ "put_fails" \in Faults
  /\ task[i].pc = "rotated"
  /\ orphaned' = orphaned \cup {task[i].bundle.rt}
  /\ \E t \in ReadAt(task[i].grant) :
       Use(i, NewBundle(task[i].grant, task[i].bundle.rt, t))
  /\ UNCHANGED <<now, lark, spent, lapsed, secret>>

\* The tool's Lark calls are over, or its refusal is returned.
Return(i) ==
  /\ task[i].pc \in {"call", "denied"}
  /\ task' = [task EXCEPT ![i] = Idle]
  /\ UNCHANGED <<now, lark, spent, lapsed, secret, orphaned>>

-----------------------------------------------------------------------------
(* The web_api Lambda: exchange_code and _store_user_token                 *)

\* The login code of user u is redeemed.
BeginLogin(i, u, withRefresh) ==
  /\ task[i].pc = "idle"
  /\ Issue(u, withRefresh)
  /\ task' = [task EXCEPT ![i] = [Idle EXCEPT
       !.pc = "redeemed", !.grant = issued + 1, !.due = now + Timeout]]
  /\ UNCHANGED <<now, ended, spent, lapsed, secret, orphaned>>

\* Mutant of UserInfo: the open_id is read from a variable that concurrent
\* logins share.
UserInfoShared(i) ==
  /\ task[i].pc = "redeemed"
  /\ \E j \in Tasks :
       /\ task[j].pc = "redeemed"
       /\ task' = [task EXCEPT ![i].pc = "put",
            ![i].user = owner[task[j].grant],
            ![i].bundle = NewBundle(task[i].grant, NoGrant, now),
            ![i].due = now + Timeout]
  /\ UNCHANGED <<now, lark, spent, lapsed, secret, orphaned>>

\* user_info names the token's owner; the bundle is built from the clock now.
UserInfo(i) ==
  /\ task[i].pc = "redeemed"
  /\ task' = [task EXCEPT ![i].pc = "put",
                          ![i].user = owner[task[i].grant],
                          ![i].bundle = NewBundle(task[i].grant, NoGrant, now),
                          ![i].due = now + Timeout]
  /\ UNCHANGED <<now, lark, spent, lapsed, secret, orphaned>>

\* put_secret_value overwrites a secret that exists ...
StorePut(i) ==
  /\ task[i].pc = "put"
  /\ secret[task[i].user] # NoBundle
  /\ secret' = [secret EXCEPT ![task[i].user] = task[i].bundle]
  /\ task' = [task EXCEPT ![i] = Idle]
  /\ UNCHANGED <<now, lark, spent, lapsed, orphaned>>

\* ... and raises ResourceNotFoundException when there is none.
StoreNotFound(i) ==
  /\ task[i].pc = "put"
  /\ secret[task[i].user] = NoBundle
  /\ Goto(i, "create")
  /\ UNCHANGED <<now, lark, spent, lapsed, secret, orphaned>>

\* create_secret: the second of two creators fails, and exchange_code
\* swallows the error, so the login goes on without its bundle.
StoreCreate(i) ==
  /\ task[i].pc = "create"
  /\ secret' = IF secret[task[i].user] = NoBundle
               THEN [secret EXCEPT ![task[i].user] = task[i].bundle]
               ELSE secret
  /\ task' = [task EXCEPT ![i] = Idle]
  /\ UNCHANGED <<now, lark, spent, lapsed, orphaned>>

-----------------------------------------------------------------------------
(* The platform                                                            *)

\* An invocation ends early: an uncaught error, the Lambda timeout, a crash.
Crash(i) ==
  /\ "crash" \in Faults
  /\ task[i].pc # "idle"
  /\ orphaned' = IF task[i].pc = "rotated"
                 THEN orphaned \cup {task[i].bundle.rt} ELSE orphaned
  /\ task' = [task EXCEPT ![i] = Idle]
  /\ UNCHANGED <<now, lark, spent, lapsed, secret>>

\* Time passes, but no invocation outlives its timeout.
Tick ==
  /\ now < MaxTime
  /\ \A i \in Tasks : task[i].pc = "idle" \/ now < task[i].due
  /\ now' = now + 1
  /\ UNCHANGED <<lark, spent, lapsed, secret, task, orphaned>>

Next ==
  \/ \E i \in Tasks :
       \/ \E u \in Users : BeginTool(i, u)
       \/ \E u \in Users, r \in BOOLEAN : BeginLogin(i, u, r)
       \/ Refresh(i) \/ RefreshLost(i) \/ RefreshRefused(i)
       \/ Persist(i) \/ PersistFails(i) \/ Return(i)
       \/ UserInfo(i) \/ StorePut(i) \/ StoreNotFound(i) \/ StoreCreate(i)
       \/ Crash(i)
  \/ \E g \in Grant : Lapse(g)
  \/ Tick

Spec == Init /\ [][Next]_vars

-----------------------------------------------------------------------------
(* Safety                                                                  *)

\* "Acts AS the end-user" (tools/index.py:8-11): a tool only ever calls Lark
\* with a token issued to the user it runs for, whatever logins and refreshes
\* of other users run beside it, because the secret of each user only ever
\* holds tokens of that user.
ActsAsCaller ==
  /\ \A u \in Users :
       secret[u] # NoBundle => owner[secret[u].at] = u
  /\ \A i \in Tasks :
       task[i].pc = "call" => owner[task[i].bundle.at] = task[i].user

\* The 60s margin of _valid_user_token is enough: expires_at is computed from
\* a later clock than Lark's, and the tool goes on for a while after the
\* check, yet Lark never gets a token that has stopped working.
ActsWithLiveToken ==
  \A i \in Tasks : task[i].pc = "call" => now < expiry[task[i].bundle.at]

\* The bundle of a refresh that Lark answered without a refresh token: a new
\* access token beside the refresh token it was bought with.
LastAnswer(b) == b.rt \in ended /\ b.at # b.rt

\* A refresh token works once.  When the stored one has been redeemed, its
\* successor is still held by the invocation that redeemed it and is about to
\* be stored, or was lost to a fault, or Lark gave none and what it did give
\* is stored: no interleaving of refreshes and logins leaves a user with a
\* secret whose successor somebody was given and nobody has.
NoStranding ==
  \A u \in Users :
    secret[u].rt \in spent =>
      \/ secret[u].rt \in orphaned
      \/ LastAnswer(secret[u])
      \/ \E i \in Tasks : /\ task[i].pc = "rotated"
                          /\ task[i].user = u
                          /\ task[i].bundle.rt = secret[u].rt

\* No write, of a login or of a refresh, puts back a refresh token that has
\* been redeemed, however old the state its writer started from, unless Lark
\* gave nothing to take its place (tools/index.py:112).
WritesAreCurrent ==
  [][\A u \in Users :
       secret'[u] # secret[u] =>
         secret'[u].rt \notin spent' \/ LastAnswer(secret[u])']_vars

-----------------------------------------------------------------------------
(* What the repository says and the code does not do                       *)

\* "You haven't authorized document access yet (no user token on file)"
\* (tools/index.py:144-147): an invocation that is about to say so finds no
\* token on file that still works or can be refreshed.
RefusedOnlyWithoutToken ==
  [][\A i \in Tasks :
       (task[i].pc # "denied" /\ task'[i].pc = "denied") =>
         LET b == secret[task'[i].user] IN
           NearExpiry(b) /\ ~Redeemable(b.rt)]_vars
=============================================================================

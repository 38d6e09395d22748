---------------------------- MODULE CognitoPool ----------------------------
(***************************************************************************)
(* Minting a user's Cognito tokens.  Two Lambda functions do it: the       *)
(* router on a webhook message (lambda/router/cognito.py) and web_api on a *)
(* login or a session call (lambda/web_api/cognito_mint.py).  Both create  *)
(* the user on demand and derive the password from a salt, which each      *)
(* sandbox reads once and keeps.  The router looks at the password only    *)
(* when it is refused; web_api sets it on every mint.                      *)
(*                                                                         *)
(* Every Cognito call is atomic; the calls of different sandboxes          *)
(* interleave.  A password is represented by the salt it is derived from,  *)
(* a token by its expiry.  A call is made once: botocore's own retries,    *)
(* which may find that the call before them took effect, are left out.     *)
(***************************************************************************)
EXTENDS Integers, FiniteSets

CONSTANTS
  Users,         \* usernames, lark:{open_id}
  Routers,       \* sandboxes of the router
  WebApis,       \* sandboxes of web_api
  NoUser,        \* no username
  Faults,        \* a subset of FaultKind
  Margin,        \* how long before its expiry a cached token is not used
  Life,          \* the life of a token
  MaxRotations,  \* bound on the rotations of the salt
  MaxTime        \* bound on the clock

\* fail: a call of Cognito or Secrets Manager fails, or the Lambda times out.
FaultKind == {"fail"}

ASSUME CognitoPoolAssumption ==
  /\ Routers \cap WebApis = {}
  /\ NoUser \notin Users
  /\ Faults \subseteq FaultKind
  /\ Margin \in Nat /\ Life \in Nat
  /\ MaxRotations \in Nat /\ MaxTime \in Nat

Sandboxes == Routers \cup WebApis

VARIABLES
  now,     \* the clock
  salt,    \* the salt in Secrets Manager: how often it has been rotated
  pool,    \* the password of each user of the pool
  kept,    \* _salt of each sandbox
  cache,   \* _token_cache of each router: the expiry of the cached token, or 0
  task,    \* the mint in each sandbox
  result   \* how the last mint in each sandbox ended

vars == <<now, salt, pool, kept, cache, task, result>>

Absent     == -2   \* no such user
NoPassword == -1   \* the user is created, the password not yet set
NoSalt     == -1   \* the salt has not been read

Task == [pc : {"idle", "get_user", "create", "set_password", "auth", "reset",
               "retry"},
         user : Users \cup {NoUser},
         raced : BOOLEAN]   \* history: since the mint began another sandbox
                            \* has created the user or set another password

IdleTask == [pc |-> "idle", user |-> NoUser, raced |-> FALSE]

TypeOK ==
  /\ now \in Nat /\ salt \in Nat
  /\ pool \in [Users -> {Absent, NoPassword} \cup 0..salt]
  /\ kept \in [Sandboxes -> {NoSalt} \cup 0..salt]
  /\ cache \in [Routers -> [Users -> Nat]]
  /\ task \in [Sandboxes -> Task]
  /\ result \in [Sandboxes -> {"none", "token", "exists", "refused", "failed"}]
  /\ \A s \in Sandboxes : task[s].pc # "idle" => task[s].user \in Users
  /\ \A s \in WebApis : task[s].pc \notin {"reset", "retry"}

Init ==
  /\ now = 0 /\ salt = 0
  /\ pool = [u \in Users |-> Absent]
  /\ kept = [s \in Sandboxes |-> NoSalt]
  /\ cache = [s \in Routers |-> [u \in Users |-> 0]]
  /\ task = [s \in Sandboxes |-> IdleTask]
  /\ result = [s \in Sandboxes |-> "none"]

-----------------------------------------------------------------------------
At(s, pc)   == task[s].pc = pc
Goto(s, pc) == task' = [task EXCEPT ![s].pc = pc]

\* The mint returns a token or raises.
Return(s, how) ==
  /\ task' = [task EXCEPT ![s] = IdleTask]
  /\ result' = [result EXCEPT ![s] = how]

\* A step of s changes the pool: the other mints for the user are raced.
Racing(s, u, next) ==
  task' = [q \in Sandboxes |->
             IF q = s THEN [task[q] EXCEPT !.pc = next]
             ELSE [task[q] EXCEPT !.raced = @ \/ task[q].user = u]]

\* mint_access_token: a cached token is returned without any call.
CacheHit(s, u) ==
  /\ s \in Routers
  /\ At(s, "idle")
  /\ now < cache[s][u] - Margin
  /\ Return(s, "token")
  /\ UNCHANGED <<now, salt, pool, kept, cache>>

Begin(s, u) ==
  /\ At(s, "idle")
  /\ s \in Routers => now >= cache[s][u] - Margin
  /\ task' = [task EXCEPT ![s] =
       [pc |-> "get_user", user |-> u, raced |-> FALSE]]
  /\ UNCHANGED <<now, salt, pool, kept, cache, result>>

\* _ensure_user: what follows for a known user differs between the two.
GetUser(s) ==
  /\ At(s, "get_user")
  /\ Goto(s, IF pool[task[s].user] = Absent THEN "create"
             ELSE IF s \in Routers THEN "auth" ELSE "set_password")
  /\ UNCHANGED <<now, salt, pool, kept, cache, result>>

\* admin_create_user refuses a user that has come to exist.
CreateUser(s) ==
  LET u == task[s].user IN
    /\ At(s, "create")
    /\ \/ /\ pool[u] = Absent
          /\ pool' = [pool EXCEPT ![u] = NoPassword]
          /\ Racing(s, u, "set_password")
          /\ UNCHANGED result
       \/ /\ pool[u] # Absent
          /\ Return(s, "exists")
          /\ UNCHANGED pool
    /\ UNCHANGED <<now, salt, kept, cache>>

\* _get_salt, on the first password the sandbox derives.
ReadSalt(s) ==
  /\ task[s].pc \in {"set_password", "auth"}
  /\ kept[s] = NoSalt
  /\ kept' = [kept EXCEPT ![s] = salt]
  /\ UNCHANGED <<now, salt, pool, cache, task, result>>

\* admin_set_user_password: the same password again races nobody.
Put(s, next) ==
  LET u == task[s].user IN
    /\ pool' = [pool EXCEPT ![u] = kept[s]]
    /\ IF pool[u] = kept[s] THEN Goto(s, next) ELSE Racing(s, u, next)
    /\ UNCHANGED <<now, salt, kept, cache, result>>

SetPassword(s) == At(s, "set_password") /\ kept[s] # NoSalt /\ Put(s, "auth")
ResetPassword(s) == At(s, "reset") /\ Put(s, "retry")

\* The router keeps the token.
Minted(s) ==
  /\ Return(s, "token")
  /\ cache' = IF s \in Routers
                THEN [cache EXCEPT ![s][task[s].user] = now + Life]
                ELSE cache

\* Mutant of Refused: the password is never reset.
RefusedAtOnce(s) == Return(s, "refused")

\* Mutant of Refused: web_api resets the password as the router does.
RefusedEverywhere(s) ==
  IF At(s, "auth") THEN Goto(s, "reset") /\ UNCHANGED result
                   ELSE Return(s, "refused")

\* The password is not the sandbox's: the router resets it once.
Refused(s) ==
  IF s \in Routers /\ At(s, "auth")
    THEN Goto(s, "reset") /\ UNCHANGED result
    ELSE Return(s, "refused")

\* admin_initiate_auth, and its repetition after the reset.
Authenticate(s) ==
  /\ task[s].pc \in {"auth", "retry"}
  /\ kept[s] # NoSalt
  /\ \/ pool[task[s].user] = kept[s] /\ Minted(s)
     \/ pool[task[s].user] # kept[s] /\ Refused(s) /\ UNCHANGED cache
  /\ UNCHANGED <<now, salt, pool, kept>>

\* A call fails, or the Lambda times out: what was done stays done.
Fail(s) ==
  /\ "fail" \in Faults
  /\ ~At(s, "idle")
  /\ Return(s, "failed")
  /\ UNCHANGED <<now, salt, pool, kept, cache>>

\* The sandbox is replaced by a fresh one.
Recycle(s) ==
  /\ At(s, "idle")
  /\ kept' = [kept EXCEPT ![s] = NoSalt]
  /\ cache' = IF s \in Routers
                THEN [cache EXCEPT ![s] = [u \in Users |-> 0]]
                ELSE cache
  /\ result' = [result EXCEPT ![s] = "none"]
  /\ UNCHANGED <<now, salt, pool, task>>

\* The salt is replaced in Secrets Manager.
Rotate ==
  /\ salt < MaxRotations
  /\ salt' = salt + 1
  /\ UNCHANGED <<now, pool, kept, cache, task, result>>

Tick ==
  /\ now < MaxTime
  /\ now' = now + 1
  /\ UNCHANGED <<salt, pool, kept, cache, task, result>>

Work(s) ==
  \/ GetUser(s) \/ CreateUser(s) \/ ReadSalt(s) \/ SetPassword(s)
  \/ Authenticate(s) \/ ResetPassword(s)

Next ==
  \/ \E s \in Sandboxes :
       \/ \E u \in Users : CacheHit(s, u) \/ Begin(s, u)
       \/ Work(s) \/ Fail(s) \/ Recycle(s)
  \/ Rotate \/ Tick

Spec == Init /\ [][Next]_vars

-----------------------------------------------------------------------------
(* Safety                                                                  *)

\* A mint is only refused when another sandbox created the user or set another
\* password while it was under way: a user whose creation was cut short before
\* the password was set, or whose password stems from an old salt, is put
\* right by whichever side mints next (cognito.py:103-115, cognito_mint.py:56).
\* This is of calls made once: when botocore repeats admin_create_user after a
\* lost answer, "user exists" (cognito.py:71) can be the mint's own doing.
FailsOnlyRaced ==
  [][\A s \in Sandboxes :
       (~At(s, "idle") /\ task'[s].pc = "idle"
          /\ result'[s] \in {"exists", "refused"}) => task[s].raced]_vars

\* Until the salt is rotated no mint is refused, whatever mints and failures
\* come between: all sandboxes derive the same password, so setting it twice
\* does no harm (cognito.py:47-50, cognito_mint.py:39-41).
NeverRefused == salt = 0 => \A s \in Sandboxes : result[s] # "refused"
=============================================================================

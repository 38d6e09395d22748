---------------------------- MODULE GatewayTools ----------------------------
(***************************************************************************)
(* A tool call on its way from the agent to Lark: the Gateway's request    *)
(* interceptor (lambda/interceptor/index.py), which injects the tenant's   *)
(* downstream key and the identity of the verified token, and the tool     *)
(* Lambda (lambda/tools/index.py), which acts on the user's documents.     *)
(* The calls are made by turns of the agent, one at a time in each turn.   *)
(*                                                                         *)
(* Everybody's tenant is "default": there is one key.  The user's Lark     *)
(* token comes from the store of UserTokens, of which is used here that    *)
(* it finds a token of the user it is asked for or none (ActsAsCaller).    *)
(* Time is discrete; Timeout is the interceptor Lambda's.                  *)
(***************************************************************************)
EXTENDS Integers, FiniteSets

CONSTANTS
  Users,       \* Lark open_ids
  NoUser,      \* not an open_id
  Turns,       \* the threads of agents
  Boxes,       \* sandboxes of the interceptor
  NoBox,       \* no sandbox
  Window,      \* how long the interceptor keeps a key
  Timeout,     \* see above
  Faults,      \* a subset of FaultKind
  MaxKeys,     \* bound on the keys of the tenant
  MaxChanges,  \* bound on the changes of the stored key
  MaxDocs,     \* bound on the documents created
  MaxCalls,    \* bound on the calls the agents make
  MaxTime      \* bound on the clock

\* refuse: Lark answers a call with an error; lost: a Lambda ends without an
\* answer, or the answer to one of its calls is lost; unnamed: Lark answers the
\* creation of a document without its document_id.
FaultKind == {"refuse", "lost", "unnamed"}

ASSUME GatewayToolsAssumption ==
  /\ NoUser \notin Users /\ NoBox \notin Boxes
  /\ Window \in Nat /\ Timeout \in Nat
  /\ Faults \subseteq FaultKind
  /\ MaxKeys \in Nat /\ MaxChanges \in Nat /\ MaxDocs \in Nat
  /\ MaxCalls \in Nat /\ MaxTime \in Nat

Docs  == 1..MaxDocs
NoDoc == 0
Keys  == 0..MaxKeys
NoKey == 0       \* the empty key; the secret that cannot be read

VARIABLES
  now,     \* the clock
  secret,  \* Secrets Manager: the tenant's key
  left,    \* history: when each key was the stored one last
  changes, \* how many times the stored key has changed
  cache,   \* _key_cache of each interceptor sandbox
  doc,     \* Lark: the documents
  shared,  \* Lark: the users each is shared with, who may edit it
  calls,   \* how many calls the agents have made
  run,     \* the turn in each thread and the call it has made
  told,    \* history: what its turn has been told of each document
  lost,    \* history: documents whose turn got an error that says nothing
  unnamed  \* history: documents that Lark's answer did not name

keys == <<secret, left, changes>>
docs == <<doc, shared, told, lost, unnamed>>
vars == <<now, keys, cache, calls, run, docs>>

Unset   == [key |-> NoKey, until |-> 0]
Nothing == [owner |-> NoUser, want |-> FALSE, filled |-> FALSE,
            trashed |-> FALSE]
Doc     == [owner : Users \cup {NoUser},
            want : BOOLEAN,      \* history: content was asked for
            filled : BOOLEAN, trashed : BOOLEAN]

Tools == {"create", "append", "trash", "list"}

(***************************************************************************)
(* idle -> think -> (fetch -> read ->) tool -> a Lark call -> think; think  *)
(* is the agent at work, content the second Lark call of create_doc.       *)
(***************************************************************************)
LarkPC == Tools \cup {"content"}
BoxPC  == {"fetch", "read"}

Run == [pc : {"idle", "think", "tool"} \cup BoxPC \cup LarkPC,
        user : Users \cup {NoUser},      \* of the token the turn acts with
        tool : Tools,
        want : BOOLEAN,                  \* create_doc is given content
        target : Docs \cup {NoDoc},      \* the argument, or the new document
        endUser : Users \cup {NoUser},   \* _endUserId of the arguments
        box : Boxes \cup {NoBox},
        key : Keys,
        due : Nat]                       \* when the interceptor has ended

IdleRun == [pc |-> "idle", user |-> NoUser, tool |-> "list", want |-> FALSE,
            target |-> NoDoc, endUser |-> NoUser, box |-> NoBox,
            key |-> NoKey, due |-> 0]

TypeOK ==
  /\ now \in Nat
  /\ secret \in Keys /\ left \in [Keys -> Nat] /\ changes \in 0..MaxChanges
  /\ cache \in [Boxes -> [key : Keys, until : Nat]]
  /\ calls \in 0..MaxCalls
  /\ doc \in [Docs -> Doc]
  /\ shared \in [Docs -> SUBSET Users]
  /\ run \in [Turns -> Run]
  /\ told \in [Docs -> {"nothing", "half", "created"}]
  /\ lost \subseteq Docs /\ unnamed \subseteq Docs
  /\ \A t \in Turns :
       /\ run[t].pc # "idle" => run[t].user \in Users
       /\ run[t].pc \in BoxPC => run[t].box \in Boxes
       /\ run[t].pc \in LarkPC => run[t].endUser \in Users
       /\ run[t].pc = "content" => run[t].target \in Docs

Init ==
  /\ now = 0
  /\ secret \in Keys /\ left = [k \in Keys |-> 0] /\ changes = 0
  /\ cache = [b \in Boxes |-> Unset] /\ calls = 0
  /\ doc = [d \in Docs |-> Nothing] /\ shared = [d \in Docs |-> {}]
  /\ run = [t \in Turns |-> IdleRun]
  /\ told = [d \in Docs |-> "nothing"] /\ lost = {} /\ unnamed = {}

-----------------------------------------------------------------------------
(* The agent's turns (agent/agent_core.py)                                 *)

\* The call is over, with whatever result; the agent goes on.
Return(t) ==
  run' = [run EXCEPT ![t] =
           [IdleRun EXCEPT !.pc = "think", !.user = run[t].user]]

Begin(t, u) ==
  /\ run[t].pc = "idle"
  /\ run' = [run EXCEPT ![t] = [IdleRun EXCEPT !.pc = "think", !.user = u]]
  /\ UNCHANGED <<now, keys, cache, calls, docs>>

Finish(t) ==
  /\ run[t].pc = "think"
  /\ run' = [run EXCEPT ![t] = IdleRun]
  /\ UNCHANGED <<now, keys, cache, calls, docs>>

-----------------------------------------------------------------------------
(* The interceptor                                                         *)

\* Mutant of Fresh: what is cached is good for ever.
FreshForever(b) == cache[b] # Unset

Fresh(b) == now < cache[b].until

Free(b) == \A t \in Turns : run[t].box # b

\* The arguments of a call: the model fills them in, and nothing keeps it from
\* filling in _endUserId.
Arguments ==
  LET anybody == Users \cup {NoUser} IN
    [tool : {"create"}, want : BOOLEAN, target : {NoDoc}, endUser : anybody]
      \cup [tool : {"append", "trash"}, want : {FALSE}, target : Docs,
            endUser : anybody]
      \cup [tool : {"list"}, want : {FALSE}, target : {NoDoc},
            endUser : anybody]

Request(t) ==
  {[run[t] EXCEPT !.tool = a.tool, !.want = a.want, !.target = a.target,
                  !.endUser = a.endUser] : a \in Arguments}

\* Mutant of Injected: the agent's own arguments win.
InjectedDefault(r, k) ==
  [r EXCEPT !.pc = "tool", !.box = NoBox, !.due = 0, !.key = k,
            !.endUser = IF r.endUser = NoUser THEN r.user ELSE r.endUser]

\* The call as the interceptor forwards it.
Injected(r, k) ==
  [r EXCEPT !.pc = "tool", !.box = NoBox, !.due = 0, !.key = k,
            !.endUser = r.user]

\* The sandbox has a key that is fresh, the empty one included ...
CallHit(t, r, b) ==
  /\ run[t].pc = "think" /\ calls < MaxCalls
  /\ Free(b) /\ Fresh(b)
  /\ calls' = calls + 1
  /\ run' = [run EXCEPT ![t] = Injected(r, cache[b].key)]
  /\ UNCHANGED <<now, keys, cache, docs>>

\* ... or asks Secrets Manager,
CallMiss(t, r, b) ==
  /\ run[t].pc = "think" /\ calls < MaxCalls
  /\ Free(b) /\ ~Fresh(b)
  /\ calls' = calls + 1
  /\ run' = [run EXCEPT ![t] =
       [r EXCEPT !.pc = "fetch", !.box = b, !.due = now + Timeout]]
  /\ UNCHANGED <<now, keys, cache, docs>>

\* which answers with the key or an error, taken for the empty key,
Fetch(t) ==
  /\ run[t].pc = "fetch"
  /\ run' = [run EXCEPT ![t].pc = "read", ![t].key = secret]
  /\ UNCHANGED <<now, keys, cache, calls, docs>>

\* and keeps either from the time it has the answer.
Inject(t) ==
  /\ run[t].pc = "read"
  /\ cache' = [cache EXCEPT ![run[t].box] =
       [key |-> run[t].key, until |-> now + Window]]
  /\ run' = [run EXCEPT ![t] = Injected(run[t], run[t].key)]
  /\ UNCHANGED <<now, keys, calls, docs>>

\* The tenant's key is rotated or becomes unreadable, or readable again.
Change(k) ==
  /\ changes < MaxChanges
  /\ k # secret
  /\ secret' = k
  /\ left' = [left EXCEPT ![secret] = now]
  /\ changes' = changes + 1
  /\ UNCHANGED <<now, cache, calls, run, docs>>

-----------------------------------------------------------------------------
(* The tool Lambda                                                         *)

\* _resolve_token finds a token of the user the call names. Without one, for a
\* tool that calls nothing or an argument that is missing the call is over.
Resolve(t) ==
  /\ run[t].pc = "tool"
  /\ \/ /\ run[t].endUser \in Users
        /\ run' = [run EXCEPT ![t].pc = run[t].tool, ![t].key = NoKey]
     \/ Return(t)
  /\ UNCHANGED <<now, keys, cache, calls, docs>>

\* Lark lets users delete what is theirs, and edit that and what is shared with
\* them.
Permitted(t) ==
  LET d == run[t].target IN
    /\ d # NoDoc /\ doc[d] # Nothing /\ ~doc[d].trashed
    /\ \/ run[t].endUser = doc[d].owner
       \/ run[t].endUser \in shared[d] /\ run[t].pc # "trash"

\* Lark does what the call of turn t asks for.
Done(t) ==
  LET d == run[t].target IN
    \/ /\ run[t].pc \in {"append", "content"} /\ Permitted(t)
       /\ doc' = [doc EXCEPT ![d].filled = TRUE]
    \/ /\ run[t].pc = "trash" /\ Permitted(t)
       /\ doc' = [doc EXCEPT ![d].trashed = TRUE]
    \/ run[t].pc = "list" /\ doc' = doc

Made(t, d) ==
  /\ run[t].pc = "create"
  /\ doc[d] = Nothing
  /\ doc' = [doc EXCEPT ![d] =
       [Nothing EXCEPT !.owner = run[t].endUser, !.want = run[t].want]]

Tell(d, what) == told' = [told EXCEPT ![d] = what]

\* Mutant of Create: the second call is made with the id in the arguments.
CreateArgument(t, d, named) ==
  /\ Made(t, d)
  /\ named \/ "unnamed" \in Faults
  /\ unnamed' = IF named THEN unnamed ELSE unnamed \cup {d}
  /\ IF run[t].want /\ named
       THEN run' = [run EXCEPT ![t].pc = "content"] /\ UNCHANGED told
       ELSE Return(t) /\ Tell(d, "created")
  /\ UNCHANGED <<now, keys, cache, calls, shared, lost>>

\* create_doc, first call: with content to add, and a document_id to add it to,
\* a second one follows.
Create(t, d, named) ==
  /\ Made(t, d)
  /\ named \/ "unnamed" \in Faults
  /\ unnamed' = IF named THEN unnamed ELSE unnamed \cup {d}
  /\ IF run[t].want /\ named
       THEN /\ run' = [run EXCEPT ![t].pc = "content", ![t].target = d]
            /\ UNCHANGED told
       ELSE Return(t) /\ Tell(d, "created")
  /\ UNCHANGED <<now, keys, cache, calls, shared, lost>>

\* Mutant of Answer: the result of the second call is not looked at.
AnswerUnseen(t, ok) ==
  /\ Return(t)
  /\ IF run[t].pc = "content" THEN Tell(run[t].target, "created")
                              ELSE UNCHANGED told

\* Mutant of Answer: the error of the second call is returned as it is.
AnswerPlain(t, ok) ==
  /\ Return(t)
  /\ IF run[t].pc = "content" /\ ok THEN Tell(run[t].target, "created")
                                    ELSE UNCHANGED told

\* The tool's result: create_doc names the document it has made.
Answer(t, ok) ==
  /\ Return(t)
  /\ IF run[t].pc = "content"
       THEN Tell(run[t].target, IF ok THEN "created" ELSE "half")
       ELSE UNCHANGED told

\* The last call of a tool succeeds, or Lark answers it with an error.
Succeed(t) ==
  /\ Done(t)
  /\ Answer(t, TRUE)
  /\ UNCHANGED <<now, keys, cache, calls, shared, lost, unnamed>>

\* (An answer without document_id when there is no document does not differ: no
\* document is told of.)
Refuse(t) ==
  /\ run[t].pc \in LarkPC
  /\ \/ "refuse" \in Faults
     \/ "unnamed" \in Faults /\ run[t].pc = "create"
     \/ run[t].pc \in {"append", "content", "trash"} /\ ~Permitted(t)
  /\ Answer(t, FALSE)
  /\ UNCHANGED <<now, keys, cache, calls, doc, shared, lost, unnamed>>

\* The interceptor, the tool or the answer to a call is lost, before or after
\* Lark has done what it was asked; neither Lambda catches a timeout, nor is
\* there time for two in the tool's 15s.
Lose(t) ==
  /\ "lost" \in Faults
  /\ run[t].pc \in BoxPC \cup LarkPC \cup {"tool"}
  /\ \/ /\ UNCHANGED doc \/ Done(t)
        /\ lost' = IF run[t].pc = "content" THEN lost \cup {run[t].target}
                                           ELSE lost
     \/ \E d \in Docs : Made(t, d) /\ lost' = lost \cup {d}
  /\ Return(t)
  /\ UNCHANGED <<now, keys, cache, calls, shared, told, unnamed>>

\* In Lark, the owner shares a document with u, or not any more.
Share(d, u) ==
  /\ doc[d] # Nothing /\ u # doc[d].owner
  /\ \E more \in BOOLEAN :
       shared' = [shared EXCEPT ![d] = IF more THEN @ \cup {u} ELSE @ \ {u}]
  /\ UNCHANGED <<now, keys, cache, calls, run, doc, told, lost, unnamed>>

\* Lambda gives up a sandbox of the interceptor and starts another.
Recycle(b) ==
  /\ Free(b)
  /\ cache' = [cache EXCEPT ![b] = Unset]
  /\ UNCHANGED <<now, keys, calls, run, docs>>

\* Time passes, but no invocation of the interceptor outlives its timeout.
Tick ==
  /\ now < MaxTime
  /\ \A t \in Turns : run[t].pc \in BoxPC => now < run[t].due
  /\ now' = now + 1
  /\ UNCHANGED <<keys, cache, calls, run, docs>>

Next ==
  \/ \E t \in Turns :
       \/ \E u \in Users : Begin(t, u)
       \/ Finish(t)
       \/ \E r \in Request(t), b \in Boxes :
            CallHit(t, r, b) \/ CallMiss(t, r, b)
       \/ Fetch(t) \/ Inject(t) \/ Resolve(t)
       \/ \E d \in Docs, named \in BOOLEAN : Create(t, d, named)
       \/ Succeed(t) \/ Refuse(t) \/ Lose(t)
  \/ \E d \in Docs, u \in Users : Share(d, u)
  \/ \E b \in Boxes : Recycle(b)
  \/ \E k \in Keys : Change(k)
  \/ Tick

Spec == Init /\ [][Next]_vars

-----------------------------------------------------------------------------
(* Safety                                                                  *)

\* "The user's identity travels to the tool" (interceptor/index.py:11-12): the
\* turn that makes, edits or deletes a document carries the token of a user who
\* may, whatever the agent writes into the arguments and whoever else calls
\* through the same sandboxes. To edit it is enough that the owner has shared the
\* document ("subject to your Lark edit rights", tools/index.py:242), to delete
\* it is not ("only works if you own it", 257-258).
ActsWithinRights ==
  [][\A d \in Docs :
       doc'[d] # doc[d] =>
         \E t \in Turns :
           /\ run[t].pc \in LarkPC /\ run'[t] # run[t]
           /\ \/ run[t].user = doc'[d].owner
              \/ run[t].user \in shared[d] /\ doc'[d].trashed = doc[d].trashed]_vars

\* A key goes on being injected after a rotation, and the empty key after an
\* outage, for the Window of the cache and the time of a read, not longer:
\* entries are not renewed by use (interceptor/index.py:62-74).
KeyRecent ==
  [][\A t \in Turns :
       (run[t].pc # "tool" /\ run'[t].pc = "tool") =>
         LET k == run'[t].key IN
           k = secret \/ now <= left[k] + Window + Timeout]_vars

\* A document its turn is told was created has all that was asked for, in spite
\* of the second call it may take; the one exception is a document that Lark did
\* not name in its answer, to which nothing is added (tools/index.py:212-224).
CreatedIsWhole ==
  \A d \in Docs :
    told[d] = "created" => doc[d].filled \/ ~doc[d].want \/ d \in unnamed

\* No document is left behind in silence: its turn has been told that it was
\* created, if not always under which id, or half-made, is still making it, or
\* got an error that says nothing because an invocation or an answer was lost
\* (tools/index.py:208-224).
EveryDocumentTold ==
  \A d \in Docs :
    doc[d] # Nothing =>
      \/ told[d] # "nothing"
      \/ d \in lost
      \/ \E t \in Turns : run[t].pc = "content" /\ run[t].target = d
=============================================================================

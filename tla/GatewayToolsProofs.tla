------------------------- MODULE GatewayToolsProofs -------------------------
(* The inductive invariant of GatewayTools and what follows from it.        *)
EXTENDS GatewayTools, TLAPS

-----------------------------------------------------------------------------
(* The inductive invariant                                                 *)

\* What is so of the turn in a thread; from the interceptor on the call names
\* the user of the turn.
Formed(r) ==
  /\ r \in Run
  /\ r.pc # "idle" => r.user \in Users
  /\ r.pc \in BoxPC => r.box \in Boxes
  /\ r.pc \in LarkPC \cup {"tool"} => r.endUser = r.user
  /\ r.pc = "content" => r.target \in Docs

RunInv == run \in [Turns -> Run] /\ \A t \in Turns : Formed(run[t])

StateOK ==
  /\ now \in Nat
  /\ secret \in Keys /\ left \in [Keys -> Nat] /\ changes \in 0..MaxChanges
  /\ cache \in [Boxes -> [key : Keys, until : Nat]]
  /\ calls \in 0..MaxCalls
  /\ doc \in [Docs -> Doc]
  /\ shared \in [Docs -> SUBSET Users]
  /\ told \in [Docs -> {"nothing", "half", "created"}]
  /\ lost \subseteq Docs /\ unnamed \subseteq Docs

\* A key that was read and is not the stored one any more was when the
\* interceptor was invoked or later.
Reading(r) ==
  /\ r.pc \in BoxPC => now <= r.due /\ r.due <= now + Timeout
  /\ r.pc = "read" => r.key = secret \/ r.due <= left[r.key] + Timeout

Caching(b) ==
  LET e == cache[b] IN
    /\ e.until <= now + Window
    /\ e.key = secret \/ e.until <= left[e.key] + Window + Timeout

KeyInv ==
  (\A b \in Boxes : Caching(b)) /\ (\A t \in Turns : Reading(run[t]))

\* Documents stay, and are not told of before they are made.
DocInv ==
  /\ CreatedIsWhole
  /\ EveryDocumentTold
  /\ \A d \in Docs : doc[d] = Nothing => told[d] = "nothing"
  /\ \A t \in Turns : run[t].pc = "content" => doc[run[t].target] # Nothing

IInv == StateOK /\ RunInv /\ KeyInv /\ DocInv

-----------------------------------------------------------------------------
LEMMA Constants ==
  /\ NoUser \notin Users /\ NoBox \notin Boxes
  /\ Window \in Nat /\ Timeout \in Nat
  /\ MaxKeys \in Nat /\ MaxChanges \in Nat /\ MaxDocs \in Nat
  /\ MaxCalls \in Nat /\ MaxTime \in Nat
BY GatewayToolsAssumption

LEMMA Records ==
  /\ Nothing \in Doc /\ ~Nothing.filled /\ Nothing.owner = NoUser
  /\ IdleRun \in Run /\ IdleRun.pc = "idle"
  /\ Unset \in [key : Keys, until : Nat] /\ Unset.key = NoKey /\ Unset.until = 0
BY Constants DEF Nothing, Doc, IdleRun, Run, Unset, Keys, NoKey, NoDoc, Tools,
                 BoxPC, LarkPC

LEMMA InitInv == Init => IInv
<1>. SUFFICES ASSUME Init PROVE IInv
  OBVIOUS
<1>1. StateOK
  BY Records, Constants DEF Init, StateOK
<1>2. RunInv
  BY Records DEF Init, RunInv, Formed, BoxPC, LarkPC, Tools
<1>3. KeyInv
  <2>1. ASSUME NEW b \in Boxes PROVE Caching(b)
    BY Records, Constants DEF Init, Caching, Keys, NoKey
  <2>2. ASSUME NEW t \in Turns PROVE Reading(run[t])
    BY Records DEF Init, Reading, BoxPC
  <2>. QED
    BY <2>1, <2>2 DEF KeyInv
<1>4. DocInv
  BY Records DEF Init, DocInv, CreatedIsWhole, EveryDocumentTold
<1>. QED
  BY <1>1, <1>2, <1>3, <1>4 DEF IInv

-----------------------------------------------------------------------------
(* Steps of a turn                                                         *)

LEMMA RunStep ==
  ASSUME RunInv, NEW t \in Turns, NEW r, Formed(r),
         run' = [run EXCEPT ![t] = r]
  PROVE  /\ RunInv' /\ run'[t] = r
         /\ \A s \in Turns \ {t} : run'[s] = run[s]
<1>1. r \in Run
  BY DEF Formed
<1>2. run' \in [Turns -> Run] /\ run'[t] = r
      /\ \A s \in Turns \ {t} : run'[s] = run[s]
  BY <1>1 DEF RunInv
<1>3. ASSUME NEW s \in Turns PROVE Formed(run'[s])
  BY <1>2 DEF RunInv
<1>. QED
  BY <1>2, <1>3 DEF RunInv, Formed

\* The documents and what is said of them: nothing happens.
LEMMA QuietDocs ==
  ASSUME DocInv, UNCHANGED docs, NEW t \in Turns, NEW r, run'[t] = r,
         \A s \in Turns \ {t} : run'[s] = run[s],
         run[t].pc # "content", r.pc # "content"
  PROVE  DocInv'
BY DEF DocInv, CreatedIsWhole, EveryDocumentTold, docs

\* The keys: no sandbox is at work on the call of t.
LEMMA QuietKeys ==
  ASSUME KeyInv, UNCHANGED <<now, keys, cache>>, NEW t \in Turns,
         NEW r, run'[t] = r, \A s \in Turns \ {t} : run'[s] = run[s],
         r.pc \notin BoxPC
  PROVE  KeyInv'
<1>1. ASSUME NEW b \in Boxes PROVE Caching(b)'
  BY DEF KeyInv, Caching, keys
<1>2. ASSUME NEW s \in Turns PROVE Reading(run[s])'
  BY DEF KeyInv, Reading, keys, BoxPC
<1>. QED
  BY <1>1, <1>2 DEF KeyInv

\* A call is over.
LEMMA Returned ==
  ASSUME RunInv, NEW t \in Turns, run[t].pc # "idle"
  PROVE  LET r == [IdleRun EXCEPT !.pc = "think", !.user = run[t].user]
         IN  Formed(r) /\ r.pc = "think"
BY Records DEF RunInv, Formed, Run, BoxPC, LarkPC, Tools

LEMMA BeginStep ==
  ASSUME IInv, NEW t \in Turns, NEW u \in Users, Begin(t, u)
  PROVE  IInv'
<1>. PICK r : r = [IdleRun EXCEPT !.pc = "think", !.user = u]
  OBVIOUS
<1>1. Formed(r) /\ r.pc = "think"
  BY Records DEF Formed, Run, BoxPC, LarkPC, Tools
<1>2. run' = [run EXCEPT ![t] = r] /\ run[t].pc = "idle"
  BY DEF Begin
<1>3. RunInv' /\ run'[t] = r /\ \A s \in Turns \ {t} : run'[s] = run[s]
  BY <1>1, <1>2, RunStep DEF IInv
<1>4. StateOK'
  BY DEF IInv, StateOK, Begin, keys, docs
<1>5. KeyInv'
  BY <1>1, <1>3, QuietKeys DEF IInv, Begin, BoxPC
<1>6. DocInv'
  BY <1>1, <1>2, <1>3, QuietDocs DEF IInv, Begin
<1>. QED
  BY <1>3, <1>4, <1>5, <1>6 DEF IInv

LEMMA FinishStep ==
  ASSUME IInv, NEW t \in Turns, Finish(t)
  PROVE  IInv'
<1>1. Formed(IdleRun)
  BY Records DEF Formed, BoxPC, LarkPC, Tools
<1>2. run' = [run EXCEPT ![t] = IdleRun] /\ run[t].pc = "think"
  BY DEF Finish
<1>3. /\ RunInv' /\ run'[t] = IdleRun
      /\ \A s \in Turns \ {t} : run'[s] = run[s]
  BY <1>1, <1>2, RunStep DEF IInv
<1>4. StateOK'
  BY DEF IInv, StateOK, Finish, keys, docs
<1>5. KeyInv'
  BY <1>3, QuietKeys, Records DEF IInv, Finish, BoxPC
<1>6. DocInv'
  BY <1>2, <1>3, QuietDocs, Records DEF IInv, Finish
<1>. QED
  BY <1>3, <1>4, <1>5, <1>6 DEF IInv

\* The agent's arguments change neither the turn nor its user.
LEMMA RequestFacts ==
  ASSUME RunInv, NEW t \in Turns, run[t].pc = "think", NEW r \in Request(t)
  PROVE  r \in Run /\ r.user = run[t].user /\ r.user \in Users
<1>1. run[t] \in Run /\ run[t].user \in Users
  BY DEF RunInv, Formed
<1>2. PICK a \in Arguments :
        r = [run[t] EXCEPT !.tool = a.tool, !.want = a.want,
                           !.target = a.target, !.endUser = a.endUser]
  BY DEF Request
<1>3. /\ a.tool \in Tools /\ a.want \in BOOLEAN
      /\ a.target \in Docs \cup {NoDoc} /\ a.endUser \in Users \cup {NoUser}
  BY DEF Arguments, Tools
<1>. QED
  BY <1>1, <1>2, <1>3 DEF Run

LEMMA InjectedFacts ==
  ASSUME NEW r \in Run, r.user \in Users, NEW k \in Keys
  PROVE  /\ Formed(Injected(r, k)) /\ Injected(r, k).pc = "tool"
         /\ Injected(r, k).key = k
BY Constants DEF Injected, Formed, Run, BoxPC, LarkPC, Tools

LEMMA CallHitStep ==
  ASSUME IInv, NEW t \in Turns, NEW b \in Boxes, NEW r \in Request(t),
         CallHit(t, r, b)
  PROVE  /\ IInv' /\ run'[t].key = cache[b].key
         /\ \A s \in Turns \ {t} : run'[s] = run[s]
<1>. PICK q : q = Injected(r, cache[b].key)
  OBVIOUS
<1>1. run[t].pc = "think" /\ run' = [run EXCEPT ![t] = q]
  BY DEF CallHit
<1>2. cache[b].key \in Keys
  BY DEF IInv, StateOK
<1>3. Formed(q) /\ q.pc = "tool" /\ q.key = cache[b].key
  BY <1>1, <1>2, RequestFacts, InjectedFacts DEF IInv
<1>4. RunInv' /\ run'[t] = q /\ \A s \in Turns \ {t} : run'[s] = run[s]
  BY <1>1, <1>3, RunStep DEF IInv
<1>5. StateOK'
  BY Constants DEF IInv, StateOK, CallHit, keys, docs
<1>6. KeyInv'
  BY <1>3, <1>4, QuietKeys DEF IInv, CallHit, BoxPC
<1>7. DocInv'
  BY <1>1, <1>3, <1>4, QuietDocs DEF IInv, CallHit
<1>. QED
  BY <1>3, <1>4, <1>5, <1>6, <1>7 DEF IInv

LEMMA CallMissStep ==
  ASSUME IInv, NEW t \in Turns, NEW b \in Boxes, NEW r \in Request(t),
         CallMiss(t, r, b)
  PROVE  IInv' /\ run'[t].pc = "fetch"
               /\ \A s \in Turns \ {t} : run'[s] = run[s]
<1>. PICK q : q = [r EXCEPT !.pc = "fetch", !.box = b, !.due = now + Timeout]
  OBVIOUS
<1>1. run[t].pc = "think" /\ run' = [run EXCEPT ![t] = q]
  BY DEF CallMiss
<1>2. now \in Nat /\ now + Timeout \in Nat
  BY Constants DEF IInv, StateOK
<1>3. Formed(q) /\ q.pc = "fetch" /\ q.due = now + Timeout
  <2>1. r \in Run /\ r.user \in Users
    BY <1>1, RequestFacts DEF IInv
  <2>. QED
    BY <1>2, <2>1 DEF Formed, Run, BoxPC, LarkPC, Tools
<1>4. RunInv' /\ run'[t] = q /\ \A s \in Turns \ {t} : run'[s] = run[s]
  BY <1>1, <1>3, RunStep DEF IInv
<1>5. StateOK'
  BY Constants DEF IInv, StateOK, CallMiss, keys, docs
<1>6. KeyInv'
  <2>1. Reading(run[t])'
    <3>1. run'[t].pc = "fetch" /\ run'[t].due = now + Timeout /\ now' = now
      BY <1>3, <1>4 DEF CallMiss
    <3>2. now <= now + Timeout
      BY <1>2, Constants
    <3>. QED
      BY <1>2, <3>1, <3>2 DEF Reading
  <2>2. ASSUME NEW s \in Turns \ {t} PROVE Reading(run[s])'
    BY <1>4 DEF IInv, KeyInv, CallMiss, Reading, keys
  <2>3. ASSUME NEW c \in Boxes PROVE Caching(c)'
    BY DEF IInv, KeyInv, CallMiss, Caching, keys
  <2>. QED
    BY <2>1, <2>2, <2>3 DEF KeyInv
<1>7. DocInv'
  BY <1>1, <1>3, <1>4, QuietDocs DEF IInv, CallMiss
<1>. QED
  BY <1>3, <1>4, <1>5, <1>6, <1>7 DEF IInv
LEMMA FetchStep ==
  ASSUME IInv, NEW t \in Turns, Fetch(t)
  PROVE  /\ IInv' /\ run'[t].pc = "read"
         /\ \A s \in Turns \ {t} : run'[s] = run[s]
<1>. PICK q : q = [run[t] EXCEPT !.pc = "read", !.key = secret]
  OBVIOUS
<1>1. run[t].pc = "fetch" /\ run[t] \in Run /\ secret \in Keys
  BY DEF Fetch, IInv, StateOK, RunInv
<1>2. run' = [run EXCEPT ![t] = q]
  BY DEF Fetch, IInv, RunInv
<1>3. /\ Formed(q) /\ q.pc = "read" /\ q.key = secret
      /\ q.due = run[t].due
  <2>1. Formed(run[t])
    BY DEF IInv, RunInv
  <2>. QED
    BY <1>1, <2>1 DEF Formed, Run, BoxPC, LarkPC, Tools
<1>4. RunInv' /\ run'[t] = q /\ \A s \in Turns \ {t} : run'[s] = run[s]
  BY <1>2, <1>3, RunStep DEF IInv
<1>5. StateOK'
  BY DEF IInv, StateOK, Fetch, keys, docs
<1>6. KeyInv'
  <2>1. Reading(run[t])'
    BY <1>1, <1>3, <1>4 DEF IInv, KeyInv, Fetch, Reading, keys, BoxPC
  <2>2. ASSUME NEW s \in Turns \ {t} PROVE Reading(run[s])'
    BY <1>4 DEF IInv, KeyInv, Fetch, Reading, keys
  <2>3. ASSUME NEW c \in Boxes PROVE Caching(c)'
    BY DEF IInv, KeyInv, Fetch, Caching, keys
  <2>. QED
    BY <2>1, <2>2, <2>3 DEF KeyInv
<1>7. DocInv'
  BY <1>1, <1>3, <1>4, QuietDocs DEF IInv, Fetch
<1>. QED
  BY <1>3, <1>4, <1>5, <1>6, <1>7 DEF IInv

LEMMA InjectStep ==
  ASSUME IInv, NEW t \in Turns, Inject(t)
  PROVE  /\ IInv' /\ run'[t].key = run[t].key
         /\ \A s \in Turns \ {t} : run'[s] = run[s]
<1>. PICK q : q = Injected(run[t], run[t].key)
  OBVIOUS
<1>1. /\ run[t].pc = "read" /\ run' = [run EXCEPT ![t] = q]
      /\ run[t] \in Run /\ run[t].key \in Keys /\ run[t].due \in Nat
      /\ run[t].user \in Users /\ run[t].box \in Boxes
  BY DEF Inject, IInv, RunInv, Formed, Run, BoxPC
<1>2. now \in Nat /\ left[run[t].key] \in Nat /\ now + Window \in Nat
  BY <1>1, Constants DEF IInv, StateOK
<1>3. Formed(q) /\ q.pc = "tool" /\ q.key = run[t].key
  BY <1>1, InjectedFacts
<1>4. RunInv' /\ run'[t] = q /\ \A s \in Turns \ {t} : run'[s] = run[s]
  BY <1>1, <1>3, RunStep DEF IInv
<1>. PICK e : e = [key |-> run[t].key, until |-> now + Window]
  OBVIOUS
<1>5. /\ cache' = [cache EXCEPT ![run[t].box] = e]
      /\ e \in [key : Keys, until : Nat]
      /\ e.key = run[t].key /\ e.until = now + Window
  BY <1>1, <1>2 DEF Inject
<1>6. StateOK'
  BY <1>1, <1>5 DEF IInv, StateOK, Inject, keys, docs
<1>7. KeyInv'
  <2>1. ASSUME NEW s \in Turns PROVE Reading(run[s])'
    BY <1>3, <1>4 DEF IInv, KeyInv, Inject, Reading, keys, BoxPC
  <2>2. /\ now <= run[t].due
        /\ run[t].key = secret \/ run[t].due <= left[run[t].key] + Timeout
    BY <1>1 DEF IInv, KeyInv, Reading, BoxPC
  <2>3. run[t].key = secret \/ e.until <= left[e.key] + Window + Timeout
    BY <1>1, <1>2, <1>5, <2>2, Constants
  <2>4. ASSUME NEW b \in Boxes PROVE Caching(b)'
    <3>1. CASE b = run[t].box
      <4>1. cache'[b] = e
        BY <1>5, <3>1 DEF IInv, StateOK
      <4>2. e.until <= now + Window
        BY <1>2, <1>5, Constants
      <4>. QED
        BY <1>5, <2>3, <4>1, <4>2 DEF Inject, Caching, keys
    <3>2. CASE b # run[t].box
      BY <1>5, <3>2 DEF IInv, StateOK, KeyInv, Inject, Caching, keys
    <3>. QED
      BY <3>1, <3>2
  <2>. QED
    BY <2>1, <2>4 DEF KeyInv
<1>8. DocInv'
  BY <1>1, <1>3, <1>4, QuietDocs DEF IInv, Inject
<1>. QED
  BY <1>3, <1>4, <1>6, <1>7, <1>8 DEF IInv

LEMMA ResolveStep ==
  ASSUME IInv, NEW t \in Turns, Resolve(t)
  PROVE  IInv'
<1>1. run[t].pc = "tool" /\ Formed(run[t])
  BY DEF Resolve, IInv, RunInv
<1>2. PICK q : /\ run' = [run EXCEPT ![t] = q] /\ Formed(q)
              /\ q.pc \in Tools \cup {"think"}
  <2>1. CASE Return(t)
    BY <1>1, <2>1, Returned DEF Return, IInv
  <2>2. CASE run' = [run EXCEPT ![t].pc = run[t].tool, ![t].key = NoKey]
    <3>. PICK r : r = [run[t] EXCEPT !.pc = run[t].tool, !.key = NoKey]
      OBVIOUS
    <3>1. run' = [run EXCEPT ![t] = r]
      BY <2>2 DEF IInv, RunInv
    <3>2. NoKey \in Keys /\ run[t] \in Run /\ run[t].tool \in Tools
      BY <1>1, Constants DEF Formed, Run, Keys, NoKey
    <3>3. /\ r \in Run /\ r.pc \in Tools
          /\ r.user = run[t].user /\ r.endUser = run[t].endUser
      BY <3>2 DEF Run, LarkPC
    <3>4. Formed(r)
      BY <1>1, <3>3 DEF Formed, BoxPC, LarkPC, Tools
    <3>. QED
      BY <3>1, <3>3, <3>4
  <2>. QED
    BY <2>1, <2>2 DEF Resolve
<1>3. RunInv' /\ run'[t] = q /\ \A s \in Turns \ {t} : run'[s] = run[s]
  BY <1>2, RunStep DEF IInv
<1>4. StateOK'
  BY DEF IInv, StateOK, Resolve, keys, docs
<1>5. KeyInv'
  BY <1>2, <1>3, QuietKeys DEF IInv, Resolve, BoxPC, Tools
<1>6. DocInv'
  BY <1>1, <1>2, <1>3, QuietDocs DEF IInv, Resolve, Tools
<1>. QED
  BY <1>3, <1>4, <1>5, <1>6 DEF IInv

-----------------------------------------------------------------------------
(* Lark                                                                    *)

LEMMA MadeFacts ==
  ASSUME IInv, NEW t \in Turns, NEW d \in Docs, Made(t, d)
  PROVE  /\ doc' \in [Docs -> Doc]
         /\ \A e \in Docs \ {d} : doc'[e] = doc[e]
         /\ doc[d] = Nothing /\ told[d] = "nothing" /\ doc'[d] # Nothing
         /\ doc'[d].want = run[t].want /\ doc'[d].owner = run[t].user
         /\ run[t].pc = "create"
<1>1. /\ run[t].pc = "create" /\ run[t].endUser = run[t].user
      /\ run[t].user \in Users /\ run[t].want \in BOOLEAN
      /\ doc \in [Docs -> Doc]
  BY DEF IInv, StateOK, RunInv, Formed, Run, Made, LarkPC, Tools
<1>. PICK n : n = [Nothing EXCEPT !.owner = run[t].endUser,
                                  !.want = run[t].want]
  OBVIOUS
<1>2. n \in Doc /\ n.owner = run[t].user /\ n.want = run[t].want
  BY <1>1 DEF Nothing, Doc
<1>3. n # Nothing
  BY <1>1, <1>2, Records, Constants
<1>4. doc' = [doc EXCEPT ![d] = n] /\ doc[d] = Nothing
  BY DEF Made
<1>. QED
  BY <1>1, <1>2, <1>3, <1>4 DEF IInv, DocInv

\* What is done to a document does not unmake or unfill it.
LEMMA DoneFacts ==
  ASSUME IInv, NEW t \in Turns, Done(t)
  PROVE  /\ doc' \in [Docs -> Doc]
         /\ \A d \in Docs :
              /\ doc[d] = Nothing => doc'[d] = Nothing
              /\ doc[d] # Nothing => doc'[d] # Nothing
              /\ doc'[d].want = doc[d].want
              /\ doc[d].filled => doc'[d].filled
              /\ doc'[d] # doc[d] =>
                   \/ run[t].user = doc'[d].owner
                   \/ /\ run[t].user \in shared[d]
                      /\ doc'[d].trashed = doc[d].trashed
         /\ run[t].pc = "content" => doc'[run[t].target].filled
         /\ run[t].pc \in LarkPC
<1>. DEFINE g == run[t].target
<1>1. doc \in [Docs -> Doc] /\ run[t] \in Run
  BY DEF IInv, StateOK, RunInv
<1>2. ASSUME run[t].pc \in LarkPC, Permitted(t)
      PROVE  /\ g \in Docs /\ doc[g] \in Doc /\ doc[g] # Nothing
             /\ \/ run[t].user = doc[g].owner
                \/ run[t].user \in shared[g] /\ run[t].pc # "trash"
             /\ run[t].user \in Users
  <2>1. run[t].endUser = run[t].user /\ run[t].user \in Users
    BY <1>2 DEF IInv, RunInv, Formed, LarkPC, Tools
  <2>2. g \in Docs
    BY <1>1, <1>2 DEF Permitted, Run
  <2>. QED
    BY <1>1, <1>2, <2>1, <2>2 DEF Permitted
<1>3. CASE /\ run[t].pc \in {"append", "content"} /\ Permitted(t)
           /\ doc' = [doc EXCEPT ![g].filled = TRUE]
  <2>. PICK n : n = [doc[g] EXCEPT !.filled = TRUE]
    OBVIOUS
  <2>1. /\ g \in Docs /\ doc[g] # Nothing /\ doc[g] \in Doc
        /\ run[t].user = doc[g].owner \/ run[t].user \in shared[g]
    BY <1>2, <1>3 DEF LarkPC, Tools
  <2>2. /\ n \in Doc /\ n.filled /\ n.want = doc[g].want
        /\ n.owner = doc[g].owner /\ n.trashed = doc[g].trashed
    BY <2>1 DEF Doc
  <2>3. n # Nothing
    BY <2>2, Records
  <2>4. doc' = [doc EXCEPT ![g] = n]
    BY <1>1, <1>3, <2>1
  <2>. QED
    BY <1>1, <1>3, <2>1, <2>2, <2>3, <2>4 DEF LarkPC, Tools
<1>4. CASE /\ run[t].pc = "trash" /\ Permitted(t)
           /\ doc' = [doc EXCEPT ![g].trashed = TRUE]
  <2>. PICK n : n = [doc[g] EXCEPT !.trashed = TRUE]
    OBVIOUS
  <2>1. /\ g \in Docs /\ doc[g] # Nothing /\ doc[g] \in Doc
        /\ run[t].user = doc[g].owner /\ run[t].user \in Users
    BY <1>2, <1>4 DEF LarkPC, Tools
  <2>2. n \in Doc /\ n.filled = doc[g].filled /\ n.want = doc[g].want
        /\ n.owner = run[t].user
    BY <2>1 DEF Doc
  <2>3. n # Nothing
    BY <2>1, <2>2, Records, Constants
  <2>4. doc' = [doc EXCEPT ![g] = n]
    BY <1>1, <1>4, <2>1
  <2>. QED
    BY <1>1, <1>4, <2>1, <2>2, <2>3, <2>4 DEF LarkPC, Tools
<1>5. CASE run[t].pc = "list" /\ doc' = doc
  BY <1>1, <1>5 DEF LarkPC, Tools
<1>. QED
  BY <1>3, <1>4, <1>5 DEF Done

LEMMA CreateStep ==
  ASSUME IInv, NEW t \in Turns, NEW d \in Docs, NEW named \in BOOLEAN,
         Create(t, d, named)
  PROVE  IInv'
<1>1. /\ doc' \in [Docs -> Doc]
      /\ \A e \in Docs \ {d} : doc'[e] = doc[e]
      /\ doc[d] = Nothing /\ told[d] = "nothing" /\ doc'[d] # Nothing
      /\ doc'[d].want = run[t].want /\ run[t].pc = "create"
  BY MadeFacts DEF Create
<1>2. Formed(run[t]) /\ told \in [Docs -> {"nothing", "half", "created"}]
      /\ run \in [Turns -> Run]
  BY DEF IInv, RunInv, StateOK
<1>3. /\ unnamed' \subseteq Docs /\ unnamed \subseteq unnamed'
      /\ ~named => d \in unnamed'
  BY DEF IInv, StateOK, Create
<1>4. ASSUME run[t].want, named PROVE IInv'
  <2>. PICK q : q = [run[t] EXCEPT !.pc = "content", !.target = d]
    OBVIOUS
  <2>1. run' = [run EXCEPT ![t] = q] /\ UNCHANGED told
    BY <1>2, <1>4 DEF Create
  <2>2. Formed(q) /\ q.pc = "content" /\ q.target = d
    BY <1>1, <1>2 DEF Formed, Run, BoxPC, LarkPC, Tools
  <2>3. RunInv' /\ run'[t] = q /\ \A s \in Turns \ {t} : run'[s] = run[s]
    BY <2>1, <2>2, RunStep DEF IInv
  <2>4. StateOK'
    BY <1>1, <1>3, <2>1 DEF IInv, StateOK, Create, keys
  <2>5. KeyInv'
    BY <2>2, <2>3, QuietKeys DEF IInv, Create, BoxPC
  <2>6. DocInv'
    <3>1. CreatedIsWhole'
      BY <1>1, <1>3, <2>1, <2>2, <2>3 DEF IInv, DocInv, CreatedIsWhole
    <3>2. EveryDocumentTold'
      <4>1. ASSUME NEW e \in Docs \ {d}, doc'[e] # Nothing
            PROVE  \/ told'[e] # "nothing" \/ e \in lost'
                   \/ \E s \in Turns : run'[s].pc = "content" /\ run'[s].target = e
        BY <4>1, <1>1, <2>1, <2>2, <2>3 DEF IInv, DocInv, EveryDocumentTold, Create
      <4>2. \/ told'[d] # "nothing"
            \/ \E s \in Turns : run'[s].pc = "content" /\ run'[s].target = d
        BY <1>1, <2>1, <2>2, <2>3
      <4>. QED
        BY <4>1, <4>2 DEF EveryDocumentTold
    <3>3. \A e \in Docs : doc'[e] = Nothing => told'[e] = "nothing"
      BY <1>1, <2>1, <2>2, <2>3 DEF IInv, DocInv
    <3>4. \A s \in Turns : run'[s].pc = "content" => doc'[run'[s].target] # Nothing
      <4>1. \A s \in Turns : run[s].pc = "content" => run[s].target \in Docs
        BY DEF IInv, RunInv, Formed
      <4>. QED
        BY <4>1, <1>1, <2>1, <2>2, <2>3 DEF IInv, DocInv
    <3>. QED
      BY <3>1, <3>2, <3>3, <3>4 DEF DocInv
  <2>. QED
    BY <2>3, <2>4, <2>5, <2>6 DEF IInv
<1>5. ASSUME ~run[t].want \/ ~named PROVE IInv'
  <2>. PICK q : q = [IdleRun EXCEPT !.pc = "think", !.user = run[t].user]
    OBVIOUS
  <2>1. run' = [run EXCEPT ![t] = q] /\ told' = [told EXCEPT ![d] = "created"]
    BY <1>5 DEF Create, Return, Tell
  <2>2. Formed(q) /\ q.pc = "think"
    BY <1>1, Returned DEF IInv
  <2>3. RunInv' /\ run'[t] = q /\ \A s \in Turns \ {t} : run'[s] = run[s]
    BY <2>1, <2>2, RunStep DEF IInv
  <2>4. StateOK'
    BY <1>1, <1>2, <1>3, <2>1 DEF IInv, StateOK, Create, keys
  <2>5. KeyInv'
    BY <2>2, <2>3, QuietKeys DEF IInv, Create, BoxPC
  <2>6. DocInv'
    <3>1. CreatedIsWhole'
      BY <1>1, <1>2, <1>3, <1>5, <2>1 DEF IInv, DocInv, CreatedIsWhole
    <3>2. EveryDocumentTold'
      <4>1. ASSUME NEW e \in Docs \ {d}, doc'[e] # Nothing
            PROVE  \/ told'[e] # "nothing" \/ e \in lost'
                   \/ \E s \in Turns : run'[s].pc = "content" /\ run'[s].target = e
        BY <4>1, <1>1, <1>2, <1>5, <2>1, <2>2, <2>3 DEF IInv, DocInv, EveryDocumentTold, Create
      <4>2. \/ told'[d] # "nothing"
            \/ \E s \in Turns : run'[s].pc = "content" /\ run'[s].target = d
        BY <1>1, <1>2, <1>5, <2>1, <2>2, <2>3
      <4>. QED
        BY <4>1, <4>2 DEF EveryDocumentTold
    <3>3. \A e \in Docs : doc'[e] = Nothing => told'[e] = "nothing"
      BY <1>1, <1>2, <1>5, <2>1, <2>2, <2>3 DEF IInv, DocInv
    <3>4. \A s \in Turns : run'[s].pc = "content" => doc'[run'[s].target] # Nothing
      <4>1. \A s \in Turns : run[s].pc = "content" => run[s].target \in Docs
        BY DEF IInv, RunInv, Formed
      <4>. QED
        BY <4>1, <1>1, <1>2, <1>5, <2>1, <2>2, <2>3 DEF IInv, DocInv
    <3>. QED
      BY <3>1, <3>2, <3>3, <3>4 DEF DocInv
  <2>. QED
    BY <2>3, <2>4, <2>5, <2>6 DEF IInv
<1>. QED
  BY <1>4, <1>5

\* The last call of a tool: its turn is told, or the document is lost.
LEMMA LastCall ==
  ASSUME IInv, NEW t \in Turns, run[t].pc # "idle", Return(t),
         UNCHANGED <<now, keys, cache, calls, shared, unnamed>>,
         doc' \in [Docs -> Doc],
         told' \in [Docs -> {"nothing", "half", "created"}], lost' \subseteq Docs,
         lost \subseteq lost',
         \A d \in Docs :
           /\ doc[d] # Nothing => doc'[d] # Nothing
           /\ doc'[d].want = doc[d].want \/ told'[d] = "nothing"
           /\ doc[d].filled => doc'[d].filled
           /\ \/ told'[d] = told[d]
              \/ run[t].pc = "content" /\ run[t].target = d
           /\ doc[d] = Nothing =>
                doc'[d] = Nothing \/ d \in lost'
         ,
         run[t].pc = "content" =>
           LET d == run[t].target IN
             /\ told'[d] # "nothing" \/ d \in lost'
             /\ told'[d] = "created" => told[d] = "created" \/ doc'[d].filled
  PROVE  IInv'
<1>. PICK q : q = [IdleRun EXCEPT !.pc = "think", !.user = run[t].user]
  OBVIOUS
<1>1. run' = [run EXCEPT ![t] = q] /\ Formed(q) /\ q.pc = "think"
  BY Returned DEF Return, IInv
<1>2. RunInv' /\ run'[t] = q /\ \A s \in Turns \ {t} : run'[s] = run[s]
  BY <1>1, RunStep DEF IInv
<1>3. StateOK'
  BY DEF IInv, StateOK, keys
<1>4. KeyInv'
  BY <1>1, <1>2, QuietKeys DEF IInv, BoxPC
<1>5. /\ run[t].pc = "content" =>
            run[t].target \in Docs /\ doc[run[t].target] # Nothing
      /\ \A s \in Turns : run[s].pc = "content" => run[s].target \in Docs
  BY DEF IInv, RunInv, Formed, DocInv
<1>6. CreatedIsWhole'
  BY <1>5 DEF IInv, DocInv, CreatedIsWhole
<1>7. EveryDocumentTold'
  BY <1>1, <1>2, <1>5 DEF IInv, DocInv, EveryDocumentTold
<1>8. \A d \in Docs : doc'[d] = Nothing => told'[d] = "nothing"
  BY <1>5 DEF IInv, DocInv
<1>9. \A s \in Turns : run'[s].pc = "content" => doc'[run'[s].target] # Nothing
  BY <1>1, <1>2, <1>5 DEF IInv, DocInv
<1>10. DocInv'
  BY <1>6, <1>7, <1>8, <1>9 DEF DocInv
<1>. QED
  BY <1>2, <1>3, <1>4, <1>10 DEF IInv

\* What the turn is told of the document it has made.
LEMMA AnswerFacts ==
  ASSUME IInv, NEW t \in Turns, NEW ok \in BOOLEAN, Answer(t, ok)
  PROVE  /\ Return(t) /\ told' \in [Docs -> {"nothing", "half", "created"}]
         /\ \A d \in Docs : \/ told'[d] = told[d]
                            \/ run[t].pc = "content" /\ run[t].target = d
         /\ run[t].pc = "content" =>
              told'[run[t].target] = IF ok THEN "created" ELSE "half"
<1>1. /\ told \in [Docs -> {"nothing", "half", "created"}]
      /\ run[t].pc = "content" => run[t].target \in Docs
  BY DEF IInv, StateOK, RunInv, Formed
<1>. QED
  BY <1>1 DEF Answer, Tell

LEMMA SucceedStep ==
  ASSUME IInv, NEW t \in Turns, Succeed(t)
  PROVE  IInv'
<1>1. Done(t) /\ Answer(t, TRUE) /\ UNCHANGED <<now, keys, cache, calls, shared, lost, unnamed>>
  BY DEF Succeed
<1>2. lost \subseteq Docs
  BY DEF IInv, StateOK
<1>3. run[t].pc # "idle"
  BY <1>1, DoneFacts DEF LarkPC, Tools
<1>. QED
  BY <1>1, <1>2, <1>3, DoneFacts, AnswerFacts, LastCall

LEMMA RefuseStep ==
  ASSUME IInv, NEW t \in Turns, Refuse(t)
  PROVE  IInv'
<1>1. /\ Answer(t, FALSE) /\ UNCHANGED <<now, keys, cache, calls, doc, shared, lost, unnamed>>
      /\ run[t].pc \in LarkPC
  BY DEF Refuse
<1>2. lost \subseteq Docs /\ doc \in [Docs -> Doc]
  BY DEF IInv, StateOK
<1>3. run[t].pc # "idle"
  BY <1>1 DEF LarkPC, Tools
<1>. QED
  BY <1>1, <1>2, <1>3, AnswerFacts, LastCall

LEMMA LoseStep ==
  ASSUME IInv, NEW t \in Turns, Lose(t)
  PROVE  IInv'
<1>1. /\ UNCHANGED <<now, keys, cache, calls, shared, told, unnamed>> /\ Return(t)
      /\ run[t].pc # "idle"
  BY DEF Lose, LarkPC, BoxPC, Tools
<1>2. /\ lost \subseteq Docs /\ doc \in [Docs -> Doc]
      /\ told \in [Docs -> {"nothing", "half", "created"}]
      /\ run[t].pc = "content" => run[t].target \in Docs
  BY DEF IInv, StateOK, RunInv, Formed
<1>3. CASE /\ UNCHANGED doc \/ Done(t)
           /\ lost' = IF run[t].pc = "content" THEN lost \cup {run[t].target}
                                              ELSE lost
  BY <1>1, <1>2, <1>3, DoneFacts, LastCall
<1>4. ASSUME NEW d \in Docs, Made(t, d), lost' = lost \cup {d}
      PROVE  IInv'
  BY <1>1, <1>2, <1>4, MadeFacts, Records, LastCall
<1>. QED
  BY <1>3, <1>4 DEF Lose

-----------------------------------------------------------------------------
(* Steps of the surroundings                                               *)

LEMMA ShareStep ==
  ASSUME IInv, NEW d \in Docs, NEW u \in Users, Share(d, u)
  PROVE  IInv'
<1>1. StateOK'
  BY DEF IInv, StateOK, Share, keys
<1>2. RunInv'
  BY DEF IInv, RunInv, Share
<1>3. KeyInv'
  BY DEF IInv, KeyInv, Caching, Reading, Share, keys
<1>4. DocInv'
  BY DEF IInv, DocInv, CreatedIsWhole, EveryDocumentTold, Share
<1>. QED
  BY <1>1, <1>2, <1>3, <1>4 DEF IInv

LEMMA RecycleStep ==
  ASSUME IInv, NEW b \in Boxes, Recycle(b)
  PROVE  IInv'
<1>1. StateOK'
  BY Records DEF IInv, StateOK, Recycle, keys, docs
<1>2. RunInv'
  BY DEF IInv, RunInv, Recycle
<1>3. KeyInv'
  <2>1. ASSUME NEW t \in Turns PROVE Reading(run[t])'
    BY DEF IInv, KeyInv, Reading, Recycle, keys
  <2>2. ASSUME NEW c \in Boxes, c # b PROVE Caching(c)'
    BY <2>2 DEF IInv, StateOK, KeyInv, Caching, Recycle, keys
  <2>3. Caching(b)'
    <3>1. cache'[b] = Unset /\ NoKey \in Keys
      BY Constants DEF IInv, StateOK, Recycle, Keys, NoKey
    <3>2. now \in Nat /\ left[NoKey] \in Nat
      BY <3>1 DEF IInv, StateOK
    <3>. QED
      BY <3>1, <3>2, Records, Constants DEF Caching, Recycle, keys
  <2>. QED
    BY <2>1, <2>2, <2>3 DEF KeyInv
<1>4. DocInv'
  BY DEF IInv, DocInv, CreatedIsWhole, EveryDocumentTold, Recycle, docs
<1>. QED
  BY <1>1, <1>2, <1>3, <1>4 DEF IInv

\* A key that is given up was the stored one until now.
LEMMA ChangeStep ==
  ASSUME IInv, NEW k \in Keys, Change(k)
  PROVE  IInv'
<1>1. /\ secret \in Keys /\ left \in [Keys -> Nat] /\ now \in Nat
      /\ secret' = k /\ left' = [left EXCEPT ![secret] = now]
      /\ UNCHANGED <<now, cache, calls, run, docs>>
  BY DEF IInv, StateOK, Change
<1>2. StateOK'
  BY <1>1, Constants DEF IInv, StateOK, Change, docs
<1>3. RunInv'
  BY <1>1 DEF IInv, RunInv
<1>4. KeyInv'
  <2>1. ASSUME NEW t \in Turns PROVE Reading(run[t])'
    <3>1. run[t].due \in Nat /\ run[t].key \in Keys
      BY DEF IInv, RunInv, Run
    <3>2. Reading(run[t])
      BY DEF IInv, KeyInv
    <3>. QED
      BY <1>1, <3>1, <3>2, Constants DEF Reading, BoxPC
  <2>2. ASSUME NEW b \in Boxes PROVE Caching(b)'
    <3>1. cache[b].until \in Nat /\ cache[b].key \in Keys
      BY DEF IInv, StateOK
    <3>2. Caching(b)
      BY DEF IInv, KeyInv
    <3>. QED
      BY <1>1, <3>1, <3>2, Constants DEF Caching
  <2>. QED
    BY <2>1, <2>2 DEF KeyInv
<1>5. DocInv'
  BY <1>1 DEF IInv, DocInv, CreatedIsWhole, EveryDocumentTold, docs
<1>. QED
  BY <1>2, <1>3, <1>4, <1>5 DEF IInv

LEMMA TickStep == IInv /\ Tick => IInv'
<1>. SUFFICES ASSUME IInv, Tick PROVE IInv'
  OBVIOUS
<1>1. now \in Nat /\ now' = now + 1
  BY DEF IInv, StateOK, Tick
<1>2. StateOK'
  BY <1>1 DEF IInv, StateOK, Tick, keys, docs
<1>3. RunInv'
  BY DEF IInv, RunInv, Tick
<1>4. KeyInv'
  <2>1. ASSUME NEW t \in Turns PROVE Reading(run[t])'
    <3>1. run[t].due \in Nat
      BY DEF IInv, RunInv, Run
    <3>. QED
      BY <1>1, <3>1, Constants DEF IInv, KeyInv, Reading, Tick, keys
  <2>2. ASSUME NEW b \in Boxes PROVE Caching(b)'
    <3>1. cache[b].until \in Nat
      BY DEF IInv, StateOK
    <3>. QED
      BY <1>1, <3>1, Constants DEF IInv, KeyInv, Caching, Tick, keys
  <2>. QED
    BY <2>1, <2>2 DEF KeyInv
<1>5. DocInv'
  BY DEF IInv, DocInv, CreatedIsWhole, EveryDocumentTold, Tick, docs
<1>. QED
  BY <1>2, <1>3, <1>4, <1>5 DEF IInv

LEMMA NextInv == IInv /\ [Next]_vars => IInv'
<1>. SUFFICES ASSUME IInv, [Next]_vars PROVE IInv'
  OBVIOUS
<1>1. ASSUME NEW t \in Turns, NEW u \in Users, Begin(t, u) PROVE IInv'
  BY <1>1, BeginStep
<1>2. ASSUME NEW t \in Turns, Finish(t) PROVE IInv'
  BY <1>2, FinishStep
<1>3. ASSUME NEW t \in Turns, NEW r \in Request(t), NEW b \in Boxes,
             CallHit(t, r, b) \/ CallMiss(t, r, b)
      PROVE  IInv'
  BY <1>3, CallHitStep, CallMissStep
<1>4. ASSUME NEW t \in Turns, Fetch(t) \/ Inject(t) \/ Resolve(t) PROVE IInv'
  BY <1>4, FetchStep, InjectStep, ResolveStep
<1>5. ASSUME NEW t \in Turns, NEW d \in Docs, NEW named \in BOOLEAN,
             Create(t, d, named)
      PROVE  IInv'
  BY <1>5, CreateStep
<1>6. ASSUME NEW t \in Turns, Succeed(t) \/ Refuse(t) \/ Lose(t) PROVE IInv'
  BY <1>6, SucceedStep, RefuseStep, LoseStep
<1>7. ASSUME NEW b \in Boxes, Recycle(b) PROVE IInv'
  BY <1>7, RecycleStep
<1>8. ASSUME NEW k \in Keys, Change(k) PROVE IInv'
  BY <1>8, ChangeStep
<1>9. CASE Tick
  BY <1>9, TickStep
<1>10. CASE UNCHANGED vars
  <2>1. StateOK'
    BY <1>10 DEF IInv, StateOK, vars, keys, docs
  <2>2. RunInv'
    BY <1>10 DEF IInv, RunInv, vars
  <2>3. KeyInv'
    BY <1>10 DEF IInv, KeyInv, Caching, Reading, vars, keys
  <2>4. DocInv'
    BY <1>10 DEF IInv, DocInv, CreatedIsWhole, EveryDocumentTold, vars, docs
  <2>. QED
    BY <2>1, <2>2, <2>3, <2>4 DEF IInv
<1>11. ASSUME NEW d \in Docs, NEW u \in Users, Share(d, u) PROVE IInv'
  BY <1>11, ShareStep
<1>. QED
  BY <1>1, <1>2, <1>3, <1>4, <1>5, <1>6, <1>7, <1>8, <1>9, <1>10,
     <1>11 DEF Next

\* The inductive invariant holds in every reachable state.
THEOREM Invariance == Spec => []IInv
BY InitInv, NextInv, PTL DEF Spec

-----------------------------------------------------------------------------
(* The theorems                                                            *)

\* Every variable keeps to its type, and a call that has passed the interceptor
\* names a user (interceptor/index.py 77-111, tools/index.py 136-258).
THEOREM TypeCorrectness == Spec => []TypeOK
<1>1. IInv => TypeOK
  <2>. SUFFICES ASSUME IInv PROVE TypeOK
    OBVIOUS
  <2>1. ASSUME NEW t \in Turns, run[t].pc \in LarkPC
        PROVE  run[t].endUser \in Users
    BY <2>1 DEF IInv, RunInv, Formed, LarkPC, Tools
  <2>. QED
    BY <2>1 DEF IInv, StateOK, RunInv, Formed, TypeOK
<1>. QED
  BY <1>1, Invariance, PTL

\* "Created" is said of a document that has what was asked for unless Lark's
\* answer did not name it, however many turns, documents, refusals and losses
\* there are (tools/index.py 202-224).
THEOREM CreatedMeansWhole == Spec => []CreatedIsWhole
<1>1. IInv => CreatedIsWhole
  BY DEF IInv, DocInv
<1>. QED
  BY <1>1, Invariance, PTL

\* A document is unknown to the turn that made it only if an invocation or an
\* answer was lost (tools/index.py 202-224).
THEOREM NoSilentDocument == Spec => []EveryDocumentTold
<1>1. IInv => EveryDocumentTold
  BY DEF IInv, DocInv
<1>. QED
  BY <1>1, Invariance, PTL

\* Of any number of users, turns and documents, the turn that changes one has
\* the token of a user with the right to (interceptor/index.py 87-99,
\* tools/index.py 136-258).
THEOREM ChangesAreByRight == Spec => ActsWithinRights
<1>. DEFINE Right(t, d) ==
       /\ run[t].pc \in LarkPC /\ run'[t] # run[t]
       /\ \/ run[t].user = doc'[d].owner
          \/ run[t].user \in shared[d] /\ doc'[d].trashed = doc[d].trashed
<1>1. ASSUME IInv, [Next]_vars, NEW d \in Docs, doc'[d] # doc[d]
      PROVE  \E t \in Turns : Right(t, d)
  <2>1. ASSUME NEW t \in Turns, NEW r, run' = [run EXCEPT ![t] = r],
               run[t].pc \in LarkPC, r.pc \in {"think", "content"},
               run[t].pc # r.pc
        PROVE  run'[t] # run[t]
    BY <1>1, <2>1 DEF IInv, RunInv
  <2>2. ASSUME NEW t \in Turns, run[t].pc \in LarkPC, Return(t)
        PROVE  run'[t] # run[t]
    <3>. PICK q : q = [IdleRun EXCEPT !.pc = "think", !.user = run[t].user]
      OBVIOUS
    <3>1. run' = [run EXCEPT ![t] = q] /\ q.pc = "think" /\ run[t].pc # "think"
      BY <2>2, Returned, <1>1 DEF Return, IInv, LarkPC, Tools
    <3>. QED
      BY <2>1, <2>2, <3>1
  <2>3. ASSUME NEW t \in Turns, Done(t), Return(t) PROVE Right(t, d)
    BY <1>1, <2>2, <2>3, DoneFacts
  <2>4. ASSUME NEW t \in Turns, NEW e \in Docs, Made(t, e), Return(t)
        PROVE  Right(t, d)
    BY <1>1, <2>2, <2>4, MadeFacts DEF LarkPC, Tools
  <2>5. ASSUME NEW t \in Turns, NEW e \in Docs, NEW named \in BOOLEAN,
               Create(t, e, named)
        PROVE  Right(t, d)
    <3>1. CASE Return(t)
      BY <2>4, <2>5, <3>1 DEF Create
    <3>2. CASE run' = [run EXCEPT ![t].pc = "content", ![t].target = e]
      <4>1. Made(t, e) /\ run[t].pc = "create" /\ run \in [Turns -> Run]
        BY <1>1, <2>5 DEF Create, Made, IInv, RunInv
      <4>2. run'[t].pc = "content"
        BY <3>2, <4>1 DEF Run
      <4>. QED
        BY <1>1, <4>1, <4>2, MadeFacts DEF LarkPC, Tools
    <3>. QED
      BY <2>5, <3>1, <3>2 DEF Create
  <2>6. \E t \in Turns :
          \/ Done(t) /\ Return(t)
          \/ \E e \in Docs :
               \/ Made(t, e) /\ Return(t)
               \/ \E named \in BOOLEAN : Create(t, e, named)
    BY <1>1 DEF Next, Begin, Finish, CallHit, CallMiss, Fetch, Inject, Resolve,
                Succeed, Refuse, Lose, Share, Recycle, Change, Tick, Answer,
                vars, docs
  <2>. QED
    BY <2>3, <2>4, <2>5, <2>6
<1>2. IInv /\ [Next]_vars =>
        [\A d \in Docs :
           doc'[d] # doc[d] => \E t \in Turns : Right(t, d)]_vars
  BY <1>1
<1>. QED
  BY <1>2, Invariance, PTL DEF Spec, ActsWithinRights

\* Nothing else brings a call to the tool.
LEMMA OtherSteps ==
  ASSUME IInv, [Next]_vars, NEW t \in Turns,
         run[t].pc # "tool", run'[t].pc = "tool"
  PROVE  \/ Inject(t)
         \/ \E r \in Request(t), b \in Boxes : CallHit(t, r, b)
<1>1. run \in [Turns -> Run] /\ ~ run'[t] = run[t]
  BY DEF IInv, RunInv
<1>2. ASSUME NEW s \in Turns, NEW q, run' = [run EXCEPT ![s] = q] PROVE s = t
  BY <1>1, <1>2
<1>3. ASSUME NEW s \in Turns, Return(s) PROVE FALSE
  <2>1. s = t
    BY <1>2, <1>3 DEF Return
  <2>. QED
    BY <1>1, <1>3, <2>1 DEF Return, IdleRun
<1>4. ASSUME NEW s \in Turns, NEW u \in Users, Begin(s, u) PROVE FALSE
  BY <1>1, <1>2, <1>4 DEF Begin, IdleRun
<1>5. ASSUME NEW s \in Turns, Finish(s) PROVE FALSE
  BY <1>1, <1>2, <1>5 DEF Finish, IdleRun
<1>6. ASSUME NEW s \in Turns, NEW r \in Request(s), NEW b \in Boxes,
             CallMiss(s, r, b)
      PROVE  FALSE
  BY <1>6, CallMissStep, <1>1
<1>7. ASSUME NEW s \in Turns, Fetch(s) PROVE FALSE
  BY <1>7, FetchStep, <1>1
<1>8. ASSUME NEW s \in Turns, NEW r \in Request(s), NEW b \in Boxes,
             CallHit(s, r, b)
      PROVE  s = t
  BY <1>8, CallHitStep, <1>1
<1>9. ASSUME NEW s \in Turns, Inject(s) PROVE s = t
  BY <1>9, InjectStep, <1>1
<1>10. ASSUME NEW s \in Turns, Resolve(s) PROVE FALSE
  <2>1. run' = [run EXCEPT ![s].pc = run[s].tool, ![s].key = NoKey]
    BY <1>3, <1>10 DEF Resolve
  <2>2. run[s] \in Run /\ run'[t].pc # run[t].pc
    BY <1>1
  <2>. QED
    BY <1>1, <2>1, <2>2 DEF Run, Tools
<1>11. ASSUME NEW s \in Turns, NEW d \in Docs, NEW named \in BOOLEAN,
              Create(s, d, named)
       PROVE  FALSE
  <2>1. run' = [run EXCEPT ![s].pc = "content", ![s].target = d]
    BY <1>3, <1>11 DEF Create
  <2>. QED
    BY <1>1, <2>1 DEF Run
<1>12. ASSUME NEW s \in Turns, Succeed(s) \/ Refuse(s) \/ Lose(s) PROVE FALSE
  BY <1>3, <1>12 DEF Succeed, Refuse, Lose, Answer
<1>. QED
  BY <1>1, <1>4, <1>5, <1>6, <1>7, <1>8, <1>9, <1>10, <1>11, <1>12
     DEF Next, Share, Recycle, Change, Tick, vars

\* A key is injected for Window and a read's time after it was the stored one,
\* for all sandboxes, rotations and outages (interceptor/index.py 62-74).
THEOREM RecentKeys == Spec => KeyRecent
<1>1. ASSUME IInv, [Next]_vars, NEW t \in Turns,
             run[t].pc # "tool", run'[t].pc = "tool"
      PROVE  LET k == run'[t].key IN
               k = secret \/ now <= left[k] + Window + Timeout
  <2>. DEFINE k == run'[t].key
       Goal == k = secret \/ now <= left[k] + Window + Timeout
  <2>1. ASSUME NEW b \in Boxes, NEW r \in Request(t), CallHit(t, r, b)
        PROVE  Goal
    <3>1. k = cache[b].key /\ now < cache[b].until
      BY <1>1, <2>1, CallHitStep DEF CallHit, Fresh
    <3>2. /\ cache[b].until \in Nat /\ cache[b].key \in Keys /\ now \in Nat
          /\ left[cache[b].key] \in Nat
      BY <1>1 DEF IInv, StateOK
    <3>. QED
      BY <1>1, <3>1, <3>2, Constants DEF IInv, KeyInv, Caching
  <2>2. CASE Inject(t)
    <3>1. k = run[t].key /\ run[t].pc = "read"
      BY <1>1, <2>2, InjectStep DEF Inject
    <3>2. /\ run[t].due \in Nat /\ run[t].key \in Keys /\ now \in Nat
          /\ left[run[t].key] \in Nat
      BY <1>1 DEF IInv, StateOK, RunInv, Run
    <3>3. /\ now <= run[t].due
          /\ run[t].key = secret \/ run[t].due <= left[run[t].key] + Timeout
      BY <1>1, <3>1 DEF IInv, KeyInv, Reading, BoxPC
    <3>. QED
      BY <3>1, <3>2, <3>3, Constants
  <2>. QED
    BY <1>1, <2>1, <2>2, OtherSteps
<1>2. IInv /\ [Next]_vars =>
        [\A t \in Turns :
           (run[t].pc # "tool" /\ run'[t].pc = "tool") =>
             LET k == run'[t].key IN
               k = secret \/ now <= left[k] + Window + Timeout]_vars
  BY <1>1
<1>. QED
  BY <1>2, Invariance, PTL DEF Spec, KeyRecent
=============================================================================

--------------------------- MODULE WebhookProofs ---------------------------
(* The inductive invariants of Webhook and what follows from them.          *)
EXTENDS WebhookRefinement, TLAPS

-----------------------------------------------------------------------------
(* The inductive invariants                                                *)

\* An asynchronous invocation runs in one sandbox.
OneTaskPerRun ==
  \A s, t \in Sandboxes :
    (task[s].pc \in Processing /\ task[t].pc \in Processing
       /\ task[s].run = task[t].run) => s = t

TypeInv ==
  /\ TypeOK
  /\ OneTaskPerRun
  /\ \A s \in Sandboxes :
       /\ task[s].pc \notin Processing => task[s].run = NoRun
       /\ At(s, "sent") => RunOf(s).event \in answered

\* The turn of a start is still to be taken.
TurnInv ==
  /\ TurnPerStart
  /\ \A s \in Sandboxes :
       task[s].pc \in {"decrypt", "agent"} => RunOf(s).turns = 0

\* A webhook about to be acknowledged is accounted for.
AckInv ==
  /\ AckedAccounted
  /\ \A s \in Sandboxes : At(s, "ack") => Accounted(Hook(s).event)

\* The token of a message outlives the invocation that sends it.
TimeInv ==
  \A s \in Sandboxes :
    /\ ~At(s, "idle") => now <= task[s].due /\ task[s].due <= now + Timeout
    /\ tenant[s].exp = 0 \/ tenant[s].live = tenant[s].exp - Timeout
    /\ At(s, "post") => task[s].due < tenant[s].live

-----------------------------------------------------------------------------
(* Lemmas about the operators                                              *)

LEMMA Constants ==
  /\ Window \in Nat /\ Margin \in Nat /\ Life \in Nat /\ Timeout \in Nat
  /\ 2 * Timeout <= Margin /\ 2 * Timeout < Life /\ Retries \in Nat
BY WebhookAssumption

LEMMA IdleTaskFacts ==
  /\ IdleTask \in Task /\ IdleTask.pc = "idle" /\ IdleTask.run = NoRun
  /\ IdleTask.pc \notin Processing
BY DEF IdleTask, Task, NoRun, Processing

LEMMA LeaveFacts ==
  ASSUME TypeOK, NEW s \in Sandboxes, Leave(s)
  PROVE  /\ task' \in [Sandboxes -> Task] /\ task'[s] = IdleTask
         /\ \A q \in Sandboxes \ {s} : task'[q] = task[q]
BY IdleTaskFacts DEF Leave, TypeOK

LEMMA GotoFacts ==
  ASSUME TypeOK, NEW s \in Sandboxes,
         NEW pc \in {"idle", "verify", "ack"} \cup Processing, Goto(s, pc)
  PROVE  /\ task' \in [Sandboxes -> Task] /\ task'[s].pc = pc
         /\ task'[s].hook = task[s].hook /\ task'[s].run = task[s].run
         /\ task'[s].due = task[s].due
         /\ \A q \in Sandboxes \ {s} : task'[q] = task[q]
<1>1. task \in [Sandboxes -> Task]
  BY DEF TypeOK
<1>2. [task[s] EXCEPT !.pc = pc] \in Task
  BY <1>1 DEF Task
<1>3. task' = [task EXCEPT ![s] = [task[s] EXCEPT !.pc = pc]]
  BY <1>1 DEF Goto
<1>. QED
  BY <1>1, <1>2, <1>3 DEF Task

\* The parts of TypeOK: the types, and what a sandbox has in hand.
TypesOK ==
  /\ now \in Nat /\ key \in Nat
  /\ delivered \in [Events -> Nat]
  /\ inflight \subseteq Delivery
  /\ acked \subseteq Events /\ answered \subseteq Events /\ lost \subseteq Events
  /\ runs \in Seq(Run)
  /\ creds \in [Sandboxes -> {Unread, NoCreds} \cup 0..key]
  /\ tenant \in [Sandboxes -> [exp : Nat, live : Nat]]
  /\ task \in [Sandboxes -> Task]

HookOK(s) ==
  task[s].pc \in {"verify", "ack"} => \E h \in task[s].hook : task[s].hook = {h}

RunOK(s) ==
  task[s].pc \in Processing =>
    task[s].run \in DOMAIN runs /\ runs[task[s].run].state = "running"

LEMMA TypeOKParts ==
  TypeOK <=> TypesOK /\ \A s \in Sandboxes : HookOK(s) /\ RunOK(s)
BY DEF TypeOK, TypesOK, HookOK, RunOK

\* What a step does to the runs while it has one of them in hand.
LEMMA RunFacts ==
  ASSUME TypeOK, NEW i \in DOMAIN runs, NEW r \in Run,
         runs' = [runs EXCEPT ![i] = r]
  PROVE  /\ runs' \in Seq(Run) /\ DOMAIN runs' = DOMAIN runs /\ runs'[i] = r
         /\ \A j \in DOMAIN runs \ {i} : runs'[j] = runs[j]
BY DEF TypeOK

\* The run of a sandbox that processes.
LEMMA TaskRunFacts ==
  ASSUME TypeInv, NEW s \in Sandboxes, task[s].pc \in Processing
  PROVE  /\ task[s].run \in DOMAIN runs /\ RunOf(s) \in Run
         /\ RunOf(s).state = "running"
         /\ RunOf(s).event \in Events /\ RunOf(s).turns \in Nat
         /\ RunOf(s).left \in 0..Retries
         /\ task[s].run # NoRun
<1>1. /\ runs \in Seq(Run) /\ task[s].run \in DOMAIN runs
      /\ runs[task[s].run].state = "running"
  BY DEF TypeInv, TypeOK
<1>2. DOMAIN runs = 1..Len(runs) /\ Len(runs) \in Nat
  BY <1>1
<1>3. PICK r \in Run : r = runs[task[s].run]
  BY <1>1
<1>4. r.event \in Events /\ r.turns \in Nat /\ r.left \in 0..Retries
  BY DEF Run
<1>5. task[s].run # NoRun
  BY <1>1, <1>2 DEF NoRun
<1>. QED
  BY <1>1, <1>3, <1>4, <1>5 DEF RunOf

LEMMA HookFacts ==
  ASSUME TypeInv, NEW s \in Sandboxes, task[s].pc \in {"verify", "ack"}
  PROVE  /\ Hook(s) \in Delivery /\ task[s].hook = {Hook(s)}
         /\ Hook(s).event \in Events /\ Hook(s).key \in Nat
<1>1. PICK h \in task[s].hook : task[s].hook = {h}
  BY DEF TypeInv, TypeOK
<1>2. Hook(s) = h
  BY <1>1 DEF Hook
<1>. QED
  BY <1>1, <1>2 DEF TypeInv, TypeOK, Task, Delivery

\* A sandbox ends its invocation, whose run becomes r.
LEMMA ConcludeType ==
  ASSUME TypeInv, NEW s \in Sandboxes, task[s].pc \in Processing, Leave(s),
         NEW r \in Run, runs' = [runs EXCEPT ![task[s].run] = r],
         now' = now, key' = key, delivered' = delivered, inflight' = inflight,
         acked' = acked, creds' = creds, tenant' = tenant,
         answered \subseteq answered', answered' \subseteq Events,
         lost' \subseteq Events
  PROVE  TypeInv'
<1>. PICK i \in DOMAIN runs : i = task[s].run
  BY TaskRunFacts
<1>1. /\ runs' \in Seq(Run) /\ DOMAIN runs' = DOMAIN runs
      /\ \A j \in DOMAIN runs \ {i} : runs'[j] = runs[j]
  BY RunFacts DEF TypeInv
<1>2. /\ task' \in [Sandboxes -> Task] /\ task'[s] = IdleTask
      /\ \A q \in Sandboxes \ {s} : task'[q] = task[q]
  BY LeaveFacts DEF TypeInv
<1>3. \A q \in Sandboxes :
        task'[q].pc \in Processing => task'[q].run # i /\ q # s
  BY <1>2, IdleTaskFacts DEF TypeInv, OneTaskPerRun
<1>4. \A q \in Sandboxes : HookOK(q)' /\ RunOK(q)'
  <2>. TAKE q \in Sandboxes
  <2>1. CASE q = s
    BY <1>2, <2>1, IdleTaskFacts DEF HookOK, RunOK
  <2>2. CASE q # s
    <3>1. task'[q] = task[q] /\ HookOK(q) /\ RunOK(q)
      BY <1>2, <2>2, TypeOKParts DEF TypeInv
    <3>. QED
      BY <1>1, <1>3, <3>1 DEF HookOK, RunOK
  <2>. QED
    BY <2>1, <2>2
<1>5. TypeOK'
  <2>1. TypesOK'
    BY <1>1, <1>2, TypeOKParts DEF TypeInv, TypesOK
  <2>. QED
    BY <1>4, <2>1 DEF TypeOK, TypesOK, HookOK, RunOK
<1>6. OneTaskPerRun'
  BY <1>2, IdleTaskFacts DEF TypeInv, OneTaskPerRun
<1>7. ASSUME NEW q \in Sandboxes, At(q, "sent")'
      PROVE  (RunOf(q).event \in answered)'
  <2>1. task'[q] = task[q] /\ task[q].pc = "sent" /\ q # s
    BY <1>2, <1>7, IdleTaskFacts DEF At
  <2>2. task[q].run \in DOMAIN runs \ {i}
    BY <1>3, <2>1, TaskRunFacts DEF Processing
  <2>. QED
    BY <1>1, <2>1, <2>2 DEF TypeInv, RunOf, At
<1>. QED
  BY <1>2, <1>5, <1>6, <1>7, IdleTaskFacts DEF TypeInv

\* A sandbox goes on with its invocation, whose run may become r.
LEMMA GoOnType ==
  ASSUME TypeInv, NEW s \in Sandboxes, task[s].pc \in Processing,
         NEW pc \in Processing, Goto(s, pc),
         NEW r \in Run, r.state = "running", r.event = RunOf(s).event,
         runs' = [runs EXCEPT ![task[s].run] = r],
         now' = now, key' = key, delivered' = delivered, inflight' = inflight,
         acked' = acked, creds' = creds,
         tenant' \in [Sandboxes -> [exp : Nat, live : Nat]],
         answered \subseteq answered', answered' \subseteq Events,
         pc = "sent" => RunOf(s).event \in answered', lost' = lost
  PROVE  TypeInv'
<1>. PICK i \in DOMAIN runs : i = task[s].run
  BY TaskRunFacts
<1>1. /\ runs' \in Seq(Run) /\ DOMAIN runs' = DOMAIN runs /\ runs'[i] = r
      /\ \A j \in DOMAIN runs \ {i} : runs'[j] = runs[j]
  BY RunFacts DEF TypeInv
<1>2. /\ task' \in [Sandboxes -> Task] /\ task'[s].pc = pc
      /\ task'[s].run = task[s].run
      /\ \A q \in Sandboxes \ {s} : task'[q] = task[q]
  BY GotoFacts DEF TypeInv
<1>3. pc \notin {"verify", "ack"}
  BY DEF Processing
<1>4. \A q \in Sandboxes \ {s} : task[q].pc \in Processing => task[q].run # i
  BY DEF TypeInv, OneTaskPerRun
<1>5. \A q \in Sandboxes : HookOK(q)' /\ RunOK(q)'
  <2>. TAKE q \in Sandboxes
  <2>1. CASE q = s
    BY <1>1, <1>2, <1>3, <2>1 DEF HookOK, RunOK
  <2>2. CASE q # s
    <3>1. task'[q] = task[q] /\ HookOK(q) /\ RunOK(q)
      BY <1>2, <2>2, TypeOKParts DEF TypeInv
    <3>. QED
      BY <1>1, <1>4, <2>2, <3>1 DEF HookOK, RunOK
  <2>. QED
    BY <2>1, <2>2
<1>6. TypeOK'
  <2>1. TypesOK'
    BY <1>1, <1>2, TypeOKParts DEF TypeInv, TypesOK
  <2>. QED
    BY <1>5, <2>1 DEF TypeOK, TypesOK, HookOK, RunOK
<1>7. OneTaskPerRun'
  BY <1>2 DEF TypeInv, OneTaskPerRun
<1>8. ASSUME NEW q \in Sandboxes, At(q, "sent")'
      PROVE  (RunOf(q).event \in answered)'
  <2>1. CASE q = s
    BY <1>1, <1>2, <1>8, <2>1 DEF At, RunOf
  <2>2. CASE q # s
    <3>1. task'[q] = task[q] /\ task[q].pc = "sent"
      BY <1>2, <1>8, <2>2 DEF At
    <3>2. task[q].run \in DOMAIN runs \ {i}
      BY <1>4, <2>2, <3>1, TaskRunFacts DEF Processing
    <3>. QED
      BY <1>1, <3>1, <3>2 DEF TypeInv, RunOf, At
  <2>. QED
    BY <2>1, <2>2
<1>. QED
  BY <1>2, <1>6, <1>7, <1>8 DEF TypeInv

\* A webhook arrives in a sandbox, goes on or ends there.
LEMMA HookType ==
  ASSUME TypeInv, NEW s \in Sandboxes, task[s].pc \notin Processing,
         NEW t \in Task, t.pc \notin Processing, t.run = NoRun,
         t.pc \in {"verify", "ack"} => \E h \in t.hook : t.hook = {h},
         task' = [task EXCEPT ![s] = t],
         runs' = runs \/ (\E r \in Run : runs' = Append(runs, r)),
         now' = now, key' = key, delivered' = delivered,
         inflight' \subseteq Delivery, acked' \subseteq Events,
         creds' = creds, tenant' = tenant,
         answered' = answered, lost' \subseteq Events
  PROVE  TypeInv'
<1>1. /\ task' \in [Sandboxes -> Task] /\ task'[s] = t
      /\ \A q \in Sandboxes \ {s} : task'[q] = task[q]
  BY DEF TypeInv, TypeOK
<1>2. /\ runs' \in Seq(Run)
      /\ \A i \in DOMAIN runs : i \in DOMAIN runs' /\ runs'[i] = runs[i]
  <2>1. runs \in Seq(Run)
    BY DEF TypeInv, TypeOK
  <2>2. CASE runs' = runs
    BY <2>1, <2>2
  <2>3. CASE \E r \in Run : runs' = Append(runs, r)
    BY <2>1, <2>3
  <2>. QED
    BY <2>2, <2>3
<1>3. \A q \in Sandboxes : HookOK(q)' /\ RunOK(q)'
  <2>. TAKE q \in Sandboxes
  <2>1. CASE q = s
    BY <1>1, <2>1 DEF HookOK, RunOK
  <2>2. CASE q # s
    <3>1. task'[q] = task[q] /\ HookOK(q) /\ RunOK(q)
      BY <1>1, <2>2, TypeOKParts DEF TypeInv
    <3>. QED
      BY <1>2, <3>1 DEF HookOK, RunOK
  <2>. QED
    BY <2>1, <2>2
<1>4. TypesOK'
  BY <1>1, <1>2, TypeOKParts DEF TypeInv, TypesOK
<1>5. TypeOK'
  BY <1>3, <1>4 DEF TypeOK, TypesOK, HookOK, RunOK
<1>6. OneTaskPerRun'
  BY <1>1 DEF TypeInv, OneTaskPerRun
<1>7. ASSUME NEW q \in Sandboxes, At(q, "sent")'
      PROVE  (RunOf(q).event \in answered)'
  <2>1. task'[q] = task[q] /\ task[q].pc = "sent"
    BY <1>1, <1>7 DEF At, Processing
  <2>2. task[q].run \in DOMAIN runs
    BY <2>1, TaskRunFacts DEF Processing
  <2>. QED
    BY <1>2, <2>1, <2>2 DEF TypeInv, RunOf, At
<1>. QED
  BY <1>1, <1>5, <1>6, <1>7 DEF TypeInv

-----------------------------------------------------------------------------
(* Types, and who runs what                                                *)

LEMMA InitType == Init => TypeInv
<1>. SUFFICES ASSUME Init PROVE TypeInv
  OBVIOUS
<1>1. \A s \in Sandboxes : task[s] = IdleTask
  BY DEF Init
<1>2. runs \in Seq(Run)
  BY DEF Init
<1>3. tenant \in [Sandboxes -> [exp : Nat, live : Nat]]
  BY DEF Init, NoToken
<1>4. task \in [Sandboxes -> Task]
  BY IdleTaskFacts DEF Init
<1>5. TypesOK
  BY <1>2, <1>3, <1>4 DEF Init, TypesOK
<1>6. \A s \in Sandboxes : HookOK(s) /\ RunOK(s)
  BY <1>1, IdleTaskFacts DEF HookOK, RunOK
<1>. QED
  BY <1>1, <1>5, <1>6, TypeOKParts, IdleTaskFacts DEF TypeInv, OneTaskPerRun, At

LEMMA ReceiveType ==
  ASSUME TypeInv, NEW s \in Sandboxes, NEW h \in inflight, Receive(s, h)
  PROVE  TypeInv'
<1>. PICK t : t = [pc |-> "verify", hook |-> {h}, run |-> NoRun,
                   due |-> now + Timeout]
  OBVIOUS
<1>1. h \in Delivery /\ now + Timeout \in Nat /\ NoRun \in Nat
  BY Constants DEF TypeInv, TypeOK, NoRun
<1>2. t \in Task
  BY <1>1 DEF Task
<1>3. t.pc = "verify" /\ t.run = NoRun /\ t.hook = {h} /\ t.pc \notin Processing
  BY DEF Processing
<1>4. task' = [task EXCEPT ![s] = t] /\ task[s].pc \notin Processing
  BY DEF Receive, At, Processing
<1>5. /\ runs' = runs /\ now' = now /\ key' = key /\ delivered' = delivered
      /\ inflight' \subseteq Delivery /\ acked' \subseteq Events /\ creds' = creds
      /\ tenant' = tenant /\ answered' = answered /\ lost' \subseteq Events
  BY DEF Receive, lark, TypeInv, TypeOK
<1>. QED
  BY <1>2, <1>3, <1>4, <1>5, HookType

\* Reject and Ack end a webhook.
LEMMA LeaveHookType ==
  ASSUME TypeInv, NEW s \in Sandboxes, task[s].pc \notin Processing, Leave(s),
         runs' = runs, now' = now, key' = key, delivered' = delivered,
         inflight' = inflight, acked' \subseteq Events, creds' = creds,
         tenant' = tenant, answered' = answered, lost' = lost
  PROVE  TypeInv'
<1>1. IdleTask.pc \notin {"verify", "ack"}
  BY IdleTaskFacts
<1>2. inflight' \subseteq Delivery /\ lost' \subseteq Events
  BY DEF TypeInv, TypeOK
<1>. QED
  BY <1>1, <1>2, IdleTaskFacts, HookType DEF Leave

\* Dispatch and DispatchFails go on to the acknowledgement.
LEMMA AckHookType ==
  ASSUME TypeInv, NEW s \in Sandboxes, At(s, "verify"), Goto(s, "ack"),
         runs' = runs \/ runs' = Append(runs, NewRun(Hook(s))),
         now' = now, key' = key, delivered' = delivered, inflight' = inflight,
         acked' = acked, creds' = creds, tenant' = tenant, answered' = answered,
         lost' \subseteq Events
  PROVE  TypeInv'
<1>. PICK t : t = [task[s] EXCEPT !.pc = "ack"]
  OBVIOUS
<1>1. task[s] \in Task /\ task[s].pc = "verify" /\ "verify" \notin Processing
  BY DEF TypeInv, TypeOK, At, Processing
<1>2. /\ t \in Task /\ t.pc = "ack" /\ t.hook = task[s].hook
      /\ t.run = task[s].run /\ "ack" \notin Processing
  BY <1>1 DEF Task, Processing
<1>3. t.run = NoRun /\ \E h \in t.hook : t.hook = {h}
  BY <1>1, <1>2 DEF TypeInv, TypeOK
<1>4. NewRun(Hook(s)) \in Run
  BY <1>1, HookFacts, Constants DEF NewRun, Run
<1>5. task' = [task EXCEPT ![s] = t]
  BY DEF Goto, TypeInv, TypeOK
<1>6. inflight' \subseteq Delivery /\ acked' \subseteq Events
  BY DEF TypeInv, TypeOK
<1>. QED
  BY <1>1, <1>2, <1>3, <1>4, <1>5, <1>6, HookType

LEMMA StartType ==
  ASSUME TypeInv, NEW s \in Sandboxes, NEW i \in DOMAIN runs, Start(s, i)
  PROVE  TypeInv'
<1>. PICK r : r = [runs[i] EXCEPT !.state = "running", !.turns = 0]
  OBVIOUS
<1>. PICK t : t = [pc |-> "decrypt", hook |-> {}, run |-> i,
                   due |-> now + Timeout]
  OBVIOUS
<1>1. runs[i] \in Run /\ runs[i].state = "queued" /\ i \in Nat
  BY DEF TypeInv, TypeOK, Start
<1>2. r \in Run /\ r.state = "running"
  <2>. PICK w \in Run : w = runs[i]
    BY <1>1
  <2>. QED
    BY DEF Run
<1>3. runs' = [runs EXCEPT ![i] = r]
  BY DEF Start, TypeInv, TypeOK
<1>4. /\ runs' \in Seq(Run) /\ DOMAIN runs' = DOMAIN runs /\ runs'[i] = r
      /\ \A j \in DOMAIN runs \ {i} : runs'[j] = runs[j]
  BY <1>2, <1>3, RunFacts DEF TypeInv
<1>5. /\ t \in Task /\ t.pc = "decrypt" /\ t.run = i
      /\ "decrypt" \in Processing
  BY SMTT(60), <1>1, Constants DEF TypeInv, TypeOK, Task, Processing
<1>6. task' = [task EXCEPT ![s] = t]
  BY DEF Start
<1>7. /\ task' \in [Sandboxes -> Task] /\ task'[s] = t
      /\ \A q \in Sandboxes \ {s} : task'[q] = task[q]
  BY <1>5, <1>6 DEF TypeInv, TypeOK
<1>8. \A q \in Sandboxes : task[q].pc \in Processing => task[q].run # i
  BY <1>1 DEF TypeInv, TypeOK
<1>9. \A q \in Sandboxes : HookOK(q)' /\ RunOK(q)'
  <2>. TAKE q \in Sandboxes
  <2>1. CASE q = s
    BY ZenonT(60), <1>2, <1>4, <1>5, <1>7, <2>1 DEF HookOK, RunOK
  <2>2. CASE q # s
    <3>1. task'[q] = task[q] /\ HookOK(q) /\ RunOK(q)
      BY <1>7, <2>2, TypeOKParts DEF TypeInv
    <3>. QED
      BY <1>4, <1>8, <3>1 DEF HookOK, RunOK
  <2>. QED
    BY <2>1, <2>2
<1>10. TypesOK'
  BY <1>4, <1>7, TypeOKParts DEF TypeInv, TypesOK, Start, lark
<1>11. TypeOK'
  BY <1>9, <1>10 DEF TypeOK, TypesOK, HookOK, RunOK
<1>12. OneTaskPerRun'
  BY <1>5, <1>7, <1>8 DEF TypeInv, OneTaskPerRun
<1>13. ASSUME NEW q \in Sandboxes, At(q, "sent")'
       PROVE  (RunOf(q).event \in answered)'
  <2>1. task'[q] = task[q] /\ task[q].pc = "sent"
    BY <1>5, <1>7, <1>13 DEF At
  <2>2. task[q].run \in DOMAIN runs \ {i}
    BY <1>8, <2>1, TaskRunFacts DEF Processing
  <2>3. answered' = answered
    BY DEF Start
  <2>. QED
    BY <1>4, <2>1, <2>2, <2>3 DEF TypeInv, RunOf, At
<1>. QED
  BY <1>5, <1>7, <1>11, <1>12, <1>13 DEF TypeInv

\* What becomes of the run of a sandbox: its new state, its retries, turns.
Ended(s, n) == [RunOf(s) EXCEPT !.state = "over",
                                !.turns = IF n = 0 THEN 0 ELSE @ + 1]
Again(s)    == [RunOf(s) EXCEPT !.state = "queued", !.left = @ - 1,
                                !.turns = 0]
Turned(s, n) == [RunOf(s) EXCEPT !.turns = @ + n]

LEMMA RunChanges ==
  ASSUME TypeInv, NEW s \in Sandboxes, task[s].pc \in Processing,
         NEW n \in {0, 1}
  PROVE  /\ Ended(s, n) \in Run /\ Ended(s, n).state = "over"
         /\ Ended(s, n).turns \in Nat
         /\ Ended(s, n).turns <= RunOf(s).turns + n
         /\ Ended(s, n).left = RunOf(s).left
         /\ Ended(s, n).key = RunOf(s).key
         /\ Ended(s, n).event = RunOf(s).event
         /\ Turned(s, n) \in Run /\ Turned(s, n).state = "running"
         /\ Turned(s, n).turns = RunOf(s).turns + n
         /\ Turned(s, n).left = RunOf(s).left
         /\ Turned(s, n).key = RunOf(s).key
         /\ Turned(s, n).event = RunOf(s).event
         /\ RunOf(s).left > 0 => Again(s) \in Run
         /\ Again(s).state = "queued" /\ Again(s).turns = 0
         /\ Again(s).left = RunOf(s).left - 1
         /\ Again(s).key = RunOf(s).key
         /\ Again(s).event = RunOf(s).event
<1>. PICK r \in Run : r = RunOf(s)
  BY TaskRunFacts
<1>1. /\ r.turns \in Nat /\ r.turns + n \in Nat /\ r.left \in 0..Retries
      /\ r.left > 0 => r.left - 1 \in 0..Retries
      /\ r.state = "running"
  BY TaskRunFacts, Constants
<1>. PICK k : k = IF n = 0 THEN 0 ELSE r.turns + 1
  OBVIOUS
<1>2. k \in Nat /\ k <= r.turns + n
  BY <1>1
<1>3. /\ Ended(s, n) = [r EXCEPT !.state = "over", !.turns = k]
      /\ Turned(s, n) = [r EXCEPT !.turns = r.turns + n]
      /\ Again(s) = [r EXCEPT !.state = "queued", !.left = r.left - 1, !.turns = 0]
  BY DEF Ended, Turned, Again
<1>4. Ended(s, n) \in Run
  BY <1>2, <1>3 DEF Run
<1>5. Turned(s, n) \in Run
  BY <1>1, <1>3 DEF Run
<1>6. r.left > 0 => Again(s) \in Run
  <2>1. 0 \in Nat
    OBVIOUS
  <2>. QED
    BY <1>1, <1>3, <2>1 DEF Run
<1>. QED
  BY <1>1, <1>2, <1>3, <1>4, <1>5, <1>6 DEF Run

\* How the actions of an invocation change its run.
LEMMA ConcludeIs ==
  ASSUME TypeInv, NEW s \in Sandboxes, task[s].pc \in Processing, Conclude(s)
  PROVE  Leave(s) /\ runs' = [runs EXCEPT ![task[s].run] = Ended(s, 0)]
<1>. PICK r \in Run : r = RunOf(s)
  BY TaskRunFacts
<1>1. Ended(s, 0) = [r EXCEPT !.state = "over", !.turns = 0]
  BY DEF Ended
<1>2. runs' = [runs EXCEPT ![task[s].run] =
                 [r EXCEPT !.state = "over", !.turns = 0]]
  BY TaskRunFacts DEF Conclude, RunOf, TypeInv, TypeOK
<1>. QED
  BY <1>1, <1>2 DEF Conclude

LEMMA SilentIs ==
  ASSUME TypeInv, NEW s \in Sandboxes, AgentSilent(s)
  PROVE  runs' = [runs EXCEPT ![task[s].run] = Ended(s, 1)]
<1>1. task[s].pc \in Processing
  BY DEF AgentSilent, At, Processing
<1>. PICK r \in Run : r = RunOf(s)
  BY <1>1, TaskRunFacts
<1>2. Ended(s, 1) = [r EXCEPT !.state = "over", !.turns = r.turns + 1]
  BY DEF Ended
<1>3. runs' = [runs EXCEPT ![task[s].run] =
                 [r EXCEPT !.state = "over", !.turns = r.turns + 1]]
  BY <1>1, TaskRunFacts DEF AgentSilent, RunOf, TypeInv, TypeOK
<1>. QED
  BY <1>2, <1>3

LEMMA TurnIs ==
  ASSUME TypeInv, NEW s \in Sandboxes, task[s].pc \in Processing,
         NEW n \in {0, 1}, Turn(s, n)
  PROVE  runs' = [runs EXCEPT ![task[s].run] = Turned(s, n)]
BY DEF Turn, Turned, RunOf, TypeInv, TypeOK

LEMMA UnchangedIs ==
  ASSUME TypeInv, NEW s \in Sandboxes, task[s].pc \in Processing, runs' = runs
  PROVE  runs' = [runs EXCEPT ![task[s].run] = Turned(s, 0)]
<1>. PICK r \in Run : r = RunOf(s)
  BY TaskRunFacts
<1>1. r.turns \in Nat /\ r.turns + 0 = r.turns
  BY TaskRunFacts
<1>2. Turned(s, 0) = r
  BY <1>1 DEF Turned, Run
<1>. QED
  BY <1>2, TaskRunFacts DEF RunOf, TypeInv, TypeOK

-----------------------------------------------------------------------------
(* An invocation that processes an event goes on or ends                   *)

GoesOn(s) ==
  /\ task[s].pc \in Processing \ {"sent"}
  /\ \E pc \in Processing, n \in {0, 1} :
       /\ Goto(s, pc)
       /\ runs' = [runs EXCEPT ![task[s].run] = Turned(s, n)]
       /\ pc # "decrypt"
       /\ n = 1 => At(s, "agent")
       /\ pc = "agent" => At(s, "decrypt")
       /\ pc = "sent" => At(s, "post") /\ RunOf(s).event \in answered'
  /\ tenant' \in [Sandboxes -> [exp : Nat, live : Nat]]
  /\ answered \subseteq answered' /\ answered' \subseteq Events
  /\ UNCHANGED <<now, lark, inflight, acked, creds, lost>>

Ends(s) ==
  /\ task[s].pc \in Processing
  /\ Leave(s)
  /\ answered \subseteq answered' /\ answered' \subseteq Events
  /\ lost \subseteq lost' /\ lost' \subseteq Events
  /\ \E r \in Run :
       /\ runs' = [runs EXCEPT ![task[s].run] = r]
       /\ r.event = RunOf(s).event
       /\ r.state = "over" => r.event \in answered' \cup lost'
       /\ r.key = RunOf(s).key
       /\ r.turns <= RunOf(s).turns + (IF At(s, "agent") THEN 1 ELSE 0)
  /\ UNCHANGED <<now, lark, inflight, acked, creds, tenant>>

LEMMA ReadGoesOn ==
  ASSUME TypeInv, NEW s \in Sandboxes, Read(s)
  PROVE  GoesOn(s)
<1>1. task[s].pc \in Processing \ {"sent"} /\ At(s, "decrypt")
  BY DEF Read, At, Processing
<1>2. PICK pc \in {"agent", "token"} : Goto(s, pc)
  BY DEF Read
<1>3. pc \in Processing /\ pc # "decrypt" /\ pc # "sent"
  BY DEF Processing
<1>4. runs' = [runs EXCEPT ![task[s].run] = Turned(s, 0)]
  BY <1>1, UnchangedIs DEF Read
<1>5. /\ tenant' \in [Sandboxes -> [exp : Nat, live : Nat]]
      /\ answered \subseteq Events
  BY DEF Read, TypeInv, TypeOK
<1>6. UNCHANGED <<now, lark, inflight, acked, creds, answered, lost>>
  BY DEF Read
<1>. QED
  BY <1>1, <1>2, <1>3, <1>4, <1>5, <1>6 DEF GoesOn

\* Agent and AgentFails.
LEMMA AgentGoesOn ==
  ASSUME TypeInv, NEW s \in Sandboxes, Agent(s) \/ AgentFails(s)
  PROVE  GoesOn(s)
<1>1. /\ task[s].pc \in Processing \ {"sent"} /\ At(s, "agent") /\ Goto(s, "token")
      /\ UNCHANGED <<now, lark, inflight, acked, creds, tenant, answered, lost>>
  BY DEF Agent, AgentFails, At, Processing
<1>2. PICK n \in {0, 1} : Turn(s, n)
  BY DEF Agent, AgentFails
<1>3. runs' = [runs EXCEPT ![task[s].run] = Turned(s, n)]
  BY <1>1, <1>2, TurnIs
<1>. QED
  BY <1>1, <1>3 DEF GoesOn, TypeInv, TypeOK, Processing

LEMMA ConcludeEnds ==
  ASSUME TypeInv, NEW s \in Sandboxes, task[s].pc \in Processing, Conclude(s),
         \/ Lose(s) /\ answered' = answered
         \/ At(s, "sent") /\ lost' = lost /\ answered' = answered,
         UNCHANGED <<now, lark, inflight, acked, creds, tenant>>
  PROVE  Ends(s)
<1>1. /\ answered \subseteq answered' /\ answered' \subseteq Events
      /\ lost \subseteq lost' /\ lost' \subseteq Events
      /\ RunOf(s).event \in answered' \cup lost'
  BY TaskRunFacts DEF Lose, TypeInv, TypeOK
<1>2. Leave(s) /\ runs' = [runs EXCEPT ![task[s].run] = Ended(s, 0)]
  BY ConcludeIs
<1>3. /\ Ended(s, 0) \in Run /\ Ended(s, 0).event = RunOf(s).event
      /\ Ended(s, 0).key = RunOf(s).key
      /\ Ended(s, 0).turns \in Nat
      /\ Ended(s, 0).turns <= RunOf(s).turns + 0
  BY RunChanges
<1>4. Ended(s, 0).turns <= RunOf(s).turns + (IF At(s, "agent") THEN 1 ELSE 0)
  BY <1>3, TaskRunFacts
<1>. QED
  BY <1>1, <1>2, <1>3, <1>4 DEF Ends

LEMMA DecryptFailsEnds ==
  ASSUME TypeInv, NEW s \in Sandboxes, DecryptFails(s)
  PROVE  Ends(s)
BY ConcludeEnds DEF DecryptFails, At, Processing

LEMMA ReturnEnds ==
  ASSUME TypeInv, NEW s \in Sandboxes, Return(s)
  PROVE  Ends(s)
BY ConcludeEnds DEF Return, At, Processing

LEMMA PostCases ==
  ASSUME TypeInv, NEW s \in Sandboxes, Post(s)
  PROVE  \/ GoesOn(s) /\ tenant' = tenant /\ ~Goto(s, "post")
         \/ Ends(s)
<1>1. task[s].pc \in Processing \ {"sent"} /\ At(s, "post")
  BY DEF Post, At, Processing
<1>2. CASE Conclude(s) /\ Lose(s) /\ UNCHANGED answered
  BY <1>1, <1>2, ConcludeEnds DEF Post
<1>3. CASE /\ answered' = answered \cup {RunOf(s).event}
           /\ Goto(s, "sent") /\ UNCHANGED <<runs, lost>>
  <2>1. runs' = [runs EXCEPT ![task[s].run] = Turned(s, 0)]
    BY <1>1, <1>3, UnchangedIs
  <2>2. /\ answered \subseteq answered' /\ answered' \subseteq Events
        /\ RunOf(s).event \in answered'
    BY <1>1, <1>3, TaskRunFacts DEF TypeInv, TypeOK
  <2>. "sent" \in Processing
    BY DEF Processing
  <2>4. \E pc \in Processing, n \in {0, 1} :
          /\ Goto(s, pc)
          /\ runs' = [runs EXCEPT ![task[s].run] = Turned(s, n)]
          /\ pc # "decrypt"
          /\ n = 1 => At(s, "agent")
          /\ pc = "agent" => At(s, "decrypt")
          /\ pc = "sent" => At(s, "post") /\ RunOf(s).event \in answered'
    <3>1. Goto(s, "sent") /\ At(s, "post")
      BY <1>1, <1>3
    <3>. WITNESS "sent" \in Processing, 0 \in {0, 1}
    <3>. QED
      BY <2>1, <2>2, <3>1
  <2>5. /\ tenant' \in [Sandboxes -> [exp : Nat, live : Nat]]
        /\ UNCHANGED <<now, lark, inflight, acked, creds, lost>>
    BY <1>3 DEF Post, TypeInv, TypeOK
  <2>6. task'[s].pc = "sent" /\ (Goto(s, "post") => task'[s].pc = "post")
    BY <1>3, GotoFacts DEF TypeInv, Processing
  <2>. QED
    BY <1>1, <2>2, <2>4, <2>5, <2>6 DEF GoesOn, Post
<1>. QED
  BY <1>2, <1>3 DEF Post

LEMMA AgentSilentEnds ==
  ASSUME TypeInv, NEW s \in Sandboxes, AgentSilent(s)
  PROVE  Ends(s)
<1>1. task[s].pc \in Processing /\ At(s, "agent")
  BY DEF AgentSilent, At, Processing
<1>2. runs' = [runs EXCEPT ![task[s].run] = Ended(s, 1)]
  BY SilentIs
<1>3. /\ Ended(s, 1) \in Run /\ Ended(s, 1).event = RunOf(s).event
      /\ Ended(s, 1).key = RunOf(s).key
      /\ Ended(s, 1).turns \in Nat
      /\ Ended(s, 1).turns <= RunOf(s).turns + 1
  BY <1>1, RunChanges
<1>4. Ended(s, 1).turns <= RunOf(s).turns + (IF At(s, "agent") THEN 1 ELSE 0)
  BY <1>1, <1>3, TaskRunFacts
<1>5. /\ answered \subseteq answered' /\ answered' \subseteq Events
      /\ lost \subseteq lost' /\ lost' \subseteq Events
      /\ RunOf(s).event \in answered' \cup lost'
  BY <1>1, TaskRunFacts DEF AgentSilent, Lose, TypeInv, TypeOK
<1>. QED
  BY <1>1, <1>2, <1>3, <1>4, <1>5 DEF Ends, AgentSilent

LEMMA GetTokenCases ==
  ASSUME TypeInv, NEW s \in Sandboxes, GetToken(s)
  PROVE  (GoesOn(s) /\ Goto(s, "post")) \/ Ends(s)
<1>1. task[s].pc \in Processing \ {"sent"} /\ At(s, "token")
  BY DEF GetToken, At, Processing
<1>2. CASE Conclude(s) /\ Lose(s) /\ UNCHANGED tenant
  BY <1>1, <1>2, ConcludeEnds DEF GetToken
<1>3. CASE /\ Goto(s, "post") /\ UNCHANGED <<runs, lost>>
           /\ \/ UNCHANGED tenant
              \/ tenant' = [tenant EXCEPT ![s] =
                   [exp |-> now + Life, live |-> now + Life - Timeout]]
  <2>1. runs' = [runs EXCEPT ![task[s].run] = Turned(s, 0)]
    BY <1>1, <1>3, UnchangedIs
  <2>2. [exp |-> now + Life, live |-> now + Life - Timeout]
          \in [exp : Nat, live : Nat]
    BY Constants DEF TypeInv, TypeOK
  <2>3. tenant' \in [Sandboxes -> [exp : Nat, live : Nat]]
    BY <1>3, <2>2 DEF TypeInv, TypeOK
  <2>4. UNCHANGED <<now, lark, inflight, acked, creds, answered, lost>>
    BY <1>3 DEF GetToken
  <2>. "post" \in Processing
    BY DEF Processing
  <2>5. Goto(s, "post")
    BY <1>3
  <2>6. \E pc \in Processing, n \in {0, 1} :
          /\ Goto(s, pc)
          /\ runs' = [runs EXCEPT ![task[s].run] = Turned(s, n)]
          /\ pc # "decrypt"
          /\ n = 1 => At(s, "agent")
          /\ pc = "agent" => At(s, "decrypt")
          /\ pc = "sent" => At(s, "post") /\ RunOf(s).event \in answered'
    <3>. WITNESS "post" \in Processing, 0 \in {0, 1}
    <3>. QED
      BY <2>1, <2>5
  <2>7. answered \subseteq Events
    BY DEF TypeInv, TypeOK
  <2>. QED
    BY <1>1, <2>3, <2>4, <2>5, <2>6, <2>7 DEF GoesOn
<1>. QED
  BY <1>2, <1>3 DEF GetToken

LEMMA CrashEnds ==
  ASSUME TypeInv, NEW s \in Sandboxes, task[s].pc \in Processing, Crash(s)
  PROVE  Ends(s)
<1>1. task[s].run # NoRun
  BY TaskRunFacts
<1>2. CASE RunOf(s).left > 0
  <2>1. runs' = [runs EXCEPT ![task[s].run] = Again(s)] /\ UNCHANGED lost
    BY <1>1, <1>2 DEF Crash, Again, RunOf, TypeInv, TypeOK
  <2>2. /\ Again(s) \in Run /\ Again(s).event = RunOf(s).event
        /\ Again(s).key = RunOf(s).key /\ Again(s).state # "over"
        /\ Again(s).turns = 0
    BY <1>2, RunChanges
  <2>3. Again(s).turns <= RunOf(s).turns + (IF At(s, "agent") THEN 1 ELSE 0)
    BY <2>2, TaskRunFacts
  <2>. QED
    BY <2>1, <2>2, <2>3 DEF Ends, Crash, TypeInv, TypeOK
<1>3. CASE ~(RunOf(s).left > 0)
  BY <1>1, <1>3, ConcludeEnds DEF Crash, Conclude
<1>. QED
  BY <1>2, <1>3

-----------------------------------------------------------------------------
(* Every step keeps the types                                              *)

\* The steps that concern no invocation.
Quiet ==
  \/ \E e \in Events : Deliver(e)
  \/ \E s \in Sandboxes : ReadCreds(s) \/ Recycle(s)
  \/ Rotate \/ Tick \/ UNCHANGED vars

LEMMA QuietFacts ==
  ASSUME TypeInv, Quiet
  PROVE  TypeInv' /\ UNCHANGED <<acked, runs, task, answered, lost>>
<1>1. UNCHANGED <<acked, runs, task, answered, lost>>
  BY DEF Quiet, Deliver, ReadCreds, Recycle, Rotate, Tick, vars, lark
<1>2. TypesOK
  BY TypeOKParts DEF TypeInv
<1>3. TypesOK'
  <2>1. CASE \E e \in Events : Deliver(e)
    <3>. PICK e \in Events : Deliver(e)
      BY <2>1
    <3>1. [event |-> e, stamp |-> now, key |-> key] \in Delivery
      BY <1>2 DEF TypesOK, Delivery
    <3>. QED
      BY <1>1, <1>2, <3>1 DEF Deliver, TypesOK
  <2>2. CASE \E s \in Sandboxes : ReadCreds(s)
    BY <1>1, <1>2, <2>2 DEF ReadCreds, TypesOK, lark
  <2>3. CASE \E s \in Sandboxes : Recycle(s)
    BY <1>1, <1>2, <2>3 DEF Recycle, TypesOK, lark, NoToken
  <2>4. CASE Rotate
    BY <1>1, <1>2, <2>4 DEF Rotate, TypesOK
  <2>5. CASE Tick
    BY <1>1, <1>2, <2>5 DEF Tick, TypesOK, lark
  <2>6. CASE UNCHANGED vars
    BY <1>1, <1>2, <2>6 DEF vars, TypesOK, lark
  <2>. QED
    BY <2>1, <2>2, <2>3, <2>4, <2>5, <2>6 DEF Quiet
<1>4. TypeOK'
  BY <1>1, <1>3 DEF TypeInv, TypeOK, TypesOK
<1>. QED
  BY <1>1, <1>4 DEF TypeInv, OneTaskPerRun, RunOf, At

LEMMA GoesOnType ==
  ASSUME TypeInv, NEW s \in Sandboxes, GoesOn(s)
  PROVE  TypeInv'
<1>1. PICK pc \in Processing, n \in {0, 1} :
        /\ Goto(s, pc) /\ runs' = [runs EXCEPT ![task[s].run] = Turned(s, n)]
        /\ pc = "sent" => RunOf(s).event \in answered'
  BY DEF GoesOn
<1>2. /\ Turned(s, n) \in Run /\ Turned(s, n).state = "running"
      /\ Turned(s, n).event = RunOf(s).event
  BY RunChanges DEF GoesOn
<1>. QED
  BY <1>1, <1>2, GoOnType DEF GoesOn, lark

LEMMA EndsType ==
  ASSUME TypeInv, NEW s \in Sandboxes, Ends(s)
  PROVE  TypeInv'
BY ConcludeType DEF Ends, lark

\* The webhook in a sandbox ends there: Reject, Ack, or Crash.
LEMMA HookEndsType ==
  ASSUME TypeInv, NEW s \in Sandboxes,
         Reject(s) \/ Ack(s) \/ (task[s].pc \notin Processing /\ Crash(s))
  PROVE  /\ TypeInv' /\ task[s].pc \notin Processing /\ Leave(s)
         /\ UNCHANGED <<now, inflight, runs, tenant, answered, lost>>
         /\ Ack(s) \/ acked' = acked
<1>1. task[s].pc \notin Processing
  BY DEF Reject, Ack, At, Processing
<1>2. /\ Leave(s)
      /\ UNCHANGED <<now, lark, inflight, runs, creds, tenant, answered, lost>>
      /\ Ack(s) \/ acked' = acked
  BY <1>1 DEF Reject, Ack, Crash, TypeInv
<1>3. acked' \subseteq Events
  <2>1. acked \subseteq Events
    BY DEF TypeInv, TypeOK
  <2>2. ASSUME Ack(s)
        PROVE  task[s].pc = "ack" /\ acked' = acked \cup {Hook(s).event}
    BY <2>2 DEF Ack, At
  <2>. QED
    BY <1>2, <2>1, <2>2, HookFacts
<1>. QED
  BY <1>1, <1>2, <1>3, LeaveHookType DEF lark

\* The webhook in a sandbox is verified: Dispatch or DispatchFails.
LEMMA HookGoesType ==
  ASSUME TypeInv, NEW s \in Sandboxes, Dispatch(s) \/ DispatchFails(s)
  PROVE  /\ TypeInv' /\ At(s, "verify") /\ Goto(s, "ack")
         /\ runs' = runs \/ runs' = Append(runs, NewRun(Hook(s)))
         /\ UNCHANGED <<now, inflight, acked, tenant, answered>>
<1>1. /\ At(s, "verify") /\ Goto(s, "ack")
      /\ runs' = runs \/ runs' = Append(runs, NewRun(Hook(s)))
      /\ UNCHANGED <<now, lark, inflight, acked, creds, tenant, answered>>
  BY DEF Dispatch, DispatchFails
<1>2. lost' \subseteq Events
  <2>1. lost \subseteq Events /\ task[s].pc = "verify"
    BY <1>1 DEF TypeInv, TypeOK, At
  <2>2. Hook(s).event \in Events
    BY <2>1, HookFacts
  <2>. QED
    BY <2>1, <2>2 DEF Dispatch, DispatchFails
<1>. QED
  BY <1>1, <1>2, AckHookType DEF lark

\* The steps that may end an invocation that processes an event.
Finishes(s) ==
  \/ DecryptFails(s) \/ AgentSilent(s) \/ GetToken(s) \/ Post(s) \/ Return(s)
  \/ Crash(s)

\* What a step of the system can be.
LEMMA StepCases ==
  ASSUME TypeInv, [Next]_vars
  PROVE  \/ Quiet
         \/ \E s \in Sandboxes :
              \/ \E h \in inflight : Receive(s, h)
              \/ Reject(s) \/ Ack(s)
              \/ task[s].pc \notin Processing /\ Crash(s)
              \/ Dispatch(s) \/ DispatchFails(s)
              \/ \E i \in DOMAIN runs : Start(s, i)
              \/ GoesOn(s) /\ (GetToken(s) \/ (tenant' = tenant /\ ~Goto(s, "post")))
              \/ Ends(s) /\ Finishes(s)
<1>1. CASE UNCHANGED vars
  BY <1>1 DEF Quiet
<1>2. CASE Next
  <2>1. CASE \/ \E e \in Events : Deliver(e)
             \/ Rotate \/ Tick
             \/ \E s \in Sandboxes : ReadCreds(s) \/ Recycle(s)
    BY <2>1 DEF Quiet
  <2>2. ASSUME NEW s \in Sandboxes, Read(s) \/ Agent(s) \/ AgentFails(s)
        PROVE  GoesOn(s) /\ tenant' = tenant /\ ~Goto(s, "post")
    <3>1. GoesOn(s) /\ tenant' = tenant
      BY <2>2, ReadGoesOn, AgentGoesOn DEF Read, Agent, AgentFails
    <3>2. PICK pc \in {"agent", "token"} : Goto(s, pc)
      BY <2>2 DEF Read, Agent, AgentFails
    <3>3. task'[s].pc = pc
      BY <3>2, GotoFacts DEF TypeInv, Processing
    <3>4. Goto(s, "post") => task'[s].pc = "post"
      BY GotoFacts DEF TypeInv, Processing
    <3>. QED
      BY <3>1, <3>3, <3>4
  <2>3. ASSUME NEW s \in Sandboxes,
               \/ DecryptFails(s) \/ AgentSilent(s) \/ Return(s)
               \/ task[s].pc \in Processing /\ Crash(s)
        PROVE  Ends(s) /\ Finishes(s)
    BY <2>3, DecryptFailsEnds, AgentSilentEnds, ReturnEnds, CrashEnds
       DEF Finishes
  <2>4. ASSUME NEW s \in Sandboxes, GetToken(s)
        PROVE  GoesOn(s) \/ (Ends(s) /\ Finishes(s))
    BY <2>4, GetTokenCases DEF Finishes
  <2>5. ASSUME NEW s \in Sandboxes, Post(s)
        PROVE  \/ GoesOn(s) /\ tenant' = tenant /\ ~Goto(s, "post")
               \/ Ends(s) /\ Finishes(s)
    BY <2>5, PostCases DEF Finishes
  <2>. QED
    BY <1>2, <2>1, <2>2, <2>3, <2>4, <2>5 DEF Next, Work
<1>. QED
  BY <1>1, <1>2

LEMMA StepType == TypeInv /\ [Next]_vars => TypeInv'
BY StepCases, QuietFacts, ReceiveType, HookEndsType, HookGoesType, StartType,
   GoesOnType, EndsType

\* Every reachable state keeps to its types; a sandbox that processes an event
\* has a run of its own, which is marked as running (router/index.py:154-159).
THEOREM TypeCorrectness == Spec => []TypeOK
<1>1. Spec => []TypeInv
  BY InitType, StepType, PTL DEF Spec
<1>2. TypeInv => TypeOK
  BY DEF TypeInv
<1>. QED
  BY <1>1, <1>2, PTL

-----------------------------------------------------------------------------
(* What a step does to the runs and to the other sandboxes                 *)

LEMMA RunTypes ==
  ASSUME TypeInv, NEW i \in DOMAIN runs
  PROVE  /\ runs[i] \in Run /\ runs[i].turns \in Nat
         /\ runs[i].left \in 0..Retries /\ runs[i].event \in Events
<1>. PICK r \in Run : r = runs[i]
  BY DEF TypeInv, TypeOK
<1>. QED
  BY DEF Run

LEMMA GoesOnFacts ==
  ASSUME TypeInv, NEW s \in Sandboxes, GoesOn(s)
  PROVE  /\ task[s].run \in DOMAIN runs /\ DOMAIN runs' = DOMAIN runs
         /\ task'[s].run = task[s].run /\ task'[s].pc \in Processing
         /\ task'[s].due = task[s].due
         /\ \A j \in DOMAIN runs \ {task[s].run} : runs'[j] = runs[j]
         /\ \A q \in Sandboxes \ {s} : task'[q] = task[q]
         /\ runs'[task[s].run].state = "running"
         /\ runs'[task[s].run].event = RunOf(s).event
         /\ runs'[task[s].run].left = RunOf(s).left
         /\ runs'[task[s].run].key = RunOf(s).key
         /\ \E n \in {0, 1} :
              /\ runs'[task[s].run].turns = RunOf(s).turns + n
              /\ n = 1 => At(s, "agent")
         /\ task'[s].pc \in {"decrypt", "agent"} => At(s, "decrypt")
<1>1. PICK pc \in Processing, n \in {0, 1} :
        /\ Goto(s, pc) /\ runs' = [runs EXCEPT ![task[s].run] = Turned(s, n)]
        /\ n = 1 => At(s, "agent")
        /\ pc # "decrypt" /\ (pc = "agent" => At(s, "decrypt"))
  BY DEF GoesOn
<1>2. /\ Turned(s, n) \in Run /\ Turned(s, n).state = "running"
      /\ Turned(s, n).turns = RunOf(s).turns + n
      /\ Turned(s, n).left = RunOf(s).left /\ Turned(s, n).key = RunOf(s).key
      /\ Turned(s, n).event = RunOf(s).event
  BY RunChanges DEF GoesOn
<1>. PICK i \in DOMAIN runs : i = task[s].run
  BY TaskRunFacts DEF GoesOn
<1>3. /\ DOMAIN runs' = DOMAIN runs /\ runs'[i] = Turned(s, n)
      /\ \A j \in DOMAIN runs \ {i} : runs'[j] = runs[j]
  BY <1>1, <1>2, RunFacts DEF TypeInv
<1>4. /\ task'[s].pc = pc /\ task'[s].run = task[s].run
      /\ task'[s].due = task[s].due
      /\ \A q \in Sandboxes \ {s} : task'[q] = task[q]
  BY <1>1, GotoFacts DEF TypeInv
<1>. QED
  BY <1>1, <1>2, <1>3, <1>4

LEMMA EndsFacts ==
  ASSUME TypeInv, NEW s \in Sandboxes, Ends(s)
  PROVE  /\ task[s].run \in DOMAIN runs /\ DOMAIN runs' = DOMAIN runs
         /\ task'[s] = IdleTask
         /\ \A j \in DOMAIN runs \ {task[s].run} : runs'[j] = runs[j]
         /\ \A q \in Sandboxes \ {s} : task'[q] = task[q]
         /\ runs'[task[s].run].event = RunOf(s).event
         /\ runs'[task[s].run].state = "over" =>
              RunOf(s).event \in answered' \cup lost'
         /\ runs'[task[s].run].key = RunOf(s).key
         /\ runs'[task[s].run] \in Run
         /\ runs'[task[s].run].turns <=
              RunOf(s).turns + (IF At(s, "agent") THEN 1 ELSE 0)
<1>1. PICK r \in Run :
       /\ runs' = [runs EXCEPT ![task[s].run] = r]
       /\ r.event = RunOf(s).event
       /\ r.state = "over" => r.event \in answered' \cup lost'
       /\ r.key = RunOf(s).key
       /\ r.turns <= RunOf(s).turns + (IF At(s, "agent") THEN 1 ELSE 0)
  BY DEF Ends
<1>. PICK i \in DOMAIN runs : i = task[s].run
  BY TaskRunFacts DEF Ends
<1>2. /\ DOMAIN runs' = DOMAIN runs /\ runs'[i] = r
      /\ \A j \in DOMAIN runs \ {i} : runs'[j] = runs[j]
  BY <1>1, RunFacts DEF TypeInv
<1>3. /\ task'[s] = IdleTask
      /\ \A q \in Sandboxes \ {s} : task'[q] = task[q]
  BY LeaveFacts DEF TypeInv, Ends
<1>. QED
  BY <1>1, <1>2, <1>3

LEMMA StartFacts ==
  ASSUME TypeInv, NEW s \in Sandboxes, NEW i \in DOMAIN runs, Start(s, i)
  PROVE  /\ DOMAIN runs' = DOMAIN runs /\ runs[i].state = "queued"
         /\ \A j \in DOMAIN runs \ {i} : runs'[j] = runs[j]
         /\ runs'[i].event = runs[i].event /\ runs'[i].state = "running"
         /\ runs'[i].turns = 0 /\ runs'[i].key = runs[i].key
         /\ runs'[i].left = runs[i].left
         /\ task'[s].pc = "decrypt" /\ task'[s].run = i
         /\ task'[s].due = now + Timeout
         /\ \A q \in Sandboxes \ {s} : task'[q] = task[q]
         /\ \A q \in Sandboxes : task[q].pc \in Processing => task[q].run # i
<1>1. runs \in Seq(Run) /\ task \in [Sandboxes -> Task]
  BY DEF TypeInv, TypeOK
<1>. PICK w \in Run : w = runs[i]
  BY <1>1
<1>2. runs' = [runs EXCEPT ![i] = [w EXCEPT !.state = "running", !.turns = 0]]
  BY <1>1 DEF Start
<1>3. /\ DOMAIN runs' = DOMAIN runs /\ runs[i].state = "queued"
      /\ \A j \in DOMAIN runs \ {i} : runs'[j] = runs[j]
      /\ runs'[i] = [w EXCEPT !.state = "running", !.turns = 0]
  BY <1>1, <1>2 DEF Start
<1>4. /\ task'[s].pc = "decrypt" /\ task'[s].run = i
      /\ task'[s].due = now + Timeout
      /\ \A q \in Sandboxes \ {s} : task'[q] = task[q]
  BY <1>1 DEF Start
<1>5. \A q \in Sandboxes : task[q].pc \in Processing => task[q].run # i
  BY <1>3 DEF TypeInv, TypeOK
<1>. QED
  BY <1>3, <1>4, <1>5 DEF Run

\* A webhook's step leaves the runs there are, and who processes them.
LEMMA HookFrame ==
  ASSUME TypeInv, NEW s \in Sandboxes,
         \/ \E h \in inflight : Receive(s, h)
         \/ Reject(s) \/ Ack(s) \/ (task[s].pc \notin Processing /\ Crash(s))
         \/ Dispatch(s) \/ DispatchFails(s)
  PROVE  /\ \A i \in DOMAIN runs : i \in DOMAIN runs' /\ runs'[i] = runs[i]
         /\ \A i \in DOMAIN runs' \ DOMAIN runs : runs'[i].turns = 0
         /\ task'[s].pc \notin Processing
         /\ \A q \in Sandboxes \ {s} : task'[q] = task[q]
<1>1. runs \in Seq(Run) /\ task \in [Sandboxes -> Task]
  BY DEF TypeInv, TypeOK
<1>2. CASE \E h \in inflight : Receive(s, h)
  BY <1>1, <1>2 DEF Receive, Processing
<1>3. CASE Reject(s) \/ Ack(s) \/ (task[s].pc \notin Processing /\ Crash(s))
  BY <1>1, <1>3, HookEndsType, LeaveFacts, IdleTaskFacts DEF TypeInv
<1>4. CASE Dispatch(s) \/ DispatchFails(s)
  <2>1. /\ Goto(s, "ack") /\ task[s].pc = "verify"
        /\ runs' = runs \/ runs' = Append(runs, NewRun(Hook(s)))
    BY <1>4, HookGoesType DEF At
  <2>2. /\ task'[s].pc = "ack" /\ "ack" \notin Processing
        /\ \A q \in Sandboxes \ {s} : task'[q] = task[q]
    BY <2>1, GotoFacts DEF TypeInv, Processing
  <2>3. CASE runs' = runs
    BY <2>2, <2>3
  <2>4. CASE runs' = Append(runs, NewRun(Hook(s)))
    <3>1. NewRun(Hook(s)) \in Run
      BY <2>1, HookFacts, Constants DEF NewRun, Run
    <3>2. /\ DOMAIN runs' = 1..Len(runs) + 1 /\ DOMAIN runs = 1..Len(runs)
          /\ Len(runs) \in Nat /\ runs'[Len(runs) + 1] = NewRun(Hook(s))
          /\ \A i \in DOMAIN runs : runs'[i] = runs[i]
      BY <1>1, <2>4, <3>1
    <3>3. \A i \in DOMAIN runs' \ DOMAIN runs : i = Len(runs) + 1
      BY <3>2
    <3>4. NewRun(Hook(s)).turns = 0
      BY DEF NewRun
    <3>. QED
      BY <2>2, <3>2, <3>3, <3>4
  <2>. QED
    BY <2>1, <2>3, <2>4
<1>. QED
  BY <1>2, <1>3, <1>4

-----------------------------------------------------------------------------
(* One turn for each start                                                 *)

LEMMA InitTurn == Init => TurnInv
BY IdleTaskFacts DEF Init, TurnInv, TurnPerStart, Processing

LEMMA GoesOnTurn ==
  ASSUME TypeInv, TurnInv, NEW s \in Sandboxes, GoesOn(s)
  PROVE  TurnInv'
<1>. PICK i \in DOMAIN runs : i = task[s].run
  BY GoesOnFacts
<1>1. PICK n \in {0, 1} :
        /\ runs'[i].turns = runs[i].turns + n
        /\ n = 1 => At(s, "agent")
  BY GoesOnFacts DEF RunOf
<1>2. runs[i].turns \in Nat
  BY RunTypes
<1>3. /\ runs[i].turns <= 1
      /\ At(s, "decrypt") \/ At(s, "agent") => runs[i].turns = 0
  BY DEF TurnInv, TurnPerStart, RunOf, At
<1>4. TurnPerStart'
  BY <1>1, <1>2, <1>3, GoesOnFacts DEF TurnInv, TurnPerStart
<1>5. ASSUME NEW q \in Sandboxes, task'[q].pc \in {"decrypt", "agent"}
      PROVE  RunOf(q).turns' = 0
  <2>1. CASE q = s
    <3>1. At(s, "decrypt") /\ n = 0 /\ task'[s].run = i
      BY <1>1, <1>5, <2>1, GoesOnFacts DEF At
    <3>. QED
      BY <1>1, <1>2, <1>3, <2>1, <3>1 DEF RunOf
  <2>2. CASE q # s
    <3>1. task'[q] = task[q] /\ task[q].pc \in {"decrypt", "agent"}
      BY <1>5, <2>2, GoesOnFacts
    <3>2. task[q].run \in DOMAIN runs \ {i}
      BY <2>2, <3>1, TaskRunFacts DEF TypeInv, OneTaskPerRun, GoesOn, Processing
    <3>. QED
      BY <3>1, <3>2, GoesOnFacts DEF TurnInv, RunOf
  <2>. QED
    BY <2>1, <2>2
<1>. QED
  BY <1>4, <1>5 DEF TurnInv

LEMMA EndsTurn ==
  ASSUME TypeInv, TurnInv, NEW s \in Sandboxes, Ends(s)
  PROVE  TurnInv'
<1>. PICK i \in DOMAIN runs : i = task[s].run
  BY EndsFacts
<1>1. /\ runs'[i].turns <= runs[i].turns + (IF At(s, "agent") THEN 1 ELSE 0)
      /\ runs'[i].turns \in Nat
  BY EndsFacts DEF RunOf, Run
<1>2. runs[i].turns \in Nat
  BY RunTypes
<1>3. /\ runs[i].turns <= 1
      /\ At(s, "agent") => runs[i].turns = 0
  BY DEF TurnInv, TurnPerStart, RunOf, At
<1>4. TurnPerStart'
  BY <1>1, <1>2, <1>3, EndsFacts DEF TurnInv, TurnPerStart
<1>5. ASSUME NEW q \in Sandboxes, task'[q].pc \in {"decrypt", "agent"}
      PROVE  RunOf(q).turns' = 0
  <2>1. q # s /\ task'[q] = task[q] /\ task[q].pc \in {"decrypt", "agent"}
    BY <1>5, EndsFacts, IdleTaskFacts
  <2>2. task[q].run \in DOMAIN runs \ {i}
    BY <2>1, TaskRunFacts DEF TypeInv, OneTaskPerRun, Ends, Processing
  <2>. QED
    BY <2>1, <2>2, EndsFacts DEF TurnInv, RunOf
<1>. QED
  BY <1>4, <1>5 DEF TurnInv

LEMMA StartTurn ==
  ASSUME TypeInv, TurnInv, NEW s \in Sandboxes, NEW i \in DOMAIN runs,
         Start(s, i)
  PROVE  TurnInv'
<1>1. runs'[i].turns = 0
  BY StartFacts
<1>2. TurnPerStart'
  BY <1>1, StartFacts DEF TurnInv, TurnPerStart
<1>3. ASSUME NEW q \in Sandboxes, task'[q].pc \in {"decrypt", "agent"}
      PROVE  RunOf(q).turns' = 0
  <2>1. CASE q = s
    BY <1>1, <2>1, StartFacts DEF RunOf
  <2>2. CASE q # s
    <3>1. task'[q] = task[q] /\ task[q].pc \in {"decrypt", "agent"}
      BY <1>3, <2>2, StartFacts
    <3>2. task[q].run \in DOMAIN runs \ {i}
      BY <3>1, TaskRunFacts, StartFacts DEF Processing
    <3>. QED
      BY <3>1, <3>2, StartFacts DEF TurnInv, RunOf
  <2>. QED
    BY <2>1, <2>2
<1>. QED
  BY <1>2, <1>3 DEF TurnInv

LEMMA HookTurn ==
  ASSUME TypeInv, TurnInv, NEW s \in Sandboxes,
         \/ \E h \in inflight : Receive(s, h)
         \/ Reject(s) \/ Ack(s) \/ (task[s].pc \notin Processing /\ Crash(s))
         \/ Dispatch(s) \/ DispatchFails(s)
  PROVE  TurnInv'
<1>1. /\ \A i \in DOMAIN runs : i \in DOMAIN runs' /\ runs'[i] = runs[i]
      /\ \A i \in DOMAIN runs' \ DOMAIN runs : runs'[i].turns = 0
      /\ task'[s].pc \notin Processing
      /\ \A q \in Sandboxes \ {s} : task'[q] = task[q]
  BY HookFrame
<1>2. TurnPerStart'
  BY <1>1 DEF TurnInv, TurnPerStart
<1>3. ASSUME NEW q \in Sandboxes, task'[q].pc \in {"decrypt", "agent"}
      PROVE  RunOf(q).turns' = 0
  <2>1. task'[q] = task[q] /\ task[q].pc \in {"decrypt", "agent"}
    BY <1>1, <1>3 DEF Processing
  <2>2. task[q].run \in DOMAIN runs
    BY <2>1, TaskRunFacts DEF Processing
  <2>. QED
    BY <1>1, <2>1, <2>2 DEF TurnInv, RunOf
<1>. QED
  BY <1>2, <1>3 DEF TurnInv

LEMMA StepTurn == TypeInv /\ TurnInv /\ [Next]_vars => TurnInv'
<1>. SUFFICES ASSUME TypeInv, TurnInv, [Next]_vars
              PROVE  TurnInv'
  OBVIOUS
<1>1. CASE Quiet
  BY <1>1, QuietFacts DEF TurnInv, TurnPerStart, RunOf
<1>. QED
  BY <1>1, StepCases, HookTurn, StartTurn, GoesOnTurn, EndsTurn

\* The agent takes at most one turn each time an invocation is started, for any
\* number of sandboxes, deliveries, retries and faults (router/index.py:38-42,
\* 137-141).
THEOREM OneTurnPerStart == Spec => []TurnPerStart
<1>1. Spec => [](TypeInv /\ TurnInv)
  BY InitType, StepType, InitTurn, StepTurn, PTL DEF Spec
<1>2. TurnInv => TurnPerStart
  BY DEF TurnInv
<1>. QED
  BY <1>1, <1>2, PTL

-----------------------------------------------------------------------------
(* What has been acknowledged is accounted for                             *)

LEMMA InitAck == Init => AckInv
BY IdleTaskFacts DEF Init, AckInv, AckedAccounted, At

\* No step makes an event unaccounted for; only Ack acknowledges one; a webhook
\* that is about to be acknowledged was so before, or has just been dispatched.
LEMMA AckFrame ==
  ASSUME TypeInv, AckInv,
         \A e \in Events : Accounted(e) => Accounted(e)',
         \A e \in acked' \ acked : e \in Events /\ Accounted(e),
         \A q \in Sandboxes : task'[q].pc = "ack" =>
           /\ task'[q].hook = task[q].hook
           /\ \/ task[q].pc = "ack"
              \/ \E e \in Events : e = Hook(q).event /\ Accounted(e)'
  PROVE  AckInv'
<1>1. ASSUME NEW e \in acked'
      PROVE  Accounted(e)'
  BY <1>1 DEF AckInv, AckedAccounted, TypeInv, TypeOK
<1>2. ASSUME NEW q \in Sandboxes, task'[q].pc = "ack"
      PROVE  \E e \in Events : Hook(q)'.event = e /\ Accounted(e)'
  <2>1. Hook(q)' = Hook(q)
    BY <1>2 DEF Hook
  <2>2. CASE task[q].pc = "ack"
    BY <2>1, <2>2, HookFacts DEF AckInv, At
  <2>3. CASE \E e \in Events : e = Hook(q).event /\ Accounted(e)'
    BY <2>1, <2>3
  <2>. QED
    BY <1>2, <2>2, <2>3
<1>3. \A q \in Sandboxes : task'[q].pc = "ack" => Accounted(Hook(q).event)'
  BY <1>2 DEF Accounted
<1>. QED
  BY <1>1, <1>3 DEF AckInv, AckedAccounted, At

\* An event stays accounted for while its runs are kept or end as Ends says.
LEMMA AccountedKept ==
  ASSUME TypeInv, answered \subseteq answered', lost \subseteq lost',
         \A i \in DOMAIN runs :
           /\ i \in DOMAIN runs' /\ runs'[i].event = runs[i].event
           /\ runs[i].state # "over" =>
                runs'[i].state # "over" \/ runs[i].event \in answered' \cup lost'
  PROVE  \A e \in Events : Accounted(e) => Accounted(e)'
BY DEF Accounted

LEMMA HookAck ==
  ASSUME TypeInv, AckInv, NEW s \in Sandboxes,
         \/ \E h \in inflight : Receive(s, h)
         \/ Reject(s) \/ Ack(s) \/ (task[s].pc \notin Processing /\ Crash(s))
         \/ Dispatch(s) \/ DispatchFails(s)
  PROVE  AckInv'
<1>1. /\ \A i \in DOMAIN runs : i \in DOMAIN runs' /\ runs'[i] = runs[i]
      /\ \A q \in Sandboxes \ {s} : task'[q] = task[q]
  BY HookFrame
<1>2. CASE \E h \in inflight : Receive(s, h)
  <2>1. UNCHANGED <<acked, answered, lost>> /\ task'[s].pc = "verify"
    BY <1>2 DEF Receive, TypeInv, TypeOK
  <2>2. \A e \in Events : Accounted(e) => Accounted(e)'
    BY <1>1, <2>1, AccountedKept
  <2>. QED
    BY <1>1, <2>1, <2>2, AckFrame
<1>3. CASE Reject(s) \/ Ack(s) \/ (task[s].pc \notin Processing /\ Crash(s))
  <2>1. /\ UNCHANGED <<answered, lost>> /\ task'[s].pc = "idle"
        /\ Ack(s) \/ acked' = acked
    BY <1>3, HookEndsType, LeaveFacts, IdleTaskFacts DEF TypeInv
  <2>2. \A e \in Events : Accounted(e) => Accounted(e)'
    BY <1>1, <2>1, AccountedKept
  <2>3. ASSUME NEW e \in acked' \ acked
        PROVE  e \in Events /\ Accounted(e)
    <3>1. task[s].pc = "ack" /\ e = Hook(s).event
      BY <2>1, <2>3 DEF Ack, At
    <3>. QED
      BY <3>1, HookFacts DEF AckInv, At
  <2>. QED
    BY <1>1, <2>1, <2>2, <2>3, AckFrame
<1>4. CASE Dispatch(s) \/ DispatchFails(s)
  <2>1. /\ task[s].pc = "verify" /\ Goto(s, "ack")
        /\ UNCHANGED <<acked, answered>>
    BY <1>4, HookGoesType DEF At
  <2>2. lost \subseteq lost'
    BY <1>4 DEF Dispatch, DispatchFails
  <2>3. \A e \in Events : Accounted(e) => Accounted(e)'
    BY <1>1, <2>1, <2>2, AccountedKept
  <2>4. task'[s].hook = task[s].hook
    BY <2>1, GotoFacts DEF TypeInv
  <2>5. \E e \in Events : e = Hook(s).event /\ Accounted(e)'
    <3>1. PICK e \in Events : e = Hook(s).event
      BY <2>1, HookFacts
    <3>2. CASE Dispatch(s)
      <4>1. runs' = Append(runs, NewRun(Hook(s)))
        BY <3>2 DEF Dispatch
      <4>2. NewRun(Hook(s)) \in Run
        BY <2>1, HookFacts, Constants DEF NewRun, Run
      <4>3. /\ Len(runs) + 1 \in DOMAIN runs'
            /\ runs'[Len(runs) + 1] = NewRun(Hook(s))
        BY <4>1, <4>2 DEF TypeInv, TypeOK
      <4>4. NewRun(Hook(s)).event = e /\ NewRun(Hook(s)).state # "over"
        BY <3>1 DEF NewRun
      <4>. QED
        BY <3>1, <4>3, <4>4 DEF Accounted
    <3>3. CASE DispatchFails(s)
      BY <3>1, <3>3 DEF DispatchFails, Accounted
    <3>. QED
      BY <1>4, <3>2, <3>3
  <2>. QED
    BY <1>1, <2>1, <2>3, <2>4, <2>5, AckFrame
<1>. QED
  BY <1>2, <1>3, <1>4

\* A step of an invocation that processes an event, or its start.
LEMMA RunAck ==
  ASSUME TypeInv, AckInv, NEW s \in Sandboxes,
         (\E i \in DOMAIN runs : Start(s, i)) \/ GoesOn(s) \/ Ends(s)
  PROVE  AckInv'
<1>1. CASE \E i \in DOMAIN runs : Start(s, i)
  <2>. PICK i \in DOMAIN runs : Start(s, i)
    BY <1>1
  <2>1. UNCHANGED <<acked, answered, lost>> /\ task'[s].pc # "ack"
    BY StartFacts DEF Start
  <2>2. \A e \in Events : Accounted(e) => Accounted(e)'
    BY <2>1, StartFacts, AccountedKept
  <2>. QED
    BY <2>1, <2>2, StartFacts, AckFrame
<1>2. CASE GoesOn(s)
  <2>1. /\ UNCHANGED <<acked, lost>> /\ task'[s].pc # "ack"
        /\ answered \subseteq answered'
    BY <1>2, GoesOnFacts DEF GoesOn, Processing
  <2>2. \A e \in Events : Accounted(e) => Accounted(e)'
    BY <1>2, <2>1, GoesOnFacts, AccountedKept DEF RunOf
  <2>. QED
    BY <1>2, <2>1, <2>2, GoesOnFacts, AckFrame
<1>3. CASE Ends(s)
  <2>1. /\ acked' = acked /\ answered \subseteq answered' /\ lost \subseteq lost'
        /\ task'[s].pc # "ack"
    BY <1>3, EndsFacts, IdleTaskFacts DEF Ends
  <2>2. \A e \in Events : Accounted(e) => Accounted(e)'
    BY <1>3, <2>1, EndsFacts, AccountedKept DEF RunOf
  <2>. QED
    BY <1>3, <2>1, <2>2, EndsFacts, AckFrame
<1>. QED
  BY <1>1, <1>2, <1>3

LEMMA StepAck == TypeInv /\ AckInv /\ [Next]_vars => AckInv'
<1>. SUFFICES ASSUME TypeInv, AckInv, [Next]_vars
              PROVE  AckInv'
  OBVIOUS
<1>1. CASE Quiet
  <2>1. UNCHANGED <<acked, runs, task, answered, lost>>
    BY <1>1, QuietFacts
  <2>2. \A e \in Events : Accounted(e) => Accounted(e)'
    BY <2>1, AccountedKept
  <2>. QED
    BY <2>1, <2>2, AckFrame
<1>. QED
  BY <1>1, StepCases, HookAck, RunAck

\* What Lark has been told 200 for is answered, queued, under way or was hit by
\* a fault, for any number of sandboxes, deliveries and retries, and for every
\* choice of the faults (router/index.py:187-202).
THEOREM AcknowledgedAccounted == Spec => []AckedAccounted
<1>1. Spec => [](TypeInv /\ AckInv)
  BY InitType, StepType, InitAck, StepAck, PTL DEF Spec
<1>2. AckInv => AckedAccounted
  BY DEF AckInv
<1>. QED
  BY <1>1, <1>2, PTL

-----------------------------------------------------------------------------
(* A message is sent with a token that works                               *)

LEMMA InitTime == Init => TimeInv
<1>. SUFFICES ASSUME Init, NEW s \in Sandboxes
              PROVE  At(s, "idle") /\ tenant[s].exp = 0
  BY DEF TimeInv, At
<1>. QED
  BY IdleTaskFacts DEF Init, At, NoToken

\* TimeInv of one sandbox.
Timely(q) ==
  /\ ~At(q, "idle") => now <= task[q].due /\ task[q].due <= now + Timeout
  /\ tenant[q].exp = 0 \/ tenant[q].live = tenant[q].exp - Timeout
  /\ At(q, "post") => task[q].due < tenant[q].live

\* A step of one sandbox concerns that sandbox alone.
LEMMA TimeFrame ==
  ASSUME TypeInv, TimeInv, NEW s \in Sandboxes, now' = now,
         \A q \in Sandboxes \ {s} : task'[q] = task[q] /\ tenant'[q] = tenant[q],
         Timely(s)'
  PROVE  TimeInv'
BY DEF TimeInv, Timely, At

LEMMA QuietTime ==
  ASSUME TypeInv, TimeInv, Quiet
  PROVE  TimeInv'
<1>1. task' = task /\ now \in Nat /\ Timeout \in Nat
  BY QuietFacts, Constants DEF TypeInv, TypeOK
<1>2. \A q \in Sandboxes : task[q] \in Task /\ task[q].due \in Nat
  BY DEF TypeInv, TypeOK, Task
<1>3. CASE Tick
  <2>1. now' = now + 1 /\ tenant' = tenant
    BY <1>3 DEF Tick
  <2>2. \A q \in Sandboxes : At(q, "idle") \/ now < task[q].due
    BY <1>3 DEF Tick
  <2>. QED
    BY <1>1, <1>2, <2>1, <2>2 DEF TimeInv, At
<1>4. CASE \E s \in Sandboxes : Recycle(s)
  <2>. PICK s \in Sandboxes : Recycle(s)
    BY <1>4
  <2>1. now' = now /\ At(s, "idle") /\ tenant'[s].exp = 0
    BY DEF Recycle, NoToken, TypeInv, TypeOK
  <2>2. \A q \in Sandboxes \ {s} : tenant'[q] = tenant[q]
    BY DEF Recycle, TypeInv, TypeOK
  <2>3. Timely(s)'
    BY <1>1, <2>1 DEF Timely, At
  <2>. QED
    BY <1>1, <2>1, <2>2, <2>3, TimeFrame
<1>5. CASE now' = now /\ tenant' = tenant
  BY <1>1, <1>5 DEF TimeInv, At
<1>6. Tick \/ (\E s \in Sandboxes : Recycle(s)) \/ (now' = now /\ tenant' = tenant)
  BY DEF Quiet, Deliver, ReadCreds, Rotate, vars
<1>. QED
  BY <1>3, <1>4, <1>5, <1>6

\* An invocation that has just begun, or has ended.
LEMMA BeginTime ==
  ASSUME TypeInv, TimeInv, NEW s \in Sandboxes, now' = now, tenant' = tenant,
         \A q \in Sandboxes \ {s} : task'[q] = task[q],
         \/ task'[s].pc = "idle"
         \/ task'[s].pc # "post" /\ task'[s].due = now + Timeout
         \/ /\ task[s].pc # "idle" /\ task'[s].pc # "post"
            /\ task'[s].due = task[s].due
  PROVE  TimeInv'
<1>1. now \in Nat /\ Timeout \in Nat
  BY Constants DEF TypeInv, TypeOK
<1>2. Timely(s)
  BY DEF TimeInv, Timely
<1>3. Timely(s)'
  BY <1>1, <1>2 DEF Timely, At
<1>. QED
  BY <1>3, TimeFrame

LEMMA HookTime ==
  ASSUME TypeInv, TimeInv, NEW s \in Sandboxes,
         \/ \E h \in inflight : Receive(s, h)
         \/ Reject(s) \/ Ack(s) \/ (task[s].pc \notin Processing /\ Crash(s))
         \/ Dispatch(s) \/ DispatchFails(s)
  PROVE  TimeInv'
<1>1. \A q \in Sandboxes \ {s} : task'[q] = task[q]
  BY HookFrame
<1>2. CASE \E h \in inflight : Receive(s, h)
  <2>1. /\ UNCHANGED <<now, tenant>>
        /\ task'[s].pc = "verify" /\ task'[s].due = now + Timeout
    BY <1>2 DEF Receive, TypeInv, TypeOK
  <2>. QED
    BY <1>1, <2>1, BeginTime
<1>3. CASE Reject(s) \/ Ack(s) \/ (task[s].pc \notin Processing /\ Crash(s))
  <2>1. UNCHANGED <<now, tenant>> /\ task'[s].pc = "idle"
    BY <1>3, HookEndsType, LeaveFacts, IdleTaskFacts DEF TypeInv
  <2>. QED
    BY <1>1, <2>1, BeginTime
<1>4. CASE Dispatch(s) \/ DispatchFails(s)
  <2>1. task[s].pc = "verify" /\ Goto(s, "ack") /\ UNCHANGED <<now, tenant>>
    BY <1>4, HookGoesType DEF At
  <2>2. task'[s].pc = "ack" /\ task'[s].due = task[s].due
    BY <2>1, GotoFacts DEF TypeInv
  <2>. QED
    BY <1>1, <2>1, <2>2, BeginTime
<1>. QED
  BY <1>2, <1>3, <1>4

\* The token that an invocation goes to send its message with, just fetched or
\* from the cache, outlives the invocation.
LEMMA GetTokenTime ==
  ASSUME TypeInv, TimeInv, NEW s \in Sandboxes, GetToken(s), Goto(s, "post")
  PROVE  TimeInv'
<1>1. /\ now \in Nat /\ Timeout \in Nat /\ Margin \in Nat /\ Life \in Nat
      /\ 2 * Timeout <= Margin /\ 2 * Timeout < Life
  BY Constants DEF TypeInv, TypeOK
<1>2. task[s].pc = "token" /\ now' = now
  BY DEF GetToken, At
<1>3. /\ task'[s].pc = "post" /\ task'[s].due = task[s].due
      /\ \A q \in Sandboxes \ {s} : task'[q] = task[q]
  BY GotoFacts DEF TypeInv, Processing
<1>. PICK d \in Nat : d = task[s].due
  BY DEF TypeInv, TypeOK, Task
<1>. PICK x \in Nat, y \in Nat : x = tenant[s].exp /\ y = tenant[s].live
  BY DEF TypeInv, TypeOK
<1>4. /\ now <= d /\ d <= now + Timeout
      /\ x = 0 \/ y = x - Timeout
  BY <1>2 DEF TimeInv, At
<1>5. CASE TokenFresh(s) /\ tenant' = tenant
  <2>1. now < x - Margin
    BY <1>5 DEF TokenFresh
  <2>2. x # 0 /\ d < y
    BY <1>1, <1>4, <2>1
  <2>3. Timely(s)'
    BY <1>2, <1>3, <1>4, <1>5, <2>2 DEF Timely, At
  <2>. QED
    BY <1>2, <1>3, <1>5, <2>3, TimeFrame
<1>6. CASE tenant' = [tenant EXCEPT ![s] = [exp  |-> now + Life,
                                            live |-> now + Life - Timeout]]
  <2>1. /\ tenant'[s].exp = now + Life /\ tenant'[s].live = now + Life - Timeout
        /\ \A q \in Sandboxes \ {s} : tenant'[q] = tenant[q]
    BY <1>6 DEF TypeInv, TypeOK
  <2>2. d < now + Life - Timeout
        /\ now + Life - Timeout = (now + Life) - Timeout
    BY <1>1, <1>4
  <2>3. Timely(s)'
    BY <1>2, <1>3, <1>4, <2>1, <2>2 DEF Timely, At
  <2>. QED
    BY <1>2, <1>3, <2>1, <2>3, TimeFrame
<1>7. ~Conclude(s)
  BY <1>3, LeaveFacts, IdleTaskFacts DEF Conclude, TypeInv
<1>. QED
  BY <1>5, <1>6, <1>7 DEF GetToken

\* A step of an invocation that processes an event, or its start.
LEMMA RunTime ==
  ASSUME TypeInv, TimeInv, NEW s \in Sandboxes,
         \/ \E i \in DOMAIN runs : Start(s, i)
         \/ GoesOn(s) /\ (GetToken(s) \/ (tenant' = tenant /\ ~Goto(s, "post")))
         \/ Ends(s)
  PROVE  TimeInv'
<1>1. CASE \E i \in DOMAIN runs : Start(s, i)
  <2>. PICK i \in DOMAIN runs : Start(s, i)
    BY <1>1
  <2>1. UNCHANGED <<now, tenant>>
    BY DEF Start
  <2>. QED
    BY <2>1, StartFacts, BeginTime
<1>2. CASE GoesOn(s) /\ GetToken(s)
  <2>1. task[s].pc \in Processing /\ task'[s].pc # "idle"
    BY <1>2, GoesOnFacts DEF GoesOn, Processing
  <2>2. ~Ends(s)
    BY <2>1, EndsFacts, IdleTaskFacts
  <2>. QED
    BY <1>2, <2>2, GetTokenCases, GetTokenTime
<1>3. CASE GoesOn(s) /\ tenant' = tenant /\ ~Goto(s, "post")
  <2>1. /\ task[s].pc # "idle" /\ now' = now /\ task'[s].due = task[s].due
        /\ \A q \in Sandboxes \ {s} : task'[q] = task[q]
    BY <1>3, GoesOnFacts DEF GoesOn, Processing
  <2>2. PICK pc \in Processing : Goto(s, pc)
    BY <1>3 DEF GoesOn
  <2>3. task'[s].pc # "post"
    BY <1>3, <2>2, GotoFacts DEF TypeInv
  <2>. QED
    BY <1>3, <2>1, <2>3, BeginTime
<1>4. CASE Ends(s)
  <2>1. UNCHANGED <<now, tenant>>
    BY <1>4 DEF Ends
  <2>. QED
    BY <1>4, <2>1, EndsFacts, IdleTaskFacts, BeginTime
<1>. QED
  BY <1>1, <1>2, <1>3, <1>4

LEMMA StepTime == TypeInv /\ TimeInv /\ [Next]_vars => TimeInv'
BY StepCases, QuietTime, HookTime, RunTime

\* No message is sent with a tenant token that has stopped working, if twice
\* the timeout of the Lambda is within the margin and less than the life of a
\* token (router/lark.py:116-154, router/index.py:34).
THEOREM LivingTenantToken == Spec => []LiveTenantToken
<1>1. Spec => [](TypeInv /\ TimeInv)
  BY InitType, StepType, InitTime, StepTime, PTL DEF Spec
<1>2. TypeInv /\ TimeInv => LiveTenantToken
  <2>. SUFFICES ASSUME TypeInv, TimeInv, NEW s \in Sandboxes, At(s, "post")
                PROVE  now < tenant[s].live
    BY DEF LiveTenantToken
  <2>1. now \in Nat /\ task[s].due \in Nat /\ tenant[s].live \in Nat
    BY DEF TypeInv, TypeOK, Task
  <2>2. now <= task[s].due /\ task[s].due < tenant[s].live
    BY DEF TimeInv, At
  <2>. QED
    BY <2>1, <2>2
<1>. QED
  BY <1>1, <1>2, PTL

-----------------------------------------------------------------------------
(* The router implements MessageReplies                                    *)

\* Without rotations there is one key.
KeyInv ==
  MaxRotations = 0 =>
    /\ key = 0
    /\ \A h \in inflight : h.key = 0
    /\ \A s \in Sandboxes : \A h \in task[s].hook : h.key = 0
    /\ \A i \in DOMAIN runs : runs[i].key = 0

\* Without the fault the credentials have been read.
CredsInv == "read" \notin Faults => \A s \in Sandboxes : creds[s] # NoCreds

Accepted(e) == e \in lost \/ \E i \in DOMAIN runs : runs[i].event = e

\* There is an invocation for a message about to be acknowledged.
PromiseInv == \A s \in Sandboxes : At(s, "ack") => Accepted(Hook(s).event)

ServiceInv == TypeInv /\ KeyInv /\ CredsInv /\ PromiseInv

LEMMA InitService == Init => ServiceInv
<1>. SUFFICES ASSUME Init PROVE ServiceInv
  OBVIOUS
<1>1. KeyInv /\ CredsInv /\ PromiseInv
  BY DEF Init, KeyInv, CredsInv, PromiseInv, IdleTask, At, Unread, NoCreds
<1>. QED
  BY <1>1, InitType DEF ServiceInv

\* The deliveries a sandbox or a new run takes its key from.
LEMMA StepKey ==
  ASSUME TypeInv, KeyInv, [Next]_vars
  PROVE  KeyInv'
<1>. SUFFICES ASSUME MaxRotations = 0
              PROVE  /\ key' = 0
                     /\ \A h \in inflight' : h.key = 0
                     /\ \A q \in Sandboxes : \A h \in task'[q].hook : h.key = 0
                     /\ \A i \in DOMAIN runs' : runs'[i].key = 0
  BY DEF KeyInv
<1>1. /\ key = 0
      /\ \A h \in inflight : h.key = 0
      /\ \A q \in Sandboxes : \A h \in task[q].hook : h.key = 0
      /\ \A i \in DOMAIN runs : runs[i].key = 0
  BY DEF KeyInv
<1>2. CASE Quiet
  <2>1. runs' = runs /\ task' = task
    BY <1>2, QuietFacts
  <2>2. ~Rotate
    BY <1>1 DEF Rotate
  <2>3. CASE \E e \in Events : Deliver(e)
    BY <1>1, <2>1, <2>3 DEF Deliver
  <2>4. CASE ~(\E e \in Events : Deliver(e))
    <3>1. key' = key /\ inflight' = inflight
      BY <1>2, <2>2, <2>4 DEF Quiet, ReadCreds, Recycle, Tick, vars, lark
    <3>. QED
      BY <1>1, <2>1, <3>1
  <2>. QED
    BY <2>3, <2>4
<1>3. ASSUME NEW s \in Sandboxes,
             \/ \E h \in inflight : Receive(s, h)
             \/ Reject(s) \/ Ack(s) \/ (task[s].pc \notin Processing /\ Crash(s))
             \/ Dispatch(s) \/ DispatchFails(s)
      PROVE  /\ key' = 0
             /\ \A h \in inflight' : h.key = 0
             /\ \A q \in Sandboxes : \A h \in task'[q].hook : h.key = 0
             /\ \A i \in DOMAIN runs' : runs'[i].key = 0
  <2>1. /\ key' = key /\ inflight' \subseteq inflight
        /\ \A q \in Sandboxes \ {s} : task'[q] = task[q]
    BY <1>3, HookFrame
       DEF Receive, Reject, Ack, Crash, Dispatch, DispatchFails, lark
  <2>2. CASE \E h \in inflight : Receive(s, h)
    <3>1. PICK h \in inflight : task'[s].hook = {h}
      BY <2>2 DEF Receive, TypeInv, TypeOK
    <3>2. runs' = runs
      BY <2>2 DEF Receive
    <3>. QED
      BY <1>1, <2>1, <3>1, <3>2
  <2>3. CASE Reject(s) \/ Ack(s) \/ (task[s].pc \notin Processing /\ Crash(s))
    <3>1. runs' = runs /\ task'[s].hook = {}
      BY <2>3, HookEndsType, LeaveFacts DEF TypeInv, IdleTask
    <3>. QED
      BY <1>1, <2>1, <3>1
  <2>4. CASE Dispatch(s) \/ DispatchFails(s)
    <3>1. /\ task[s].pc = "verify" /\ Goto(s, "ack")
          /\ runs' = runs \/ runs' = Append(runs, NewRun(Hook(s)))
      BY <2>4, HookGoesType DEF At
    <3>2. task'[s].hook = task[s].hook
      BY <3>1, GotoFacts DEF TypeInv
    <3>3. Hook(s) \in task[s].hook /\ NewRun(Hook(s)).key = 0
      <4>1. Hook(s) \in task[s].hook
        BY <3>1, HookFacts
      <4>. QED
        BY <1>1, <4>1 DEF NewRun
    <3>4. NewRun(Hook(s)) \in Run
      BY <3>1, HookFacts, Constants DEF NewRun, Run
    <3>5. \A i \in DOMAIN runs' : runs'[i].key = 0
      <4>1. CASE runs' = runs
        BY <1>1, <4>1
      <4>2. CASE runs' = Append(runs, NewRun(Hook(s)))
        <5>1. /\ DOMAIN runs' = 1..Len(runs) + 1 /\ DOMAIN runs = 1..Len(runs)
              /\ Len(runs) \in Nat /\ runs'[Len(runs) + 1] = NewRun(Hook(s))
              /\ \A i \in DOMAIN runs : runs'[i] = runs[i]
          BY <3>4, <4>2 DEF TypeInv, TypeOK
        <5>. QED
          BY <1>1, <3>3, <5>1
      <4>. QED
        BY <3>1, <4>1, <4>2
    <3>. QED
      BY <1>1, <2>1, <3>2, <3>5
  <2>. QED
    BY <1>3, <2>2, <2>3, <2>4
<1>4. ASSUME NEW s \in Sandboxes, NEW i \in DOMAIN runs, Start(s, i)
      PROVE  /\ key' = 0
             /\ \A h \in inflight' : h.key = 0
             /\ \A q \in Sandboxes : \A h \in task'[q].hook : h.key = 0
             /\ \A j \in DOMAIN runs' : runs'[j].key = 0
  <2>1. key' = key /\ inflight' = inflight /\ task'[s].hook = {}
    BY <1>4 DEF Start, lark, TypeInv, TypeOK
  <2>. QED
    BY <1>1, <1>4, <2>1, StartFacts
<1>5. ASSUME NEW s \in Sandboxes, GoesOn(s) \/ Ends(s)
      PROVE  /\ key' = 0
             /\ \A h \in inflight' : h.key = 0
             /\ \A q \in Sandboxes : \A h \in task'[q].hook : h.key = 0
             /\ \A j \in DOMAIN runs' : runs'[j].key = 0
  <2>1. key' = key /\ inflight' = inflight
    BY <1>5 DEF GoesOn, Ends, lark
  <2>2. CASE GoesOn(s)
    <3>1. PICK pc \in Processing : Goto(s, pc)
      BY <2>2 DEF GoesOn
    <3>2. task'[s].hook = task[s].hook
      BY <3>1, GotoFacts DEF TypeInv
    <3>. QED
      BY <1>1, <2>1, <2>2, <3>2, GoesOnFacts DEF RunOf
  <2>3. CASE Ends(s)
    BY <1>1, <2>1, <2>3, EndsFacts DEF RunOf, IdleTask
  <2>. QED
    BY <1>5, <2>2, <2>3
<1>. QED
  BY <1>2, <1>3, <1>4, <1>5, StepCases

LEMMA StepCreds ==
  ASSUME TypeInv, CredsInv, [Next]_vars
  PROVE  CredsInv'
<1>. SUFFICES ASSUME "read" \notin Faults
              PROVE  \A s \in Sandboxes : creds'[s] # NoCreds
  BY DEF CredsInv
<1>1. creds \in [Sandboxes -> {Unread, NoCreds} \cup 0..key] /\ key \in Nat
  BY DEF TypeInv, TypeOK
<1>2. ASSUME NEW s \in Sandboxes, ReadCreds(s)
      PROVE  \A q \in Sandboxes : creds'[q] # NoCreds
  BY <1>1, <1>2 DEF CredsInv, ReadCreds, NoCreds
<1>3. ASSUME NEW s \in Sandboxes, Recycle(s)
      PROVE  \A q \in Sandboxes : creds'[q] # NoCreds
  BY <1>1, <1>3 DEF CredsInv, Recycle, NoCreds, Unread
<1>4. CASE creds' = creds
  BY <1>4 DEF CredsInv
<1>. QED
  BY <1>2, <1>3, <1>4
     DEF Next, Work, vars, Deliver, Receive, Reject, Dispatch, DispatchFails, Ack,
         Start, DecryptFails, Read, Agent, AgentSilent, AgentFails, GetToken,
         Post, Return, Crash, Rotate, Tick

\* No step makes a message unaccepted; one that comes to be acknowledged was
\* accepted before, or has just been.
LEMMA PromiseFrame ==
  ASSUME TypeInv, PromiseInv, lost \subseteq lost',
         \A i \in DOMAIN runs :
           i \in DOMAIN runs' /\ runs'[i].event = runs[i].event,
         \A q \in Sandboxes : task'[q].pc = "ack" =>
           /\ task'[q].hook = task[q].hook
           /\ \/ task[q].pc = "ack"
              \/ \E e \in Events : e = Hook(q).event /\ Accepted(e)'
  PROVE  PromiseInv'
<1>. SUFFICES ASSUME NEW q \in Sandboxes, task'[q].pc = "ack"
              PROVE  Accepted(Hook(q).event)'
  BY DEF PromiseInv, At
<1>1. Hook(q)' = Hook(q)
  BY DEF Hook
<1>2. CASE task[q].pc = "ack"
  BY <1>1, <1>2 DEF PromiseInv, At, Accepted
<1>3. CASE \E e \in Events : e = Hook(q).event /\ Accepted(e)'
  BY <1>1, <1>3 DEF Accepted
<1>. QED
  BY <1>2, <1>3

LEMMA StepPromise ==
  ASSUME TypeInv, PromiseInv, [Next]_vars
  PROVE  PromiseInv'
<1>1. CASE Quiet
  BY <1>1, QuietFacts, PromiseFrame
<1>2. ASSUME NEW s \in Sandboxes,
             \/ \E h \in inflight : Receive(s, h)
             \/ Reject(s) \/ Ack(s) \/ (task[s].pc \notin Processing /\ Crash(s))
      PROVE  PromiseInv'
  <2>1. task'[s].pc \in {"verify", "idle"} /\ lost' = lost
    <3>1. CASE \E h \in inflight : Receive(s, h)
      BY <3>1 DEF Receive, TypeInv, TypeOK
    <3>2. CASE Reject(s) \/ Ack(s) \/ (task[s].pc \notin Processing /\ Crash(s))
      BY <3>2, HookEndsType, LeaveFacts, IdleTaskFacts DEF TypeInv
    <3>. QED
      BY <1>2, <3>1, <3>2
  <2>. QED
    BY <1>2, <2>1, HookFrame, PromiseFrame
<1>3. ASSUME NEW s \in Sandboxes, Dispatch(s) \/ DispatchFails(s)
      PROVE  PromiseInv'
  <2>1. task[s].pc = "verify" /\ Goto(s, "ack") /\ lost \subseteq lost'
    BY <1>3, HookGoesType DEF At, Dispatch, DispatchFails
  <2>2. task'[s].hook = task[s].hook
    BY <2>1, GotoFacts DEF TypeInv
  <2>3. PICK e \in Events : e = Hook(s).event
    BY <2>1, HookFacts
  <2>4. Accepted(e)'
    <3>1. CASE Dispatch(s)
      <4>1. runs' = Append(runs, NewRun(Hook(s)))
        BY <3>1 DEF Dispatch
      <4>2. NewRun(Hook(s)) \in Run
        BY <2>1, HookFacts, Constants DEF NewRun, Run
      <4>3. /\ Len(runs) + 1 \in DOMAIN runs'
            /\ runs'[Len(runs) + 1] = NewRun(Hook(s))
        BY <4>1, <4>2 DEF TypeInv, TypeOK
      <4>4. NewRun(Hook(s)).event = e
        BY <2>3 DEF NewRun
      <4>. QED
        BY <4>3, <4>4 DEF Accepted
    <3>2. CASE DispatchFails(s)
      BY <2>3, <3>2 DEF DispatchFails, Accepted
    <3>. QED
      BY <1>3, <3>1, <3>2
  <2>. QED
    BY <1>3, <2>1, <2>2, <2>3, <2>4, HookFrame, PromiseFrame
<1>4. ASSUME NEW s \in Sandboxes, NEW i \in DOMAIN runs, Start(s, i)
      PROVE  PromiseInv'
  <2>1. lost' = lost
    BY <1>4 DEF Start
  <2>. QED
    BY <1>4, <2>1, StartFacts, PromiseFrame
<1>5. ASSUME NEW s \in Sandboxes, GoesOn(s) \/ Ends(s)
      PROVE  PromiseInv'
  <2>1. lost \subseteq lost' /\ task'[s].pc # "ack"
    BY <1>5, GoesOnFacts, EndsFacts, IdleTaskFacts DEF GoesOn, Ends, Processing
  <2>2. /\ DOMAIN runs' = DOMAIN runs
        /\ \A j \in DOMAIN runs : runs'[j].event = runs[j].event
        /\ \A q \in Sandboxes \ {s} : task'[q] = task[q]
    BY <1>5, GoesOnFacts, EndsFacts DEF RunOf
  <2>. QED
    BY <2>1, <2>2, PromiseFrame
<1>. QED
  BY <1>1, <1>2, <1>3, <1>4, <1>5, StepCases

LEMMA StepService == ServiceInv /\ [Next]_vars => ServiceInv'
BY StepType, StepKey, StepCreds, StepPromise DEF ServiceInv

-----------------------------------------------------------------------------
(* What a step does to the jobs                                            *)

\* The job of the invocation a sandbox processes.
LEMMA JobOf ==
  ASSUME TypeInv, NEW s \in Sandboxes, task[s].pc \in Processing
  PROVE  LET i == task[s].run IN
         Job(i) = [event |-> runs[i].event,
                   state |-> IF At(s, "sent") THEN "replied" ELSE "tried",
                   tries |-> Retries - runs[i].left + 1]
<1>. PICK i \in DOMAIN runs : i = task[s].run
  BY TaskRunFacts
<1>1. runs[i].state = "running"
  BY TaskRunFacts DEF RunOf
<1>2. Sent(i) <=> At(s, "sent")
  BY DEF Sent, At, TypeInv, OneTaskPerRun, Processing
<1>. QED
  BY <1>1, <1>2 DEF Job

\* A step of one sandbox leaves the jobs of the others.
LEMMA OtherJobs ==
  ASSUME NEW s \in Sandboxes, NEW i,
         \A q \in Sandboxes \ {s} : task'[q] = task[q],
         At(s, "sent") => task[s].run = i,
         At(s, "sent")' => task'[s].run = i,
         NEW j \in DOMAIN runs \ {i}, runs'[j] = runs[j]
  PROVE  Job(j)' = Job(j)
<1>1. Sent(j)' <=> Sent(j)
  BY DEF Sent, At
<1>. QED
  BY <1>1 DEF Job

\* One job changes.
LEMMA JobChanges ==
  ASSUME TypeInv, NEW s \in Sandboxes, NEW i \in DOMAIN runs,
         \A q \in Sandboxes \ {s} : task'[q] = task[q],
         At(s, "sent") => task[s].run = i,
         At(s, "sent")' => task'[s].run = i,
         DOMAIN runs' = DOMAIN runs,
         \A j \in DOMAIN runs \ {i} : runs'[j] = runs[j]
  PROVE  jobs' = [jobs EXCEPT ![i] = Job(i)']
<1>1. \A j \in DOMAIN runs \ {i} : Job(j)' = Job(j)
  BY OtherJobs
<1>2. jobs' = [j \in DOMAIN runs |-> Job(j)']
  BY DEF jobs
<1>3. \A j \in DOMAIN runs : Job(j)' = IF j = i THEN Job(i)' ELSE Job(j)
  BY <1>1
<1>. QED
  BY <1>2, <1>3 DEF jobs

\* No job changes.
LEMMA JobsKept ==
  ASSUME TypeInv, NEW s \in Sandboxes, runs' = runs,
         \A q \in Sandboxes \ {s} : task'[q] = task[q],
         ~At(s, "sent"), ~At(s, "sent")'
  PROVE  jobs' = jobs
<1>1. ASSUME NEW j \in DOMAIN runs PROVE Job(j)' = Job(j)
  <2>1. Sent(j)' <=> Sent(j)
    BY DEF Sent, At
  <2>. QED
    BY <2>1 DEF Job
<1>. QED
  BY <1>1 DEF jobs

-----------------------------------------------------------------------------
(* Every step of the router is one of the service's or none                *)

LEMMA InitMaps == Init => Service!Init
<1>. SUFFICES ASSUME Init PROVE jobs = << >>
  BY DEF Init, Service!Init
<1>1. DOMAIN runs = {}
  BY DEF Init
<1>. QED
  BY <1>1 DEF jobs

\* The steps that concern no invocation, and a webhook's.
LEMMA HookMaps ==
  ASSUME ServiceInv, NEW s \in Sandboxes,
         \/ \E h \in inflight : Receive(s, h)
         \/ Reject(s) \/ Ack(s) \/ (task[s].pc \notin Processing /\ Crash(s))
         \/ Dispatch(s) \/ DispatchFails(s)
  PROVE  [Service!Next]_(Service!service)
<1>. TypeInv
  BY DEF ServiceInv
<1>1. ~At(s, "sent") /\ ~At(s, "sent")'
  <2>1. "sent" \in Processing
    BY DEF Processing
  <2>2. task'[s].pc \notin Processing
    BY HookFrame
  <2>3. task[s].pc \notin Processing
    BY HookEndsType, HookGoesType DEF Receive, At, Processing
  <2>. QED
    BY <2>1, <2>2, <2>3 DEF At
<1>2. runs' = runs => jobs' = jobs
  BY <1>1, HookFrame, JobsKept
<1>3. CASE \/ \E h \in inflight : Receive(s, h)
           \/ Reject(s) \/ (task[s].pc \notin Processing /\ Crash(s))
  <2>1. runs' = runs /\ acked' = acked /\ lost' = lost
    BY <1>3, HookEndsType DEF Receive, Reject, Crash
  <2>. QED
    BY <1>2, <2>1 DEF Service!service
<1>4. CASE Ack(s)
  <2>1. PICK e \in Events : e = Hook(s).event
    BY <1>4, HookFacts DEF Ack, At
  <2>2. e \in lost \/ \E i \in DOMAIN jobs : jobs[i].event = e
    BY <1>4, <2>1 DEF ServiceInv, PromiseInv, Ack, Accepted, jobs, Job
  <2>3. jobs' = jobs /\ lost' = lost /\ acked' = acked \cup {e}
    BY <1>2, <1>4, <2>1 DEF Ack
  <2>. QED
    BY <2>2, <2>3 DEF Service!Next, Service!Promise
<1>5. CASE DispatchFails(s)
  <2>1. PICK e \in Events : e = Hook(s).event
    BY <1>5, HookFacts DEF DispatchFails, At
  <2>2. Lossy
    BY <1>5 DEF DispatchFails, Lossy
  <2>3. jobs' = jobs /\ acked' = acked /\ lost' = lost \cup {e}
    BY <1>2, <1>5, <2>1 DEF DispatchFails
  <2>. QED
    BY <2>2, <2>3 DEF Service!Next, Service!Drop
<1>6. CASE Dispatch(s)
  <2>1. PICK e \in Events : e = Hook(s).event
    BY <1>6, HookFacts DEF Dispatch, At
  <2>2. NewRun(Hook(s)) \in Run
    BY <1>6, HookFacts, Constants DEF NewRun, Run, Dispatch, At
  <2>3. runs' = Append(runs, NewRun(Hook(s))) /\ runs \in Seq(Run)
    BY <1>6 DEF Dispatch, TypeInv, TypeOK
  <2>. PICK n : n = Len(runs) + 1
    OBVIOUS
  <2>. PICK job : job = [event |-> e, state |-> "waiting", tries |-> 0]
    OBVIOUS
  <2>4. /\ Len(runs) \in Nat /\ n \in Nat
        /\ DOMAIN runs = 1..Len(runs) /\ DOMAIN runs' = 1..n
        /\ runs'[n] = NewRun(Hook(s))
        /\ \A i \in DOMAIN runs : runs'[i] = runs[i]
    BY <2>2, <2>3
  <2>5. Job(n)' = job
    <3>1. /\ NewRun(Hook(s)).event = e /\ NewRun(Hook(s)).state = "queued"
          /\ NewRun(Hook(s)).left = Retries
      BY <2>1 DEF NewRun
    <3>2. PICK r : /\ r = runs'[n] /\ r.event = e /\ r.state = "queued"
                   /\ r.left = Retries
      BY <2>4, <3>1
    <3>3. Retries - Retries + 0 = 0
      BY Constants
    <3>4. Job(n)' = [event |-> r.event, state |-> "waiting",
                     tries |-> Retries - r.left + 0]
      BY <3>2 DEF Job
    <3>. QED
      BY <3>2, <3>3, <3>4
  <2>6. \A i \in DOMAIN runs : Job(i)' = Job(i)
    <3>1. \A q \in Sandboxes \ {s} : task'[q] = task[q]
      BY HookFrame
    <3>. QED
      BY <1>1, <2>4, <3>1 DEF Job, Sent, At
  <2>7. jobs' = Append(jobs, job)
    <3>1. /\ jobs = [i \in 1..Len(runs) |-> Job(i)]
          /\ jobs' = [i \in 1..n |-> Job(i)']
      BY <2>4 DEF jobs
    <3>2. Len(jobs) = Len(runs)
      BY <2>4, <3>1
    <3>3. ASSUME NEW i \in 1..n
          PROVE  Job(i)' = IF i = n THEN job ELSE Job(i)
      <4>1. CASE i = n
        <5>1. Job(i)' = Job(n)'
          BY <4>1 DEF Job, Sent, At
        <5>. QED
          BY <2>5, <4>1, <5>1
      <4>2. CASE i # n
        <5>1. i \in DOMAIN runs
          BY <2>4, <4>2
        <5>. QED
          BY <2>6, <4>2, <5>1
      <4>. QED
        BY <4>1, <4>2
    <3>4. Append(jobs, job) =
            [i \in 1..Len(jobs) + 1 |-> IF i = Len(jobs) + 1 THEN job ELSE jobs[i]]
      BY <2>4, <3>1
    <3>5. jobs' = [i \in 1..n |-> IF i = n THEN job ELSE Job(i)]
      BY <3>1, <3>3
    <3>6. \A i \in 1..n : i # n => jobs[i] = Job(i)
      BY <2>4, <3>1
    <3>. QED
      BY <3>2, <3>4, <3>5, <3>6
  <2>8. UNCHANGED <<acked, lost>>
    BY <1>6 DEF Dispatch
  <2>. QED
    BY <2>7, <2>8 DEF Service!Next, Service!Accept
<1>. QED
  BY <1>3, <1>4, <1>5, <1>6

LEMMA StartMaps ==
  ASSUME ServiceInv, NEW s \in Sandboxes, NEW i \in DOMAIN runs, Start(s, i)
  PROVE  Service!Try(i)
<1>. TypeInv
  BY DEF ServiceInv
<1>1. /\ ~At(s, "sent") /\ ~At(s, "sent")'
      /\ \A q \in Sandboxes \ {s} : task'[q] = task[q]
  BY StartFacts DEF Start, At
<1>. PICK left \in 0..Retries : left = runs[i].left
  BY RunTypes
<1>2. Job(i) = [event |-> runs[i].event, state |-> "waiting",
                tries |-> Retries - left + 0]
  BY StartFacts DEF Job
<1>3. Job(i)' = [event |-> runs[i].event, state |-> "tried",
                 tries |-> Retries - left + 1]
  <2>1. ~Sent(i)'
    BY <1>1, StartFacts DEF Sent, At, Processing
  <2>2. /\ runs'[i].state = "running" /\ runs'[i].left = left
        /\ runs'[i].event = runs[i].event
    BY StartFacts
  <2>. QED
    BY <2>1, <2>2 DEF Job
<1>4. jobs' = [jobs EXCEPT ![i] = Job(i)']
  BY <1>1, StartFacts, JobChanges
<1>5. jobs[i] = Job(i)
  BY DEF jobs
<1>6. UNCHANGED <<acked, lost>>
  BY DEF Start
<1>7. Retries - left + 0 < Retries + 1
      /\ Retries - left + 0 + 1 = Retries - left + 1
  BY Constants
<1>8. Job(i)' = [jobs[i] EXCEPT !.state = "tried", !.tries = @ + 1]
  <2>. PICK e, t, u : e = runs[i].event /\ t = Retries - left + 0 /\ u = t + 1
    OBVIOUS
  <2>. PICK j, k, l :
         /\ j = jobs[i] /\ k = Job(i)'
         /\ l = [event |-> e, state |-> "tried", tries |-> t]
    OBVIOUS
  <2>1. j = [event |-> e, state |-> "waiting", tries |-> t]
    BY <1>2, <1>5
  <2>2. k = [event |-> e, state |-> "tried", tries |-> u]
    BY <1>3, <1>7
  <2>3. l = [j EXCEPT !.state = "tried"]
    BY <2>1
  <2>4. k = [l EXCEPT !.tries = u] /\ l.tries + 1 = u
    BY <2>2
  <2>5. [j EXCEPT !.state = "tried", !.tries = @ + 1] = [l EXCEPT !.tries = @ + 1]
    BY <2>3
  <2>. QED
    BY <2>4, <2>5
<1>9. jobs' = [jobs EXCEPT ![i].state = "tried", ![i].tries = @ + 1]
  BY <1>4, <1>8
<1>. QED
  BY <1>2, <1>5, <1>6, <1>7, <1>9 DEF Service!Try

LEMMA GoesOnMaps ==
  ASSUME ServiceInv, NEW s \in Sandboxes, GoesOn(s)
  PROVE  [Service!Next]_(Service!service)
<1>. TypeInv
  BY DEF ServiceInv
<1>. PICK i \in DOMAIN runs : i = task[s].run
  BY GoesOnFacts
<1>1. /\ task[s].pc \in Processing \ {"sent"} /\ task'[s].pc \in Processing
      /\ task'[s].run = i /\ UNCHANGED <<acked, lost>>
  BY GoesOnFacts DEF GoesOn
<1>2. Job(i) = [event |-> runs[i].event, state |-> "tried",
                tries |-> Retries - runs[i].left + 1]
  BY <1>1, JobOf DEF At
<1>3. Job(i)' = [event |-> runs[i].event,
                 state |-> IF task'[s].pc = "sent" THEN "replied" ELSE "tried",
                 tries |-> Retries - runs[i].left + 1]
  <2>1. TypeInv'
    BY GoesOnType
  <2>2. Sent(i)' <=> task'[s].pc = "sent"
    BY <1>1, <2>1 DEF Sent, At, TypeInv, OneTaskPerRun, Processing
  <2>3. /\ runs'[i].state = "running" /\ runs'[i].left = runs[i].left
        /\ runs'[i].event = runs[i].event
    BY GoesOnFacts DEF RunOf
  <2>. QED
    BY <2>2, <2>3 DEF Job
<1>4. jobs' = [jobs EXCEPT ![i] = Job(i)']
  BY <1>1, GoesOnFacts, JobChanges DEF At
<1>5. jobs[i] = Job(i) /\ i \in DOMAIN jobs
  BY DEF jobs
<1>6. CASE task'[s].pc = "sent"
  <2>1. Job(i)' = [jobs[i] EXCEPT !.state = "replied"]
    BY <1>2, <1>3, <1>5, <1>6
  <2>2. jobs' = [jobs EXCEPT ![i].state = "replied"]
    BY <1>4, <2>1
  <2>3. Service!Reply(i)
    BY <1>1, <1>2, <1>5, <2>2 DEF Service!Reply, Service!Become
  <2>. QED
    BY <1>5, <2>3 DEF Service!Next
<1>7. CASE task'[s].pc # "sent"
  <2>1. Job(i)' = jobs[i]
    BY <1>2, <1>3, <1>5, <1>7
  <2>2. jobs' = jobs
    BY <1>4, <2>1 DEF jobs
  <2>. QED
    BY <1>1, <2>2 DEF Service!service
<1>. QED
  BY <1>6, <1>7

\* The job of an invocation that ends for good is closed.
LEMMA JobCloses ==
  ASSUME TypeInv, NEW s \in Sandboxes, task[s].pc \in Processing,
         NEW n \in {0, 1}, Leave(s),
         runs' = [runs EXCEPT ![task[s].run] = Ended(s, n)]
  PROVE  \E i \in DOMAIN jobs :
           /\ jobs[i].event = RunOf(s).event
           /\ jobs[i].state = IF At(s, "sent") THEN "replied" ELSE "tried"
           /\ jobs' = [jobs EXCEPT ![i].state = "closed"]
<1>. PICK i \in DOMAIN runs : i = task[s].run
  BY TaskRunFacts
<1>1. /\ Ended(s, n) \in Run /\ Ended(s, n).state = "over"
      /\ Ended(s, n).left = RunOf(s).left /\ Ended(s, n).event = RunOf(s).event
  BY RunChanges
<1>2. /\ DOMAIN runs' = DOMAIN runs /\ runs'[i] = Ended(s, n)
      /\ \A j \in DOMAIN runs \ {i} : runs'[j] = runs[j]
  BY <1>1, RunFacts DEF TypeInv
<1>3. /\ ~At(s, "sent")'
      /\ \A q \in Sandboxes \ {s} : task'[q] = task[q]
  BY LeaveFacts, IdleTaskFacts DEF TypeInv, At
<1>4. jobs' = [jobs EXCEPT ![i] = Job(i)']
  BY <1>2, <1>3, JobChanges
<1>. PICK state : state = IF At(s, "sent") THEN "replied" ELSE "tried"
  OBVIOUS
<1>. PICK tries : tries = Retries - runs[i].left + 1
  OBVIOUS
<1>5. i \in DOMAIN jobs /\ jobs[i] = Job(i)
  BY DEF jobs
<1>6. jobs[i] = [event |-> RunOf(s).event, state |-> state, tries |-> tries]
  BY <1>5, JobOf DEF RunOf
<1>7. Job(i)' = [event |-> RunOf(s).event, state |-> "closed", tries |-> tries]
  <2>1. PICK r : /\ r = runs'[i] /\ r.event = RunOf(s).event /\ r.state = "over"
                 /\ r.left = runs[i].left
    BY <1>1, <1>2 DEF RunOf
  <2>2. Job(i)' = [event |-> r.event, state |-> "closed",
                   tries |-> Retries - r.left + 1]
    BY <2>1 DEF Job
  <2>. QED
    BY <2>1, <2>2
<1>8. Job(i)' = [jobs[i] EXCEPT !.state = "closed"]
  BY <1>6, <1>7
<1>9. jobs' = [jobs EXCEPT ![i].state = "closed"]
  BY <1>4, <1>8
<1>10. jobs[i].event = RunOf(s).event /\ jobs[i].state = state
  BY <1>6
<1>. QED
  BY <1>5, <1>9, <1>10

\* Reading them has failed, or the key is another one.
LEMMA WrongKey ==
  ASSUME ServiceInv, NEW s \in Sandboxes, task[s].pc \in Processing,
         creds[s] \notin {Unread, RunOf(s).key}
  PROVE  Lossy
<1>. SUFFICES ASSUME "read" \notin Faults, MaxRotations = 0 PROVE FALSE
  BY WebhookAssumption DEF Lossy
<1>1. key = 0 /\ RunOf(s).key = 0
  BY TaskRunFacts DEF ServiceInv, KeyInv, RunOf
<1>2. creds[s] \in {Unread, NoCreds} \cup 0..key /\ creds[s] # NoCreds
  BY DEF ServiceInv, CredsInv, TypeInv, TypeOK
<1>. QED
  BY <1>1, <1>2

\* An invocation is given up.
LEMMA GivesUp ==
  ASSUME TypeInv, NEW s \in Sandboxes, task[s].pc \in Processing, Lossy,
         NEW n \in {0, 1}, Leave(s), Lose(s), UNCHANGED acked,
         runs' = [runs EXCEPT ![task[s].run] = Ended(s, n)]
  PROVE  Service!Next
<1>. PICK i \in DOMAIN jobs :
       /\ jobs[i].event = RunOf(s).event
       /\ jobs[i].state = IF At(s, "sent") THEN "replied" ELSE "tried"
       /\ jobs' = [jobs EXCEPT ![i].state = "closed"]
  BY JobCloses
<1>1. Service!GiveUp(i)
  BY DEF Service!GiveUp, Service!Become, Lose
<1>. QED
  BY <1>1 DEF Service!Next

\* A crash before the last try leaves the job to the next one.
LEMMA CrashMaps ==
  ASSUME TypeInv, NEW s \in Sandboxes, task[s].pc \in Processing, Crash(s)
  PROVE  Service!Next
<1>. PICK i \in DOMAIN runs : i = task[s].run
  BY TaskRunFacts
<1>1. Lossy /\ task[s].run # NoRun /\ Leave(s) /\ UNCHANGED acked
  BY TaskRunFacts DEF Crash, Lossy
<1>2. CASE RunOf(s).left > 0
  <2>1. runs' = [runs EXCEPT ![i] = Again(s)] /\ UNCHANGED lost
    BY <1>1, <1>2 DEF Crash, Again, RunOf, TypeInv, TypeOK
  <2>2. /\ Again(s) \in Run /\ Again(s).state = "queued"
        /\ Again(s).left = RunOf(s).left - 1 /\ Again(s).event = RunOf(s).event
    BY <1>2, RunChanges
  <2>3. /\ DOMAIN runs' = DOMAIN runs /\ runs'[i] = Again(s)
        /\ \A j \in DOMAIN runs \ {i} : runs'[j] = runs[j]
    BY <2>1, <2>2, RunFacts DEF TypeInv
  <2>4. /\ ~At(s, "sent")'
        /\ \A q \in Sandboxes \ {s} : task'[q] = task[q]
    BY <1>1, LeaveFacts, IdleTaskFacts DEF TypeInv, At
  <2>5. jobs' = [jobs EXCEPT ![i] = Job(i)']
    BY <2>3, <2>4, JobChanges
  <2>. PICK left \in 0..Retries : left = RunOf(s).left
    BY RunTypes DEF RunOf
  <2>. PICK state \in {"tried", "replied"} :
         state = IF At(s, "sent") THEN "replied" ELSE "tried"
    OBVIOUS
  <2>. PICK tries \in Nat : tries = Retries - left + 1
    BY Constants
  <2>6. i \in DOMAIN jobs /\ jobs[i] = Job(i)
    BY DEF jobs
  <2>7. jobs[i] = [event |-> RunOf(s).event, state |-> state, tries |-> tries]
    BY <2>6, JobOf DEF RunOf
  <2>8. Job(i)' = [event |-> RunOf(s).event, state |-> "waiting", tries |-> tries]
    <3>1. PICK r : /\ r = runs'[i] /\ r.event = RunOf(s).event
                   /\ r.state = "queued" /\ r.left = left - 1
      BY <2>2, <2>3
    <3>2. Job(i)' = [event |-> r.event, state |-> "waiting",
                     tries |-> Retries - r.left + 0]
      BY <3>1 DEF Job
    <3>3. Retries - (left - 1) + 0 = tries
      BY Constants
    <3>. QED
      BY <3>1, <3>2, <3>3
  <2>9. Job(i)' = [jobs[i] EXCEPT !.state = "waiting"]
    BY <2>7, <2>8
  <2>10. tries < Retries + 1
    BY <1>2, Constants
  <2>11. Service!CutShort(i)
    BY <1>1, <2>1, <2>5, <2>7, <2>9, <2>10 DEF Service!CutShort, Service!Become
  <2>. QED
    BY <2>6, <2>11 DEF Service!Next
<1>3. CASE ~(RunOf(s).left > 0)
  <2>1. Conclude(s) /\ Lose(s)
    BY <1>1, <1>3 DEF Crash, Conclude
  <2>. QED
    BY <1>1, <2>1, ConcludeIs, GivesUp
<1>. QED
  BY <1>2, <1>3

LEMMA EndsMaps ==
  ASSUME ServiceInv, NEW s \in Sandboxes, Ends(s), Finishes(s)
  PROVE  Service!Next
<1>. TypeInv
  BY DEF ServiceInv
<1>1. task[s].pc \in Processing /\ UNCHANGED acked /\ Leave(s)
  BY DEF Ends
<1>2. CASE DecryptFails(s)
  <2>1. Lossy
    BY <1>1, <1>2, WrongKey DEF DecryptFails
  <2>. QED
    BY <1>1, <1>2, <2>1, ConcludeIs, GivesUp DEF DecryptFails
<1>3. CASE AgentSilent(s)
  <2>1. Lossy /\ Lose(s) /\ runs' = [runs EXCEPT ![task[s].run] = Ended(s, 1)]
    BY <1>3, SilentIs DEF AgentSilent, Lossy
  <2>. QED
    BY <1>1, <2>1, GivesUp
<1>4. CASE GetToken(s)
  <2>1. /\ ~Goto(s, "post")
    <3>1. task'[s].pc = "idle"
      BY EndsFacts, IdleTaskFacts
    <3>2. Goto(s, "post") => task'[s].pc = "post"
      BY GotoFacts DEF TypeInv, Processing
    <3>. QED
      BY <3>1, <3>2
  <2>2. /\ creds[s] = NoCreds \/ "lark" \in Faults
        /\ Conclude(s) /\ Lose(s)
    BY <1>4, <2>1 DEF GetToken
  <2>3. Lossy
    BY <2>2 DEF ServiceInv, CredsInv, Lossy
  <2>. QED
    BY <1>1, <2>2, <2>3, ConcludeIs, GivesUp
<1>5. CASE Post(s)
  <2>1. ~Goto(s, "sent")
    <3>1. task'[s].pc = "idle"
      BY EndsFacts, IdleTaskFacts
    <3>2. Goto(s, "sent") => task'[s].pc = "sent"
      BY GotoFacts DEF TypeInv, Processing
    <3>. QED
      BY <3>1, <3>2
  <2>2. Lossy /\ Conclude(s) /\ Lose(s)
    BY <1>5, <2>1 DEF Post, Lossy
  <2>. QED
    BY <1>1, <2>2, ConcludeIs, GivesUp
<1>6. CASE Return(s)
  <2>1. At(s, "sent") /\ Conclude(s) /\ UNCHANGED lost
    BY <1>6 DEF Return
  <2>2. runs' = [runs EXCEPT ![task[s].run] = Ended(s, 0)]
    BY <1>1, <2>1, ConcludeIs
  <2>. PICK i \in DOMAIN jobs :
         /\ jobs[i].state = IF At(s, "sent") THEN "replied" ELSE "tried"
         /\ jobs' = [jobs EXCEPT ![i].state = "closed"]
    BY <1>1, <2>2, JobCloses
  <2>3. Service!Close(i)
    BY <1>1, <2>1 DEF Service!Close, Service!Become
  <2>. QED
    BY <2>3 DEF Service!Next
<1>7. CASE Crash(s)
  BY <1>1, <1>7, CrashMaps
<1>. QED
  BY <1>2, <1>3, <1>4, <1>5, <1>6, <1>7 DEF Finishes

LEMMA QuietMaps ==
  ASSUME TypeInv, Quiet
  PROVE  UNCHANGED Service!service
<1>1. UNCHANGED <<acked, runs, task, lost>>
  BY QuietFacts
<1>. QED
  BY <1>1 DEF Service!service, jobs, Job, Sent, At

LEMMA NextMaps ==
  ASSUME ServiceInv, [Next]_vars
  PROVE  [Service!Next]_(Service!service)
<1>. TypeInv
  BY DEF ServiceInv
<1>1. ASSUME NEW s \in Sandboxes, NEW i \in DOMAIN runs, Start(s, i)
      PROVE  Service!Next
  <2>1. Service!Try(i) /\ i \in DOMAIN jobs
    BY <1>1, StartMaps DEF jobs
  <2>. QED
    BY <2>1 DEF Service!Next
<1>. QED
  BY <1>1, StepCases, QuietMaps, HookMaps, GoesOnMaps, EndsMaps

\* The router does what MessageReplies says, wherever the two invocations of
\* a message are cut short: Lark is told 200 only for a message there is an
\* invocation for or that a fault has hit, Lambda starts one Retries + 1 times
\* at the most, each start replies once at the most, and an invocation that is
\* not given up has replied since it was last started
\* (router/index.py:117-144, 154-202).
THEOREM Refinement == Spec => RepliesAsPromised
<1>1. Spec => []ServiceInv
  BY InitService, StepService, PTL DEF Spec
<1>. QED
  BY <1>1, InitMaps, NextMaps, PTL DEF Spec, RepliesAsPromised, Service!Spec
=============================================================================

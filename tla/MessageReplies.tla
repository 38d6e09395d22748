--------------------------- MODULE MessageReplies ---------------------------
(***************************************************************************)
(* What the router owes a message of a user, whatever its sandboxes do: an *)
(* accepted message is a job, a job is tried a limited number of times,    *)
(* each try sends one reply at the most, and the try that closes the job   *)
(* has sent one.  Lark is told 200 for a message there is a job for.       *)
(* Where faults are possible (Lossy) a try may be cut short, a job given   *)
(* up, and a message lost before it becomes one.                           *)
(***************************************************************************)
EXTENDS Naturals, Sequences

CONSTANTS
  Events,   \* messages of users
  Tries,    \* how often a job is tried at the most
  Lossy     \* whether faults are possible

VARIABLES
  jobs,      \* the jobs, in the order of their acceptance
  promised,  \* the messages Lark has been told 200 for
  lost       \* the messages that were lost, or a job of theirs given up

service == <<jobs, promised, lost>>

Init == jobs = << >> /\ promised = {} /\ lost = {}

\* waiting -> tried -> replied -> closed
Become(i, state) == jobs' = [jobs EXCEPT ![i].state = state]

Accept(e) ==
  /\ UNCHANGED <<promised, lost>>
  /\ jobs' = Append(jobs, [event |-> e, state |-> "waiting", tries |-> 0])

Promise(e) ==
  /\ e \in lost \/ \E i \in DOMAIN jobs : jobs[i].event = e
  /\ promised' = promised \cup {e}
  /\ UNCHANGED <<jobs, lost>>

Try(i) ==
  /\ jobs[i].state = "waiting" /\ jobs[i].tries < Tries
  /\ jobs' = [jobs EXCEPT ![i].state = "tried", ![i].tries = @ + 1]
  /\ UNCHANGED <<promised, lost>>

Reply(i) ==
  /\ jobs[i].state = "tried"
  /\ Become(i, "replied")
  /\ UNCHANGED <<promised, lost>>

Close(i) ==
  /\ jobs[i].state = "replied"
  /\ Become(i, "closed")
  /\ UNCHANGED <<promised, lost>>

\* The try is cut short, before its reply or after it, and another one is due.
CutShort(i) ==
  /\ Lossy
  /\ jobs[i].state \in {"tried", "replied"} /\ jobs[i].tries < Tries
  /\ Become(i, "waiting")
  /\ UNCHANGED <<promised, lost>>

GiveUp(i) ==
  /\ Lossy
  /\ jobs[i].state \in {"tried", "replied"}
  /\ Become(i, "closed")
  /\ lost' = lost \cup {jobs[i].event}
  /\ UNCHANGED promised

Drop(e) ==
  /\ Lossy
  /\ lost' = lost \cup {e}
  /\ UNCHANGED <<jobs, promised>>

Next ==
  \/ \E e \in Events : Promise(e) \/ Drop(e)
  \/ \E i \in DOMAIN jobs :
       Try(i) \/ Reply(i) \/ Close(i) \/ CutShort(i) \/ GiveUp(i)
  \/ \E e \in Events : Accept(e)

Spec == Init /\ [][Next]_service
=============================================================================

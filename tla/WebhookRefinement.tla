------------------------- MODULE WebhookRefinement -------------------------
(***************************************************************************)
(* The router implements MessageReplies: a job is an asynchronous          *)
(* invocation, a try is a start of it by Lambda.                           *)
(***************************************************************************)
EXTENDS Webhook

\* A message can be lost: by a fault, or because the key it was encrypted with
\* is not the one a sandbox has.
Lossy ==
  \/ Faults \cap {"crash", "read", "dispatch", "silent", "lark"} # {}
  \/ MaxRotations > 0

Sent(i) == \E s \in Sandboxes : At(s, "sent") /\ task[s].run = i

Job(i) ==
  LET queued == runs[i].state = "queued"
      over   == runs[i].state = "over" IN
  [event |-> runs[i].event,
   state |-> IF queued THEN "waiting" ELSE IF over THEN "closed"
             ELSE IF Sent(i) THEN "replied" ELSE "tried",
   tries |-> Retries - runs[i].left + (IF queued THEN 0 ELSE 1)]

jobs == [i \in DOMAIN runs |-> Job(i)]

Service == INSTANCE MessageReplies WITH promised <- acked, Tries <- Retries + 1

\* Lark is only told 200 for a message that has an invocation, or that a fault
\* has hit; Lambda starts it once and Retries times more; each start replies
\* once at the most, and the invocation that ends without an error has replied
\* since it was started, or a fault has hit it (router/index.py:117-144, 154-202).
RepliesAsPromised == Service!Spec
=============================================================================

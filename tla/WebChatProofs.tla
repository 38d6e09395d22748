--------------------------- MODULE WebChatProofs ---------------------------
(* The inductive invariant of WebChat and what follows from it: until a     *)
(* close event comes late, the socket the page uses is the only open one.   *)
EXTENDS WebChatRefinement, FiniteSetTheorems, SequenceTheorems, TLAPS

-----------------------------------------------------------------------------
(* The inductive invariant                                                 *)

(* TypeOK in two parts: the page, and what the agent changes.              *)
Job == [pc : {"none", "queued", "running", "done"},
        deltas : 0..MaxDeltas, failed : BOOLEAN]
Turn == [on : Chains \cup {NoSocket}, ended : BOOLEAN, failed : BOOLEAN]
Sending == [turn : Messages, exp : Nat]

PageOK ==
  /\ now \in Nat /\ stored \in Nat /\ idExp \in Nat /\ accessExp \in Nat
  /\ ws \in Chains \cup {NoSocket}
  /\ enabled \in BOOLEAN
  /\ bubbles \in Seq(SUBSET Messages)
  /\ bot \in 0..Len(bubbles)
  /\ sent \in 0..MaxMessages
  /\ chain \in [Chains -> {"none", "login", "session", "refresh", "connect",
                           "done", "failed"}]
  /\ turn \in [Messages -> Turn]
  /\ sock \in [Chains -> {"none", "connecting", "open", "closing", "closed"}]
  /\ late \in BOOLEAN
  /\ ws # NoSocket => sock[ws] # "none"

WireOK ==
  /\ up \in [Chains -> Seq(Sending)]
  /\ down \in [Chains -> Seq(Frame)]
  /\ srv \in [Chains -> Messages \cup {NoTurn}]
  /\ pool \in Seq(Messages)
  /\ job \in [Messages -> Job]

InProgress == {"login", "session", "refresh", "connect"}
Live       == {"queued", "running"}
Last       == {"final", "refused"}

\* The chain that opens a socket, and the turn it is opened for.
SockInv(j) ==
  /\ sock[j] \in {"open", "closing"} => chain[j] = "done"
  /\ sock[j] = "connecting" <=> chain[j] = "connect"
  /\ sock[j] = "closed" => chain[j] \in {"done", "failed"}
  /\ sock[j] # "open" => down[j] = << >>
  /\ sock[j] \in {"open", "closing"} /\ j \in Messages => turn[j].on = j

SendInv(m) ==
  /\ m > sent => chain[m] = "none"
  /\ chain[m] # "done" => turn[m].on = NoSocket
  /\ turn[m].on # NoSocket => sock[turn[m].on] \notin {"none", "connecting"}

\* Boot is over before anything is sent.
BootInv ==
  chain[0] \in InProgress => ~enabled /\ sent = 0 /\ bot = NoBubble

PageInv ==
  /\ \A j \in Chains : SockInv(j)
  /\ \A m \in Messages : SendInv(m)
  /\ BootInv

\* A message is sent once.
UpInv(j) ==
  /\ \A i \in 1..Len(up[j]) :
       LET n == up[j][i].turn IN
         /\ turn[n].on = j /\ ~turn[n].ended
         /\ job[n].pc = "none"
         /\ \A k \in 1..Len(down[j]) : down[j][k].turn # n
  /\ \A i, k \in 1..Len(up[j]) : up[j][i].turn = up[j][k].turn => i = k

\* The turns on a socket do not overlap, and the last frame of each is the
\* only one that ends it unless it has failed.
DownInv(j) ==
  /\ \A i \in 1..Len(down[j]) :
       LET f == down[j][i] IN
         /\ turn[f.turn].on = j
         /\ f.kind \in Last => job[f.turn].pc \notin Live
         /\ turn[f.turn].ended => turn[f.turn].failed
         /\ f.kind = "delta" =>
              IF i = Len(down[j]) THEN srv[j] = f.turn
                                  ELSE down[j][i + 1].turn = f.turn
  /\ \A i, k \in 1..Len(down[j]) :
       i < k /\ down[j][i].turn = down[j][k].turn => down[j][i].kind \notin Last

\* The handler of its socket forwards each turn that is at work, and a message
\* that has not been sent has no turn.
JobInv(m) ==
  /\ job[m].pc \in Live =>
       /\ turn[m].on # NoSocket /\ srv[turn[m].on] = m
       /\ turn[m].ended => turn[m].failed
  /\ turn[m].on = NoSocket => ~turn[m].ended /\ job[m].pc = "none"

PoolInv ==
  /\ \A i \in 1..Len(pool) : job[pool[i]].pc = "queued"
  /\ \A i, k \in 1..Len(pool) : pool[i] = pool[k] => i = k

FlowInv ==
  /\ \A j \in Chains : UpInv(j) /\ DownInv(j)
  /\ \A m \in Messages : JobInv(m)
  /\ PoolInv

\* One socket at a time.
OneSocket ==
  ~late =>
    /\ \A j \in Chains : sock[j] = "open" => ws = j
    /\ \A j \in Chains :
         chain[j] \in InProgress =>
           /\ ~enabled
           /\ \A k \in Chains : sock[k] # "open"
           /\ \A k \in Chains \ {j} : chain[k] \notin InProgress

\* The next frame of the open socket belongs to the turn of the open bubble.
OneBubble ==
  ~late =>
    /\ \A b \in 1..Len(bubbles) : \E m \in Messages : bubbles[b] = {m}
    /\ bot # NoBubble =>
         \A j \in Chains :
           sock[j] = "open" =>
             bubbles[bot] = IF down[j] = << >> THEN {srv[j]}
                                               ELSE {down[j][1].turn}

\* One message waits at a time.
OneWaits ==
  (~late /\ \A m \in Messages : ~turn[m].failed) =>
    \A m, n \in Messages : Awaiting(m) /\ Awaiting(n) => m = n

IInv ==
  /\ PageOK /\ WireOK
  /\ PageInv
  /\ FlowInv
  /\ OneSocket /\ OneBubble /\ OneWaits /\ BusyUntilFailure

-----------------------------------------------------------------------------
(* Preliminaries                                                           *)

LEMMA TypeParts == TypeOK <=> PageOK /\ WireOK
BY DEF TypeOK, PageOK, WireOK, Job, Turn, Sending

LEMMA Constants ==
  /\ Life \in Nat \ {0} /\ Skew \in Nat /\ Workers \in Nat \ {0}
  /\ MaxMessages \in Nat /\ MaxDeltas \in Nat /\ MaxTime \in Nat
  /\ Messages \subseteq Chains /\ 0 \in Chains /\ NoSocket \notin Chains
  /\ NoTurn \notin Messages
BY WebChatAssumption DEF Messages, Chains, NoSocket, NoTurn

LEMMA Appending ==
  ASSUME NEW S, NEW s \in Seq(S), NEW e \in S
  PROVE  /\ Append(s, e) \in Seq(S) /\ Len(s) \in Nat
         /\ Len(Append(s, e)) = Len(s) + 1
         /\ Append(s, e) # << >>
         /\ \A i \in 1..Len(s) : Append(s, e)[i] = s[i]
         /\ Append(s, e)[Len(s) + 1] = e
         /\ s = << >> <=> Len(s) = 0
OBVIOUS

LEMMA Removing ==
  ASSUME NEW S, NEW s \in Seq(S), s # << >>
  PROVE  /\ Tail(s) \in Seq(S) /\ Len(s) \in Nat \ {0}
         /\ Len(Tail(s)) = Len(s) - 1 /\ Len(Tail(s)) \in Nat
         /\ Head(s) = s[1] /\ s[1] \in S
         /\ \A i \in 1..Len(Tail(s)) : Tail(s)[i] = s[i + 1]
         /\ Tail(s) = << >> <=> Len(s) = 1
<1>1. /\ Tail(s) \in Seq(S) /\ Len(Tail(s)) = Len(s) - 1
      /\ \A i \in 1..Len(Tail(s)) : Tail(s)[i] = s[i + 1]
  BY HeadTailProperties
<1>2. Len(s) \in Nat \ {0} /\ Head(s) = s[1] /\ s[1] \in S
  OBVIOUS
<1>3. \A r \in Seq(S) : r = << >> <=> Len(r) = 0
  OBVIOUS
<1>4. Tail(s) = << >> <=> Len(Tail(s)) = 0
  BY <1>1, <1>3
<1>5. Len(s) - 1 \in Nat /\ (Len(s) - 1 = 0 <=> Len(s) = 1)
  BY <1>2
<1>. QED
  BY <1>1, <1>2, <1>4, <1>5

\* Every frame that is under way is a frame.
LEMMA FrameFacts ==
  ASSUME WireOK, NEW j \in Chains, NEW i \in 1..Len(down[j])
  PROVE  down[j][i] \in Frame /\ down[j][i].turn \in Messages
<1>1. down[j] \in Seq(Frame)
  BY DEF WireOK
<1>2. down[j][i] \in Frame
  BY <1>1
<1>. QED
  BY <1>2 DEF Frame

LEMMA UpFacts ==
  ASSUME WireOK, NEW j \in Chains, NEW i \in 1..Len(up[j])
  PROVE  up[j][i] \in Sending /\ up[j][i].turn \in Messages
<1>1. up[j] \in Seq(Sending)
  BY DEF WireOK
<1>2. up[j][i] \in Sending
  BY <1>1
<1>. QED
  BY <1>2 DEF Sending

LEMMA InitInv == Init => IInv
<1>. SUFFICES ASSUME Init PROVE IInv
  OBVIOUS
<1>1. PageOK /\ WireOK
  <2>1. NoJob \in Job
    BY Constants DEF Job, NoJob
  <2>2. stored \in Nat
    BY Constants DEF Init
  <2>3. /\ chain \in [Chains -> {"none", "login", "session", "refresh",
                              "connect", "done", "failed"}]
        /\ turn \in [Messages -> Turn]
        /\ sock \in [Chains -> {"none", "connecting", "open", "closing",
                             "closed"}]
    BY DEF Init, Turn
  <2>5. /\ bubbles \in Seq(SUBSET Messages) /\ bot \in 0..Len(bubbles)
        /\ sent \in 0..MaxMessages /\ ws = NoSocket
    BY Constants DEF Init, NoBubble
  <2>6. PageOK
    BY <2>2, <2>3, <2>5 DEF Init, PageOK
  <2>4. WireOK
    BY <2>1 DEF Init, WireOK
  <2>. QED
    BY <2>4, <2>6
<1>2. PageInv
  <2>1. ASSUME NEW j \in Chains PROVE SockInv(j)
    BY <2>1 DEF Init, SockInv
  <2>2. ASSUME NEW m \in Messages PROVE SendInv(m)
    BY <2>2, Constants DEF Init, SendInv, Messages, Chains
  <2>. QED
    BY <2>1, <2>2 DEF Init, PageInv, BootInv
<1>3. FlowInv
  <2>1. ASSUME NEW j \in Chains PROVE UpInv(j) /\ DownInv(j)
    BY <2>1 DEF Init, UpInv, DownInv
  <2>2. ASSUME NEW m \in Messages PROVE JobInv(m)
    BY <2>2 DEF Init, JobInv, NoJob, Live
  <2>3. PoolInv
    BY DEF Init, PoolInv
  <2>. QED
    BY <2>1, <2>2, <2>3 DEF FlowInv
<1>4. OneSocket
  <2>1. \A j \in Chains : chain[j] \in InProgress => j = 0
    BY DEF Init, InProgress
  <2>. QED
    BY <2>1 DEF Init, OneSocket
<1>5. OneBubble
  BY DEF Init, OneBubble
<1>6. \A m \in Messages : ~Awaiting(m)
  BY Constants DEF Init, Awaiting, Messages, Chains
<1>7. OneWaits /\ BusyUntilFailure
  BY <1>6 DEF OneWaits, BusyUntilFailure
<1>. QED
  BY <1>1, <1>2, <1>3, <1>4, <1>5, <1>7 DEF IInv

-----------------------------------------------------------------------------
(* The agent                                                               *)

\* The steps of the agent change what is on the wires of open sockets only.
LEMMA AgentKeeps ==
  ASSUME IInv, UNCHANGED <<page, sock, late>>, now' \in Nat,
         \A j \in Chains : sock[j] # "open" => down'[j] = down[j]
  PROVE  PageOK' /\ PageInv' /\ OneSocket' /\ OneWaits' /\ BusyUntilFailure'
<1>1. PageOK'
  BY DEF IInv, PageOK, page, tokens
<1>2. PageInv'
  BY DEF IInv, PageInv, SockInv, SendInv, BootInv, page
<1>3. OneSocket'
  BY DEF IInv, OneSocket, page
<1>4. \A m \in Messages : Awaiting(m)' <=> Awaiting(m)
  BY DEF Awaiting, page
<1>5. OneWaits' /\ BusyUntilFailure'
  BY <1>4 DEF IInv, OneWaits, BusyUntilFailure, page
<1>. QED
  BY <1>1, <1>2, <1>3, <1>5

\* A frame of turn m is sent: what the wires look like then.
LEMMA Sent ==
  ASSUME IInv, NEW m \in Messages, turn[m].on \in Chains,
         NEW k \in {"delta", "final", "error", "refused"}, Send(m, k)
  PROVE  /\ down' \in [Chains -> Seq(Frame)]
         /\ \A i \in Chains :
              i # turn[m].on \/ sock[i] # "open" => down'[i] = down[i]
         /\ sock[turn[m].on] = "open" =>
              down'[turn[m].on]
                = Append(down[turn[m].on], [kind |-> k, turn |-> m])
         /\ [kind |-> k, turn |-> m] \in Frame
<1>1. down \in [Chains -> Seq(Frame)] /\ [kind |-> k, turn |-> m] \in Frame
  BY DEF IInv, WireOK, Frame
<1>2. Append(down[turn[m].on], [kind |-> k, turn |-> m]) \in Seq(Frame)
  BY <1>1, Appending
<1>. QED
  BY <1>1, <1>2 DEF Send

\* ... and that the turns still do not overlap, when m's handler is the one that
\* sends, or none and m has just been taken from the wire.
LEMMA SentInOrder ==
  ASSUME IInv, NEW m \in Messages, turn[m].on \in Chains,
         NEW k \in {"delta", "final", "error", "refused"}, Send(m, k),
         UNCHANGED turn, job' \in [Messages -> Job], srv' \in [Chains -> Messages \cup {NoTurn}],
         srv[turn[m].on] \in {m, NoTurn},
         \A n \in Messages : job'[n].pc \in Live => job[n].pc \in Live,
         turn[m].ended => turn[m].failed,
         \A i \in Chains \ {turn[m].on} : srv'[i] = srv[i],
         k \in Last => job'[m].pc \notin Live,
         k = "delta" => srv'[turn[m].on] = m,
         sock[turn[m].on] = "open" =>
           \A i \in 1..Len(down[turn[m].on]) :
             down[turn[m].on][i].turn = m =>
               down[turn[m].on][i].kind \notin Last
  PROVE  \A j \in Chains : DownInv(j)'
<1>. SUFFICES ASSUME NEW j \in Chains PROVE DownInv(j)'
  OBVIOUS
<1>0. WireOK /\ DownInv(j) /\ down[j] \in Seq(Frame) /\ Len(down[j]) \in Nat
  BY DEF IInv, FlowInv, WireOK
<1>1. CASE sock[j] # "open"
  <2>2. down[j] = << >> /\ down'[j] = down[j]
    BY ZenonT(60), <1>1, Sent DEF IInv, PageInv, SockInv
  <2>3. 1..Len(down'[j]) = {}
    BY <2>2
  <2>. QED
    BY <2>3 DEF DownInv
<1>2. CASE j # turn[m].on
  <2>1. down'[j] = down[j] /\ srv'[j] = srv[j]
    BY ZenonT(60), <1>2, Sent
  <2>2. \A i \in 1..Len(down[j]) : down[j][i].turn \in Messages
    BY <1>0, FrameFacts
  <2>. QED
    BY <1>0, <2>1, <2>2 DEF DownInv
<1>3. CASE sock[j] = "open" /\ j = turn[m].on
  <2>. PICK f : f = [kind |-> k, turn |-> m]
    OBVIOUS
  <2>1. /\ down'[j] = Append(down[j], f) /\ f \in Frame
        /\ f.kind = k /\ f.turn = m
    BY ZenonT(60), <1>3, Sent
  <2>. PICK N \in Nat : N = Len(down[j])
    BY <1>0
  <2>2. /\ Len(down'[j]) = N + 1
        /\ \A i \in 1..N : down'[j][i] = down[j][i]
        /\ down'[j][N + 1] = f
    BY <1>0, <2>1, Appending
  <2>3. \A i \in 1..N : down[j][i].turn \in Messages
    BY <1>0, FrameFacts
  <2>4. N # 0 => (down[j][N].kind = "delta" => down[j][N].turn = m)
    <3>1. CASE N # 0 /\ down[j][N].kind = "delta"
      <4>1. N \in 1..Len(down[j]) /\ N = Len(down[j])
        BY <3>1
      <4>2. srv[j] = down[j][N].turn
        BY <1>0, <3>1, <4>1 DEF DownInv
      <4>3. down[j][N].turn # NoTurn
        BY <2>3, <4>1, Constants
      <4>. QED
        BY <1>3, <4>2, <4>3
    <3>. QED
      BY <3>1
  <2>5. ASSUME NEW i \in 1..Len(down'[j])
        PROVE  LET g == down'[j][i] IN
                 /\ turn'[g.turn].on = j
                 /\ g.kind \in Last => job'[g.turn].pc \notin Live
                 /\ turn'[g.turn].ended => turn'[g.turn].failed
                 /\ g.kind = "delta" =>
                      IF i = Len(down'[j]) THEN srv'[j] = g.turn
                                           ELSE down'[j][i + 1].turn = g.turn
    <3>1. CASE i = N + 1
      <4>1. down'[j][i] = f /\ i = Len(down'[j])
        BY <2>2, <3>1
      <4>2. /\ f.kind \in Last => job'[m].pc \notin Live
            /\ turn'[m].on = j
            /\ turn'[m].ended => turn'[m].failed
            /\ f.kind = "delta" => srv'[j] = m
        BY <1>3, <2>1
      <4>. QED
        BY <2>1, <4>1, <4>2
    <3>2. CASE i \in 1..N
      <4>1. /\ turn[down[j][i].turn].on = j
            /\ down[j][i].kind \in Last => job[down[j][i].turn].pc \notin Live
            /\ turn[down[j][i].turn].ended => turn[down[j][i].turn].failed
        BY <1>0, <3>2 DEF DownInv
      <4>2. down[j][i].kind = "delta" => down'[j][i + 1].turn = down[j][i].turn
        <5>1. CASE i = N
          BY <2>1, <2>2, <2>4, <3>2, <5>1
        <5>2. CASE i # N
          <6>1. i + 1 \in 1..N
            BY <3>2, <5>2
          <6>. QED
            BY <1>0, <2>2, <3>2, <5>2, <6>1 DEF DownInv
        <5>. QED
          BY <5>1, <5>2
      <4>. QED
        BY SMTT(30), <2>2, <2>3, <3>2, <4>1, <4>2
    <3>. QED
      BY <2>2, <2>5, <3>1, <3>2
  <2>6. ASSUME NEW i \in 1..Len(down'[j]), NEW l \in 1..Len(down'[j]),
               i < l, down'[j][i].turn = down'[j][l].turn
        PROVE  down'[j][i].kind \notin Last
    <3>1. i \in 1..N /\ (l = N + 1 \/ l \in 1..N)
      BY <2>2, <2>6
    <3>2. CASE l = N + 1
      <4>1. down[j][i].turn = m
        BY <2>1, <2>2, <2>6, <3>1, <3>2
      <4>. QED
        BY <1>3, <2>2, <3>1, <4>1
    <3>3. CASE l \in 1..N
      BY <1>0, <2>2, <2>6, <3>1, <3>3 DEF DownInv
    <3>. QED
      BY <3>1, <3>2, <3>3
  <2>. QED
    BY <2>5, <2>6 DEF DownInv
<1>. QED
  BY <1>1, <1>2, <1>3

\* ... or into the bubble of another turn.
LEMMA SentToBubble ==
  ASSUME IInv, NEW m \in Messages, turn[m].on \in Chains,
         NEW k \in {"delta", "final", "error", "refused"}, Send(m, k),
         UNCHANGED <<page, sock, late>>,
         srv[turn[m].on] \in {m, NoTurn},
         \A i \in Chains \ {turn[m].on} : srv'[i] = srv[i]
  PROVE  OneBubble'
<1>. SUFFICES ASSUME ~late
              PROVE  /\ \A b \in 1..Len(bubbles) : \E n \in Messages : bubbles[b] = {n}
                     /\ bot # NoBubble =>
                          \A j \in Chains :
                            sock[j] = "open" =>
                              bubbles[bot] = IF down'[j] = << >>
                                               THEN {srv'[j]}
                                               ELSE {down'[j][1].turn}
  BY DEF OneBubble, page
<1>1. \A b \in 1..Len(bubbles) : \E n \in Messages : bubbles[b] = {n}
  BY DEF IInv, OneBubble
<1>2. ASSUME bot # NoBubble, NEW j \in Chains, sock[j] = "open"
      PROVE  bubbles[bot] = IF down'[j] = << >> THEN {srv'[j]}
                                               ELSE {down'[j][1].turn}
  <2>1. bubbles[bot] = IF down[j] = << >> THEN {srv[j]} ELSE {down[j][1].turn}
    BY <1>2 DEF IInv, OneBubble
  <2>2. CASE j # turn[m].on
    BY <2>1, <2>2, Sent
  <2>3. CASE j = turn[m].on
    <3>. PICK f : f = [kind |-> k, turn |-> m]
      OBVIOUS
    <3>1. /\ down'[j] = Append(down[j], f) /\ f \in Frame /\ f.turn = m
          /\ down[j] \in Seq(Frame)
      BY <1>2, <2>3, Sent DEF IInv, WireOK
    <3>2. CASE down[j] = << >>
      <4>1. bot \in 1..Len(bubbles)
        BY <1>2 DEF IInv, PageOK, NoBubble
      <4>2. bubbles[bot] # {NoTurn}
        BY SMTT(60), <1>1, <4>1, Constants
      <4>3. bubbles[bot] = {m}
        BY <2>1, <2>3, <3>2, <4>2
      <4>4. down'[j] # << >> /\ down'[j][1] = f
        BY <3>1, <3>2
      <4>. QED
        BY <3>1, <4>3, <4>4
    <3>3. CASE down[j] # << >>
      <4>1. down'[j] # << >> /\ down'[j][1] = down[j][1]
        BY <3>1, <3>3
      <4>. QED
        BY <2>1, <3>3, <4>1
    <3>. QED
      BY <3>2, <3>3
  <2>. QED
    BY <2>2, <2>3
<1>. QED
  BY <1>1, <1>2

\* The turn at work in a thread puts a frame on its queue, and ends or not.
LEMMA WorkStep ==
  ASSUME IInv, NEW m \in Messages, job[m].pc = "running",
         NEW k \in {"delta", "final", "error"}, Send(m, k),
         UNCHANGED <<now, page, sock, up, pool, late>>,
         NEW g \in Job, job' = [job EXCEPT ![m] = g],
         g.pc \in {"running", "done"}, k \in Last => g.pc = "done",
         srv' = IF g.pc = "done" THEN [srv EXCEPT ![turn[m].on] = NoTurn] ELSE srv,
         k = "delta" => g.pc = "running"
  PROVE  IInv'
<1>1. /\ PageOK /\ WireOK /\ FlowInv
      /\ \A n \in Messages : turn[n] \in Turn /\ turn[n].on \in Chains \cup {NoSocket}
      /\ job[m].pc \in Live
  BY DEF IInv, PageOK, Turn, Live
<1>2. /\ turn[m].on \in Chains /\ srv[turn[m].on] = m
      /\ turn[m].ended => turn[m].failed
  BY <1>1 DEF FlowInv, JobInv
<1>3. job' \in [Messages -> Job] /\ job'[m] = g
      /\ \A n \in Messages \ {m} : job'[n] = job[n]
  BY <1>1 DEF WireOK
<1>4. /\ srv' \in [Chains -> Messages \cup {NoTurn}]
      /\ \A i \in Chains \ {turn[m].on} : srv'[i] = srv[i]
      /\ g.pc = "running" => srv'[turn[m].on] = m
  BY <1>1, <1>2 DEF WireOK
<1>5. turn' = turn /\ now' = now
  BY DEF page
<1>6. /\ down' \in [Chains -> Seq(Frame)]
      /\ \A i \in Chains : i # turn[m].on \/ sock[i] # "open" => down'[i] = down[i]
      /\ sock[turn[m].on] = "open" =>
           down'[turn[m].on]
             = Append(down[turn[m].on], [kind |-> k, turn |-> m])
  BY <1>2, Sent
<1>7. WireOK'
  BY <1>1, <1>3, <1>4, <1>6 DEF WireOK
<1>8. PageOK' /\ PageInv' /\ OneSocket' /\ OneWaits' /\ BusyUntilFailure'
  BY <1>1, <1>5, <1>6, AgentKeeps DEF PageOK
<1>9. OneBubble'
  BY <1>2, <1>4, SentToBubble
<1>10. \A j \in Chains : DownInv(j)'
  <2>1. \A n \in Messages : job'[n].pc \in Live => job[n].pc \in Live
    BY <1>1, <1>3
  <2>2. \A i \in 1..Len(down[turn[m].on]) :
          down[turn[m].on][i].turn = m => down[turn[m].on][i].kind \notin Last
    BY <1>1, <1>2 DEF FlowInv, DownInv
  <2>3. k \in Last => job'[m].pc \notin Live
    BY <1>3 DEF Live
  <2>4. k = "delta" => srv'[turn[m].on] = m
    BY <1>4
  <2>. QED
    BY <1>2, <1>3, <1>4, <1>5, <2>1, <2>2, <2>3, <2>4, SentInOrder
<1>11. ASSUME NEW j \in Chains PROVE UpInv(j)'
  <2>1. UpInv(j) /\ up'[j] = up[j]
    BY <1>1 DEF FlowInv
  <2>2. ASSUME NEW i \in 1..Len(up[j])
        PROVE  LET n == up[j][i].turn IN
                 /\ turn[n].on = j /\ ~turn[n].ended /\ job'[n].pc = "none"
                 /\ \A l \in 1..Len(down'[j]) : down'[j][l].turn # n
    <3>. PICK n \in Messages : n = up[j][i].turn
      BY <1>1, UpFacts
    <3>1. /\ turn[n].on = j /\ ~turn[n].ended /\ job[n].pc = "none"
          /\ \A l \in 1..Len(down[j]) : down[j][l].turn # n
      BY <2>1 DEF UpInv
    <3>2. n # m /\ job'[n] = job[n]
      BY <1>3, <3>1
    <3>3. ASSUME NEW l \in 1..Len(down'[j]) PROVE down'[j][l].turn # n
      <4>1. CASE down'[j] = down[j]
        BY <3>1, <3>3, <4>1
      <4>2. CASE j = turn[m].on /\ sock[j] = "open"
        <5>. PICK f : f = [kind |-> k, turn |-> m]
          OBVIOUS
        <5>1. /\ down'[j] = Append(down[j], f) /\ f \in Frame /\ f.turn = m
              /\ down[j] \in Seq(Frame)
          BY <1>1, <1>6, <4>2 DEF Frame, WireOK
        <5>2. l = Len(down[j]) + 1 \/ l \in 1..Len(down[j])
          BY <3>3, <5>1
        <5>. QED
          BY <3>1, <3>2, <5>1, <5>2, Appending
      <4>. QED
        BY <1>6, <4>1, <4>2
    <3>. QED
      BY <3>1, <3>2, <3>3
  <2>. QED
    BY <1>5, <2>1, <2>2 DEF UpInv
<1>12. ASSUME NEW n \in Messages PROVE JobInv(n)'
  <2>1. CASE n = m
    BY <1>2, <1>3, <1>4, <1>5, <2>1, Constants DEF JobInv, Live
  <2>2. CASE n # m
    <3>1. JobInv(n) /\ job'[n] = job[n]
      BY <1>1, <1>3, <2>2 DEF FlowInv
    <3>. QED
      BY <1>1, <1>2, <1>4, <1>5, <2>2, <3>1 DEF JobInv
  <2>. QED
    BY <2>1, <2>2
<1>13. PoolInv'
  <2>1. PoolInv /\ pool' = pool /\ \A i \in 1..Len(pool) : pool[i] \in Messages
    BY <1>1 DEF FlowInv, WireOK
  <2>. QED
    BY <1>3, <2>1 DEF PoolInv
<1>. QED
  BY <1>7, <1>8, <1>9, <1>10, <1>11, <1>12, <1>13 DEF IInv, FlowInv

LEMMA WorkSteps ==
  ASSUME IInv, NEW m \in Messages, Delta(m) \/ Raise(m) \/ Final(m)
  PROVE  IInv'
<1>1. job \in [Messages -> Job] /\ job[m] \in Job
  BY DEF IInv, WireOK
<1>2. CASE Delta(m)
  <2>1. job[m].deltas + 1 \in 0..MaxDeltas
    BY <1>1, <1>2, Constants DEF Delta, Job
  <2>. PICK g : g = [job[m] EXCEPT !.deltas = job[m].deltas + 1]
    OBVIOUS
  <2>2. g \in Job /\ g.pc = "running" /\ job' = [job EXCEPT ![m] = g]
    BY <1>1, <1>2, <2>1 DEF Delta, Job
  <2>. QED
    BY <1>2, <2>2, WorkStep DEF Delta, Last
<1>3. CASE Raise(m)
  <2>. PICK g : g = [job[m] EXCEPT !.failed = TRUE]
    OBVIOUS
  <2>2. g \in Job /\ g.pc = "running" /\ job' = [job EXCEPT ![m] = g]
    BY <1>1, <1>3 DEF Raise, Job
  <2>. QED
    BY <1>3, <2>2, WorkStep DEF Raise, Last
<1>4. CASE Final(m)
  <2>. PICK g : g = [job[m] EXCEPT !.pc = "done"]
    OBVIOUS
  <2>2. g \in Job /\ g.pc = "done" /\ job' = [job EXCEPT ![m] = g]
    BY <1>1, <1>4 DEF Final, Job
  <2>. QED
    BY <1>4, <2>2, WorkStep DEF Final, Last
<1>. QED
  BY <1>2, <1>3, <1>4

LEMMA TickStep == IInv /\ Tick => IInv'
<1>. SUFFICES ASSUME IInv, Tick PROVE IInv'
  OBVIOUS
<1>1. now' \in Nat /\ UNCHANGED <<page, net, agent, late>>
  BY DEF IInv, PageOK, Tick
<1>2. PageOK' /\ PageInv' /\ OneSocket' /\ OneWaits' /\ BusyUntilFailure'
  BY <1>1, AgentKeeps DEF net
<1>3. WireOK'
  BY <1>1 DEF IInv, WireOK, net, agent
<1>4. FlowInv'
  <2>1. FlowInv /\ UNCHANGED <<up, down, turn, srv, pool, job>>
    BY <1>1 DEF IInv, net, agent, page
  <2>. QED
    BY <2>1 DEF FlowInv, UpInv, DownInv, JobInv, PoolInv
<1>5. OneBubble'
  BY <1>1 DEF IInv, OneBubble, net, agent, page
<1>. QED
  BY <1>2, <1>3, <1>4, <1>5 DEF IInv

LEMMA RunStep == IInv /\ Run => IInv'
<1>. SUFFICES ASSUME IInv, Run PROVE IInv'
  OBVIOUS
<1>1. /\ PageOK /\ WireOK /\ FlowInv /\ UNCHANGED <<now, page, net, srv, late>>
      /\ pool \in Seq(Messages) /\ pool # << >> /\ now \in Nat
  BY DEF IInv, Run, PageOK, WireOK
<1>. PICK m : m = Head(pool)
  OBVIOUS
<1>2. /\ m = pool[1] /\ m \in Messages /\ pool' \in Seq(Messages)
      /\ Len(pool') = Len(pool) - 1 /\ Len(pool) \in Nat \ {0}
      /\ \A i \in 1..Len(pool') : pool'[i] = pool[i + 1]
  BY <1>1, Removing DEF Run
<1>. PICK g : g = [job[m] EXCEPT !.pc = "running"]
  OBVIOUS
<1>3. /\ job[m] \in Job /\ job' = [job EXCEPT ![m] = g]
      /\ job[m].pc = "queued"
  <2>1. 1 \in 1..Len(pool)
    BY <1>2
  <2>2. job[pool[1]].pc = "queued"
    BY <1>1, <2>1 DEF FlowInv, PoolInv
  <2>. QED
    BY <1>1, <1>2, <2>2 DEF Run, WireOK
<1>4. g \in Job /\ g.pc = "running"
  BY <1>3 DEF Job
<1>5. /\ job' \in [Messages -> Job] /\ job'[m] = g
      /\ \A n \in Messages \ {m} : job'[n] = job[n]
  BY <1>1, <1>2, <1>3, <1>4 DEF WireOK
<1>6. /\ \A n \in Messages : job'[n].pc \in Live <=> job[n].pc \in Live
      /\ \A n \in Messages : job[n].pc = "none" => job'[n].pc = "none"
  BY <1>3, <1>4, <1>5 DEF Live
<1>7. PageOK' /\ PageInv' /\ OneSocket' /\ OneWaits' /\ BusyUntilFailure'
  BY <1>1, AgentKeeps DEF net
<1>8. WireOK'
  BY <1>1, <1>2, <1>5 DEF WireOK, net
<1>9. OneBubble'
  BY <1>1 DEF IInv, OneBubble, net, page
<1>10. ASSUME NEW j \in Chains PROVE UpInv(j)' /\ DownInv(j)'
  <2>1. UpInv(j) /\ DownInv(j) /\ UNCHANGED <<up, down, turn, srv>>
    BY <1>1 DEF FlowInv, net, page
  <2>2. UpInv(j)'
    BY <1>1, <1>6, <2>1, UpFacts DEF UpInv
  <2>3. DownInv(j)'
    BY <1>1, <1>6, <2>1, FrameFacts DEF DownInv
  <2>. QED
    BY <2>2, <2>3
<1>11. ASSUME NEW n \in Messages PROVE JobInv(n)'
  BY <1>1, <1>6 DEF FlowInv, JobInv, page
<1>12. PoolInv'
  <2>1. ASSUME NEW i \in 1..Len(pool') PROVE job'[pool'[i]].pc = "queued"
    <3>1. i + 1 \in 1..Len(pool) /\ i + 1 # 1 /\ pool'[i] = pool[i + 1]
      BY <1>2
    <3>2. pool[i + 1] \in Messages \ {m} /\ job[pool[i + 1]].pc = "queued"
      <4>1. PoolInv /\ pool[i + 1] \in Messages /\ 1 \in 1..Len(pool)
        BY <1>1, <1>2, <3>1 DEF FlowInv
      <4>2. job[pool[i + 1]].pc = "queued" /\ pool[i + 1] # pool[1]
        BY <3>1, <4>1 DEF PoolInv
      <4>. QED
        BY <1>2, <4>1, <4>2
    <3>. QED
      BY <1>5, <3>1, <3>2
  <2>2. ASSUME NEW i \in 1..Len(pool'), NEW l \in 1..Len(pool'), pool'[i] = pool'[l]
        PROVE  i = l
    <3>1. /\ i + 1 \in 1..Len(pool) /\ l + 1 \in 1..Len(pool)
          /\ pool[i + 1] = pool[l + 1]
      BY <1>2, <2>2
    <3>2. i + 1 = l + 1
      BY <1>1, <3>1 DEF FlowInv, PoolInv
    <3>. QED
      BY <3>2
  <2>. QED
    BY <2>1, <2>2 DEF PoolInv
<1>. QED
  BY <1>7, <1>8, <1>9, <1>10, <1>11, <1>12 DEF IInv, FlowInv

\* The message at the head of the wire of socket j, and those behind it.
LEMMA TakeFacts ==
  ASSUME IInv, NEW j \in Chains, up[j] # << >>
  PROVE  /\ Head(up[j]).turn \in Messages
         /\ turn[Head(up[j]).turn].on = j
         /\ ~turn[Head(up[j]).turn].ended
         /\ job[Head(up[j]).turn].pc = "none"
         /\ \A k \in 1..Len(down[j]) : down[j][k].turn # Head(up[j]).turn
<1>1. up \in [Chains -> Seq(Sending)] /\ WireOK /\ UpInv(j)
  BY DEF IInv, WireOK, FlowInv
<1>2. Len(up[j]) \in Nat \ {0} /\ Head(up[j]) = up[j][1]
  BY <1>1, Removing
<1>3. 1 \in 1..Len(up[j]) /\ Head(up[j]).turn = up[j][1].turn
  BY <1>2
<1>. QED
  BY <1>1, <1>3, UpFacts DEF UpInv

LEMMA LeftFacts ==
  ASSUME IInv, NEW j \in Chains, up[j] # << >>, NEW i \in 1..Len(Tail(up[j]))
  PROVE  /\ i \in Nat /\ i + 1 \in 1..Len(up[j])
         /\ Tail(up[j])[i] = up[j][i + 1]
         /\ Tail(up[j])[i].turn \in Messages
         /\ Tail(up[j])[i].turn # Head(up[j]).turn
<1>1. up \in [Chains -> Seq(Sending)] /\ WireOK /\ UpInv(j)
  BY DEF IInv, WireOK, FlowInv
<1>2. /\ Len(up[j]) \in Nat \ {0} /\ Len(Tail(up[j])) = Len(up[j]) - 1
      /\ Head(up[j]) = up[j][1]
      /\ \A k \in 1..Len(Tail(up[j])) : Tail(up[j])[k] = up[j][k + 1]
  BY <1>1, Removing
<1>3. 1 \in 1..Len(up[j]) /\ i \in Nat
  BY <1>2
<1>4. i + 1 \in 1..Len(up[j]) /\ i + 1 # 1 /\ Tail(up[j])[i] = up[j][i + 1]
  BY <1>2
<1>5. up[j][i + 1].turn \in Messages
  BY <1>1, <1>4, UpFacts
<1>6. up[j][i + 1].turn # up[j][1].turn
  BY <1>1, <1>3, <1>4 DEF UpInv
<1>. QED
  BY <1>2, <1>3, <1>4, <1>5, <1>6

\* What is left on the wires to the agent.
LEMMA UpTaken ==
  ASSUME IInv, NEW j \in Chains, up[j] # << >>,
         up'[j] = Tail(up[j]), \A i \in Chains \ {j} : up'[i] = up[i],
         UNCHANGED turn,
         \A n \in Messages : n # Head(up[j]).turn => job'[n] = job[n],
         \A i \in Chains \ {j} : down'[i] = down[i],
         \A n \in Messages :
           /\ n # Head(up[j]).turn
           /\ \A k \in 1..Len(down[j]) : down[j][k].turn # n
           => \A k \in 1..Len(down'[j]) : down'[j][k].turn # n,
         NEW i \in Chains
  PROVE  UpInv(i)'
<1>2. WireOK /\ UpInv(i)
  BY DEF IInv, FlowInv
<1>3. CASE i # j
  <2>1. ASSUME NEW l \in 1..Len(up[i])
        PROVE  up[i][l].turn \in Messages /\ up[i][l].turn # Head(up[j]).turn
    BY <1>2, <1>3, UpFacts, TakeFacts DEF UpInv
  <2>2. \A l \in 1..Len(up[i]) :
          LET n == up[i][l].turn IN
            /\ turn'[n].on = i /\ ~turn'[n].ended
            /\ job'[n].pc = "none"
            /\ \A k \in 1..Len(down[i]) : down[i][k].turn # n
    BY <1>2, <2>1 DEF UpInv
  <2>3. up'[i] = up[i] /\ down'[i] = down[i]
    BY <1>3
  <2>. QED
    BY <1>2, <2>2, <2>3 DEF UpInv
<1>4. CASE i = j
  <2>1. ASSUME NEW l \in 1..Len(up'[j])
        PROVE  LET n == up'[j][l].turn IN
                 /\ turn'[n].on = j /\ ~turn'[n].ended
                 /\ job'[n].pc = "none"
                 /\ \A k \in 1..Len(down'[j]) : down'[j][k].turn # n
    <3>1. l \in 1..Len(Tail(up[j]))
      OBVIOUS
    <3>2. /\ l + 1 \in 1..Len(up[j]) /\ up'[j][l] = up[j][l + 1]
          /\ up'[j][l].turn \in Messages
          /\ up'[j][l].turn # Head(up[j]).turn
      BY <3>1, LeftFacts
    <3>. PICK n \in Messages : n = up'[j][l].turn
      BY <3>2
    <3>3. /\ turn[n].on = j /\ ~turn[n].ended /\ job[n].pc = "none"
          /\ \A k \in 1..Len(down[j]) : down[j][k].turn # n
      BY <1>2, <1>4, <3>2 DEF UpInv
    <3>. QED
      BY <3>2, <3>3
  <2>2. ASSUME NEW l \in 1..Len(up'[j]), NEW k \in 1..Len(up'[j]),
               up'[j][l].turn = up'[j][k].turn
        PROVE  l = k
    <3>1. l \in 1..Len(Tail(up[j])) /\ k \in 1..Len(Tail(up[j]))
      OBVIOUS
    <3>2. /\ l + 1 \in 1..Len(up[j]) /\ up'[j][l] = up[j][l + 1] /\ l \in Nat
      BY <3>1, LeftFacts
    <3>3. /\ k + 1 \in 1..Len(up[j]) /\ up'[j][k] = up[j][k + 1] /\ k \in Nat
      BY <3>1, LeftFacts
    <3>4. l + 1 = k + 1
      BY <1>2, <1>4, <2>2, <3>2, <3>3 DEF UpInv
    <3>. QED
      BY <3>2, <3>3, <3>4
  <2>. QED
    BY ZenonT(60), <1>4, <2>1, <2>2 DEF UpInv
<1>. QED
  BY <1>3, <1>4

LEMMA TakeStep ==
  ASSUME IInv, NEW j \in Chains, Take(j)
  PROVE  IInv'
<1>. PICK m : m = Head(up[j]).turn
  OBVIOUS
<1>1. /\ srv[j] = NoTurn /\ up[j] # << >>
      /\ up' = [up EXCEPT ![j] = Tail(@)]
      /\ UNCHANGED <<now, page, sock, late>> /\ turn' = turn
      /\ \/ /\ srv' = [srv EXCEPT ![j] = m]
            /\ pool' = Append(pool, m)
            /\ job' = [job EXCEPT ![m].pc = "queued"]
            /\ UNCHANGED down
         \/ Send(m, "refused") /\ UNCHANGED agent
  BY DEF Take, page
<1>6. /\ up' \in [Chains -> Seq(Sending)] /\ up'[j] = Tail(up[j])
      /\ \A i \in Chains \ {j} : up'[i] = up[i]
  <2>1. up \in [Chains -> Seq(Sending)]
    BY DEF IInv, WireOK
  <2>2. Tail(up[j]) \in Seq(Sending)
    BY <1>1, <2>1, Removing
  <2>. QED
    BY <1>1, <2>1, <2>2
<1>2. /\ m \in Messages
      /\ turn[m].on = j /\ ~turn[m].ended /\ job[m].pc = "none"
      /\ \A k \in 1..Len(down[j]) : down[j][k].turn # m
  BY <1>1, TakeFacts
<1>3. PageOK /\ WireOK /\ FlowInv /\ now' \in Nat
  BY <1>1 DEF IInv, PageOK
<1>4. CASE /\ srv' = [srv EXCEPT ![j] = m]
           /\ pool' = Append(pool, m)
           /\ job' = [job EXCEPT ![m].pc = "queued"]
           /\ UNCHANGED down
  <2>1. /\ job' \in [Messages -> Job] /\ job'[m].pc = "queued"
        /\ \A n \in Messages \ {m} : job'[n] = job[n]
    BY ZenonT(60), <1>2, <1>3, <1>4 DEF WireOK, Job
  <2>2. /\ srv' \in [Chains -> Messages \cup {NoTurn}] /\ srv'[j] = m
        /\ \A i \in Chains \ {j} : srv'[i] = srv[i]
    BY <1>2, <1>3, <1>4 DEF WireOK
  <2>3. /\ pool' \in Seq(Messages) /\ Len(pool) \in Nat
        /\ Len(pool') = Len(pool) + 1 /\ pool'[Len(pool) + 1] = m
        /\ \A i \in 1..Len(pool) : pool'[i] = pool[i] /\ pool[i] \in Messages
    BY <1>2, <1>3, <1>4, Appending DEF WireOK
  <2>4. PageOK' /\ PageInv' /\ OneSocket' /\ OneWaits' /\ BusyUntilFailure'
    BY <1>1, <1>3, <1>4, AgentKeeps
  <2>5. WireOK'
    BY <1>3, <1>4, <1>6, <2>1, <2>2, <2>3 DEF WireOK
  <2>6. \A i \in Chains : UpInv(i)'
    <3>1. \A n \in Messages : n # Head(up[j]).turn => job'[n] = job[n]
      BY <2>1
    <3>2. \A i \in Chains \ {j} : down'[i] = down[i]
      BY <1>4
    <3>3. \A n \in Messages :
            /\ n # Head(up[j]).turn
            /\ \A k \in 1..Len(down[j]) : down[j][k].turn # n
            => \A k \in 1..Len(down'[j]) : down'[j][k].turn # n
      BY <1>4
    <3>. QED
      BY <1>1, <1>6, <3>1, <3>2, <3>3, UpTaken
  <2>7. ASSUME NEW i \in Chains PROVE DownInv(i)'
    <3>1. DownInv(i) /\ down'[i] = down[i]
      BY <1>3, <1>4 DEF FlowInv
    <3>2. ASSUME NEW k \in 1..Len(down[i])
          PROVE  /\ down[i][k].turn \in Messages \ {m}
                 /\ down[i][k].kind = "delta" /\ k = Len(down[i]) => i # j
      <4>. PICK f : f = down[i][k]
        OBVIOUS
      <4>1. f.turn \in Messages
        BY <1>3, FrameFacts
      <4>2. /\ turn[f.turn].on = i
            /\ f.kind = "delta" /\ k = Len(down[i]) => srv[i] = f.turn
        BY <3>1 DEF DownInv
      <4>3. f.turn # m
        BY <1>2, <4>2
      <4>4. f.turn # NoTurn
        BY <4>1, Constants
      <4>. QED
        BY <1>1, <4>1, <4>2, <4>3, <4>4
    <3>. PICK d : d = down[i]
      OBVIOUS
    <3>3. \A k \in 1..Len(d) : job'[d[k].turn] = job[d[k].turn]
      BY <2>1, <3>2
    <3>4. ASSUME NEW k \in 1..Len(d)
          PROVE  LET f == d[k] IN
                   /\ turn'[f.turn].on = i
                   /\ f.kind \in Last => job'[f.turn].pc \notin Live
                   /\ turn'[f.turn].ended => turn'[f.turn].failed
                   /\ f.kind = "delta" =>
                        IF k = Len(d) THEN srv'[i] = f.turn
                                      ELSE d[k + 1].turn = f.turn
      <4>1. d[k].kind = "delta" /\ k = Len(d) => srv'[i] = srv[i]
        BY <2>2, <3>2
      <4>2. /\ turn[d[k].turn].on = i
            /\ d[k].kind \in Last => job[d[k].turn].pc \notin Live
            /\ turn[d[k].turn].ended => turn[d[k].turn].failed
            /\ d[k].kind = "delta" =>
                 IF k = Len(d) THEN srv[i] = d[k].turn
                               ELSE d[k + 1].turn = d[k].turn
        BY <3>1 DEF DownInv
      <4>3. job'[d[k].turn] = job[d[k].turn] /\ turn' = turn
        BY <1>1, <3>3
      <4>. QED
        BY <4>1, <4>2, <4>3
    <3>5. \A k, l \in 1..Len(d) :
            k < l /\ d[k].turn = d[l].turn => d[k].kind \notin Last
      BY <3>1 DEF DownInv
    <3>. QED
      BY <3>1, <3>4, <3>5 DEF DownInv
  <2>8. ASSUME NEW n \in Messages PROVE JobInv(n)'
    <3>1. CASE n = m
      BY <1>1, <1>2, <2>2, <3>1, Constants DEF JobInv
    <3>2. CASE n # m
      <4>1. JobInv(n) /\ job'[n] = job[n] /\ turn[n].on \in Chains \cup {NoSocket}
        BY <1>3, <2>1, <3>2 DEF FlowInv, PageOK, Turn
      <4>. QED
        BY <1>1, <2>2, <4>1, Constants DEF JobInv
    <3>. QED
      BY <3>1, <3>2
  <2>9. PoolInv'
    <3>1. \A i \in 1..Len(pool) : pool[i] \in Messages \ {m} /\ job[pool[i]].pc = "queued"
      BY <1>2, <1>3, <2>3 DEF FlowInv, PoolInv
    <3>2. ASSUME NEW i \in 1..Len(pool') PROVE job'[pool'[i]].pc = "queued"
      <4>1. i = Len(pool) + 1 \/ i \in 1..Len(pool)
        BY <2>3
      <4>. QED
        BY <2>1, <2>3, <3>1, <4>1
    <3>3. ASSUME NEW i \in 1..Len(pool'), NEW k \in 1..Len(pool'), pool'[i] = pool'[k]
          PROVE  i = k
      <4>1. /\ i = Len(pool) + 1 \/ i \in 1..Len(pool)
            /\ k = Len(pool) + 1 \/ k \in 1..Len(pool)
        BY <2>3
      <4>2. PoolInv
        BY <1>3 DEF FlowInv
      <4>. QED
        BY <2>3, <3>1, <3>3, <4>1, <4>2 DEF PoolInv
    <3>. QED
      BY <3>2, <3>3 DEF PoolInv
  <2>10. OneBubble'
    <3>1. ASSUME ~late, bot # NoBubble, NEW i \in Chains, sock[i] = "open"
          PROVE  bubbles[bot] = IF down[i] = << >> THEN {srv'[i]}
                                                  ELSE {down[i][1].turn}
      <4>1. /\ bubbles[bot] = IF down[i] = << >> THEN {srv[i]} ELSE {down[i][1].turn}
            /\ \A b \in 1..Len(bubbles) : \E n \in Messages : bubbles[b] = {n}
        BY <3>1 DEF IInv, OneBubble
      <4>4. bot \in 1..Len(bubbles)
        BY <1>3, <3>1 DEF PageOK, NoBubble
      <4>2. CASE i = j
        <5>1. bubbles[bot] # {NoTurn}
          BY <4>1, <4>4, Constants
        <5>. QED
          BY <1>1, <4>1, <4>2, <5>1
      <4>3. CASE i # j
        BY <2>2, <4>1, <4>3
      <4>. QED
        BY <4>2, <4>3
    <3>2. \A b \in 1..Len(bubbles) : ~late => \E n \in Messages : bubbles[b] = {n}
      BY DEF IInv, OneBubble
    <3>. QED
      BY <1>1, <1>4, <3>1, <3>2 DEF OneBubble, page
  <2>. QED
    BY <2>4, <2>5, <2>6, <2>7, <2>8, <2>9, <2>10 DEF IInv, FlowInv
<1>5. CASE Send(m, "refused") /\ UNCHANGED agent
  <2>1. UNCHANGED <<srv, pool, job>>
    BY <1>5 DEF agent
  <2>2. /\ down' \in [Chains -> Seq(Frame)]
        /\ \A i \in Chains : i # j \/ sock[i] # "open" => down'[i] = down[i]
        /\ sock[j] = "open" =>
             down'[j] = Append(down[j], [kind |-> "refused", turn |-> m])
        /\ [kind |-> "refused", turn |-> m] \in Frame
    BY <1>1, <1>2, <1>5, Sent
  <2>3. WireOK'
    BY <1>3, <1>6, <2>1, <2>2 DEF WireOK
  <2>4. PageOK' /\ PageInv' /\ OneSocket' /\ OneWaits' /\ BusyUntilFailure'
    BY <1>1, <1>3, <2>2, AgentKeeps
  <2>5. ASSUME NEW n \in Messages \ {m},
               \A k \in 1..Len(down[j]) : down[j][k].turn # n,
               NEW k \in 1..Len(down'[j])
        PROVE  down'[j][k].turn # n
    <3>. PICK f : f = [kind |-> "refused", turn |-> m]
      OBVIOUS
    <3>1. f \in Frame /\ f.turn = m /\ down[j] \in Seq(Frame)
      BY <1>3, <2>2 DEF WireOK
    <3>2. CASE sock[j] # "open"
      BY <2>2, <2>5, <3>2
    <3>3. CASE sock[j] = "open"
      <4>1. down'[j] = Append(down[j], f)
        BY <2>2, <3>3
      <4>2. k = Len(down[j]) + 1 \/ k \in 1..Len(down[j])
        BY <2>5, <3>1, <4>1
      <4>. QED
        BY <2>5, <3>1, <4>1, <4>2, Appending
    <3>. QED
      BY <3>2, <3>3
  <2>6. \A i \in Chains : UpInv(i)'
    <3>1. \A n \in Messages : n # Head(up[j]).turn => job'[n] = job[n]
      BY <2>1
    <3>2. \A i \in Chains \ {j} : down'[i] = down[i]
      BY <2>2
    <3>3. \A n \in Messages :
            /\ n # Head(up[j]).turn
            /\ \A k \in 1..Len(down[j]) : down[j][k].turn # n
            => \A k \in 1..Len(down'[j]) : down'[j][k].turn # n
      BY <2>5
    <3>. QED
      BY <1>1, <1>6, <3>1, <3>2, <3>3, UpTaken
  <2>7. \A i \in Chains : DownInv(i)'
    <3>1. job' \in [Messages -> Job] /\ srv' \in [Chains -> Messages \cup {NoTurn}]
      BY <2>3 DEF WireOK
    <3>2. job'[m].pc \notin Live
      BY <1>2, <2>1 DEF Live
    <3>. QED
      BY <1>1, <1>2, <1>5, <2>1, <3>1, <3>2, SentInOrder
  <2>8. OneBubble'
    BY <1>1, <1>2, <1>5, <2>1, SentToBubble
  <2>9. (\A n \in Messages : JobInv(n)') /\ PoolInv'
    BY <1>1, <1>3, <2>1 DEF FlowInv, JobInv, PoolInv
  <2>. QED
    BY <2>3, <2>4, <2>6, <2>7, <2>8, <2>9 DEF IInv, FlowInv
<1>. QED
  BY <1>1, <1>4, <1>5
-----------------------------------------------------------------------------
(* Sending                                                                 *)

\* Message m is put on the wire of socket s.
LEMMA Delivered ==
  ASSUME IInv, NEW m \in Messages, NEW s \in Chains, turn[m].on = NoSocket,
         Deliver(m, s), UNCHANGED <<down, agent>>
  PROVE  /\ WireOK' /\ FlowInv' /\ bot' = NoBubble
         /\ turn' \in [Messages -> Turn]
         /\ turn'[m].on = s /\ ~turn'[m].ended
         /\ turn'[m].failed = turn[m].failed
         /\ \A n \in Messages \ {m} : turn'[n] = turn[n]
<1>. PICK e : e = [turn |-> m, exp |-> accessExp]
  OBVIOUS
<1>. PICK t : t = [turn[m] EXCEPT !.on = s]
  OBVIOUS
<1>1. /\ WireOK /\ FlowInv /\ PageOK /\ e \in Sending /\ e.turn = m
      /\ turn[m] \in Turn /\ UNCHANGED <<srv, pool, job>>
  BY DEF IInv, PageOK, Sending, agent
<1>2. t \in Turn /\ t.on = s /\ t.ended = turn[m].ended /\ t.failed = turn[m].failed
  BY <1>1 DEF Turn
<1>3. turn' = [turn EXCEPT ![m] = t] /\ up' = [up EXCEPT ![s] = Append(@, e)]
  BY DEF Deliver
<1>4. /\ turn' \in [Messages -> Turn] /\ turn'[m] = t
      /\ \A n \in Messages \ {m} : turn'[n] = turn[n]
  BY <1>1, <1>2, <1>3 DEF PageOK
<1>5. ~turn[m].ended /\ job[m].pc = "none"
  BY <1>1 DEF FlowInv, JobInv
<1>6. /\ up[s] \in Seq(Sending) /\ up'[s] = Append(up[s], e)
      /\ up' \in [Chains -> Seq(Sending)]
      /\ \A j \in Chains \ {s} : up'[j] = up[j]
  <2>1. up \in [Chains -> Seq(Sending)]
    BY <1>1 DEF WireOK
  <2>2. Append(up[s], e) \in Seq(Sending)
    BY <1>1, <2>1, Appending
  <2>. QED
    BY <1>3, <2>1, <2>2
<1>7. WireOK'
  BY <1>1, <1>6 DEF WireOK
<1>8. ASSUME NEW j \in Chains, NEW k \in 1..Len(down[j])
      PROVE  down[j][k].turn \in Messages \ {m}
  BY <1>1, FrameFacts, Constants DEF FlowInv, DownInv
<1>9. ASSUME NEW j \in Chains, NEW i \in 1..Len(up[j])
      PROVE  up[j][i].turn \in Messages \ {m}
  BY <1>1, UpFacts, Constants DEF FlowInv, UpInv
<1>10. ASSUME NEW j \in Chains PROVE DownInv(j)'
  <2>1. DownInv(j)
    BY <1>1 DEF FlowInv
  <2>. QED
    BY <1>1, <1>4, <1>8, <2>1 DEF DownInv
<1>11. ASSUME NEW j \in Chains, j # s PROVE UpInv(j)'
  <2>1. UpInv(j) /\ up'[j] = up[j] /\ down' = down /\ job' = job
    BY <1>1, <1>6, <1>11 DEF FlowInv
  <2>2. \A i \in 1..Len(up[j]) : turn'[up[j][i].turn] = turn[up[j][i].turn]
    BY <1>4, <1>9
  <2>. QED
    BY <2>1, <2>2 DEF UpInv
<1>12. UpInv(s)'
  <2>. PICK N \in Nat : N = Len(up[s])
    BY <1>1, <1>6, Appending
  <2>1. /\ Len(up'[s]) = N + 1 /\ up'[s][N + 1] = e
        /\ \A i \in 1..N : up'[s][i] = up[s][i]
    BY <1>1, <1>6, Appending
  <2>2. UpInv(s)
    BY <1>1 DEF FlowInv
  <2>3. ASSUME NEW i \in 1..Len(up'[s])
        PROVE  LET n == up'[s][i].turn IN
                 /\ turn'[n].on = s /\ ~turn'[n].ended
                 /\ job'[n].pc = "none"
                 /\ \A k \in 1..Len(down'[s]) : down'[s][k].turn # n
    <3>1. CASE i = N + 1
      BY ZenonT(60), <1>1, <1>2, <1>4, <1>5, <1>8, <2>1, <3>1
    <3>2. CASE i \in 1..N
      <4>1. up'[s][i] = up[s][i] /\ up[s][i].turn \in Messages \ {m}
        BY <1>9, <2>1, <3>2
      <4>. QED
        BY <1>1, <1>4, <2>2, <3>2, <4>1 DEF UpInv
    <3>. QED
      BY <2>1, <3>1, <3>2
  <2>4. ASSUME NEW i \in 1..Len(up'[s]), NEW k \in 1..Len(up'[s]),
               up'[s][i].turn = up'[s][k].turn
        PROVE  i = k
    <3>1. (i = N + 1 \/ i \in 1..N) /\ (k = N + 1 \/ k \in 1..N)
      BY <2>1
    <3>2. \A l \in 1..N : up'[s][l].turn = up[s][l].turn /\ up[s][l].turn # m
      BY <1>9, <2>1
    <3>. QED
      BY <1>1, <2>1, <2>2, <2>4, <3>1, <3>2 DEF UpInv
  <2>. QED
    BY <2>3, <2>4 DEF UpInv
<1>13. ASSUME NEW n \in Messages PROVE JobInv(n)'
  <2>1. JobInv(n) /\ job' = job /\ srv' = srv
    BY <1>1 DEF FlowInv
  <2>2. CASE n = m
    BY <1>2, <1>4, <1>5, <2>1, <2>2, Constants DEF JobInv, Live
  <2>3. CASE n # m
    BY <1>4, <2>1, <2>3 DEF JobInv
  <2>. QED
    BY <2>2, <2>3
<1>14. PoolInv'
  BY <1>1 DEF FlowInv, PoolInv
<1>. QED
  BY <1>2, <1>4, <1>5, <1>7, <1>10, <1>11, <1>12, <1>13, <1>14
  DEF FlowInv, Deliver

\* Nothing is under way while the composer is enabled, and the next message has
\* no socket of its own yet.
LEMMA BeforeSubmit ==
  ASSUME IInv, sent < MaxMessages
  PROVE  /\ sent \in Nat /\ sent + 1 \in Messages
         /\ chain[sent + 1] = "none" /\ sock[sent + 1] = "none"
         /\ turn[sent + 1].on = NoSocket
<1>1. sent \in Nat /\ sent + 1 \in Messages /\ sent + 1 > sent
  BY Constants DEF IInv, PageOK, Messages
<1>2. chain[sent + 1] = "none" /\ turn[sent + 1].on = NoSocket
  BY <1>1 DEF IInv, PageInv, SendInv
<1>3. sock[sent + 1] = "none"
  BY <1>1, <1>2, Constants DEF IInv, PageOK, PageInv, SockInv
<1>. QED
  BY <1>1, <1>2, <1>3

LEMMA SubmitStep == IInv /\ Submit => IInv'
<1>. SUFFICES ASSUME IInv, Submit PROVE IInv'
  OBVIOUS
<1>. PICK m : m = sent + 1
  OBVIOUS
<1>1. /\ enabled /\ sent < MaxMessages /\ sent' = m /\ enabled' = FALSE
      /\ UNCHANGED <<now, stored, idExp, accessExp, ws, bubbles, sock, down,
                     srv, pool, job, late>>
  BY DEF Submit, Composer, tokens, agent
<1>2. /\ sent \in Nat /\ m \in Messages /\ m \in Chains /\ chain[m] = "none"
      /\ sock[m] = "none" /\ turn[m].on = NoSocket /\ m # 0
  BY <1>1, BeforeSubmit, Constants DEF Messages
<1>3. PageOK /\ WireOK /\ PageInv /\ FlowInv
  BY DEF IInv
<1>4. chain[0] \notin InProgress
  BY <1>1, <1>3 DEF PageInv, BootInv
<1>5. ~late => \A j \in Chains : chain[j] \notin InProgress
  BY <1>1 DEF IInv, OneSocket
<1>. PICK c : c = IF ws # NoSocket /\ sock[ws] = "open" THEN "done" ELSE "refresh"
  OBVIOUS
<1>6. /\ chain' = [chain EXCEPT ![m] = c] /\ c \in {"done", "refresh"}
      /\ chain' \in [Chains -> {"none", "login", "session", "refresh",
                             "connect", "done", "failed"}]
      /\ chain'[m] = c /\ \A j \in Chains \ {m} : chain'[j] = chain[j]
  BY <1>2, <1>3 DEF Submit, PageOK
<1>7. /\ WireOK' /\ FlowInv' /\ turn' \in [Messages -> Turn]
      /\ \A n \in Messages \ {m} : turn'[n] = turn[n]
      /\ turn'[m].on = IF c = "done" THEN ws ELSE NoSocket
      /\ turn'[m].failed = turn[m].failed
      /\ c = "done" => ws \in Chains /\ sock[ws] = "open" /\ bot' = NoBubble
      /\ c = "refresh" => bot' = bot
  <2>1. CASE c = "done"
    <3>1. /\ ws \in Chains /\ sock[ws] = "open" /\ Deliver(m, ws)
          /\ UNCHANGED <<down, agent>>
      BY <1>3, <2>1 DEF Submit, PageOK
    <3>. QED
      BY <1>2, <2>1, <3>1, Delivered
  <2>2. CASE c = "refresh"
    <3>1. UNCHANGED <<bot, up, turn>>
      BY <2>2 DEF Submit
    <3>2. WireOK'
      BY <1>1, <1>3, <3>1 DEF WireOK
    <3>3. FlowInv'
      BY <1>1, <1>3, <3>1 DEF FlowInv, UpInv, DownInv, JobInv, PoolInv
    <3>. QED
      BY <1>2, <1>3, <2>2, <3>1, <3>2, <3>3 DEF PageOK
  <2>. QED
    BY <1>6, <2>1, <2>2
<1>8. PageOK'
  <2>1. sent' \in 0..MaxMessages
    BY <1>1, <1>2, Constants DEF Messages
  <2>2. bot' \in 0..Len(bubbles)
    BY <1>3, <1>6, <1>7 DEF PageOK, NoBubble
  <2>. QED
    BY <1>1, <1>3, <1>6, <1>7, <2>1, <2>2 DEF PageOK
<1>9. ASSUME NEW j \in Chains PROVE SockInv(j)'
  <2>1. SockInv(j) /\ sock'[j] = sock[j] /\ down'[j] = down[j]
    BY <1>1, <1>3 DEF PageInv
  <2>2. CASE j = m
    BY <1>2, <1>6, <2>1, <2>2 DEF SockInv
  <2>3. CASE j # m
    BY <1>6, <1>7, <2>1, <2>3 DEF SockInv
  <2>. QED
    BY <2>2, <2>3
<1>10. ASSUME NEW n \in Messages PROVE SendInv(n)'
  <2>1. SendInv(n)
    BY <1>3 DEF PageInv
  <2>2. CASE n = m
    BY <1>1, <1>2, <1>6, <1>7, <2>2, Constants DEF SendInv, Messages
  <2>3. CASE n # m
    <3>1. n \in Nat /\ (n > m => n > sent) /\ n \in Chains
      BY <1>2, Constants DEF Messages
    <3>. QED
      BY <1>1, <1>6, <1>7, <2>1, <2>3, <3>1 DEF SendInv
  <2>. QED
    BY <2>2, <2>3
<1>11. BootInv'
  BY <1>2, <1>4, <1>6, Constants DEF BootInv
<1>12. OneSocket'
  <2>1. ASSUME ~late, NEW j \in Chains, sock[j] = "open" PROVE ws = j
    BY <2>1 DEF IInv, OneSocket
  <2>2. ASSUME ~late, NEW j \in Chains, chain'[j] \in InProgress
        PROVE  /\ ~enabled'
               /\ \A k \in Chains : sock[k] # "open"
               /\ \A k \in Chains \ {j} : chain'[k] \notin InProgress
    <3>1. j = m /\ c = "refresh"
      BY <1>5, <1>6, <2>2 DEF InProgress
    <3>2. \A k \in Chains : sock[k] # "open"
      BY <2>1, <2>2, <3>1, Constants
    <3>. QED
      BY <1>1, <1>5, <1>6, <2>2, <3>1, <3>2
  <2>. QED
    BY <1>1, <2>1, <2>2 DEF OneSocket
<1>13. OneBubble'
  BY ZenonT(60), <1>1, <1>6, <1>7 DEF IInv, OneBubble
<1>14. ASSUME ~late, \A n \in Messages : ~turn'[n].failed,
              NEW n \in Messages, Awaiting(n)'
       PROVE  n = m
  <2>1. \A k \in Messages : ~turn[k].failed
    BY <1>7, <1>14
  <2>2. ~Awaiting(n)
    BY <1>1, <1>14, <2>1 DEF IInv, BusyUntilFailure
  <2>. QED
    BY <1>1, <1>6, <1>7, <1>14, <2>2, Constants DEF Awaiting
<1>15. OneWaits' /\ BusyUntilFailure'
  BY <1>1, <1>14 DEF OneWaits, BusyUntilFailure
<1>. QED
  BY <1>7, <1>8, <1>9, <1>10, <1>11, <1>12, <1>13, <1>15 DEF IInv, PageInv

\* The promise chain of socket j goes on to its next call, starts the socket,
\* or fails.
LEMMA ChainMoves ==
  ASSUME IInv, NEW j \in Chains, chain[j] \in {"login", "session", "refresh"},
         UNCHANGED <<now, ws, bot, bubbles, sent, turn, up, down, agent, late>>,
         stored' \in Nat, idExp' \in Nat, accessExp' \in Nat,
         NEW c \in {"login", "session", "connect", "failed"},
         chain' = [chain EXCEPT ![j] = c],
         sock' = IF c = "connect" THEN [sock EXCEPT ![j] = "connecting"] ELSE sock,
         enabled' = IF c = "failed" /\ j # 0 THEN TRUE ELSE enabled
  PROVE  IInv'
<1>1. PageOK /\ WireOK /\ PageInv /\ FlowInv /\ UNCHANGED <<srv, pool, job>>
  BY DEF IInv, agent
<1>2. /\ chain' \in [Chains -> {"none", "login", "session", "refresh",
                             "connect", "done", "failed"}]
      /\ chain'[j] = c /\ \A k \in Chains \ {j} : chain'[k] = chain[k]
  BY <1>1 DEF PageOK
<1>3. SockInv(j) /\ sock[j] = "none" /\ down[j] = << >>
  BY <1>1 DEF PageOK, PageInv, SockInv
<1>4. /\ sock' \in [Chains -> {"none", "connecting", "open", "closing", "closed"}]
      /\ \A k \in Chains \ {j} : sock'[k] = sock[k]
      /\ sock'[j] = IF c = "connect" THEN "connecting" ELSE "none"
  BY <1>1, <1>3 DEF PageOK
<1>5. j \in Messages => turn[j].on = NoSocket /\ j <= sent
  <2>1. j \in Messages => SendInv(j) /\ j \in Nat /\ sent \in Nat
    BY <1>1, Constants DEF PageInv, PageOK, Messages
  <2>. QED
    BY <2>1 DEF SendInv
<1>6. PageOK'
  BY <1>1, <1>2, <1>3, <1>4 DEF PageOK
<1>7. WireOK'
  BY <1>1 DEF WireOK
<1>8. FlowInv'
  BY <1>1 DEF FlowInv, UpInv, DownInv, JobInv, PoolInv
<1>9. ASSUME NEW k \in Chains PROVE SockInv(k)'
  <2>1. CASE k = j
    BY <1>2, <1>3, <1>4, <2>1 DEF SockInv
  <2>2. CASE k # j
    <3>1. SockInv(k) /\ chain'[k] = chain[k] /\ sock'[k] = sock[k]
      BY <1>1, <1>2, <1>4, <2>2 DEF PageInv
    <3>. QED
      BY <3>1 DEF SockInv
  <2>. QED
    BY <2>1, <2>2
<1>10. ASSUME NEW n \in Messages PROVE SendInv(n)'
  <2>1. SendInv(n) /\ n \in Chains /\ n \in Nat /\ sent \in Nat
    BY <1>1, Constants DEF PageInv, PageOK, Messages
  <2>2. turn[n].on \in Chains \cup {NoSocket}
    BY <1>1 DEF PageOK, Turn
  <2>3. turn[n].on # NoSocket => turn[n].on # j
    BY <1>3, <2>1 DEF SendInv
  <2>4. turn[n].on # NoSocket => sock'[turn[n].on] = sock[turn[n].on]
    BY <1>4, <2>2, <2>3
  <2>5. CASE n = j
    BY <1>5, <2>1, <2>5 DEF SendInv
  <2>6. CASE n # j
    BY <1>2, <2>1, <2>4, <2>6 DEF SendInv
  <2>. QED
    BY <2>5, <2>6
<1>11. BootInv'
  <2>1. BootInv
    BY <1>1 DEF PageInv
  <2>2. CASE j = 0
    BY <1>2, <2>1, <2>2 DEF BootInv, InProgress
  <2>3. CASE j # 0
    <3>1. j \in Messages /\ j \in Nat /\ j > 0 /\ sent \in Nat
      BY <1>1, <2>3, Constants DEF PageOK, Messages, Chains
    <3>2. sent # 0
      BY <1>5, <3>1
    <3>. QED
      BY <1>2, <2>1, <2>3, <3>2, Constants DEF BootInv
  <2>. QED
    BY <2>2, <2>3
<1>12. ~late => /\ ~enabled
                /\ \A k \in Chains : sock[k] # "open"
                /\ \A k \in Chains \ {j} : chain[k] \notin InProgress
  BY DEF IInv, OneSocket, InProgress
<1>13. \A k \in Chains : sock'[k] = "open" <=> sock[k] = "open"
  BY <1>3, <1>4
<1>14. OneSocket'
  <2>1. ASSUME ~late, NEW k \in Chains, chain'[k] \in InProgress
        PROVE  k = j /\ c # "failed"
    BY <1>2, <1>12, <2>1 DEF InProgress
  <2>2. ASSUME ~late, NEW k \in Chains, chain'[k] \in InProgress
        PROVE  /\ ~enabled'
               /\ \A l \in Chains : sock'[l] # "open"
               /\ \A l \in Chains \ {k} : chain'[l] \notin InProgress
    BY <1>2, <1>12, <1>13, <2>1, <2>2
  <2>. QED
    BY <1>12, <1>13, <2>2 DEF OneSocket
<1>15. OneBubble'
  BY <1>1, <1>13 DEF IInv, OneBubble
<1>16. ASSUME NEW n \in Messages, Awaiting(n)'
       PROVE  Awaiting(n) /\ (n = j => c # "failed")
  <2>1. turn[n].on \in Chains \cup {NoSocket} /\ n \in Chains
    BY <1>1, Constants DEF PageOK, Turn
  <2>2. turn[n].on # NoSocket => (sock'[turn[n].on] = "open" <=> sock[turn[n].on] = "open")
    BY <1>13, <2>1
  <2>. QED
    BY <1>2, <1>5, <1>16, <2>1, <2>2 DEF Awaiting
<1>17. OneWaits'
  BY <1>16 DEF IInv, OneWaits
<1>18. BusyUntilFailure'
  <2>1. ASSUME ~late, \A n \in Messages : ~turn[n].failed,
               NEW n \in Messages, Awaiting(n)'
        PROVE  ~enabled'
    <3>1. Awaiting(n) /\ ~enabled
      BY <1>16, <2>1 DEF IInv, BusyUntilFailure
    <3>2. turn[n].on \in Chains \cup {NoSocket} /\ n \in Chains
      BY <1>1, Constants DEF PageOK, Turn
    <3>3. n = j
      BY <1>12, <2>1, <3>1, <3>2 DEF Awaiting, InProgress
    <3>. QED
      BY <1>16, <2>1, <3>1, <3>3
  <2>. QED
    BY <2>1 DEF BusyUntilFailure
<1>. QED
  BY <1>6, <1>7, <1>8, <1>9, <1>10, <1>11, <1>14, <1>15, <1>17, <1>18
  DEF IInv, PageInv

LEMMA ChainSteps ==
  ASSUME IInv, NEW j \in Chains, Chain(j)
  PROVE  IInv'
<1>1. /\ now \in Nat /\ stored \in Nat /\ idExp \in Nat /\ accessExp \in Nat
      /\ now + Life \in Nat
  BY Constants DEF IInv, PageOK
<1>2. Caught(j) => /\ chain' = [chain EXCEPT ![j] = "failed"]
                   /\ enabled' = IF j # 0 THEN TRUE ELSE enabled
  BY DEF Caught, Composer
<1>3. CASE Login(j)
  <2>1. CASE /\ idExp' = now + Life /\ accessExp' = now + Life
             /\ stored' = now + Life
             /\ chain' = [chain EXCEPT ![j] = "session"]
             /\ UNCHANGED enabled
    BY <1>1, <1>3, <2>1, ChainMoves DEF Login, net
  <2>2. CASE Caught(j) /\ UNCHANGED <<idExp, accessExp, stored>>
    BY <1>1, <1>2, <1>3, <2>2, ChainMoves DEF Login, net
  <2>. QED
    BY <1>3, <2>1, <2>2 DEF Login
<1>4. CASE CreateSession(j)
  <2>1. CASE StartSocket(j) /\ UNCHANGED enabled
    BY <1>1, <1>4, <2>1, ChainMoves DEF CreateSession, StartSocket
  <2>2. CASE Caught(j) /\ UNCHANGED <<accessExp, sock>>
    BY <1>1, <1>2, <1>4, <2>2, ChainMoves DEF CreateSession
  <2>. QED
    BY <1>4, <2>1, <2>2 DEF CreateSession
<1>5. CASE RefreshSession(j)
  <2>1. CASE StartSocket(j) /\ UNCHANGED <<enabled, stored>>
    BY <1>1, <1>5, <2>1, ChainMoves DEF RefreshSession, StartSocket
  <2>2. CASE /\ stored' = 0 /\ chain' = [chain EXCEPT ![j] = "login"]
             /\ UNCHANGED <<enabled, accessExp, sock>>
    BY <1>1, <1>5, <2>2, ChainMoves DEF RefreshSession
  <2>3. CASE Caught(j) /\ UNCHANGED <<accessExp, sock, stored>>
    BY <1>1, <1>2, <1>5, <2>3, ChainMoves DEF RefreshSession
  <2>. QED
    BY <1>5, <2>1, <2>2, <2>3 DEF RefreshSession
<1>. QED
  BY <1>3, <1>4, <1>5 DEF Chain

-----------------------------------------------------------------------------
(* Socket events                                                           *)

LEMMA OnOpenStep ==
  ASSUME IInv, NEW j \in Chains, OnOpen(j)
  PROVE  IInv'
<1>1. /\ PageOK /\ WireOK /\ PageInv /\ FlowInv
      /\ sock[j] = "connecting" /\ ws' = j
      /\ UNCHANGED <<now, stored, idExp, accessExp, bubbles, sent, down,
                     srv, pool, job, late>>
  BY DEF IInv, OnOpen, tokens, agent
<1>2. SockInv(j) /\ chain[j] = "connect" /\ down[j] = << >>
  BY <1>1 DEF PageInv, SockInv
<1>3. /\ chain' \in [Chains -> {"none", "login", "session", "refresh",
                             "connect", "done", "failed"}]
      /\ chain'[j] = "done" /\ \A k \in Chains \ {j} : chain'[k] = chain[k]
  BY <1>1 DEF OnOpen, PageOK
<1>4. /\ sock' \in [Chains -> {"none", "connecting", "open", "closing", "closed"}]
      /\ sock'[j] = "open" /\ \A k \in Chains \ {j} : sock'[k] = sock[k]
  BY <1>1 DEF OnOpen, PageOK
<1>5. j \in Messages => turn[j].on = NoSocket /\ sent # 0
  <2>1. j \in Messages => SendInv(j) /\ j \in Nat /\ j > 0 /\ sent \in Nat
    BY <1>1, Constants DEF PageInv, PageOK, Messages
  <2>. QED
    BY <1>2, <2>1 DEF SendInv
<1>6. j # 0 => j \in Messages
  BY Constants DEF Chains, Messages
<1>7. /\ WireOK' /\ FlowInv' /\ turn' \in [Messages -> Turn]
      /\ \A n \in Messages \ {j} : turn'[n] = turn[n]
      /\ j # 0 => /\ bot' = NoBubble /\ enabled' = enabled
                  /\ turn'[j].on = j
                  /\ turn'[j].failed = turn[j].failed
      /\ j = 0 => bot' = bot /\ enabled' = TRUE
  <2>1. CASE j # 0
    <3>1. Deliver(j, j) /\ UNCHANGED enabled /\ UNCHANGED <<down, agent>>
      BY <2>1 DEF OnOpen
    <3>. QED
      BY <1>5, <1>6, <2>1, <3>1, Delivered
  <2>2. CASE j = 0
    <3>1. UNCHANGED <<bot, up, turn>> /\ enabled' = TRUE /\ 0 \notin Messages
      BY <2>2 DEF OnOpen, Composer, Messages
    <3>2. WireOK'
      BY <1>1, <3>1 DEF WireOK
    <3>3. FlowInv'
      <4>1. UNCHANGED <<up, down, turn, srv, pool, job>>
        BY <1>1, <3>1
      <4>2. \A i \in Chains : UpInv(i)' /\ DownInv(i)'
        BY <1>1, <4>1 DEF FlowInv, UpInv, DownInv
      <4>3. (\A n \in Messages : JobInv(n)') /\ PoolInv'
        BY <1>1, <4>1 DEF FlowInv, JobInv, PoolInv
      <4>. QED
        BY <4>2, <4>3 DEF FlowInv
    <3>. QED
      BY <1>1, <2>2, <3>1, <3>2, <3>3 DEF PageOK
  <2>. QED
    BY <2>1, <2>2
<1>8. PageOK'
  <2>1. bot' \in 0..Len(bubbles) /\ enabled' \in BOOLEAN
    BY <1>1, <1>7 DEF PageOK, NoBubble
  <2>. QED
    BY <1>1, <1>3, <1>4, <1>7, <2>1 DEF PageOK
<1>9. ASSUME NEW k \in Chains PROVE SockInv(k)'
  <2>1. CASE k = j
    BY <1>2, <1>3, <1>4, <1>7, <2>1, Constants DEF SockInv, Messages
  <2>2. CASE k # j
    <3>1. SockInv(k) /\ chain'[k] = chain[k] /\ sock'[k] = sock[k] /\ down'[k] = down[k]
      BY <1>1, <1>3, <1>4, <2>2 DEF PageInv
    <3>2. k \in Messages => turn'[k] = turn[k]
      BY <1>7, <2>2
    <3>. QED
      BY <3>1, <3>2 DEF SockInv
  <2>. QED
    BY <2>1, <2>2
<1>10. ASSUME NEW n \in Messages PROVE SendInv(n)'
  <2>1. SendInv(n) /\ n \in Chains
    BY <1>1, Constants DEF PageInv
  <2>2. CASE n = j
    BY <1>1, <1>2, <1>3, <1>4, <1>7, <2>1, <2>2 DEF SendInv, Messages
  <2>3. CASE n # j
    <3>1. turn'[n] = turn[n] /\ turn[n].on \in Chains \cup {NoSocket}
      BY <1>1, <1>7, <2>3 DEF PageOK, Turn
    <3>2. turn[n].on # NoSocket => sock'[turn[n].on] \notin {"none", "connecting"}
      BY <1>4, <2>1, <3>1 DEF SendInv
    <3>. QED
      BY <1>1, <1>3, <2>1, <2>3, <3>1, <3>2 DEF SendInv
  <2>. QED
    BY <2>2, <2>3
<1>11. BootInv'
  <2>1. BootInv
    BY <1>1 DEF PageInv
  <2>2. CASE j = 0
    BY <1>3, <2>2 DEF BootInv, InProgress
  <2>3. CASE j # 0
    BY <1>3, <1>5, <1>6, <2>1, <2>3, Constants DEF BootInv
  <2>. QED
    BY <2>2, <2>3
<1>12. ~late => /\ ~enabled
                /\ \A k \in Chains : sock[k] # "open"
                /\ \A k \in Chains \ {j} : chain[k] \notin InProgress
  BY <1>2 DEF IInv, OneSocket, InProgress
<1>13. OneSocket'
  <2>1. ASSUME ~late, NEW k \in Chains, chain'[k] \in InProgress PROVE FALSE
    BY <1>3, <1>12, <2>1 DEF InProgress
  <2>2. ASSUME ~late, NEW k \in Chains, sock'[k] = "open" PROVE k = j
    BY <1>4, <1>12, <2>2
  <2>. QED
    BY <1>1, <2>1, <2>2 DEF OneSocket
<1>14. OneBubble'
  <2>1. bot' = NoBubble
    BY <1>1, <1>2, <1>7 DEF PageInv, BootInv, InProgress
  <2>. QED
    BY <1>1, <2>1 DEF IInv, OneBubble
<1>15. ASSUME ~late, NEW n \in Messages, Awaiting(n)' PROVE n = j
  <2>1. SUFFICES ASSUME n # j PROVE FALSE
    OBVIOUS
  <2>2. /\ turn'[n] = turn[n] /\ turn[n].on \in Chains \cup {NoSocket}
        /\ n \in Chains /\ SendInv(n)
    BY <1>1, <1>7, <2>1, Constants DEF PageOK, Turn, PageInv
  <2>3. chain'[n] \notin InProgress
    BY <1>3, <1>12, <1>15, <2>1, <2>2
  <2>4. turn[n].on # NoSocket => turn[n].on # j
    BY <1>1, <2>2 DEF SendInv
  <2>5. turn[n].on # NoSocket => sock'[turn[n].on] # "open"
    BY <1>4, <1>12, <1>15, <2>2, <2>4
  <2>. QED
    BY <1>15, <2>2, <2>3, <2>5 DEF Awaiting, InProgress
<1>16. OneWaits' /\ BusyUntilFailure'
  <2>1. ASSUME ~late, NEW n \in Messages, Awaiting(n)' PROVE ~enabled'
    <3>1. n = j /\ j # 0
      BY <1>15, <2>1 DEF Messages
    <3>. QED
      BY <1>7, <1>12, <2>1, <3>1
  <2>. QED
    BY <1>1, <1>15, <2>1 DEF OneWaits, BusyUntilFailure
<1>. QED
  BY <1>7, <1>8, <1>9, <1>10, <1>11, <1>13, <1>14, <1>16 DEF IInv, PageInv

\* Frames that will not arrive any more.
LEMMA FramesLost ==
  ASSUME IInv, NEW j \in Chains, down' = [down EXCEPT ![j] = << >>],
         UNCHANGED <<up, turn, agent>>
  PROVE  /\ WireOK' /\ FlowInv'
         /\ down'[j] = << >> /\ \A k \in Chains \ {j} : down'[k] = down[k]
<1>1. WireOK /\ FlowInv /\ UNCHANGED <<srv, pool, job>>
  BY DEF IInv, agent
<1>2. /\ down' \in [Chains -> Seq(Frame)] /\ down'[j] = << >>
      /\ \A k \in Chains \ {j} : down'[k] = down[k]
  BY <1>1 DEF WireOK
<1>3. WireOK'
  BY <1>1, <1>2 DEF WireOK
<1>4. ASSUME NEW k \in Chains PROVE UpInv(k)' /\ DownInv(k)'
  <2>1. UpInv(k) /\ DownInv(k)
    BY <1>1 DEF FlowInv
  <2>2. CASE k = j
    <3>1. 1..Len(down'[k]) = {}
      BY <1>2, <2>2
    <3>2. UpInv(k)'
      BY <1>1, <2>1, <3>1 DEF UpInv
    <3>3. DownInv(k)'
      BY <3>1 DEF DownInv
    <3>. QED
      BY <3>2, <3>3
  <2>3. CASE k # j
    <3>1. down'[k] = down[k] /\ UNCHANGED <<up, turn, srv, job>>
      BY <1>1, <1>2, <2>3
    <3>2. UpInv(k)'
      BY <2>1, <3>1 DEF UpInv
    <3>3. DownInv(k)'
      BY <2>1, <3>1 DEF DownInv
    <3>. QED
      BY <3>2, <3>3
  <2>. QED
    BY <2>2, <2>3
<1>5. ASSUME NEW n \in Messages PROVE JobInv(n)'
  BY <1>1 DEF FlowInv, JobInv
<1>6. PoolInv'
  BY <1>1 DEF FlowInv, PoolInv
<1>. QED
  BY <1>2, <1>3, <1>4, <1>5, <1>6 DEF FlowInv

\* Socket j is lost, or has not opened.
LEMMA ClosedStep ==
  ASSUME IInv, NEW j \in Chains, Closed(j),
         NEW c \in {"done", "failed"}, chain' = [chain EXCEPT ![j] = c],
         IF c = "failed" THEN sock[j] = "connecting"
                         ELSE sock[j] \in {"open", "closing"},
         UNCHANGED <<now, tokens, bot, bubbles, sent, turn, up, agent>>
  PROVE  IInv'
<1>1. /\ PageOK /\ WireOK /\ PageInv /\ FlowInv
      /\ ws' = NoSocket /\ enabled' = TRUE
      /\ UNCHANGED <<stored, idExp, accessExp, srv, pool, job>>
  BY DEF IInv, Closed, Composer, tokens, agent
<1>2. SockInv(j) /\ chain[j] = IF c = "failed" THEN "connect" ELSE "done"
  BY <1>1 DEF PageInv, SockInv
<1>3. /\ chain' \in [Chains -> {"none", "login", "session", "refresh",
                             "connect", "done", "failed"}]
      /\ chain'[j] = c /\ \A k \in Chains \ {j} : chain'[k] = chain[k]
  BY <1>1 DEF PageOK
<1>4. /\ sock' \in [Chains -> {"none", "connecting", "open", "closing", "closed"}]
      /\ sock'[j] = "closed" /\ \A k \in Chains \ {j} : sock'[k] = sock[k]
  BY <1>1 DEF Closed, PageOK
<1>5. /\ WireOK' /\ FlowInv' /\ down'[j] = << >>
      /\ \A k \in Chains \ {j} : down'[k] = down[k]
  BY FramesLost DEF Closed
<1>6. late' \in BOOLEAN
  BY DEF Closed
<1>7. PageOK'
  BY <1>1, <1>3, <1>4, <1>6 DEF PageOK
<1>8. ASSUME NEW k \in Chains PROVE SockInv(k)'
  <2>1. CASE k = j
    BY <1>3, <1>4, <1>5, <2>1 DEF SockInv
  <2>2. CASE k # j
    <3>1. SockInv(k) /\ chain'[k] = chain[k] /\ sock'[k] = sock[k] /\ down'[k] = down[k]
      BY <1>1, <1>3, <1>4, <1>5, <2>2 DEF PageInv
    <3>. QED
      BY <3>1 DEF SockInv
  <2>. QED
    BY <2>1, <2>2
<1>9. j \in Messages => SendInv(j) /\ sent # 0 /\ j <= sent
  <2>1. j \in Messages => SendInv(j) /\ j \in Nat /\ j > 0 /\ sent \in Nat
    BY <1>1, Constants DEF PageInv, PageOK, Messages
  <2>. QED
    BY <1>2, <2>1 DEF SendInv
<1>10. ASSUME NEW n \in Messages PROVE SendInv(n)'
  <2>1. /\ SendInv(n) /\ n \in Chains /\ n \in Nat /\ sent \in Nat
        /\ turn[n].on \in Chains \cup {NoSocket}
    BY <1>1, Constants DEF PageInv, PageOK, Turn, Messages
  <2>2. turn[n].on # NoSocket => sock'[turn[n].on] \notin {"none", "connecting"}
    BY <1>4, <2>1 DEF SendInv
  <2>3. CASE n = j
    BY <1>2, <1>3, <1>9, <2>1, <2>2, <2>3 DEF SendInv
  <2>4. CASE n # j
    BY <1>3, <2>1, <2>2, <2>4 DEF SendInv
  <2>. QED
    BY <2>3, <2>4
<1>11. chain'[0] \notin InProgress
  <2>1. CASE j = 0
    BY <1>3, <2>1 DEF InProgress
  <2>2. CASE j # 0
    <3>1. j \in Messages
      BY <2>2, Constants DEF Chains, Messages
    <3>. QED
      BY <1>1, <1>3, <1>9, <2>2, <3>1, Constants DEF PageInv, BootInv
  <2>. QED
    BY <2>1, <2>2
<1>12. BootInv'
  BY <1>11 DEF BootInv
<1>13. ASSUME ~late' PROVE \A k \in Chains : sock'[k] # "open"
  <2>1. ~late /\ ws \in {j, NoSocket}
    BY <1>13 DEF Closed
  <2>. QED
    BY <1>4, <2>1, Constants DEF IInv, OneSocket
<1>14. ASSUME ~late', NEW k \in Chains PROVE chain'[k] \notin InProgress
  <2>1. CASE k = j
    BY <1>3, <2>1 DEF InProgress
  <2>2. CASE k = 0
    BY <1>11, <2>2
  <2>3. CASE k # j /\ k # 0
    <3>1. k \in Messages /\ SendInv(k)
      BY <1>1, <2>3, Constants DEF Chains, Messages, PageInv
    <3>2. ~(Awaiting(k) /\ turn[k].on # j)
      BY <1>14, <2>3, <3>1 DEF Closed
    <3>3. ASSUME chain[k] \in InProgress PROVE FALSE
      <4>1. Awaiting(k) /\ chain[k] # "done"
        BY <3>3 DEF Awaiting, InProgress
      <4>2. turn[k].on = NoSocket
        BY <3>1, <4>1 DEF SendInv
      <4>. QED
        BY <3>2, <4>1, <4>2, Constants
    <3>. QED
      BY <1>3, <2>3, <3>3
  <2>. QED
    BY <2>1, <2>2, <2>3
<1>15. OneSocket'
  BY <1>13, <1>14 DEF OneSocket
<1>16. OneBubble'
  <2>1. ~late' => ~late
    BY DEF Closed
  <2>. QED
    BY <1>13, <2>1 DEF IInv, OneBubble
<1>17. ASSUME ~late', NEW n \in Messages PROVE ~Awaiting(n)'
  <2>1. n \in Chains /\ turn[n].on \in Chains \cup {NoSocket}
    BY <1>1, Constants DEF PageOK, Turn
  <2>. QED
    BY <1>13, <1>14, <1>17, <2>1 DEF Awaiting, InProgress
<1>18. OneWaits' /\ BusyUntilFailure'
  BY <1>17 DEF OneWaits, BusyUntilFailure
<1>. QED
  BY <1>5, <1>7, <1>8, <1>10, <1>12, <1>15, <1>16, <1>18 DEF IInv, PageInv

LEMMA CloseSteps ==
  ASSUME IInv, NEW j \in Chains, OnError(j) \/ OnClose(j)
  PROVE  IInv'
<1>1. CASE OnError(j)
  BY <1>1, ClosedStep DEF OnError
<1>2. CASE OnClose(j)
  <2>1. sock[j] \in {"open", "closing"}
    BY <1>2 DEF OnClose
  <2>2. chain[j] = "done"
    BY <2>1 DEF IInv, PageInv, SockInv
  <2>3. chain' = chain /\ chain = [k \in Chains |-> chain[k]]
    BY <1>2 DEF OnClose, IInv, PageOK
  <2>4. chain' = [chain EXCEPT ![j] = "done"]
    BY <2>2, <2>3
  <2>. QED
    BY <1>2, <2>1, <2>4, ClosedStep DEF OnClose
<1>. QED
  BY <1>1, <1>2

LEMMA OnClosingStep ==
  ASSUME IInv, NEW j \in Chains, OnClosing(j)
  PROVE  IInv'
<1>1. /\ PageOK /\ WireOK /\ PageInv /\ FlowInv /\ sock[j] = "open"
      /\ UNCHANGED <<now, stored, idExp, accessExp, ws, enabled, bot, bubbles,
                     sent, chain, turn, up, srv, pool, job, late>>
  BY DEF IInv, OnClosing, page, tokens, agent
<1>2. /\ sock' \in [Chains -> {"none", "connecting", "open", "closing", "closed"}]
      /\ sock'[j] = "closing" /\ \A k \in Chains \ {j} : sock'[k] = sock[k]
  BY <1>1 DEF OnClosing, PageOK
<1>3. /\ WireOK' /\ FlowInv' /\ down'[j] = << >>
      /\ \A k \in Chains \ {j} : down'[k] = down[k]
  BY <1>1, FramesLost DEF OnClosing
<1>4. PageOK'
  BY <1>1, <1>2 DEF PageOK
<1>5. ASSUME NEW k \in Chains PROVE SockInv(k)'
  <2>1. SockInv(k)
    BY <1>1 DEF PageInv
  <2>2. CASE k = j
    BY <1>1, <1>2, <1>3, <2>1, <2>2 DEF SockInv
  <2>3. CASE k # j
    BY <1>1, <1>2, <1>3, <2>1, <2>3 DEF SockInv
  <2>. QED
    BY <2>2, <2>3
<1>6. ASSUME NEW n \in Messages PROVE SendInv(n)'
  <2>1. SendInv(n) /\ turn[n].on \in Chains \cup {NoSocket}
    BY <1>1 DEF PageOK, PageInv, Turn
  <2>. QED
    BY <1>1, <1>2, <2>1 DEF SendInv
<1>7. BootInv'
  BY <1>1 DEF PageInv, BootInv
<1>8. \A k \in Chains : sock'[k] = "open" => sock[k] = "open" /\ k # j
  BY <1>2
<1>9. OneSocket'
  BY <1>1, <1>8 DEF IInv, OneSocket
<1>10. OneBubble'
  BY <1>1, <1>3, <1>8 DEF IInv, OneBubble
<1>11. ASSUME NEW n \in Messages, Awaiting(n)' PROVE Awaiting(n)
  <2>1. turn[n].on \in Chains \cup {NoSocket}
    BY <1>1 DEF PageOK, Turn
  <2>. QED
    BY <1>1, <1>8, <1>11, <2>1 DEF Awaiting
<1>12. OneWaits' /\ BusyUntilFailure'
  BY <1>1, <1>11 DEF IInv, OneWaits, BusyUntilFailure
<1>. QED
  BY <1>3, <1>4, <1>5, <1>6, <1>7, <1>9, <1>10, <1>12 DEF IInv, PageInv

\* The frame at the head of the wire of socket j, and those behind it.
LEMMA HeadFrame ==
  ASSUME IInv, NEW j \in Chains, down[j] # << >>
  PROVE  /\ Head(down[j]) \in Frame /\ Head(down[j]).turn \in Messages
         /\ Head(down[j]) = down[j][1]
         /\ turn[Head(down[j]).turn].on = j
         /\ turn[Head(down[j]).turn].ended => turn[Head(down[j]).turn].failed
         /\ Head(down[j]).kind \in Last => job[Head(down[j]).turn].pc \notin Live
         /\ Tail(down[j]) \in Seq(Frame)
<1>1. down \in [Chains -> Seq(Frame)] /\ WireOK /\ DownInv(j)
  BY DEF IInv, WireOK, FlowInv
<1>2. /\ Tail(down[j]) \in Seq(Frame) /\ Len(down[j]) \in Nat \ {0}
      /\ Head(down[j]) = down[j][1]
  BY <1>1, Removing
<1>3. 1 \in 1..Len(down[j])
  BY <1>2
<1>. QED
  BY <1>1, <1>2, <1>3, FrameFacts DEF DownInv

LEMMA NextFrames ==
  ASSUME IInv, NEW j \in Chains, down[j] # << >>,
         NEW i \in 1..Len(Tail(down[j]))
  PROVE  /\ i \in Nat /\ i + 1 \in 1..Len(down[j])
         /\ (i = Len(Tail(down[j])) <=> i + 1 = Len(down[j]))
         /\ i # Len(Tail(down[j])) =>
              /\ i + 1 \in 1..Len(Tail(down[j]))
              /\ Tail(down[j])[i + 1] = down[j][i + 1 + 1]
         /\ Tail(down[j])[i] = down[j][i + 1]
         /\ Tail(down[j])[i].turn \in Messages
         /\ Tail(down[j])[i].turn = Head(down[j]).turn =>
              Head(down[j]).kind \notin Last
<1>1. down \in [Chains -> Seq(Frame)] /\ WireOK /\ DownInv(j)
  BY DEF IInv, WireOK, FlowInv
<1>2. /\ Len(down[j]) \in Nat \ {0} /\ Len(Tail(down[j])) = Len(down[j]) - 1
      /\ Head(down[j]) = down[j][1]
      /\ \A k \in 1..Len(Tail(down[j])) : Tail(down[j])[k] = down[j][k + 1]
  BY <1>1, Removing
<1>3. /\ 1 \in 1..Len(down[j]) /\ i \in Nat
      /\ i + 1 \in 1..Len(down[j]) /\ 1 < i + 1
      /\ (i = Len(Tail(down[j])) <=> i + 1 = Len(down[j]))
      /\ i # Len(Tail(down[j])) => i + 1 \in 1..Len(Tail(down[j]))
  BY <1>2
<1>4. Tail(down[j])[i] = down[j][i + 1] /\ down[j][i + 1].turn \in Messages
  BY <1>1, <1>2, <1>3, FrameFacts
<1>5. down[j][i + 1].turn = down[j][1].turn => down[j][1].kind \notin Last
  BY <1>1, <1>3 DEF DownInv
<1>. QED
  BY <1>2, <1>3, <1>4, <1>5

\* A wire that a step leaves alone.
LEMMA WireKept ==
  ASSUME NEW k \in Chains, DownInv(k), down'[k] = down[k], srv'[k] = srv[k],
         job' = job,
         \A i \in 1..Len(down[k]) : turn'[down[k][i].turn] = turn[down[k][i].turn]
  PROVE  DownInv(k)'
<1>. PICK d : d = down[k]
  OBVIOUS
<1>1. ASSUME NEW i \in 1..Len(d)
      PROVE  LET f == d[i] IN
               /\ turn'[f.turn].on = k
               /\ f.kind \in Last => job'[f.turn].pc \notin Live
               /\ turn'[f.turn].ended => turn'[f.turn].failed
               /\ f.kind = "delta" =>
                    IF i = Len(d) THEN srv'[k] = f.turn
                                  ELSE d[i + 1].turn = f.turn
  <2>1. turn'[d[i].turn] = turn[d[i].turn]
    OBVIOUS
  <2>2. /\ turn[d[i].turn].on = k
        /\ d[i].kind \in Last => job[d[i].turn].pc \notin Live
        /\ turn[d[i].turn].ended => turn[d[i].turn].failed
        /\ d[i].kind = "delta" =>
             IF i = Len(d) THEN srv[k] = d[i].turn
                           ELSE d[i + 1].turn = d[i].turn
    BY DEF DownInv
  <2>. QED
    BY <2>1, <2>2
<1>2. \A i, l \in 1..Len(d) :
        i < l /\ d[i].turn = d[l].turn => d[i].kind \notin Last
  BY DEF DownInv
<1>. QED
  BY <1>1, <1>2 DEF DownInv

\* What is left on the wires to the page.
LEMMA FrameTaken ==
  ASSUME IInv, NEW j \in Chains, down[j] # << >>,
         down' = [down EXCEPT ![j] = Tail(@)],
         UNCHANGED <<up, agent>>,
         NEW m \in Messages, m = Head(down[j]).turn,
         turn' \in [Messages -> Turn],
         \A n \in Messages : turn'[n].on = turn[n].on,
         \A n \in Messages \ {m} : turn'[n] = turn[n],
         turn'[m].ended /\ Head(down[j]).kind \notin Last => turn'[m].failed
  PROVE  /\ WireOK' /\ FlowInv'
         /\ down'[j] = Tail(down[j]) /\ \A k \in Chains \ {j} : down'[k] = down[k]
<1>1. WireOK /\ FlowInv /\ UNCHANGED <<up, srv, pool, job>>
  BY DEF IInv, agent
<1>2. turn[m].on = j /\ Tail(down[j]) \in Seq(Frame)
  BY HeadFrame
<1>3. /\ down' \in [Chains -> Seq(Frame)] /\ down'[j] = Tail(down[j])
      /\ \A k \in Chains \ {j} : down'[k] = down[k]
  BY <1>1, <1>2 DEF WireOK
<1>4. WireOK'
  BY <1>1, <1>3 DEF WireOK
<1>5. ASSUME NEW k \in Chains, NEW i \in 1..Len(up[k])
      PROVE  up[k][i].turn \in Messages \ {m}
  <2>1. up[k][i].turn \in Messages /\ UpInv(k)
    BY <1>1, UpFacts DEF FlowInv
  <2>2. CASE k # j
    BY <1>2, <2>1, <2>2 DEF UpInv
  <2>3. CASE k = j
    <3>1. 1 \in 1..Len(down[j]) /\ m = down[j][1].turn
      <4>1. down[j] \in Seq(Frame)
        BY <1>1 DEF WireOK
      <4>. QED
        BY <4>1, Removing
    <3>. QED
      BY <2>1, <2>3, <3>1 DEF UpInv
  <2>. QED
    BY <2>2, <2>3
<1>6. ASSUME NEW k \in Chains, NEW i \in 1..Len(up[k]), NEW l \in 1..Len(down'[k])
      PROVE  down'[k][l].turn # up[k][i].turn
  <2>1. UpInv(k)
    BY <1>1 DEF FlowInv
  <2>2. CASE k # j
    BY <1>3, <1>6, <2>1, <2>2 DEF UpInv
  <2>3. CASE k = j
    <3>1. l \in 1..Len(Tail(down[j]))
      BY <1>3, <1>6, <2>3
    <3>2. l + 1 \in 1..Len(down[j]) /\ down'[j][l] = down[j][l + 1]
      BY <1>3, <3>1, NextFrames
    <3>. QED
      BY <2>1, <2>3, <3>2 DEF UpInv
  <2>. QED
    BY <2>2, <2>3
<1>7. ASSUME NEW k \in Chains PROVE UpInv(k)'
  <2>1. UpInv(k)
    BY <1>1 DEF FlowInv
  <2>2. \A i \in 1..Len(up[k]) : turn'[up[k][i].turn] = turn[up[k][i].turn]
    BY <1>5
  <2>. QED
    BY <1>1, <1>6, <2>1, <2>2 DEF UpInv
<1>8. ASSUME NEW k \in Chains, k # j PROVE DownInv(k)'
  <2>1. DownInv(k) /\ down'[k] = down[k]
    BY <1>1, <1>3, <1>8 DEF FlowInv
  <2>2. ASSUME NEW i \in 1..Len(down[k])
        PROVE  down[k][i].turn \in Messages \ {m}
    BY <1>1, <1>2, <1>8, <2>1, FrameFacts DEF DownInv
  <2>3. \A i \in 1..Len(down[k]) : turn'[down[k][i].turn] = turn[down[k][i].turn]
    BY <2>2
  <2>. QED
    BY <1>1, <2>1, <2>3, WireKept
<1>9. DownInv(j)'
  <2>1. DownInv(j)
    BY <1>1 DEF FlowInv
  <2>2. ASSUME NEW i \in 1..Len(down'[j])
        PROVE  LET g == down'[j][i] IN
                 /\ turn'[g.turn].on = j
                 /\ g.kind \in Last => job'[g.turn].pc \notin Live
                 /\ turn'[g.turn].ended => turn'[g.turn].failed
                 /\ g.kind = "delta" =>
                      IF i = Len(down'[j]) THEN srv'[j] = g.turn
                                           ELSE down'[j][i + 1].turn = g.turn
    <3>1. i \in 1..Len(Tail(down[j]))
      BY <1>3
    <3>2. /\ i \in Nat /\ i + 1 \in 1..Len(down[j])
          /\ (i = Len(down'[j]) <=> i + 1 = Len(down[j]))
          /\ i # Len(down'[j]) => down'[j][i + 1] = down[j][i + 1 + 1]
          /\ down'[j][i] = down[j][i + 1]
          /\ down'[j][i].turn \in Messages
          /\ down'[j][i].turn = m => Head(down[j]).kind \notin Last
      BY <1>3, <3>1, NextFrames
    <3>. PICK n \in Messages : n = down'[j][i].turn
      BY <3>2
    <3>3. /\ turn[n].on = j
          /\ down[j][i + 1].kind \in Last => job[n].pc \notin Live
          /\ turn[n].ended => turn[n].failed
          /\ down[j][i + 1].kind = "delta" =>
               IF i + 1 = Len(down[j]) THEN srv[j] = n
                                       ELSE down[j][i + 1 + 1].turn = n
      BY <2>1, <3>2 DEF DownInv
    <3>4. turn'[n].on = j /\ (turn'[n].ended => turn'[n].failed)
      BY <3>2, <3>3
    <3>. QED
      BY <1>1, <3>2, <3>3, <3>4
  <2>3. ASSUME NEW i \in 1..Len(down'[j]), NEW k \in 1..Len(down'[j]),
               i < k, down'[j][i].turn = down'[j][k].turn
        PROVE  down'[j][i].kind \notin Last
    <3>1. i \in 1..Len(Tail(down[j])) /\ k \in 1..Len(Tail(down[j]))
      BY <1>3
    <3>2. i \in Nat /\ i + 1 \in 1..Len(down[j]) /\ down'[j][i] = down[j][i + 1]
      BY <1>3, <3>1, NextFrames
    <3>3. k \in Nat /\ k + 1 \in 1..Len(down[j]) /\ down'[j][k] = down[j][k + 1]
      BY <1>3, <3>1, NextFrames
    <3>4. i + 1 < k + 1
      BY <2>3, <3>2, <3>3
    <3>. QED
      BY <2>1, <2>3, <3>2, <3>3, <3>4 DEF DownInv
  <2>. QED
    BY <2>2, <2>3 DEF DownInv
<1>10. ASSUME NEW n \in Messages PROVE JobInv(n)'
  <2>1. JobInv(n)
    BY <1>1 DEF FlowInv
  <2>2. CASE n = m
    <3>1. job[m].pc \in Live => Head(down[j]).kind \notin Last
      BY HeadFrame
    <3>2. turn'[m].on = j
      BY <1>2
    <3>. QED
      BY <1>1, <1>2, <2>1, <2>2, <3>1, <3>2, Constants DEF JobInv
  <2>3. CASE n # m
    <3>1. turn'[n] = turn[n]
      BY <2>3
    <3>. QED
      BY <1>1, <2>1, <3>1 DEF JobInv
  <2>. QED
    BY <2>2, <2>3
<1>11. PoolInv'
  BY <1>1 DEF FlowInv, PoolInv
<1>. QED
  BY <1>3, <1>4, <1>7, <1>8, <1>9, <1>10, <1>11 DEF FlowInv

\* What every frame leaves alone; boot is over when one arrives.
LEMMA FrameKeeps ==
  ASSUME IInv, NEW j \in Chains, OnMessage(j),
         turn' \in [Messages -> Turn],
         \A n \in Messages : turn'[n].on = turn[n].on
  PROVE  PageInv'
<1>1. /\ PageOK /\ WireOK /\ PageInv /\ sock[j] = "open" /\ down[j] # << >>
      /\ UNCHANGED <<sent, chain, sock>>
      /\ down' = [down EXCEPT ![j] = Tail(@)]
  BY DEF IInv, OnMessage
<1>2. \A k \in Chains \ {j} : down'[k] = down[k]
  BY <1>1 DEF WireOK
<1>3. ASSUME NEW k \in Chains PROVE SockInv(k)'
  <2>1. SockInv(k) /\ (sock[k] # "open" => down'[k] = down[k])
    BY <1>1, <1>2 DEF PageInv
  <2>. QED
    BY <1>1, <2>1 DEF SockInv
<1>4. ASSUME NEW n \in Messages PROVE SendInv(n)'
  <2>1. SendInv(n)
    BY <1>1 DEF PageInv
  <2>. QED
    BY <1>1, <2>1 DEF SendInv
<1>5. BootInv'
  <2>. PICK m : m = Head(down[j]).turn
    OBVIOUS
  <2>1. m \in Messages /\ m \in Nat /\ m > 0 /\ turn[m].on = j /\ SendInv(m)
    BY <1>1, HeadFrame, Constants DEF PageInv, Messages
  <2>2. ~(m > sent)
    BY <2>1, Constants DEF SendInv
  <2>3. sent # 0
    BY <1>1, <2>1, <2>2 DEF PageOK
  <2>. QED
    BY <1>1, <2>3 DEF PageInv, BootInv
<1>. QED
  BY <1>3, <1>4, <1>5 DEF PageInv

LEMMA DeltaStep ==
  ASSUME IInv, NEW j \in Chains, OnMessage(j), Head(down[j]).kind = "delta",
         OnDelta(Head(down[j]))
  PROVE  IInv'
<1>. PICK m : m = Head(down[j]).turn
  OBVIOUS
<1>1. /\ PageOK /\ WireOK /\ PageInv /\ FlowInv
      /\ sock[j] = "open" /\ down[j] # << >>
      /\ down' = [down EXCEPT ![j] = Tail(@)]
      /\ UNCHANGED <<now, stored, idExp, accessExp, ws, sent, chain, sock, up,
                     agent, late, turn, enabled>>
      /\ UNCHANGED <<srv, pool, job>>
  BY DEF IInv, OnMessage, OnDelta, tokens, agent
<1>2. /\ m \in Messages /\ Head(down[j]) = down[j][1]
      /\ turn[m].ended => turn[m].failed
      /\ down[j] \in Seq(Frame)
  BY <1>1, HeadFrame DEF WireOK
<1>3. turn' \in [Messages -> Turn]
  BY <1>1 DEF PageOK
<1>4. /\ WireOK' /\ FlowInv' /\ down'[j] = Tail(down[j])
      /\ \A k \in Chains \ {j} : down'[k] = down[k]
  BY <1>1, <1>2, <1>3, FrameTaken
<1>5. PageInv'
  BY <1>1, <1>3, FrameKeeps
<1>6. {m} = IF down'[j] = << >> THEN {srv[j]} ELSE {down'[j][1].turn}
  <2>0. /\ Len(down[j]) \in Nat \ {0}
        /\ Tail(down[j]) = << >> <=> Len(down[j]) = 1
        /\ Len(Tail(down[j])) = Len(down[j]) - 1
        /\ \A i \in 1..Len(Tail(down[j])) : Tail(down[j])[i] = down[j][i + 1]
    BY <1>1, <1>2, Removing
  <2>1. /\ Len(down[j]) \in Nat \ {0}
        /\ down'[j] = << >> <=> Len(down[j]) = 1
        /\ Len(down'[j]) = Len(down[j]) - 1
        /\ \A i \in 1..Len(down'[j]) : down'[j][i] = down[j][i + 1]
    BY <1>4, <2>0
  <2>2. 1 \in 1..Len(down[j]) /\ DownInv(j) /\ down[j][1].kind = "delta"
        /\ down[j][1].turn = m
    BY <1>1, <1>2, <2>1 DEF FlowInv
  <2>3. IF 1 = Len(down[j]) THEN srv[j] = m ELSE down[j][1 + 1].turn = m
    BY <2>2 DEF DownInv
  <2>4. CASE Len(down[j]) = 1
    BY <2>1, <2>3, <2>4
  <2>5. CASE Len(down[j]) # 1
    <3>1. 1 \in 1..Len(down'[j])
      BY <2>1, <2>5
    <3>. QED
      BY <2>1, <2>3, <2>5, <3>1
  <2>. QED
    BY <2>4, <2>5
<1>. PICK N \in Nat : N = Len(bubbles)
  BY <1>1 DEF PageOK
<1>7. bot \in 0..N /\ bubbles \in Seq(SUBSET Messages) /\ {m} \in SUBSET Messages
  BY <1>1, <1>2 DEF PageOK
<1>8. /\ bubbles' \in Seq(SUBSET Messages) /\ bot' \in 1..Len(bubbles')
      /\ ~late => /\ bubbles'[bot'] = {m}
                  /\ \A b \in 1..Len(bubbles') :
                       \E n \in Messages : bubbles'[b] = {n}
  <2>1. CASE bot = NoBubble
    <3>1. bot' = N + 1 /\ bubbles' = Append(bubbles, {m})
      BY <2>1 DEF OnDelta
    <3>2. /\ bubbles' \in Seq(SUBSET Messages) /\ Len(bubbles') = N + 1
          /\ bubbles'[N + 1] = {m}
          /\ \A b \in 1..N : bubbles'[b] = bubbles[b]
      BY <1>7, <3>1, Appending
    <3>3. ASSUME ~late, NEW b \in 1..Len(bubbles')
          PROVE  \E n \in Messages : bubbles'[b] = {n}
      <4>1. b = N + 1 \/ b \in 1..N
        BY <3>2
      <4>2. b \in 1..N => \E n \in Messages : bubbles[b] = {n}
        BY <3>3 DEF IInv, OneBubble
      <4>. QED
        BY <1>2, <3>2, <4>1, <4>2
    <3>. QED
      BY <3>1, <3>2, <3>3
  <2>2. CASE bot # NoBubble
    <3>1. /\ bot' = bot /\ bot \in 1..N
          /\ bubbles' = [bubbles EXCEPT ![bot] = bubbles[bot] \cup {m}]
      BY <1>7, <2>2 DEF OnDelta, NoBubble
    <3>2. bubbles[bot] \cup {m} \in SUBSET Messages
      BY <1>7, <3>1
    <3>3. /\ bubbles' \in Seq(SUBSET Messages) /\ Len(bubbles') = N
          /\ bubbles'[bot] = bubbles[bot] \cup {m}
          /\ \A b \in 1..N : b # bot => bubbles'[b] = bubbles[b]
      BY <1>7, <3>1, <3>2
    <3>4. ~late => bubbles[bot] = {m}
      BY <1>1, <1>2, <2>2 DEF IInv, OneBubble
    <3>5. ~late => \A b \in 1..N : \E n \in Messages : bubbles[b] = {n}
      BY DEF IInv, OneBubble
    <3>. QED
      BY <1>2, <3>1, <3>3, <3>4, <3>5
  <2>. QED
    BY <2>1, <2>2
<1>9. PageOK'
  <2>1. bot' \in 0..Len(bubbles')
    BY <1>8
  <2>. QED
    BY <1>1, <1>3, <1>8, <2>1 DEF PageOK
<1>10. OneSocket'
  BY <1>1 DEF IInv, OneSocket
<1>11. OneBubble'
  <2>1. ASSUME ~late, NEW k \in Chains, sock[k] = "open" PROVE k = j
    BY <1>1, <2>1 DEF IInv, OneSocket
  <2>. QED
    BY <1>1, <1>6, <1>8, <2>1 DEF OneBubble
<1>12. \A n \in Messages : Awaiting(n)' <=> Awaiting(n)
  BY <1>1 DEF Awaiting
<1>13. OneWaits' /\ BusyUntilFailure'
  BY <1>1, <1>12 DEF IInv, OneWaits, BusyUntilFailure
<1>. QED
  BY <1>4, <1>5, <1>9, <1>10, <1>11, <1>13 DEF IInv

LEMMA EndedStep ==
  ASSUME IInv, NEW j \in Chains, OnMessage(j), Head(down[j]).kind # "delta",
         Ended(Head(down[j]))
  PROVE  IInv'
<1>. PICK f : f = Head(down[j])
  OBVIOUS
<1>. PICK m : m = f.turn
  OBVIOUS
<1>1. /\ PageOK /\ WireOK /\ PageInv /\ FlowInv
      /\ sock[j] = "open" /\ down[j] # << >>
      /\ down' = [down EXCEPT ![j] = Tail(@)]
      /\ UNCHANGED <<now, stored, idExp, accessExp, ws, sent, chain, sock, up,
                     agent, late, bubbles>>
      /\ UNCHANGED <<srv, pool, job>>
      /\ bot' = NoBubble /\ enabled' = TRUE
  BY DEF IInv, OnMessage, Ended, Composer, tokens, agent
<1>2. /\ m \in Messages /\ f \in Frame /\ turn[m].on = j
      /\ turn[m].ended => turn[m].failed
  BY <1>1, HeadFrame
<1>3. turn[m] \in Turn
  BY <1>1, <1>2 DEF PageOK
<1>. PICK t : t = [on |-> turn[m].on, ended |-> TRUE,
                   failed |-> turn[m].failed \/ f.kind = "error"]
  OBVIOUS
<1>4. /\ t \in Turn /\ t.on = turn[m].on /\ t.ended
      /\ t.failed = (turn[m].failed \/ f.kind = "error")
  BY <1>3 DEF Turn
<1>5. turn' = [turn EXCEPT ![m] = t]
  BY <1>1, <1>2, <1>3 DEF Ended, Turn, PageOK
<1>6. /\ turn' \in [Messages -> Turn] /\ turn'[m] = t
      /\ \A n \in Messages \ {m} : turn'[n] = turn[n]
      /\ \A n \in Messages : turn'[n].on = turn[n].on
  BY <1>1, <1>2, <1>4, <1>5 DEF PageOK
<1>7. f.kind \notin Last => t.failed
  BY <1>2, <1>4 DEF Frame, Last
<1>8. WireOK' /\ FlowInv'
  BY ZenonT(60), <1>1, <1>2, <1>6, <1>7, FrameTaken
<1>9. PageInv'
  BY <1>6, FrameKeeps
<1>10. PageOK'
  BY <1>1, <1>6 DEF PageOK, NoBubble
<1>11. OneSocket'
  BY <1>1 DEF IInv, OneSocket
<1>12. OneBubble'
  BY <1>1 DEF IInv, OneBubble
<1>13. chain[m] = "done"
  BY <1>1, <1>2, Constants DEF PageInv, SendInv
<1>14. ASSUME NEW n \in Messages, Awaiting(n)' PROVE Awaiting(n) /\ n # m
  <2>1. n # m
    BY <1>1, <1>4, <1>6, <1>13, <1>14 DEF Awaiting
  <2>. QED
    BY <1>1, <1>6, <1>14, <2>1 DEF Awaiting
<1>15. ASSUME \A n \in Messages : ~turn'[n].failed
       PROVE  (\A n \in Messages : ~turn[n].failed) /\ Awaiting(m)
  <2>1. ASSUME NEW n \in Messages PROVE ~turn[n].failed
    BY <1>2, <1>4, <1>6, <1>15
  <2>. QED
    BY <1>1, <1>2, <2>1, Constants DEF Awaiting
<1>16. OneWaits' /\ BusyUntilFailure'
  <2>1. ASSUME ~late, \A n \in Messages : ~turn'[n].failed,
               NEW n \in Messages, Awaiting(n)'
        PROVE  FALSE
    BY <1>2, <1>14, <1>15, <2>1 DEF IInv, OneWaits
  <2>. QED
    BY <1>1, <2>1 DEF OneWaits, BusyUntilFailure
<1>. QED
  BY <1>8, <1>9, <1>10, <1>11, <1>12, <1>16 DEF IInv

LEMMA OnMessageStep ==
  ASSUME IInv, NEW j \in Chains, OnMessage(j)
  PROVE  IInv'
BY DeltaStep, EndedStep DEF OnMessage

-----------------------------------------------------------------------------
(* The theorems                                                            *)

LEMMA NextInv == IInv /\ [Next]_vars => IInv'
<1>. SUFFICES ASSUME IInv, [Next]_vars PROVE IInv'
  OBVIOUS
<1>1. CASE Submit
  BY <1>1, SubmitStep
<1>2. ASSUME NEW j \in Chains, Chain(j) \/ Connect(j) \/ OnMessage(j)
                               \/ OnClosing(j) \/ OnClose(j) \/ Take(j)
      PROVE  IInv'
  BY <1>2, ChainSteps, OnOpenStep, CloseSteps, OnMessageStep, OnClosingStep,
     TakeStep DEF Connect
<1>3. CASE Run
  BY <1>3, RunStep
<1>4. ASSUME NEW m \in Messages, Delta(m) \/ Raise(m) \/ Final(m) PROVE IInv'
  BY <1>4, WorkSteps
<1>5. CASE Tick
  BY <1>5, TickStep
<1>6. CASE UNCHANGED vars
  <2>1. /\ UNCHANGED <<page, sock, late>> /\ UNCHANGED <<now, up, down>>
        /\ UNCHANGED <<srv, pool, job>> /\ turn' = turn
    BY <1>6 DEF vars, net, agent, page
  <2>2. PageOK' /\ PageInv' /\ OneSocket' /\ OneWaits' /\ BusyUntilFailure'
    <3>1. now' \in Nat
      BY <2>1 DEF IInv, PageOK
    <3>. QED
      BY <2>1, <3>1, AgentKeeps
  <2>3. WireOK'
    BY <2>1 DEF IInv, WireOK
  <2>4. FlowInv'
    BY <2>1 DEF IInv, FlowInv, UpInv, DownInv, JobInv, PoolInv
  <2>5. OneBubble'
    BY <2>1 DEF IInv, OneBubble, page
  <2>. QED
    BY <2>2, <2>3, <2>4, <2>5 DEF IInv
<1>. QED
  BY <1>1, <1>2, <1>3, <1>4, <1>5, <1>6 DEF Next

\* The invariant holds in every state of the page and the agent.
THEOREM Invariance == Spec => []IInv
BY InitInv, NextInv, PTL DEF Spec

\* Every variable of the page and of the handler keeps its type
\* (app.js:8-22; server.py:95-148).
THEOREM TypeCorrectness == Spec => []TypeOK
<1>1. IInv => TypeOK
  BY TypeParts DEF IInv
<1>. QED
  BY <1>1, Invariance, PTL

\* Whatever sockets are lost and replaced, the bubble of one turn is never
\* written to by another, unless a close event came late
\* (app.js:204-222, 227-230; server.py:126-145).
THEOREM OneTurnPerBubble == Spec => []BubbleSingleTurn
<1>1. IInv => BubbleSingleTurn
  <2>. SUFFICES ASSUME IInv, ~late, NEW b \in DOMAIN bubbles
                PROVE  Cardinality(bubbles[b]) <= 1
    BY DEF BubbleSingleTurn
  <2>1. DOMAIN bubbles = 1..Len(bubbles)
    BY DEF IInv, PageOK
  <2>. PICK m \in Messages : bubbles[b] = {m}
    BY <2>1 DEF IInv, OneBubble
  <2>2. Cardinality({m}) = 1
    BY FS_Singleton
  <2>. QED
    BY <2>2
<1>. QED
  BY <1>1, Invariance, PTL

\* Until a turn has failed or a close event came late, the composer is disabled
\* while a message waits (app.js:86-87, 204-222, 246-256).
THEOREM ComposerBusyUntilFailure == Spec => []BusyUntilFailure
<1>1. IInv => BusyUntilFailure
  BY DEF IInv
<1>. QED
  BY <1>1, Invariance, PTL

\* Until a close event comes late, every open socket is the one the page sends
\* on (app.js:204-222, 224-257).
THEOREM OneOpenSocket == Spec => []OneSocket
<1>1. IInv => OneSocket
  BY DEF IInv
<1>. QED
  BY <1>1, Invariance, PTL

-----------------------------------------------------------------------------
(* The refinement                                                          *)

\* What is on the wires of a turn that has failed or has not ended.
FrameInv(j) ==
  /\ \A i \in 1..Len(down[j]) :
       LET f == down[j][i] IN
         /\ f.kind = "delta" => job[f.turn].pc # "none" /\ ~turn[f.turn].ended
         /\ f.kind = "error" => job[f.turn].failed
  /\ \A i, k \in 1..Len(down[j]) :
       /\ i < k /\ down[j][i].turn = down[j][k].turn
       /\ down[j][i].kind = "error"
       => down[j][k].kind # "delta"

\* The agent sends no more deltas of a turn that has ended on the page.
MessageInv(m) ==
  /\ turn[m].ended /\ job[m].pc \in Live => job[m].failed
  /\ job[m].pc \in {"none", "queued"} => ~job[m].failed
  /\ Shown(m) # {} => job[m].pc # "none"

ClosingInv == "closing" \in Faults \/ \A j \in Chains : sock[j] # "closing"

TalkInv ==
  /\ \A j \in Chains : FrameInv(j)
  /\ \A m \in Messages : MessageInv(m)
  /\ ClosingInv

\* No step takes back what the frames under way tell of the agent's turns.
Onward ==
  \A m \in Messages : /\ job[m].pc # "none" => job'[m].pc # "none"
                      /\ job[m].failed => job'[m].failed

\* The wires are as before, or have been cut.
LEMMA FramesKept ==
  ASSUME IInv, TalkInv, Onward,
         \A m \in Messages : turn'[m].ended = turn[m].ended,
         NEW j \in Chains, down'[j] = down[j] \/ down'[j] = << >>
  PROVE  FrameInv(j)'
<1>1. CASE down'[j] = << >>
  <2>1. 1..Len(down'[j]) = {}
    BY <1>1
  <2>. QED
    BY <2>1 DEF FrameInv
<1>2. CASE down'[j] = down[j]
  <2>1. \A i \in 1..Len(down[j]) : down[j][i].turn \in Messages
    BY FrameFacts DEF IInv
  <2>2. FrameInv(j)
    BY DEF TalkInv
  <2>. QED
    BY <1>2, <2>1, <2>2 DEF FrameInv, Onward
<1>. QED
  BY <1>1, <1>2

\* A frame of turn m is sent.
LEMMA FramesSent ==
  ASSUME IInv, TalkInv, Onward, UNCHANGED turn,
         NEW m \in Messages, turn[m].on \in Chains,
         NEW k \in {"delta", "final", "error", "refused"}, Send(m, k),
         k = "delta" => /\ job'[m].pc # "none"
                        /\ ~turn[m].ended /\ ~job[m].failed,
         k = "error" => job'[m].failed,
         NEW j \in Chains
  PROVE  FrameInv(j)'
<1>1. CASE down'[j] = down[j]
  BY <1>1, FramesKept
<1>2. CASE down'[j] # down[j]
  <2>. PICK f : f = [kind |-> k, turn |-> m]
    OBVIOUS
  <2>1. /\ down'[j] = Append(down[j], f)
        /\ f \in Frame /\ f.kind = k /\ f.turn = m
    BY ZenonT(60), <1>2, Sent
  <2>2. down[j] \in Seq(Frame) /\ WireOK /\ FrameInv(j)
    BY DEF IInv, WireOK, TalkInv
  <2>. PICK N \in Nat : N = Len(down[j])
    BY <2>2
  <2>3. /\ Len(down'[j]) = N + 1 /\ down'[j][N + 1] = f
        /\ \A i \in 1..N : down'[j][i] = down[j][i]
    BY <2>1, <2>2, Appending
  <2>4. \A i \in 1..N : down[j][i].turn \in Messages
    BY <2>2, FrameFacts
  <2>5. ASSUME NEW i \in 1..Len(down'[j])
        PROVE  LET g == down'[j][i] IN
                 /\ g.kind = "delta" =>
                      job'[g.turn].pc # "none" /\ ~turn'[g.turn].ended
                 /\ g.kind = "error" => job'[g.turn].failed
    <3>1. CASE i = N + 1
      BY <2>1, <2>3, <3>1
    <3>2. CASE i \in 1..N
      BY <2>2, <2>3, <2>4, <3>2 DEF FrameInv, Onward
    <3>. QED
      BY <2>3, <3>1, <3>2
  <2>6. ASSUME NEW i \in 1..Len(down'[j]), NEW l \in 1..Len(down'[j]),
               i < l, down'[j][i].turn = down'[j][l].turn,
               down'[j][i].kind = "error"
        PROVE  down'[j][l].kind # "delta"
    <3>1. i \in 1..N /\ (l = N + 1 \/ l \in 1..N)
      BY <2>3, <2>6
    <3>2. CASE l = N + 1
      <4>1. job[down[j][i].turn].failed /\ down[j][i].turn = down'[j][l].turn
        BY <2>2, <2>3, <2>6, <3>1 DEF FrameInv
      <4>. QED
        BY <2>1, <2>3, <3>2, <4>1
    <3>3. CASE l \in 1..N
      BY <2>2, <2>3, <2>6, <3>1, <3>3 DEF FrameInv
    <3>. QED
      BY <3>1, <3>2, <3>3
  <2>. QED
    BY <2>5, <2>6 DEF FrameInv
<1>. QED
  BY <1>1, <1>2

\* The page reads a frame.
LEMMA FramesRead ==
  ASSUME IInv, TalkInv, NEW j \in Chains, NEW i \in Chains, OnMessage(j),
         NEW m \in Messages, m = Head(down[j]).turn,
         \A n \in Messages \ {m} : turn'[n] = turn[n],
         Head(down[j]).kind = "delta" => turn'[m] = turn[m]
  PROVE  FrameInv(i)'
<1>1. /\ job' = job /\ down[j] # << >> /\ WireOK /\ FlowInv
      /\ down' = [down EXCEPT ![j] = Tail(@)]
      /\ down \in [Chains -> Seq(Frame)]
  BY DEF IInv, OnMessage, agent, WireOK
<1>2. CASE i # j
  <2>1. down'[i] = down[i] /\ FrameInv(i) /\ DownInv(i)
    BY <1>1, <1>2 DEF TalkInv, FlowInv
  <2>2. ASSUME NEW k \in 1..Len(down[i])
        PROVE  down[i][k].turn \in Messages \ {m}
    <3>1. turn[m].on = j
      BY <1>1, HeadFrame
    <3>2. down[i][k].turn \in Messages /\ turn[down[i][k].turn].on = i
      BY <1>1, <2>1, FrameFacts DEF DownInv
    <3>. QED
      BY <1>2, <3>1, <3>2
  <2>. PICK d : d = down[i]
    OBVIOUS
  <2>3. \A k \in 1..Len(d) : turn'[d[k].turn] = turn[d[k].turn]
    BY <2>2
  <2>4. \A k \in 1..Len(d) :
             LET g == d[k] IN
               /\ g.kind = "delta" =>
                    job'[g.turn].pc # "none" /\ ~turn'[g.turn].ended
               /\ g.kind = "error" => job'[g.turn].failed
    BY <1>1, <2>1, <2>3 DEF FrameInv
  <2>5. \A k, l \in 1..Len(d) :
          /\ k < l /\ d[k].turn = d[l].turn
          /\ d[k].kind = "error"
          => d[l].kind # "delta"
    BY <2>1 DEF FrameInv
  <2>. QED
    BY <2>1, <2>4, <2>5 DEF FrameInv
<1>3. CASE i = j
  <2>. PICK N \in Nat : N = Len(Tail(down[j]))
    BY <1>1, Removing
  <2>1. /\ FrameInv(j) /\ down'[j] = Tail(down[j])
        /\ Head(down[j]) = down[j][1] /\ 1 \in 1..Len(down[j])
    BY <1>1, Removing DEF TalkInv
  <2>2. ASSUME NEW k \in 1..N
        PROVE  /\ k \in Nat /\ k + 1 \in 1..Len(down[j])
               /\ down'[j][k] = down[j][k + 1]
               /\ down[j][k + 1].turn \in Messages
               /\ down[j][k + 1].turn = m => Head(down[j]).kind \notin Last
    <3>1. /\ k \in Nat /\ k + 1 \in 1..Len(down[j])
          /\ Tail(down[j])[k] = down[j][k + 1]
          /\ Tail(down[j])[k].turn \in Messages
          /\ Tail(down[j])[k].turn = Head(down[j]).turn =>
               Head(down[j]).kind \notin Last
      BY <1>1, NextFrames
    <3>. QED
      BY <2>1, <3>1
  <2>3. ASSUME NEW k \in 1..N, down[j][k + 1].kind = "delta"
        PROVE  turn'[down[j][k + 1].turn] = turn[down[j][k + 1].turn]
    <3>1. CASE down[j][k + 1].turn # m
      BY <2>2, <3>1
    <3>2. CASE down[j][k + 1].turn = m
      <4>1. 1 < k + 1 /\ k + 1 \in 1..Len(down[j]) /\ down[j][1].kind \notin Last
        BY <2>1, <2>2, <3>2
      <4>2. down[j][1].kind # "error"
        BY <2>1, <2>3, <3>2, <4>1 DEF FrameInv
      <4>3. Head(down[j]) \in Frame
        BY <1>1, HeadFrame
      <4>4. Head(down[j]).kind = "delta"
        BY <2>1, <4>1, <4>2, <4>3 DEF Frame, Last
      <4>. QED
        BY <3>2, <4>4
    <3>. QED
      BY <3>1, <3>2
  <2>4. ASSUME NEW k \in 1..N
        PROVE  LET g == down'[j][k] IN
                 /\ g.kind = "delta" =>
                      job'[g.turn].pc # "none" /\ ~turn'[g.turn].ended
                 /\ g.kind = "error" => job'[g.turn].failed
    BY SMTT(30), <1>1, <2>1, <2>2, <2>3 DEF FrameInv
  <2>5. ASSUME NEW k \in 1..N, NEW l \in 1..N, k < l,
               down'[j][k].turn = down'[j][l].turn, down'[j][k].kind = "error"
        PROVE  down'[j][l].kind # "delta"
    <3>1. /\ k + 1 \in 1..Len(down[j]) /\ l + 1 \in 1..Len(down[j])
          /\ k \in Nat /\ l \in Nat
          /\ down'[j][k] = down[j][k + 1] /\ down'[j][l] = down[j][l + 1]
      BY <2>2
    <3>2. k + 1 < l + 1
      BY <2>5, <3>1
    <3>. QED
      BY <2>1, <2>5, <3>1, <3>2 DEF FrameInv
  <2>6. 1..Len(down'[j]) = 1..N
    BY <2>1
  <2>7. FrameInv(j)'
    BY <2>4, <2>5, <2>6 DEF FrameInv
  <2>. QED
    BY <1>3, <2>7
<1>. QED
  BY <1>2, <1>3

\* Nothing has happened that Conversation can tell.
LEMMA Nothing ==
  ASSUME \A m \in Messages : /\ State(m)' = State(m)
                             /\ Shown(m)' = Shown(m)
                             /\ Work(m)' = Work(m)
  PROVE  UNCHANGED Talk!conversation
BY DEF Talk!conversation, state, shown, work

\* One message has got into another state.
LEMMA OneMoves ==
  ASSUME NEW m \in Messages, NEW s, State(m)' = s,
         \A n \in Messages \ {m} : State(n)' = State(n),
         \A n \in Messages : Shown(n)' = Shown(n) /\ Work(n)' = Work(n)
  PROVE  Talk!Become(m, s) /\ UNCHANGED <<shown, work>>
<1>1. state' = [n \in Messages |-> State(n)']
  BY DEF state
<1>2. state' = [state EXCEPT ![m] = s]
  BY <1>1 DEF state
<1>3. UNCHANGED <<shown, work>>
  BY DEF shown, work
<1>. QED
  BY <1>2, <1>3 DEF Talk!Become

\* The agent has come further with one.
LEMMA OneWorked ==
  ASSUME NEW m \in Messages, NEW w, Work(m)' = w,
         \A n \in Messages \ {m} : Work(n)' = Work(n),
         \A n \in Messages : Shown(n)' = Shown(n) /\ State(n)' = State(n)
  PROVE  work' = [work EXCEPT ![m] = w] /\ UNCHANGED <<state, shown>>
<1>1. work' = [n \in Messages |-> Work(n)']
  BY DEF work
<1>2. work' = [work EXCEPT ![m] = w]
  BY <1>1 DEF work
<1>3. UNCHANGED <<state, shown>>
  BY DEF state, shown
<1>. QED
  BY <1>2, <1>3

\* What a step that leaves the wires, the bubbles and the turns at the agent
\* alone keeps of the invariant.
LEMMA PageKeeps ==
  ASSUME IInv, TalkInv, UNCHANGED <<bubbles, job>>,
         \A m \in Messages : turn'[m].ended = turn[m].ended,
         \A j \in Chains : down'[j] = down[j] \/ down'[j] = << >>,
         \A j \in Chains : sock'[j] = "closing" =>
           "closing" \in Faults \/ sock[j] = "closing"
  PROVE  /\ TalkInv'
         /\ \A m \in Messages : Shown(m)' = Shown(m) /\ Work(m)' = Work(m)
<1>1. Onward
  BY DEF Onward
<1>2. \A j \in Chains : FrameInv(j)'
  BY <1>1, FramesKept
<1>3. \A m \in Messages : Shown(m)' = Shown(m) /\ Work(m)' = Work(m)
  BY DEF Shown, Work
<1>4. \A m \in Messages : MessageInv(m)'
  BY <1>3 DEF TalkInv, MessageInv
<1>5. ClosingInv'
  BY DEF TalkInv, ClosingInv
<1>. QED
  BY <1>2, <1>3, <1>4, <1>5 DEF TalkInv

\* A message that has not been sent has shown nothing and is not at work.
LEMMA Unsent ==
  ASSUME IInv, TalkInv, NEW m \in Messages, turn[m].on = NoSocket
  PROVE  ~turn[m].ended
BY DEF IInv, FlowInv, JobInv

\* Message m is put on the wire of the open socket s.
LEMMA SendTalk ==
  ASSUME IInv, TalkInv, NEW m \in Messages, NEW s \in Chains,
         turn[m].on = NoSocket, State(m) \in {"blank", "asking"},
         Deliver(m, s), sock'[s] = "open",
         UNCHANGED <<bubbles, down, job>>,
         \A n \in Messages \ {m} : n > sent' <=> n > sent,
         \A n \in Messages \ {m} : chain'[n] = chain[n],
         \A j \in Chains \ {s} : sock'[j] = sock[j],
         \A n \in Messages \ {m} : turn[n].on = s => sock[s] = "open"
  PROVE  Talk!Send(m) /\ TalkInv'
<1>1. /\ turn \in [Messages -> Turn] /\ turn' = [turn EXCEPT ![m].on = s]
      /\ sock \in [Chains -> {"none", "connecting", "open", "closing", "closed"}]
  BY DEF IInv, PageOK, Deliver
<1>2. /\ turn'[m].on = s /\ turn'[m].ended = turn[m].ended
      /\ \A n \in Messages \ {m} : turn'[n] = turn[n]
      /\ \A n \in Messages : turn[n].on \in Chains \cup {NoSocket}
  BY <1>1 DEF Turn
<1>3. \A n \in Messages : turn'[n].ended = turn[n].ended
  BY <1>2
<1>4. /\ TalkInv'
      /\ \A n \in Messages : Shown(n)' = Shown(n) /\ Work(n)' = Work(n)
  <2>1. \A j \in Chains : sock'[j] = "closing" => sock[j] = "closing"
    OBVIOUS
  <2>. QED
    BY <1>3, <2>1, PageKeeps
<1>5. State(m)' = "open"
  BY <1>2, Unsent, Constants DEF State
<1>6. ASSUME NEW n \in Messages \ {m} PROVE State(n)' = State(n)
  <2>1. CASE turn[n].on = NoSocket
    BY <1>2, <2>1 DEF State
  <2>2. CASE turn[n].on # NoSocket
    <3>1. sock'[turn[n].on] = sock[turn[n].on]
      BY <1>2, <2>2
    <3>. QED
      BY <1>2, <2>2, <3>1 DEF State
  <2>. QED
    BY <2>1, <2>2
<1>7. Talk!Become(m, "open") /\ UNCHANGED <<shown, work>>
  BY <1>4, <1>5, <1>6, OneMoves
<1>. QED
  BY <1>4, <1>7 DEF Talk!Send, state

LEMMA SubmitTalk ==
  ASSUME IInv, TalkInv, Submit
  PROVE  Talk!Next /\ TalkInv'
<1>. PICK m : m = sent + 1
  OBVIOUS
<1>1. /\ m \in Messages /\ sent \in Nat /\ sent' = m
      /\ UNCHANGED <<ws, bubbles, sock, down, agent>>
      /\ job' = job
      /\ chain \in [Chains -> {"none", "login", "session", "refresh",
                               "connect", "done", "failed"}]
  BY Constants DEF Submit, IInv, PageOK, Messages, agent
<1>2. \A n \in Messages \ {m} : n > sent' <=> n > sent
  BY <1>1, Constants DEF Messages
<1>3. /\ ~(m > sent') /\ m > sent
      /\ chain[m] = "none" /\ turn[m].on = NoSocket
  BY <1>1 DEF IInv, PageInv, SendInv
<1>4. State(m) = "blank"
  BY <1>3 DEF State
<1>5. CASE ws # NoSocket /\ sock[ws] = "open"
  <2>1. /\ Deliver(m, ws) /\ chain' = [chain EXCEPT ![m] = "done"]
        /\ ws \in Chains /\ sock'[ws] = "open"
    BY <1>1, <1>5 DEF Submit, IInv, PageOK
  <2>2. /\ \A n \in Messages \ {m} : chain'[n] = chain[n]
        /\ \A j \in Chains \ {ws} : sock'[j] = sock[j]
    BY <1>1, <2>1, Constants
  <2>. QED
    BY <1>1, <1>2, <1>3, <1>4, <1>5, <2>1, <2>2, SendTalk DEF Talk!Next
<1>6. CASE ~(ws # NoSocket /\ sock[ws] = "open")
  <2>1. chain' = [chain EXCEPT ![m] = "refresh"] /\ turn' = turn
    BY <1>6 DEF Submit
  <2>2. chain'[m] = "refresh" /\ \A n \in Messages \ {m} : chain'[n] = chain[n]
    BY <1>1, <2>1, Constants
  <2>3. /\ TalkInv'
        /\ \A n \in Messages : Shown(n)' = Shown(n) /\ Work(n)' = Work(n)
    BY <1>1, <2>1, PageKeeps
  <2>4. State(m)' = "asking"
    BY <1>3, <2>1, <2>2 DEF State
  <2>5. \A n \in Messages \ {m} : State(n)' = State(n)
    BY <1>1, <1>2, <2>1, <2>2 DEF State
  <2>6. Talk!Become(m, "asking") /\ UNCHANGED <<shown, work>>
    BY <1>1, <2>3, <2>4, <2>5, OneMoves
  <2>. QED
    BY <1>1, <1>4, <2>3, <2>6 DEF Talk!Next, Talk!Ask, state
<1>. QED
  BY <1>5, <1>6

\* The chain j goes on, or fails; no message is on its socket yet.
LEMMA ChainTalk ==
  ASSUME IInv, TalkInv, NEW j \in Chains, chain[j] \in InProgress,
         \A k \in Chains \ {j} : chain'[k] = chain[k] /\ sock'[k] = sock[k],
         chain'[j] # "none", chain'[j] # "done",
         sock[j] \in {"none", "connecting"},
         sock'[j] # "closing",
         UNCHANGED <<sent, turn, bubbles, job>>,
         \A k \in Chains : down'[k] = down[k] \/ down'[k] = << >>
  PROVE  [Talk!Next]_(Talk!conversation) /\ TalkInv'
<1>1. \A k \in Chains : sock'[k] = "closing" => sock[k] = "closing"
  OBVIOUS
<1>2. /\ TalkInv'
      /\ \A n \in Messages : Shown(n)' = Shown(n) /\ Work(n)' = Work(n)
  BY <1>1, PageKeeps
<1>3. ASSUME NEW n \in Messages, n # j PROVE State(n)' = State(n)
  <2>1. chain'[n] = chain[n]
    BY <1>3, Constants
  <2>2. CASE turn[n].on = NoSocket
    BY <2>1, <2>2 DEF State
  <2>3. CASE turn[n].on # NoSocket
    <3>1. turn[n].on \in Chains /\ sock[turn[n].on] \notin {"none", "connecting"}
      BY <2>3 DEF IInv, PageOK, Turn, PageInv, SendInv
    <3>2. sock'[turn[n].on] = sock[turn[n].on]
      BY <3>1
    <3>. QED
      BY <2>3, <3>2 DEF State
  <2>. QED
    BY <2>2, <2>3
<1>4. CASE j \notin Messages
  <2>1. \A n \in Messages : State(n)' = State(n)
    BY <1>3, <1>4
  <2>. QED
    BY <1>2, <2>1, Nothing
<1>5. CASE j \in Messages
  <2>1. turn[j].on = NoSocket /\ ~(j > sent)
    BY <1>5 DEF IInv, PageInv, SendInv, InProgress
  <2>2. State(j) = "asking"
    BY <2>1 DEF State, InProgress
  <2>3. CASE chain'[j] # "failed"
    <3>1. State(j)' = "asking"
      BY <2>1, <2>3 DEF State
    <3>2. \A n \in Messages : State(n)' = State(n)
      BY <1>3, <2>2, <3>1
    <3>. QED
      BY <1>2, <3>2, Nothing
  <2>4. CASE chain'[j] = "failed"
    <3>1. State(j)' = "given up"
      BY <2>1, <2>4 DEF State
    <3>2. Talk!Become(j, "given up") /\ UNCHANGED <<shown, work>>
      BY <1>2, <1>3, <1>5, <3>1, OneMoves
    <3>. QED
      BY <1>2, <1>5, <2>2, <3>2 DEF Talk!Next, Talk!GiveUp, state
  <2>. QED
    BY <2>3, <2>4
<1>. QED
  BY <1>4, <1>5

LEMMA ChainsTalk ==
  ASSUME IInv, TalkInv, NEW j \in Chains, Chain(j) \/ OnError(j)
  PROVE  [Talk!Next]_(Talk!conversation) /\ TalkInv'
<1>1. /\ chain \in [Chains -> {"none", "login", "session", "refresh",
                               "connect", "done", "failed"}]
      /\ sock \in [Chains -> {"none", "connecting", "open", "closing", "closed"}]
      /\ down \in [Chains -> Seq(Frame)]
      /\ SockInv(j)
  BY DEF IInv, PageOK, WireOK, PageInv
<1>2. CASE Chain(j)
  <2>1. /\ chain[j] \in {"login", "session", "refresh"} /\ sock[j] = "none"
        /\ UNCHANGED <<sent, turn, bubbles, job, down>>
    BY <1>1, <1>2 DEF Chain, Login, CreateSession, RefreshSession, SockInv,
       net, agent, StartSocket
  <2>2. /\ \A k \in Chains \ {j} : chain'[k] = chain[k] /\ sock'[k] = sock[k]
        /\ chain'[j] # "none" /\ chain'[j] # "done" /\ sock'[j] # "closing"
    BY <1>1, <1>2, <2>1 DEF Chain, Login, CreateSession, RefreshSession, net,
       StartSocket, Caught
  <2>. QED
    BY <2>1, <2>2, ChainTalk DEF InProgress
<1>3. CASE OnError(j)
  <2>1. /\ sock[j] = "connecting" /\ chain[j] = "connect"
        /\ UNCHANGED <<sent, turn, bubbles, job>>
        /\ chain' = [chain EXCEPT ![j] = "failed"]
        /\ sock' = [sock EXCEPT ![j] = "closed"]
        /\ down' = [down EXCEPT ![j] = << >>]
    BY <1>1, <1>3 DEF OnError, SockInv, Closed, agent
  <2>2. /\ \A k \in Chains \ {j} : chain'[k] = chain[k] /\ sock'[k] = sock[k]
        /\ chain'[j] = "failed" /\ sock'[j] = "closed"
        /\ \A k \in Chains : down'[k] = down[k] \/ down'[k] = << >>
    BY <1>1, <2>1
  <2>. QED
    BY <2>1, <2>2, ChainTalk DEF InProgress
<1>. QED
  BY <1>2, <1>3

LEMMA OnOpenTalk ==
  ASSUME IInv, TalkInv, NEW j \in Chains, OnOpen(j)
  PROVE  [Talk!Next]_(Talk!conversation) /\ TalkInv'
<1>1. /\ chain \in [Chains -> {"none", "login", "session", "refresh",
                               "connect", "done", "failed"}]
      /\ sock \in [Chains -> {"none", "connecting", "open", "closing", "closed"}]
      /\ sock[j] = "connecting" /\ chain[j] = "connect"
      /\ sock' = [sock EXCEPT ![j] = "open"]
      /\ chain' = [chain EXCEPT ![j] = "done"]
      /\ UNCHANGED <<bubbles, sent, down, job>>
  BY DEF IInv, PageOK, PageInv, SockInv, OnOpen, agent
<1>2. /\ \A k \in Chains \ {j} : chain'[k] = chain[k] /\ sock'[k] = sock[k]
      /\ chain'[j] = "done" /\ sock'[j] = "open"
  BY <1>1
<1>3. \A n \in Messages : turn[n].on # j
  BY <1>1, Constants DEF IInv, PageInv, SendInv
<1>4. CASE j = 0
  <2>1. turn' = turn /\ j \notin Messages
    BY <1>4 DEF OnOpen, Messages
  <2>2. \A k \in Chains : sock'[k] = "closing" => sock[k] = "closing"
    BY <1>2
  <2>3. /\ TalkInv'
        /\ \A n \in Messages : Shown(n)' = Shown(n) /\ Work(n)' = Work(n)
    BY <1>1, <2>1, <2>2, PageKeeps
  <2>4. ASSUME NEW n \in Messages PROVE State(n)' = State(n)
    <3>1. chain'[n] = chain[n] /\ turn[n].on \in Chains \cup {NoSocket}
      BY <1>2, <2>1, Constants DEF IInv, PageOK, Turn
    <3>2. turn[n].on # NoSocket => sock'[turn[n].on] = sock[turn[n].on]
      BY <1>2, <1>3, <3>1
    <3>. QED
      BY <1>1, <2>1, <3>1, <3>2 DEF State
  <2>. QED
    BY <2>3, <2>4, Nothing
<1>5. CASE j # 0
  <2>1. j \in Messages /\ Deliver(j, j)
    BY <1>5, Constants DEF OnOpen, Messages, Chains
  <2>2. turn[j].on = NoSocket /\ ~(j > sent)
    BY <1>1, <2>1 DEF IInv, PageInv, SendInv
  <2>3. State(j) = "asking"
    BY <1>1, <2>2 DEF State
  <2>4. Talk!Send(j) /\ TalkInv'
    BY <1>1, <1>2, <1>3, <2>1, <2>2, <2>3, Constants, SendTalk
  <2>. QED
    BY <2>1, <2>4 DEF Talk!Next
<1>. QED
  BY <1>4, <1>5

\* The socket j, which was open or closing, is no longer open.
LEMMA CloseTalk ==
  ASSUME IInv, TalkInv, NEW j \in Chains, OnClosing(j) \/ OnClose(j)
  PROVE  Talk!Next /\ TalkInv'
<1>1. /\ sock \in [Chains -> {"none", "connecting", "open", "closing", "closed"}]
      /\ down \in [Chains -> Seq(Frame)]
      /\ UNCHANGED <<sent, chain, turn, bubbles, job>>
      /\ sock[j] \in {"open", "closing"}
      /\ \/ sock' = [sock EXCEPT ![j] = "closing"] /\ "closing" \in Faults
         \/ sock' = [sock EXCEPT ![j] = "closed"]
      /\ down' = [down EXCEPT ![j] = << >>]
  BY DEF IInv, PageOK, WireOK, OnClosing, OnClose, Closed, page, agent
<1>2. /\ \A k \in Chains \ {j} : sock'[k] = sock[k]
      /\ sock'[j] # "open" /\ (sock'[j] = "closing" => "closing" \in Faults)
      /\ \A k \in Chains : down'[k] = down[k] \/ down'[k] = << >>
  BY <1>1
<1>3. Lossy
  BY DEF OnClosing, OnClose, TalkInv, ClosingInv, Lossy
<1>4. /\ TalkInv'
      /\ \A n \in Messages : Shown(n)' = Shown(n) /\ Work(n)' = Work(n)
  BY <1>1, <1>2, PageKeeps
<1>. PICK ms \in SUBSET Messages :
       ms = {n \in Messages : turn[n].on = j /\ State(n) = "open"}
  OBVIOUS
<1>5. ASSUME NEW n \in Messages
      PROVE  State(n)' = IF n \in ms THEN "cut" ELSE State(n)
  <2>1. turn[n].on \in Chains \cup {NoSocket} /\ j # NoSocket
    BY Constants DEF IInv, PageOK, Turn
  <2>2. CASE turn[n].on = j
    BY <1>1, <1>2, <2>1, <2>2 DEF State
  <2>3. CASE turn[n].on # j
    <3>1. turn[n].on # NoSocket => sock'[turn[n].on] = sock[turn[n].on]
      BY <1>2, <2>1, <2>3
    <3>. QED
      BY <1>1, <2>3, <3>1 DEF State
  <2>. QED
    BY <2>2, <2>3
<1>6. state' = [n \in Messages |-> IF n \in ms THEN "cut" ELSE state[n]]
  BY <1>5 DEF state
<1>7. \A n \in ms : state[n] = "open"
  BY DEF state
<1>8. UNCHANGED <<shown, work>>
  BY <1>4 DEF shown, work
<1>. QED
  BY <1>3, <1>4, <1>6, <1>7, <1>8 DEF Talk!Next, Talk!Cut

\* A delta is shown.
LEMMA ShowTalk ==
  ASSUME IInv, TalkInv, NEW j \in Chains, OnMessage(j),
         Head(down[j]).kind = "delta"
  PROVE  Talk!Next /\ TalkInv'
<1>. PICK m \in Messages : m = Head(down[j]).turn
  BY HeadFrame DEF OnMessage
<1>1. /\ turn' = turn /\ OnDelta(Head(down[j]))
      /\ UNCHANGED <<sent, chain, sock, job>>
      /\ sock[j] = "open" /\ turn[m].on = j
      /\ job[m].pc # "none" /\ ~turn[m].ended
  <2>1. down[j] # << >> /\ sock[j] = "open"
    BY DEF OnMessage
  <2>2. 1 \in 1..Len(down[j]) /\ Head(down[j]) = down[j][1] /\ turn[m].on = j
    <3>1. down[j] \in Seq(Frame)
      BY DEF IInv, WireOK
    <3>. QED
      BY <2>1, <3>1, HeadFrame, Removing
  <2>3. job[m].pc # "none" /\ ~turn[m].ended
    BY <2>2 DEF TalkInv, FrameInv
  <2>. QED
    BY <2>1, <2>2, <2>3 DEF OnMessage, OnDelta, agent
<1>2. \A i \in Chains : FrameInv(i)'
  BY <1>1, FramesRead
<1>. PICK N \in Nat : N = Len(bubbles)
  BY DEF IInv, PageOK
<1>3. /\ bubbles \in Seq(SUBSET Messages) /\ bot \in 0..N
      /\ {m} \in SUBSET Messages
  BY DEF IInv, PageOK
<1>4. /\ \A n \in Messages \ {m} : Shown(n)' = Shown(n)
      /\ Shown(m) \subseteq Shown(m)'
  <2>1. CASE bot = NoBubble
    <3>1. bubbles' = Append(bubbles, {m})
      BY <1>1, <2>1 DEF OnDelta
    <3>2. /\ DOMAIN bubbles = 1..N /\ DOMAIN bubbles' = 1..(N + 1)
          /\ bubbles'[N + 1] = {m}
          /\ \A b \in 1..N : bubbles'[b] = bubbles[b]
      BY <1>3, <3>1
    <3>3. \A b \in DOMAIN bubbles' : b = N + 1 \/ b \in 1..N
      BY <3>2
    <3>4. 1..N \subseteq 1..(N + 1)
      OBVIOUS
    <3>. QED
      BY <3>2, <3>3, <3>4 DEF Shown
  <2>2. CASE bot # NoBubble
    <3>1. /\ bot \in 1..N
          /\ bubbles' = [bubbles EXCEPT ![bot] = bubbles[bot] \cup {m}]
      BY <1>1, <1>3, <2>2 DEF OnDelta, NoBubble
    <3>2. /\ DOMAIN bubbles = 1..N /\ DOMAIN bubbles' = 1..N
          /\ \A b \in 1..N :
               bubbles'[b] = IF b = bot THEN bubbles[bot] \cup {m} ELSE bubbles[b]
      BY <1>3, <3>1
    <3>. QED
      BY <3>2 DEF Shown
  <2>. QED
    BY <2>1, <2>2
<1>5. \A n \in Messages : State(n)' = State(n) /\ Work(n)' = Work(n)
  BY <1>1 DEF State, Work
<1>6. ASSUME NEW n \in Messages PROVE MessageInv(n)'
  <2>1. MessageInv(n)
    BY DEF TalkInv
  <2>2. n # m => Shown(n)' = Shown(n)
    BY <1>4
  <2>. QED
    BY <1>1, <2>1, <2>2 DEF MessageInv
<1>7. TalkInv'
  BY <1>1, <1>2, <1>6 DEF TalkInv, ClosingInv
<1>8. /\ shown' = [shown EXCEPT ![m] = shown'[m]]
      /\ shown[m] \subseteq shown'[m]
  <2>1. shown' = [n \in Messages |-> Shown(n)']
    BY DEF shown
  <2>. QED
    BY <1>4, <2>1 DEF shown
<1>9. UNCHANGED <<state, work>>
  BY <1>5 DEF state, work
<1>10. state[m] = "open" /\ work[m] # "idle"
  BY <1>1, Constants DEF state, work, State, Work
<1>. QED
  BY <1>7, <1>8, <1>9, <1>10 DEF Talk!Next, Talk!Show

\* A frame ends a reply.
LEMMA EndTalk ==
  ASSUME IInv, TalkInv, NEW j \in Chains, OnMessage(j),
         Head(down[j]).kind # "delta"
  PROVE  [Talk!Next]_(Talk!conversation) /\ TalkInv'
<1>. PICK f : f = Head(down[j])
  OBVIOUS
<1>1. /\ sock[j] = "open" /\ down[j] # << >> /\ Ended(f)
      /\ UNCHANGED <<sent, chain, sock, job, bubbles>>
  BY DEF OnMessage, Ended, agent
<1>. PICK m \in Messages : m = f.turn
  BY <1>1, HeadFrame
<1>2. /\ f \in Frame /\ turn[m].on = j
      /\ f.kind \in Last => job[m].pc \notin Live
      /\ f.kind = "error" => job[m].failed
  <2>1. 1 \in 1..Len(down[j]) /\ f = down[j][1]
    <3>1. down[j] \in Seq(Frame)
      BY DEF IInv, WireOK
    <3>. QED
      BY <1>1, <3>1, Removing
  <2>2. f.kind = "error" => job[m].failed
    BY <2>1 DEF TalkInv, FrameInv
  <2>. QED
    BY <1>1, <2>2, HeadFrame
<1>3. /\ turn'[m].on = turn[m].on /\ turn'[m].ended
      /\ \A n \in Messages \ {m} : turn'[n] = turn[n]
  BY <1>1 DEF Ended, IInv, PageOK
<1>4. job[m].pc \in Live => job[m].failed
  BY <1>2 DEF Frame, Last
<1>5. \A i \in Chains : FrameInv(i)'
  BY <1>3, FramesRead
<1>6. ASSUME NEW n \in Messages
      PROVE  Shown(n)' = Shown(n) /\ Work(n)' = Work(n) /\ MessageInv(n)'
  <2>1. Shown(n)' = Shown(n) /\ Work(n)' = Work(n)
    BY <1>1 DEF Shown, Work
  <2>2. MessageInv(n)
    BY DEF TalkInv
  <2>. QED
    BY <1>1, <1>3, <1>4, <2>1, <2>2 DEF MessageInv
<1>7. TalkInv'
  BY <1>1, <1>5, <1>6 DEF TalkInv, ClosingInv
<1>8. \A n \in Messages \ {m} : State(n)' = State(n)
  BY <1>1, <1>3 DEF State
<1>9. State(m)' = "ended"
  BY <1>2, <1>3, Constants DEF State
<1>10. CASE turn[m].ended
  <2>1. State(m) = "ended"
    BY <1>2, <1>10, Constants DEF State
  <2>. QED
    BY <1>6, <1>7, <1>8, <1>9, <2>1, Nothing
<1>11. CASE ~turn[m].ended
  <2>1. State(m) = "open"
    BY <1>1, <1>2, <1>11, Constants DEF State
  <2>2. Work(m) # "busy"
    <3>1. job[m].pc \in {"none", "queued", "running", "done"}
      BY DEF IInv, WireOK, Job
    <3>. QED
      BY <1>4, <3>1 DEF Work, Live
  <2>3. Talk!Become(m, "ended") /\ UNCHANGED <<shown, work>>
    BY <1>6, <1>8, <1>9, OneMoves
  <2>4. Talk!End(m)
    BY <2>1, <2>2, <2>3 DEF Talk!End, state, work
  <2>. QED
    BY <1>7, <2>4 DEF Talk!Next
<1>. QED
  BY <1>10, <1>11

\* The turn of message m goes on at the agent.
LEMMA WorkKeeps ==
  ASSUME IInv, TalkInv, NEW m \in Messages,
         UNCHANGED <<page, sock>>,
         \A n \in Messages \ {m} : job'[n] = job[n],
         job'[m].pc # "none",
         job'[m].pc = "queued" => ~job'[m].failed,
         job'[m].pc \in Live =>
           (turn[m].ended => job[m].pc \in Live) /\ (job[m].failed => job'[m].failed)
  PROVE  /\ \A n \in Messages : MessageInv(n)'
         /\ ClosingInv'
         /\ \A n \in Messages : State(n)' = State(n) /\ Shown(n)' = Shown(n)
         /\ \A n \in Messages \ {m} : Work(n)' = Work(n)
<1>1. UNCHANGED <<sent, chain, turn, bubbles>>
  BY DEF page
<1>2. \A n \in Messages : State(n)' = State(n) /\ Shown(n)' = Shown(n)
  BY <1>1 DEF State, Shown
<1>3. \A n \in Messages \ {m} : Work(n)' = Work(n)
  BY DEF Work
<1>4. ClosingInv'
  BY DEF TalkInv, ClosingInv
<1>5. ASSUME NEW n \in Messages PROVE MessageInv(n)'
  <2>1. MessageInv(n)
    BY DEF TalkInv
  <2>2. CASE n = m
    BY <1>1, <2>1, <2>2 DEF MessageInv
  <2>3. CASE n # m
    BY <1>1, <1>2, <2>1, <2>3 DEF MessageInv
  <2>. QED
    BY <2>2, <2>3
<1>. QED
  BY <1>2, <1>3, <1>4, <1>5

LEMMA TakeTalk ==
  ASSUME IInv, TalkInv, NEW j \in Chains, Take(j)
  PROVE  [Talk!Next]_(Talk!conversation) /\ TalkInv'
<1>. PICK m : m = Head(up[j]).turn
  OBVIOUS
<1>1. /\ up[j] # << >>
      /\ UNCHANGED <<page, sock>> /\ UNCHANGED <<turn, bubbles, sent, chain>>
  BY DEF Take, page
<1>2. /\ m \in Messages /\ turn[m].on = j /\ ~turn[m].ended
      /\ job[m].pc = "none" /\ job \in [Messages -> Job]
  BY <1>1, TakeFacts DEF IInv, WireOK
<1>3. CASE job' = [job EXCEPT ![m].pc = "queued"] /\ down' = down
  <2>1. /\ job'[m].pc = "queued" /\ job'[m].failed = job[m].failed
        /\ \A n \in Messages \ {m} : job'[n] = job[n]
    BY <1>2, <1>3 DEF Job
  <2>2. ~job[m].failed
    BY <1>2 DEF TalkInv, MessageInv
  <2>3. Onward
    BY <1>2, <2>1, <2>2 DEF Onward
  <2>4. \A i \in Chains : FrameInv(i)'
    BY <1>1, <1>3, <2>3, FramesKept
  <2>5. /\ \A n \in Messages : MessageInv(n)'
        /\ ClosingInv'
        /\ \A n \in Messages : State(n)' = State(n) /\ Shown(n)' = Shown(n)
        /\ \A n \in Messages \ {m} : Work(n)' = Work(n)
    BY <1>1, <1>2, <2>1, <2>2, WorkKeeps
  <2>6. Work(m)' = "busy" /\ Work(m) = "idle" /\ State(m) \in {"open", "cut"}
    BY <1>1, <1>2, <2>1, <2>2, Constants DEF Work, State
  <2>7. work' = [work EXCEPT ![m] = "busy"] /\ UNCHANGED <<state, shown>>
    BY <1>2, <2>5, <2>6, OneWorked
  <2>8. Talk!Take(m)
    BY <1>2, <2>6, <2>7 DEF Talk!Take, state, work
  <2>. QED
    BY <1>2, <2>4, <2>5, <2>8 DEF Talk!Next, TalkInv
<1>4. CASE Send(m, "refused") /\ UNCHANGED agent
  <2>1. job' = job
    BY <1>4 DEF agent
  <2>2. \A i \in Chains : FrameInv(i)'
    <3>1. Onward
      BY <2>1 DEF Onward
    <3>. QED
      BY <1>1, <1>2, <1>4, <3>1, FramesSent
  <2>3. \A n \in Messages : /\ State(n)' = State(n) /\ Shown(n)' = Shown(n)
                            /\ Work(n)' = Work(n) /\ MessageInv(n)'
    <3>1. \A n \in Messages : /\ State(n)' = State(n) /\ Shown(n)' = Shown(n)
                              /\ Work(n)' = Work(n)
      BY <1>1, <2>1 DEF State, Shown, Work
    <3>. QED
      BY <1>1, <2>1, <3>1 DEF TalkInv, MessageInv
  <2>4. ClosingInv'
    BY <1>1 DEF TalkInv, ClosingInv
  <2>. QED
    BY <2>2, <2>3, <2>4, Nothing DEF TalkInv
<1>. QED
  BY <1>3, <1>4 DEF Take

LEMMA RunTalk ==
  ASSUME IInv, TalkInv, Run
  PROVE  UNCHANGED Talk!conversation /\ TalkInv'
<1>. PICK m : m = Head(pool)
  OBVIOUS
<1>1. /\ pool \in Seq(Messages) /\ pool # << >> /\ PoolInv
      /\ UNCHANGED <<page, sock, down>> /\ turn' = turn
      /\ job \in [Messages -> Job]
      /\ job' = [job EXCEPT ![m].pc = "running"]
  BY DEF IInv, WireOK, FlowInv, Run, net, page
<1>2. m \in Messages /\ m = pool[1] /\ 1 \in 1..Len(pool)
  BY <1>1, Removing
<1>3. job[m].pc = "queued" /\ ~job[m].failed
  BY <1>1, <1>2 DEF PoolInv, TalkInv, MessageInv
<1>4. /\ job'[m].pc = "running" /\ job'[m].failed = job[m].failed
      /\ \A n \in Messages \ {m} : job'[n] = job[n]
  BY <1>1, <1>2 DEF Job
<1>5. \A j \in Chains : FrameInv(j)'
  <2>1. Onward
    BY <1>3, <1>4 DEF Onward
  <2>. QED
    BY <1>1, <2>1, FramesKept
<1>6. /\ \A n \in Messages : MessageInv(n)'
      /\ ClosingInv'
      /\ \A n \in Messages : State(n)' = State(n) /\ Shown(n)' = Shown(n)
      /\ \A n \in Messages \ {m} : Work(n)' = Work(n)
  BY <1>1, <1>2, <1>3, <1>4, WorkKeeps DEF Live
<1>7. Work(m)' = Work(m)
  BY <1>3, <1>4 DEF Work
<1>8. UNCHANGED Talk!conversation
  BY <1>6, <1>7, Nothing
<1>. QED
  BY <1>5, <1>6, <1>8 DEF TalkInv

\* The thread of a turn sends a delta, an error or the last frame.
LEMMA WorkTalk ==
  ASSUME IInv, TalkInv, NEW m \in Messages, Delta(m) \/ Raise(m) \/ Final(m)
  PROVE  [Talk!Next]_(Talk!conversation) /\ TalkInv'
<1>1. /\ job \in [Messages -> Job] /\ job[m].pc = "running"
      /\ UNCHANGED <<page, sock>> /\ turn' = turn
  BY DEF IInv, WireOK, Delta, Raise, Final, page
<1>2. turn[m].on \in Chains /\ job[m].pc \in Live
  BY <1>1 DEF IInv, FlowInv, JobInv, PageOK, Turn, Live
<1>3. /\ \A n \in Messages \ {m} : job'[n] = job[n]
      /\ job'[m].pc \in {"running", "done"}
      /\ job[m].failed => job'[m].failed
  BY <1>1 DEF Delta, Raise, Final, Job
<1>4. Onward
  BY <1>1, <1>3 DEF Onward
<1>5. /\ \A n \in Messages : MessageInv(n)'
      /\ ClosingInv'
      /\ \A n \in Messages : State(n)' = State(n) /\ Shown(n)' = Shown(n)
      /\ \A n \in Messages \ {m} : Work(n)' = Work(n)
  BY <1>1, <1>2, <1>3, WorkKeeps
<1>6. ASSUME Work(m)' # Work(m)
      PROVE  Talk!Next
  <2>1. Work(m) = "busy" /\ Work(m)' = "over"
    BY <1>1, <1>3, <1>6 DEF Work
  <2>2. work' = [work EXCEPT ![m] = "over"] /\ UNCHANGED <<state, shown>>
    BY <1>5, <2>1, OneWorked
  <2>. QED
    BY <2>1, <2>2 DEF Talk!Next, Talk!Finish, work
<1>7. [Talk!Next]_(Talk!conversation)
  <2>1. CASE Work(m)' = Work(m)
    <3>1. \A n \in Messages : Work(n)' = Work(n)
      BY <1>5, <2>1
    <3>. QED
      BY <1>5, <3>1, Nothing
  <2>2. CASE Work(m)' # Work(m)
    BY <1>6, <2>2
  <2>. QED
    BY <2>1, <2>2
<1>8. ASSUME NEW j \in Chains PROVE FrameInv(j)'
  <2>1. CASE Delta(m)
    <3>1. ~job[m].failed /\ ~turn[m].ended
      BY <1>2, <2>1 DEF Delta, TalkInv, MessageInv
    <3>2. Send(m, "delta") /\ job'[m].pc # "none"
      BY <1>3, <2>1 DEF Delta
    <3>. QED
      BY <1>1, <1>2, <1>4, <3>1, <3>2, FramesSent
  <2>2. CASE Raise(m)
    <3>1. Send(m, "error") /\ job'[m].failed
      BY <1>1, <2>2 DEF Raise, Job
    <3>. QED
      BY <1>1, <1>2, <1>4, <3>1, FramesSent
  <2>3. CASE Final(m)
    <3>1. Send(m, "final")
      BY <2>3 DEF Final
    <3>. QED
      BY <1>1, <1>2, <1>4, <3>1, FramesSent
  <2>. QED
    BY <2>1, <2>2, <2>3
<1>. QED
  BY <1>5, <1>7, <1>8 DEF TalkInv

LEMMA StillTalk ==
  ASSUME IInv, TalkInv, Tick \/ UNCHANGED vars
  PROVE  UNCHANGED Talk!conversation /\ TalkInv'
<1>1. UNCHANGED <<sent, chain, turn, bubbles, sock, down, job>>
  BY DEF Tick, vars, page, net, agent
<1>2. \A j \in Chains : FrameInv(j)'
  BY <1>1 DEF TalkInv, FrameInv
<1>3. \A n \in Messages : /\ State(n)' = State(n) /\ Shown(n)' = Shown(n)
                          /\ Work(n)' = Work(n)
  BY <1>1 DEF State, Shown, Work
<1>4. \A n \in Messages : MessageInv(n)'
  BY <1>1, <1>3 DEF TalkInv, MessageInv
<1>. QED
  BY <1>1, <1>2, <1>3, <1>4, Nothing DEF TalkInv, ClosingInv

LEMMA InitTalk == Init => Talk!Init /\ TalkInv
<1>. SUFFICES ASSUME Init PROVE Talk!Init /\ TalkInv
  OBVIOUS
<1>1. /\ \A m \in Messages : /\ turn[m].on = NoSocket /\ ~turn[m].ended
                             /\ job[m].pc = "none" /\ ~job[m].failed
                             /\ m > sent
      /\ \A j \in Chains : down[j] = << >> /\ sock[j] = "none"
  BY Constants DEF Init, NoJob, Messages
<1>2. \A m \in Messages :
        State(m) = "blank" /\ Shown(m) = {} /\ Work(m) = "idle"
  <2>1. DOMAIN bubbles = {}
    BY DEF Init
  <2>. QED
    BY <1>1, <2>1 DEF State, Shown, Work
<1>3. ASSUME NEW j \in Chains PROVE FrameInv(j)
  <2>1. 1..Len(down[j]) = {}
    BY <1>1
  <2>. QED
    BY <2>1 DEF FrameInv
<1>4. TalkInv
  BY <1>1, <1>2, <1>3 DEF TalkInv, MessageInv, ClosingInv
<1>. QED
  BY <1>2, <1>4 DEF Talk!Init, state, shown, work

LEMMA NextTalk ==
  IInv /\ TalkInv /\ [Next]_vars => [Talk!Next]_(Talk!conversation) /\ TalkInv'
<1>. SUFFICES ASSUME IInv, TalkInv, [Next]_vars
              PROVE  [Talk!Next]_(Talk!conversation) /\ TalkInv'
  OBVIOUS
<1>1. CASE Submit
  BY <1>1, SubmitTalk
<1>2. ASSUME NEW j \in Chains, Chain(j) \/ Connect(j)
      PROVE  [Talk!Next]_(Talk!conversation) /\ TalkInv'
  BY <1>2, ChainsTalk, OnOpenTalk DEF Connect
<1>3. ASSUME NEW j \in Chains, OnMessage(j)
      PROVE  [Talk!Next]_(Talk!conversation) /\ TalkInv'
  BY <1>3, ShowTalk, EndTalk
<1>4. ASSUME NEW j \in Chains, OnClosing(j) \/ OnClose(j)
      PROVE  [Talk!Next]_(Talk!conversation) /\ TalkInv'
  BY <1>4, CloseTalk
<1>5. ASSUME NEW j \in Chains, Take(j)
      PROVE  [Talk!Next]_(Talk!conversation) /\ TalkInv'
  BY <1>5, TakeTalk
<1>6. CASE Run
  BY <1>6, RunTalk
<1>7. ASSUME NEW m \in Messages, Delta(m) \/ Raise(m) \/ Final(m)
      PROVE  [Talk!Next]_(Talk!conversation) /\ TalkInv'
  BY <1>7, WorkTalk
<1>8. CASE Tick \/ UNCHANGED vars
  BY <1>8, StillTalk
<1>. QED
  BY <1>1, <1>2, <1>3, <1>4, <1>5, <1>6, <1>7, <1>8 DEF Next

\* The page and the handler implement Conversation, late close events or not
\* (app.js:189-230, 246-256; server.py:90-148).
THEOREM Refinement == Spec => ConversationKept
BY InitTalk, NextTalk, Invariance, PTL
   DEF Spec, ConversationKept, Talk!Spec
=============================================================================

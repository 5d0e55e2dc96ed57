------------------------------ MODULE LinkProofs ------------------------------
(***************************************************************************)
(* Proofs about what goes over one link and over a tree of them, and about   *)
(* that tree.                                                               *)
(*                                                                         *)
(* PingCheck, for every ping_time, delay and limit, and whatever rehashes    *)
(* change: types, the longest silence, and that nobody is closed unasked     *)
(* where every ping_time is below the limit.                                 *)
(*                                                                         *)
(* Delivery, for every tree of servers, any users and any number of          *)
(* messages and changes.  What carries them: a copy of a message moves       *)
(* away from its sender, nobody beyond the link it is on has heard it, and   *)
(* of two copies none is on its way to where the other is (Routed, Apart).   *)
(* And who is to hear it is beyond one that is on its way (Awaited), as      *)
(* every server sees those who did not change as their own server does       *)
(* (Views).                                                                 *)
(*                                                                         *)
(* ServerTree, for every number of servers and connections and any           *)
(* connect{} blocks.  What carries them: an entry was introduced by the peer *)
(* of an open connection, or by an entry before it on the same one, and no   *)
(* name comes twice (Sound).  An exit takes all that is behind its server.   *)
(***************************************************************************)
EXTENDS PingCheck, Delivery, ServerTree, SequenceTheorems, WellFoundedInduction, TLAPS

-----------------------------------------------------------------------------
(* PingCheck *)

\* The check is due: a unit more than it lets pass may have gone by.
Slack(e) == IF e \in due THEN 1 ELSE 0

\* What is known of a live end between two checks.  Until the PING, lasttime is
\* the time something was read; the PING puts it forward.
Waited(e) ==
  /\ ~pingSent[e] => quiet[e] = idle[e] /\ \E p \in Pings : idle[e] <= p + Slack(e)
  /\ pingSent[e] => /\ \E p, r \in Pings : quiet[e] - idle[e] <= p + 1 - r
                    /\ \E p \in Pings : idle[e] <= 2 * p + Slack(e)
  /\ e \notin Authed => idle[e] <= Limit + Slack(e)

Waiting == \A e \in Checkers : Live(e) => Waited(e)
IInv == TypeOK /\ Waiting

\* A sequence of messages stays one when each becomes another message.
LEMMA MapSeq ==
  ASSUME NEW S, NEW T, NEW w \in Seq(S), NEW f, f \in [DOMAIN w -> T]
  PROVE  f \in Seq(T)
  OBVIOUS

\* Queues with one message more keep their type.
LEMMA SentType ==
  ASSUME TypeOK, NEW e \in Ends, NEW m \in {"PING", "PONG", "OTHER"}
  PROVE  Sent(e, m) \in [Ends -> Seq(Message)]
<1>1. [type |-> m, age |-> 0] \in Message
  BY PingBounds DEF Message
<1> QED BY <1>1 DEF TypeOK, Sent

\* Types, of every step.
LEMMA TypeStep == TypeOK /\ [Next]_vars => TypeOK'
<1> SUFFICES ASSUME TypeOK, [Next]_vars PROVE TypeOK'
  OBVIOUS
<1> USE PingEnds, PingBounds
<1>1. CASE Tick
  <2>1. wire' \in [Ends -> Seq(Message)]
    <3> SUFFICES ASSUME NEW e \in Ends PROVE Older(e) \in Seq(Message)
      BY <1>1 DEF Tick
    <3>1. wire[e] \in Seq(Message)
      BY DEF TypeOK
    <3>2. \A i \in DOMAIN wire[e] : wire[e][i] \in Message
      BY <3>1
    <3>3. Older(e) \in [DOMAIN wire[e] -> Message]
      BY <3>2 DEF Older, Message
    <3> QED BY <3>1, <3>3, MapSeq
  <2>2. idle' \in [Checkers -> Nat] /\ quiet' \in [Checkers -> Nat]
    BY <1>1 DEF Tick, TypeOK
  <2> QED BY <1>1, <2>1, <2>2 DEF Tick, TypeOK, config
<1>2. ASSUME NEW e \in Checkers, Check(e) PROVE TypeOK'
  <2>1. CASE Close(e)
    BY <1>2, <2>1 DEF Check, Close, TypeOK, config
  <2>2. CASE Ask(e)
    <3>1. wire' \in [Ends -> Seq(Message)]
      BY <2>2, SentType DEF Ask
    <3>2. idle' \in [Checkers -> Nat]
      BY <2>2 DEF Ask, TypeOK
    <3> QED BY <1>2, <2>2, <3>1, <3>2 DEF Check, Ask, TypeOK, config
  <2>3. CASE UNCHANGED <<idle, pingSent, wire, closed>>
    BY <1>2, <2>3 DEF Check, TypeOK, config
  <2> QED BY <1>2, <2>1, <2>2, <2>3 DEF Check
<1>3. ASSUME NEW e \in Checkers, Rehash(e) PROVE TypeOK'
  BY <1>3 DEF Rehash, TypeOK
<1>4. ASSUME NEW e \in Ends, Read(e) PROVE TypeOK'
  <2>1. Peer[e] \in Ends
    OBVIOUS
  <2>2. wire[Peer[e]] \in Seq(Message) /\ Tail(wire[Peer[e]]) \in Seq(Message)
    BY <1>4, <2>1 DEF Read, TypeOK
  <2>3. wire' \in [Ends -> Seq(Message)]
    BY <1>4, <2>1, <2>2, SentType DEF Read, TypeOK
  <2>4. Heard(e)
    BY <1>4 DEF Read
  <2>5. /\ idle' \in [Checkers -> Nat] /\ quiet' \in [Checkers -> Nat]
        /\ pingSent' \in [Checkers -> BOOLEAN]
    <3>1. CASE e \notin Checkers
      BY <2>4, <3>1 DEF Heard, TypeOK
    <3>2. CASE e \in Checkers
      <4>1. idle' = [idle EXCEPT ![e] = 0] /\ quiet' = [quiet EXCEPT ![e] = 0]
        BY <2>4, <3>2 DEF Heard
      <4>2. pingSent' = [pingSent EXCEPT ![e] = FALSE]
        BY <2>4, <3>2 DEF Heard
      <4>3. idle' \in [Checkers -> Nat] /\ quiet' \in [Checkers -> Nat]
        BY <4>1 DEF TypeOK
      <4>4. pingSent' \in [Checkers -> BOOLEAN]
        BY <4>2 DEF TypeOK
      <4> QED BY <4>3, <4>4
    <3> QED BY <3>1, <3>2
  <2> QED BY <1>4, <2>3, <2>5 DEF Read, TypeOK, config
<1>5. ASSUME NEW e \in Ends, Talk(e) PROVE TypeOK'
  <2>1. wire' \in [Ends -> Seq(Message)]
    BY <1>5, SentType DEF Talk
  <2> QED BY <1>5, <2>1 DEF Talk, TypeOK, config
<1>6. ASSUME NEW e \in Ends, Hang(e) PROVE TypeOK'
  BY <1>6 DEF Hang, TypeOK, config
<1>7. CASE UNCHANGED vars
  BY <1>7 DEF vars, TypeOK
<1> QED BY <1>1, <1>2, <1>3, <1>4, <1>5, <1>6, <1>7 DEF Next

\* How long each end has waited, of every step.
LEMMA WaitingStep == IInv /\ [Next]_vars => Waiting'
<1> SUFFICES ASSUME IInv, [Next]_vars, NEW c \in Checkers, Live(c)'
             PROVE  Waited(c)'
  BY DEF Waiting
<1> USE PingEnds, PingBounds
<1>0. /\ idle[c] \in Nat /\ quiet[c] \in Nat /\ pingSent[c] \in BOOLEAN
      /\ ping[c] \in Pings /\ ping[c] \in Nat /\ Limit \in Nat
      /\ \A p \in Pings : p \in Nat
  BY DEF IInv, TypeOK
<1>1. CASE Tick
  <2>1. Live(c) /\ c \notin due /\ c \in due'
    BY <1>1 DEF Tick, Live
  <2>2. Waited(c) /\ Slack(c) = 0 /\ Slack(c)' = 1
    BY <2>1 DEF IInv, Waiting, Slack
  <2>3. /\ idle'[c] = idle[c] + 1 /\ quiet'[c] = quiet[c] + 1
        /\ pingSent'[c] = pingSent[c]
    BY <1>1 DEF Tick
  <2>4. CASE ~pingSent[c]
    <3>1. PICK p \in Pings : idle[c] <= p + 0
      BY <2>2, <2>4 DEF Waited
    <3>2. quiet'[c] = idle'[c] /\ idle'[c] <= p + 1
      BY <1>0, <2>2, <2>3, <2>4, <3>1 DEF Waited
    <3>3. c \notin Authed => idle'[c] <= Limit + 1
      BY <1>0, <2>2, <2>3 DEF Waited
    <3> QED BY <2>2, <2>3, <2>4, <3>2, <3>3 DEF Waited
  <2>5. CASE pingSent[c]
    <3>1. PICK p \in Pings, r \in Pings : quiet[c] - idle[c] <= p + 1 - r
      BY <2>2, <2>5 DEF Waited
    <3>2. PICK k \in Pings : idle[c] <= 2 * k + 0
      BY <2>2, <2>5 DEF Waited
    <3>3. quiet'[c] - idle'[c] <= p + 1 - r /\ idle'[c] <= 2 * k + 1
      BY <1>0, <2>3, <3>1, <3>2
    <3>4. c \notin Authed => idle'[c] <= Limit + 1
      BY <1>0, <2>2, <2>3 DEF Waited
    <3> QED BY <2>2, <2>3, <2>5, <3>3, <3>4 DEF Waited
  <2> QED BY <2>4, <2>5
<1>2. ASSUME NEW e \in Checkers, Check(e) PROVE Waited(c)'
  <2>0. Live(c) /\ Waited(c)
    BY <1>2 DEF Check, Live, IInv, Waiting
  <2>1. CASE c # e
    <3>1. /\ idle'[c] = idle[c] /\ quiet'[c] = quiet[c] /\ pingSent'[c] = pingSent[c]
      BY <1>2, <2>1 DEF Check, Close, Ask, IInv, TypeOK
    <3>2. Slack(c)' = Slack(c)
      BY <1>2, <2>1 DEF Check, Slack
    <3> QED BY <2>0, <3>1, <3>2 DEF Waited
  <2>2. CASE c = e
    <3>0. Slack(c) = 1 /\ Slack(c)' = 0 /\ quiet'[c] = quiet[c]
      BY <1>2, <2>2 DEF Check, Slack
    <3>1. ~Close(c)
      <4> SUFFICES ASSUME Close(c) PROVE FALSE
        OBVIOUS
      <4>1. closed' = c
        BY DEF Close
      <4> QED BY <4>1 DEF Live
    <3>2. CASE ~AuthTimeout(c) /\ Ask(c)
      <4>1. idle'[c] = ping[c] /\ pingSent'[c] /\ ~pingSent[c] /\ ping[c] < idle[c]
        BY <3>2 DEF Ask, IInv, TypeOK
      <4>2. PICK p \in Pings : idle[c] <= p + 1
        BY <2>0, <3>0, <4>1 DEF Waited
      <4>3. quiet'[c] - idle'[c] <= p + 1 - ping[c]
        <5>1. quiet'[c] = idle[c]
          BY <2>0, <3>0, <4>1 DEF Waited
        <5>2. p \in Nat
          BY <1>0
        <5> QED BY <1>0, <4>1, <4>2, <5>1, <5>2
      <4>4. idle'[c] <= 2 * ping[c] + 0
        BY <1>0, <4>1
      <4>5. c \notin Authed => idle'[c] <= Limit + 0
        BY <1>0, <3>2, <4>1 DEF AuthTimeout
      <4> QED BY <1>0, <3>0, <4>1, <4>3, <4>4, <4>5 DEF Waited
    <3>3. CASE /\ ~AuthTimeout(c) /\ ~PingTimeout(c)
               /\ ping[c] >= idle[c] \/ pingSent[c]
               /\ UNCHANGED <<idle, pingSent, wire, closed>>
      <4>1. c \notin Authed => idle'[c] <= Limit + 0
        BY <1>0, <3>3 DEF AuthTimeout
      <4>2. ~pingSent[c] => idle[c] <= ping[c] + 0
        BY <1>0, <3>3
      <4>3. pingSent[c] => idle[c] <= 2 * ping[c] + 0
        BY <1>0, <3>3 DEF PingTimeout
      <4> QED BY <1>0, <2>0, <3>0, <3>3, <4>1, <4>2, <4>3 DEF Waited
    <3> QED BY <1>2, <2>2, <3>1, <3>2, <3>3 DEF Check
  <2> QED BY <2>1, <2>2
<1>3. ASSUME NEW e \in Checkers, Rehash(e) PROVE Waited(c)'
  BY <1>3 DEF Rehash, Live, IInv, Waiting, Waited, Slack
<1>4. ASSUME NEW e \in Ends, Read(e) PROVE Waited(c)'
  <2>0. Live(c) /\ Waited(c) /\ Slack(c)' = Slack(c) /\ Slack(c) \in {0, 1}
    BY <1>4 DEF Read, Live, IInv, Waiting, Slack
  <2>1. CASE c = e
    <3>1. idle'[c] = 0 /\ quiet'[c] = 0 /\ ~pingSent'[c]
      BY <1>4, <2>1 DEF Read, Heard, IInv, TypeOK
    <3> QED BY <1>0, <2>0, <3>1 DEF Waited
  <2>2. CASE c # e
    <3>1. idle'[c] = idle[c] /\ quiet'[c] = quiet[c] /\ pingSent'[c] = pingSent[c]
      BY <1>4, <2>2 DEF Read, Heard, IInv, TypeOK
    <3> QED BY <2>0, <3>1 DEF Waited
  <2> QED BY <2>1, <2>2
<1>5. ASSUME NEW e \in Ends, Talk(e) PROVE Waited(c)'
  BY <1>5 DEF Talk, Live, IInv, Waiting, Waited, Slack
<1>6. ASSUME NEW e \in Ends, Hang(e) PROVE Waited(c)'
  BY <1>6 DEF Hang, Live, IInv, Waiting, Waited, Slack
<1>7. CASE UNCHANGED vars
  BY <1>7 DEF vars, Live, IInv, Waiting, Waited, Slack
<1> QED BY <1>1, <1>2, <1>3, <1>4, <1>5, <1>6, <1>7 DEF Next

\* The invariant holds when the connection has just been registered.
LEMMA InitIInv == Init => IInv
<1> SUFFICES ASSUME Init PROVE IInv
  OBVIOUS
<1>1. TypeOK
  <2>1. ping \in [Checkers -> Pings] /\ wire \in [Ends -> Seq(Message)]
    BY DEF Init
  <2>2. /\ idle \in [Checkers -> Nat] /\ quiet \in [Checkers -> Nat]
        /\ pingSent \in [Checkers -> BOOLEAN]
    BY DEF Init
  <2>3. rehashes \in 0..MaxRehash
    BY PingBounds DEF Init
  <2> QED BY <2>1, <2>2, <2>3 DEF Init, TypeOK
<1>2. ASSUME NEW c \in Checkers PROVE Waited(c)
  <2>1. idle[c] = 0 /\ quiet[c] = 0 /\ ~pingSent[c] /\ Slack(c) = 0 /\ ping[c] \in Nat
    BY <1>1, PingBounds DEF Init, Slack, TypeOK
  <2> QED BY <1>1, <2>1, PingBounds DEF Waited, TypeOK
<1> QED BY <1>1, <1>2 DEF IInv, Waiting

\* What the ends know of each other, in every state.
LEMMA Invariance == Spec => []IInv
<1>1. IInv /\ [Next]_vars => IInv'
  BY TypeStep, WaitingStep DEF IInv
<1> QED BY <1>1, InitIInv, PTL DEF Spec

\* For every ping_time, limit and delay the variables keep their types: above
\* all, lasttime is never put in the future.
THEOREM TypeCorrect == Spec => []TypeOK
<1>1. IInv => TypeOK
  BY DEF IInv
<1> QED BY <1>1, Invariance, PTL

\* The silence of an open connection is bounded, for every ping_time and limit and
\* however often a rehash changes the ping_time (client.c 212-238).
LEMMA WaitingSilent == IInv => SilentClosed
<1> SUFFICES ASSUME IInv, NEW e \in Checkers, Live(e)
             PROVE  \E p, r \in Pings : /\ quiet[e] <= 3 * p + 2 - r
                                        /\ e \in Authed \/ quiet[e] <= Limit + p + 2 - r
  BY DEF SilentClosed
<1>0. /\ idle[e] \in Nat /\ quiet[e] \in Nat /\ pingSent[e] \in BOOLEAN
      /\ \A p \in Pings : p \in Nat
      /\ Limit \in Nat
  BY PingBounds DEF IInv, TypeOK
<1>1. Waited(e) /\ Slack(e) \in {0, 1}
  BY DEF IInv, Waiting, Slack
<1>2. CASE ~pingSent[e]
  <2>1. PICK p \in Pings : idle[e] <= p + Slack(e)
    BY <1>1, <1>2 DEF Waited
  <2>2. quiet[e] <= 3 * p + 2 - p
    BY <1>0, <1>1, <1>2, <2>1 DEF Waited
  <2>3. e \in Authed \/ quiet[e] <= Limit + p + 2 - p
    BY <1>0, <1>1, <1>2, <2>1 DEF Waited
  <2> QED BY <2>2, <2>3
<1>3. CASE pingSent[e]
  <2>1. PICK p \in Pings, r \in Pings : quiet[e] - idle[e] <= p + 1 - r
    BY <1>1, <1>3 DEF Waited
  <2>2. PICK k \in Pings : idle[e] <= 2 * k + Slack(e)
    BY <1>1, <1>3 DEF Waited
  <2>3. PICK m \in Pings : m \in {p, k} /\ p <= m /\ k <= m
    BY <1>0
  <2>4. quiet[e] <= 3 * m + 2 - r
    BY <1>0, <1>1, <2>1, <2>2, <2>3
  <2>5. e \in Authed \/ quiet[e] <= Limit + m + 2 - r
    BY <1>0, <1>1, <2>1, <2>3 DEF Waited
  <2> QED BY <2>4, <2>5
<1> QED BY <1>0, <1>2, <1>3

\* As above, of the specification.
THEOREM SilenceBounded == Spec => []SilentClosed
  BY Invariance, WaitingSilent, PTL

\* Where every ping_time is below the 120 seconds, nobody is closed who has not
\* been asked since it was last heard of (client.c 207-211).
THEOREM AskedFirst ==
  ASSUME \A p \in Pings : p < Limit
  PROVE  Spec => []PingedFirst
<1>1. Init => PingedFirst
  BY DEF Init, PingedFirst
<1>2. IInv /\ PingedFirst /\ [Next]_vars => PingedFirst'
  <2> SUFFICES ASSUME IInv, PingedFirst, [Next]_vars, closed' # None
               PROVE  (pingSent[closed])'
    BY DEF PingedFirst
  <2>1. CASE closed # None
    BY <2>1, PingEnds DEF Next, vars, Tick, Check, Rehash, Read, Talk, Hang, Live, PingedFirst
  <2>2. CASE closed = None
    <3>1. PICK e \in Checkers : Live(e) /\ Close(e)
      <4>1. ASSUME NEW e \in Ends PROVE ~Read(e) /\ ~Talk(e) /\ ~Hang(e)
        BY <2>2 DEF Read, Talk, Hang
      <4>2. ASSUME NEW e \in Checkers PROVE ~Rehash(e)
        BY <2>2 DEF Rehash
      <4> QED BY <2>2, <4>1, <4>2 DEF Next, vars, Tick, Check, Ask, Live
    <3>2. closed' = e /\ pingSent' = pingSent
      BY <3>1 DEF Close
    <3>3. pingSent[e]
      <4> SUFFICES ASSUME ~pingSent[e] PROVE FALSE
        OBVIOUS
      <4>1. idle[e] > Limit
        BY <3>1 DEF Close, AuthTimeout, PingTimeout
      <4>2. PICK p \in Pings : idle[e] <= p + Slack(e)
        BY <3>1 DEF IInv, Waiting, Waited
      <4>3. /\ idle[e] \in Nat /\ p \in Nat /\ p < Limit /\ Limit \in Nat
            /\ Slack(e) \in {0, 1}
        BY PingBounds DEF IInv, TypeOK, Slack
      <4> QED BY <4>1, <4>2, <4>3
    <3> QED BY <3>2, <3>3
  <2> QED BY <2>1, <2>2
<1> QED BY <1>1, <1>2, Invariance, PTL DEF Spec

-----------------------------------------------------------------------------
(* Answers *)

\* What came first is no younger: messages are read in the order they were sent.
InOrder == \A e \in Ends : \A i, j \in DOMAIN wire[e] :
             i <= j => wire[e][j].age <= wire[e][i].age

\* A PING is on its way, or what the peer has sent since; lasttime was put forward to r
\* when it was sent.
Asked(e, r) == \E i \in DOMAIN wire[e] :
                 wire[e][i].type = "PING" /\ idle[e] <= r + wire[e][i].age
Answered(e, r) == \E i \in DOMAIN wire[Peer[e]] :
                    idle[e] <= r + Delay + wire[Peer[e]][i].age

Hopeful(e) ==
  /\ ~pingSent[e] => idle[e] <= ping[e] + Slack(e)
  /\ pingSent[e] => \E r \in Pings : r <= ping[e] /\ (Asked(e, r) \/ Answered(e, r))
Answering == hung = {} /\ ~lowered => closed = None /\ \A e \in Checkers : Hopeful(e)

\* A PING and its answer take less than a ping_time, and fit before the limit of those
\* without HasAuthPing.
Prompt == \A p \in Pings : /\ 2 * Delay < p
                           /\ Authed = Checkers \/ (p < Limit /\ p + 2 * Delay <= Limit)

\* A queue in order stays so with a new message at its end.
LEMMA AppendOrder ==
  ASSUME TypeOK, InOrder, NEW e \in Ends, NEW m \in {"PING", "PONG", "OTHER"},
         NEW i \in DOMAIN Append(wire[e], [type |-> m, age |-> 0]),
         NEW j \in DOMAIN Append(wire[e], [type |-> m, age |-> 0]), i <= j
  PROVE  Append(wire[e], [type |-> m, age |-> 0])[j].age
           <= Append(wire[e], [type |-> m, age |-> 0])[i].age
<1> DEFINE w == wire[e]
           x == [type |-> m, age |-> 0]
           v == Append(w, x)
<1>0. w \in Seq(Message) /\ x \in Message /\ x.age = 0
  <2>1. x \in Message /\ x.age = 0
    BY PingBounds DEF Message
  <2> QED BY <2>1 DEF TypeOK
<1>1. v \in Seq(Message) /\ Len(v) = Len(w) + 1 /\ i \in 1..Len(v) /\ j \in 1..Len(v)
  BY <1>0
<1>2. v[i] \in Message /\ v[i].age \in Nat
  <2>1. v[i] \in Message
    BY <1>1
  <2> QED BY <2>1, PingBounds DEF Message
<1>3. CASE j = Len(w) + 1
  BY <1>0, <1>2, <1>3
<1>4. CASE j # Len(w) + 1
  <2>1. i \in DOMAIN w /\ j \in DOMAIN w /\ v[i] = w[i] /\ v[j] = w[j]
    BY <1>0, <1>1, <1>4
  <2> QED BY <2>1 DEF InOrder
<1> QED BY <1>3, <1>4

\* Messages stay in order, of every step.
LEMMA OrderStep == TypeOK /\ InOrder /\ [Next]_vars => InOrder'
<1> SUFFICES ASSUME TypeOK, InOrder, [Next]_vars, NEW x \in Ends,
                    NEW i \in DOMAIN wire'[x], NEW j \in DOMAIN wire'[x], i <= j
             PROVE  wire'[x][j].age <= wire'[x][i].age
  BY DEF InOrder
<1> USE PingEnds, PingBounds
<1>0. wire \in [Ends -> Seq(Message)]
  BY DEF TypeOK
<1>1. CASE Tick
  <2>1. wire'[x] = Older(x)
    BY <1>1 DEF Tick
  <2>2. i \in DOMAIN wire[x] /\ j \in DOMAIN wire[x]
    BY <2>1 DEF Older
  <2>4. /\ wire[x][i] \in Message /\ wire[x][j] \in Message
    BY <1>0, <2>2
  <2>3. /\ wire[x][i].age \in 0..Delay /\ wire[x][j].age \in 0..Delay
        /\ wire[x][j].age <= wire[x][i].age
    BY <2>2, <2>4 DEF InOrder, Message
  <2>5. /\ Older(x)[i].age = IF wire[x][i].age < Delay THEN wire[x][i].age + 1 ELSE wire[x][i].age
        /\ Older(x)[j].age = IF wire[x][j].age < Delay THEN wire[x][j].age + 1 ELSE wire[x][j].age
    BY <2>2, <2>4 DEF Older, Message
  <2> QED BY <2>1, <2>3, <2>5
<1>2. ASSUME wire'[x] = wire[x] PROVE wire'[x][j].age <= wire'[x][i].age
  BY <1>2 DEF InOrder
<1>3. ASSUME NEW m \in {"PING", "PONG", "OTHER"},
             wire'[x] = Append(wire[x], [type |-> m, age |-> 0])
      PROVE  wire'[x][j].age <= wire'[x][i].age
  BY <1>3, AppendOrder
<1>4. ASSUME wire[x] # << >>, wire'[x] = Tail(wire[x])
      PROVE  wire'[x][j].age <= wire'[x][i].age
  <2>1. /\ i + 1 \in DOMAIN wire[x] /\ j + 1 \in DOMAIN wire[x] /\ i + 1 <= j + 1
        /\ wire'[x][i] = wire[x][i + 1] /\ wire'[x][j] = wire[x][j + 1]
    BY <1>0, <1>4
  <2> QED BY <2>1 DEF InOrder
<1>5. ASSUME NEW e \in Checkers, Check(e) PROVE wire'[x][j].age <= wire'[x][i].age
  <2>1. CASE Ask(e)
    BY <1>0, <1>2, <1>3, <2>1 DEF Ask, Sent
  <2>2. CASE UNCHANGED wire
    BY <1>2, <2>2
  <2> QED BY <1>5, <2>1, <2>2 DEF Check, Close
<1>6. ASSUME NEW e \in Ends, Read(e) PROVE wire'[x][j].age <= wire'[x][i].age
  <2>1. Peer[e] \in Ends /\ Peer[e] # e
    OBVIOUS
  <2>2. CASE x = Peer[e]
    BY <1>0, <1>4, <1>6, <2>1, <2>2 DEF Read, Sent
  <2>3. CASE x = e
    BY <1>0, <1>2, <1>3, <1>6, <2>1, <2>3 DEF Read, Sent
  <2>4. CASE x # e /\ x # Peer[e]
    BY <1>0, <1>2, <1>6, <2>1, <2>4 DEF Read, Sent
  <2> QED BY <2>2, <2>3, <2>4
<1>7. ASSUME NEW e \in Ends, Talk(e) PROVE wire'[x][j].age <= wire'[x][i].age
  BY <1>0, <1>2, <1>3, <1>7 DEF Talk, Sent
<1>8. CASE UNCHANGED wire
  BY <1>2, <1>8
<1> QED BY <1>1, <1>5, <1>6, <1>7, <1>8 DEF Next, vars, Rehash, Hang

\* How far from closing a live end is: what Answering says of idle.
LEMMA HopefulIdle ==
  ASSUME IInv, Prompt, NEW e \in Checkers, Hopeful(e)
  PROVE  /\ ~pingSent[e] => idle[e] <= ping[e] + 1
         /\ pingSent[e] => idle[e] <= ping[e] + 2 * Delay
         /\ ~AuthTimeout(e) /\ ~PingTimeout(e)
<1>0. /\ idle[e] \in Nat /\ pingSent[e] \in BOOLEAN
      /\ ping[e] \in Pings /\ ping[e] \in Nat
      /\ \A p \in Pings : p \in Nat
      /\ Limit \in Nat /\ Delay \in Nat
      /\ wire[e] \in Seq(Message) /\ wire[Peer[e]] \in Seq(Message)
      /\ e \in Ends
  BY PingEnds, PingBounds DEF IInv, TypeOK
<1>1. ~pingSent[e] => idle[e] <= ping[e] + 1
  <2>1. Slack(e) \in {0, 1}
    BY DEF Slack
  <2> QED BY <1>0, <2>1 DEF Hopeful
<1>2. ASSUME pingSent[e] PROVE idle[e] <= ping[e] + 2 * Delay
  <2>1. PICK r \in Pings : r <= ping[e] /\ (Asked(e, r) \/ Answered(e, r))
    BY <1>2 DEF Hopeful
  <2>0. r \in Nat
    BY <1>0
  <2>2. CASE Asked(e, r)
    <3>1. PICK i \in DOMAIN wire[e] : idle[e] <= r + wire[e][i].age
      BY <2>2 DEF Asked
    <3>2. wire[e][i] \in Message
      BY <1>0
    <3>3. wire[e][i].age \in 0..Delay
      BY <3>2 DEF Message
    <3> QED BY <1>0, <2>0, <2>1, <3>1, <3>3, SMTT(30)
  <2>3. CASE Answered(e, r)
    <3>1. PICK i \in DOMAIN wire[Peer[e]] : idle[e] <= r + Delay + wire[Peer[e]][i].age
      BY <2>3 DEF Answered
    <3>2. wire[Peer[e]][i] \in Message
      BY <1>0
    <3>3. wire[Peer[e]][i].age \in 0..Delay
      BY <3>2 DEF Message
    <3> QED BY <1>0, <2>0, <2>1, <3>1, <3>3, SMTT(30)
  <2> QED BY <2>1, <2>2, <2>3
<1>3. /\ 2 * Delay < ping[e]
      /\ e \notin Authed => ping[e] < Limit /\ ping[e] + 2 * Delay <= Limit
  BY <1>0 DEF Prompt
<1>4. ~AuthTimeout(e)
  BY <1>0, <1>1, <1>2, <1>3 DEF AuthTimeout
<1>5. ~PingTimeout(e)
  BY <1>0, <1>2, <1>3 DEF PingTimeout
<1> QED BY <1>1, <1>2, <1>4, <1>5

\* Queue x gets no message, or one more at its end.
Longer(x) == wire'[x] = wire[x] \/ \E m \in Message : wire'[x] = Append(wire[x], m)

\* A message more on either queue does no harm to what is hoped for.
LEMMA HopeKept ==
  ASSUME IInv, NEW e \in Checkers, Hopeful(e), Longer(e), Longer(Peer[e]),
         idle'[e] = idle[e], pingSent'[e] = pingSent[e], ping'[e] \in Pings,
         ping[e] <= ping'[e], Slack(e)' = Slack(e) \/ pingSent[e]
  PROVE  Hopeful(e)'
<1>0. /\ idle[e] \in Nat /\ pingSent[e] \in BOOLEAN
      /\ ping[e] \in Pings /\ ping[e] \in Nat
      /\ \A p \in Pings : p \in Nat
      /\ Limit \in Nat /\ Delay \in Nat
      /\ wire[e] \in Seq(Message) /\ wire[Peer[e]] \in Seq(Message)
  BY PingEnds, PingBounds DEF IInv, TypeOK
<1>1. ASSUME NEW x \in {e, Peer[e]}, NEW i \in DOMAIN wire[x]
      PROVE  i \in DOMAIN wire'[x] /\ wire'[x][i] = wire[x][i]
  <2>1. wire[x] \in Seq(Message)
    BY <1>0
  <2>2. CASE wire'[x] = wire[x]
    BY <2>2
  <2>3. CASE \E m \in Message : wire'[x] = Append(wire[x], m)
    <3>1. PICK m \in Message : wire'[x] = Append(wire[x], m)
      BY <2>3
    <3> QED BY <2>1, <3>1
  <2> QED BY <2>2, <2>3 DEF Longer
<1>2. CASE ~pingSent[e]
  BY <1>0, <1>2 DEF Hopeful, Slack
<1>3. CASE pingSent[e]
  <2>1. PICK r \in Pings : r <= ping[e] /\ (Asked(e, r) \/ Answered(e, r))
    BY <1>3 DEF Hopeful
  <2>2. r <= ping'[e]
    BY <1>0, <2>1
  <2>3. Asked(e, r) => Asked(e, r)'
    BY <1>1 DEF Asked
  <2>4. Answered(e, r) => Answered(e, r)'
    BY <1>1 DEF Answered
  <2> QED BY <1>3, <2>1, <2>2, <2>3, <2>4 DEF Hopeful
<1> QED BY <1>0, <1>2, <1>3

\* An end that has just read has all the time there is.
LEMMA HopeNew ==
  ASSUME NEW e \in Checkers, idle'[e] = 0, ~pingSent'[e], ping'[e] \in Pings
  PROVE  Hopeful(e)'
<1>1. ping'[e] \in Nat /\ Slack(e)' \in {0, 1}
  BY PingBounds DEF Slack
<1> QED BY <1>1 DEF Hopeful

\* What is hoped for stays so, of every step.
LEMMA AnsweringStep ==
  ASSUME IInv, InOrder, Prompt, Answering, [Next]_vars
  PROVE  Answering'
<1> SUFFICES ASSUME hung' = {}, ~lowered'
             PROVE  closed' = None /\ \A c \in Checkers : Hopeful(c)'
  BY DEF Answering
<1> USE PingEnds, PingBounds
<1>0. TypeOK
  BY DEF IInv
<1>1. hung = {} /\ ~lowered
  <2>1. lowered => lowered'
    BY <1>0 DEF Next, vars, config, Tick, Check, Rehash, Read, Talk, Hang
  <2>2. hung \subseteq hung'
    BY <1>0 DEF Next, vars, Tick, Check, Rehash, Read, Talk, Hang
  <2> QED BY <2>1, <2>2
<1>2. closed = None /\ \A c \in Checkers : Hopeful(c)
  BY <1>1 DEF Answering
<1>3. \A c \in Checkers : ~Close(c)
  BY <1>2, HopefulIdle DEF Close
<1>4. closed' = None
  BY <1>2, <1>3 DEF Next, vars, Tick, Check, Ask, Rehash, Read, Talk, Hang
<1>5. ASSUME NEW c \in Checkers PROVE Hopeful(c)'
  <2>0. /\ c \in Ends /\ Peer[c] \in Ends /\ Peer[c] # c /\ Peer[Peer[c]] = c
        /\ wire \in [Ends -> Seq(Message)]
        /\ wire[c] \in Seq(Message) /\ wire[Peer[c]] \in Seq(Message)
        /\ idle \in [Checkers -> Nat] /\ pingSent \in [Checkers -> BOOLEAN]
        /\ idle[c] \in Nat /\ pingSent[c] \in BOOLEAN /\ ping[c] \in Pings /\ ping[c] \in Nat
        /\ Hopeful(c)
    BY <1>0, <1>2 DEF TypeOK
  <2>1. CASE Tick
    <3>1. /\ idle'[c] = idle[c] + 1 /\ pingSent'[c] = pingSent[c] /\ ping'[c] = ping[c]
          /\ c \notin due
      BY <1>1, <2>1 DEF Tick, config
    <3>2. ASSUME NEW x \in Ends, NEW i \in DOMAIN wire[x]
          PROVE  /\ wire[x][i].age \in Nat
                 /\ i \in DOMAIN wire'[x] /\ wire'[x][i].age = wire[x][i].age + 1
                 /\ wire'[x][i].type = wire[x][i].type
      <4>1. wire[x] \in Seq(Message) /\ wire[x] # << >> /\ Peer[x] \in Ends
        BY <1>0, <3>2 DEF TypeOK
      <4>2. wire[x][1].age < Delay
        BY <1>1, <1>2, <2>1, <4>1 DEF Tick, Live
      <4>3. 1 \in DOMAIN wire[x] /\ 1 <= i /\ wire[x][i] \in Message /\ wire[x][1] \in Message
        BY <3>2, <4>1
      <4>4. wire[x][i].age <= wire[x][1].age
        BY <3>2, <4>3 DEF InOrder
      <4>5. wire[x][i].age \in Nat /\ wire[x][1].age \in Nat
        BY <4>3 DEF Message
      <4>6. wire[x][i].age < Delay
        BY <4>2, <4>4, <4>5
      <4>7. wire'[x] = Older(x)
        BY <2>1 DEF Tick
      <4> QED BY <3>2, <4>3, <4>5, <4>6, <4>7 DEF Older, Message
    <3>3. CASE ~pingSent[c]
      <4>1. idle[c] <= ping[c] + 0
        BY <2>0, <3>1, <3>3 DEF Hopeful, Slack
      <4>2. Slack(c)' = 1
        BY <1>1, <2>1 DEF Tick, Slack
      <4> QED BY <2>0, <3>1, <3>3, <4>1, <4>2 DEF Hopeful
    <3>4. CASE pingSent[c]
      <4>1. PICK r \in Pings : r <= ping[c] /\ (Asked(c, r) \/ Answered(c, r))
        BY <2>0, <3>4 DEF Hopeful
      <4>2. r \in Nat
        OBVIOUS
      <4>3. CASE Asked(c, r)
        <5>1. PICK i \in DOMAIN wire[c] : wire[c][i].type = "PING" /\ idle[c] <= r + wire[c][i].age
          BY <4>3 DEF Asked
        <5>2. wire[c][i].age \in Nat /\ i \in DOMAIN wire'[c] /\ wire'[c][i].age = wire[c][i].age + 1
              /\ wire'[c][i].type = "PING"
          BY <2>0, <3>2, <5>1
        <5>3. idle'[c] <= r + wire'[c][i].age
          BY <2>0, <3>1, <4>2, <5>1, <5>2
        <5>4. Asked(c, r)'
          BY <5>2, <5>3 DEF Asked
        <5> QED BY <3>1, <3>4, <4>1, <5>4 DEF Hopeful
      <4>4. CASE Answered(c, r)
        <5>1. PICK i \in DOMAIN wire[Peer[c]] : idle[c] <= r + Delay + wire[Peer[c]][i].age
          BY <4>4 DEF Answered
        <5>2. /\ wire[Peer[c]][i].age \in Nat /\ i \in DOMAIN wire'[Peer[c]]
              /\ wire'[Peer[c]][i].age = wire[Peer[c]][i].age + 1
          BY <2>0, <3>2, <5>1
        <5>3. idle'[c] <= r + Delay + wire'[Peer[c]][i].age
          BY <2>0, <3>1, <4>2, <5>1, <5>2
        <5>4. Answered(c, r)'
          BY <5>2, <5>3 DEF Answered
        <5> QED BY <3>1, <3>4, <4>1, <5>4 DEF Hopeful
      <4> QED BY <4>1, <4>3, <4>4
    <3> QED BY <2>0, <3>3, <3>4
  <2>2. ASSUME NEW e \in Checkers, Check(e) PROVE Hopeful(c)'
    <3>1. CASE c # e
      <4>1. /\ idle'[c] = idle[c] /\ pingSent'[c] = pingSent[c] /\ ping'[c] = ping[c]
            /\ Slack(c)' = Slack(c)
        BY <1>3, <2>0, <2>2, <3>1 DEF Check, Ask, Slack, config
      <4>2. Longer(c) /\ Longer(Peer[c])
        <5>1. CASE Ask(e)
          <6>1. [type |-> "PING", age |-> 0] \in Message
            BY DEF Message
          <6> QED BY <2>0, <5>1, <6>1 DEF Ask, Sent, Longer
        <5> QED BY <1>3, <2>2, <5>1 DEF Check, Longer
      <4>3. ping'[c] \in Pings /\ ping[c] <= ping'[c]
        BY <2>0, <4>1
      <4> QED BY <2>0, <4>1, <4>2, <4>3, HopeKept
    <3>2. CASE c = e
      <4>1. CASE Ask(c)
        <5>1. idle'[c] = ping[c] /\ pingSent'[c] /\ ping'[c] = ping[c]
          BY <2>0, <2>2, <3>2, <4>1, <1>0 DEF Ask, Check, config, TypeOK
        <5>2. /\ Len(wire[c]) + 1 \in DOMAIN wire'[c]
              /\ wire'[c][Len(wire[c]) + 1].type = "PING"
              /\ wire'[c][Len(wire[c]) + 1].age = 0
          <6>1. wire'[c] = Append(wire[c], [type |-> "PING", age |-> 0])
            BY <2>0, <4>1 DEF Ask, Sent
          <6> QED BY <2>0, <6>1
        <5>3. Asked(c, ping[c])'
          BY <2>0, <5>1, <5>2 DEF Asked
        <5> QED BY <2>0, <5>1, <5>3 DEF Hopeful
      <4>2. CASE /\ ping[c] >= idle[c] \/ pingSent[c]
                 /\ UNCHANGED <<idle, pingSent, wire, closed>>
        <5>1. ping'[c] = ping[c] /\ Slack(c)' = 0
          BY <2>2, <3>2 DEF Check, config, Slack
        <5>2. CASE ~pingSent[c]
          BY <2>0, <4>2, <5>1, <5>2 DEF Hopeful
        <5>3. CASE pingSent[c]
          BY <2>0, <4>2, <5>1, <5>3 DEF Hopeful, Asked, Answered
        <5> QED BY <2>0, <5>2, <5>3
      <4> QED BY <1>3, <2>2, <3>2, <4>1, <4>2 DEF Check
    <3> QED BY <3>1, <3>2
  <2>3. ASSUME NEW e \in Checkers, Rehash(e) PROVE Hopeful(c)'
    <3>1. /\ idle' = idle /\ pingSent' = pingSent /\ wire' = wire /\ Slack(c)' = Slack(c)
      BY <2>3 DEF Rehash, Slack
    <3>2. ping'[c] \in Pings /\ ping[c] <= ping'[c]
      <4>1. PICK p \in Pings \ {ping[e]} : ping' = [ping EXCEPT ![e] = p] /\ ~(p < ping[e])
        BY <2>3 DEF Rehash
      <4>2. p \in Nat /\ ping \in [Checkers -> Pings]
        BY <1>0 DEF TypeOK
      <4> QED BY <2>0, <4>1, <4>2
    <3>3. Longer(c) /\ Longer(Peer[c])
      BY <3>1 DEF Longer
    <3> QED BY <2>0, <3>1, <3>2, <3>3, HopeKept
  <2>4. ASSUME NEW e \in Ends, Read(e) PROVE Hopeful(c)'
    <3>0. ping' = ping /\ Slack(c)' = Slack(c) /\ Peer[e] \in Ends /\ Peer[e] # e
      BY <2>4 DEF Read, config, Slack
    <3>1. CASE c = e
      <4>1. idle'[c] = 0 /\ ~pingSent'[c]
        BY <1>0, <2>4, <3>1 DEF Read, Heard, TypeOK
      <4> QED BY <2>0, <3>0, <4>1, HopeNew
    <3>2. CASE c # e /\ c # Peer[e]
      <4>1. idle'[c] = idle[c] /\ pingSent'[c] = pingSent[c]
        <5>1. Heard(e)
          BY <2>4 DEF Read
        <5> QED BY <2>0, <3>2, <5>1 DEF Heard
      <4>2. Peer[c] # e /\ Peer[c] # Peer[e]
        BY <2>0, <3>2
      <4>3. wire'[c] = wire[c] /\ wire'[Peer[c]] = wire[Peer[c]]
        BY <2>0, <2>4, <3>2, <4>2 DEF Read, Sent
      <4>4. Longer(c) /\ Longer(Peer[c])
        BY <4>3 DEF Longer
      <4>5. ping'[c] \in Pings /\ ping[c] <= ping'[c]
        BY <2>0, <3>0
      <4> QED BY <2>0, <3>0, <4>1, <4>4, <4>5, HopeKept
    <3>3. CASE c # e /\ c = Peer[e]
      <4>1. /\ idle'[c] = idle[c] /\ pingSent'[c] = pingSent[c] /\ Peer[c] = e
            /\ wire[c] # << >> /\ wire'[c] = Tail(wire[c])
        BY <2>0, <2>4, <3>3 DEF Read, Heard, Sent
      <4>2. CASE ~pingSent[c]
        BY <2>0, <3>0, <4>1, <4>2 DEF Hopeful
      <4>3. CASE pingSent[c]
        <5>1. PICK r \in Pings : r <= ping[c] /\ (Asked(c, r) \/ Answered(c, r))
          BY <2>0, <4>3 DEF Hopeful
        <5>2. r \in Nat
          OBVIOUS
        <5>3. CASE Answered(c, r)
          <6>1. PICK i \in DOMAIN wire[e] : idle[c] <= r + Delay + wire[e][i].age
            BY <4>1, <5>3 DEF Answered
          <6>2. i \in DOMAIN wire'[e] /\ wire'[e][i] = wire[e][i]
            <7>1. \/ wire'[e] = wire[e]
                  \/ wire'[e] = Append(wire[e], [type |-> "PONG", age |-> 0])
              BY <2>0, <2>4, <3>0, <3>3, <4>1 DEF Read, Sent
            <7>2. wire[e] \in Seq(Message)
              BY <2>0, <4>1
            <7> QED BY <6>1, <7>1, <7>2, SMTT(30)
          <6>3. Answered(c, r)'
            BY <4>1, <6>1, <6>2 DEF Answered
          <6> QED BY <3>0, <4>1, <4>3, <5>1, <6>3 DEF Hopeful
        <5>4. CASE Asked(c, r)
          <6>1. PICK i \in DOMAIN wire[c] : wire[c][i].type = "PING" /\ idle[c] <= r + wire[c][i].age
            BY <5>4 DEF Asked
          <6>2. CASE i = 1
            <7>1. wire'[e] = Append(wire[e], [type |-> "PONG", age |-> 0])
              BY <2>0, <2>4, <3>0, <3>3, <4>1, <6>1, <6>2 DEF Read, Sent
            <7>2. /\ Len(wire[e]) + 1 \in DOMAIN wire'[e]
                  /\ wire'[e][Len(wire[e]) + 1].age = 0
              BY <2>0, <4>1, <7>1
            <7>3. wire[c][i].age \in 0..Delay
              <8>1. wire[c][i] \in Message
                BY <2>0, <6>1
              <8> QED BY <8>1 DEF Message
            <7>4. idle'[c] <= r + Delay + 0
              BY <2>0, <4>1, <5>2, <6>1, <7>3
            <7>5. Answered(c, r)'
              BY <4>1, <7>2, <7>4 DEF Answered
            <7> QED BY <3>0, <4>1, <4>3, <5>1, <7>5 DEF Hopeful
          <6>3. CASE i # 1
            <7>1. i - 1 \in DOMAIN wire'[c] /\ wire'[c][i - 1] = wire[c][i]
              BY <2>0, <4>1, <6>1, <6>3
            <7>2. Asked(c, r)'
              BY <4>1, <6>1, <7>1 DEF Asked
            <7> QED BY <3>0, <4>1, <4>3, <5>1, <7>2 DEF Hopeful
          <6> QED BY <6>2, <6>3
        <5> QED BY <5>1, <5>3, <5>4
      <4> QED BY <2>0, <4>2, <4>3
    <3> QED BY <3>1, <3>2, <3>3
  <2>5. ASSUME NEW e \in Ends, Talk(e) PROVE Hopeful(c)'
    <3>1. /\ idle' = idle /\ pingSent' = pingSent /\ ping' = ping /\ Slack(c)' = Slack(c)
      BY <2>5 DEF Talk, config, Slack
    <3>2. [type |-> "OTHER", age |-> 0] \in Message
      BY DEF Message
    <3>3. Longer(c) /\ Longer(Peer[c])
      BY <2>0, <2>5, <3>2 DEF Talk, Sent, Longer
    <3>4. ping'[c] \in Pings /\ ping[c] <= ping'[c]
      BY <2>0, <3>1
    <3> QED BY <2>0, <3>1, <3>3, <3>4, HopeKept
  <2>6. ASSUME NEW e \in Ends, Hang(e) PROVE FALSE
    BY <2>6 DEF Hang
  <2>7. CASE UNCHANGED vars
    BY <2>0, <2>7 DEF vars, Hopeful, Slack, Asked, Answered
  <2> QED BY <2>1, <2>2, <2>3, <2>4, <2>5, <2>6, <2>7 DEF Next
<1> QED BY <1>4, <1>5

\* Where a PING and its answer take less than a ping_time, a peer that answers is never
\* closed, whatever the moments at which messages meet the checks (client.c 184-238):
\* only a hung end or a lowered ping_time closes the connection.
THEOREM AnsweringNeverClosed ==
  ASSUME Prompt
  PROVE  Spec => []AnsweringKept
<1> DEFINE J == IInv /\ InOrder /\ Answering
<1>1. Init => J
  <2> SUFFICES ASSUME Init PROVE J
    OBVIOUS
  <2>1. IInv
    BY InitIInv
  <2>2. InOrder
    BY DEF Init, InOrder
  <2>3. ASSUME NEW e \in Checkers PROVE Hopeful(e)
    <3>1. ping[e] \in Nat /\ Slack(e) \in {0, 1} /\ idle[e] = 0 /\ ~pingSent[e]
      BY <2>1, PingBounds DEF Init, Slack, IInv, TypeOK
    <3> QED BY <3>1 DEF Hopeful
  <2> QED BY <2>1, <2>2, <2>3 DEF Answering, Init
<1>2. J /\ [Next]_vars => J'
  BY TypeStep, WaitingStep, OrderStep, AnsweringStep DEF IInv
<1>3. J => AnsweringKept
  BY DEF Answering, AnsweringKept
<1> QED BY <1>1, <1>2, <1>3, PTL DEF Spec

-----------------------------------------------------------------------------
(* Delivery *)


Spoken == [type : {"msg"}, id : Ids, user : Users, kind : Kinds, to : Users]
Changed == [type : {"MEMBER", "DEAF", "+m"}, user : Users, val : Flags \cup {Nobody}]
Sendable == Spoken \cup Changed
Queues == [Links -> Seq(Sendable)]

\* The servers that link l leads to
Beyond(l) == {t \in Servers : Ways[l[1]][t] = l[2]}

-----------------------------------------------------------------------------
(* The tree *)

LEMMA LinkEnds ==
  ASSUME NEW l \in Links
  PROVE  /\ l = <<l[1], l[2]>> /\ l[1] \in Servers /\ l[2] \in Servers /\ l[1] # l[2]
         /\ <<l[2], l[1]>> \in Links
  BY DeliveryTree

LEMMA BeyondEnds ==
  ASSUME NEW l \in Links
  PROVE  l[2] \in Beyond(l) /\ l[1] \notin Beyond(l)
<1>1. l[1] \in Servers /\ l[2] \in Servers /\ l[1] # l[2]
  BY LinkEnds
<1>2. Ways[l[1]][l[1]] = l[1] /\ Ways[l[2]][l[2]] = l[2]
  BY <1>1, DeliveryTree
<1>3. Ways[l[1]][l[2]] # l[2] <=> Ways[l[2]][l[2]] = l[1]
  BY <1>1, DeliveryTree
<1> QED BY <1>1, <1>2, <1>3 DEF Beyond

\* Past its far end a link goes on in parts that do not meet.
LEMMA BeyondParts ==
  ASSUME NEW l \in Links, NEW r, <<l[2], r>> \in Links, r # l[1]
  PROVE  Beyond(<<l[2], r>>) \subseteq Beyond(l) \ {l[2]}
<1>1. l[2] \notin Beyond(<<l[2], r>>)
  BY BeyondEnds
<1>2. SUFFICES ASSUME NEW t \in Servers, Ways[l[2]][t] = r
               PROVE  Ways[l[1]][t] = l[2]
  BY <1>1 DEF Beyond
<1>3. Ways[l[1]][t] # l[2] <=> Ways[l[2]][t] = l[1]
  BY DeliveryTree
<1> QED BY <1>2, <1>3

LEMMA PartsApart ==
  ASSUME NEW s, NEW r, NEW t, r # t
  PROVE  Beyond(<<s, r>>) \cap Beyond(<<s, t>>) = {}
  BY DEF Beyond

-----------------------------------------------------------------------------
(* Queues *)

In(x, m) == \E k \in DOMAIN x : x[k] = m

\* Of no message are there two copies.
OnceIn(x) == \A j, k \in DOMAIN x :
               x[j] \in Spoken /\ x[k] \in Spoken /\ x[j].id = x[k].id => j = k

LEMMA InAppend ==
  ASSUME NEW S, NEW x \in Seq(S), NEW m \in S, NEW n
  PROVE  In(Append(x, m), n) <=> In(x, n) \/ n = m
<1>1. Len(x) \in Nat /\ DOMAIN x = 1..Len(x)
  OBVIOUS
<1>2. /\ DOMAIN Append(x, m) = 1..Len(x) + 1
      /\ \A k \in 1..Len(x) : Append(x, m)[k] = x[k]
      /\ Append(x, m)[Len(x) + 1] = m
  OBVIOUS
<1> QED BY <1>1, <1>2 DEF In

LEMMA InTail ==
  ASSUME NEW S, NEW x \in Seq(S), x # << >>, NEW n
  PROVE  In(x, n) <=> In(Tail(x), n) \/ n = Head(x)
<1>1. Len(x) \in Nat \ {0} /\ DOMAIN x = 1..Len(x)
  OBVIOUS
<1>2. /\ DOMAIN Tail(x) = 1..Len(x) - 1 /\ \A k \in 1..Len(x) - 1 : Tail(x)[k] = x[k + 1]
      /\ Head(x) = x[1]
  OBVIOUS
<1>3. ASSUME In(x, n) PROVE In(Tail(x), n) \/ n = Head(x)
  <2>1. PICK k \in 1..Len(x) : x[k] = n
    BY <1>1, <1>3 DEF In
  <2>2. k # 1 => k - 1 \in 1..Len(x) - 1 /\ (k - 1) + 1 = k
    BY <1>1
  <2> QED BY <1>2, <2>1, <2>2 DEF In
<1>4. ASSUME In(Tail(x), n) PROVE In(x, n)
  <2>1. PICK k \in 1..Len(x) - 1 : x[k + 1] = n
    BY <1>2, <1>4 DEF In
  <2>2. k + 1 \in 1..Len(x)
    BY <1>1
  <2> QED BY <1>1, <2>1, <2>2 DEF In
<1>5. In(x, Head(x))
  BY <1>1, <1>2 DEF In
<1> QED BY <1>3, <1>4, <1>5

LEMMA OnceTail ==
  ASSUME NEW S, NEW x \in Seq(S), x # << >>, OnceIn(x)
  PROVE  /\ OnceIn(Tail(x))
         /\ \A n \in Spoken : In(Tail(x), n) /\ Head(x) \in Spoken => n.id # Head(x).id
<1>1. Len(x) \in Nat \ {0} /\ DOMAIN x = 1..Len(x)
  OBVIOUS
<1>2. /\ DOMAIN Tail(x) = 1..Len(x) - 1 /\ \A k \in 1..Len(x) - 1 : Tail(x)[k] = x[k + 1]
      /\ Head(x) = x[1]
  OBVIOUS
<1>3. \A k \in 1..Len(x) - 1 : k + 1 \in 1..Len(x) /\ k + 1 # 1
  BY <1>1
<1>4. \A j, k \in 1..Len(x) - 1 : j + 1 = k + 1 => j = k
  BY <1>1
<1> QED BY <1>1, <1>2, <1>3, <1>4 DEF OnceIn, In

LEMMA OnceAppend ==
  ASSUME NEW S, NEW x \in Seq(S), NEW m \in S, OnceIn(x),
         m \in Spoken => \A n \in Spoken : In(x, n) => n.id # m.id
  PROVE  OnceIn(Append(x, m))
<1>1. Len(x) \in Nat /\ DOMAIN x = 1..Len(x)
  OBVIOUS
<1>2. /\ DOMAIN Append(x, m) = 1..Len(x) + 1
      /\ \A k \in 1..Len(x) : Append(x, m)[k] = x[k]
      /\ Append(x, m)[Len(x) + 1] = m
  OBVIOUS
<1>3. \A k \in 1..Len(x) + 1 : k \in 1..Len(x) \/ k = Len(x) + 1
  BY <1>1
<1> QED BY <1>1, <1>2, <1>3 DEF OnceIn, In

\* m comes last on the links from s to those of ts.
Put(b, s, ts, m) ==
  \A l \in Links : q'[l] = IF l[1] = s /\ l[2] \in ts THEN Append(b[l], m) ELSE b[l]

LEMMA TookQueues ==
  ASSUME q \in Queues, NEW in, in = << >> \/ (in \in Links /\ q[in] # << >>)
  PROVE  /\ Took(in) \in Queues
         /\ \A l \in Links : Took(in)[l] = IF in # << >> /\ l = in THEN Tail(q[l]) ELSE q[l]
<1>1. CASE in = << >>
  BY <1>1 DEF Took
<1>2. CASE in \in Links /\ q[in] # << >>
  <2>1. in # << >>
    BY <1>2, LinkEnds
  <2>2. Tail(q[in]) \in Seq(Sendable)
    BY <1>2 DEF Queues
  <2> QED BY <1>2, <2>1, <2>2 DEF Took, Queues
<1> QED BY <1>1, <1>2

LEMMA SendPuts ==
  ASSUME NEW b \in Queues, NEW s, NEW ts \in SUBSET Neighbours(s), NEW m \in Sendable,
         q' = Send(b, s, Once(s, ts), m)
  PROVE  q' \in Queues /\ Put(b, s, ts, m)
<1>1. ASSUME NEW l \in Links
      PROVE  q'[l] = IF l[1] = s /\ l[2] \in ts THEN Append(b[l], m) ELSE b[l]
  <2>1. b[l] \in Seq(Sendable)
    BY DEF Queues
  <2>2. q'[l] = IF l[1] = s THEN b[l] \o [k \in 1..Once(s, ts)[l[2]] |-> m] ELSE b[l]
    BY DEF Send
  <2>3. CASE l[1] = s /\ l[2] \in ts
    <3>1. Once(s, ts)[l[2]] = 1
      BY <2>3 DEF Once
    <3>2. [k \in 1..1 |-> m] = << m >>
      OBVIOUS
    <3>3. q'[l] = b[l] \o << m >>
      BY <2>2, <2>3, <3>1, <3>2
    <3>4. b[l] \o << m >> = Append(b[l], m)
      BY <2>1
    <3> QED BY <2>3, <3>3, <3>4
  <2>4. CASE l[1] = s /\ l[2] \notin ts
    <3>1. l[2] \in Neighbours(s)
      BY <2>4, LinkEnds DEF Neighbours
    <3>2. Once(s, ts)[l[2]] = 0
      BY <2>4, <3>1 DEF Once
    <3>3. [k \in 1..0 |-> m] = << >>
      OBVIOUS
    <3>4. q'[l] = b[l] \o << >>
      BY <2>2, <2>4, <3>2, <3>3
    <3> QED BY <2>1, <2>4, <3>4
  <2>5. CASE l[1] # s
    BY <2>2, <2>5
  <2> QED BY <2>3, <2>4, <2>5
<1>2. \A l \in Links : q'[l] \in Seq(Sendable)
  <2>1. \A l \in Links : b[l] \in Seq(Sendable) /\ Append(b[l], m) \in Seq(Sendable)
    BY DEF Queues
  <2> QED BY <1>1, <2>1
<1>3. DOMAIN q' = Links /\ q' = [l \in Links |-> q'[l]]
  BY DEF Send
<1> QED BY <1>1, <1>2, <1>3 DEF Put, Queues

-----------------------------------------------------------------------------
(* The copies of a message *)

\* x is what is on the links, h who has heard what, n how much was said.
Routed(x, h, n) ==
  \A l \in Links :
    /\ OnceIn(x[l])
    /\ \A m \in Spoken : In(x[l], m) =>
         /\ m.id <= n /\ Home[m.user] \notin Beyond(l)
         /\ \A v \in Users : Home[v] \in Beyond(l) => h[v][m.id] = 0
Apart(x) ==
  \A l, k \in Links, m, n \in Spoken :
    l # k /\ In(x[l], m) /\ In(x[k], n) /\ m.id = n.id => Beyond(l) \cap Beyond(k) = {}

\* No message of this number is on its way to a server of A, and nobody there heard it.
Unmet(x, h, i, A) ==
  /\ \A v \in Users : Home[v] \in A => h[v][i] = 0
  /\ \A k \in Links, n \in Spoken : In(x[k], n) /\ n.id = i => Beyond(k) \cap A = {}

LEMMA TookRouted ==
  ASSUME q \in Queues, NEW n, Routed(q, heard, n), Apart(q),
         NEW in \in Links, q[in] # << >>
  PROVE  /\ Routed(Took(in), heard, n) /\ Apart(Took(in))
         /\ \A l \in Links, m \in Sendable : In(Took(in)[l], m) => In(q[l], m)
         /\ \A l \in Links, m \in Sendable :
              In(q[l], m) => In(Took(in)[l], m) \/ (l = in /\ m = Head(q[in]))
         /\ Head(q[in]) \in Sendable /\ In(q[in], Head(q[in]))
         /\ Head(q[in]) \in Spoken =>
              Unmet(Took(in), heard, Head(q[in]).id, Beyond(in))
<1> DEFINE b == Took(in)  h == Head(q[in])
<1>0. in # << >>
  BY LinkEnds
<1>1. \A l \in Links : b[l] = IF l = in THEN Tail(q[l]) ELSE q[l]
  BY <1>0, TookQueues
<1>2. q[in] \in Seq(Sendable) /\ \A l \in Links : q[l] \in Seq(Sendable)
  BY DEF Queues
<1>3. \A m : In(q[in], m) <=> In(Tail(q[in]), m) \/ m = h
  BY <1>2, InTail
<1>4. \A l \in Links : \A m : In(b[l], m) => In(q[l], m)
  BY <1>1, <1>3
<1>5. \A l \in Links : \A m : In(q[l], m) => In(b[l], m) \/ (l = in /\ m = h)
  BY <1>1, <1>3
<1>6. \A l \in Links : OnceIn(q[l])
  BY DEF Routed
<1>7. OnceIn(Tail(q[in])) /\ \A m \in Spoken : In(Tail(q[in]), m) /\ h \in Spoken => m.id # h.id
  BY <1>2, <1>6, OnceTail
<1>8. h \in Sendable /\ In(q[in], h)
  BY <1>2, <1>3
<1> HIDE DEF b, h
<1>9. Routed(b, heard, n)
  BY <1>1, <1>4, <1>6, <1>7 DEF Routed
<1>10. Apart(b)
  BY <1>4 DEF Apart
<1>11. ASSUME h \in Spoken
       PROVE  Unmet(b, heard, h.id, Beyond(in))
  <2>1. \A v \in Users : Home[v] \in Beyond(in) => heard[v][h.id] = 0
    BY <1>8, <1>11 DEF Routed
  <2>2. ASSUME NEW k \in Links, NEW m \in Spoken, In(b[k], m), m.id = h.id
        PROVE  Beyond(k) \cap Beyond(in) = {}
    <3>1. k # in
      BY <1>1, <1>7, <1>11, <2>2
    <3> QED BY <1>4, <1>8, <1>11, <2>2, <3>1 DEF Apart
  <2> QED BY <2>1, <2>2 DEF Unmet
<1> QED BY <1>4, <1>5, <1>8, <1>9, <1>10, <1>11 DEF b, h

\* us of s hear m, and it goes on to the neighbours ts of s.
Spread(b, s, m, us, ts) ==
  /\ us \subseteq Local(s) /\ ts \subseteq Neighbours(s)
  /\ heard' = Hear(us, m) /\ Put(b, s, ts, m)

LEMMA SpreadRouted ==
  ASSUME heard \in [Users -> [Ids -> Nat]], HeardOnce, NEW b \in Queues,
         NEW n \in Nat, Routed(b, heard, n), Apart(b),
         NEW A, NEW s \in A, NEW m \in Spoken, NEW k \in Nat, n <= k, m.id <= k,
         Unmet(b, heard, m.id, A), NEW us, NEW ts, Spread(b, s, m, us, ts),
         \A r \in ts : Beyond(<<s, r>>) \subseteq A \ {s} /\ Home[m.user] \notin Beyond(<<s, r>>)
  PROVE  Routed(q', heard', k) /\ Apart(q') /\ HeardOnce'
         /\ heard' \in [Users -> [Ids -> Nat]]
<1>1. \A l \in Links : q'[l] = IF l[1] = s /\ l[2] \in ts THEN Append(b[l], m) ELSE b[l]
  BY DEF Spread, Put
<1>2. /\ heard' \in [Users -> [Ids -> Nat]]
      /\ \A u \in Users, i \in Ids :
           heard'[u][i] = heard[u][i] + (IF u \in us /\ i = m.id THEN 1 ELSE 0)
  BY DEF Spread, Hear
<1>3. \A u \in Users : u \in us => Home[u] = s
  BY DEF Spread, Local
<1>4. HeardOnce'
  <2> SUFFICES ASSUME NEW u \in Users, NEW i \in Ids PROVE heard'[u][i] <= 1
    BY DEF HeardOnce
  <2>1. heard[u][i] <= 1 /\ heard[u][i] \in Nat
    BY DEF HeardOnce
  <2>2. u \in us /\ i = m.id => heard[u][i] = 0
    BY <1>3 DEF Unmet
  <2> QED BY <1>2, <2>1, <2>2
<1>5. \A l \in Links : b[l] \in Seq(Sendable)
  BY DEF Queues
<1>6. m \in Sendable
  BY DEF Sendable
<1>7. \A l \in Links : \A x : In(q'[l], x) <=> In(b[l], x) \/ (x = m /\ l[1] = s /\ l[2] \in ts)
  BY <1>1, <1>5, <1>6, InAppend
<1>8. \A l \in Links : l[1] = s /\ l[2] \in ts => /\ Beyond(l) \subseteq A \ {s} /\ l[2] \in Beyond(l)
                                                  /\ Home[m.user] \notin Beyond(l)
  BY LinkEnds, BeyondEnds
<1>9. \A l \in Links, x \in Spoken : In(b[l], x) /\ x.id = m.id => Beyond(l) \cap A = {}
  BY DEF Unmet
<1>10. m.id \in Ids
  BY DEF Spoken
<1>11. Routed(q', heard', k)
  <2> SUFFICES ASSUME NEW l \in Links
               PROVE  /\ OnceIn(q'[l])
                      /\ \A x \in Spoken : In(q'[l], x) =>
                           /\ x.id <= k /\ Home[x.user] \notin Beyond(l)
                           /\ \A v \in Users : Home[v] \in Beyond(l) => heard'[v][x.id] = 0
    BY DEF Routed
  <2>1. OnceIn(q'[l])
    <3>1. OnceIn(b[l])
      BY DEF Routed
    <3>2. CASE l[1] = s /\ l[2] \in ts
      <4>1. \A x \in Spoken : In(b[l], x) => x.id # m.id
        BY <1>8, <1>9, <3>2
      <4>2. OnceIn(Append(b[l], m))
        BY <1>5, <1>6, <3>1, <4>1, OnceAppend
      <4> QED BY <1>1, <3>2, <4>2
    <3> QED BY <1>1, <3>1, <3>2
  <2>2. ASSUME NEW x \in Spoken, In(q'[l], x)
        PROVE  /\ x.id <= k /\ Home[x.user] \notin Beyond(l)
               /\ \A v \in Users : Home[v] \in Beyond(l) => heard'[v][x.id] = 0
    <3>0. x.id \in Ids /\ x.id \in Nat
      BY DEF Spoken, Ids
    <3>1. CASE In(b[l], x)
      <4>1. /\ x.id <= n /\ Home[x.user] \notin Beyond(l)
            /\ \A v \in Users : Home[v] \in Beyond(l) => heard[v][x.id] = 0
        BY <3>1 DEF Routed
      <4>2. x.id <= k
        BY <3>0, <4>1
      <4>3. ASSUME NEW v \in Users, Home[v] \in Beyond(l)
            PROVE  heard'[v][x.id] = 0
        <5>1. ~(v \in us /\ x.id = m.id)
          BY <1>3, <1>9, <3>1, <4>3
        <5>2. heard[v][x.id] = 0
          BY <4>1, <4>3
        <5> QED BY <1>2, <3>0, <5>1, <5>2
      <4> QED BY <4>1, <4>2, <4>3
    <3>2. CASE x = m /\ l[1] = s /\ l[2] \in ts
      <4>1. Beyond(l) \subseteq A \ {s} /\ Home[m.user] \notin Beyond(l)
        BY <1>8, <3>2
      <4>2. ASSUME NEW v \in Users, Home[v] \in Beyond(l)
            PROVE  heard'[v][m.id] = 0
        <5>1. v \notin us /\ heard[v][m.id] = 0
          BY <1>3, <4>1, <4>2 DEF Unmet
        <5> QED BY <1>2, <1>10, <5>1
      <4> QED BY <3>2, <4>1, <4>2
    <3> QED BY <1>7, <2>2, <3>1, <3>2
  <2> QED BY <2>1, <2>2
<1>12. Apart(q')
  <2> SUFFICES ASSUME NEW l \in Links, NEW j \in Links, NEW x \in Spoken, NEW y \in Spoken,
                      l # j, In(q'[l], x), In(q'[j], y), x.id = y.id
               PROVE  Beyond(l) \cap Beyond(j) = {}
    BY DEF Apart
  <2>1. CASE In(b[l], x) /\ In(b[j], y)
    BY <2>1 DEF Apart
  <2>2. CASE In(b[l], x) /\ y = m /\ j[1] = s /\ j[2] \in ts
    BY <1>8, <1>9, <2>2
  <2>3. CASE In(b[j], y) /\ x = m /\ l[1] = s /\ l[2] \in ts
    BY <1>8, <1>9, <2>3
  <2>4. CASE l[1] = s /\ j[1] = s
    <3>1. l[2] # j[2] /\ l = <<s, l[2]>> /\ j = <<s, j[2]>>
      BY <2>4, LinkEnds
    <3> QED BY <3>1, PartsApart
  <2>5. In(b[l], x) \/ (x = m /\ l[1] = s /\ l[2] \in ts)
    BY <1>7
  <2>6. In(b[j], y) \/ (y = m /\ j[1] = s /\ j[2] \in ts)
    BY <1>7
  <2> QED BY <2>1, <2>2, <2>3, <2>4, <2>5, <2>6
<1> QED BY <1>2, <1>4, <1>11, <1>12

\* A change is no message.
LEMMA ChangeRouted ==
  ASSUME NEW b \in Queues, NEW n, Routed(b, heard, n), Apart(b),
         NEW s, NEW ts, NEW m \in Changed, Put(b, s, ts, m)
  PROVE  Routed(q', heard, n) /\ Apart(q')
<1>1. \A l \in Links : q'[l] = IF l[1] = s /\ l[2] \in ts THEN Append(b[l], m) ELSE b[l]
  BY DEF Put
<1>2. \A l \in Links : b[l] \in Seq(Sendable)
  BY DEF Queues
<1>3. m \in Sendable /\ m \notin Spoken
  BY DEF Sendable, Spoken, Changed
<1>4. \A l \in Links, x \in Spoken : In(q'[l], x) <=> In(b[l], x)
  BY <1>1, <1>2, <1>3, InAppend
<1>5. \A l \in Links : OnceIn(q'[l])
  BY <1>1, <1>2, <1>3, OnceAppend DEF Routed
<1> QED BY <1>4, <1>5 DEF Routed, Apart

-----------------------------------------------------------------------------
(* What a server does with a message *)

Heards == [Users -> [Ids -> Nat]]

LEMMA HearNone ==
  ASSUME heard \in Heards, NEW m
  PROVE  Hear({}, m) = heard
<1>1. \A u \in Users, i \in Ids :
        heard[u][i] + (IF u \in {} /\ i = m.id THEN 1 ELSE 0) = heard[u][i]
  BY DEF Heards
<1>2. \A u \in Users :
        [i \in Ids |-> heard[u][i] + (IF u \in {} /\ i = m.id THEN 1 ELSE 0)] = heard[u]
  <2> SUFFICES ASSUME NEW u \in Users
               PROVE  [i \in Ids |-> heard[u][i] + (IF u \in {} /\ i = m.id THEN 1 ELSE 0)]
                        = heard[u]
    OBVIOUS
  <2>1. heard[u] \in [Ids -> Nat]
    BY DEF Heards
  <2> QED BY <1>1, <2>1
<1> QED BY <1>2 DEF Hear, Heards

LEMMA TreeWays ==
  ASSUME NEW s \in Servers, NEW v \in Users, Home[v] # s
  PROVE  From(s, v) \in Neighbours(s) /\ From(s, v) = Ways[s][Home[v]]
<1>1. Home[v] \in Servers /\ <<s, Ways[s][Home[v]]>> \in Links /\ Ways[s][Home[v]] \in Servers
  BY DeliveryTree
<1> QED BY <1>1 DEF From, Neighbours

\* Of those who did not change, every server thinks as their own does.
Views ==
  /\ moderated # {} => moved = Users
  /\ \A u \in Users \ moved, s \in Servers : mem[s][u] = mem[Home[u]][u] /\ u \notin deaf[s]
  /\ \A l \in Links, m \in Changed :
       In(q[l], m) => m.user \in moved /\ (m.type = "+m" => moved = Users)

\* The part of the tree that v is in, seen from s, is not the one m came from.
Ahead(s, m, v) == Home[m.user] = s \/ From(s, v) # From(s, m.user)

\* Who is to hear m does, or is on the way of a copy, unless s takes m for a flood.
Served(s, m, us, ts) ==
  \/ m.id \in lost'
  \/ \A v \in Users : IsFor(m, v) /\ Ahead(s, m, v) =>
       IF Home[v] = s THEN v \in us ELSE From(s, v) \in ts

Away(s, m, ts) == Home[m.user] # s => From(s, m.user) \notin ts

FloodOK(c, n) ==
  /\ c \in [Servers \cup Users -> 0..(FloodCount + 2)] /\ n \subseteq Servers \cup Users
  /\ \A x \in Servers \cup Users : x \in n \/ c[x] <= FloodCount

\* A flood is what the protection may stop; whether it may depends on the channel for
\* what is said there.
Stoppable(m) == Floodable(m) \/ (m.kind \in DOMAIN Rights /\ m.user \in moved)
Loses(m) == lost' = lost \/ (lost' = lost \cup {m.id} /\ Stoppable(m))

Handled(s, in, m) ==
  /\ \E us, ts : /\ Spread(Took(in), s, m, us, ts) /\ Away(s, m, ts)
                 /\ Served(s, m, us, ts)
  /\ q' \in Queues /\ FloodOK(count', noticed') /\ Loses(m)

LEMMA TallyStays ==
  ASSUME FloodOK(count, noticed), NEW x \in Servers \cup Users, NEW called \in BOOLEAN,
         Tally(x, called)
  PROVE  FloodOK(count', noticed')
<1>1. count[x] \in 0..(FloodCount + 2) /\ (x \in noticed \/ count[x] <= FloodCount)
  BY DEF FloodOK
<1>2. FloodCount \in Nat
  BY DeliveryBounds
<1>3. Counted(x) \in 0..(FloodCount + 2)
  BY <1>1, <1>2 DEF Counted, Flood
<1>4. x \in noticed \/ Flood(x) \/ Counted(x) <= FloodCount
  BY <1>1, <1>2 DEF Counted, Flood
<1>5. CASE called
  <2>1. /\ count' = [count EXCEPT ![x] = Counted(x)]
        /\ noticed' = IF Flood(x) THEN noticed \cup {x} ELSE noticed
    BY <1>5 DEF Tally
  <2> QED BY <1>3, <1>4, <2>1 DEF FloodOK
<1>6. CASE ~called
  BY <1>6 DEF Tally, FloodOK
<1> QED BY <1>5, <1>6

LEMMA NoneSpread ==
  ASSUME heard \in Heards, NEW s, NEW in, NEW m, heard' = heard, q' = Took(in)
  PROVE  Spread(Took(in), s, m, {}, {}) /\ Away(s, m, {})
<1>1. heard' = Hear({}, m)
  BY HearNone
<1>2. Put(Took(in), s, {}, m)
  BY DEF Put
<1> QED BY <1>1, <1>2 DEF Spread, Away

\* sendto_one and the others send one copy to each neighbour of ts.
LEMMA SpreadHandled ==
  ASSUME q \in Queues, heard \in Heards, FloodOK(count, noticed),
         NEW s \in Servers, NEW in, in = << >> \/ (in \in Links /\ q[in] # << >>),
         NEW m \in Spoken,
         NEW us \in SUBSET Local(s), NEW ts \in SUBSET Neighbours(s), Away(s, m, ts),
         heard' = Hear(us, m), q' = Send(Took(in), s, Once(s, ts), m),
         UNCHANGED <<count, noticed, lost>>, Served(s, m, us, ts)
  PROVE  Handled(s, in, m)
<1>1. Took(in) \in Queues /\ m \in Sendable
  BY TookQueues DEF Sendable
<1>2. q' \in Queues /\ Put(Took(in), s, ts, m)
  BY <1>1, SendPuts
<1>3. Spread(Took(in), s, m, us, ts)
  BY <1>2 DEF Spread
<1>4. FloodOK(count', noticed') /\ Loses(m)
  BY DEF FloodOK, Loses
<1> QED BY <1>2, <1>3, <1>4 DEF Handled

LEMMA ChannelKinds == DOMAIN Rights = {"chan", "voiced", "ops"}
BY DEF Rights

\* Who did not change is a hearer of m at each server m comes to, and s lets an unchanged
\* member speak.
LEMMA HearsThere ==
  ASSUME Views, NEW s \in Servers, NEW m \in Spoken, NEW v \in Users,
         m.kind \in DOMAIN Rights, IsFor(m, v)
  PROVE  CanSend(s, m.user) # "no" /\ (Ahead(s, m, v) => v \in Hearers(s, m))
<1>1. m.user \in Users \ moved /\ v \in Users \ moved /\ v # m.user
      /\ mem[Home[m.user]][m.user] # Nobody /\ mem[Home[v]][v] \in Rights[m.kind]
  BY ChannelKinds DEF IsFor, Spoken
<1>2. mem[s][m.user] # Nobody /\ moderated = {}
  BY <1>1 DEF Views
<1>3. CanSend(s, m.user) # "no"
  BY <1>2 DEF CanSend
<1>4. mem[s][v] \in Rights[m.kind] /\ v \notin deaf[s]
  BY <1>1 DEF Views
<1> QED BY <1>1, <1>3, <1>4 DEF Hearers, Ahead

LEMMA ChannelHandled ==
  ASSUME q \in Queues, heard \in Heards, FloodOK(count, noticed), Views,
         NEW s \in Servers, NEW in, in = << >> \/ (in \in Links /\ q[in] # << >>),
         NEW m \in Spoken, m.kind \in DOMAIN Rights, Channel(s, in, m)
  PROVE  Handled(s, in, m)
<1> DEFINE can == CanSend(s, m.user)
           drop == can = "no" \/ (can = "yes" /\ Flood(s))
           us == Hearers(s, m) \cap Local(s)
           ts == {From(s, v) : v \in Hearers(s, m) \ Local(s)}
<1>1. Took(in) \in Queues /\ m \in Sendable
  BY TookQueues DEF Sendable
<1>2. FloodOK(count', noticed')
  <2>1. Tally(s, can = "yes") /\ s \in Servers \cup Users
    BY DEF Channel
  <2> QED BY <2>1, TallyStays
<1>3. Loses(m)
  <2>1. lost' = IF can = "yes" /\ Flood(s) THEN lost \cup {m.id} ELSE lost
    BY DEF Channel
  <2>2. can = "yes" => Stoppable(m)
    <3>1. can = "yes" => mem[s][m.user] \notin {"op", "voice"}
      BY DEF CanSend
    <3>2. m.user \in Users /\ (m.user \notin moved => mem[Home[m.user]][m.user] = mem[s][m.user])
      BY DEF Views, Spoken
    <3> QED BY <3>1, <3>2 DEF Stoppable, Floodable
  <2> QED BY <2>1, <2>2 DEF Loses
<1>4. us \subseteq Local(s) /\ ts \subseteq Neighbours(s) /\ Away(s, m, ts)
  <2>1. \A v \in Hearers(s, m) \ Local(s) : v \in Users /\ Home[v] # s
    BY DEF Hearers, Local
  <2>2. ts \subseteq Neighbours(s)
    BY <2>1, TreeWays
  <2>3. Away(s, m, ts)
    BY DEF Away, Hearers
  <2> QED BY <2>2, <2>3
<1>5. CASE drop
  <2>1. heard' = heard /\ q' = Took(in)
    BY <1>5 DEF Channel
  <2>2. can = "no" \/ m.id \in lost'
    BY <1>5 DEF Channel
  <2>3. Served(s, m, {}, {})
    BY <2>2, HearsThere DEF Served
  <2>4. Spread(Took(in), s, m, {}, {}) /\ Away(s, m, {})
    BY <2>1, NoneSpread
  <2>5. \E x, y : Spread(Took(in), s, m, x, y) /\ Away(s, m, y) /\ Served(s, m, x, y)
    BY <2>3, <2>4
  <2> QED BY <1>1, <1>2, <1>3, <2>1, <2>5 DEF Handled
<1>6. CASE ~drop
  <2>1. heard' = Hear(us, m) /\ q' = Send(Took(in), s, Copies(s, m), m)
    BY <1>6 DEF Channel
  <2>2. q' = Send(Took(in), s, Once(s, ts), m)
    BY <2>1 DEF Copies
  <2>3. ts \in SUBSET Neighbours(s)
    BY <1>4
  <2>4. Served(s, m, us, ts)
    <3>1. \A v \in Hearers(s, m) : IF Home[v] = s THEN v \in us ELSE From(s, v) \in ts
      BY DEF Hearers, Local
    <3> HIDE DEF us, ts
    <3> QED BY <3>1, HearsThere DEF Served
  <2> HIDE DEF ts
  <2>5. q' \in Queues /\ Put(Took(in), s, ts, m)
    BY <1>1, <2>2, <2>3, SendPuts
  <2>6. Spread(Took(in), s, m, us, ts)
    BY <1>4, <2>1, <2>3, <2>5 DEF Spread
  <2>7. \E x, y : Spread(Took(in), s, m, x, y) /\ Away(s, m, y) /\ Served(s, m, x, y)
    BY <1>4, <2>4, <2>6
  <2> QED BY <1>2, <1>3, <2>5, <2>7 DEF Handled
<1> QED BY <1>5, <1>6

-----------------------------------------------------------------------------
(* Messages that are for no channel *)

LEMMA AheadNeighbour ==
  ASSUME NEW s \in Servers, NEW m \in Spoken, NEW v \in Users, Ahead(s, m, v), Home[v] # s
  PROVE  /\ From(s, v) \in Neighbours(s) \ {From(s, m.user)}
         /\ From(s, v) = Ways[s][Home[v]] /\ Ways[s][Home[m.user]] # Ways[s][Home[v]]
<1>1. From(s, v) \in Neighbours(s) /\ From(s, v) = Ways[s][Home[v]]
  BY TreeWays
<1>2. From(s, v) # s
  BY <1>1, DeliveryTree DEF Neighbours
<1>3. From(s, m.user) = Ways[s][Home[m.user]]
  BY DeliveryTree DEF From, Spoken
<1>4. Home[m.user] = s => From(s, m.user) = s
  BY DEF From
<1> QED BY <1>1, <1>2, <1>3, <1>4 DEF Ahead

\* LOCOPS for v are let through by the next server on the way.
LEMMA WayNext ==
  ASSUME NEW s \in Servers, NEW h \in Servers, NEW d \in Servers, d # s,
         Ways[s][h] # Ways[s][d]
  PROVE  Ways[s][d] \in Way(h, d) \ {h}
<1> DEFINE r == Ways[s][d]
<1>1. <<s, r>> \in Links /\ r \in Servers /\ r # s
  BY DeliveryTree
<1>2. \A t \in Servers : Ways[s][t] # r <=> Ways[r][t] = s
  BY <1>1, DeliveryTree
<1>3. Ways[r][h] = s /\ Ways[r][d] # s
  BY <1>2
<1>4. Ways[r][r] = r
  BY <1>1, DeliveryTree
<1> QED BY <1>1, <1>3, <1>4 DEF Way

LEMMA WayEnd ==
  ASSUME NEW h \in Servers, NEW d \in Servers
  PROVE  d \in Way(h, d)
<1>1. Ways[d][d] = d /\ (h # d => <<d, Ways[d][h]>> \in Links)
  BY DeliveryTree
<1>2. h # d => Ways[d][h] # d
  BY <1>1, DeliveryTree
<1> QED BY <1>1, <1>2 DEF Way

LEMMA ClientHandled ==
  ASSUME q \in Queues, heard \in Heards, FloodOK(count, noticed),
         NEW s \in Servers, NEW in, in = << >> \/ (in \in Links /\ q[in] # << >>),
         NEW m \in Spoken, m.kind = "user", Client(s, in, m)
  PROVE  Handled(s, in, m)
<1>1. m.user \in Users /\ m.to \in Users /\ m.kind \notin DOMAIN Rights
  BY ChannelKinds DEF Spoken
<1>2. Took(in) \in Queues
  BY TookQueues
<1>3. \A v \in Users : IsFor(m, v) =>
        v = m.to /\ ~Barred(s, m) /\ Listens(Home[v], m.user, v)
  BY <1>1 DEF IsFor, Barred
<1>4. CASE Barred(s, m)
  <2>1. heard' = heard /\ q' = Took(in) /\ UNCHANGED <<count, noticed, lost>>
    BY <1>4 DEF Client
  <2>2. Spread(Took(in), s, m, {}, {}) /\ Away(s, m, {})
    BY <2>1, NoneSpread
  <2>3. Served(s, m, {}, {})
    BY <1>3, <1>4 DEF Served
  <2>4. \E x, y : Spread(Took(in), s, m, x, y) /\ Away(s, m, y) /\ Served(s, m, x, y)
    BY <2>2, <2>3
  <2> QED BY <1>2, <2>1, <2>4 DEF Handled, FloodOK, Loses
<1>5. CASE ~Barred(s, m) /\ Home[m.to] = s
  <2> DEFINE refused == ~Listens(s, m.user, m.to)
             limited == /\ m.to \notin CallerId \cup Soft
                        /\ Home[m.user] = s /\ m.user \notin Operators
             drop == limited /\ Flood(m.to)
  <2>1. q' = Took(in) /\ Tell(s, m)
    BY <1>5 DEF Client
  <2>2. /\ Tally(m.to, refused \/ limited)
        /\ heard' = IF refused \/ drop THEN heard ELSE Hear({m.to}, m)
        /\ lost' = IF drop THEN lost \cup {m.id} ELSE lost
    BY <2>1 DEF Tell
  <2>3. drop => Stoppable(m)
    BY <1>1, <1>5 DEF Stoppable, Floodable
  <2>4. refused => \A v \in Users : ~IsFor(m, v)
    BY <1>3, <1>5
  <2> HIDE DEF refused, limited, drop
  <2>5. FloodOK(count', noticed')
    <3>1. (refused \/ limited) \in BOOLEAN /\ m.to \in Servers \cup Users
      BY <1>1 DEF refused, limited
    <3> QED BY <2>2, <3>1, TallyStays
  <2>6. Loses(m)
    BY <2>2, <2>3 DEF Loses
  <2>7. CASE refused \/ drop
    <3>1. Spread(Took(in), s, m, {}, {}) /\ Away(s, m, {})
      BY <2>1, <2>2, <2>7, NoneSpread
    <3>2. Served(s, m, {}, {})
      BY <2>2, <2>4, <2>7 DEF Served
    <3>3. \E x, y : Spread(Took(in), s, m, x, y) /\ Away(s, m, y) /\ Served(s, m, x, y)
      BY <3>1, <3>2
    <3> QED BY <1>2, <2>1, <2>5, <2>6, <3>3 DEF Handled
  <2>8. CASE ~(refused \/ drop)
    <3>1. Put(Took(in), s, {}, m)
      BY <2>1 DEF Put
    <3>2. heard' = Hear({m.to}, m) /\ {m.to} \subseteq Local(s)
      BY <1>1, <1>5, <2>2, <2>8 DEF Local
    <3>3. Spread(Took(in), s, m, {m.to}, {}) /\ Away(s, m, {})
      BY <3>1, <3>2 DEF Spread, Away
    <3>4. Served(s, m, {m.to}, {})
      BY <1>3, <1>5 DEF Served
    <3>5. \E x, y : Spread(Took(in), s, m, x, y) /\ Away(s, m, y) /\ Served(s, m, x, y)
      BY <3>3, <3>4
    <3> QED BY <1>2, <2>1, <2>5, <2>6, <3>5 DEF Handled
  <2> QED BY <2>7, <2>8
<1>6. CASE ~Barred(s, m) /\ Home[m.to] # s
  <2> DEFINE ts == {From(s, m.to)} \ {From(s, m.user)}
  <2>1. q' = Send(Took(in), s, Once(s, ts), m) /\ UNCHANGED <<count, noticed, heard, lost>>
    BY <1>6 DEF Client
  <2>2. heard' = Hear({}, m) /\ {} \in SUBSET Local(s)
    BY <2>1, HearNone
  <2>3. ts \in SUBSET Neighbours(s) /\ Away(s, m, ts)
    BY <1>1, <1>6, TreeWays DEF Away
  <2>4. Served(s, m, {}, ts)
    <3>1. \A v \in Users : IsFor(m, v) /\ Ahead(s, m, v) => Home[v] # s /\ From(s, v) \in ts
      BY <1>3, <1>6, AheadNeighbour
    <3> QED BY <3>1 DEF Served
  <2> HIDE DEF ts
  <2> QED BY <2>1, <2>2, <2>3, <2>4, SpreadHandled
<1> QED BY <1>4, <1>5, <1>6 DEF Client

LEMMA ForwardHandled ==
  ASSUME q \in Queues, heard \in Heards, FloodOK(count, noticed),
         NEW s \in Servers, NEW in, in = << >> \/ (in \in Links /\ q[in] # << >>),
         NEW m \in Spoken, NEW us \in SUBSET Local(s), NEW ts \in SUBSET Farther(s, m),
         Forward(s, in, m, us, ts), Served(s, m, us, ts)
  PROVE  Handled(s, in, m)
<1>1. ts \in SUBSET Neighbours(s) /\ Away(s, m, ts)
  BY DEF Farther, Away
<1>2. /\ heard' = Hear(us, m) /\ q' = Send(Took(in), s, Once(s, ts), m)
      /\ UNCHANGED <<count, noticed, lost>>
  BY DEF Forward
<1> QED BY <1>1, <1>2, SpreadHandled

LEMMA HandleOK ==
  ASSUME q \in Queues, heard \in Heards, FloodOK(count, noticed), Views,
         NEW s \in Servers, NEW in, in = << >> \/ (in \in Links /\ q[in] # << >>),
         NEW m \in Spoken, Handle(s, in, m)
  PROVE  Handled(s, in, m)
<1>1. m.user \in Users /\ m.to \in Users /\ m.kind \in Kinds
  BY DEF Spoken
<1>2. m.kind \in {"chan", "voiced", "ops", "user", "all", "wallops", "locops"}
  BY <1>1, DeliveryBounds
<1>3. Home[m.user] \in Servers /\ \A v \in Users : Home[v] \in Servers
  BY <1>1, DeliveryTree
<1>4. \A v \in Users : Ahead(s, m, v) /\ Home[v] # s => From(s, v) \in Farther(s, m)
  BY AheadNeighbour DEF Farther
<1>5. CASE m.kind \in DOMAIN Rights
  <2>1. Channel(s, in, m)
    BY <1>5, ChannelKinds DEF Handle
  <2> QED BY <1>5, <2>1, ChannelHandled
<1>6. CASE m.kind = "user"
  <2>1. Client(s, in, m)
    BY <1>6, ChannelKinds DEF Handle
  <2> QED BY <1>6, <2>1, ClientHandled
<1>7. CASE m.kind = "all"
  <2>1. Forward(s, in, m, Local(s), Farther(s, m))
    BY <1>7, ChannelKinds DEF Handle, Everyone
  <2>2. Served(s, m, Local(s), Farther(s, m))
    BY <1>4 DEF Served, Local
  <2> QED BY <2>1, <2>2, ForwardHandled
<1>8. CASE m.kind = "wallops"
  <2>1. Forward(s, in, m, Local(s) \cap Operators, Farther(s, m))
    BY <1>8, ChannelKinds DEF Handle, Wallops
  <2>2. \A v \in Users : IsFor(m, v) => v \in Operators
    BY <1>8, ChannelKinds DEF IsFor
  <2>3. Served(s, m, Local(s) \cap Operators, Farther(s, m))
    BY <1>4, <2>2 DEF Served, Local
  <2>4. Local(s) \cap Operators \in SUBSET Local(s)
    OBVIOUS
  <2> QED BY <2>1, <2>3, <2>4, ForwardHandled
<1>9. CASE m.kind = "locops"
  <2> DEFINE us == IF Home[m.user] = s \/ s \in Cluster THEN Local(s) \cap Operators ELSE {}
             ts == Farther(s, m) \cap Cluster
  <2>1. Forward(s, in, m, us, ts)
    BY <1>9, ChannelKinds DEF Handle, Locops
  <2>2. \A v \in Users : IsFor(m, v) =>
          v \in Operators /\ Way(Home[m.user], Home[v]) \subseteq Cluster \cup {Home[m.user]}
    BY <1>9, ChannelKinds DEF IsFor
  <2>3. Served(s, m, us, ts)
    <3> SUFFICES ASSUME NEW v \in Users, IsFor(m, v), Ahead(s, m, v)
                 PROVE  IF Home[v] = s THEN v \in us ELSE From(s, v) \in ts
      BY DEF Served
    <3>1. CASE Home[v] = s
      <4>1. s \in Cluster \cup {Home[m.user]}
        BY <1>3, <2>2, <3>1, WayEnd
      <4> QED BY <2>2, <3>1, <4>1 DEF Local
    <3>2. CASE Home[v] # s
      <4>1. From(s, v) = Ways[s][Home[v]] /\ Ways[s][Home[m.user]] # Ways[s][Home[v]]
        BY <3>2, AheadNeighbour
      <4>2. From(s, v) \in Cluster
        BY <1>3, <2>2, <3>2, <4>1, WayNext
      <4> QED BY <1>4, <3>2, <4>2
    <3> QED BY <3>1, <3>2
  <2>4. us \in SUBSET Local(s) /\ ts \in SUBSET Farther(s, m)
    OBVIOUS
  <2> HIDE DEF us, ts
  <2> QED BY <2>1, <2>3, <2>4, ForwardHandled
<1> QED BY <1>2, <1>5, <1>6, <1>7, <1>8, <1>9, ChannelKinds

-----------------------------------------------------------------------------
(* The invariant *)

\* What is on the links was said.
Sents ==
  /\ sent \subseteq Spoken /\ \A r \in sent : r.id <= says
  /\ \A r \in sent, l \in Links, m \in Spoken : In(q[l], m) /\ m.id = r.id => m = r

\* Spoken i is on its way to v.
Coming(x, v, i) ==
  \E l \in Links, m \in Spoken : In(x[l], m) /\ m.id = i /\ Home[v] \in Beyond(l)
Awaited ==
  \A r \in sent : r.id \notin lost =>
    \A v \in Users : IsFor(r, v) => heard[v][r.id] = 1 \/ Coming(q, v, r.id)

\* Only what the flood protection may stop is lost.
Losses == lost \subseteq 1..says /\ \A r \in sent : r.id \in lost => Stoppable(r)

Unsaid == \A u \in Users, i \in Ids : i > says => heard[u][i] = 0

DeliveryInv ==
  /\ DeliveryTypeOK /\ q \in Queues /\ FloodOK(count, noticed)
  /\ Routed(q, heard, says) /\ Apart(q) /\ HeardOnce /\ Unsaid
  /\ Views /\ Sents /\ Awaited /\ Losses

LEMMA InitDelivery == DeliveryInit => DeliveryInv
<1> SUFFICES ASSUME DeliveryInit PROVE DeliveryInv
  OBVIOUS
<1>0. PICK f \in Starts : mem = [s \in Servers |-> f]
  BY DEF DeliveryInit
<1>1. f \in [Users -> Flags \cup {Nobody}] /\ FloodCount \in Nat /\ MaxSays \in Nat
      /\ MaxMoves \in Nat
  BY DeliveryBounds
<1>2. \A l \in Links : q[l] = << >>
  BY DEF DeliveryInit
<1>3. DeliveryTypeOK
  BY <1>0, <1>1 DEF DeliveryInit, DeliveryTypeOK
<1>4. q \in Queues /\ FloodOK(count, noticed)
  BY <1>1 DEF DeliveryInit, Queues, FloodOK
<1>5. \A l \in Links : \A m : ~In(q[l], m)
  BY <1>2 DEF In
<1>6. \A l \in Links : OnceIn(q[l])
  BY <1>2 DEF OnceIn
<1>7. Routed(q, heard, says) /\ Apart(q)
  BY <1>5, <1>6 DEF Routed, Apart
<1>8. HeardOnce /\ Unsaid
  BY DEF DeliveryInit, HeardOnce, Unsaid
<1>9. Views
  BY <1>0, <1>5, DeliveryTree DEF DeliveryInit, Views
<1>10. Sents /\ Awaited /\ Losses
  BY DEF DeliveryInit, Sents, Awaited, Losses
<1> QED BY <1>3, <1>4, <1>7, <1>8, <1>9, <1>10 DEF DeliveryInv

LEMMA PutIn ==
  ASSUME NEW b \in Queues, NEW s, NEW ts, NEW m \in Sendable, Put(b, s, ts, m)
  PROVE  /\ \A l \in Links : \A x : In(b[l], x) => In(q'[l], x)
         /\ \A l \in Links : \A x : In(q'[l], x) => In(b[l], x) \/ (x = m /\ l[1] = s /\ l[2] \in ts)
         /\ \A l \in Links : l[1] = s /\ l[2] \in ts => In(q'[l], m)
<1>1. \A l \in Links : b[l] \in Seq(Sendable)
  BY DEF Queues
<1>2. \A l \in Links : q'[l] = IF l[1] = s /\ l[2] \in ts THEN Append(b[l], m) ELSE b[l]
  BY DEF Put
<1>3. \A l \in Links : \A x : In(q'[l], x) <=> In(b[l], x) \/ (x = m /\ l[1] = s /\ l[2] \in ts)
  BY <1>1, <1>2, InAppend
<1> QED BY <1>3

\* Who is served has heard m, or a copy is on its way to him.
LEMMA ServedComes ==
  ASSUME heard \in Heards, NEW b \in Queues, NEW s \in Servers, NEW m \in Spoken,
         NEW us, NEW ts, Spread(b, s, m, us, ts), NEW v \in Users, heard[v][m.id] = 0,
         IF Home[v] = s THEN v \in us ELSE From(s, v) \in ts
  PROVE  heard'[v][m.id] = 1 \/ Coming(q', v, m.id)
<1>1. m.id \in Ids /\ m \in Sendable
  BY DEF Spoken, Sendable
<1>2. CASE Home[v] = s
  <2>1. heard'[v][m.id] = heard[v][m.id] + (IF v \in us /\ m.id = m.id THEN 1 ELSE 0)
    BY <1>1 DEF Spread, Hear
  <2> QED BY <1>2, <2>1
<1>3. CASE Home[v] # s
  <2>1. From(s, v) \in ts /\ From(s, v) \in Neighbours(s) /\ From(s, v) = Ways[s][Home[v]]
    BY <1>3, TreeWays
  <2> DEFINE l == <<s, From(s, v)>>
  <2>2. l \in Links /\ l[1] = s /\ l[2] = From(s, v)
    BY <2>1 DEF Neighbours
  <2>3. In(q'[l], m)
    BY <1>1, <2>1, <2>2, PutIn DEF Spread
  <2>4. Home[v] \in Beyond(l)
    BY <2>1, DeliveryTree DEF Beyond
  <2> QED BY <2>2, <2>3, <2>4 DEF Coming
<1> QED BY <1>2, <1>3

LEMMA HeardStays ==
  ASSUME heard \in Heards, HeardOnce', heard' \in Heards,
         NEW b, NEW s, NEW m \in Spoken, NEW us, NEW ts, Spread(b, s, m, us, ts),
         NEW v \in Users, NEW i \in Ids, heard[v][i] = 1
  PROVE  heard'[v][i] = 1
<1>1. heard'[v][i] = heard[v][i] + (IF v \in us /\ i = m.id THEN 1 ELSE 0)
  BY DEF Spread, Hear
<1>2. heard'[v][i] <= 1
  BY DEF HeardOnce
<1> QED BY <1>1, <1>2

\* Who is to hear is told by the channel as his own server has it, and by who changed.
LEMMA SameFor ==
  ASSUME UNCHANGED <<mem, moved>>, NEW m, NEW v
  PROVE  /\ IsFor(m, v)' <=> IsFor(m, v)
         /\ Stoppable(m)' <=> Stoppable(m)
BY DEF IsFor, Listens, Accepted, Barred, Way, Stoppable, Floodable

LEMMA FewerFor ==
  ASSUME moved \subseteq moved', NEW m \in Spoken,
         \A u \in Users \ moved', s \in Servers : mem'[s][u] = mem[s][u]
  PROVE  /\ \A v \in Users : IsFor(m, v)' => IsFor(m, v)
         /\ Stoppable(m) => Stoppable(m)'
<1>1. m.user \in Users /\ Home[m.user] \in Servers
  BY DeliveryTree DEF Spoken
<1>2. Stoppable(m) => Stoppable(m)'
  <2>1. m.user \notin moved' => mem'[Home[m.user]][m.user] = mem[Home[m.user]][m.user]
    BY <1>1
  <2> QED BY <2>1 DEF Stoppable, Floodable
<1>3. ASSUME NEW v \in Users, IsFor(m, v)' PROVE IsFor(m, v)
  <2>0. Home[v] \in Servers
    BY DeliveryTree
  <2>1. CASE m.kind \in DOMAIN Rights
    <3>1. v # m.user /\ {m.user, v} \cap moved' = {}
          /\ mem'[Home[m.user]][m.user] # Nobody /\ mem'[Home[v]][v] \in Rights[m.kind]
      BY <1>3, <2>1, ChannelKinds DEF IsFor
    <3>2. {m.user, v} \cap moved = {}
      BY <3>1
    <3>3. mem'[Home[m.user]][m.user] = mem[Home[m.user]][m.user] /\ mem'[Home[v]][v] = mem[Home[v]][v]
      BY <1>1, <2>0, <3>1
    <3> QED BY <2>1, <3>1, <3>2, <3>3 DEF IsFor
  <2>2. CASE m.kind = "user"
    <3>1. v = m.to /\ ~Barred(Home[m.user], m) /\ Listens(Home[v], m.user, v)'
          /\ (v \in Soft => {m.user, v} \cap moved' = {})
      BY <1>3, <2>2, ChannelKinds DEF IsFor, Barred
    <3>2. v \in Soft => {m.user, v} \cap moved = {}
      BY <3>1
    <3>3. v \in Soft => mem'[Home[v]][m.user] = mem[Home[v]][m.user]
                        /\ mem'[Home[v]][v] = mem[Home[v]][v]
      BY <1>1, <2>0, <3>1
    <3>4. Listens(Home[v], m.user, v)
      BY <3>1, <3>3 DEF Listens, Accepted
    <3> QED BY <2>2, <3>1, <3>2, <3>4 DEF IsFor
  <2>3. CASE m.kind \notin DOMAIN Rights \cup {"user"}
    BY <1>3, <2>3 DEF IsFor, Way
  <2> QED BY <2>1, <2>2, <2>3
<1> QED BY <1>2, <1>3

-----------------------------------------------------------------------------
(* Steps *)

LEMMA SayKeeps ==
  ASSUME DeliveryInv, NEW u \in Users, NEW kind \in Kinds, NEW to \in Users, Say(u, kind, to)
  PROVE  DeliveryInv'
<1> DEFINE s == Home[u]  m == Msg(says + 1, u, kind, to)
<1>1. /\ says \in Nat /\ says < MaxSays /\ says' = says + 1 /\ MaxSays \in Nat
      /\ UNCHANGED <<mem, deaf, moderated, moves, moved>> /\ Handle(s, << >>, m)
      /\ sent' = sent \cup {m}
  BY DeliveryBounds DEF Say, DeliveryInv, DeliveryTypeOK
<1>2. m \in Spoken /\ m.id = says + 1 /\ m.user = u /\ m.kind = kind /\ says + 1 \in Ids
  BY <1>1 DEF Msg, Spoken, Ids
<1>3. s \in Servers /\ q \in Queues /\ heard \in Heards /\ FloodOK(count, noticed) /\ Views
  BY DeliveryTree DEF DeliveryInv, DeliveryTypeOK, Heards
<1>4. Took(<< >>) = q
  BY DEF Took
<1> HIDE DEF m
<1>5. Handled(s, << >>, m)
  BY <1>1, <1>2, <1>3, HandleOK
<1>6. PICK us, ts : Spread(q, s, m, us, ts) /\ Away(s, m, ts) /\ Served(s, m, us, ts)
  BY <1>4, <1>5 DEF Handled
<1>7. q' \in Queues /\ FloodOK(count', noticed') /\ Loses(m)
  BY <1>5 DEF Handled
<1>8. m \in Sendable /\ ts \subseteq Neighbours(s) /\ Put(q, s, ts, m)
  BY <1>2, <1>6 DEF Sendable, Spread
<1>9. \A r \in ts : Beyond(<<s, r>>) \subseteq Servers \ {s} /\ Home[m.user] \notin Beyond(<<s, r>>)
  <2> SUFFICES ASSUME NEW r \in ts
               PROVE  Beyond(<<s, r>>) \subseteq Servers \ {s} /\ s \notin Beyond(<<s, r>>)
    BY <1>2
  <2>1. <<s, r>> \in Links
    BY <1>8 DEF Neighbours
  <2>2. s \notin Beyond(<<s, r>>)
    BY <2>1, BeyondEnds
  <2> QED BY <2>2 DEF Beyond
<1>10. Unmet(q, heard, m.id, Servers)
  <2>1. \A v \in Users : heard[v][m.id] = 0
    BY <1>1, <1>2 DEF DeliveryInv, Unsaid
  <2>2. \A k \in Links, n \in Spoken : In(q[k], n) => n.id # m.id
    <3> SUFFICES ASSUME NEW k \in Links, NEW n \in Spoken, In(q[k], n) PROVE n.id # m.id
      OBVIOUS
    <3>1. n.id <= says /\ n.id \in Nat
      BY DEF DeliveryInv, Routed, Spoken, Ids
    <3> QED BY <1>1, <1>2, <3>1
  <2> QED BY <2>1, <2>2 DEF Unmet
<1>11. Routed(q', heard', says') /\ Apart(q') /\ HeardOnce' /\ heard' \in Heards
  <2>1. Routed(q, heard, says) /\ Apart(q) /\ HeardOnce
    BY DEF DeliveryInv
  <2> DEFINE k == says + 1
  <2>2. k \in Nat /\ says <= k /\ m.id <= k /\ k = says'
    BY <1>1, <1>2
  <2>3. heard \in [Users -> [Ids -> Nat]]
    BY <1>3 DEF Heards
  <2> DEFINE A == Servers
  <2>4. /\ s \in A /\ m \in Spoken /\ q \in Queues /\ says \in Nat /\ Unmet(q, heard, m.id, A)
        /\ \A r \in ts : Beyond(<<s, r>>) \subseteq A \ {s} /\ Home[m.user] \notin Beyond(<<s, r>>)
    BY <1>1, <1>2, <1>3, <1>9, <1>10
  <2> HIDE DEF s, k, A
  <2>5. Routed(q', heard', k) /\ Apart(q') /\ HeardOnce'
        /\ heard' \in [Users -> [Ids -> Nat]]
    BY <1>6, <2>1, <2>2, <2>3, <2>4, SpreadRouted
  <2> QED BY <2>2, <2>5 DEF Heards
<1>12. DeliveryTypeOK'
  BY <1>1, <1>7, <1>11 DEF DeliveryInv, DeliveryTypeOK, FloodOK, Heards
<1>13. Unsaid'
  <2> SUFFICES ASSUME NEW v \in Users, NEW i \in Ids, i > says + 1 PROVE heard'[v][i] = 0
    BY <1>1 DEF Unsaid
  <2>1. i # m.id /\ heard[v][i] = 0
    BY <1>1, <1>2 DEF DeliveryInv, Unsaid, Ids
  <2>2. heard'[v][i] = heard[v][i] + (IF v \in us /\ i = m.id THEN 1 ELSE 0)
    BY <1>6 DEF Spread, Hear
  <2> QED BY <2>1, <2>2
<1>14. \A l \in Links : \A x : In(q'[l], x) => In(q[l], x) \/ (x = m /\ l[1] = s /\ l[2] \in ts)
  BY <1>3, <1>8, PutIn
<1>15. \A l \in Links : \A x : In(q[l], x) => In(q'[l], x)
  BY <1>3, <1>8, PutIn
<1>16. Views /\ Sents /\ Awaited /\ Losses
  BY DEF DeliveryInv
<1>17. Views'
  <2>1. m \notin Changed
    BY <1>2 DEF Spoken, Changed
  <2>2. \A l \in Links, x \in Changed : In(q'[l], x) => In(q[l], x)
    BY <1>14, <2>1
  <2>3. /\ mem' = mem /\ deaf' = deaf /\ moderated' = moderated /\ moved' = moved
    BY <1>1
  <2> QED BY <1>16, <2>2, <2>3 DEF Views
<1>18. \A r \in sent : r \in Spoken /\ r.id \in Nat /\ r.id \in Ids /\ r.id <= says
  BY <1>16 DEF Sents, Spoken, Ids
<1>19. \A r, v : (IsFor(r, v)' <=> IsFor(r, v)) /\ (Stoppable(r)' <=> Stoppable(r))
  BY <1>1, SameFor
<1>20. Sents'
  <2>1. sent' \subseteq Spoken /\ \A r \in sent' : r.id <= says + 1
    BY <1>1, <1>2, <1>18
  <2>2. ASSUME NEW r \in sent', NEW l \in Links, NEW n \in Spoken, In(q'[l], n), n.id = r.id
        PROVE  n = r
    <3>1. In(q[l], n) => n.id <= says /\ n.id \in Nat
      BY DEF DeliveryInv, Routed, Spoken, Ids
    <3>2. CASE r \in sent
      <4>1. n # m
        BY <1>1, <1>2, <1>18, <2>2, <3>2
      <4>2. In(q[l], n)
        BY <1>14, <2>2, <4>1
      <4> QED BY <1>16, <2>2, <3>2, <4>2 DEF Sents
    <3>3. CASE r = m
      <4>1. ~In(q[l], n)
        BY <1>1, <1>2, <2>2, <3>1, <3>3
      <4> QED BY <1>14, <2>2, <3>3, <4>1
    <3> QED BY <1>1, <2>2, <3>2, <3>3
  <2> QED BY <1>1, <2>1, <2>2 DEF Sents
<1>21. Awaited'
  <2> SUFFICES ASSUME NEW r \in sent', r.id \notin lost', NEW v \in Users, IsFor(r, v)
               PROVE  heard'[v][r.id] = 1 \/ Coming(q', v, r.id)
    BY <1>19 DEF Awaited
  <2>1. lost \subseteq lost'
    BY <1>7 DEF Loses
  <2>2. CASE r \in sent
    <3>1. heard[v][r.id] = 1 \/ Coming(q, v, r.id)
      BY <1>16, <2>1, <2>2 DEF Awaited
    <3>2. heard[v][r.id] = 1 => heard'[v][r.id] = 1
      BY <1>2, <1>3, <1>6, <1>11, <1>18, <2>2, HeardStays
    <3>3. Coming(q, v, r.id) => Coming(q', v, r.id)
      BY <1>15 DEF Coming
    <3> QED BY <3>1, <3>2, <3>3
  <2>3. CASE r = m
    <3>1. Ahead(s, m, v)
      BY <1>2 DEF Ahead
    <3>2. IF Home[v] = s THEN v \in us ELSE From(s, v) \in ts
      BY <1>6, <2>3, <3>1 DEF Served
    <3>3. heard[v][m.id] = 0
      BY <1>10, DeliveryTree DEF Unmet
    <3> QED BY <1>2, <1>3, <1>6, <2>3, <3>2, <3>3, ServedComes
  <2> QED BY <1>1, <2>2, <2>3
<1>22. Losses'
  <2>1. lost \subseteq 1..says /\ says \in Nat
    BY <1>1, <1>16 DEF Losses
  <2>2. lost' \subseteq 1..(says + 1)
    <3>1. 1..says \subseteq 1..(says + 1) /\ says + 1 \in 1..(says + 1)
      BY <2>1
    <3> QED BY <1>2, <1>7, <2>1, <3>1 DEF Loses
  <2>3. ASSUME NEW r \in sent', r.id \in lost' PROVE Stoppable(r)
    <3>1. CASE r \in sent
      <4>1. r.id # m.id
        BY <1>1, <1>2, <1>18, <3>1
      <4> QED BY <1>7, <1>16, <2>3, <3>1, <4>1 DEF Loses, Losses
    <3>2. CASE r = m
      <4>1. m.id \notin lost
        BY <1>2, <2>1
      <4> QED BY <1>7, <2>3, <3>2, <4>1 DEF Loses
    <3> QED BY <1>1, <2>3, <3>1, <3>2
  <2> QED BY <1>1, <1>19, <2>2, <2>3 DEF Losses
<1> QED BY <1>7, <1>11, <1>12, <1>13, <1>17, <1>20, <1>21, <1>22 DEF DeliveryInv

LEMMA RecvMsgKeeps ==
  ASSUME DeliveryInv, NEW in \in Links, RecvMsg(in)
  PROVE  DeliveryInv'
<1> DEFINE s == in[2]  m == Head(q[in])  b == Took(in)
<1>1. /\ q[in] # << >> /\ m.type = "msg" /\ Handle(s, in, m)
      /\ UNCHANGED <<mem, deaf, moderated, says, moves, sent, moved>>
  BY DEF RecvMsg, First
<1>2. /\ s \in Servers /\ q \in Queues /\ heard \in Heards /\ FloodOK(count, noticed)
      /\ says \in Nat /\ Views
  <2>1. s \in Servers
    BY LinkEnds
  <2>2. q \in Queues /\ FloodOK(count, noticed) /\ DeliveryTypeOK /\ Views
    BY DEF DeliveryInv
  <2>3. heard \in Heards /\ says \in Nat
    BY <2>2, DeliveryBounds DEF DeliveryTypeOK, Heards
  <2> QED BY <2>1, <2>2, <2>3
<1>3. Routed(q, heard, says) /\ Apart(q) /\ HeardOnce
  BY DEF DeliveryInv
<1>4. /\ Routed(b, heard, says) /\ Apart(b)
      /\ \A l \in Links, x \in Sendable : In(b[l], x) => In(q[l], x)
      /\ \A l \in Links, x \in Sendable : In(q[l], x) => In(b[l], x) \/ (l = in /\ x = m)
      /\ m \in Sendable /\ In(q[in], m)
      /\ m \in Spoken => Unmet(b, heard, m.id, Beyond(in))
  BY <1>1, <1>2, <1>3, TookRouted
<1>5. m \in Spoken /\ m.id \in Ids
  BY <1>1, <1>4 DEF Sendable, Spoken, Changed
<1>6. b \in Queues
  BY <1>1, <1>2, TookQueues
<1> HIDE DEF m, b
<1>7. Handled(s, in, m)
  BY <1>1, <1>2, <1>5, HandleOK
<1>8. PICK us, ts : Spread(b, s, m, us, ts) /\ Away(s, m, ts) /\ Served(s, m, us, ts)
  BY <1>7 DEF Handled, b
<1>9. q' \in Queues /\ FloodOK(count', noticed') /\ Loses(m)
  BY <1>7 DEF Handled
<1>10. s \in Beyond(in) /\ in[1] \notin Beyond(in) /\ in = <<in[1], s>> /\ in[1] # s
       /\ in[1] \in Servers
  BY BeyondEnds, LinkEnds
<1>11. m.user \in Users /\ Home[m.user] \in Servers /\ Home[m.user] \notin Beyond(in)
       /\ m.id <= says
  BY <1>3, <1>4, <1>5, DeliveryTree DEF Routed, Spoken
<1>12. Home[m.user] # s /\ From(s, m.user) = in[1]
  <2>1. Ways[in[1]][Home[m.user]] # s
    BY <1>11 DEF Beyond
  <2>2. Ways[s][Home[m.user]] = in[1]
    BY <1>11, <2>1, DeliveryTree
  <2> QED BY <1>10, <1>11, <2>2 DEF From
<1>13. ts \subseteq Neighbours(s) /\ Put(b, s, ts, m) /\ in[1] \notin ts
  BY <1>8, <1>12 DEF Spread, Away
<1>14. \A r \in ts : Beyond(<<s, r>>) \subseteq Beyond(in) \ {s} /\ Home[m.user] \notin Beyond(<<s, r>>)
  <2> SUFFICES ASSUME NEW r \in ts PROVE Beyond(<<s, r>>) \subseteq Beyond(in) \ {s}
    BY <1>11
  <2>1. <<s, r>> \in Links /\ r # in[1]
    BY <1>13 DEF Neighbours
  <2> QED BY <2>1, BeyondParts
<1>15. Unmet(b, heard, m.id, Beyond(in))
  BY <1>4, <1>5
<1>16. Routed(q', heard', says') /\ Apart(q') /\ HeardOnce' /\ heard' \in Heards
  <2>1. heard \in [Users -> [Ids -> Nat]] /\ says <= says
    BY <1>2 DEF Heards
  <2>2. Routed(q', heard', says) /\ Apart(q') /\ HeardOnce'
        /\ heard' \in [Users -> [Ids -> Nat]]
    BY <1>2, <1>3, <1>4, <1>5, <1>6, <1>8, <1>10, <1>11, <1>14, <1>15, <2>1, SpreadRouted
  <2> QED BY <1>1, <2>2 DEF Heards
<1>17. DeliveryTypeOK'
  BY <1>1, <1>9, <1>16 DEF DeliveryInv, DeliveryTypeOK, FloodOK, Heards
<1>18. Unsaid'
  <2> SUFFICES ASSUME NEW v \in Users, NEW i \in Ids, i > says PROVE heard'[v][i] = 0
    BY <1>1 DEF Unsaid
  <2>1. i # m.id /\ heard[v][i] = 0
    BY <1>2, <1>5, <1>11 DEF DeliveryInv, Unsaid, Ids
  <2>2. heard'[v][i] = heard[v][i] + (IF v \in us /\ i = m.id THEN 1 ELSE 0)
    BY <1>8 DEF Spread, Hear
  <2> QED BY <2>1, <2>2
<1>19. \A l \in Links : \A x : In(q'[l], x) => In(b[l], x) \/ (x = m /\ l[1] = s /\ l[2] \in ts)
  BY <1>4, <1>6, <1>13, PutIn
<1>20. \A l \in Links : \A x : In(b[l], x) => In(q'[l], x)
  BY <1>4, <1>6, <1>13, PutIn
<1>21. Views /\ Sents /\ Awaited /\ Losses
  BY DEF DeliveryInv
<1>22. Spoken \subseteq Sendable /\ Changed \subseteq Sendable
  BY DEF Sendable
<1>23. Views'
  <2>1. m \notin Changed
    BY <1>5 DEF Spoken, Changed
  <2>2. \A l \in Links, x \in Changed : In(q'[l], x) => In(q[l], x)
    BY <1>4, <1>19, <1>22, <2>1
  <2>3. /\ mem' = mem /\ deaf' = deaf /\ moderated' = moderated /\ moved' = moved
    BY <1>1
  <2> QED BY <1>21, <2>2, <2>3 DEF Views
<1>24. \A r, v : (IsFor(r, v)' <=> IsFor(r, v)) /\ (Stoppable(r)' <=> Stoppable(r))
  BY <1>1, SameFor
<1>25. Sents'
  <2>1. ASSUME NEW l \in Links, NEW n \in Spoken, In(q'[l], n)
        PROVE  \E k \in Links : In(q[k], n)
    BY <1>4, <1>19, <1>22, <2>1
  <2>2. sent' = sent /\ says' = says
    BY <1>1
  <2> QED BY <1>21, <2>1, <2>2 DEF Sents
<1>26. Awaited'
  <2>0. lost \subseteq lost' /\ sent' = sent
    BY <1>1, <1>9 DEF Loses
  <2> SUFFICES ASSUME NEW r \in sent, r.id \notin lost', NEW v \in Users, IsFor(r, v)
               PROVE  heard'[v][r.id] = 1 \/ Coming(q', v, r.id)
    BY <1>24, <2>0 DEF Awaited
  <2>1. r \in Spoken /\ r.id \in Ids
    BY <1>21 DEF Sents, Spoken
  <2>2. CASE heard[v][r.id] = 1
    BY <1>2, <1>5, <1>8, <1>16, <2>1, <2>2, HeardStays
  <2>3. CASE Coming(q, v, r.id)
    <3>1. PICK l \in Links, n \in Spoken : In(q[l], n) /\ n.id = r.id /\ Home[v] \in Beyond(l)
      BY <2>3 DEF Coming
    <3>2. CASE In(b[l], n)
      BY <1>20, <3>1, <3>2 DEF Coming
    <3>3. CASE l = in /\ n = m
      <4>1. m = r /\ Home[v] \in Beyond(in)
        BY <1>21, <3>1, <3>3 DEF Sents
      <4>2. From(s, v) # From(s, m.user)
        <5>1. CASE Home[v] = s
          BY <1>10, <1>12, <5>1 DEF From
        <5>2. CASE Home[v] # s
          <6>1. Home[v] \in Servers /\ Ways[in[1]][Home[v]] = s
            BY <4>1 DEF Beyond
          <6>2. Ways[s][Home[v]] # in[1]
            BY <6>1, DeliveryTree
          <6> QED BY <1>12, <5>2, <6>2 DEF From
        <5> QED BY <5>1, <5>2
      <4>3. IF Home[v] = s THEN v \in us ELSE From(s, v) \in ts
        BY <1>8, <4>1, <4>2 DEF Served, Ahead
      <4>4. heard[v][m.id] = 0
        BY <1>15, <4>1 DEF Unmet
      <4> QED BY <1>2, <1>5, <1>6, <1>8, <4>1, <4>3, <4>4, ServedComes
    <3> QED BY <1>4, <1>22, <3>1, <3>2, <3>3
  <2> QED BY <1>21, <2>0, <2>2, <2>3 DEF Awaited
<1>27. Losses'
  <2>1. lost' \subseteq 1..says
    <3>1. lost \subseteq 1..says
      BY <1>21 DEF Losses
    <3>2. m.id \in 1..says
      BY <1>2, <1>5, <1>11, DeliveryBounds DEF Ids
    <3> QED BY <1>9, <3>1, <3>2 DEF Loses
  <2>2. ASSUME NEW r \in sent, r.id \in lost' PROVE Stoppable(r)
    <3>1. r.id = m.id => m = r
      BY <1>4, <1>5, <1>21 DEF Sents
    <3> QED BY <1>9, <1>21, <2>2, <3>1 DEF Loses, Losses
  <2> QED BY <1>1, <1>24, <2>1, <2>2 DEF Losses
<1> QED BY <1>9, <1>16, <1>17, <1>18, <1>23, <1>25, <1>26, <1>27 DEF DeliveryInv

\* A change of user m.user, made or handled by s: he has moved, and only what is known
\* of him is another.
LEMMA ChangeKeeps ==
  ASSUME DeliveryInv, NEW b \in Queues, NEW s \in Servers, NEW m \in Changed,
         Routed(b, heard, says), Apart(b),
         \A l \in Links, x \in Sendable : In(b[l], x) => In(q[l], x),
         \A l \in Links, x \in Spoken : In(q[l], x) => In(b[l], x),
         Apply(s, m), q' = Send(b, s, Flooded(s, m.user), m),
         moved \subseteq moved', moved' \subseteq Users, m.user \in moved',
         m.type = "+m" => moved' = Users, moves' \in 0..MaxMoves,
         UNCHANGED <<count, noticed, says, heard, sent, lost>>
  PROVE  DeliveryInv'
<1> DEFINE ts == Neighbours(s) \ {From(s, m.user)}
<1>1. m \in Sendable /\ m \notin Spoken /\ m.user \in Users
      /\ m.type \in {"MEMBER", "DEAF", "+m"} /\ m.val \in Flags \cup {Nobody}
  BY DEF Sendable, Spoken, Changed
<1>2. ts \in SUBSET Neighbours(s) /\ q' = Send(b, s, Once(s, ts), m)
  BY DEF Flooded
<1> HIDE DEF ts
<1>3. q' \in Queues /\ Put(b, s, ts, m)
  BY <1>1, <1>2, SendPuts
<1>4. Routed(q', heard', says') /\ Apart(q')
  BY <1>3, ChangeRouted
<1>5. \A l \in Links, x \in Spoken : In(q'[l], x) <=> In(q[l], x)
  <2> SUFFICES ASSUME NEW l \in Links, NEW x \in Spoken PROVE In(q'[l], x) <=> In(q[l], x)
    OBVIOUS
  <2>1. In(b[l], x) <=> In(q[l], x)
    BY DEF Sendable
  <2>2. In(b[l], x) => In(q'[l], x)
    BY <1>1, <1>3, PutIn
  <2>3. In(q'[l], x) => In(b[l], x) \/ x = m
    BY <1>1, <1>3, PutIn
  <2> QED BY <1>1, <2>1, <2>2, <2>3
<1>6. \A l \in Links, x \in Changed : In(q'[l], x) => In(q[l], x) \/ x = m
  BY <1>1, <1>3, PutIn DEF Sendable
<1>7. DeliveryTypeOK /\ Views /\ Sents /\ Awaited /\ Losses
  BY DEF DeliveryInv
<1>8. \A t \in Servers, u \in Users : u # m.user =>
        mem'[t][u] = mem[t][u] /\ (u \in deaf'[t] <=> u \in deaf[t])
  BY <1>7 DEF Apply, DeliveryTypeOK
<1>9. mem' \in [Servers -> [Users -> Flags \cup {Nobody}]]
      /\ deaf' \in [Servers -> SUBSET Users] /\ moderated' \subseteq Servers
      /\ (moderated' = moderated \/ m.type = "+m")
  <2>1. mem' \in [Servers -> [Users -> Flags \cup {Nobody}]]
    BY <1>1, <1>7 DEF Apply, DeliveryTypeOK
  <2>2. deaf' \in [Servers -> SUBSET Users]
    BY <1>1, <1>7 DEF Apply, DeliveryTypeOK
  <2>3. moderated' \subseteq Servers /\ (moderated' = moderated \/ m.type = "+m")
    BY <1>7 DEF Apply, DeliveryTypeOK
  <2> QED BY <2>1, <2>2, <2>3
<1>10. DeliveryTypeOK'
  BY <1>7, <1>9 DEF DeliveryTypeOK
<1>11. FloodOK(count', noticed') /\ HeardOnce' /\ Unsaid'
  BY DEF DeliveryInv, FloodOK, HeardOnce, Unsaid
<1>12. \A u \in Users \ moved' : u \in Users \ moved /\ u # m.user /\ Home[u] \in Servers
  BY DeliveryTree
<1>13. Views'
  <2>1. moderated' # {} => moved' = Users
    BY <1>7, <1>9 DEF Views
  <2>2. \A u \in Users \ moved', t \in Servers : mem'[t][u] = mem'[Home[u]][u] /\ u \notin deaf'[t]
    BY <1>7, <1>8, <1>12 DEF Views
  <2>3. \A l \in Links, x \in Changed :
          In(q'[l], x) => x.user \in moved' /\ (x.type = "+m" => moved' = Users)
    BY <1>6, <1>7 DEF Views
  <2> QED BY <2>1, <2>2, <2>3 DEF Views
<1>14. Sents'
  BY <1>5, <1>7 DEF Sents
<1>15. \A r \in sent : r \in Spoken /\ (Stoppable(r) => Stoppable(r)')
                       /\ \A v \in Users : IsFor(r, v)' => IsFor(r, v)
  <2>1. \A u \in Users \ moved', t \in Servers : mem'[t][u] = mem[t][u]
    BY <1>8, <1>12
  <2>2. sent \subseteq Spoken
    BY <1>7 DEF Sents
  <2> QED BY <2>1, <2>2, FewerFor
<1>16. Awaited'
  <2> SUFFICES ASSUME NEW r \in sent, r.id \notin lost, NEW v \in Users, IsFor(r, v)
               PROVE  heard[v][r.id] = 1 \/ Coming(q', v, r.id)
    BY <1>15 DEF Awaited
  <2>1. heard[v][r.id] = 1 \/ Coming(q, v, r.id)
    BY <1>7 DEF Awaited
  <2>2. Coming(q, v, r.id) => Coming(q', v, r.id)
    BY <1>5 DEF Coming
  <2> QED BY <2>1, <2>2
<1>17. Losses'
  BY <1>7, <1>15 DEF Losses
<1> QED BY <1>3, <1>4, <1>10, <1>11, <1>13, <1>14, <1>16, <1>17 DEF DeliveryInv

LEMMA MoveKeeps ==
  ASSUME DeliveryInv, NEW m \in Changed, Move(m)
  PROVE  DeliveryInv'
<1>1. m.user \in Users /\ Home[m.user] \in Servers
  BY DeliveryTree DEF Changed
<1>2. /\ Apply(Home[m.user], m) /\ q' = Send(q, Home[m.user], Flooded(Home[m.user], m.user), m)
      /\ moved' = (IF m.type = "+m" THEN Users ELSE moved \cup {m.user})
      /\ moves < MaxMoves /\ moves' = moves + 1
      /\ UNCHANGED <<count, noticed, says, heard, sent, lost>>
  BY DEF Move
<1>3. q \in Queues /\ Routed(q, heard, says) /\ Apart(q) /\ DeliveryTypeOK
  BY DEF DeliveryInv
<1>4. moves' \in 0..MaxMoves
  BY <1>2, <1>3, DeliveryBounds DEF DeliveryTypeOK
<1>5. moved \subseteq Users
  BY <1>3 DEF DeliveryTypeOK
<1>6. /\ moved \subseteq moved' /\ moved' \subseteq Users /\ m.user \in moved'
      /\ m.type = "+m" => moved' = Users
  BY <1>1, <1>2, <1>5
<1>7. \A l \in Links : \A x : In(q[l], x) => In(q[l], x)
  OBVIOUS
<1> QED BY <1>1, <1>2, <1>3, <1>4, <1>6, <1>7, ChangeKeeps

LEMMA RecvChangeKeeps ==
  ASSUME DeliveryInv, NEW in \in Links, RecvChange(in)
  PROVE  DeliveryInv'
<1> DEFINE m == Head(q[in])  b == Took(in)
<1>1. /\ q[in] # << >> /\ m.type \in {"MEMBER", "DEAF", "+m"} /\ Apply(in[2], m)
      /\ q' = Send(b, in[2], Flooded(in[2], m.user), m)
      /\ UNCHANGED <<count, noticed, says, moves, heard, sent, lost, moved>>
  BY DEF RecvChange, First
<1>2. q \in Queues /\ Routed(q, heard, says) /\ Apart(q) /\ DeliveryTypeOK /\ Views
  BY DEF DeliveryInv
<1>3. /\ Routed(b, heard, says) /\ Apart(b)
      /\ \A l \in Links, x \in Sendable : In(b[l], x) => In(q[l], x)
      /\ \A l \in Links, x \in Sendable : In(q[l], x) => In(b[l], x) \/ (l = in /\ x = m)
      /\ m \in Sendable /\ In(q[in], m)
  BY <1>1, <1>2, TookRouted
<1>4. m \in Changed /\ m \notin Spoken
  BY <1>1, <1>3 DEF Sendable, Spoken, Changed
<1>5. b \in Queues /\ in[2] \in Servers
  BY <1>1, <1>2, TookQueues, LinkEnds
<1>6. m.user \in moved /\ (m.type = "+m" => moved = Users)
  BY <1>2, <1>3, <1>4 DEF Views
<1>7. moved \subseteq Users /\ moves \in 0..MaxMoves
  BY <1>2 DEF DeliveryTypeOK
<1>8. \A l \in Links, x \in Spoken : In(q[l], x) => In(b[l], x)
  BY <1>3, <1>4 DEF Sendable
<1> HIDE DEF m, b
<1> QED BY <1>1, <1>3, <1>4, <1>5, <1>6, <1>7, <1>8, ChangeKeeps

LEMMA CalmKeeps ==
  ASSUME DeliveryInv, NEW x \in Servers \cup Users, Calm(x)
  PROVE  DeliveryInv'
<1>1. /\ count' = [count EXCEPT ![x] = IF @ > 2 THEN @ - 2 ELSE 0]
      /\ noticed' = IF count[x] > 2 THEN noticed ELSE noticed \ {x}
      /\ UNCHANGED <<mem, deaf, moderated, q, says, moves, heard, sent, lost, moved>>
  BY DEF Calm
<1>2. FloodOK(count, noticed) /\ FloodCount \in Nat
  BY DeliveryBounds DEF DeliveryInv
<1>3. FloodOK(count', noticed')
  <2>1. count[x] \in 0..(FloodCount + 2) /\ (x \in noticed \/ count[x] <= FloodCount)
    BY <1>2 DEF FloodOK
  <2> DEFINE n == IF count[x] > 2 THEN count[x] - 2 ELSE 0
  <2>2. n \in 0..(FloodCount + 2) /\ (x \in noticed' \/ n <= FloodCount)
    BY <1>1, <1>2, <2>1
  <2>3. count' = [count EXCEPT ![x] = n]
    BY <1>1
  <2> HIDE DEF n
  <2> QED BY <1>1, <1>2, <2>2, <2>3 DEF FloodOK
<1>4. DeliveryTypeOK'
  BY <1>1, <1>3 DEF DeliveryInv, DeliveryTypeOK, FloodOK
<1>5. Routed(q', heard', says') /\ Apart(q') /\ HeardOnce' /\ Unsaid' /\ q' \in Queues
  BY <1>1 DEF DeliveryInv, Routed, Apart, HeardOnce, Unsaid
<1>6. Views' /\ Sents' /\ Awaited' /\ Losses'
  <2>1. Views /\ Sents /\ Awaited /\ Losses
    BY DEF DeliveryInv
  <2>2. Views'
    BY <1>1, <2>1 DEF Views
  <2>3. Sents'
    BY <1>1, <2>1 DEF Sents
  <2>4. Awaited' /\ Losses'
    BY <1>1, <2>1, SameFor DEF Awaited, Losses
  <2> QED BY <2>2, <2>3, <2>4
<1> QED BY <1>3, <1>4, <1>5, <1>6 DEF DeliveryInv

LEMMA DeliveryStep == DeliveryInv /\ [DeliveryNext(Kinds)]_deliveryVars => DeliveryInv'
<1> SUFFICES ASSUME DeliveryInv, [DeliveryNext(Kinds)]_deliveryVars PROVE DeliveryInv'
  OBVIOUS
<1>1. CASE UNCHANGED deliveryVars
  <2>1. /\ mem' = mem /\ deaf' = deaf /\ moderated' = moderated /\ count' = count
        /\ noticed' = noticed /\ q' = q /\ says' = says /\ moves' = moves /\ heard' = heard
        /\ sent' = sent /\ lost' = lost /\ moved' = moved
    BY <1>1 DEF deliveryVars
  <2>2. DeliveryTypeOK' /\ q' \in Queues /\ FloodOK(count', noticed')
    BY <2>1 DEF DeliveryInv, DeliveryTypeOK
  <2>3. Routed(q', heard', says') /\ Apart(q') /\ HeardOnce' /\ Unsaid'
    BY <2>1 DEF DeliveryInv, HeardOnce, Unsaid
  <2>4. Views' /\ Sents' /\ Awaited' /\ Losses'
    BY <2>1, SameFor DEF DeliveryInv, Views, Sents, Awaited, Losses
  <2> QED BY <2>2, <2>3, <2>4 DEF DeliveryInv
<1>2. CASE \E u \in Users, kind \in Kinds, to \in Users : Say(u, kind, to)
  BY <1>2, SayKeeps
<1>3. CASE \E u \in Users : Join(u) \/ Part(u) \/ Deafen(u) \/ Moderate(u)
  <2>1. PICK u \in Users : Join(u) \/ Part(u) \/ Deafen(u) \/ Moderate(u)
    BY <1>3
  <2>2. \A type \in {"MEMBER", "DEAF", "+m"}, val \in Flags \cup {Nobody} :
          Change(type, u, val) \in Changed
    BY DEF Change, Changed
  <2>3. "plain" \in Flags
    BY DEF Flags
  <2>4. \E m \in Changed : Move(m)
    BY <2>1, <2>2, <2>3 DEF Join, Part, Deafen, Moderate
  <2> QED BY <2>4, MoveKeeps
<1>4. CASE \E l \in Links : RecvMsg(l)
  BY <1>4, RecvMsgKeeps
<1>5. CASE \E l \in Links : RecvChange(l)
  BY <1>5, RecvChangeKeeps
<1>6. CASE \E x \in Servers \cup Users : Calm(x)
  BY <1>6, CalmKeeps
<1> QED BY <1>1, <1>2, <1>3, <1>4, <1>5, <1>6 DEF DeliveryNext

LEMMA DeliveryAlways == DeliverySpec => []DeliveryInv
BY InitDelivery, DeliveryStep, PTL DEF DeliverySpec

-----------------------------------------------------------------------------
(* The theorems *)

\* On any tree, whatever is said and whoever joins, leaves or is silenced meanwhile,
\* memberships, flags, counters of floods and what each has heard keep their types.
THEOREM DeliveryTyped == DeliverySpec => []DeliveryTypeOK
<1>1. DeliveryInv => DeliveryTypeOK
  BY DEF DeliveryInv
<1> QED BY <1>1, DeliveryAlways, PTL

\* Nobody hears a message twice, and when all is delivered all that was said to a channel,
\* a user, everyone or the operators has been heard by each it was for, unless it was
\* taken for a flood and might: on any tree of servers, with any number of messages and
\* changes under way (send.c: sendto_channel_butone, m_message.c).
THEOREM DeliveredAlways == DeliverySpec => []Delivered
<1>1. ASSUME DeliveryInv PROVE Delivered
  <2>1. HeardOnce
    BY <1>1 DEF DeliveryInv
  <2>2. Reached
    <3> SUFFICES ASSUME \A l \in Links : q[l] = << >>,
                        NEW r \in sent, ~(r.id \in lost /\ Floodable(r)),
                        NEW v \in Users, IsFor(r, v)
                 PROVE  heard[v][r.id] = 1
      BY DEF Reached
    <3>1. ~(r.kind \in DOMAIN Rights /\ r.user \in moved)
      BY ChannelKinds DEF IsFor
    <3>2. r.id \notin lost
      BY <1>1, <3>1 DEF DeliveryInv, Losses, Stoppable
    <3>3. heard[v][r.id] = 1 \/ Coming(q, v, r.id)
      BY <1>1, <3>2 DEF DeliveryInv, Awaited
    <3>4. ~Coming(q, v, r.id)
      BY DEF Coming, In
    <3> QED BY <3>3, <3>4
  <2> QED BY <2>1, <2>2 DEF Delivered
<1> QED BY <1>1, DeliveryAlways, PTL

-----------------------------------------------------------------------------
(* ServerTree *)

\* What s may find on connection i: a SERVER names the peer, and the servers that
\* come with SID and EOB have a prefix.
Fit(i, s) == {m \in TreeMessages :
                /\ m.type = "SERVER" => m.who = Other(i, s)
                /\ m.type \in {"SID", "EOB"} => m.src \in Nodes}

Wired == \A e \in Sides :
           /\ tq[e] \in Seq(Fit(e[1], e[2]))
           /\ tq[e] # << >> \/ end[e] # "none" => e[2] \in Pair(e[1])

\* Connections of s to servers, with the name of each
Uplinks(s) == {<<i, Other(i, s)>> : i \in LocalServers(s)}

RootedIn(T, s, P) ==
  \A n \in DOMAIN T :
    IF T[n].up = s THEN <<T[n].via, T[n].name>> \in P
    ELSE \E m \in 1..n - 1 : T[m].name = T[n].up /\ T[m].via = T[n].via
OnceNamed(T) == \A m, n \in DOMAIN T : T[m].name = T[n].name => m = n

Sound(T, s, P) ==
  T \in Seq(Entries) /\ s \notin NamesIn(T) /\ RootedIn(T, s, P) /\ OnceNamed(T)
TreeInv == TreeTypeOK /\ Wired /\ \A s \in Nodes : Sound(table[s], s, Uplinks(s))

-----------------------------------------------------------------------------
(* Recursive functions: they are there, by induction *)

LEMMA LeastOf ==
  ASSUME NEW S, S \subseteq Nat, S # {}
  PROVE  \E k \in S : \A j \in S : k <= j
<1> DEFINE R == OpToRel(<, Nat)
<1>1. IsWellFoundedOn(R, Nat)
  BY NatLessThanWellFounded
<1>2. \A x, y \in Nat : <<y, x>> \in R <=> y < x
  BY DEF OpToRel
<1>3. \E x \in S : \A y \in S : ~(<<y, x>> \in R)
  <2> HIDE DEF R
  <2> QED BY <1>1, WFMin
<1>4. PICK k \in S : \A j \in S : ~(<<j, k>> \in R)
  BY <1>3
<1>5. ASSUME NEW j \in S PROVE k <= j
  <2>1. k \in Nat /\ j \in Nat /\ ~(<<j, k>> \in R)
    BY <1>4
  <2> HIDE DEF R
  <2>2. ~(j < k)
    BY <1>2, <2>1
  <2> QED BY <2>1, <2>2
<1> QED BY <1>5

LEMMA Induct ==
  ASSUME NEW S, 0 \in S, \A k \in Nat : k \in S => k + 1 \in S
  PROVE  \A k \in Nat : k \in S
<1> SUFFICES ASSUME {k \in Nat : k \notin S} # {} PROVE FALSE
  OBVIOUS
<1>1. PICK k \in {i \in Nat : i \notin S} : \A j \in {i \in Nat : i \notin S} : k <= j
  BY LeastOf
<1>2. k # 0 /\ k - 1 \in Nat /\ k - 1 < k
  BY <1>1
<1>3. k - 1 \in S
  BY <1>1, <1>2
<1> QED BY <1>1, <1>2, <1>3

\* From z, g leads from one value to the next, n times.
Run(f, S, z, g, n) ==
  f \in [0..n -> S] /\ f[0] = z /\ \A k \in 1..n : f[k] = g[<<f[k - 1], k>>]

LEMMA RunIs ==
  ASSUME NEW S, NEW z \in S, NEW N \in Nat, NEW g \in [S \X (1..N) -> S]
  PROVE  \E f : Run(f, S, z, g, N)
<1> DEFINE T == {n \in Nat : n <= N => \E f : Run(f, S, z, g, n)}
<1>1. 0 \in T
  <2>1. Run([k \in 0..0 |-> z], S, z, g, 0)
    BY DEF Run
  <2> QED BY <2>1
<1>2. ASSUME NEW n \in Nat, n \in T PROVE n + 1 \in T
  <2> SUFFICES ASSUME n + 1 <= N PROVE \E f : Run(f, S, z, g, n + 1)
    OBVIOUS
  <2>1. PICK f : Run(f, S, z, g, n)
    BY <1>2
  <2>2. PICK e \in S : e = g[<<f[n], n + 1>>]
    <3>1. <<f[n], n + 1>> \in S \X (1..N)
      BY <2>1 DEF Run
    <3> QED BY <3>1
  <2> DEFINE h == [k \in 0..(n + 1) |-> IF k = n + 1 THEN e ELSE f[k]]
  <2>3. h \in [0..(n + 1) -> S] /\ h[0] = z
    BY <2>1 DEF Run
  <2>4. ASSUME NEW k \in 1..(n + 1) PROVE h[k] = g[<<h[k - 1], k>>]
    <3>1. CASE k = n + 1
      <4>1. h[k] = e /\ h[k - 1] = f[n]
        BY <3>1
      <4> HIDE DEF h
      <4> QED BY <2>2, <3>1, <4>1
    <3>2. CASE k # n + 1
      <4>1. k \in 1..n /\ h[k] = f[k] /\ h[k - 1] = f[k - 1]
        BY <3>2
      <4> HIDE DEF h
      <4> QED BY <2>1, <4>1 DEF Run
    <3> QED BY <3>1, <3>2
  <2> HIDE DEF h
  <2> QED BY <2>3, <2>4 DEF Run
<1> HIDE DEF T
<1>3. N \in T
  BY <1>1, <1>2, Induct
<1> QED BY <1>3 DEF T

-----------------------------------------------------------------------------
(* Below and Without *)

\* A server behind one that is below x is below x too.
LEMMA BelowIs ==
  ASSUME NEW T \in Seq(Entries), NEW x, OnceNamed(T)
  PROVE  /\ x \in Below(T, x)
         /\ \A n \in DOMAIN T, m \in DOMAIN T :
              /\ m < n /\ T[n].up = T[m].name /\ T[m].name \in Below(T, x)
              => T[n].name \in Below(T, x)
<1> DEFINE N == Len(T)
           S == SUBSET ({x} \cup NamesIn(T))
           Next1(I, n) == I \cup {y \in {T[n].name} : T[n].up \in I}
           g == [p \in S \X (1..N) |-> Next1(p[1], p[2])]
<1>1. N \in Nat /\ {x} \in S
  OBVIOUS
<1>2. \A I \in S, n \in 1..N : Next1(I, n) \in S
  BY DEF NamesIn
<1>3. g \in [S \X (1..N) -> S] /\ \A I \in S, n \in 1..N : g[<<I, n>>] = Next1(I, n)
  <2> HIDE DEF Next1, S, N
  <2>1. \A p \in S \X (1..N) : Next1(p[1], p[2]) \in S
    BY <1>2
  <2> QED BY <2>1
<1> HIDE DEF g, S
<1>4. PICK f : Run(f, S, {x}, g, N)
  BY <1>1, <1>3, RunIs
<1>5. /\ f \in [0..N -> S] /\ f[0] = {x}
      /\ \A k \in 1..N : f[k] = Next1(f[k - 1], k)
  <2>1. \A k \in 1..N : k - 1 \in 0..N
    BY <1>1
  <2> QED BY <1>3, <1>4, <2>1 DEF Run
<1> DEFINE Eq(h) == h = [n \in 0..Len(T) |->
                           IF n = 0 THEN {x}
                           ELSE h[n - 1] \cup {y \in {T[n].name} : T[n].up \in h[n - 1]}]
           In1 == CHOOSE h : Eq(h)
<1>6. Eq(f)
  <2>1. \A n \in 0..N : n # 0 => n \in 1..N
    BY <1>1
  <2> QED BY <1>5, <2>1
<1>7. Eq(In1)
  BY <1>6
<1>8. Below(T, x) = In1[N]
  BY DEF Below
<1> HIDE DEF In1
<1>9. In1[0] = {x} /\ \A k \in 1..N : In1[k] = In1[k - 1] \cup {y \in {T[k].name} : T[k].up \in In1[k - 1]}
  <2>1. 0 \in 0..N /\ \A k \in 1..N : k \in 0..N /\ k # 0
    BY <1>1
  <2> QED BY <1>7, <2>1
<1> HIDE DEF N
\* Who is in it once stays, and came after its uplink.
<1> DEFINE U == {k \in Nat : k <= N =>
                   /\ \A j \in 0..k : In1[j] \subseteq In1[k]
                   /\ \A y \in In1[k] : y = x \/ \E j \in 1..k : y = T[j].name /\ y \in In1[j]}
<1>10. 0 \in U
  BY <1>9
<1>11. ASSUME NEW k \in Nat, k \in U PROVE k + 1 \in U
  <2> SUFFICES ASSUME k + 1 <= N
               PROVE  /\ \A j \in 0..k + 1 : In1[j] \subseteq In1[k + 1]
                      /\ \A y \in In1[k + 1] : y = x \/ \E j \in 1..k + 1 : y = T[j].name /\ y \in In1[j]
    OBVIOUS
  <2>1. /\ \A j \in 0..k : In1[j] \subseteq In1[k]
        /\ \A y \in In1[k] : y = x \/ \E j \in 1..k : y = T[j].name /\ y \in In1[j]
    BY <1>1, <1>11
  <2>2. In1[k] \subseteq In1[k + 1] /\ \A y \in In1[k + 1] : y \in In1[k] \/ y = T[k + 1].name
    <3>1. k + 1 \in 1..N /\ (k + 1) - 1 = k
      BY <1>1
    <3> QED BY <1>9, <3>1
  <2>3. \A j \in 0..k + 1 : j \in 0..k \/ j = k + 1
    OBVIOUS
  <2>4. k + 1 \in 1..k + 1 /\ \A j \in 1..k : j \in 1..k + 1
    OBVIOUS
  <2> QED BY <2>1, <2>2, <2>3, <2>4
<1> HIDE DEF U
<1>12. \A k \in Nat : k \in U
  BY <1>10, <1>11, Induct
<1>13. /\ \A k \in 0..N : \A j \in 0..k : In1[j] \subseteq In1[k]
       /\ \A y \in In1[N] : y = x \/ \E j \in 1..N : y = T[j].name /\ y \in In1[j]
  BY <1>1, <1>12 DEF U
<1>14. x \in In1[N]
  BY <1>1, <1>9, <1>13
<1>15. ASSUME NEW n \in 1..N, NEW m \in 1..N, m < n, T[n].up = T[m].name, T[m].name \in In1[N]
       PROVE  T[n].name \in In1[N]
  <2>1. T[m].name \in In1[n - 1]
    <3>1. CASE T[m].name = x
      BY <1>1, <1>9, <1>13, <3>1
    <3>2. CASE \E j \in 1..N : T[m].name = T[j].name /\ T[m].name \in In1[j]
      <4>1. T[m].name \in In1[m]
        BY <3>2 DEF OnceNamed, N
      <4>2. m \in 0..n - 1 /\ n - 1 \in 0..N
        BY <1>1, <1>15
      <4> QED BY <1>13, <4>1, <4>2
    <3> QED BY <1>13, <1>15, <3>1, <3>2
  <2>2. T[n].name \in In1[n]
    BY <1>9, <1>15, <2>1
  <2>3. n \in 0..N /\ N \in 0..N
    BY <1>1
  <2> QED BY <1>13, <2>2, <2>3
<1> QED BY <1>8, <1>14, <1>15 DEF N

\* W is what of T is at the places up to k and has no name of xs, in its order.
Left(W, T, xs, k) ==
  /\ \A j \in DOMAIN W : \E n \in 1..k : W[j] = T[n] /\ T[n].name \notin xs
  /\ \A n \in 1..k : T[n].name \notin xs => \E j \in DOMAIN W : W[j] = T[n]
  /\ \A i, j \in DOMAIN W : i < j => \E m, n \in 1..k : m < n /\ W[i] = T[m] /\ W[j] = T[n]

LEMMA LeftOne ==
  ASSUME NEW T \in Seq(Entries), NEW xs, NEW k \in 1..Len(T), NEW W \in Seq(Entries),
         Left(W, T, xs, k - 1)
  PROVE  LET V == IF T[k].name \in xs THEN W ELSE Append(W, T[k])
         IN  V \in Seq(Entries) /\ Left(V, T, xs, k)
<1>1. k \in Nat /\ k - 1 \in Nat /\ k \in 1..k /\ \A n \in 1..k : n \in 1..k - 1 \/ n = k
  OBVIOUS
<1>2. \A n \in 1..k - 1 : n \in 1..k /\ n < k
  OBVIOUS
<1>3. CASE T[k].name \in xs
  <2>1. Left(W, T, xs, k)
    <3>1. ASSUME NEW i \in DOMAIN W, NEW j \in DOMAIN W, i < j
          PROVE  \E m, n \in 1..k : m < n /\ W[i] = T[m] /\ W[j] = T[n]
      <4>1. PICK m \in 1..k - 1, n \in 1..k - 1 : m < n /\ W[i] = T[m] /\ W[j] = T[n]
        BY <3>1 DEF Left
      <4> QED BY <1>2, <4>1
    <3>2. \A j \in DOMAIN W : \E n \in 1..k : W[j] = T[n] /\ T[n].name \notin xs
      BY <1>2 DEF Left
    <3>3. \A n \in 1..k : T[n].name \notin xs => \E j \in DOMAIN W : W[j] = T[n]
      BY <1>1, <1>3 DEF Left
    <3> QED BY <3>1, <3>2, <3>3 DEF Left
  <2> QED BY <1>3, <2>1
<1>4. CASE T[k].name \notin xs
  <2>1. PICK V : V = Append(W, T[k])
    OBVIOUS
  <2>2. T[k] \in Entries
    OBVIOUS
  <2>3. /\ V \in Seq(Entries) /\ Len(W) \in Nat /\ DOMAIN W = 1..Len(W)
        /\ DOMAIN V = 1..Len(W) + 1 /\ V[Len(W) + 1] = T[k]
        /\ \A j \in DOMAIN W : V[j] = W[j]
    BY <2>1, <2>2
  <2>4. \A j \in DOMAIN V : (j \in DOMAIN W /\ j < Len(W) + 1) \/ j = Len(W) + 1
    BY <2>3
  <2>5. \A j \in DOMAIN W : j \in DOMAIN V
    BY <2>3
  <2>6. \A j \in DOMAIN V : \E n \in 1..k : V[j] = T[n] /\ T[n].name \notin xs
    <3> TAKE j \in DOMAIN V
    <3>1. CASE j \in DOMAIN W
      <4>1. PICK n \in 1..k - 1 : W[j] = T[n] /\ T[n].name \notin xs
        BY <3>1 DEF Left
      <4> QED BY <1>2, <2>3, <3>1, <4>1
    <3>2. CASE j = Len(W) + 1
      BY <1>1, <1>4, <2>3, <3>2
    <3> QED BY <2>4, <3>1, <3>2
  <2>7. \A n \in 1..k : T[n].name \notin xs => \E j \in DOMAIN V : V[j] = T[n]
    <3> SUFFICES ASSUME NEW n \in 1..k, T[n].name \notin xs PROVE \E j \in DOMAIN V : V[j] = T[n]
      OBVIOUS
    <3>1. CASE n = k
      <4>1. Len(W) + 1 \in DOMAIN V
        BY <2>3
      <4> QED BY <2>3, <3>1, <4>1
    <3>2. CASE n \in 1..k - 1
      <4>1. PICK j \in DOMAIN W : W[j] = T[n]
        BY <3>2 DEF Left
      <4> QED BY <2>3, <2>5, <4>1
    <3> QED BY <1>1, <3>1, <3>2
  <2>8. ASSUME NEW i \in DOMAIN V, NEW j \in DOMAIN V, i < j
        PROVE  \E m, n \in 1..k : m < n /\ V[i] = T[m] /\ V[j] = T[n]
    <3>1. i \in DOMAIN W
      BY <2>3, <2>8
    <3>2. CASE j \in DOMAIN W
      <4>1. PICK m, n \in 1..k - 1 : m < n /\ W[i] = T[m] /\ W[j] = T[n]
        BY <2>8, <3>1, <3>2 DEF Left
      <4> QED BY <1>2, <2>3, <3>1, <3>2, <4>1
    <3>3. CASE j = Len(W) + 1
      <4>1. PICK m \in 1..k - 1 : W[i] = T[m]
        BY <3>1 DEF Left
      <4> QED BY <1>1, <1>2, <2>3, <3>1, <3>3, <4>1
    <3> QED BY <2>4, <3>2, <3>3
  <2>9. Left(V, T, xs, k)
    BY <2>6, <2>7, <2>8 DEF Left
  <2> QED BY <1>4, <2>1, <2>3, <2>9
<1> QED BY <1>3, <1>4

LEMMA WithoutIs ==
  ASSUME NEW T \in Seq(Entries), NEW xs
  PROVE  Without(T, xs) \in Seq(Entries) /\ Left(Without(T, xs), T, xs, Len(T))
<1> DEFINE N == Len(T)
           S == Seq(Entries)
           Next1(W, n) == IF T[n].name \in xs THEN W ELSE Append(W, T[n])
           g == [p \in S \X (1..N) |-> Next1(p[1], p[2])]
<1>1. N \in Nat /\ << >> \in S
  OBVIOUS
<1>2. ASSUME NEW W \in S, NEW n \in 1..N PROVE Next1(W, n) \in S
  <2>1. T[n] \in Entries
    OBVIOUS
  <2>2. Append(W, T[n]) \in S
    BY <2>1
  <2> QED BY <2>2
<1>3. g \in [S \X (1..N) -> S] /\ \A W \in S, n \in 1..N : g[<<W, n>>] = Next1(W, n)
  <2> HIDE DEF Next1, S, N
  <2>1. \A p \in S \X (1..N) : Next1(p[1], p[2]) \in S
    BY <1>2
  <2> QED BY <2>1
<1> HIDE DEF g, S
<1>4. PICK f : Run(f, S, << >>, g, N)
  BY <1>1, <1>3, RunIs
<1>5. /\ f \in [0..N -> S] /\ f[0] = << >>
      /\ \A k \in 1..N : f[k] = Next1(f[k - 1], k)
  <2>1. \A k \in 1..N : k - 1 \in 0..N
    BY <1>1
  <2> HIDE DEF Next1
  <2> QED BY <1>3, <1>4, <2>1 DEF Run
<1> DEFINE Eq(h) == h = [n \in 0..Len(T) |->
                           IF n = 0 THEN << >>
                           ELSE IF T[n].name \in xs THEN h[n - 1] ELSE Append(h[n - 1], T[n])]
           acc == CHOOSE h : Eq(h)
<1>6. Eq(f)
  <2>1. \A n \in 0..N : n # 0 => n \in 1..N
    BY <1>1
  <2>2. \A n \in 0..N : f[n] = IF n = 0 THEN << >> ELSE Next1(f[n - 1], n)
    <3> HIDE DEF Next1
    <3> QED BY <1>5, <2>1
  <2> QED BY <1>5, <2>2
<1>7. Eq(acc)
  BY <1>6
<1>8. Without(T, xs) = acc[N]
  BY DEF Without
<1> HIDE DEF acc
<1>9. acc[0] = << >> /\ \A k \in 1..N : acc[k] = Next1(acc[k - 1], k)
  <2>1. \A k \in 0..N : acc[k] = IF k = 0 THEN << >> ELSE Next1(acc[k - 1], k)
    BY <1>7
  <2> HIDE DEF Next1
  <2>2. 0 \in 0..N /\ \A k \in 1..N : k \in 0..N /\ k # 0
    BY <1>1
  <2> QED BY <2>1, <2>2
<1> DEFINE U == {k \in Nat : k <= N => acc[k] \in S /\ Left(acc[k], T, xs, k)}
<1>10. 0 \in U
  <2>1. DOMAIN << >> = {} /\ ~\E n \in 1..0 : TRUE
    BY EmptySeq
  <2>2. Left(<< >>, T, xs, 0)
    BY <2>1 DEF Left
  <2> QED BY <1>1, <1>9, <2>2
<1>11. ASSUME NEW k \in Nat, k \in U PROVE k + 1 \in U
  <2> SUFFICES ASSUME k + 1 <= N PROVE acc[k + 1] \in S /\ Left(acc[k + 1], T, xs, k + 1)
    OBVIOUS
  <2>1. acc[k] \in S /\ Left(acc[k], T, xs, k) /\ k + 1 \in 1..N /\ (k + 1) - 1 = k
    BY <1>1, <1>11
  <2>2. acc[k + 1] = Next1(acc[k], k + 1)
    <3> HIDE DEF Next1
    <3> QED BY <1>9, <2>1
  <2> HIDE DEF Next1
  <2>3. Next1(acc[k], k + 1) \in S /\ Left(Next1(acc[k], k + 1), T, xs, k + 1)
    BY <2>1, LeftOne DEF S, Next1
  <2> QED BY <2>2, <2>3
<1> HIDE DEF U
<1>12. N \in U
  BY <1>1, <1>10, <1>11, Induct
<1> QED BY <1>1, <1>8, <1>12 DEF U, S

\* Who is behind one of B is of B.
Closed(T, B) ==
  \A n \in DOMAIN T, m \in DOMAIN T :
    m < n /\ T[n].up = T[m].name /\ T[m].name \in B => T[n].name \in B

\* Who goes takes along who is behind it, so that an uplink stays of those who stay.
LEMMA RemoveKeeps ==
  ASSUME NEW s, NEW P, NEW T, Sound(T, s, P), NEW B, Closed(T, B), NEW Q,
         \A p \in P : p \in Q \/ p[2] \in B
  PROVE  Sound(Without(T, B), s, Q)
<1>1. T \in Seq(Entries) /\ RootedIn(T, s, P) /\ OnceNamed(T) /\ s \notin NamesIn(T)
  BY DEF Sound
<1>3. \A n \in DOMAIN T, m \in DOMAIN T :
        m < n /\ T[n].up = T[m].name /\ T[m].name \in B => T[n].name \in B
  BY DEF Closed
<1>4. PICK W : W = Without(T, B)
  OBVIOUS
<1>5. W \in Seq(Entries) /\ Left(W, T, B, Len(T))
  BY <1>1, <1>4, WithoutIs
<1>6. DOMAIN T = 1..Len(T) /\ Len(T) \in Nat /\ DOMAIN W = 1..Len(W) /\ Len(W) \in Nat
  BY <1>1, <1>5
<1>7. /\ \A j \in DOMAIN W : \E n \in DOMAIN T : W[j] = T[n] /\ T[n].name \notin B
      /\ \A n \in DOMAIN T : T[n].name \notin B => \E j \in DOMAIN W : W[j] = T[n]
      /\ \A i, j \in DOMAIN W : i < j =>
           \E m, n \in DOMAIN T : m < n /\ W[i] = T[m] /\ W[j] = T[n]
  <2>1. \A n : n \in 1..Len(T) <=> n \in DOMAIN T
    BY <1>6
  <2>2. \A j \in DOMAIN W : \E n \in DOMAIN T : W[j] = T[n] /\ T[n].name \notin B
    BY <1>5, <2>1 DEF Left
  <2>3. \A n \in DOMAIN T : T[n].name \notin B => \E j \in DOMAIN W : W[j] = T[n]
    BY <1>5, <2>1 DEF Left
  <2>4. \A i, j \in DOMAIN W : i < j =>
          \E m, n \in DOMAIN T : m < n /\ W[i] = T[m] /\ W[j] = T[n]
    <3> TAKE i, j \in DOMAIN W
    <3> HAVE i < j
    <3>1. PICK m, n \in 1..Len(T) : m < n /\ W[i] = T[m] /\ W[j] = T[n]
      BY <1>5 DEF Left
    <3> QED BY <2>1, <3>1
  <2> QED BY <2>2, <2>3, <2>4
<1>8. OnceNamed(W)
  <2> SUFFICES ASSUME NEW i \in DOMAIN W, NEW j \in DOMAIN W, W[i].name = W[j].name, i < j
               PROVE  FALSE
    BY <1>6 DEF OnceNamed
  <2>1. PICK m, n \in DOMAIN T : m < n /\ W[i] = T[m] /\ W[j] = T[n]
    BY <1>7
  <2> QED BY <1>1, <1>6, <2>1 DEF OnceNamed
<1>9. s \notin NamesIn(W)
  BY <1>1, <1>7 DEF NamesIn
<1>10. ASSUME NEW j \in DOMAIN W, W[j].up = s PROVE <<W[j].via, W[j].name>> \in Q
  <2>1. PICK n \in DOMAIN T : W[j] = T[n] /\ T[n].name \notin B
    BY <1>7
  <2>2. <<T[n].via, T[n].name>> \in P
    BY <1>1, <1>10, <2>1 DEF RootedIn
  <2>3. <<T[n].via, T[n].name>>[2] \notin B
    BY <2>1
  <2> QED BY <2>1, <2>2, <2>3
<1>11. ASSUME NEW j \in DOMAIN W, W[j].up # s
       PROVE  \E i \in 1..j - 1 : W[i].name = W[j].up /\ W[i].via = W[j].via
  <2>1. PICK n \in DOMAIN T : W[j] = T[n] /\ T[n].name \notin B
    BY <1>7
  <2>2. PICK m \in 1..n - 1 : T[m].name = T[n].up /\ T[m].via = T[n].via
    BY <1>1, <1>11, <2>1 DEF RootedIn
  <2>3. m \in DOMAIN T /\ m < n /\ T[m].name \notin B
    BY <1>3, <1>6, <2>1, <2>2
  <2>4. PICK i \in DOMAIN W : W[i] = T[m]
    BY <1>7, <2>3
  <2>5. \A p, r \in DOMAIN T : T[p] = T[r] => p = r
    BY <1>1 DEF OnceNamed
  <2>6. i # j /\ ~(j < i)
    <3>1. i # j
      BY <1>6, <2>1, <2>3, <2>4, <2>5
    <3>2. ASSUME j < i PROVE FALSE
      <4>1. PICK p, r \in DOMAIN T : p < r /\ W[j] = T[p] /\ W[i] = T[r]
        BY <1>7, <3>2
      <4>2. p = n /\ r = m
        BY <2>1, <2>3, <2>4, <2>5, <4>1
      <4> QED BY <1>6, <2>3, <4>1, <4>2
    <3> QED BY <3>1, <3>2
  <2>7. i \in 1..j - 1
    BY <1>6, <2>6
  <2> QED BY <2>1, <2>2, <2>4, <2>7
<1>12. RootedIn(W, s, Q)
  BY <1>10, <1>11 DEF RootedIn
<1> QED BY <1>4, <1>5, <1>8, <1>9, <1>12 DEF Sound

\* One who is not known comes last.
LEMMA AddKeeps ==
  ASSUME NEW s, NEW P, NEW T, Sound(T, s, P), NEW Q, P \subseteq Q, NEW r \in Entries,
         r.name # s, r.name \notin NamesIn(T),
         IF r.up = s THEN <<r.via, r.name>> \in Q
         ELSE \E m \in DOMAIN T : T[m].name = r.up /\ T[m].via = r.via
  PROVE  Sound(Append(T, r), s, Q)
<1>1. T \in Seq(Entries) /\ RootedIn(T, s, P) /\ OnceNamed(T) /\ s \notin NamesIn(T)
  BY DEF Sound
<1>2. PICK W : W = Append(T, r)
  OBVIOUS
<1>3. /\ W \in Seq(Entries) /\ Len(T) \in Nat /\ DOMAIN T = 1..Len(T)
      /\ DOMAIN W = 1..Len(T) + 1 /\ W[Len(T) + 1] = r
      /\ \A n \in DOMAIN T : W[n] = T[n]
  BY <1>1, <1>2
<1>4. \A n \in DOMAIN W : n \in DOMAIN T \/ n = Len(T) + 1
  BY <1>3
<1>5. \A n \in DOMAIN T : T[n].name # r.name /\ T[n].name # s
  BY <1>1 DEF NamesIn
<1>6. OnceNamed(W)
  <2> SUFFICES ASSUME NEW m \in DOMAIN W, NEW n \in DOMAIN W, W[m].name = W[n].name PROVE m = n
    BY DEF OnceNamed
  <2>1. CASE m \in DOMAIN T /\ n \in DOMAIN T
    BY <1>1, <1>3, <2>1 DEF OnceNamed
  <2>2. CASE m = Len(T) + 1 /\ n \in DOMAIN T
    BY <1>3, <1>5, <2>2
  <2>3. CASE m \in DOMAIN T /\ n = Len(T) + 1
    BY <1>3, <1>5, <2>3
  <2> QED BY <1>4, <2>1, <2>2, <2>3
<1>7. s \notin NamesIn(W)
  BY <1>3, <1>4, <1>5 DEF NamesIn
<1>8. ASSUME NEW n \in DOMAIN W
      PROVE  IF W[n].up = s THEN <<W[n].via, W[n].name>> \in Q
             ELSE \E m \in 1..n - 1 : W[m].name = W[n].up /\ W[m].via = W[n].via
  <2>1. CASE n \in DOMAIN T
    <3>1. IF T[n].up = s THEN <<T[n].via, T[n].name>> \in P
          ELSE \E m \in 1..n - 1 : T[m].name = T[n].up /\ T[m].via = T[n].via
      BY <1>1, <2>1 DEF RootedIn
    <3>2. W[n] = T[n] /\ \A m \in 1..n - 1 : W[m] = T[m]
      BY <1>3, <2>1
    <3> QED BY <3>1, <3>2
  <2>2. CASE n = Len(T) + 1
    <3>1. W[n] = r /\ n - 1 = Len(T)
      BY <1>3, <2>2
    <3> QED BY <1>3, <3>1
  <2> QED BY <1>4, <2>1, <2>2
<1> QED BY <1>2, <1>3, <1>6, <1>7, <1>8 DEF Sound, RootedIn

-----------------------------------------------------------------------------
(* What goes over the connections *)

LEMMA ConcatFit ==
  ASSUME NEW S, NEW x \in Seq(S), NEW y \in Seq(S)
  PROVE  x \o y \in Seq(S)
  OBVIOUS

LEMMA TailFit ==
  ASSUME NEW S, NEW x \in Seq(S), x # << >>
  PROVE  Tail(x) \in Seq(S) /\ Head(x) \in S
  OBVIOUS

LEMMA NoneFit == \A S : << >> \in Seq(S)
  BY EmptySeq

LEMMA OneFit ==
  ASSUME NEW S, NEW m \in S
  PROVE  <<m>> \in Seq(S)
  OBVIOUS

\* The ends of a connection
LEMMA PairIs ==
  ASSUME TreeTypeOK, NEW i \in Sockets, NEW s \in Pair(i)
  PROVE  /\ s \in Nodes /\ Other(i, s) \in Nodes /\ Other(i, s) \in Pair(i)
         /\ made[i] # <<>> /\ Other(i, Other(i, s)) = s
         /\ \A t \in Pair(i) : t = s \/ t = Other(i, s)
<1>1. made[i] # <<>> /\ s \in {made[i][1], made[i][2]}
  BY DEF Pair
<1>2. made[i] \in Nodes \X Nodes
  BY <1>1 DEF TreeTypeOK
<1>3. made[i][1] \in Nodes /\ made[i][2] \in Nodes
  BY <1>2
<1> QED BY <1>1, <1>3 DEF Pair, Other

LEMMA LocalIs ==
  ASSUME Wired, NEW s \in Nodes, NEW i \in Sockets, end[<<i, s>>] # "none"
  PROVE  s \in Pair(i)
<1>1. <<i, s>> \in Sides
  BY DEF Sides
<1> QED BY <1>1 DEF Wired

\* What a handler sends fits.
Sends(s, out) == \A i \in Sockets : s \in Pair(i) => out[i] \in Seq(Fit(i, Other(i, s)))

LEMMA ThenSends ==
  ASSUME NEW s, NEW f, NEW g, Sends(s, f), Sends(s, g)
  PROVE  Sends(s, Then(f, g))
<1> SUFFICES ASSUME NEW i \in Sockets, s \in Pair(i)
             PROVE  Then(f, g)[i] \in Seq(Fit(i, Other(i, s)))
  BY DEF Sends
<1>1. Then(f, g)[i] = f[i] \o g[i]
  BY DEF Then
<1>2. f[i] \in Seq(Fit(i, Other(i, s))) /\ g[i] \in Seq(Fit(i, Other(i, s)))
  BY DEF Sends
<1> QED BY <1>1, <1>2, ConcatFit

LEMMA ToSends ==
  ASSUME NEW s, NEW is, NEW m,
         \A i \in Sockets : i \in is /\ s \in Pair(i) => m \in Fit(i, Other(i, s))
  PROVE  Sends(s, To(is, m))
<1> SUFFICES ASSUME NEW i \in Sockets, s \in Pair(i)
             PROVE  To(is, m)[i] \in Seq(Fit(i, Other(i, s)))
  BY DEF Sends
<1>1. To(is, m)[i] = IF i \in is THEN <<m>> ELSE << >>
  BY DEF To
<1>2. CASE i \in is
  BY <1>1, <1>2, OneFit
<1>3. CASE i \notin is
  BY <1>1, <1>3, NoneFit
<1> QED BY <1>2, <1>3

LEMMA NoSends == \A s : Sends(s, NoOut)
  BY NoneFit DEF Sends, NoOut

\* SQUITs fit every connection.
LEMMA SquitFit ==
  ASSUME NEW i, NEW t, NEW src \in Nodes \cup {NoPrefix}, NEW x \in Nodes, NEW type \in {"SQUIT", "CLOSE"}
  PROVE  TreeMessage(type, src, x) \in Fit(i, t)
<1>1. PICK m : m = TreeMessage(type, src, x)
  OBVIOUS
<1>2. m \in TreeMessages /\ m.type = type
  BY <1>1 DEF TreeMessage, TreeMessages
<1> QED BY <1>1, <1>2 DEF Fit

LEMMA DeliverKeeps ==
  ASSUME TreeTypeOK, Wired, NEW s \in Nodes, NEW took, NEW out, NEW shut, NEW ups,
         Deliver(s, took, out, shut, ups), UNCHANGED made,
         \A j \in Sockets : j \in shut \cup ups => s \in Pair(j),
         took \in Sockets => tq[<<took, s>>] # << >>,
         Sends(s, out)
  PROVE  /\ Wired' /\ tq' \in [Sides -> Seq(TreeMessages)]
         /\ end' \in [Sides -> {"none", "unknown", "server", "closed"}]
<1>1. end' \in [Sides -> {"none", "unknown", "server", "closed"}]
  BY DEF Deliver, TreeTypeOK
<1>2. /\ \A i, t : Other(i, t)' = Other(i, t)
      /\ \A i, t : Fit(i, t)' = Fit(i, t)
      /\ \A i : Pair(i)' = Pair(i)
  BY DEF Other, Fit, Pair
<1>3. ASSUME NEW e \in Sides
      PROVE  /\ tq'[e] \in Seq(Fit(e[1], e[2])) /\ tq'[e] \in Seq(TreeMessages)
             /\ tq'[e] # << >> \/ end'[e] # "none" => e[2] \in Pair(e[1])
  <2>0. SUFFICES /\ tq'[e] \in Seq(Fit(e[1], e[2]))
                 /\ tq'[e] # << >> \/ end'[e] # "none" => e[2] \in Pair(e[1])
    <3>1. Fit(e[1], e[2]) \subseteq TreeMessages
      BY DEF Fit
    <3> QED BY <3>1
  <2> DEFINE Bye == IF e[1] \in shut THEN <<TreeMessage("CLOSE", NoPrefix, s)>> ELSE << >>
  <2>1. /\ e[1] \in Sockets /\ e[2] \in Nodes /\ tq[e] \in Seq(Fit(e[1], e[2]))
        /\ tq[e] # << >> \/ end[e] # "none" => e[2] \in Pair(e[1])
        /\ e = <<e[1], e[2]>>
    BY DEF Wired, Sides
  <2>2. end'[e] = IF e[2] = s /\ e[1] \in shut THEN "closed"
                  ELSE IF e[2] = s /\ e[1] \in ups THEN "server" ELSE end[e]
    BY DEF Deliver
  <2>3. tq'[e] = IF s \notin Pair(e[1]) THEN tq[e]
                 ELSE IF e[2] = s
                 THEN IF e[1] \in shut THEN << >> ELSE IF e[1] = took THEN Tail(tq[e]) ELSE tq[e]
                 ELSE IF e[2] = Other(e[1], s) /\ end[e] # "closed"
                 THEN tq[e] \o out[e[1]] \o Bye ELSE tq[e]
    BY <2>1 DEF Deliver
  <2>4. CASE s \notin Pair(e[1])
    BY <2>1, <2>2, <2>3, <2>4
  <2>5. CASE s \in Pair(e[1]) /\ e[2] = s
    <3>1. CASE e[1] \in shut
      BY <2>3, <2>5, <3>1, NoneFit
    <3>2. CASE e[1] \notin shut /\ e[1] = took
      <4>1. tq[e] # << >>
        BY <2>1, <2>5, <3>2
      <4> QED BY <2>1, <2>3, <2>5, <3>2, <4>1, TailFit
    <3>3. CASE e[1] \notin shut /\ e[1] # took
      BY <2>1, <2>3, <2>5, <3>3
    <3>4. tq'[e] \in Seq(Fit(e[1], e[2]))
      BY <3>1, <3>2, <3>3
    <3> QED BY <2>5, <3>4
  <2>6. CASE s \in Pair(e[1]) /\ e[2] # s
    <3>1. CASE e[2] = Other(e[1], s) /\ end[e] # "closed"
      <4>1. out[e[1]] \in Seq(Fit(e[1], e[2]))
        BY <2>1, <2>6, <3>1 DEF Sends
      <4>2. Bye \in Seq(Fit(e[1], e[2]))
        <5>1. TreeMessage("CLOSE", NoPrefix, s) \in Fit(e[1], e[2])
          BY SquitFit
        <5> QED BY <5>1, OneFit, NoneFit
      <4>3. tq[e] \o out[e[1]] \o Bye \in Seq(Fit(e[1], e[2]))
        <5> HIDE DEF Bye
        <5>1. tq[e] \o out[e[1]] \in Seq(Fit(e[1], e[2]))
          BY <2>1, <4>1, ConcatFit
        <5> QED BY <4>2, <5>1, ConcatFit
      <4> HIDE DEF Bye
      <4>4. e[2] \in Pair(e[1])
        BY <2>1, <2>6, <3>1, PairIs
      <4> QED BY <2>3, <2>6, <3>1, <4>3, <4>4
    <3>2. CASE ~(e[2] = Other(e[1], s) /\ end[e] # "closed")
      <4> HIDE DEF Bye
      <4>1. tq'[e] = tq[e]
        BY <2>3, <2>6, <3>2
      <4> QED BY <2>1, <2>2, <2>6, <4>1
    <3>3. tq'[e] \in Seq(Fit(e[1], e[2]))
      BY <3>1, <3>2
    <3>4. end'[e] = end[e]
      BY <2>2, <2>6
    <3> QED BY <2>1, <3>1, <3>2, <3>3, <3>4
  <2> QED BY <2>4, <2>5, <2>6
<1>4. Wired'
  BY <1>2, <1>3 DEF Wired
<1>5. tq' \in [Sides -> Seq(TreeMessages)]
  <2>1. tq' = [e \in Sides |-> tq'[e]]
    BY DEF Deliver
  <2> QED BY <1>3, <2>1
<1> QED BY <1>1, <1>4, <1>5

\* The connections of s to servers after it; those of the others are the same.
LEMMA UplinksAfter ==
  ASSUME NEW s \in Nodes, NEW took, NEW out, NEW shut, NEW ups,
         Deliver(s, took, out, shut, ups), UNCHANGED made
  PROVE  /\ \A t \in Nodes : t # s => Uplinks(t)' = Uplinks(t)
         /\ \A i \in Sockets : i \notin shut /\ (i \in ups \/ i \in LocalServers(s))
                               => <<i, Other(i, s)>> \in Uplinks(s)'
<1>1. \A i, t : Other(i, t)' = Other(i, t)
  BY DEF Other
<1>2. \A t \in Nodes, i \in Sockets :
        end'[<<i, t>>] = IF t = s /\ i \in shut THEN "closed"
                         ELSE IF t = s /\ i \in ups THEN "server" ELSE end[<<i, t>>]
  BY DEF Deliver, Sides
<1>3. \A t \in Nodes : Uplinks(t)' = {<<i, Other(i, t)>> : i \in {j \in Sockets : end'[<<j, t>>] = "server"}}
  BY <1>1 DEF Uplinks, LocalServers
<1>4. \A t \in Nodes : t # s => Uplinks(t)' = Uplinks(t)
  <2> SUFFICES ASSUME NEW t \in Nodes, t # s PROVE Uplinks(t)' = Uplinks(t)
    OBVIOUS
  <2>1. {j \in Sockets : end'[<<j, t>>] = "server"} = LocalServers(t)
    BY <1>2 DEF LocalServers
  <2> QED BY <1>3, <2>1 DEF Uplinks
<1>5. \A i \in Sockets : i \notin shut /\ (i \in ups \/ i \in LocalServers(s))
                         => end'[<<i, s>>] = "server"
  BY <1>2 DEF LocalServers
<1> QED BY <1>3, <1>4, <1>5

\* A handler of s that sends what fits and leaves s a sound table
LEMMA HandlerKeeps ==
  ASSUME TreeInv, NEW s \in Nodes, NEW took, NEW out, NEW shut, NEW ups, NEW W,
         Deliver(s, took, out, shut, ups), UNCHANGED <<conf, made>>,
         \A j \in Sockets : j \in shut \cup ups => s \in Pair(j),
         took \in Sockets => tq[<<took, s>>] # << >>,
         Sends(s, out),
         table' = [table EXCEPT ![s] = W], Sound(W, s, Uplinks(s)'),
         squits' \in 0..conf.squits, breaks' \in 0..conf.breaks, stale' \in BOOLEAN
  PROVE  TreeInv'
<1>1. /\ Wired' /\ tq' \in [Sides -> Seq(TreeMessages)]
      /\ end' \in [Sides -> {"none", "unknown", "server", "closed"}]
  BY DeliverKeeps DEF TreeInv
<1>2. \A t \in Nodes : t # s => Uplinks(t)' = Uplinks(t)
  BY UplinksAfter
<1>3. table \in [Nodes -> Seq(Entries)] /\ W \in Seq(Entries)
  BY DEF TreeInv, TreeTypeOK, Sound
<1>4. \A t \in Nodes : table'[t] = IF t = s THEN W ELSE table[t]
  BY <1>3
<1>5. ASSUME NEW t \in Nodes PROVE Sound(table[t], t, Uplinks(t))'
  <2>1. CASE t = s
    <3>1. Sound(table'[s], s, Uplinks(s)')
      BY <1>4
    <3>2. Sound(table[s], s, Uplinks(s))' <=> Sound(table'[s], s, Uplinks(s)')
      BY DEF Sound, NamesIn, RootedIn, OnceNamed
    <3> QED BY <2>1, <3>1, <3>2
  <2>2. CASE t # s
    <3>1. Sound(table[t], t, Uplinks(t)) /\ table'[t] = table[t] /\ Uplinks(t)' = Uplinks(t)
      BY <1>2, <1>4, <2>2 DEF TreeInv
    <3>2. Sound(table[t], t, Uplinks(t))' <=> Sound(table'[t], t, Uplinks(t)')
      BY DEF Sound, NamesIn, RootedIn, OnceNamed
    <3> QED BY <3>1, <3>2
  <2> QED BY <2>1, <2>2
<1>6. table' \in [Nodes -> Seq(Entries)] /\ \A t \in Nodes : t \notin NamesIn(table[t])'
  <2>1. table' \in [Nodes -> Seq(Entries)]
    BY <1>3
  <2> QED BY <1>5, <2>1 DEF Sound
<1>7. TreeTypeOK'
  BY <1>1, <1>6 DEF TreeInv, TreeTypeOK
<1> QED BY <1>1, <1>5, <1>7 DEF TreeInv

\* The counters after a step keep their bounds.
Bounds == squits' \in 0..conf.squits /\ breaks' \in 0..conf.breaks /\ stale' \in BOOLEAN

LEMMA BelowClosed ==
  ASSUME NEW T \in Seq(Entries), NEW x, OnceNamed(T)
  PROVE  x \in Below(T, x) /\ Closed(T, Below(T, x))
<1>1. PICK B : B = Below(T, x)
  OBVIOUS
<1>2. /\ x \in B
      /\ \A n \in DOMAIN T, m \in DOMAIN T :
           m < n /\ T[n].up = T[m].name /\ T[m].name \in B => T[n].name \in B
  BY <1>1, BelowIs
<1> QED BY <1>1, <1>2 DEF Closed

\* The table stays as it is.
LEMMA SameKeeps ==
  ASSUME TreeInv, NEW s \in Nodes, NEW took, NEW out, Deliver(s, took, out, {}, {}),
         UNCHANGED <<conf, made, table>>, took \in Sockets => tq[<<took, s>>] # << >>,
         Sends(s, out), Bounds
  PROVE  TreeInv'
<1>1. Sound(table[s], s, Uplinks(s)) /\ table = [table EXCEPT ![s] = table[s]]
  BY DEF TreeInv, TreeTypeOK
<1>2. PICK W : W = table[s]
  OBVIOUS
<1>3. PICK Q : Q = Uplinks(s)'
  OBVIOUS
<1>6. Uplinks(s) \subseteq Q
  <2>1. \A i \in Sockets : i \notin {} /\ (i \in {} \/ i \in LocalServers(s))
                           => <<i, Other(i, s)>> \in Q
    BY <1>3, UplinksAfter
  <2> QED BY <2>1 DEF Uplinks, LocalServers
<1>7. Sound(W, s, Q)
  BY <1>1, <1>2, <1>6 DEF Sound, RootedIn
<1>4. Sound(W, s, Uplinks(s)') /\ table' = [table EXCEPT ![s] = W]
  BY <1>1, <1>2, <1>3, <1>7
<1>5. \A j \in Sockets : j \in {} \cup {} => s \in Pair(j)
  OBVIOUS
<1> QED BY <1>4, <1>5, HandlerKeeps DEF Bounds

\* Servers go with all that is behind them, and no connection to them stays.
LEMMA GoneKeeps ==
  ASSUME TreeInv, NEW s \in Nodes, NEW took, NEW out, NEW shut, NEW B,
         Deliver(s, took, out, shut, {}), Keep(s, B), UNCHANGED <<conf, made>>,
         \A j \in Sockets : j \in shut => s \in Pair(j),
         \A j \in shut : j \in LocalServers(s) => Other(j, s) \in B,
         Closed(table[s], B), took \in Sockets => tq[<<took, s>>] # << >>,
         Sends(s, out), Bounds
  PROVE  TreeInv'
<1>1. Sound(table[s], s, Uplinks(s))
  BY DEF TreeInv
<1>2. PICK W : W = Without(table[s], B)
  OBVIOUS
<1>3. table' = [table EXCEPT ![s] = W]
  BY <1>2 DEF Keep
<1>4. \A p \in Uplinks(s) : p \in Uplinks(s)' \/ p[2] \in B
  <2> SUFFICES ASSUME NEW i \in LocalServers(s)
               PROVE  <<i, Other(i, s)>> \in Uplinks(s)' \/ Other(i, s) \in B
    BY DEF Uplinks
  <2>1. CASE i \in shut
    BY <2>1
  <2>2. CASE i \notin shut
    <3>1. i \in Sockets
      BY DEF LocalServers
    <3> QED BY <2>2, <3>1, UplinksAfter
  <2> QED BY <2>1, <2>2
<1>5. PICK Q : Q = Uplinks(s)'
  OBVIOUS
<1>6. Sound(W, s, Q)
  BY <1>1, <1>2, <1>4, <1>5, RemoveKeeps
<1>7. \A j \in Sockets : j \in shut \cup {} => s \in Pair(j)
  OBVIOUS
<1>8. Sound(W, s, Uplinks(s)')
  BY <1>5, <1>6
<1> QED BY <1>3, <1>7, <1>8, HandlerKeeps DEF Bounds

\* One more server, known before by nobody, on a connection of ups or behind another
LEMMA NewKeeps ==
  ASSUME TreeInv, NEW s \in Nodes, NEW took, NEW out, NEW shut, NEW ups, NEW r \in Entries,
         Deliver(s, took, out, shut, ups), UNCHANGED <<conf, made>>,
         table' = [table EXCEPT ![s] = Append(@, r)],
         \A j \in Sockets : j \in shut \cup ups => s \in Pair(j),
         \A j \in shut : j \notin LocalServers(s) /\ j \notin ups,
         r.name # s, r.name \notin NamesIn(table[s]),
         IF r.up = s THEN r.via \in ups /\ r.via \in Sockets /\ Other(r.via, s) = r.name
         ELSE \E m \in DOMAIN table[s] : table[s][m].name = r.up /\ table[s][m].via = r.via,
         took \in Sockets => tq[<<took, s>>] # << >>, Sends(s, out), Bounds
  PROVE  TreeInv'
<1>1. Sound(table[s], s, Uplinks(s))
  BY DEF TreeInv
<1>2. PICK Q : Q = Uplinks(s)'
  OBVIOUS
<1>3. \A i \in Sockets : i \notin shut /\ (i \in ups \/ i \in LocalServers(s))
                         => <<i, Other(i, s)>> \in Q
  BY <1>2, UplinksAfter
<1>4. Uplinks(s) \subseteq Q
  BY <1>3 DEF Uplinks, LocalServers
<1>5. r.up = s => <<r.via, r.name>> \in Q
  BY <1>3
<1>6. PICK T : T = table[s]
  OBVIOUS
<1>7. Sound(T, s, Uplinks(s)) /\ r.name \notin NamesIn(T)
      /\ IF r.up = s THEN <<r.via, r.name>> \in Q
         ELSE \E m \in DOMAIN T : T[m].name = r.up /\ T[m].via = r.via
  BY <1>1, <1>5, <1>6
<1>8. Sound(Append(T, r), s, Q)
  BY <1>4, <1>7, AddKeeps
<1>9. PICK W : W = Append(T, r)
  OBVIOUS
<1>10. table' = [table EXCEPT ![s] = W] /\ Sound(W, s, Uplinks(s)')
  BY <1>2, <1>6, <1>8, <1>9
<1> QED BY <1>10, HandlerKeeps DEF Bounds

-----------------------------------------------------------------------------
(* The actions *)

LEMMA Reading ==
  ASSUME TreeInv, NEW s \in Nodes, NEW i \in Sockets, NEW type, NextIs(s, i, type)
  PROVE  /\ s \in Pair(i) /\ tq[<<i, s>>] # << >>
         /\ Head(tq[<<i, s>>]) \in Fit(i, s) /\ Head(tq[<<i, s>>]).type = type
<1>1. <<i, s>> \in Sides /\ <<i, s>>[1] = i /\ <<i, s>>[2] = s
  BY DEF Sides
<1>2. tq[<<i, s>>] \in Seq(Fit(i, s)) /\ tq[<<i, s>>] # << >> /\ s \in Pair(i)
  BY <1>1 DEF TreeInv, Wired, NextIs
<1>3. Head(tq[<<i, s>>]) \in Fit(i, s)
  BY <1>2, TailFit
<1> QED BY <1>2, <1>3 DEF NextIs

\* Connections to servers and those in progress have two ends.
LEMMA EndsHere ==
  ASSUME TreeInv, NEW s \in Nodes
  PROVE  /\ \A j \in LocalServers(s) : j \in Sockets /\ s \in Pair(j) /\ Other(j, s) \in Nodes
         /\ \A x, j : j \in InProgress(s, x) =>
              j \in Sockets /\ s \in Pair(j) /\ j \notin LocalServers(s)
<1>1. \A j \in Sockets : end[<<j, s>>] # "none" => s \in Pair(j) /\ Other(j, s) \in Nodes
  BY LocalIs, PairIs DEF TreeInv
<1> QED BY <1>1 DEF LocalServers, InProgress

LEMMA ExitSends ==
  ASSUME TreeInv, NEW s \in Nodes, NEW i
  PROVE  Sends(s, ExitOut(s, i))
<1>1. CASE i \notin LocalServers(s)
  BY <1>1, NoSends DEF ExitOut
<1>2. CASE i \in LocalServers(s)
  <2>1. Other(i, s) \in Nodes
    BY <1>2, EndsHere
  <2>2. Sends(s, To({i}, TreeMessage("SQUIT", s, s)))
    BY SquitFit, ToSends
  <2>3. Sends(s, To(LocalServers(s) \ {i}, TreeMessage("SQUIT", NoPrefix, Other(i, s))))
    BY <2>1, SquitFit, ToSends
  <2> QED BY <1>2, <2>2, <2>3, ThenSends DEF ExitOut
<1> QED BY <1>1, <1>2

LEMMA ConnExits ==
  ASSUME TreeInv, NEW s \in Nodes, NEW took, NEW i \in Sockets, NEW over,
         ExitConn(s, took, i, over), UNCHANGED <<conf, made>>, s \in Pair(i),
         \E x : over \subseteq InProgress(s, x),
         took \in Sockets => tq[<<took, s>>] # << >>, Bounds
  PROVE  TreeInv'
<1>1. PICK B : B = Exited(s, i)
  OBVIOUS
<1>2. PICK out : out = ExitOut(s, i)
  OBVIOUS
<1>3. Deliver(s, took, out, {i} \cup over, {}) /\ Keep(s, B)
  BY <1>1, <1>2 DEF ExitConn
<1>4. Sends(s, out)
  BY <1>2, ExitSends
<1>5. \A j \in over : j \in Sockets /\ s \in Pair(j) /\ j \notin LocalServers(s)
  BY EndsHere
<1>6. table[s] \in Seq(Entries) /\ OnceNamed(table[s])
  BY DEF TreeInv, Sound
<1>7. Closed(table[s], B) /\ (i \in LocalServers(s) => Other(i, s) \in B)
  BY <1>1, <1>6, BelowClosed DEF Exited, Closed
<1>8. PICK shut : shut = {i} \cup over
  OBVIOUS
<1>9. /\ Deliver(s, took, out, shut, {})
      /\ \A j \in Sockets : j \in shut => s \in Pair(j)
      /\ \A j \in shut : j \in LocalServers(s) => Other(j, s) \in B
  BY <1>3, <1>5, <1>7, <1>8
<1> QED BY <1>3, <1>4, <1>7, <1>9, GoneKeeps

LEMMA EntryIs ==
  ASSUME NEW T \in Seq(Entries), NEW n \in DOMAIN T
  PROVE  T[n] \in Entries /\ T[n].name \in Nodes /\ T[n].up \in Nodes /\ T[n].via \in Sockets
<1>1. T[n] \in Entries
  OBVIOUS
<1> QED BY <1>1 DEF Entries

LEMMA MessagesFit ==
  ASSUME TreeInv, NEW s \in Nodes, NEW i, NEW t
  PROVE  /\ \A x \in Nodes, y \in Nodes :
              TreeMessage("SID", x, y) \in Fit(i, t) /\ TreeMessage("EOB", x, y) \in Fit(i, t)
         /\ Other(i, t) = s => Hello(s) \in Fit(i, t)
<1>1. ASSUME NEW x \in Nodes, NEW y \in Nodes, NEW type \in {"SID", "EOB"}
      PROVE  TreeMessage(type, x, y) \in Fit(i, t)
  <2>1. PICK m : m = TreeMessage(type, x, y)
    OBVIOUS
  <2>2. m \in TreeMessages /\ m.type = type /\ m.src = x
    BY <2>1 DEF TreeMessage, TreeMessages
  <2> QED BY <2>1, <2>2 DEF Fit
<1>2. ASSUME Other(i, t) = s PROVE Hello(s) \in Fit(i, t)
  <2>1. PICK m : m = Hello(s)
    OBVIOUS
  <2>2. m \in TreeMessages /\ m.type = "SERVER" /\ m.who = s
    BY <2>1 DEF Hello, TreeMessage, TreeMessages
  <2> QED BY <1>2, <2>1, <2>2 DEF Fit
<1> QED BY <1>1, <1>2

\* The burst fits.
LEMMA IntroSends ==
  ASSUME TreeInv, NEW s \in Nodes, NEW i \in Sockets, s \in Pair(i), NEW x \in Nodes
  PROVE  Sends(s, Introduce(s, i, x))
<1> DEFINE T == table[s]
           F == Fit(i, Other(i, s))
           sids == [n \in DOMAIN T |-> TreeMessage("SID", T[n].up, T[n].name)]
           done == Without(T, {T[n].name : n \in {m \in DOMAIN T : ~T[m].eob}})
           each == [n \in DOMAIN done |-> TreeMessage("EOB", done[n].name, done[n].name)]
           eobs == <<TreeMessage("EOB", s, s)>> \o each
           hello == IF made[i] = <<s, x>> THEN << >> ELSE <<Hello(s)>>
           f == [j \in Sockets |-> IF j = i THEN hello \o sids \o eobs ELSE << >>]
<1>1. T \in Seq(Entries)
  BY DEF TreeInv, Sound
<1>2. done \in Seq(Entries)
  BY <1>1, WithoutIs
<1>3. \A a, b \in Nodes : TreeMessage("SID", a, b) \in F /\ TreeMessage("EOB", a, b) \in F
  BY MessagesFit
<1>4. Hello(s) \in F
  <2>1. Other(i, Other(i, s)) = s
    BY PairIs DEF TreeInv
  <2> QED BY <2>1, MessagesFit
<1> HIDE DEF F, done
<1>5. sids \in Seq(F)
  <2>1. \A n \in DOMAIN T : T[n].up \in Nodes /\ T[n].name \in Nodes
    <3> HIDE DEF T
    <3> QED BY <1>1, EntryIs
  <2>2. sids \in [DOMAIN T -> F]
    BY <1>3, <2>1
  <2> HIDE DEF sids, T
  <2> QED BY <1>1, <2>2, MapSeq
<1>6. eobs \in Seq(F)
  <2>1. \A n \in DOMAIN done : done[n].name \in Nodes
    BY <1>2, EntryIs
  <2>2. each \in [DOMAIN done -> F]
    BY <1>3, <2>1
  <2> HIDE DEF each
  <2>3. each \in Seq(F)
    BY <1>2, <2>2, MapSeq
  <2>4. <<TreeMessage("EOB", s, s)>> \in Seq(F)
    BY <1>3, OneFit
  <2> QED BY <2>3, <2>4, ConcatFit
<1>7. hello \in Seq(F)
  BY <1>4, OneFit, NoneFit
<1> HIDE DEF sids, eobs, hello
<1>8. hello \o sids \o eobs \in Seq(F)
  <2>1. hello \o sids \in Seq(F)
    BY <1>5, <1>7, ConcatFit
  <2> QED BY <1>6, <2>1, ConcatFit
<1>9. Sends(s, f)
  <2> SUFFICES ASSUME NEW j \in Sockets, s \in Pair(j) PROVE f[j] \in Seq(Fit(j, Other(j, s)))
    BY DEF Sends
  <2>1. CASE j = i
    BY <1>8, <2>1 DEF F
  <2>2. CASE j # i
    BY <2>2, NoneFit
  <2> QED BY <2>1, <2>2
<1>10. Sends(s, To(LocalServers(s), TreeMessage("SID", s, x)))
  BY MessagesFit, ToSends
<1>11. Introduce(s, i, x) = Then(f, To(LocalServers(s), TreeMessage("SID", s, x)))
  BY DEF Introduce, f, sids, eobs, each, done, hello, T
<1> HIDE DEF f
<1> QED BY <1>9, <1>10, <1>11, ThenSends

\* What of TreeTypeOK most steps leave alone
LEMMA BoundsSame ==
  ASSUME TreeInv, UNCHANGED <<squits, breaks>>, stale' \in BOOLEAN
  PROVE  Bounds
  BY DEF TreeInv, TreeTypeOK, Bounds

LEMMA ServerKeeps ==
  ASSUME TreeInv, NEW s \in Nodes, NEW i \in Sockets, RecvServer(s, i)
  PROVE  TreeInv'
<1> DEFINE x == Head(tq[<<i, s>>]).who
           over == InProgress(s, x) \ {i}
<1>1. /\ s \in Pair(i) /\ tq[<<i, s>>] # << >> /\ x = Other(i, s) /\ x \in Nodes
  BY Reading DEF RecvServer, Fit, TreeMessages
<1>2. UNCHANGED <<conf, made, squits, breaks, stale>> /\ Bounds
  BY BoundsSame DEF RecvServer, TreeInv, TreeTypeOK
<1>3. CASE end[<<i, s>>] # "unknown"
  <2>1. Deliver(s, i, NoOut, {}, {}) /\ UNCHANGED table
    BY <1>3 DEF RecvServer
  <2> QED BY <1>1, <1>2, <2>1, NoSends, SameKeeps
<1>4. CASE end[<<i, s>>] = "unknown"
  <2>1. Estab(s, i, x)
    BY <1>4 DEF RecvServer
  <2>2. over \subseteq InProgress(s, x) /\ {} \subseteq InProgress(s, x)
    OBVIOUS
  <2> HIDE DEF x, over
  <2>3. CASE ExitConn(s, i, i, {}) \/ ExitConn(s, i, i, over)
    BY <1>1, <1>2, <2>2, <2>3, ConnExits
  <2>4. CASE /\ ~Known(s, x)
             /\ Deliver(s, i, Introduce(s, i, x), over, {i})
             /\ table' = [table EXCEPT ![s] =
                           Append(@, [name |-> x, up |-> s, via |-> i, eob |-> FALSE])]
    <3>1. PICK r : r = [name |-> x, up |-> s, via |-> i, eob |-> FALSE]
      OBVIOUS
    <3>2. r \in Entries /\ r.name = x /\ r.up = s /\ r.via = i
      BY <1>1, <3>1 DEF Entries
    <3>3. x # s /\ x \notin NamesIn(table[s])
      BY <2>4 DEF Known
    <3>4. PICK out : out = Introduce(s, i, x)
      OBVIOUS
    <3>5. Sends(s, out)
      BY <1>1, <3>4, IntroSends
    <3>6. PICK ups : ups = {i}
      OBVIOUS
    <3>7. /\ Deliver(s, i, out, over, ups)
          /\ table' = [table EXCEPT ![s] = Append(@, r)]
          /\ \A j \in Sockets : j \in over \cup ups => s \in Pair(j)
          /\ \A j \in over : j \notin LocalServers(s) /\ j \notin ups
          /\ r.up = s /\ r.via \in ups /\ r.via \in Sockets /\ Other(r.via, s) = r.name
          /\ r.name # s /\ r.name \notin NamesIn(table[s])
      BY <1>1, <2>4, <3>1, <3>2, <3>3, <3>4, <3>6, EndsHere DEF over
    <3> QED BY <1>1, <1>2, <3>2, <3>5, <3>7, NewKeeps
  <2> QED BY <2>1, <2>3, <2>4 DEF Estab, over
<1> QED BY <1>3, <1>4

\* What a prefix from the right direction says
LEMMA SourcedIs ==
  ASSUME TreeInv, NEW s \in Nodes, NEW i, NEW m, Sourced(s, i, m)
  PROVE  \E n \in DOMAIN table[s] : /\ table[s][n].name = Source(s, i, m) /\ table[s][n].via = i
                                  /\ Source(s, i, m) # s /\ Source(s, i, m) \in Nodes
<1>1. PICK x : x = Source(s, i, m)
  OBVIOUS
<1>2. PICK T : T = table[s]
  OBVIOUS
<1>3. T \in Seq(Entries) /\ OnceNamed(T)
  BY <1>2 DEF TreeInv, Sound
<1>4. x # s /\ x \in NamesIn(T) /\ Via(T, x) = i
  BY <1>1, <1>2 DEF Sourced
<1>5. PICK n \in DOMAIN T : T[n].name = x
  BY <1>4 DEF NamesIn
<1>6. \A k : k \in ToSet(T) <=> \E j \in DOMAIN T : k = T[j]
  BY DEF ToSet
<1>7. Entry(T, x) \in ToSet(T) /\ Entry(T, x).name = x
  BY <1>5, <1>6 DEF Entry
<1>8. PICK j \in DOMAIN T : Entry(T, x) = T[j]
  BY <1>6, <1>7
<1>9. j = n
  BY <1>3, <1>5, <1>7, <1>8 DEF OnceNamed
<1>10. T[n].via = i
  BY <1>4, <1>8, <1>9 DEF Via
<1>11. x \in Nodes
  BY <1>3, <1>5, EntryIs
<1> QED BY <1>1, <1>2, <1>4, <1>5, <1>10, <1>11

LEMMA DropKeeps ==
  ASSUME TreeInv, NEW s \in Nodes, NEW i \in Sockets, NEW m \in Fit(i, s),
         m.type \in {"SID", "SQUIT", "EOB"}, tq[<<i, s>>] # << >>, Drop(s, i, m),
         UNCHANGED <<conf, made>>, Bounds
  PROVE  TreeInv'
<1>1. PICK out : out = IF Known(s, m.src) \/ m.type = "SQUIT" THEN NoOut
                       ELSE To({i}, TreeMessage("SQUIT", s, m.src))
  OBVIOUS
<1>2. Sends(s, out)
  <2>1. CASE Known(s, m.src) \/ m.type = "SQUIT"
    BY <1>1, <2>1, NoSends
  <2>2. CASE ~(Known(s, m.src) \/ m.type = "SQUIT")
    <3>1. m.src \in Nodes
      BY <2>2 DEF Fit
    <3>2. Sends(s, To({i}, TreeMessage("SQUIT", s, m.src)))
      BY <3>1, SquitFit, ToSends
    <3> QED BY <1>1, <2>2, <3>2
  <2> QED BY <2>1, <2>2
<1>3. Deliver(s, i, out, {}, {}) /\ UNCHANGED table
  BY <1>1 DEF Drop
<1> QED BY <1>2, <1>3, SameKeeps

LEMMA SidKeeps ==
  ASSUME TreeInv, NEW s \in Nodes, NEW i \in Sockets, RecvSid(s, i)
  PROVE  TreeInv'
<1> DEFINE m == Head(tq[<<i, s>>])
<1>1. /\ s \in Pair(i) /\ tq[<<i, s>>] # << >> /\ m \in Fit(i, s) /\ m.type = "SID"
      /\ m.src \in Nodes /\ m.who \in Nodes
  BY Reading DEF RecvSid, Fit, TreeMessages
<1>2. UNCHANGED <<conf, made, squits, breaks, stale>> /\ Bounds
  BY BoundsSame DEF RecvSid, TreeInv, TreeTypeOK
<1>3. IF Sourced(s, i, m) THEN Sid(s, i, m.src, m.who) ELSE Drop(s, i, m)
  BY DEF RecvSid
<1> HIDE DEF m
<1>4. CASE ~Sourced(s, i, m)
  BY <1>1, <1>2, <1>3, <1>4, DropKeeps
<1>5. CASE Sourced(s, i, m)
  <2> DEFINE src == m.src
             x == m.who
             over == InProgress(s, x) \ {i}
  <2>1. src \in Nodes /\ x \in Nodes /\ src # s
        /\ \E n \in DOMAIN table[s] : table[s][n].name = src /\ table[s][n].via = i
    <3>1. Source(s, i, m) = m.src
      BY <1>1, TreeNodes DEF Source
    <3> QED BY <1>1, <1>5, <3>1, SourcedIs
  <2>2. over \subseteq InProgress(s, x) /\ {} \subseteq InProgress(s, x)
    OBVIOUS
  <2>3. Sid(s, i, src, x)
    BY <1>3, <1>5
  <2> HIDE DEF x, src, over
  <2>4. CASE ExitConn(s, i, i, {}) \/ ExitConn(s, i, i, over)
    BY <1>1, <1>2, <2>2, <2>4, ConnExits
  <2>5. CASE ExitRemote(s, i, src, over)
    <3>1. PICK B : B = Below(table[s], src)
      OBVIOUS
    <3>2. PICK out : out = To(LocalServers(s), TreeMessage("SQUIT", NoPrefix, src))
      OBVIOUS
    <3>3. Sends(s, out)
      BY <2>1, <3>2, SquitFit, ToSends
    <3>4. table[s] \in Seq(Entries) /\ OnceNamed(table[s])
      BY DEF TreeInv, Sound
    <3>5. Closed(table[s], B)
      BY <3>1, <3>4, BelowClosed
    <3>6. /\ Deliver(s, i, out, over, {}) /\ Keep(s, B)
          /\ \A j \in Sockets : j \in over => s \in Pair(j)
          /\ \A j \in over : j \in LocalServers(s) => Other(j, s) \in B
      BY <2>2, <2>5, <3>1, <3>2, EndsHere DEF ExitRemote
    <3> QED BY <1>1, <1>2, <3>3, <3>5, <3>6, GoneKeeps
  <2>6. CASE /\ ~Known(s, x)
             /\ Deliver(s, i, To(LocalServers(s) \ {i}, TreeMessage("SID", src, x)), over, {})
             /\ table' = [table EXCEPT ![s] =
                           Append(@, [name |-> x, up |-> src, via |-> i, eob |-> FALSE])]
    <3>1. PICK r : r = [name |-> x, up |-> src, via |-> i, eob |-> FALSE]
      OBVIOUS
    <3>2. r \in Entries /\ r.name = x /\ r.up = src /\ r.via = i
      BY <2>1, <3>1 DEF Entries
    <3>3. x # s /\ x \notin NamesIn(table[s])
      BY <2>6 DEF Known
    <3>4. PICK out : out = To(LocalServers(s) \ {i}, TreeMessage("SID", src, x))
      OBVIOUS
    <3>5. Sends(s, out)
      BY <2>1, <3>4, MessagesFit, ToSends
    <3>6. PICK ups : ups = {}
      OBVIOUS
    <3>7. /\ Deliver(s, i, out, over, ups)
          /\ table' = [table EXCEPT ![s] = Append(@, r)]
          /\ \A j \in Sockets : j \in over \cup ups => s \in Pair(j)
          /\ \A j \in over : j \notin LocalServers(s) /\ j \notin ups
          /\ r.up # s /\ \E n \in DOMAIN table[s] : table[s][n].name = r.up /\ table[s][n].via = r.via
          /\ r.name # s /\ r.name \notin NamesIn(table[s])
      BY <2>1, <2>2, <2>6, <3>1, <3>2, <3>3, <3>4, <3>6, EndsHere
    <3> QED BY <1>1, <1>2, <3>2, <3>5, <3>7, NewKeeps
  <2> QED BY <2>3, <2>4, <2>5, <2>6 DEF Sid, over
<1> QED BY <1>4, <1>5

\* Whoever is known is behind a connection to a server.
LEMMA ViaIs ==
  ASSUME TreeInv, NEW s \in Nodes, NEW x, x \in NamesIn(table[s])
  PROVE  x \in Nodes /\ Via(table[s], x) \in LocalServers(s)
<1>1. PICK T : T = table[s]
  OBVIOUS
<1>2. T \in Seq(Entries) /\ OnceNamed(T) /\ RootedIn(T, s, Uplinks(s))
  BY <1>1 DEF TreeInv, Sound
<1>3. PICK n \in DOMAIN T : T[n].name = x
  BY <1>1 DEF NamesIn
<1>4. \A k : k \in ToSet(T) <=> \E j \in DOMAIN T : k = T[j]
  BY DEF ToSet
<1>5. Entry(T, x) \in ToSet(T)
  BY <1>3, <1>4 DEF Entry
<1>6. PICK i : i = Via(T, x)
  OBVIOUS
<1>7. \E j \in DOMAIN T : T[j].via = i
  BY <1>4, <1>5, <1>6 DEF Via
<1> DEFINE S == {j \in DOMAIN T : T[j].via = i}
<1>8. DOMAIN T = 1..Len(T) /\ Len(T) \in Nat
  BY <1>2
<1>9. S \subseteq Nat /\ S # {}
  BY <1>7, <1>8
<1>10. PICK k \in S : \A j \in S : k <= j
  <2> HIDE DEF S
  <2> QED BY <1>9, LeastOf
<1>11. T[k].up = s
  <2> SUFFICES ASSUME T[k].up # s PROVE FALSE
    OBVIOUS
  <2>1. PICK j \in 1..k - 1 : T[j].via = T[k].via
    BY <1>2, <1>10 DEF RootedIn
  <2>2. j \in S /\ j < k
    BY <1>8, <1>10, <2>1
  <2> QED BY <1>8, <1>10, <2>2
<1>12. <<i, T[k].name>> \in Uplinks(s)
  BY <1>2, <1>10, <1>11 DEF RootedIn
<1>13. i \in LocalServers(s)
  BY <1>12 DEF Uplinks
<1>14. x \in Nodes
  BY <1>2, <1>3, EntryIs
<1> QED BY <1>1, <1>6, <1>13, <1>14

LEMMA SquitGoes ==
  ASSUME TreeInv, NEW s \in Nodes, NEW took, NEW src \in Nodes, NEW x, NEW sends,
         Squit(s, took, src, x, sends), x \in NamesIn(table[s]),
         UNCHANGED <<conf, made>>, took \in Sockets => tq[<<took, s>>] # << >>, Bounds
  PROVE  TreeInv'
<1>1. PICK i : i = Via(table[s], x)
  OBVIOUS
<1>2. x \in Nodes /\ i \in LocalServers(s) /\ s \in Pair(i)
  BY <1>1, ViaIs, EndsHere
<1>3. PICK B : B = Below(table[s], x)
  OBVIOUS
<1>4. table[s] \in Seq(Entries) /\ OnceNamed(table[s])
  BY DEF TreeInv, Sound
<1>5. Closed(table[s], B) /\ x \in B
  BY <1>3, <1>4, BelowClosed
<1>6. Keep(s, B)
  BY <1>3 DEF Squit
<1>7. CASE Other(i, s) = x
  <2>1. PICK out : out = Then(To({i}, TreeMessage("SQUIT", src, s)),
                              To(sends \ {i}, TreeMessage("SQUIT", src, x)))
    OBVIOUS
  <2>2. Sends(s, out)
    <3>1. Sends(s, To({i}, TreeMessage("SQUIT", src, s)))
      BY SquitFit, ToSends
    <3>2. Sends(s, To(sends \ {i}, TreeMessage("SQUIT", src, x)))
      BY <1>2, SquitFit, ToSends
    <3> QED BY <2>1, <3>1, <3>2, ThenSends
  <2>3. PICK shut : shut = {i}
    OBVIOUS
  <2>4. /\ Deliver(s, took, out, shut, {})
        /\ \A j \in Sockets : j \in shut => s \in Pair(j)
        /\ \A j \in shut : j \in LocalServers(s) => Other(j, s) \in B
    BY <1>1, <1>2, <1>5, <1>7, <2>1, <2>3 DEF Squit
  <2> QED BY <1>5, <1>6, <2>2, <2>4, GoneKeeps
<1>8. CASE Other(i, s) # x
  <2>1. PICK out : out = To(sends, TreeMessage("SQUIT", src, x))
    OBVIOUS
  <2>2. Sends(s, out)
    BY <1>2, <2>1, SquitFit, ToSends
  <2>3. PICK shut : shut = {}
    OBVIOUS
  <2>4. /\ Deliver(s, took, out, shut, {})
        /\ \A j \in Sockets : j \in shut => s \in Pair(j)
        /\ \A j \in shut : j \in LocalServers(s) => Other(j, s) \in B
    BY <1>1, <1>8, <2>1, <2>3 DEF Squit
  <2> QED BY <1>5, <1>6, <2>2, <2>4, GoneKeeps
<1> QED BY <1>7, <1>8

LEMMA SquitKeeps ==
  ASSUME TreeInv, NEW s \in Nodes, NEW i \in Sockets, RecvSquit(s, i)
  PROVE  TreeInv'
<1> DEFINE m == Head(tq[<<i, s>>])
           x == IF m.who = s THEN Other(i, s) ELSE m.who
<1>1. s \in Pair(i) /\ tq[<<i, s>>] # << >> /\ m \in Fit(i, s) /\ m.type = "SQUIT"
  BY Reading DEF RecvSquit
<1>2. UNCHANGED <<conf, made, squits, breaks>> /\ stale \in BOOLEAN
  BY DEF RecvSquit, TreeInv, TreeTypeOK
<1>3. IF ~Sourced(s, i, m) THEN Drop(s, i, m) /\ UNCHANGED stale
      ELSE IF x \notin NamesIn(table[s])
      THEN Deliver(s, i, NoOut, {}, {}) /\ UNCHANGED <<table, stale>>
      ELSE /\ Squit(s, i, Source(s, i, m), x, LocalServers(s) \ {i})
           /\ stale' = (stale \/ Via(table[s], x) # i)
  BY DEF RecvSquit
<1> HIDE DEF m, x
<1>4. CASE ~Sourced(s, i, m)
  <2>1. Bounds
    BY <1>2, <1>3, <1>4, BoundsSame
  <2> QED BY <1>1, <1>2, <1>3, <1>4, <2>1, DropKeeps
<1>5. CASE Sourced(s, i, m) /\ x \notin NamesIn(table[s])
  <2>1. Bounds
    BY <1>2, <1>3, <1>5, BoundsSame
  <2> QED BY <1>1, <1>2, <1>3, <1>5, <2>1, NoSends, SameKeeps
<1>6. CASE Sourced(s, i, m) /\ x \in NamesIn(table[s])
  <2>1. stale' \in BOOLEAN
    BY <1>3, <1>6
  <2>2. Bounds
    BY <1>2, <2>1, BoundsSame
  <2>3. PICK src : src = Source(s, i, m)
    OBVIOUS
  <2>4. src \in Nodes
    BY <1>6, <2>3, SourcedIs
  <2> QED BY <1>1, <1>2, <1>3, <1>6, <2>2, <2>3, <2>4, SquitGoes
<1> QED BY <1>4, <1>5, <1>6

LEMMA OperKeeps ==
  ASSUME TreeInv, NEW s \in Nodes, NEW x \in Nodes, OperSquit(s, x)
  PROVE  TreeInv'
<1>1. /\ Squit(s, 0, s, x, LocalServers(s)) /\ x \in NamesIn(table[s])
      /\ UNCHANGED <<conf, made, breaks, stale>> /\ squits < conf.squits /\ squits' = squits + 1
  BY DEF OperSquit
<1>2. /\ squits \in 0..conf.squits /\ breaks \in 0..conf.breaks /\ stale \in BOOLEAN
      /\ conf.squits \in Nat
  BY TreeNetworks DEF TreeInv, TreeTypeOK
<1>3. Bounds
  BY <1>1, <1>2 DEF Bounds
<1>4. 0 \notin Sockets
  BY TreeNetworks DEF Sockets
<1>5. PICK took : took = 0
  OBVIOUS
<1>6. Squit(s, took, s, x, LocalServers(s)) /\ took \notin Sockets
  BY <1>1, <1>4, <1>5
<1> QED BY <1>1, <1>3, <1>6, SquitGoes

LEMMA EobKeeps ==
  ASSUME TreeInv, NEW s \in Nodes, NEW i \in Sockets, RecvEob(s, i)
  PROVE  TreeInv'
<1> DEFINE m == Head(tq[<<i, s>>])
<1>1. /\ s \in Pair(i) /\ tq[<<i, s>>] # << >> /\ m \in Fit(i, s) /\ m.type = "EOB"
      /\ m.src \in Nodes /\ m.who \in Nodes /\ m \in TreeMessages
  BY Reading DEF RecvEob, Fit, TreeMessages
<1>2. UNCHANGED <<conf, made, squits, breaks, stale>> /\ Bounds
  BY BoundsSame DEF RecvEob, TreeInv, TreeTypeOK
<1>3. IF Sourced(s, i, m)
      THEN /\ Deliver(s, i, To(LocalServers(s) \ {i}, m), {}, {})
           /\ table' = [table EXCEPT ![s] = Eob(@, m.src)]
      ELSE Drop(s, i, m)
  BY DEF RecvEob
<1> HIDE DEF m
<1>4. CASE ~Sourced(s, i, m)
  BY <1>1, <1>2, <1>3, <1>4, DropKeeps
<1>5. CASE Sourced(s, i, m)
  <2>1. PICK out : out = To(LocalServers(s) \ {i}, m)
    OBVIOUS
  <2>2. Sends(s, out)
    <3>1. \A j \in Sockets : m \in Fit(j, Other(j, s))
      BY <1>1 DEF Fit
    <3> QED BY <2>1, <3>1, ToSends
  <2>3. PICK T : T = table[s]
    OBVIOUS
  <2>4. Sound(T, s, Uplinks(s)) /\ T \in Seq(Entries)
    BY <2>3 DEF TreeInv, Sound
  <2>5. PICK B : B = Below(T, m.src)
    OBVIOUS
  <2>6. PICK W : W = Eob(T, m.src)
    OBVIOUS
  <2>7. W = [n \in DOMAIN T |-> [T[n] EXCEPT !.eob = @ \/ T[n].name \in B]]
    BY <2>5, <2>6 DEF Eob
  <2>8. ASSUME NEW n \in DOMAIN T
        PROVE  W[n] \in Entries /\ W[n].name = T[n].name /\ W[n].up = T[n].up /\ W[n].via = T[n].via
    <3>1. T[n] \in Entries
      BY <2>4, EntryIs
    <3>2. PICK r : r = T[n]
      OBVIOUS
    <3>3. PICK b \in BOOLEAN : b = (r.eob \/ r.name \in B)
      OBVIOUS
    <3>4. W[n] = [r EXCEPT !.eob = b]
      BY <2>7, <3>2, <3>3
    <3> QED BY <3>1, <3>2, <3>4 DEF Entries
  <2>9. DOMAIN W = DOMAIN T /\ W \in Seq(Entries)
    <3>1. W \in [DOMAIN T -> Entries]
      BY <2>7, <2>8
    <3> QED BY <2>4, <3>1, MapSeq
  <2>10. PICK Q : Q = Uplinks(s)'
    OBVIOUS
  <2>11. Uplinks(s) \subseteq Q
    <3>1. \A j \in Sockets : j \notin {} /\ (j \in {} \/ j \in LocalServers(s))
                             => <<j, Other(j, s)>> \in Q
      BY <1>2, <1>3, <1>5, <2>10, UplinksAfter
    <3> QED BY <3>1 DEF Uplinks, LocalServers
  <2>12. Sound(W, s, Q)
    <3>1. s \notin NamesIn(W) /\ OnceNamed(W)
      BY <2>4, <2>8, <2>9 DEF Sound, NamesIn, OnceNamed
    <3>2. ASSUME NEW n \in DOMAIN W
          PROVE  IF W[n].up = s THEN <<W[n].via, W[n].name>> \in Q
                 ELSE \E k \in 1..n - 1 : W[k].name = W[n].up /\ W[k].via = W[n].via
      <4>1. IF T[n].up = s THEN <<T[n].via, T[n].name>> \in Uplinks(s)
            ELSE \E k \in 1..n - 1 : T[k].name = T[n].up /\ T[k].via = T[n].via
        BY <2>4, <2>9, <3>2 DEF Sound, RootedIn
      <4>2. \A k \in 1..n - 1 : k \in DOMAIN T
        BY <2>4, <2>9, <3>2
      <4> QED BY <2>8, <2>9, <2>11, <4>1, <4>2
    <3> QED BY <2>9, <3>1, <3>2 DEF Sound, RootedIn
  <2>13. table' = [table EXCEPT ![s] = W] /\ Sound(W, s, Uplinks(s)')
    BY <1>3, <1>5, <2>3, <2>6, <2>10, <2>12
  <2>14. Deliver(s, i, out, {}, {}) /\ \A j \in Sockets : j \in {} \cup {} => s \in Pair(j)
    BY <1>3, <1>5, <2>1
  <2> QED BY <1>1, <1>2, <2>2, <2>13, <2>14, HandlerKeeps DEF Bounds
<1> QED BY <1>4, <1>5

LEMMA CloseKeeps ==
  ASSUME TreeInv, NEW s \in Nodes, NEW i \in Sockets, RecvClose(s, i)
  PROVE  TreeInv'
<1>1. s \in Pair(i) /\ tq[<<i, s>>] # << >>
  BY Reading DEF RecvClose
<1>2. UNCHANGED <<conf, made, squits, breaks, stale>> /\ Bounds
  BY BoundsSame DEF RecvClose, TreeInv, TreeTypeOK
<1>3. PICK over : over = {}
  OBVIOUS
<1>4. ExitConn(s, i, i, over) /\ \E x : over \subseteq InProgress(s, x)
  BY <1>3 DEF RecvClose
<1> QED BY <1>1, <1>2, <1>4, ConnExits

\* Neither table nor ends change.
LEMMA BreakKeeps ==
  ASSUME TreeInv, NEW i \in Sockets, Break(i)
  PROVE  TreeInv'
<1>1. UNCHANGED <<conf, made, end, table, squits, stale>> /\ breaks < conf.breaks /\ breaks' = breaks + 1
  BY DEF Break
<1>2. breaks \in 0..conf.breaks /\ conf.breaks \in Nat /\ tq \in [Sides -> Seq(TreeMessages)]
  BY TreeNetworks DEF TreeInv, TreeTypeOK
<1>3. /\ \A j, t : Other(j, t)' = Other(j, t)
      /\ \A j, t : Fit(j, t)' = Fit(j, t)
      /\ \A j : Pair(j)' = Pair(j)
      /\ \A t : Uplinks(t)' = Uplinks(t)
  BY <1>1 DEF Other, Fit, Pair, Uplinks, LocalServers
<1>4. ASSUME NEW e \in Sides
      PROVE  /\ tq'[e] \in Seq(Fit(e[1], e[2])) /\ tq'[e] \in Seq(TreeMessages)
             /\ tq'[e] # << >> \/ end'[e] # "none" => e[2] \in Pair(e[1])
  <2>0. SUFFICES /\ tq'[e] \in Seq(Fit(e[1], e[2]))
                 /\ tq'[e] # << >> \/ end[e] # "none" => e[2] \in Pair(e[1])
    <3>1. Fit(e[1], e[2]) \subseteq TreeMessages
      BY DEF Fit
    <3> QED BY <1>1, <3>1
  <2>1. /\ e[1] \in Sockets /\ tq[e] \in Seq(Fit(e[1], e[2]))
        /\ tq[e] # << >> \/ end[e] # "none" => e[2] \in Pair(e[1])
    BY DEF TreeInv, Wired, Sides
  <2>2. tq'[e] = IF e[1] = i /\ e[2] \in Pair(i)
                 THEN <<TreeMessage("CLOSE", NoPrefix, Other(i, e[2]))>> ELSE tq[e]
    BY DEF Break
  <2>3. CASE e[1] = i /\ e[2] \in Pair(i)
    <3>1. Other(i, e[2]) \in Nodes
      BY <2>3, PairIs DEF TreeInv
    <3>2. TreeMessage("CLOSE", NoPrefix, Other(i, e[2])) \in Fit(e[1], e[2])
      BY <3>1, SquitFit
    <3>3. <<TreeMessage("CLOSE", NoPrefix, Other(i, e[2]))>> \in Seq(Fit(e[1], e[2]))
      BY <3>2, OneFit
    <3> QED BY <2>2, <2>3, <3>3
  <2>4. CASE ~(e[1] = i /\ e[2] \in Pair(i))
    BY <2>1, <2>2, <2>4
  <2> QED BY <2>3, <2>4
<1>5. Wired'
  BY <1>3, <1>4 DEF Wired
<1>6. tq' \in [Sides -> Seq(TreeMessages)]
  <2>1. tq' = [e \in Sides |-> tq'[e]]
    BY DEF Break
  <2> QED BY <1>4, <2>1
<1>7. TreeTypeOK'
  BY <1>1, <1>2, <1>6 DEF TreeInv, TreeTypeOK, NamesIn
<1>8. ASSUME NEW t \in Nodes PROVE Sound(table[t], t, Uplinks(t))'
  <2>1. PICK Q : Q = Uplinks(t)'
    OBVIOUS
  <2>2. Sound(table[t], t, Q)
    BY <1>3, <2>1 DEF TreeInv
  <2>3. Sound(table[t], t, Uplinks(t))' <=> Sound(table[t], t, Q)
    BY <1>1, <2>1 DEF Sound, NamesIn, RootedIn, OnceNamed
  <2> QED BY <2>2, <2>3
<1> QED BY <1>5, <1>7, <1>8 DEF TreeInv

\* A new connection is nobody's uplink yet.
LEMMA ConnectKeeps ==
  ASSUME TreeInv, NEW s \in Nodes, NEW x \in Nodes, Connect(s, x)
  PROVE  TreeInv'
<1>1. UNCHANGED <<conf, table, squits, breaks, stale>>
  BY DEF Connect
<1>2. PICK i \in 1..conf.conns : made[i] = <<>> /\ Dial(s, x, i)
  BY DEF Connect
<1>3. i \in Sockets
  <2>1. conf \in Networks
    BY DEF TreeInv, TreeTypeOK
  <2>2. conf.conns \in 0..MaxConns /\ MaxConns \in Nat
    BY <2>1, TreeNetworks
  <2> QED BY <2>2 DEF Sockets
<1>4. /\ made \in [Sockets -> {<<>>} \cup Nodes \X Nodes]
      /\ end \in [Sides -> {"none", "unknown", "server", "closed"}]
      /\ tq \in [Sides -> Seq(TreeMessages)]
  BY DEF TreeInv, TreeTypeOK
<1>5. PICK p \in Nodes \X Nodes : p = <<s, x>>
  OBVIOUS
<1>6. p # <<>> /\ p[1] = s /\ p[2] = x
  BY <1>5
<1>7. made' = [made EXCEPT ![i] = p]
  BY <1>2, <1>5 DEF Dial
<1>8. made' \in [Sockets -> {<<>>} \cup Nodes \X Nodes]
  BY <1>4, <1>7
<1>9. made'[i] = p /\ \A j \in Sockets : j # i => made'[j] = made[j]
  BY <1>3, <1>4, <1>7
<1>10. /\ \A j \in Sockets \ {i} : \A t : Other(j, t)' = Other(j, t) /\ Fit(j, t)' = Fit(j, t)
       /\ \A j \in Sockets : j # i => Pair(j)' = Pair(j)
       /\ Pair(i)' = {s, x} /\ Other(i, x)' = s /\ Pair(i) = {}
  BY <1>2, <1>6, <1>9 DEF Other, Fit, Pair
<1>11. <<i, s>> \in Sides /\ <<i, x>> \in Sides
  BY <1>3 DEF Sides
<1>12. end' = [end EXCEPT ![<<i, s>>] = "unknown", ![<<i, x>>] = "unknown"]
       /\ tq' = [tq EXCEPT ![<<i, x>>] = <<Hello(s)>>]
  BY <1>2 DEF Dial
<1>13. \A e \in Sides : /\ end'[e] = IF e = <<i, s>> \/ e = <<i, x>> THEN "unknown" ELSE end[e]
                       /\ tq'[e] = IF e = <<i, x>> THEN <<Hello(s)>> ELSE tq[e]
  BY <1>4, <1>11, <1>12
<1>14. end' \in [Sides -> {"none", "unknown", "server", "closed"}]
  BY <1>4, <1>12
<1>15. PICK m : m = Hello(s)
  OBVIOUS
<1>16. m \in TreeMessages /\ m.type = "SERVER" /\ m.who = s
  BY <1>15 DEF Hello, TreeMessage, TreeMessages
<1>17. m \in Fit(i, x)'
  BY <1>10, <1>16 DEF Fit
<1>18. tq' \in [Sides -> Seq(TreeMessages)]
  <2>1. <<m>> \in Seq(TreeMessages)
    BY <1>16, OneFit
  <2> QED BY <1>4, <1>12, <1>15, <2>1
<1>19. ASSUME NEW e \in Sides
       PROVE  /\ tq'[e] \in Seq(Fit(e[1], e[2])')
              /\ tq'[e] # << >> \/ end'[e] # "none" => e[2] \in Pair(e[1])'
  <2>1. /\ e[1] \in Sockets /\ e = <<e[1], e[2]>> /\ tq[e] \in Seq(Fit(e[1], e[2]))
        /\ tq[e] # << >> \/ end[e] # "none" => e[2] \in Pair(e[1])
    BY DEF TreeInv, Wired, Sides
  <2>2. CASE e[1] # i
    <3>1. tq'[e] = tq[e] /\ end'[e] = end[e]
      BY <1>13, <2>1, <2>2
    <3> QED BY <1>10, <2>1, <2>2, <3>1
  <2>3. CASE e[1] = i
    <3>1. tq[e] = << >> /\ end[e] = "none"
      BY <1>10, <2>1, <2>3
    <3>2. CASE e[2] = x
      <4>1. tq'[e] = <<m>>
        BY <1>13, <1>15, <2>1, <2>3, <3>2
      <4>2. <<m>> \in Seq(Fit(i, x)')
        <5>1. PICK F : F = Fit(i, x)'
          OBVIOUS
        <5> QED BY <1>17, <5>1, OneFit
      <4> QED BY <1>10, <2>3, <3>2, <4>1, <4>2
    <3>3. CASE e[2] # x
      <4>1. tq'[e] = << >>
        BY <1>13, <2>1, <3>1, <3>3
      <4>2. end'[e] # "none" => e[2] = s
        BY <1>13, <2>1, <3>1, <3>3
      <4>3. PICK F : F = Fit(e[1], e[2])'
        OBVIOUS
      <4>4. << >> \in Seq(F)
        BY NoneFit
      <4> QED BY <1>10, <2>3, <4>1, <4>2, <4>3, <4>4
    <3> QED BY <3>2, <3>3
  <2> QED BY <2>2, <2>3
<1>20. Wired'
  BY <1>19 DEF Wired
<1>21. ASSUME NEW t \in Nodes PROVE Uplinks(t) \subseteq Uplinks(t)'
  <2> SUFFICES ASSUME NEW j \in Sockets, end[<<j, t>>] = "server"
               PROVE  end'[<<j, t>>] = "server" /\ Other(j, t)' = Other(j, t)
    BY DEF Uplinks, LocalServers
  <2>1. <<j, t>> \in Sides
    BY DEF Sides
  <2>2. t \in Pair(j)
    BY <2>1 DEF TreeInv, Wired
  <2>3. j # i
    BY <1>10, <2>2
  <2> QED BY <1>10, <1>13, <2>1, <2>3
<1>22. ASSUME NEW t \in Nodes PROVE Sound(table[t], t, Uplinks(t))'
  <2>1. PICK Q : Q = Uplinks(t)'
    OBVIOUS
  <2>2. Sound(table[t], t, Uplinks(t)) /\ Uplinks(t) \subseteq Q
    BY <1>21, <2>1 DEF TreeInv
  <2>3. Sound(table[t], t, Q)
    BY <2>2 DEF Sound, RootedIn
  <2>4. Sound(table[t], t, Uplinks(t))' <=> Sound(table[t], t, Q)
    BY <1>1, <2>1 DEF Sound, NamesIn, RootedIn, OnceNamed
  <2> QED BY <2>3, <2>4
<1>23. TreeTypeOK'
  BY <1>1, <1>8, <1>14, <1>18 DEF TreeInv, TreeTypeOK, NamesIn
<1> QED BY <1>20, <1>22, <1>23 DEF TreeInv

LEMMA InitTree == TreeInit => TreeInv
<1> SUFFICES ASSUME TreeInit PROVE TreeInv
  OBVIOUS
<1>1. \A t \in Nodes : table[t] = << >>
  BY DEF TreeInit
<1>2. DOMAIN << >> = {} /\ \A S : << >> \in Seq(S)
  BY EmptySeq
<1>3. \A t \in Nodes : Sound(table[t], t, Uplinks(t))
  BY <1>1, <1>2 DEF Sound, NamesIn, RootedIn, OnceNamed
<1>4. Wired
  <2>1. \A e \in Sides : tq[e] = << >> /\ end[e] = "none"
    BY DEF TreeInit
  <2> QED BY <1>2, <2>1 DEF Wired
<1>5. TreeTypeOK
  <2>1. conf.squits \in Nat /\ conf.breaks \in Nat
    BY TreeNetworks DEF TreeInit
  <2>2. \A t \in Nodes : t \notin NamesIn(table[t])
    BY <1>3 DEF Sound
  <2>3. table \in [Nodes -> Seq(Entries)] /\ tq \in [Sides -> Seq(TreeMessages)]
    BY <1>2 DEF TreeInit
  <2>4. conf \in Networks /\ squits = 0 /\ breaks = 0 /\ stale = FALSE
    BY DEF TreeInit
  <2>5. squits \in 0..conf.squits /\ breaks \in 0..conf.breaks
    BY <2>1, <2>4
  <2>6. /\ made \in [Sockets -> {<<>>} \cup Nodes \X Nodes]
        /\ end \in [Sides -> {"none", "unknown", "server", "closed"}]
    BY DEF TreeInit
  <2> QED BY <2>2, <2>3, <2>4, <2>5, <2>6 DEF TreeTypeOK
<1> QED BY <1>3, <1>4, <1>5 DEF TreeInv

LEMMA TreeStep == TreeInv /\ [TreeNext]_treeVars => TreeInv'
<1> SUFFICES ASSUME TreeInv, [TreeNext]_treeVars PROVE TreeInv'
  OBVIOUS
<1>1. CASE UNCHANGED treeVars
  <2>1. /\ \A j, t : Other(j, t)' = Other(j, t)
        /\ \A j, t : Fit(j, t)' = Fit(j, t)
        /\ \A j : Pair(j)' = Pair(j)
        /\ \A t : Uplinks(t)' = Uplinks(t)
    BY <1>1 DEF treeVars, Other, Fit, Pair, Uplinks, LocalServers
  <2>2. TreeTypeOK'
    BY <1>1 DEF TreeInv, TreeTypeOK, treeVars, NamesIn
  <2>3. Wired'
    BY <1>1, <2>1 DEF TreeInv, Wired, treeVars
  <2>4. ASSUME NEW t \in Nodes PROVE Sound(table[t], t, Uplinks(t))'
    <3>1. PICK Q : Q = Uplinks(t)'
      OBVIOUS
    <3>2. Sound(table[t], t, Q)
      BY <2>1, <3>1 DEF TreeInv
    <3>3. Sound(table[t], t, Uplinks(t))' <=> Sound(table[t], t, Q)
      BY <1>1, <3>1 DEF treeVars, Sound, NamesIn, RootedIn, OnceNamed
    <3> QED BY <3>2, <3>3
  <2> QED BY <2>2, <2>3, <2>4 DEF TreeInv
<1>2. CASE \E s, x \in Nodes : Connect(s, x) \/ OperSquit(s, x)
  BY <1>2, ConnectKeeps, OperKeeps
<1>3. CASE \E s \in Nodes, i \in Sockets :
             \/ RecvServer(s, i) \/ RecvSid(s, i) \/ RecvSquit(s, i)
             \/ RecvEob(s, i) \/ RecvClose(s, i)
  BY <1>3, ServerKeeps, SidKeeps, SquitKeeps, EobKeeps, CloseKeeps
<1>4. CASE \E i \in Sockets : Break(i)
  BY <1>4, BreakKeeps
<1> QED BY <1>1, <1>2, <1>3, <1>4 DEF TreeNext

LEMMA TreeAlways == TreeSpec => []TreeInv
  BY InitTree, TreeStep, PTL DEF TreeSpec

\* The ends of connections, the tables and what is under way keep their types, and no
\* server lists itself (struct Server, m_server.c, m_squit.c).
THEOREM TreeTyped == TreeSpec => []TreeTypeOK
<1>1. TreeInv => TreeTypeOK
  BY DEF TreeInv
<1> QED BY <1>1, TreeAlways, PTL

\* Whatever servers connect at once and in loops, whatever breaks and is squit, no server is
\* known twice at another, and none stays there when its uplink is gone (mr_server, ms_sid,
\* exit_client, ms_squit).
THEOREM UplinkedAlways == TreeSpec => []Uplinked
<1>1. TreeInv => Uplinked
  <2> SUFFICES ASSUME TreeInv, NEW s \in Nodes
               PROVE  /\ Rooted(s)
                      /\ \A m, n \in DOMAIN table[s] : table[s][m].name = table[s][n].name => m = n
    BY DEF Uplinked
  <2>1. RootedIn(table[s], s, Uplinks(s)) /\ OnceNamed(table[s])
    BY DEF TreeInv, Sound
  <2>2. ASSUME NEW n \in DOMAIN table[s], table[s][n].up = s
        PROVE  end[<<table[s][n].via, s>>] = "server" /\ Other(table[s][n].via, s) = table[s][n].name
    <3>1. <<table[s][n].via, table[s][n].name>> \in Uplinks(s)
      BY <2>1, <2>2 DEF RootedIn
    <3> QED BY <3>1 DEF Uplinks, LocalServers
  <2>3. Rooted(s)
    BY <2>1, <2>2 DEF Rooted, RootedIn
  <2> QED BY <2>1, <2>3 DEF OnceNamed
<1> QED BY <1>1, TreeAlways, PTL
=============================================================================

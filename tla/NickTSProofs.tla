---------------------------- MODULE NickTSProofs ----------------------------
(***************************************************************************)
(* Proofs about NickTS for every tree of servers, every set of users and    *)
(* nicks and every bound.  What carries them: a SQUIT never takes away the  *)
(* server it is sent to (Queues), so a client that is connected stays in    *)
(* the hash of its own server until that server exits it (Present).         *)
(*                                                                         *)
(* And what servers know of each other's users: what is on a link takes the  *)
(* view at its far end to the view at the near end (Tracks), as long as no   *)
(* KILL has crossed the UID of its target or come to a server that had lost  *)
(* its sender.  From it follow that the servers agree in the end, and that   *)
(* nobody is killed without a better claim to the nick.                     *)
(***************************************************************************)
EXTENDS NickTS, FiniteSetTheorems, TLAPS

OnLink(l) == {m \in Message : m.type = "SQUIT" =>
                \A v \in m.servers : Via[l[2]][v] = l[1]}
Queues == /\ q \in [Links -> Seq(Message)]
          /\ \A l \in Links : q[l] \in Seq(OnLink(l))

Here == {"unreg", "reg"}
Present == \A u \in Users : phase[u] \in Here => Holds(Home[u], u)

IInv == TypeOK /\ Queues /\ Present /\ NickUnique

Phases == [Users -> {"new", "unreg", "reg", "gone"}]
Hash == [Servers -> [Users -> Entry \cup {Absent}]]

-----------------------------------------------------------------------------
(* The client hash *)

LEMMA EntryOK == ASSUME NEW e \in Entry
                 PROVE e # Absent /\ e.nick \in Nicks /\ e.nick # None /\ e.ts \in 1..MaxTS
  BY NickTree DEF Entry, Absent

LEMMA HeldEntry == ASSUME client \in Hash, NEW s \in Servers, NEW u \in Users, Holds(s, u)
                   PROVE client[s][u] \in Entry
  BY DEF Hash, Holds

LEMMA LinkEnds == ASSUME NEW l \in Links
                  PROVE /\ l[1] \in Servers /\ l[2] \in Servers
                        /\ l = <<l[1], l[2]>> /\ <<l[2], l[1]>> \in Links
                        /\ l # <<l[2], l[1]>>
  BY NickTree

\* Server s takes dead out and puts in u under a nick no one else is left with.
LEMMA RehashedOK ==
  ASSUME IInv, NEW s \in Servers, NEW dead, NEW u \in Users, NEW e \in Entry,
         client' = Rehashed(s, dead, u, e), Holders(s, e.nick) \subseteq dead \cup {u},
         \A v \in Users : phase'[v] \in Here => phase[v] \in Here \/ (v = u /\ Home[u] = s),
         \A v \in Users : v \in dead /\ Home[v] = s => phase'[v] \notin Here
  PROVE  client' \in Hash /\ Present' /\ NickUnique'
<1> DEFINE row == [v \in Users |-> IF v \in dead THEN Absent
                                   ELSE IF v = u THEN e ELSE client[s][v]]
<1>1. client \in Hash BY DEF IInv, TypeOK, Hash
<1>2. row \in [Users -> Entry \cup {Absent}] BY <1>1 DEF Hash
<1>3. client' = [client EXCEPT ![s] = row] BY DEF Rehashed
<1>4. \A t \in Servers : client'[t] = IF t = s THEN row ELSE client[t]
    BY <1>1, <1>3 DEF Hash
<1>5. client' \in Hash BY <1>1, <1>2, <1>3 DEF Hash
<1>6. \A t \in Servers, v \in Users :
         client'[t][v] = IF t # s THEN client[t][v] ELSE IF v \in dead THEN Absent
                         ELSE IF v = u THEN e ELSE client[t][v]
  <2>1. \A v \in Users : row[v] = IF v \in dead THEN Absent
                                   ELSE IF v = u THEN e ELSE client[s][v] OBVIOUS
  <2> HIDE DEF row
  <2> QED BY <1>4, <2>1
<1> HIDE DEF row
<1>7. Present'
  <2> SUFFICES ASSUME NEW v \in Users, phase'[v] \in Here
               PROVE client'[Home[v]][v] # Absent
      BY DEF Present, Holds
  <2>1. Home[v] \in Servers BY NickTree
  <2>2. phase[v] \in Here => client[Home[v]][v] # Absent BY DEF IInv, Present, Holds
  <2> QED BY <1>6, <2>1, <2>2, EntryOK
<1>8. NickUnique'
  <2> SUFFICES ASSUME NEW t \in Servers, NEW v \in Users, NEW w \in Users, v # w,
                      client'[t][v] # Absent, client'[t][w] # Absent
               PROVE client'[t][v].nick # client'[t][w].nick
      BY DEF NickUnique, Holds
  <2>1. client[t][v] # Absent /\ client[t][w] # Absent
          => client[t][v].nick # client[t][w].nick
      BY DEF IInv, NickUnique, Holds
  <2>2. \A x \in Users : client[s][x].nick = e.nick => x \in dead \/ x = u
      BY DEF Holders
  <2> QED BY <1>6, <2>1, <2>2
<1> QED BY <1>5, <1>7, <1>8

\* Server s takes dead out.
LEMMA RemovedOK ==
  ASSUME IInv, NEW s \in Servers, NEW dead, client' = Removed(s, dead),
         \A v \in Users : phase'[v] \in Here => phase[v] \in Here,
         \A v \in Users : v \in dead /\ Home[v] = s => phase'[v] \notin Here
  PROVE  client' \in Hash /\ Present' /\ NickUnique'
<1> DEFINE row == [v \in Users |-> IF v \in dead THEN Absent ELSE client[s][v]]
<1>1. client \in Hash BY DEF IInv, TypeOK, Hash
<1>2. row \in [Users -> Entry \cup {Absent}] BY <1>1 DEF Hash
<1>3. client' = [client EXCEPT ![s] = row] BY DEF Removed
<1>4. \A t \in Servers : client'[t] = IF t = s THEN row ELSE client[t]
    BY <1>1, <1>3 DEF Hash
<1>5. client' \in Hash BY <1>1, <1>2, <1>3 DEF Hash
<1>6. \A t \in Servers, v \in Users :
         client'[t][v] = IF t = s /\ v \in dead THEN Absent ELSE client[t][v]
  <2>1. \A v \in Users : row[v] = IF v \in dead THEN Absent ELSE client[s][v] OBVIOUS
  <2> HIDE DEF row
  <2> QED BY <1>4, <2>1
<1> HIDE DEF row
<1>7. Present'
  <2> SUFFICES ASSUME NEW v \in Users, phase'[v] \in Here
               PROVE client'[Home[v]][v] # Absent
      BY DEF Present, Holds
  <2>1. Home[v] \in Servers BY NickTree
  <2>2. phase[v] \in Here => client[Home[v]][v] # Absent BY DEF IInv, Present, Holds
  <2> QED BY <1>6, <2>1, <2>2
<1>8. NickUnique'
  <2> SUFFICES ASSUME NEW t \in Servers, NEW v \in Users, NEW w \in Users, v # w,
                      client'[t][v] # Absent, client'[t][w] # Absent
               PROVE client'[t][v].nick # client'[t][w].nick
      BY DEF NickUnique, Holds
  <2>1. client[t][v] # Absent /\ client[t][w] # Absent
          => client[t][v].nick # client[t][w].nick
      BY DEF IInv, NickUnique, Holds
  <2> QED BY <1>6, <2>1
<1> QED BY <1>5, <1>7, <1>8

LEMMA ExitedOK ==
  ASSUME IInv, NEW s, NEW dead, phase' = Exited(s, dead)
  PROVE  /\ phase' \in Phases
         /\ \A v \in Users : phase'[v] \in Here => phase[v] \in Here
         /\ \A v \in Users : v \in dead /\ Home[v] = s => phase'[v] \notin Here
  BY DEF IInv, TypeOK, Phases, Exited, Here

-----------------------------------------------------------------------------
(* Sending *)

LEMMA SentOK ==
  ASSUME NEW queues \in [Links -> Seq(Message)],
         \A l \in Links : queues[l] \in Seq(OnLink(l)),
         NEW s, NEW one, NEW back \in Seq(Message), NEW fwd \in Seq(Message),
         \A l \in Links : l[1] = s => /\ l[2] = one => back \in Seq(OnLink(l))
                                      /\ l[2] # one => fwd \in Seq(OnLink(l)),
         q' = Sent(queues, s, one, back, fwd)
  PROVE  Queues'
<1> DEFINE sent == Sent(queues, s, one, back, fwd)
<1>1. ASSUME NEW l \in Links
      PROVE sent[l] \in Seq(Message) /\ sent[l] \in Seq(OnLink(l))
  <2>1. CASE l[1] # s \/ ~Open(l) BY <2>1 DEF Sent
  <2>2. CASE l[1] = s /\ Open(l) /\ l[2] = one
    <3>1. sent[l] = queues[l] \o back BY <2>2 DEF Sent
    <3>2. /\ back \in Seq(OnLink(l)) /\ queues[l] \in Seq(OnLink(l))
          /\ queues[l] \in Seq(Message)
        BY <2>2
    <3> HIDE DEF sent
    <3> QED BY <3>1, <3>2
  <2>3. CASE l[1] = s /\ Open(l) /\ l[2] # one
    <3>1. sent[l] = queues[l] \o fwd BY <2>3 DEF Sent
    <3>2. /\ fwd \in Seq(OnLink(l)) /\ queues[l] \in Seq(OnLink(l))
          /\ queues[l] \in Seq(Message)
        BY <2>3
    <3> HIDE DEF sent
    <3> QED BY <3>1, <3>2
  <2> QED BY <2>1, <2>2, <2>3
<1>2. sent \in [Links -> Seq(Message)] BY <1>1 DEF Sent
<1>3. Queues' <=> /\ sent \in [Links -> Seq(Message)]
                  /\ \A l \in Links : sent[l] \in Seq(OnLink(l))
    BY DEF Queues, OnLink
<1> QED BY <1>1, <1>2, <1>3

LEMMA PoppedOK ==
  ASSUME IInv, NEW l \in Links, q[l] # << >>
  PROVE  /\ Popped(l) \in [Links -> Seq(Message)]
         /\ \A k \in Links : Popped(l)[k] \in Seq(OnLink(k))
         /\ Head(q[l]) \in OnLink(l) /\ Head(q[l]) \in Message
<1>1. /\ q \in [Links -> Seq(Message)] /\ \A k \in Links : q[k] \in Seq(OnLink(k))
    BY DEF IInv, Queues
<1>2. Tail(q[l]) \in Seq(Message) /\ Tail(q[l]) \in Seq(OnLink(l)) BY <1>1
<1>3. Head(q[l]) \in OnLink(l) /\ Head(q[l]) \in Message BY <1>1
<1> QED BY <1>1, <1>2, <1>3 DEF Popped

\* Messages that can be on any link.
Plain == {m \in Message : m.type # "SQUIT"}

LEMMA PlainSeq ==
  ASSUME NEW x \in Seq(Plain)
  PROVE  x \in Seq(Message) /\ \A l \in Links : x \in Seq(OnLink(l))
<1>1. Plain \subseteq Message BY DEF Plain
<1>2. \A l \in Links : Plain \subseteq OnLink(l) BY DEF Plain, OnLink
<1> QED BY <1>1, <1>2

LEMMA KillPlain == ASSUME NEW u \in Users PROVE Kill(u) \in Plain
  BY DEF Kill, Plain, Message

LEMMA KillByPlain ==
  ASSUME NEW o \in Users, NEW u \in Users PROVE KillBy(o, u) \in Plain
  BY DEF KillBy, Plain, Message

LEMMA ClaimedPlain ==
  ASSUME NEW u \in Users, NEW e \in Entry, NEW type \in {"UID", "NICK"}
  PROVE  Claimed(type, u, e) \in Plain /\ Claimed(type, u, e).type # "SQUIT"
<1>1. Claimed(type, u, e) \in [type : {"UID", "NICK"}, user : Users, nick : Nicks, ts : 1..MaxTS]
    BY EntryOK DEF Claimed
<1> QED BY <1>1 DEF Plain, Message

LEMMA KillsPlain ==
  ASSUME NEW u \in Users, NEW v \in Users, NEW dead PROVE Kills(u, v, dead) \in Seq(Plain)
<1> DEFINE a == IF u \in dead THEN <<Kill(u)>> ELSE << >>
           b == IF v \in dead THEN <<Kill(v)>> ELSE << >>
<1>1. a \in Seq(Plain) BY KillPlain
<1>2. b \in Seq(Plain) BY KillPlain
<1>3. Kills(u, v, dead) = a \o b BY DEF Kills
<1> HIDE DEF a, b
<1> QED BY <1>1, <1>2, <1>3

\* A server answers and passes on plain messages.
LEMMA PlainSent ==
  ASSUME NEW queues \in [Links -> Seq(Message)],
         \A l \in Links : queues[l] \in Seq(OnLink(l)),
         NEW s, NEW one, NEW back \in Seq(Plain), NEW fwd \in Seq(Plain),
         q' = Sent(queues, s, one, back, fwd)
  PROVE  Queues'
<1>1. /\ back \in Seq(Message) /\ \A l \in Links : back \in Seq(OnLink(l))
      /\ fwd \in Seq(Message) /\ \A l \in Links : fwd \in Seq(OnLink(l))
    BY PlainSeq
<1> QED BY <1>1, SentOK

LEMMA ToAllOK ==
  ASSUME IInv, NEW s, NEW msgs \in Seq(Plain), q' = ToAll(s, msgs) PROVE Queues'
<1>1. << >> \in Seq(Plain) OBVIOUS
<1> QED BY <1>1, PlainSent DEF ToAll, IInv, Queues

LEMMA ReplyOK ==
  ASSUME IInv, NEW l \in Links, q[l] # << >>,
         NEW back \in Seq(Plain), NEW fwd \in Seq(Plain), Reply(l, back, fwd)
  PROVE  Queues'
  BY PoppedOK, PlainSent DEF Reply

-----------------------------------------------------------------------------
(* Clients *)

Rest == /\ clock \in 1..MaxTS /\ conn \in [Links -> {"up", "wait", "down"}]
        /\ moves \in 0..MaxMoves /\ splits \in 0..MaxSplits
        /\ claims \subseteq Claim /\ killed \subseteq Users /\ opered \subseteq Users
        /\ crossed \in BOOLEAN

LEMMA Assemble ==
  ASSUME Rest', phase' \in Phases, client' \in Hash, Queues', Present', NickUnique'
  PROVE  IInv'
  BY DEF Rest, Phases, Hash, IInv, TypeOK, Queues

LEMMA IInvParts ==
  ASSUME IInv PROVE Rest /\ phase \in Phases /\ client \in Hash /\ Queues /\ Present
  BY DEF Rest, Phases, Hash, IInv, TypeOK

LEMMA MoveOK == ASSUME IInv, Move PROVE moves' \in 0..MaxMoves
  BY NickBounds DEF Move, IInv, TypeOK

LEMMA FirstNickStep ==
  ASSUME IInv, NEW u \in Users, NEW n \in Nicks, FirstNick(u, n), crossed' \in BOOLEAN
  PROVE  IInv'
<1> DEFINE s == Home[u]
           e == [nick |-> n, ts |-> clock]
<1>1. s \in Servers BY NickTree
<1>2. e \in Entry /\ e.nick = n BY IInvParts DEF Entry, Rest
<1>3. /\ client' = Rehashed(s, {}, u, e) /\ Holders(s, n) = {}
      /\ phase' = [phase EXCEPT ![u] = "unreg"]
      /\ UNCHANGED <<clock, splits, conn, q, history>> /\ Move
    BY DEF FirstNick
<1>4. /\ phase' \in Phases
      /\ \A v \in Users : phase'[v] \in Here => phase[v] \in Here \/ (v = u /\ Home[u] = s)
    BY <1>3, IInvParts DEF Phases, Here
<1> HIDE DEF s, e
<1>5. client' \in Hash /\ Present' /\ NickUnique'
    BY <1>1, <1>2, <1>3, <1>4, RehashedOK
<1>6. Rest' BY <1>3, MoveOK, IInvParts DEF Rest, history
<1>7. Queues' BY <1>3, IInvParts DEF Queues, OnLink
<1> QED BY <1>4, <1>5, <1>6, <1>7, Assemble

LEMMA RegisterStep ==
  ASSUME IInv, NEW u \in Users, Register(u), crossed' \in BOOLEAN
  PROVE  IInv'
<1> DEFINE s == Home[u]
           e == client[s][u]
<1>1. s \in Servers BY NickTree
<1>2. e \in Entry BY <1>1, HeldEntry, IInvParts DEF Register, Present, Here
<1>3. /\ phase[u] = "unreg" /\ phase' = [phase EXCEPT ![u] = "reg"]
      /\ q' = ToAll(s, <<Claimed("UID", u, e)>>)
      /\ claims' = claims \cup {[user |-> u, nick |-> e.nick, ts |-> e.ts]}
      /\ UNCHANGED <<counters, client, conn, killed, opered>>
    BY DEF Register
<1> HIDE DEF s, e
<1>4. Queues'
  <2>1. Claimed("UID", u, e) \in Plain BY <1>2, ClaimedPlain
  <2>2. <<Claimed("UID", u, e)>> \in Seq(Plain) BY <2>1
  <2> QED BY <1>3, <2>2, ToAllOK
<1>5. [user |-> u, nick |-> e.nick, ts |-> e.ts] \in Claim
    BY <1>2, EntryOK DEF Claim
<1>6. Rest' BY <1>3, <1>5, IInvParts DEF Rest, counters
<1>7. phase' \in Phases BY <1>3, IInvParts DEF Phases
<1>8. \A v \in Users : phase'[v] \in Here => phase[v] \in Here
    BY <1>3, IInvParts DEF Phases, Here
<1>9. Present' BY <1>3, <1>8 DEF IInv, Present, Holds, counters
<1>10. NickUnique' /\ client' \in Hash
    BY <1>3, IInvParts DEF IInv, NickUnique, Holds, counters
<1> QED BY <1>4, <1>6, <1>7, <1>9, <1>10, Assemble

LEMMA ChangeNickStep ==
  ASSUME IInv, NEW u \in Users, NEW n \in Nicks, ChangeNick(u, n), crossed' \in BOOLEAN
  PROVE  IInv'
<1> DEFINE s == Home[u]
           e == [nick |-> n, ts |-> clock]
<1>1. s \in Servers BY NickTree
<1>2. e \in Entry /\ e.nick = n /\ e.ts = clock BY IInvParts DEF Entry, Rest
<1>3. /\ client' = Rehashed(s, Holders(s, n), u, e)
      /\ phase' = Exited(s, Holders(s, n))
      /\ q' = ToAll(s, <<Claimed("NICK", u, e)>>)
      /\ claims' = claims \cup {[user |-> u, nick |-> n, ts |-> clock]}
      /\ UNCHANGED <<clock, splits, conn, killed, opered>> /\ Move
    BY DEF ChangeNick
<1>4. /\ phase' \in Phases
      /\ \A v \in Users : phase'[v] \in Here => phase[v] \in Here
      /\ \A v \in Users : v \in Holders(s, n) /\ Home[v] = s => phase'[v] \notin Here
    BY <1>3, ExitedOK
<1> HIDE DEF s, e
<1>5. client' \in Hash /\ Present' /\ NickUnique'
    BY <1>1, <1>2, <1>3, <1>4, RehashedOK
<1>6. Queues'
  <2>1. Claimed("NICK", u, e) \in Plain BY <1>2, ClaimedPlain
  <2>2. <<Claimed("NICK", u, e)>> \in Seq(Plain) BY <2>1
  <2> QED BY <1>3, <2>2, ToAllOK
<1>7. [user |-> u, nick |-> n, ts |-> clock] \in Claim BY IInvParts DEF Claim, Rest
<1>8. Rest' BY <1>3, <1>7, MoveOK, IInvParts DEF Rest
<1> QED BY <1>4, <1>5, <1>6, <1>8, Assemble

LEMMA QuitStep ==
  ASSUME IInv, NEW u \in Users, Quit(u), crossed' \in BOOLEAN PROVE IInv'
<1> DEFINE s == Home[u]
           msg == [type |-> "QUIT", user |-> u]
           msgs == IF phase[u] = "reg" THEN <<msg>> ELSE << >>
<1>1. s \in Servers BY NickTree
<1>2. msgs \in Seq(Plain)
  <2>1. msg \in Plain BY DEF Plain, Message
  <2> HIDE DEF msg
  <2> QED BY <2>1
<1>3. /\ client' = Removed(s, {u}) /\ phase' = Exited(s, {u}) /\ q' = ToAll(s, msgs)
      /\ UNCHANGED <<clock, splits, conn, history>> /\ Move
    BY DEF Quit
<1> HIDE DEF s, msgs
<1>4. client' \in Hash /\ Present' /\ NickUnique' /\ phase' \in Phases
    BY <1>1, <1>3, ExitedOK, RemovedOK
<1>5. Queues' BY <1>2, <1>3, ToAllOK
<1>6. Rest' BY <1>3, MoveOK, IInvParts DEF Rest, history
<1> QED BY <1>4, <1>5, <1>6, Assemble

LEMMA OperKillStep ==
  ASSUME IInv, NEW o \in Users, NEW u \in Users, OperKill(o, u), crossed' \in BOOLEAN
  PROVE  IInv'
<1>0. PICK s \in Servers : s = Home[o] BY NickTree
<1>1. /\ client' = Removed(s, {u}) /\ Home[u] # s /\ q' = ToAll(s, <<KillBy(o, u)>>)
      /\ opered' = opered \cup {u} /\ Move
      /\ UNCHANGED <<clock, splits, phase, conn, claims, killed>>
    BY <1>0 DEF OperKill
<1>2. client' \in Hash /\ Present' /\ NickUnique'
  <2>1. \A v \in Users : phase'[v] \in Here => phase[v] \in Here BY <1>1
  <2>2. \A v \in Users : v \in {u} /\ Home[v] = s => phase'[v] \notin Here BY <1>1
  <2> QED BY <1>1, <2>1, <2>2, RemovedOK
<1>3. <<KillBy(o, u)>> \in Seq(Plain) BY KillByPlain
<1>4. Queues' BY <1>1, <1>3, ToAllOK
<1>5. Rest' BY <1>1, MoveOK, IInvParts DEF Rest
<1>6. phase' \in Phases BY <1>1, IInvParts
<1> QED BY <1>2, <1>4, <1>5, <1>6, Assemble

LEMMA TickStep == ASSUME IInv, Tick, crossed' \in BOOLEAN PROVE IInv'
<1>1. UNCHANGED <<moves, splits, phase, client, conn, q, history>> BY DEF Tick
<1>2. clock' \in 1..MaxTS BY NickBounds, IInvParts DEF Tick, Rest
<1>3. Rest' BY <1>1, <1>2, IInvParts DEF Rest, history
<1>4. /\ phase' \in Phases /\ client' \in Hash /\ Queues' /\ Present' /\ NickUnique'
    BY <1>1, IInvParts DEF Queues, OnLink, Present, NickUnique, Holds, IInv
<1> QED BY <1>3, <1>4, Assemble

-----------------------------------------------------------------------------
(* Collisions *)

ClaimMsg == [type : {"UID", "NICK"}, user : Users, nick : Nicks, ts : 1..MaxTS]

LEMMA ClaimMsgOK ==
  ASSUME NEW m \in Message, m.type = "UID" \/ m.type = "NICK"
  PROVE  m \in ClaimMsg /\ m \in Plain
  BY DEF Message, ClaimMsg, Plain

\* What a handler of a claim does: it answers, exits and lets in.
Handled(l) == phase' \in Phases /\ client' \in Hash /\ Queues' /\ Present'
              /\ NickUnique' /\ killed' \subseteq Users

LEMMA AcceptStep ==
  ASSUME IInv, NEW l \in Links, q[l] # << >>, NEW m \in ClaimMsg, m \in Plain, Accept(l, m)
  PROVE  Handled(l)
<1> DEFINE s == l[2]
           e == [nick |-> m.nick, ts |-> m.ts]
<1>1. s \in Servers BY LinkEnds
<1>2. e \in Entry /\ e.nick = m.nick /\ m.user \in Users BY DEF ClaimMsg, Entry
<1>3. /\ phase' = Exited(s, Holders(s, m.nick)) /\ Reply(l, << >>, <<m>>)
      /\ client' = Rehashed(s, Holders(s, m.nick), m.user, e) /\ killed' = killed
    BY DEF Accept
<1> HIDE DEF s, e
<1>4. /\ phase' \in Phases
      /\ \A v \in Users : phase'[v] \in Here => phase[v] \in Here
      /\ \A v \in Users : v \in Holders(s, m.nick) /\ Home[v] = s => phase'[v] \notin Here
    BY <1>3, ExitedOK
<1>5. client' \in Hash /\ Present' /\ NickUnique'
    BY <1>1, <1>2, <1>3, <1>4, RehashedOK
<1>6. << >> \in Seq(Plain) /\ <<m>> \in Seq(Plain) OBVIOUS
<1>7. Queues' BY <1>3, <1>6, ReplyOK
<1> QED BY <1>3, <1>4, <1>5, <1>7, IInvParts DEF Handled, Rest

LEMMA CollideStep ==
  ASSUME IInv, NEW l \in Links, q[l] # << >>, NEW m \in ClaimMsg, m \in Plain,
         NEW v \in Taken(l[2], m.nick), Collide(l, m, v)
  PROVE  Handled(l)
<1> DEFINE s == l[2]
           e == [nick |-> m.nick, ts |-> m.ts]
           dead == Losers(m.user, m.ts, v, client[s][v].ts)
           told == IF m.type = "UID" THEN dead \ {m.user} ELSE dead
           rest == IF m.user \in dead THEN << >> ELSE <<m>>
<1>1. s \in Servers BY LinkEnds
<1>2. e \in Entry /\ e.nick = m.nick /\ m.user \in Users BY DEF ClaimMsg, Entry
<1>3. v \in Users /\ client[s][v].nick = m.nick BY DEF Taken, Holders
<1>4. dead \subseteq Users /\ (m.user \in dead \/ v \in dead)
    BY <1>2, <1>3 DEF Losers
<1>5. /\ phase' = Exited(s, dead)
      /\ client' = IF m.user \in dead THEN Removed(s, dead)
                   ELSE Rehashed(s, dead, m.user, e)
      /\ Reply(l, Kills(m.user, v, dead), Kills(m.user, v, told) \o rest)
      /\ killed' = killed \cup {u \in dead : Home[u] = s}
    BY DEF Collide
<1>6. rest \in Seq(Plain) OBVIOUS
<1> HIDE DEF s, e, dead, told, rest
<1>7. /\ phase' \in Phases
      /\ \A u \in Users : phase'[u] \in Here => phase[u] \in Here
      /\ \A u \in Users : u \in dead /\ Home[u] = s => phase'[u] \notin Here
    BY <1>5, ExitedOK
<1>8. client' \in Hash /\ Present' /\ NickUnique'
  <2>1. CASE m.user \in dead BY <1>1, <1>5, <1>7, <2>1, RemovedOK
  <2>2. CASE m.user \notin dead
    <3>1. v \in dead BY <1>4, <2>2
    <3>2. \A u \in Holders(s, m.nick) : u = v
      <4> SUFFICES ASSUME NEW u \in Holders(s, m.nick) PROVE u = v OBVIOUS
      <4>1. u \in Users /\ client[s][u].nick = m.nick BY DEF Holders
      <4>2. m.nick # Absent.nick BY NickTree DEF ClaimMsg, Absent
      <4>3. Holds(s, u) /\ Holds(s, v) BY <1>3, <4>1, <4>2 DEF Holds
      <4> QED BY <1>1, <1>3, <4>1, <4>3 DEF IInv, NickUnique
    <3>3. Holders(s, e.nick) \subseteq dead \cup {m.user} BY <1>2, <3>1, <3>2
    <3>4. client' = Rehashed(s, dead, m.user, e) BY <1>5, <2>2
    <3> QED BY <1>1, <1>2, <1>7, <3>3, <3>4, RehashedOK
  <2> QED BY <2>1, <2>2
<1>9. Queues'
  <2>1. Kills(m.user, v, dead) \in Seq(Plain) /\ Kills(m.user, v, told) \in Seq(Plain)
      BY <1>2, <1>3, KillsPlain
  <2> DEFINE a == Kills(m.user, v, told)
  <2>2. a \o rest \in Seq(Plain)
    <3> HIDE DEF a
    <3>1. a \in Seq(Plain) BY <2>1 DEF a
    <3> QED BY <1>6, <3>1
  <2> QED BY <1>5, <2>1, <2>2, ReplyOK
<1>10. killed' \subseteq Users BY <1>4, <1>5, IInvParts DEF Rest
<1> QED BY <1>7, <1>8, <1>9, <1>10 DEF Handled

LEMMA RemoveStep ==
  ASSUME IInv, NEW l \in Links, q[l] # << >>, NEW dead \in SUBSET Users,
         NEW back \in Seq(Plain), NEW fwd \in Seq(Plain), Remove(l, dead, back, fwd)
  PROVE  Handled(l)
<1>1. l[2] \in Servers BY LinkEnds
<1>2. /\ phase' = Exited(l[2], dead) /\ client' = Removed(l[2], dead)
      /\ killed' = killed \cup {u \in dead : Home[u] = l[2]} /\ Reply(l, back, fwd)
    BY DEF Remove
<1>3. client' \in Hash /\ Present' /\ NickUnique' /\ phase' \in Phases
    BY <1>1, <1>2, ExitedOK, RemovedOK
<1>4. Queues' BY <1>2, ReplyOK
<1> QED BY <1>2, <1>3, <1>4, IInvParts DEF Handled, Rest

LEMMA CompareStep ==
  ASSUME IInv, NEW l \in Links, q[l] # << >>, NEW m \in ClaimMsg, m \in Plain, Compare(l, m)
  PROVE  Handled(l)
  BY AcceptStep, CollideStep DEF Compare

LEMMA HandledOK ==
  ASSUME IInv, NEW l \in Links, Handled(l), UNCHANGED <<counters, conn, claims, opered>>,
         crossed' \in BOOLEAN
  PROVE  IInv'
<1>1. Rest' BY IInvParts DEF Rest, Handled, counters
<1> QED BY <1>1, Assemble DEF Handled

-----------------------------------------------------------------------------
(* Servers *)

LEMMA NoPlain == << >> \in Seq(Plain) /\ {} \in SUBSET Users
  OBVIOUS

LEMMA RecvUidStep ==
  ASSUME IInv, NEW l \in Links, RecvUid(l), crossed' \in BOOLEAN PROVE IInv'
<1> DEFINE m == Head(q[l])
<1>1. q[l] # << >> /\ m.type = "UID" BY DEF RecvUid, Received
<1>2. m \in ClaimMsg /\ m \in Plain BY <1>1, PoppedOK, ClaimMsgOK
<1>3. <<Kill(m.user)>> \in Seq(Plain) /\ {m.user} \in SUBSET Users
  <2>1. m.user \in Users BY <1>2 DEF ClaimMsg
  <2>2. Kill(m.user) \in Plain BY <2>1, KillPlain
  <2> HIDE DEF m
  <2> QED BY <2>1, <2>2
<1>4. /\ Remove(l, {m.user}, <<Kill(m.user)>>, <<Kill(m.user)>>) \/ Compare(l, m)
      /\ UNCHANGED <<counters, conn, claims, opered>>
    BY DEF RecvUid
<1> HIDE DEF m
<1>5. Handled(l) BY <1>1, <1>2, <1>3, <1>4, RemoveStep, CompareStep DEF m
<1> QED BY <1>4, <1>5, HandledOK

LEMMA RecvNickStep ==
  ASSUME IInv, NEW l \in Links, RecvNick(l), crossed' \in BOOLEAN PROVE IInv'
<1> DEFINE m == Head(q[l])
<1>1. q[l] # << >> /\ m.type = "NICK" BY DEF RecvNick, Received
<1>2. m \in ClaimMsg /\ m \in Plain BY <1>1, PoppedOK, ClaimMsgOK
<1>3. <<Kill(m.user)>> \in Seq(Plain)
  <2>1. m.user \in Users BY <1>2 DEF ClaimMsg
  <2>2. Kill(m.user) \in Plain BY <2>1, KillPlain
  <2> HIDE DEF m
  <2> QED BY <2>2
<1>4. /\ Remove(l, {}, <<Kill(m.user)>>, << >>) \/ Compare(l, m)
      /\ UNCHANGED <<counters, conn, claims, opered>>
    BY DEF RecvNick
<1> HIDE DEF m
<1>5. Handled(l) BY <1>1, <1>2, <1>3, <1>4, NoPlain, RemoveStep, CompareStep DEF m
<1> QED BY <1>4, <1>5, HandledOK

LEMMA UserMsgOK ==
  ASSUME NEW m \in Message, m.type = "KILL" \/ m.type = "QUIT"
  PROVE  /\ m.user \in Users /\ <<m>> \in Seq(Plain) /\ <<Kill(m.user)>> \in Seq(Plain)
         /\ {m.user} \in SUBSET Users
<1>1. m.user \in Users /\ m \in Plain BY DEF Message, Plain
<1>2. Kill(m.user) \in Plain BY <1>1, KillPlain
<1> QED BY <1>1, <1>2

LEMMA RecvQuitStep ==
  ASSUME IInv, NEW l \in Links, RecvQuit(l), crossed' \in BOOLEAN PROVE IInv'
<1> DEFINE m == Head(q[l])
<1>1. q[l] # << >> /\ m.type = "QUIT" BY DEF RecvQuit, Received
<1>2. m \in Message BY <1>1, PoppedOK
<1>3. /\ <<m>> \in Seq(Plain) /\ <<Kill(m.user)>> \in Seq(Plain) /\ {m.user} \in SUBSET Users
    BY <1>1, <1>2, UserMsgOK
<1>4. /\ \/ Remove(l, {m.user}, << >>, <<m>>)
         \/ Remove(l, {}, <<Kill(m.user)>>, << >>)
      /\ UNCHANGED <<counters, conn, claims, opered>>
    BY DEF RecvQuit
<1> HIDE DEF m
<1>5. Handled(l) BY <1>1, <1>3, <1>4, NoPlain, RemoveStep
<1> QED BY <1>4, <1>5, HandledOK

LEMMA RecvKillStep ==
  ASSUME IInv, NEW l \in Links, RecvKill(l), crossed' \in BOOLEAN PROVE IInv'
<1> DEFINE m == Head(q[l])
<1>1. q[l] # << >> /\ m.type = "KILL" BY DEF RecvKill, Received
<1>2. m \in Message BY <1>1, PoppedOK
<1>3. <<m>> \in Seq(Plain) /\ {m.user} \in SUBSET Users BY <1>1, <1>2, UserMsgOK
<1>4. Stranger(l[2], m) => <<Kill(m.by)>> \in Seq(Plain)
  <2>1. Stranger(l[2], m) => m.by \in Users BY <1>1, <1>2 DEF Message, Stranger
  <2>2. Stranger(l[2], m) => Kill(m.by) \in Plain BY <2>1, KillPlain
  <2> HIDE DEF m
  <2> QED BY <2>2
<1>5. /\ \/ Stranger(l[2], m) /\ Remove(l, {}, <<Kill(m.by)>>, << >>)
         \/ Remove(l, {m.user}, << >>, <<m>>)
         \/ Remove(l, {}, << >>, << >>)
      /\ UNCHANGED <<counters, conn, claims, opered>>
    BY DEF RecvKill
<1> HIDE DEF m
<1>6. Handled(l) BY <1>1, <1>3, <1>4, <1>5, NoPlain, RemoveStep
<1> QED BY <1>5, <1>6, HandledOK

-----------------------------------------------------------------------------
(* Links *)

\* Server s loses servers that are all behind its neighbour one.
Beyond(s, one, gone) == gone \subseteq Servers /\ \A v \in gone : Via[s][v] = one

LEMMA LoseStep ==
  ASSUME IInv, NEW s \in Servers, NEW one, one # s, NEW gone, Beyond(s, one, gone),
         NEW queues \in [Links -> Seq(Message)],
         \A l \in Links : queues[l] \in Seq(OnLink(l)),
         Lose(s, gone, queues, one), phase' = phase
  PROVE  phase' \in Phases /\ client' \in Hash /\ Queues' /\ Present' /\ NickUnique'
<1> DEFINE msg == [type |-> "SQUIT", servers |-> gone]
<1>0. /\ s \notin gone
      /\ \A l \in Links : l[1] = s /\ l[2] # one => \A v \in gone : Via[l[2]][v] = l[1]
  BY NickTree DEF Beyond
<1>1. client' = Removed(s, UsersOn(gone)) /\ q' = Sent(queues, s, one, << >>, <<msg>>)
    BY DEF Lose
<1>2. client' \in Hash /\ Present' /\ NickUnique'
  <2>1. \A v \in Users : v \in UsersOn(gone) /\ Home[v] = s => phase'[v] \notin Here
      BY <1>0 DEF UsersOn
  <2>2. \A v \in Users : phase'[v] \in Here => phase[v] \in Here OBVIOUS
  <2> QED BY <1>1, <2>1, <2>2, RemovedOK
<1>3. msg \in Message BY DEF Beyond, Message
<1>4. \A l \in Links : l[1] = s /\ l[2] # one => msg \in OnLink(l)
    BY <1>0, <1>3 DEF OnLink
<1> HIDE DEF msg
<1>5. <<msg>> \in Seq(Message) /\ << >> \in Seq(Message) BY <1>3
<1>6. \A l \in Links : l[1] = s => /\ l[2] = one => << >> \in Seq(OnLink(l))
                                   /\ l[2] # one => <<msg>> \in Seq(OnLink(l))
    BY <1>4
<1>7. Queues'
  <2> DEFINE none == << >>
             said == <<msg>>
  <2>1. none \in Seq(Message) /\ said \in Seq(Message) BY <1>5
  <2>2. q' = Sent(queues, s, one, none, said) BY <1>1
  <2>3. \A l \in Links : l[1] = s => /\ l[2] = one => none \in Seq(OnLink(l))
                                     /\ l[2] # one => said \in Seq(OnLink(l))
      BY <1>6
  <2> HIDE DEF none, said
  <2> QED BY <2>1, <2>2, <2>3, SentOK
<1>8. phase' \in Phases BY IInvParts
<1> QED BY <1>2, <1>7, <1>8

LEMMA RecvSquitStep ==
  ASSUME IInv, NEW l \in Links, RecvSquit(l), crossed' \in BOOLEAN PROVE IInv'
<1> DEFINE m == Head(q[l])
<1>1. q[l] # << >> /\ m.type = "SQUIT" BY DEF RecvSquit, Received
<1>2. m \in OnLink(l) /\ m \in Message BY <1>1, PoppedOK
<1>3. Beyond(l[2], l[1], m.servers)
  <2>1. m.servers \subseteq Servers BY <1>1, <1>2 DEF Message
  <2>2. \A v \in m.servers : Via[l[2]][v] = l[1] BY <1>1, <1>2 DEF OnLink
  <2> QED BY <2>1, <2>2 DEF Beyond
<1>4. /\ Lose(l[2], m.servers, Popped(l), l[1])
      /\ UNCHANGED <<counters, phase, conn, history>>
    BY DEF RecvSquit
<1> HIDE DEF m
<1>5. l[2] \in Servers /\ l[1] # l[2] BY NickTree
<1>6. phase' \in Phases /\ client' \in Hash /\ Queues' /\ Present' /\ NickUnique'
    BY <1>1, <1>3, <1>4, <1>5, PoppedOK, LoseStep
<1>7. Rest' BY <1>4, IInvParts DEF Rest, counters, history
<1> QED BY <1>6, <1>7, Assemble

LEMMA BehindOK ==
  ASSUME NEW l \in Links PROVE Beyond(l[1], l[2], Behind(l[1], l[2]))
  BY DEF Beyond, Behind

LEMMA RecvCloseStep ==
  ASSUME IInv, NEW l \in Links, RecvClose(l), crossed' \in BOOLEAN PROVE IInv'
<1>1. q[l] # << >> BY DEF RecvClose, Received
<1>2. l[2] \in Servers /\ l[1] # l[2] /\ <<l[2], l[1]>> \in Links BY NickTree
<1>3. Beyond(l[2], l[1], Behind(l[2], l[1])) BY <1>2, BehindOK
<1>4. /\ Lose(l[2], Behind(l[2], l[1]), Popped(l), l[1])
      /\ conn' = [conn EXCEPT ![<<l[2], l[1]>>] = "down"]
      /\ UNCHANGED <<counters, phase, history>>
    BY DEF RecvClose
<1>5. phase' \in Phases /\ client' \in Hash /\ Queues' /\ Present' /\ NickUnique'
    BY <1>1, <1>2, <1>3, <1>4, PoppedOK, LoseStep
<1>6. Rest' BY <1>4, IInvParts DEF Rest, counters, history
<1> QED BY <1>5, <1>6, Assemble

LEMMA BreakStep ==
  ASSUME IInv, NEW l \in Links, Break(l), crossed' \in BOOLEAN PROVE IInv'
<1> DEFINE rev == <<l[2], l[1]>>
           cl == [type |-> "CLOSE"]
           queues == [q EXCEPT ![rev] = << >>, ![l] = Append(@, cl)]
<1>1. l[1] \in Servers /\ l[2] # l[1] /\ rev \in Links /\ l # rev BY LinkEnds, NickTree
<1>2. cl \in Message /\ \A k \in Links : cl \in OnLink(k) BY DEF Message, OnLink
<1>3. q \in [Links -> Seq(Message)] /\ \A k \in Links : q[k] \in Seq(OnLink(k))
    BY IInvParts DEF Queues
<1> HIDE DEF cl, rev
<1>4. \A k \in Links : queues[k] = IF k = l THEN Append(q[l], cl)
                                   ELSE IF k = rev THEN << >> ELSE q[k]
    BY <1>1, <1>3
<1>5. \A k \in Links : queues[k] \in Seq(Message) /\ queues[k] \in Seq(OnLink(k))
  <2> HIDE DEF queues
  <2> SUFFICES ASSUME NEW k \in Links
               PROVE queues[k] \in Seq(Message) /\ queues[k] \in Seq(OnLink(k))
      OBVIOUS
  <2>1. Append(q[k], cl) \in Seq(Message) /\ Append(q[k], cl) \in Seq(OnLink(k))
      BY <1>2, <1>3
  <2>2. << >> \in Seq(Message) /\ << >> \in Seq(OnLink(k)) OBVIOUS
  <2> QED BY <1>3, <1>4, <2>1, <2>2
<1>6. queues \in [Links -> Seq(Message)]
  <2>1. queues = [k \in Links |-> queues[k]] BY <1>3
  <2> HIDE DEF queues
  <2> QED BY <1>5, <2>1
<1>7. /\ Lose(l[1], Behind(l[1], l[2]), queues, l[2])
      /\ splits < MaxSplits /\ splits' = splits + 1
      /\ conn' = [conn EXCEPT ![l] = "down"]
      /\ UNCHANGED <<clock, moves, phase, history>>
    BY DEF Break, rev, cl
<1> HIDE DEF queues
<1>8. phase' \in Phases /\ client' \in Hash /\ Queues' /\ Present' /\ NickUnique'
    BY <1>1, <1>5, <1>6, <1>7, BehindOK, LoseStep
<1>9. Rest' BY <1>7, NickBounds, IInvParts DEF Rest, history
<1> QED BY <1>8, <1>9, Assemble

LEMMA BurstOK ==
  ASSUME IInv, NEW s \in Servers, NEW order \in Orders(Registered(s))
  PROVE  Burst(s, order) \in Seq(Message) /\ \A k \in Links : Burst(s, order) \in Seq(OnLink(k))
<1> DEFINE n == Cardinality(Registered(s))
           b == Burst(s, order)
<1>1. order \in [1..n -> Registered(s)] BY DEF Orders
<1>2. \A i \in 1..n : b[i] \in Plain
  <2> SUFFICES ASSUME NEW i \in 1..n PROVE b[i] \in Plain OBVIOUS
  <2>1. order[i] \in Users /\ Holds(s, order[i]) BY <1>1 DEF Registered, Known
  <2>2. client[s][order[i]] \in Entry BY <2>1, HeldEntry, IInvParts
  <2>3. b[i] = Claimed("UID", order[i], client[s][order[i]]) BY <1>1 DEF Burst
  <2> HIDE DEF b
  <2> QED BY <2>1, <2>2, <2>3, ClaimedPlain
<1>3. b = [i \in 1..n |-> b[i]] BY <1>1 DEF Burst
<1>4. n \in Nat
  <2>1. Registered(s) \subseteq Users BY DEF Registered
  <2> QED BY <2>1, NickBounds, FS_Subset, FS_CardinalityType
<1> HIDE DEF b, n
<1>5. b \in Seq(Plain) BY <1>2, <1>3, <1>4
<1> QED BY <1>5, PlainSeq DEF b

LEMMA StillStep ==
  ASSUME IInv, Queues', UNCHANGED <<counters, phase, client, history>>,
         conn' \in [Links -> {"up", "wait", "down"}], crossed' \in BOOLEAN
  PROVE  IInv'
<1>1. Rest' BY IInvParts DEF Rest, counters, history
<1>2. phase' \in Phases /\ client' \in Hash /\ Present' /\ NickUnique'
    BY IInvParts DEF Present, NickUnique, Holds, IInv
<1> QED BY <1>1, <1>2, Assemble

LEMMA ConnectStep ==
  ASSUME IInv, NEW l \in Links, Connect(l), crossed' \in BOOLEAN PROVE IInv'
<1> DEFINE sv == [type |-> "SERVER"]
<1>1. l[1] \in Servers BY NickTree
<1>2. sv \in Plain BY DEF Plain, Message
<1>3. PICK order \in Orders(Registered(l[1])) :
        q' = [q EXCEPT ![l] = <<sv>> \o Burst(l[1], order)]
    BY DEF Connect
<1>4. /\ UNCHANGED <<counters, phase, client, history>>
      /\ conn' \in [Links -> {"up", "wait", "down"}]
    BY IInvParts DEF Connect, Rest
<1> DEFINE b == Burst(l[1], order)
<1> HIDE DEF sv
<1>5. b \in Seq(Message) /\ \A k \in Links : b \in Seq(OnLink(k)) BY <1>1, BurstOK
<1>6. <<sv>> \in Seq(Message) /\ \A k \in Links : <<sv>> \in Seq(OnLink(k))
  <2>1. <<sv>> \in Seq(Plain) BY <1>2
  <2> QED BY <2>1, PlainSeq
<1> HIDE DEF b
<1>7. /\ <<sv>> \o b \in Seq(Message)
      /\ \A k \in Links : <<sv>> \o b \in Seq(OnLink(k))
    BY <1>5, <1>6
<1>8. q' = [q EXCEPT ![l] = <<sv>> \o b] BY <1>3 DEF b
<1>9. Queues' BY <1>7, <1>8, IInvParts DEF Queues, OnLink
<1> QED BY <1>4, <1>9, StillStep

LEMMA RecvServerStep ==
  ASSUME IInv, NEW l \in Links, RecvServer(l), crossed' \in BOOLEAN PROVE IInv'
<1> DEFINE rev == <<l[2], l[1]>>
<1>1. l[2] \in Servers /\ rev \in Links /\ rev # l BY LinkEnds
<1>2. PICK order \in Orders(Registered(l[2])) :
        q' = [q EXCEPT ![l] = Tail(@),
                       ![rev] = IF conn[l] = "down" THEN @ ELSE @ \o Burst(l[2], order)]
    BY DEF RecvServer
<1>3. /\ UNCHANGED <<counters, phase, client, history>> /\ q[l] # << >>
      /\ conn' \in [Links -> {"up", "wait", "down"}]
    BY IInvParts DEF RecvServer, Rest
<1> DEFINE x == Burst(l[2], order)
           b == IF conn[l] = "down" THEN q[rev] ELSE q[rev] \o x
<1>4. /\ q \in [Links -> Seq(Message)]
      /\ \A k \in Links : q[k] \in Seq(Message) /\ q[k] \in Seq(OnLink(k))
    BY IInvParts DEF Queues
<1>5. x \in Seq(Message) /\ \A k \in Links : x \in Seq(OnLink(k)) BY <1>1, BurstOK
<1> HIDE DEF x, rev
<1>6. b \in Seq(Message) /\ b \in Seq(OnLink(rev))
  <2>1. q[rev] \o x \in Seq(Message) /\ q[rev] \o x \in Seq(OnLink(rev))
      BY <1>1, <1>4, <1>5
  <2> QED BY <1>1, <1>4, <2>1
<1>7. q' = [q EXCEPT ![l] = Tail(@), ![rev] = b]
  <2>1. q' = [q EXCEPT ![l] = Tail(@),
                       ![rev] = IF conn[l] = "down" THEN @ ELSE @ \o x]
      BY <1>2 DEF x
  <2> QED BY <1>1, <1>4, <2>1
<1> HIDE DEF b
<1>8. Tail(q[l]) \in Seq(Message) /\ Tail(q[l]) \in Seq(OnLink(l)) BY <1>3, <1>4
<1>9. /\ q' \in [Links -> Seq(Message)]
      /\ \A k \in Links : q'[k] \in Seq(OnLink(k))
    BY <1>1, <1>4, <1>6, <1>7, <1>8
<1>10. Queues' BY <1>9 DEF Queues, OnLink
<1> QED BY <1>3, <1>10, StillStep

-----------------------------------------------------------------------------
(* The invariant and what follows from it *)

LEMMA InitIInv == Init => IInv
<1> SUFFICES ASSUME Init PROVE IInv OBVIOUS
<1>1. 1 \in 1..MaxTS /\ 0 \in 0..MaxMoves /\ 0 \in 0..MaxSplits BY NickBounds
<1>2. Queues BY DEF Init, Queues
<1>3. Present BY DEF Init, Present, Here
<1>4. NickUnique BY DEF Init, NickUnique, Holds
<1>5. TypeOK
  <2>1. client \in [Servers -> [Users -> Entry \cup {Absent}]] BY DEF Init
  <2>2. q \in [Links -> Seq(Message)] BY DEF Init
  <2>3. phase \in [Users -> {"new", "unreg", "reg", "gone"}] BY DEF Init
  <2>4. conn \in [Links -> {"up", "wait", "down"}] BY DEF Init
  <2> QED BY <1>1, <2>1, <2>2, <2>3, <2>4 DEF Init, TypeOK
<1> QED BY <1>2, <1>3, <1>4, <1>5 DEF IInv

LEMMA NextIInv == IInv /\ [Next]_vars => IInv'
<1> SUFFICES ASSUME IInv, [Next]_vars PROVE IInv' OBVIOUS
<1>1. CASE UNCHANGED vars
  <2>1. Queues' BY <1>1, IInvParts DEF vars, Queues, OnLink
  <2>2. UNCHANGED <<counters, phase, client, history>>
      BY <1>1 DEF vars, counters, history
  <2>3. conn' \in [Links -> {"up", "wait", "down"}] /\ crossed' \in BOOLEAN
      BY <1>1, IInvParts DEF vars, Rest
  <2> QED BY <2>1, <2>2, <2>3, StillStep
<1>2. CASE Next
  <2>1. crossed' \in BOOLEAN BY <1>2, IInvParts DEF Next, Rest, Crossing, Meeting, Orphaned
  <2>2. ASSUME NEW u \in Users, NEW n \in Nicks, FirstNick(u, n) \/ ChangeNick(u, n)
        PROVE IInv'
      BY <2>1, <2>2, FirstNickStep, ChangeNickStep
  <2>3. ASSUME NEW u \in Users, Register(u) \/ Quit(u) PROVE IInv'
      BY <2>1, <2>3, RegisterStep, QuitStep
  <2>4. ASSUME NEW u \in Users, NEW o \in Users, OperKill(o, u) PROVE IInv'
      BY <2>1, <2>4, OperKillStep
  <2>5. ASSUME NEW l \in Links, Deliver(l) PROVE IInv'
      BY <2>1, <2>5, RecvUidStep, RecvNickStep, RecvQuitStep, RecvKillStep,
         RecvSquitStep, RecvCloseStep, RecvServerStep DEF Deliver
  <2>6. ASSUME NEW l \in Links, Break(l) \/ Connect(l) PROVE IInv'
      BY <2>1, <2>6, BreakStep, ConnectStep
  <2>7. CASE Tick BY <2>1, <2>7, TickStep
  <2> QED BY <1>2, <2>2, <2>3, <2>4, <2>5, <2>6, <2>7 DEF Next, Step
<1> QED BY <1>1, <1>2

\* Every reachable state has the types of NickTS: what a server keeps of a client
\* is a nick with a TS, the links carry well-formed messages only.
THEOREM TypeCorrect == Spec => []TypeOK
<1>1. IInv => TypeOK BY DEF IInv
<1> QED BY InitIInv, NextIInv, <1>1, PTL DEF Spec

\* On any tree of servers and for any number of users and nicks, no server ever
\* has two clients of one nick in its hash, whatever NICKs, UIDs and KILLs cross.
THEOREM NicksUnique == Spec => []NickUnique
<1>1. IInv => NickUnique BY DEF IInv
<1> QED BY InitIInv, NextIInv, <1>1, PTL DEF Spec

-----------------------------------------------------------------------------

Views == Entry \cup {Absent}

\* What a server has of u once it has handled m, if e before, collisions aside.
About(m, u) == \/ m.type \in {"UID", "NICK", "KILL", "QUIT"} /\ m.user = u
               \/ m.type = "SQUIT" /\ Home[u] \in m.servers
               \/ m.type = "CLOSE"
After(m, u, e) == IF ~About(m, u) THEN e
                  ELSE IF m.type = "UID" \/ (m.type = "NICK" /\ e # Absent)
                       THEN [nick |-> m.nick, ts |-> m.ts] ELSE Absent

Uid(m, u) == m.type = "UID" /\ m.user = u

\* No UID of a user that is known; unless he is to be killed (j), a NICK comes
\* with another nick than he has, and nothing comes of him, nor a KILL from him,
\* when he is not known.
Says(m, u) == m.type = "KILL" /\ m.by = u
Allowed(m, u, j, e) ==
  /\ Uid(m, u) => e = Absent
  /\ ~j /\ m.type = "NICK" /\ m.user = u => e # Absent /\ e.nick # m.nick
  /\ ~j /\ m.type = "QUIT" /\ m.user = u => e # Absent
  /\ ~j /\ Says(m, u) => e # Absent

\* The messages x take the view e of u to g.
Follows(x, u, j, f) ==
  \A i \in 1..Len(x) : f[i] = After(x[i], u, f[i-1]) /\ Allowed(x[i], u, j, f[i-1])
Leads(x, u, j, e, g) ==
  \E f \in [0..Len(x) -> Views] : f[0] = e /\ f[Len(x)] = g /\ Follows(x, u, j, f)

-----------------------------------------------------------------------------
(* Sequences of messages *)

LEMMA AfterView ==
  ASSUME NEW m \in Message, NEW u, NEW e \in Views
  PROVE  After(m, u, e) \in Views
<1>1. m.type \in {"UID", "NICK"} => [nick |-> m.nick, ts |-> m.ts] \in Entry
  BY DEF Message, Entry
<1> QED BY <1>1 DEF After, Views, About

LEMMA LeadsNil ==
  ASSUME NEW u, NEW j, NEW e \in Views
  PROVE  Leads(<< >>, u, j, e, e)
<1> DEFINE f == [i \in 0..0 |-> e]
<1>1. f \in [0..Len(<< >>) -> Views] /\ f[0] = e /\ f[Len(<< >>)] = e
  OBVIOUS
<1>2. Follows(<< >>, u, j, f)
  BY DEF Follows
<1> QED BY <1>1, <1>2 DEF Leads

LEMMA LeadsEmpty ==
  ASSUME NEW u, NEW j, NEW e, NEW g, Leads(<< >>, u, j, e, g)
  PROVE  e = g
  BY DEF Leads

LEMMA LeadsOne ==
  ASSUME NEW m \in Message, NEW u, NEW j, NEW e \in Views, Allowed(m, u, j, e)
  PROVE  Leads(<<m>>, u, j, e, After(m, u, e))
<1> DEFINE f == [i \in 0..1 |-> IF i = 0 THEN e ELSE After(m, u, e)]
<1>1. f \in [0..Len(<<m>>) -> Views] /\ f[0] = e /\ f[Len(<<m>>)] = After(m, u, e)
  BY AfterView
<1>2. Follows(<<m>>, u, j, f)
  BY DEF Follows
<1> QED BY <1>1, <1>2 DEF Leads

LEMMA LeadsView ==
  ASSUME NEW x \in Seq(Message), NEW u, NEW j, NEW e, NEW g, Leads(x, u, j, e, g)
  PROVE  e \in Views /\ g \in Views
  BY DEF Leads

LEMMA LeadsCat ==
  ASSUME NEW x \in Seq(Message), NEW y \in Seq(Message), NEW u, NEW j,
         NEW e, NEW g, NEW h, Leads(x, u, j, e, g), Leads(y, u, j, g, h)
  PROVE  Leads(x \o y, u, j, e, h)
<1>1. PICK a \in [0..Len(x) -> Views] : a[0] = e /\ a[Len(x)] = g /\ Follows(x, u, j, a)
  BY DEF Leads
<1>2. PICK b \in [0..Len(y) -> Views] : b[0] = g /\ b[Len(y)] = h /\ Follows(y, u, j, b)
  BY DEF Leads
<1> DEFINE z == x \o y
           n == Len(x)
           f == [i \in 0..Len(z) |-> IF i <= n THEN a[i] ELSE b[i - n]]
<1>3. n \in Nat /\ Len(y) \in Nat /\ Len(z) = n + Len(y)
  OBVIOUS
<1>4. \A i \in 0..Len(z) : f[i] \in Views
  <2> SUFFICES ASSUME NEW i \in 0..Len(z) PROVE f[i] \in Views
    OBVIOUS
  <2>1. CASE i <= n
    <3>1. i \in 0..Len(x) /\ f[i] = a[i]
      BY <1>3, <2>1
    <3> HIDE DEF f, z, n
    <3> QED BY <1>1, <3>1
  <2>2. CASE ~(i <= n)
    <3>1. i - n \in 0..Len(y) /\ f[i] = b[i - n]
      BY <1>3, <2>2
    <3> HIDE DEF f, z, n
    <3> QED BY <1>2, <3>1
  <2> QED BY <2>1, <2>2
<1>5. f \in [0..Len(z) -> Views] /\ f[0] = e
  BY <1>1, <1>3, <1>4
<1>6. f[Len(z)] = h
  <2>1. CASE Len(y) = 0
    BY <1>1, <1>2, <1>3, <2>1
  <2>2. CASE Len(y) # 0
    BY <1>2, <1>3, <2>2
  <2> QED BY <2>1, <2>2
<1>7. Follows(z, u, j, f)
  <2> SUFFICES ASSUME NEW i \in 1..Len(z)
               PROVE  f[i] = After(z[i], u, f[i-1]) /\ Allowed(z[i], u, j, f[i-1])
    BY DEF Follows
  <2>1. CASE i <= n
    <3>1. z[i] = x[i] /\ f[i] = a[i] /\ f[i-1] = a[i-1] /\ i \in 1..Len(x)
      BY <1>3, <2>1
    <3> HIDE DEF f, z, n
    <3> QED BY <1>1, <3>1 DEF Follows
  <2>2. CASE i = n + 1
    <3>1. z[i] = y[1] /\ f[i] = b[1] /\ f[i-1] = b[1-1] /\ 1 \in 1..Len(y)
      BY <1>1, <1>2, <1>3, <2>2
    <3> HIDE DEF f, z, n
    <3> QED BY <1>2, <3>1 DEF Follows
  <2>3. CASE i > n + 1
    <3>1. i - n \in 1..Len(y) /\ z[i] = y[i - n] /\ f[i] = b[i - n]
          /\ f[i-1] = b[(i - n) - 1]
      BY <1>3, <2>3
    <3>2. PICK k \in 1..Len(y) : k = i - n
      BY <3>1
    <3>3. b[k] = After(y[k], u, b[k-1]) /\ Allowed(y[k], u, j, b[k-1])
      BY <1>2 DEF Follows
    <3> HIDE DEF f, z, n
    <3> QED BY <3>1, <3>2, <3>3
  <2>4. i <= n \/ i = n + 1 \/ i > n + 1
    BY <1>3
  <2> QED BY <2>1, <2>2, <2>3, <2>4
<1> QED BY <1>5, <1>6, <1>7 DEF Leads

LEMMA LeadsTail ==
  ASSUME NEW x \in Seq(Message), x # << >>, NEW u, NEW j, NEW e, NEW g, Leads(x, u, j, e, g)
  PROVE  /\ Leads(Tail(x), u, j, After(Head(x), u, e), g)
         /\ Allowed(Head(x), u, j, e)
<1>1. PICK a \in [0..Len(x) -> Views] : a[0] = e /\ a[Len(x)] = g /\ Follows(x, u, j, a)
  BY DEF Leads
<1> DEFINE y == Tail(x)
           f == [i \in 0..Len(y) |-> a[i + 1]]
<1>2. Len(x) \in Nat /\ Len(x) >= 1 /\ Len(y) = Len(x) - 1 /\ x[1] = Head(x)
  OBVIOUS
<1>3. a[1] = After(Head(x), u, e) /\ Allowed(Head(x), u, j, e)
  BY <1>1, <1>2 DEF Follows
<1>4. f \in [0..Len(y) -> Views] /\ f[0] = a[1] /\ f[Len(y)] = g
  BY <1>1, <1>2
<1>5. Follows(y, u, j, f)
  <2> SUFFICES ASSUME NEW i \in 1..Len(y)
               PROVE  f[i] = After(y[i], u, f[i-1]) /\ Allowed(y[i], u, j, f[i-1])
    BY DEF Follows
  <2>1. /\ y[i] = x[i + 1] /\ f[i] = a[i + 1] /\ f[i-1] = a[(i + 1) - 1]
        /\ i + 1 \in 1..Len(x)
    BY <1>2
  <2> HIDE DEF f, y
  <2> QED BY <1>1, <2>1 DEF Follows
<1> QED BY <1>3, <1>4, <1>5 DEF Leads

\* Messages that are not about u, nor from u.
LEMMA LeadsStill ==
  ASSUME NEW x \in Seq(Message), NEW u, NEW j, NEW e \in Views,
         \A i \in DOMAIN x : ~About(x[i], u) /\ ~Says(x[i], u)
  PROVE  Leads(x, u, j, e, e)
<1> DEFINE f == [i \in 0..Len(x) |-> e]
<1>1. f \in [0..Len(x) -> Views] /\ f[0] = e /\ f[Len(x)] = e
  OBVIOUS
<1>2. Follows(x, u, j, f)
  <2> SUFFICES ASSUME NEW i \in 1..Len(x)
               PROVE  f[i] = After(x[i], u, f[i-1]) /\ Allowed(x[i], u, j, f[i-1])
    BY DEF Follows
  <2>1. f[i] = e /\ f[i-1] = e /\ ~About(x[i], u) /\ ~Says(x[i], u)
    OBVIOUS
  <2> HIDE DEF f
  <2> QED BY <2>1 DEF After, Allowed, Uid, About
<1> QED BY <1>1, <1>2 DEF Leads

\* Without his UID a user that is to be killed stays unknown.
LEMMA LeadsDead ==
  ASSUME NEW x \in Seq(Message), NEW u, \A i \in DOMAIN x : ~Uid(x[i], u)
  PROVE  Leads(x, u, TRUE, Absent, Absent)
<1> DEFINE f == [i \in 0..Len(x) |-> Absent]
<1>1. f \in [0..Len(x) -> Views] /\ f[0] = Absent /\ f[Len(x)] = Absent
  BY DEF Views
<1>2. Follows(x, u, TRUE, f)
  <2> SUFFICES ASSUME NEW i \in 1..Len(x)
               PROVE  f[i] = After(x[i], u, f[i-1]) /\ Allowed(x[i], u, TRUE, f[i-1])
    BY DEF Follows
  <2>1. f[i] = Absent /\ f[i-1] = Absent /\ ~Uid(x[i], u)
    OBVIOUS
  <2> HIDE DEF f
  <2> QED BY <2>1 DEF After, Allowed, Uid, About
<1> QED BY <1>1, <1>2 DEF Leads

\* A user that is to be killed is taken out at the far end.
LEMMA LeadsCut ==
  ASSUME NEW x \in Seq(Message), NEW u, NEW j, NEW e, Leads(x, u, j, e, Absent)
  PROVE  Leads(x, u, TRUE, Absent, Absent)
<1>1. PICK a \in [0..Len(x) -> Views] :
         a[0] = e /\ a[Len(x)] = Absent /\ Follows(x, u, j, a)
  BY DEF Leads
<1> DEFINE f == [i \in 0..Len(x) |-> IF \E k \in 1..i : Uid(x[k], u) THEN a[i] ELSE Absent]
<1>2. f \in [0..Len(x) -> Views] /\ f[0] = Absent /\ f[Len(x)] = Absent
  BY <1>1 DEF Views
<1>3. Follows(x, u, TRUE, f)
  <2> SUFFICES ASSUME NEW i \in 1..Len(x)
               PROVE  f[i] = After(x[i], u, f[i-1]) /\ Allowed(x[i], u, TRUE, f[i-1])
    BY DEF Follows
  <2>0. i - 1 \in 0..Len(x) /\ i \in 0..Len(x)
    OBVIOUS
  <2>1. a[i] = After(x[i], u, a[i-1]) /\ Allowed(x[i], u, j, a[i-1])
    BY <1>1 DEF Follows
  <2>2. CASE \E k \in 1..(i-1) : Uid(x[k], u)
    <3>1. \E k \in 1..i : Uid(x[k], u)
      BY <2>2
    <3>2. f[i] = a[i] /\ f[i-1] = a[i-1]
      BY <2>0, <2>2, <3>1
    <3> HIDE DEF f
    <3> QED BY <2>1, <3>2 DEF Allowed
  <2>3. CASE Uid(x[i], u) /\ ~\E k \in 1..(i-1) : Uid(x[k], u)
    <3>1. \E k \in 1..i : Uid(x[k], u)
      BY <2>3
    <3>2. f[i] = a[i] /\ f[i-1] = Absent /\ a[i-1] = Absent
      BY <2>0, <2>1, <2>3, <3>1 DEF Allowed
    <3> HIDE DEF f
    <3> QED BY <2>1, <3>2 DEF Allowed
  <2>4. CASE ~Uid(x[i], u) /\ ~\E k \in 1..(i-1) : Uid(x[k], u)
    <3>1. ~\E k \in 1..i : Uid(x[k], u)
      BY <2>4
    <3>2. f[i] = Absent /\ f[i-1] = Absent
      BY <2>0, <2>4, <3>1
    <3> HIDE DEF f
    <3> QED BY <2>4, <3>2 DEF After, Allowed, Uid, About
  <2> QED BY <2>2, <2>3, <2>4
<1> QED BY <1>2, <1>3 DEF Leads

LEMMA LeadsMono ==
  ASSUME NEW x \in Seq(Message), NEW u, NEW j \in BOOLEAN, NEW k \in BOOLEAN, j => k,
         NEW e, NEW g, Leads(x, u, j, e, g)
  PROVE  Leads(x, u, k, e, g)
<1>1. PICK a \in [0..Len(x) -> Views] : a[0] = e /\ a[Len(x)] = g /\ Follows(x, u, j, a)
  BY DEF Leads
<1>2. Follows(x, u, k, a)
  BY <1>1 DEF Follows, Allowed
<1> QED BY <1>1, <1>2 DEF Leads

-----------------------------------------------------------------------------
(* The invariant *)

\* Users somebody has a better claim than, or an oper has killed.
Doomed(u) == \/ u \in opered
             \/ \E c, d \in claims : d.user = u /\ Beats(c, d)
Clear(u) == ~crossed \/ ~Doomed(u)

Rev(l) == <<l[2], l[1]>>
Up(l, u) == Via[l[2]][Home[u]] = l[1]
Has(x, m) == \E i \in DOMAIN x : x[i] = m
HasUid(x, u) == \E i \in DOMAIN x : Uid(x[i], u)
HasKill(x, u) == \E i \in DOMAIN x : IsKill(x[i], u)
ClaimOf(u, e) == [user |-> u, nick |-> e.nick, ts |-> e.ts]
Closing == [type |-> "CLOSE"]

\* What the far end of l is to have of u in the end: nothing once a KILL is on
\* its way back or the link is closed.
Final(l, u) == IF Open(l) /\ ~HasKill(q[Rev(l)], u) THEN Seen(l[1], u) ELSE Absent

Good(l, m) == /\ m.type = "KILL" => Doomed(m.user)
              /\ m.type = "KILL" /\ m.by # None => Up(l, m.by) /\ m.by # m.user
              /\ m.type \in {"UID", "NICK"} => ClaimOf(m.user, m) \in claims
              /\ m.type \in {"UID", "NICK", "QUIT"} => Up(l, m.user)

Blamed == \A u \in killed : Doomed(u)
Honest == \A l \in Links : \A i \in DOMAIN q[l] : Good(l, q[l][i])
Stated == \A s \in Servers, u \in Users :
            Seen(s, u) # Absent => ClaimOf(u, Seen(s, u)) \in claims
\* Nobody is known behind a link that is not up.
Apart == \A l \in Links, u \in Users :
           conn[l] # "up" /\ Via[l[1]][Home[u]] = l[2] => Seen(l[1], u) = Absent
Ends == \A l \in Links : /\ Has(q[l], Closing) => conn[l] = "down"
                         /\ conn[Rev(l)] # "down" /\ conn[l] = "down" => Has(q[l], Closing)
Tracks == \A u \in Users : Clear(u) => \A l \in Links : Up(l, u) =>
            Leads(q[l], u, Doomed(u), Seen(l[2], u), Final(l, u))
Knowledge == Blamed /\ Honest /\ Stated /\ Apart /\ Ends /\ Tracks

-----------------------------------------------------------------------------
(* Steps of one server *)

LEMMA HasCat ==
  ASSUME NEW x \in Seq(Message), NEW y \in Seq(Message), NEW m
  PROVE  Has(x \o y, m) <=> Has(x, m) \/ Has(y, m)
<1> DEFINE z == x \o y
<1>1. /\ Len(x) \in Nat /\ Len(y) \in Nat
      /\ DOMAIN z = 1..(Len(x) + Len(y)) /\ DOMAIN x = 1..Len(x) /\ DOMAIN y = 1..Len(y)
  OBVIOUS
<1>2. \A i \in DOMAIN x : i \in DOMAIN z /\ z[i] = x[i]
  OBVIOUS
<1>3. \A i \in DOMAIN y : i + Len(x) \in DOMAIN z /\ z[i + Len(x)] = y[i]
  OBVIOUS
<1>4. \A i \in DOMAIN z : \/ i \in DOMAIN x /\ z[i] = x[i]
                          \/ i - Len(x) \in DOMAIN y /\ z[i] = y[i - Len(x)]
  OBVIOUS
<1> HIDE DEF z
<1> QED BY <1>2, <1>3, <1>4 DEF Has, z

LEMMA UidCat ==
  ASSUME NEW x \in Seq(Message), NEW y \in Seq(Message), NEW u
  PROVE  HasUid(x \o y, u) <=> HasUid(x, u) \/ HasUid(y, u)
<1>1. ASSUME NEW m PROVE Has(x \o y, m) <=> Has(x, m) \/ Has(y, m)
  BY HasCat
<1>2. \A z : HasUid(z, u) <=> \E m : Has(z, m) /\ Uid(m, u)
  BY DEF HasUid, Has
<1> QED BY <1>1, <1>2

LEMMA KillSaid ==
  ASSUME NEW x, NEW u PROVE HasKill(x, u) <=> \E m : Has(x, m) /\ IsKill(m, u)
  BY DEF HasKill, Has

LEMMA KillCat ==
  ASSUME NEW x \in Seq(Message), NEW y \in Seq(Message), NEW u
  PROVE  HasKill(x \o y, u) <=> HasKill(x, u) \/ HasKill(y, u)
<1>1. ASSUME NEW m PROVE Has(x \o y, m) <=> Has(x, m) \/ Has(y, m)
  BY HasCat
<1> QED BY <1>1, KillSaid

\* What server s appends to k.
Out(k, s, one, back, fwd) == IF k[1] # s \/ ~Open(k) THEN << >>
                             ELSE IF k[2] = one THEN back ELSE fwd

Appended(queues, s, one, back, fwd) ==
  \A k \in Links : /\ queues[k] \in Seq(Message)
                   /\ Out(k, s, one, back, fwd) \in Seq(Message)
                   /\ q'[k] = queues[k] \o Out(k, s, one, back, fwd)
                   /\ (k[1] # s => q'[k] = queues[k])

LEMMA SentOut ==
  ASSUME NEW queues \in [Links -> Seq(Message)], NEW s, NEW one,
         NEW back \in Seq(Message), NEW fwd \in Seq(Message),
         q' = Sent(queues, s, one, back, fwd)
  PROVE  Appended(queues, s, one, back, fwd)
<1> SUFFICES ASSUME NEW k \in Links
             PROVE  /\ queues[k] \in Seq(Message)
                    /\ Out(k, s, one, back, fwd) \in Seq(Message)
                    /\ q'[k] = queues[k] \o Out(k, s, one, back, fwd)
                    /\ (k[1] # s => q'[k] = queues[k])
  BY DEF Appended
<1>1. queues[k] \in Seq(Message)
  OBVIOUS
<1>2. q'[k] = IF k[1] # s \/ ~Open(k) THEN queues[k]
              ELSE queues[k] \o (IF k[2] = one THEN back ELSE fwd)
  BY DEF Sent
<1>3. queues[k] \o << >> = queues[k]
  BY <1>1
<1> QED BY <1>1, <1>2, <1>3 DEF Out

\* A user that is to be killed without a cross has not both a KILL and a UID.
LEMMA NotCrossed ==
  ASSUME NEW l \in Links, NEW u \in Users, (Crossing => crossed)', Doomed(u)', Clear(u)',
         HasKill(q[Rev(l)], u)'
  PROVE  ~HasUid(q[l], u)'
<1> SUFFICES ASSUME HasUid(q[l], u)' PROVE FALSE
  OBVIOUS
<1>1. Rev(l) \in Links /\ Rev(l)[1] = l[2] /\ Rev(l)[2] = l[1] /\ l = <<l[1], l[2]>>
  BY LinkEnds DEF Rev
<1>2. Crossing'
  <2>1. \E i \in DOMAIN q'[Rev(l)] : IsKill(q'[Rev(l)][i], u)
    BY DEF HasKill
  <2>2. \E i \in DOMAIN q'[l] : q'[l][i].type = "UID" /\ q'[l][i].user = u
    BY DEF HasUid, Uid
  <2>3. <<Rev(l)[2], Rev(l)[1]>> = l
    BY <1>1
  <2> QED BY <1>1, <2>1, <2>2, <2>3 DEF Crossing, Meeting
<1> QED BY <1>2 DEF Clear

LEMMA KillDooms ==
  ASSUME Honest, NEW l \in Links, NEW u, HasKill(q[l], u)
  PROVE  Doomed(u)
  BY DEF Honest, Good, HasKill, IsKill

\* Server s has taken queues from its links, and appended back and fwd; the other
\* servers have of u what they had.
Acts(u, s, queues, one, back, fwd) ==
  /\ conn' = conn
  /\ \A t \in Servers : t # s => Seen(t, u)' = Seen(t, u)
  /\ \A k \in Links : /\ k[2] # s => queues[k] = q[k]
                      /\ HasKill(queues[k], u) => HasKill(q[k], u)
  /\ q' = Sent(queues, s, one, back, fwd)
  /\ (Doomed(u) => Doomed(u)') /\ Clear(u) /\ Clear(u)' /\ (Crossing => crossed)'

\* What s appends tells its neighbours what becomes of u.
Tells(u, s, one, back, fwd) ==
  \A k \in Links : k[1] = s /\ Up(k, u) /\ Open(k) /\ ~HasKill(q[Rev(k)], u) =>
    Leads(Out(k, s, one, back, fwd), u, Doomed(u)', Seen(s, u), Seen(s, u)')

\* When s has read the KILL of u it does not know u, nor introduces u.
Heeds(u, s, queues, one, back, fwd) ==
  \A k \in Links : k[1] = s /\ Up(k, u) /\ Open(k) =>
    \/ ~HasKill(q[Rev(k)], u)
    \/ HasKill(queues[Rev(k)], u)
    \/ Seen(s, u)' = Absent /\ ~HasUid(Out(k, s, one, back, fwd), u)

\* What is left on a link goes on from what s has of u, or s has killed u and says so.
GoesOn(u, s, queues, one, back, fwd) ==
  \A k \in Links : k[2] = s /\ Up(k, u) =>
    \/ /\ Leads(queues[k], u, Doomed(u)', Seen(s, u)', Final(k, u))
       /\ ~HasKill(Out(Rev(k), s, one, back, fwd), u)
    \/ /\ Seen(s, u)' = Absent /\ Doomed(u)' /\ conn[Rev(k)] = "up"
       /\ (Open(Rev(k)) => HasKill(Out(Rev(k), s, one, back, fwd), u))
       /\ \E e : Leads(queues[k], u, Doomed(u)', e, Final(k, u))

\* Then what is on a link l still leads to what its near end has.
LEMMA TrackStep ==
  ASSUME IInv, Honest, Tracks, NEW u \in Users, NEW s \in Servers,
         NEW queues \in [Links -> Seq(Message)], NEW one,
         NEW back \in Seq(Message), NEW fwd \in Seq(Message),
         Acts(u, s, queues, one, back, fwd), Tells(u, s, one, back, fwd),
         Heeds(u, s, queues, one, back, fwd), GoesOn(u, s, queues, one, back, fwd),
         NEW l \in Links, Up(l, u)
  PROVE  Leads(q'[l], u, Doomed(u)', Seen(l[2], u)', Final(l, u)')
<1> DEFINE out(k) == Out(k, s, one, back, fwd)
<1>1. /\ l[1] \in Servers /\ l[2] \in Servers /\ l[1] # l[2]
      /\ Rev(l) \in Links /\ Rev(l)[1] = l[2] /\ Rev(l)[2] = l[1] /\ Rev(Rev(l)) = l
  BY LinkEnds, NickTree DEF Rev
<1>2. \A k \in Links : /\ out(k) \in Seq(Message) /\ queues[k] \in Seq(Message)
                       /\ q'[k] = queues[k] \o out(k)
                       /\ (k[1] # s => q'[k] = queues[k])
  <2>1. q' = Sent(queues, s, one, back, fwd)
    BY DEF Acts
  <2>2. Appended(queues, s, one, back, fwd)
    BY <2>1, SentOut
  <2> QED BY <2>2 DEF Appended
<1>3. \A k \in Links : Open(k)' <=> Open(k)
  BY DEF Acts, Open
<1>4. /\ q[l] \in Seq(Message) /\ Doomed(u) \in BOOLEAN /\ Doomed(u)' \in BOOLEAN
      /\ Doomed(u) => Doomed(u)' = TRUE
  BY DEF IInv, Queues, Doomed, Acts
<1>5. Leads(q[l], u, Doomed(u), Seen(l[2], u), Final(l, u))
  BY DEF Acts, Tracks
<1>6. Leads(q[l], u, Doomed(u)', Seen(l[2], u), Final(l, u))
  BY <1>4, <1>5, LeadsMono DEF Acts
<1>7. Final(l, u) = IF Open(l) /\ ~HasKill(q[Rev(l)], u) THEN Seen(l[1], u) ELSE Absent
  BY DEF Final
<1>8. Final(l, u)' = IF Open(l) /\ ~HasKill(q'[Rev(l)], u) THEN Seen(l[1], u)' ELSE Absent
  BY <1>3 DEF Final, HasKill
<1>9. HasKill(q'[Rev(l)], u) /\ Doomed(u)' => ~HasUid(q'[l], u)
  BY NotCrossed DEF Acts, Has, HasUid, Uid
<1> HIDE DEF out
<1>10. CASE l[1] = s
  <2>1. queues[l] = q[l] /\ Seen(l[2], u)' = Seen(l[2], u)
    BY <1>1, <1>10 DEF Acts
  <2>2. q'[Rev(l)] = queues[Rev(l)]
    BY <1>1, <1>2, <1>10
  <2>3. CASE ~Open(l)
    <3>1. q'[l] = q[l]
      <4>1. out(l) = << >>
        BY <2>3 DEF out, Out
      <4>2. q'[l] = q[l] \o << >>
        BY <1>2, <2>1, <4>1
      <4> QED BY <1>4, <4>2
    <3> QED BY <1>6, <1>7, <1>8, <2>1, <2>3, <3>1
  <2>4. CASE Open(l) /\ ~HasKill(q[Rev(l)], u)
    <3>1. ~HasKill(q'[Rev(l)], u)
      BY <1>1, <2>2, <2>4 DEF Acts
    <3>2. Leads(out(l), u, Doomed(u)', Seen(s, u), Seen(s, u)')
      BY <1>10, <2>4 DEF out, Tells
    <3>3. Leads(q[l] \o out(l), u, Doomed(u)', Seen(l[2], u), Seen(s, u)')
      BY <1>2, <1>4, <1>6, <1>7, <1>10, <2>4, <3>2, LeadsCat
    <3> QED BY <1>2, <1>8, <1>10, <2>1, <2>4, <3>1, <3>3
  <2>5. CASE Open(l) /\ HasKill(q[Rev(l)], u)
    <3>1. Doomed(u)
      BY <1>1, <2>5, KillDooms
    <3>0. Doomed(u)' = TRUE
      BY <1>4, <3>1
    <3>2. Final(l, u) = Absent
      BY <1>7, <2>5
    <3>3. ~HasUid(out(l), u) /\ Final(l, u)' = Absent
      <4>1. CASE HasKill(queues[Rev(l)], u)
        <5>1. ~HasUid(q'[l], u)
          BY <1>9, <2>2, <3>0, <4>1
        <5>2. HasUid(queues[l] \o out(l), u) <=> HasUid(queues[l], u) \/ HasUid(out(l), u)
          BY <1>2, UidCat
        <5>3. HasKill(q'[Rev(l)], u)
          BY <2>2, <4>1
        <5> QED BY <1>2, <1>8, <5>1, <5>2, <5>3
      <4>2. CASE ~HasKill(queues[Rev(l)], u)
        <5>1. Seen(s, u)' = Absent /\ ~HasUid(Out(l, s, one, back, fwd), u)
          BY <1>10, <2>5, <4>2 DEF Heeds
        <5> QED BY <1>8, <1>10, <5>1 DEF out
      <4> QED BY <4>1, <4>2
    <3>4. Leads(out(l), u, TRUE, Absent, Absent)
      BY <1>2, <3>3, LeadsDead DEF HasUid
    <3>5. Leads(q[l], u, TRUE, Seen(l[2], u), Absent)
      BY <1>6, <3>0, <3>2
    <3>6. Leads(q[l] \o out(l), u, TRUE, Seen(l[2], u), Absent)
      BY <1>2, <1>4, <3>4, <3>5, LeadsCat
    <3> QED BY <1>2, <2>1, <3>0, <3>3, <3>6
  <2> QED BY <2>3, <2>4, <2>5
<1>11. CASE l[2] = s
  <2>1. q'[l] = queues[l] /\ Seen(l[1], u)' = Seen(l[1], u) /\ queues[Rev(l)] = q[Rev(l)]
    BY <1>1, <1>2, <1>11 DEF Acts
  <2>2. q'[Rev(l)] = q[Rev(l)] \o out(Rev(l)) /\ q[Rev(l)] \in Seq(Message)
    BY <1>1, <1>2, <2>1
  <2>3. HasKill(q'[Rev(l)], u) <=> HasKill(q[Rev(l)], u) \/ HasKill(out(Rev(l)), u)
    BY <1>1, <1>2, <2>2, KillCat
  <2>4. CASE /\ Leads(queues[l], u, Doomed(u)', Seen(s, u)', Final(l, u))
             /\ ~HasKill(out(Rev(l)), u)
    <3>1. Final(l, u)' = Final(l, u)
      BY <1>7, <1>8, <2>1, <2>3, <2>4
    <3> QED BY <1>11, <2>1, <2>4, <3>1
  <2>5. CASE /\ Seen(s, u)' = Absent /\ Doomed(u)' /\ conn[Rev(l)] = "up"
             /\ (Open(Rev(l)) => HasKill(out(Rev(l)), u))
             /\ \E e : Leads(queues[l], u, Doomed(u)', e, Final(l, u))
    <3>1. CASE Open(Rev(l))
      <4>1. HasKill(q'[Rev(l)], u)
        BY <2>3, <2>5, <3>1
      <4>2. ~HasUid(queues[l], u) /\ Final(l, u)' = Absent
        BY <1>8, <1>9, <2>1, <2>5, <4>1
      <4>3. Leads(queues[l], u, TRUE, Absent, Absent)
        BY <1>2, <4>2, LeadsDead DEF HasUid
      <4> QED BY <1>4, <1>11, <2>1, <2>5, <4>2, <4>3
    <3>2. CASE ~Open(Rev(l))
      <4>1. ~Open(l)
        BY <1>1, <2>5, <3>2 DEF Open, Rev
      <4>2. Final(l, u) = Absent /\ Final(l, u)' = Absent
        BY <1>7, <1>8, <4>1
      <4>3. Leads(queues[l], u, TRUE, Absent, Absent)
        BY <1>2, <2>5, <4>2, LeadsCut
      <4> QED BY <1>4, <1>11, <2>1, <2>5, <4>2, <4>3
    <3> QED BY <3>1, <3>2
  <2> QED BY <1>11, <2>4, <2>5 DEF out, GoesOn
<1>12. CASE l[1] # s /\ l[2] # s
  <2>1. q'[l] = q[l] /\ q'[Rev(l)] = q[Rev(l)]
    <3>1. queues[l] = q[l] /\ queues[Rev(l)] = q[Rev(l)]
      BY <1>1, <1>12 DEF Acts
    <3> QED BY <1>1, <1>2, <1>12, <3>1
  <2>2. Seen(l[1], u)' = Seen(l[1], u) /\ Seen(l[2], u)' = Seen(l[2], u)
    BY <1>1, <1>12 DEF Acts
  <2>3. Final(l, u)' = Final(l, u)
    BY <1>7, <1>8, <2>1, <2>2
  <2> QED BY <1>6, <2>1, <2>2, <2>3
<1> QED BY <1>10, <1>11, <1>12

LEMMA HasTail ==
  ASSUME NEW x \in Seq(Message), x # << >>, NEW m
  PROVE  /\ Has(x, m) <=> Head(x) = m \/ Has(Tail(x), m)
         /\ Tail(x) \in Seq(Message) /\ Head(x) \in Message
         /\ \A i \in DOMAIN Tail(x) : i + 1 \in DOMAIN x /\ Tail(x)[i] = x[i + 1]
<1> DEFINE y == Tail(x)
<1>1. /\ Len(x) \in Nat /\ Len(x) >= 1 /\ Head(x) = x[1] /\ DOMAIN x = 1..Len(x)
      /\ DOMAIN y = 1..(Len(x) - 1) /\ y \in Seq(Message) /\ Head(x) \in Message
      /\ \A i \in 1..(Len(x) - 1) : y[i] = x[i + 1]
  OBVIOUS
<1> HIDE DEF y
<1>2. \A i \in DOMAIN y : i + 1 \in DOMAIN x /\ y[i] = x[i + 1]
  BY <1>1
<1>3. ASSUME NEW i \in DOMAIN x, i # 1 PROVE \E k \in DOMAIN y : y[k] = x[i]
  <2>1. PICK n \in 1..(Len(x) - 1) : n + 1 = i
    <3>1. i - 1 \in 1..(Len(x) - 1) /\ (i - 1) + 1 = i
      BY <1>1, <1>3
    <3> QED BY <3>1
  <2> QED BY <1>1, <2>1
<1>4. 1 \in DOMAIN x
  BY <1>1
<1>5. Has(x, m) => Head(x) = m \/ Has(y, m)
  BY <1>1, <1>3 DEF Has
<1>6. Head(x) = m \/ Has(y, m) => Has(x, m)
  BY <1>1, <1>2, <1>4 DEF Has
<1> QED BY <1>1, <1>2, <1>5, <1>6 DEF y

LEMMA KillTail ==
  ASSUME NEW x \in Seq(Message), x # << >>, NEW u
  PROVE  HasKill(x, u) <=> IsKill(Head(x), u) \/ HasKill(Tail(x), u)
<1>1. ASSUME NEW m PROVE Has(x, m) <=> Head(x) = m \/ Has(Tail(x), m)
  BY HasTail
<1> QED BY <1>1, KillSaid

\* What is left on the links into s: all there was, or all but the first message of one.
Taking(s, queues) ==
  \A k \in Links : \/ queues[k] = q[k]
                   \/ k[2] = s /\ q[k] # << >> /\ queues[k] = Tail(q[k])

\* Server s does something, the network stays as it is.
ServerActs(s, queues, one, back, fwd) ==
  /\ conn' = conn /\ Taking(s, queues) /\ q' = Sent(queues, s, one, back, fwd)
  /\ \A k \in Links : Has(q[k], Closing) => Has(queues[k], Closing)
  /\ claims \subseteq claims' /\ opered \subseteq opered'
  /\ \A t \in Servers : t # s => \A u \in Users : Seen(t, u)' = Seen(t, u)

\* What s appends is true, as is what it has of the users.
Truthful(s, one, back, fwd) ==
  /\ ~Has(back, Closing) /\ ~Has(fwd, Closing)
  /\ \A k \in Links : k[1] = s =>
       /\ k[2] = one => \A i \in DOMAIN back : Good(k, back[i])'
       /\ k[2] # one => \A i \in DOMAIN fwd : Good(k, fwd[i])'
  /\ \A u \in killed' : Doomed(u)'
  /\ \A u \in Users : Seen(s, u)' # Absent => ClaimOf(u, Seen(s, u)') \in claims'
  /\ \A k \in Links, u \in Users :
       k[1] = s /\ conn[k] # "up" /\ Via[s][Home[u]] = k[2] => Seen(s, u)' = Absent

\* The other servers hear of it.
Heard(s, queues, one, back, fwd) ==
  \A u \in Users : Clear(u)' => /\ Tells(u, s, one, back, fwd)
                                /\ Heeds(u, s, queues, one, back, fwd)
                                /\ GoesOn(u, s, queues, one, back, fwd)

\* An oper's KILLs and the claims are not forgotten.
LEMMA DoomedStays ==
  ASSUME claims \subseteq claims', opered \subseteq opered', NEW u
  PROVE  Doomed(u) => Doomed(u)'
  BY DEF Doomed

LEMMA ClearBefore ==
  ASSUME claims \subseteq claims', opered \subseteq opered', crossed => crossed', NEW u, Clear(u)'
  PROVE  Clear(u)
  BY DoomedStays DEF Clear

LEMMA GoodStays ==
  ASSUME claims \subseteq claims', opered \subseteq opered', NEW k, NEW m, Good(k, m)
  PROVE  Good(k, m)'
<1>1. Doomed(m.user) => Doomed(m.user)'
  BY DoomedStays
<1> QED BY <1>1 DEF Good, ClaimOf, Up

LEMMA ServerStep ==
  ASSUME IInv, Knowledge, crossed => crossed', (Crossing => crossed)',
         NEW s \in Servers, NEW queues \in [Links -> Seq(Message)], NEW one,
         NEW back \in Seq(Message), NEW fwd \in Seq(Message),
         ServerActs(s, queues, one, back, fwd), Truthful(s, one, back, fwd),
         Heard(s, queues, one, back, fwd)
  PROVE  Knowledge'
<1>1. Appended(queues, s, one, back, fwd)
  BY SentOut DEF ServerActs
<1>2. claims \subseteq claims' /\ opered \subseteq opered' /\ conn' = conn
  BY DEF ServerActs
<1>3. \A k \in Links : q[k] \in Seq(Message)
  BY DEF IInv, Queues
<1>4. ASSUME NEW k \in Links, NEW i \in DOMAIN queues[k]
      PROVE  \E j \in DOMAIN q[k] : queues[k][i] = q[k][j]
  <2>1. CASE queues[k] = q[k]
    BY <1>4, <2>1
  <2>2. CASE q[k] # << >> /\ queues[k] = Tail(q[k])
    BY <1>3, <1>4, <2>2, HasTail
  <2> QED BY <2>1, <2>2 DEF ServerActs, Taking
<1>5. Blamed'
  BY DEF Truthful, Blamed
<1>6. Honest'
  <2> SUFFICES ASSUME NEW k \in Links, NEW i \in DOMAIN q'[k] PROVE Good(k, q[k][i])'
    BY DEF Honest
  <2> DEFINE out == Out(k, s, one, back, fwd)
  <2>1. /\ queues[k] \in Seq(Message) /\ out \in Seq(Message) /\ q'[k] = queues[k] \o out
    BY <1>1 DEF Appended
  <2>2. ASSUME NEW m, Has(queues[k], m) PROVE Good(k, m)'
    <3>1. PICK j \in DOMAIN q[k] : m = q[k][j]
      BY <1>4, <2>2 DEF Has
    <3>2. Good(k, m)
      BY <3>1 DEF Knowledge, Honest
    <3> QED BY <1>2, <3>2, GoodStays
  <2>3. ASSUME NEW m, Has(out, m) PROVE Good(k, m)'
    <3>1. CASE k[1] # s \/ ~Open(k)
      BY <2>3, <3>1 DEF Out, Has
    <3>2. CASE k[1] = s /\ k[2] = one /\ Open(k)
      BY <2>3, <3>2 DEF Out, Has, Truthful
    <3>3. CASE k[1] = s /\ k[2] # one /\ Open(k)
      BY <2>3, <3>3 DEF Out, Has, Truthful
    <3> QED BY <3>1, <3>2, <3>3
  <2>4. PICK m : m = q'[k][i]
    OBVIOUS
  <2>5. Has(q'[k], m)
    BY <2>4 DEF Has
  <2> HIDE DEF out
  <2>6. Has(queues[k], m) \/ Has(out, m)
    BY <2>1, <2>5, HasCat
  <2>7. Good(k, m)'
    BY <2>2, <2>3, <2>6
  <2> QED BY <2>4, <2>7 DEF Good, ClaimOf, Up, Doomed
<1>7. Stated'
  <2> SUFFICES ASSUME NEW t \in Servers, NEW u \in Users, Seen(t, u)' # Absent
               PROVE  ClaimOf(u, Seen(t, u)') \in claims'
    BY DEF Stated, ClaimOf
  <2>1. CASE t = s
    BY <2>1 DEF Truthful
  <2>2. CASE t # s
    <3>1. Seen(t, u)' = Seen(t, u)
      BY <2>2 DEF ServerActs
    <3>2. ClaimOf(u, Seen(t, u)) \in claims
      BY <3>1 DEF Knowledge, Stated
    <3> QED BY <1>2, <3>1, <3>2
  <2> QED BY <2>1, <2>2
<1>8. Apart'
  <2> SUFFICES ASSUME NEW k \in Links, NEW u \in Users, conn[k] # "up", Via[k[1]][Home[u]] = k[2]
               PROVE  Seen(k[1], u)' = Absent
    BY <1>2 DEF Apart
  <2>1. k[1] \in Servers
    BY LinkEnds
  <2>2. CASE k[1] = s
    BY <2>2 DEF Truthful
  <2>3. CASE k[1] # s
    BY <2>1, <2>3 DEF ServerActs, Knowledge, Apart
  <2> QED BY <2>2, <2>3
<1>9. Ends'
  <2> SUFFICES ASSUME NEW k \in Links
               PROVE  /\ Has(q'[k], Closing) => conn[k] = "down"
                      /\ conn[Rev(k)] # "down" /\ conn[k] = "down" => Has(q'[k], Closing)
    BY <1>2 DEF Ends, Has, Rev, Closing
  <2> DEFINE out == Out(k, s, one, back, fwd)
  <2>1. /\ queues[k] \in Seq(Message) /\ out \in Seq(Message) /\ q'[k] = queues[k] \o out
    BY <1>1 DEF Appended
  <2>2. ~Has(out, Closing)
    BY DEF Out, Truthful, Has
  <2> HIDE DEF out
  <2>3. Has(q'[k], Closing) <=> Has(queues[k], Closing)
    BY <2>1, <2>2, HasCat
  <2>4. Has(queues[k], Closing) <=> Has(q[k], Closing)
    <3>1. Has(queues[k], Closing) => Has(q[k], Closing)
      BY <1>4 DEF Has
    <3> QED BY <3>1 DEF ServerActs
  <2> QED BY <2>3, <2>4 DEF Knowledge, Ends
<1>10. Tracks'
  <2> SUFFICES ASSUME NEW u \in Users, Clear(u)', NEW l \in Links, Up(l, u)
               PROVE  Leads(q'[l], u, Doomed(u)', Seen(l[2], u)', Final(l, u)')
    <3>1. Tracks' <=> \A u \in Users : Clear(u)' => \A l \in Links : Up(l, u) =>
                        Leads(q'[l], u, Doomed(u)', Seen(l[2], u)', Final(l, u)')
      BY DEF Tracks, Up, Leads, Follows, After, Allowed, About, Uid, Says, Views
    <3> QED BY <3>1
  <2>1. \A k \in Links : HasKill(queues[k], u) => HasKill(q[k], u)
    BY <1>4 DEF HasKill
  <2>2. \A k \in Links : k[2] # s => queues[k] = q[k]
    BY DEF ServerActs, Taking
  <2>3. Clear(u) /\ (Doomed(u) => Doomed(u)')
    BY <1>2, DoomedStays, ClearBefore
  <2>4. Acts(u, s, queues, one, back, fwd)
    BY <2>1, <2>2, <2>3 DEF Acts, ServerActs
  <2>5. Tells(u, s, one, back, fwd) /\ Heeds(u, s, queues, one, back, fwd)
        /\ GoesOn(u, s, queues, one, back, fwd)
    BY DEF Heard
  <2> QED BY <2>4, <2>5, TrackStep DEF Knowledge
<1> QED BY <1>5, <1>6, <1>7, <1>8, <1>9, <1>10 DEF Knowledge

-----------------------------------------------------------------------------
(* What becomes of the view of one server *)

LEMMA KnownSeen ==
  ASSUME IInv, NEW s \in Servers, NEW u \in Users
  PROVE  /\ Seen(s, u) \in Views
         /\ Known(s, u) => Seen(s, u) = client[s][u] /\ client[s][u] \in Entry
                           /\ Seen(s, u) # Absent
         /\ ~Known(s, u) => Seen(s, u) = Absent
<1>1. client \in Hash
  BY IInvParts
<1>2. Known(s, u) => client[s][u] \in Entry /\ client[s][u] # Absent
  BY <1>1, HeldEntry, EntryOK DEF Known
<1> QED BY <1>2 DEF Seen, Views

\* Of every user server s now has new(u), and the others what they had.
LEMMA SeenRehashed ==
  ASSUME IInv, NEW s \in Servers, NEW dead, NEW u \in Users, NEW e \in Entry,
         client' = Rehashed(s, dead, u, e), phase' = Exited(s, dead),
         Home[u] = s => phase[u] = "reg",
         NEW t \in Servers, NEW v \in Users
  PROVE  Seen(t, v)' = IF t # s THEN Seen(t, v) ELSE IF v \in dead THEN Absent
                       ELSE IF v = u THEN e ELSE Seen(s, v)
<1> DEFINE row == [w \in Users |-> IF w \in dead THEN Absent
                                   ELSE IF w = u THEN e ELSE client[s][w]]
<1>1. client \in Hash /\ e # Absent
  BY IInvParts, EntryOK
<1>2. client' = [client EXCEPT ![s] = row]
  BY DEF Rehashed
<1>3. client'[t] = IF t = s THEN row ELSE client[t]
  BY <1>1, <1>2 DEF Hash
<1>4. row[v] = IF v \in dead THEN Absent ELSE IF v = u THEN e ELSE client[s][v]
  OBVIOUS
<1>5. phase'[v] = IF v \in dead /\ Home[v] = s THEN "gone" ELSE phase[v]
  BY DEF Exited
<1> HIDE DEF row
<1> QED BY <1>1, <1>3, <1>4, <1>5 DEF Seen, Known, Holds

LEMMA SeenRemoved ==
  ASSUME IInv, NEW s \in Servers, NEW dead, client' = Removed(s, dead),
         phase' = Exited(s, dead) \/ phase' = phase,
         NEW t \in Servers, NEW v \in Users
  PROVE  Seen(t, v)' = IF t = s /\ v \in dead THEN Absent ELSE Seen(t, v)
<1> DEFINE row == [w \in Users |-> IF w \in dead THEN Absent ELSE client[s][w]]
<1>1. client \in Hash
  BY IInvParts
<1>2. client' = [client EXCEPT ![s] = row]
  BY DEF Removed
<1>3. client'[t] = IF t = s THEN row ELSE client[t]
  BY <1>1, <1>2 DEF Hash
<1>4. row[v] = IF v \in dead THEN Absent ELSE client[s][v]
  OBVIOUS
<1>5. phase'[v] = IF v \in dead /\ Home[v] = s THEN phase'[v] ELSE phase[v]
  BY DEF Exited
<1> HIDE DEF row
<1> QED BY <1>1, <1>3, <1>4, <1>5 DEF Seen, Known, Holds

-----------------------------------------------------------------------------
(* Users nothing is said of, and users that are killed *)

Silent(x, u) == \A i \in DOMAIN x : ~About(x[i], u) /\ ~Says(x[i], u)
Spoken(x, u) == \A i \in DOMAIN x : About(x[i], u) => IsKill(x[i], u)

\* What is taken from a link into s is not about u.
Passing(u, s, queues) ==
  \A k \in Links : \/ queues[k] = q[k]
                   \/ /\ k[2] = s /\ q[k] # << >> /\ queues[k] = Tail(q[k])
                      /\ ~About(Head(q[k]), u)

LEMMA KillAbout ==
  ASSUME NEW m, NEW u, IsKill(m, u) PROVE About(m, u) /\ ~Uid(m, u)
  BY DEF About, IsKill, Uid

LEMMA KillNames ==
  ASSUME NEW u \in Users
  PROVE  /\ IsKill(Kill(u), u) /\ \A v \in Users : ~Says(Kill(u), v)
         /\ \A v : About(Kill(u), v) <=> v = u
  BY NickTree DEF About, IsKill, Kill, Says

LEMMA SilentHas == ASSUME NEW x, NEW u, Silent(x, u) PROVE ~HasKill(x, u) /\ ~HasUid(x, u)
  BY KillAbout DEF Silent, HasKill, HasUid, Uid, About

\* A user u without a part in it, that is tracked.
Aside(u, s, queues, back, fwd) ==
  /\ Seen(s, u)' = Seen(s, u) /\ Silent(back, u) /\ Silent(fwd, u) /\ Passing(u, s, queues)

Tracked(u) == \A l \in Links : Up(l, u) => Leads(q[l], u, Doomed(u), Seen(l[2], u), Final(l, u))

LEMMA TrackedNow ==
  ASSUME Knowledge, claims \subseteq claims', opered \subseteq opered', crossed => crossed',
         NEW u \in Users, Clear(u)'
  PROVE  Tracked(u)
<1>1. Clear(u)
  BY ClearBefore
<1> QED BY <1>1 DEF Knowledge, Tracks, Tracked

LEMMA AsideHeard ==
  ASSUME IInv, NEW u \in Users, Tracked(u), Doomed(u) => Doomed(u)',
         NEW s \in Servers, NEW queues \in [Links -> Seq(Message)], NEW one,
         NEW back \in Seq(Message), NEW fwd \in Seq(Message),
         Aside(u, s, queues, back, fwd)
  PROVE  /\ Tells(u, s, one, back, fwd)
         /\ Heeds(u, s, queues, one, back, fwd)
         /\ GoesOn(u, s, queues, one, back, fwd)
<1> DEFINE out(k) == Out(k, s, one, back, fwd)
<1>1. \A k \in Links : out(k) \in Seq(Message) /\ Silent(out(k), u)
  BY DEF Out, Aside, Silent
<1>2. \A k \in Links : q[k] \in Seq(Message) /\ Rev(k) \in Links
  BY LinkEnds DEF IInv, Queues, Rev
<1>3. Doomed(u) \in BOOLEAN /\ Doomed(u)' \in BOOLEAN
  BY DEF Doomed
<1>4. Seen(s, u) \in Views
  BY KnownSeen
<1> HIDE DEF out
<1>5. Tells(u, s, one, back, fwd)
  <2> SUFFICES ASSUME NEW k \in Links
               PROVE  Leads(out(k), u, Doomed(u)', Seen(s, u), Seen(s, u)')
    BY DEF Tells, out
  <2>1. Leads(out(k), u, Doomed(u)', Seen(s, u), Seen(s, u))
    BY <1>1, <1>4, LeadsStill DEF Silent
  <2> QED BY <2>1 DEF Aside
<1>6. Heeds(u, s, queues, one, back, fwd)
  <2> SUFFICES ASSUME NEW k \in Links, HasKill(q[k], u) PROVE HasKill(queues[k], u)
    BY <1>2 DEF Heeds
  <2>1. CASE queues[k] = q[k]
    BY <2>1
  <2>2. CASE q[k] # << >> /\ queues[k] = Tail(q[k]) /\ ~About(Head(q[k]), u)
    BY <1>2, <2>2, KillTail, KillAbout
  <2> QED BY <2>1, <2>2 DEF Aside, Passing
<1>7. GoesOn(u, s, queues, one, back, fwd)
  <2> SUFFICES ASSUME NEW k \in Links, k[2] = s, Up(k, u)
               PROVE  /\ Leads(queues[k], u, Doomed(u)', Seen(s, u)', Final(k, u))
                      /\ ~HasKill(out(Rev(k)), u)
    BY DEF GoesOn, out
  <2>1. Leads(q[k], u, Doomed(u), Seen(s, u), Final(k, u))
    BY DEF Tracked
  <2>2. Leads(q[k], u, Doomed(u)', Seen(s, u), Final(k, u))
    BY <1>2, <1>3, <2>1, LeadsMono
  <2>3. CASE queues[k] = q[k]
    BY <1>1, <1>2, <2>2, <2>3, SilentHas DEF Aside
  <2>4. CASE q[k] # << >> /\ queues[k] = Tail(q[k]) /\ ~About(Head(q[k]), u)
    <3>1. Leads(Tail(q[k]), u, Doomed(u)', After(Head(q[k]), u, Seen(s, u)), Final(k, u))
      BY <1>2, <2>2, <2>4, LeadsTail
    <3>2. After(Head(q[k]), u, Seen(s, u)) = Seen(s, u)
      BY <2>4 DEF After
    <3> QED BY <1>1, <1>2, <2>4, <3>1, <3>2, SilentHas DEF Aside
  <2> QED BY <2>3, <2>4 DEF Aside, Passing
<1> QED BY <1>5, <1>6, <1>7

\* Only KILLs take u out.
LEMMA LeadsKill ==
  ASSUME NEW x \in Seq(Message), NEW u, NEW e \in Views, Spoken(x, u),
         HasKill(x, u) \/ e = Absent
  PROVE  Leads(x, u, TRUE, e, Absent)
<1> DEFINE f == [i \in 0..Len(x) |-> IF \E k \in 1..i : IsKill(x[k], u) THEN Absent ELSE e]
<1>1. f \in [0..Len(x) -> Views] /\ f[0] = e
  BY DEF Views
<1>2. f[Len(x)] = Absent
  BY DEF HasKill
<1>3. Follows(x, u, TRUE, f)
  <2> SUFFICES ASSUME NEW i \in 1..Len(x)
               PROVE  f[i] = After(x[i], u, f[i-1]) /\ Allowed(x[i], u, TRUE, f[i-1])
    BY DEF Follows
  <2>0. i - 1 \in 0..Len(x) /\ i \in 0..Len(x) /\ (About(x[i], u) => IsKill(x[i], u))
    BY DEF Spoken
  <2>1. CASE IsKill(x[i], u)
    <3>1. \E k \in 1..i : IsKill(x[k], u)
      BY <2>1
    <3>2. f[i] = Absent
      BY <2>0, <3>1
    <3> HIDE DEF f
    <3> QED BY <2>1, <3>2 DEF After, Allowed, Uid, About, IsKill
  <2>2. CASE ~IsKill(x[i], u)
    <3>1. (\E k \in 1..i : IsKill(x[k], u)) <=> \E k \in 1..(i-1) : IsKill(x[k], u)
      BY <2>2
    <3>2. f[i] = f[i-1]
      BY <2>0, <3>1
    <3> HIDE DEF f
    <3> QED BY <2>0, <2>2, <3>2 DEF After, Allowed, Uid, About
  <2> QED BY <2>1, <2>2
<1> QED BY <1>1, <1>2, <1>3 DEF Leads

\* Server s has killed u, and says so to all that may know u and introduce u.
Slain(u, s, queues, one, back, fwd) ==
  /\ Seen(s, u)' = Absent /\ Doomed(u)' /\ Taking(s, queues)
  /\ Spoken(back, u) /\ Spoken(fwd, u)
  /\ \A k \in Links : k[1] = s /\ Open(k) =>
       \/ HasKill(Out(k, s, one, back, fwd), u)
       \/ Up(k, u) /\ ~Up(Rev(k), u) /\ Seen(s, u) = Absent
  /\ \A k \in Links : k[2] = s /\ queues[k] # q[k] => conn[Rev(k)] = "up"

LEMMA SlainHeard ==
  ASSUME IInv, Apart, NEW u \in Users, Tracked(u),
         NEW s \in Servers, NEW queues \in [Links -> Seq(Message)], NEW one,
         NEW back \in Seq(Message), NEW fwd \in Seq(Message),
         Slain(u, s, queues, one, back, fwd)
  PROVE  /\ Tells(u, s, one, back, fwd)
         /\ Heeds(u, s, queues, one, back, fwd)
         /\ GoesOn(u, s, queues, one, back, fwd)
<1> DEFINE out(k) == Out(k, s, one, back, fwd)
<1>1. \A k \in Links : out(k) \in Seq(Message) /\ Spoken(out(k), u)
  BY DEF Out, Slain, Spoken
<1>2. \A k \in Links : /\ q[k] \in Seq(Message) /\ Rev(k) \in Links /\ Rev(Rev(k)) = k
                       /\ Rev(k)[1] = k[2] /\ Rev(k)[2] = k[1]
  BY LinkEnds DEF IInv, Queues, Rev
<1>3. Doomed(u) \in BOOLEAN /\ Doomed(u)' = TRUE /\ Seen(s, u)' = Absent
  BY DEF Doomed, Slain
<1>4. Seen(s, u) \in Views
  BY KnownSeen
<1>5. \A k \in Links : k[1] = s /\ Open(k) =>
         HasKill(out(k), u) \/ (Up(k, u) /\ ~Up(Rev(k), u) /\ Seen(s, u) = Absent)
  BY DEF Slain
<1>6. \A k \in Links : k[1] = s => ~HasUid(out(k), u)
  BY <1>1, KillAbout DEF Spoken, HasUid, Uid, About
<1>7. \A k \in Links : ~Open(k) => out(k) = << >>
  BY DEF Out
<1> HIDE DEF out
<1>8. Tells(u, s, one, back, fwd)
  <2> SUFFICES ASSUME NEW k \in Links, k[1] = s, Open(k)
               PROVE  Leads(out(k), u, TRUE, Seen(s, u), Absent)
    BY <1>3 DEF Tells, out
  <2> QED BY <1>1, <1>4, <1>5, LeadsKill
<1>9. Heeds(u, s, queues, one, back, fwd)
  BY <1>3, <1>6 DEF Heeds, out
<1>10. GoesOn(u, s, queues, one, back, fwd)
  <2> SUFFICES ASSUME NEW k \in Links, k[2] = s, Up(k, u)
               PROVE  \/ /\ Leads(queues[k], u, TRUE, Absent, Final(k, u))
                         /\ ~HasKill(out(Rev(k)), u)
                      \/ /\ conn[Rev(k)] = "up"
                         /\ (Open(Rev(k)) => HasKill(out(Rev(k)), u))
                         /\ \E e : Leads(queues[k], u, TRUE, e, Final(k, u))
    BY <1>3 DEF GoesOn, out
  <2>1. Leads(q[k], u, Doomed(u), Seen(s, u), Final(k, u))
    BY DEF Tracked
  <2>2. Leads(q[k], u, TRUE, Seen(s, u), Final(k, u))
    BY <1>2, <1>3, <2>1, LeadsMono
  <2>3. CASE conn[Rev(k)] # "up"
    <3>1. Seen(s, u) = Absent
      BY <1>2, <2>3 DEF Apart, Up
    <3>2. queues[k] = q[k]
      BY <2>3 DEF Slain
    <3>3. ~Open(Rev(k))
      BY <2>3 DEF Open
    <3>4. ~HasKill(out(Rev(k)), u)
      BY <1>2, <1>7, <3>3 DEF HasKill
    <3> QED BY <2>2, <3>1, <3>2, <3>4
  <2>4. CASE conn[Rev(k)] = "up"
    <3>1. Open(Rev(k)) => HasKill(out(Rev(k)), u)
      BY <1>2, <1>5
    <3>2. \E e : Leads(queues[k], u, TRUE, e, Final(k, u))
      <4>1. CASE queues[k] = q[k]
        BY <2>2, <4>1
      <4>2. CASE q[k] # << >> /\ queues[k] = Tail(q[k])
        BY <1>2, <2>2, <4>2, LeadsTail
      <4> QED BY <4>1, <4>2 DEF Slain, Taking
    <3> QED BY <2>4, <3>1, <3>2
  <2> QED BY <2>3, <2>4
<1> QED BY <1>8, <1>9, <1>10

-----------------------------------------------------------------------------
(* What server l[2] makes of the first message on l *)

LEMMA UpOne ==
  ASSUME NEW l \in Links, NEW u \in Users
  PROVE  /\ Up(l, u) <=> ~Up(Rev(l), u)
         /\ \A k \in Links : k[2] = l[2] /\ Up(k, u) /\ Up(l, u) => k = l
<1>1. Home[u] \in Servers
  BY NickTree
<1>2. Up(l, u) <=> ~Up(Rev(l), u)
  BY <1>1, LinkEnds, NickTree DEF Up, Rev
<1>3. ASSUME NEW k \in Links, k[2] = l[2], Up(k, u), Up(l, u) PROVE k = l
  <2>1. k[1] = l[1]
    BY <1>3 DEF Up
  <2>2. k = <<k[1], k[2]>> /\ l = <<l[1], l[2]>>
    BY LinkEnds
  <2> QED BY <1>3, <2>1, <2>2
<1> QED BY <1>2, <1>3

LEMMA NotUpHome == ASSUME NEW l \in Links, NEW u \in Users, Home[u] = l[2] PROVE ~Up(l, u)
  BY NickTree DEF Up

LEMMA RevOK ==
  ASSUME NEW l \in Links
  PROVE  /\ Rev(l) \in Links /\ Rev(Rev(l)) = l /\ Rev(l)[1] = l[2] /\ Rev(l)[2] = l[1]
         /\ Rev(l) # l /\ l[1] \in Servers /\ l[2] \in Servers /\ l[1] # l[2]
  BY LinkEnds, NickTree DEF Rev

LEMMA PoppedTakes ==
  ASSUME IInv, NEW l \in Links, q[l] # << >>
  PROVE  /\ Popped(l) \in [Links -> Seq(Message)]
         /\ \A k \in Links : Popped(l)[k] = IF k = l THEN Tail(q[l]) ELSE q[k]
         /\ Taking(l[2], Popped(l))
         /\ q[l] \in Seq(Message) /\ Head(q[l]) \in Message
         /\ Has(q[l], Head(q[l]))
<1>1. Popped(l) \in [Links -> Seq(Message)] /\ Head(q[l]) \in Message
  BY PoppedOK
<1>2. q \in [Links -> Seq(Message)]
  BY DEF IInv, Queues
<1>3. \A k \in Links : Popped(l)[k] = IF k = l THEN Tail(q[l]) ELSE q[k]
  BY <1>2 DEF Popped
<1>4. Has(q[l], Head(q[l]))
  BY <1>2, HasTail
<1> QED BY <1>1, <1>2, <1>3, <1>4 DEF Taking

\* Of u it hands on what it made of it, away from where it came from.
LEMMA PassHeard ==
  ASSUME IInv, NEW u \in Users, Tracked(u), Doomed(u) => Doomed(u)',
         NEW l \in Links, Up(l, u), q[l] # << >>,
         NEW back \in Seq(Message), NEW fwd \in Seq(Message), Silent(back, u),
         Seen(l[2], u)' = After(Head(q[l]), u, Seen(l[2], u)),
         Leads(fwd, u, Doomed(u)', Seen(l[2], u), Seen(l[2], u)')
  PROVE  /\ Tells(u, l[2], l[1], back, fwd)
         /\ Heeds(u, l[2], Popped(l), l[1], back, fwd)
         /\ GoesOn(u, l[2], Popped(l), l[1], back, fwd)
<1> DEFINE s == l[2]
<1>1. /\ \A k \in Links : Popped(l)[k] = IF k = l THEN Tail(q[l]) ELSE q[k]
      /\ q[l] \in Seq(Message)
  BY PoppedTakes
<1>2. ASSUME NEW k \in Links, k[1] = s, Up(k, u)
      PROVE  k[2] # l[1] /\ Rev(k) \in Links /\ Rev(k) # l
  <2>1. k # Rev(l)
    BY <1>2, UpOne
  <2> QED BY <1>2, <2>1, RevOK, LinkEnds DEF Rev
<1>3. Tells(u, s, l[1], back, fwd)
  BY <1>2 DEF Tells, Out
<1>4. Heeds(u, s, Popped(l), l[1], back, fwd)
  BY <1>1, <1>2 DEF Heeds
<1>5. GoesOn(u, s, Popped(l), l[1], back, fwd)
  <2> SUFFICES ASSUME NEW k \in Links, k[2] = s, Up(k, u)
               PROVE  /\ Leads(Popped(l)[k], u, Doomed(u)', Seen(s, u)', Final(k, u))
                      /\ ~HasKill(Out(Rev(k), s, l[1], back, fwd), u)
    BY DEF GoesOn
  <2>1. k = l
    BY UpOne
  <2>2. Leads(q[l], u, Doomed(u), Seen(s, u), Final(l, u))
    BY DEF Tracked
  <2>3. Doomed(u) \in BOOLEAN /\ Doomed(u)' \in BOOLEAN
    BY DEF Doomed
  <2>4. Leads(q[l], u, Doomed(u)', Seen(s, u), Final(l, u))
    BY <1>1, <2>2, <2>3, LeadsMono
  <2>5. Leads(Tail(q[l]), u, Doomed(u)', Seen(s, u)', Final(l, u))
    BY <1>1, <2>4, LeadsTail
  <2>6. ~HasKill(Out(Rev(l), s, l[1], back, fwd), u)
    BY RevOK, SilentHas DEF Out, HasKill
  <2> QED BY <1>1, <2>1, <2>5, <2>6
<1> QED BY <1>3, <1>4, <1>5

\* The first message on l is one that may come, of a user that is tracked.
LEMMA HeadAllowed ==
  ASSUME IInv, NEW u \in Users, Tracked(u), Doomed(u) => Doomed(u)',
         NEW l \in Links, Up(l, u), q[l] # << >>
  PROVE  /\ Allowed(Head(q[l]), u, Doomed(u), Seen(l[2], u))
         /\ Leads(<<Head(q[l])>>, u, Doomed(u)', Seen(l[2], u),
                  After(Head(q[l]), u, Seen(l[2], u)))
<1>1. Leads(q[l], u, Doomed(u), Seen(l[2], u), Final(l, u))
  BY DEF Tracked
<1>2. /\ q[l] \in Seq(Message) /\ Head(q[l]) \in Message
      /\ Doomed(u) \in BOOLEAN /\ Doomed(u)' \in BOOLEAN
  BY PoppedTakes DEF Doomed
<1>3. Allowed(Head(q[l]), u, Doomed(u), Seen(l[2], u)) /\ Seen(l[2], u) \in Views
  BY <1>1, <1>2, LeadsTail, LeadsView
<1>4. Allowed(Head(q[l]), u, Doomed(u)', Seen(l[2], u))
  BY <1>3 DEF Allowed
<1> QED BY <1>2, <1>3, <1>4, LeadsOne

\* The server of u tells all.
LEMMA TellHeard ==
  ASSUME IInv, NEW u \in Users, NEW fwd \in Seq(Message),
         Leads(fwd, u, Doomed(u)', Seen(Home[u], u), Seen(Home[u], u)')
  PROVE  /\ Tells(u, Home[u], Home[u], << >>, fwd)
         /\ Heeds(u, Home[u], q, Home[u], << >>, fwd)
         /\ GoesOn(u, Home[u], q, Home[u], << >>, fwd)
<1> DEFINE s == Home[u]
<1>1. Tells(u, s, s, << >>, fwd)
  BY RevOK DEF Tells, Out
<1>2. Heeds(u, s, q, s, << >>, fwd)
  BY DEF Heeds
<1>3. GoesOn(u, s, q, s, << >>, fwd)
  BY NotUpHome DEF GoesOn
<1> QED BY <1>1, <1>2, <1>3

LEMMA ReplyActs ==
  ASSUME IInv, NEW l \in Links, q[l] # << >>, Head(q[l]).type # "CLOSE",
         NEW back, NEW fwd, Reply(l, back, fwd),
         UNCHANGED <<conn, claims, opered>>,
         \A t \in Servers : t # l[2] => \A u \in Users : Seen(t, u)' = Seen(t, u)
  PROVE  ServerActs(l[2], Popped(l), l[1], back, fwd)
<1>1. \A k \in Links : Popped(l)[k] = IF k = l THEN Tail(q[l]) ELSE q[k]
  BY PoppedTakes
<1>2. Has(q[l], Closing) => Has(Tail(q[l]), Closing)
  BY PoppedTakes, HasTail DEF Closing
<1>3. Taking(l[2], Popped(l))
  BY PoppedTakes
<1> QED BY <1>1, <1>2, <1>3 DEF ServerActs, Reply

-----------------------------------------------------------------------------
(* Steps of clients *)

LEMMA TruthfulFrom ==
  ASSUME Knowledge, NEW s \in Servers, NEW one, NEW back, NEW fwd,
         claims \subseteq claims', opered \subseteq opered', conn' = conn,
         ~Has(back, Closing), ~Has(fwd, Closing),
         \A k \in Links : k[1] = s /\ k[2] = one => \A i \in DOMAIN back : Good(k, back[i])',
         \A k \in Links : k[1] = s /\ k[2] # one => \A i \in DOMAIN fwd : Good(k, fwd[i])',
         \A u \in killed' : u \in killed \/ Doomed(u)',
         \A u \in Users :
           \/ Seen(s, u)' = Absent \/ Seen(s, u)' = Seen(s, u)
           \/ /\ ClaimOf(u, Seen(s, u)') \in claims'
              /\ \A k \in Links : k[1] = s /\ conn[k] # "up" => Via[s][Home[u]] # k[2]
  PROVE  Truthful(s, one, back, fwd)
<1>1. \A u \in killed' : Doomed(u)'
  BY DoomedStays DEF Knowledge, Blamed
<1>2. ASSUME NEW u \in Users, Seen(s, u)' # Absent PROVE ClaimOf(u, Seen(s, u)') \in claims'
  BY <1>2 DEF Knowledge, Stated
<1>3. ASSUME NEW k \in Links, NEW u \in Users, k[1] = s, conn[k] # "up", Via[s][Home[u]] = k[2]
      PROVE  Seen(s, u)' = Absent
  <2>1. Seen(s, u) = Absent
    BY <1>3 DEF Knowledge, Apart
  <2> QED BY <1>3, <2>1
<1> QED BY <1>1, <1>2, <1>3 DEF Truthful

\* Nothing another server has to know of.
LEMMA StillKnowledge ==
  ASSUME Knowledge, crossed => crossed', UNCHANGED <<conn, q, claims, killed, opered>>,
         \A t \in Servers, u \in Users : Seen(t, u)' = Seen(t, u)
  PROVE  Knowledge'
<1>1. \A u : Doomed(u)' <=> Doomed(u)
  BY DEF Doomed
<1>2. Blamed' /\ Honest' /\ Ends'
  BY <1>1 DEF Knowledge, Blamed, Honest, Good, Ends, Has, ClaimOf, Up, Rev, Closing
<1>3. Stated' /\ Apart'
  <2>1. ASSUME NEW t \in Servers, NEW u \in Users, Seen(t, u)' # Absent
        PROVE  ClaimOf(u, Seen(t, u)') \in claims'
    <3>1. Seen(t, u)' = Seen(t, u)
      OBVIOUS
    <3> QED BY <2>1, <3>1 DEF Knowledge, Stated
  <2>2. ASSUME NEW k \in Links, NEW u \in Users, conn'[k] # "up", Via[k[1]][Home[u]] = k[2]
        PROVE  Seen(k[1], u)' = Absent
    <3>1. Seen(k[1], u)' = Seen(k[1], u)
      BY LinkEnds
    <3>2. Seen(k[1], u) = Absent
      BY <2>2 DEF Knowledge, Apart
    <3> QED BY <3>1, <3>2
  <2>3. Stated'
    BY <2>1 DEF Stated, ClaimOf
  <2>4. Apart'
    BY <2>2 DEF Apart
  <2> QED BY <2>3, <2>4
<1>4. \A k \in Links, u \in Users : Final(k, u)' = Final(k, u)
  BY LinkEnds DEF Final, Open, Has
<1>5. Tracks'
  <2> SUFFICES ASSUME NEW u \in Users, Clear(u)', NEW l \in Links, Up(l, u)
               PROVE  Leads(q[l], u, Doomed(u)', Seen(l[2], u)', Final(l, u)')
    <3>1. Tracks' <=> \A u \in Users : Clear(u)' => \A l \in Links : Up(l, u) =>
                        Leads(q'[l], u, Doomed(u)', Seen(l[2], u)', Final(l, u)')
      BY DEF Tracks, Up, Leads, Follows, After, Allowed, About, Uid, Says, Views
    <3> QED BY <3>1
  <2>1. Clear(u) /\ Doomed(u) \in BOOLEAN /\ Doomed(u)' \in BOOLEAN
    BY <1>1 DEF Clear, Doomed
  <2>2. Leads(q[l], u, Doomed(u), Seen(l[2], u), Final(l, u))
    BY <2>1 DEF Knowledge, Tracks
  <2>3. Doomed(u)' = Doomed(u)
    BY <1>1, <2>1
  <2> QED BY <1>4, <2>2, <2>3, LinkEnds
<1> QED BY <1>2, <1>3, <1>5 DEF Knowledge

LEMMA LocalActs ==
  ASSUME IInv, NEW s \in Servers, NEW fwd, q' = ToAll(s, fwd), conn' = conn,
         claims \subseteq claims', opered \subseteq opered',
         \A t \in Servers : t # s => \A u \in Users : Seen(t, u)' = Seen(t, u)
  PROVE  ServerActs(s, q, s, << >>, fwd) /\ q \in [Links -> Seq(Message)]
<1>1. q \in [Links -> Seq(Message)]
  BY DEF IInv, Queues
<1> QED BY <1>1 DEF ServerActs, Taking, ToAll

\* A step of s that concerns u alone, and that no queue is taken from for.
LEMMA LocalStep ==
  ASSUME IInv, Knowledge, crossed => crossed', (Crossing => crossed)',
         NEW s \in Servers, NEW u \in Users, NEW fwd \in Seq(Message),
         q' = ToAll(s, fwd), UNCHANGED <<conn, killed>>,
         claims \subseteq claims', opered \subseteq opered',
         \A t \in Servers : t # s => \A v \in Users : Seen(t, v)' = Seen(t, v),
         \A v \in Users : v # u =>
           /\ Seen(s, v)' = Seen(s, v)
           /\ \/ Silent(fwd, v)
              \/ Home[v] = s /\ Leads(fwd, v, Doomed(v)', Seen(s, v), Seen(s, v)'),
         ~Has(fwd, Closing), \A k \in Links : k[1] = s => \A i \in DOMAIN fwd : Good(k, fwd[i])',
         Seen(s, u)' # Absent => Home[u] = s /\ ClaimOf(u, Seen(s, u)') \in claims',
         Clear(u)' => /\ Tells(u, s, s, << >>, fwd)
                      /\ Heeds(u, s, q, s, << >>, fwd)
                      /\ GoesOn(u, s, q, s, << >>, fwd)
  PROVE  Knowledge'
<1> DEFINE none == << >>
<1>1. ServerActs(s, q, s, none, fwd) /\ q \in [Links -> Seq(Message)]
  BY LocalActs
<1>2. Truthful(s, s, none, fwd)
  <2>1. ~Has(none, Closing) /\ \A k \in Links : \A i \in DOMAIN none : Good(k, none[i])'
    BY DEF Has
  <2>2. ASSUME NEW k \in Links, k[1] = s, Home[u] = s PROVE Via[s][Home[u]] # k[2]
    BY <2>2, NickTree
  <2>3. \A v \in Users :
           \/ Seen(s, v)' = Absent \/ Seen(s, v)' = Seen(s, v)
           \/ /\ ClaimOf(v, Seen(s, v)') \in claims'
              /\ \A k \in Links : k[1] = s /\ conn[k] # "up" => Via[s][Home[v]] # k[2]
    BY <2>2
  <2> HIDE DEF none
  <2> QED BY <2>1, <2>3, TruthfulFrom
<1>3. Heard(s, q, s, none, fwd)
  <2> SUFFICES ASSUME NEW v \in Users, Clear(v)'
               PROVE  /\ Tells(v, s, s, none, fwd)
                      /\ Heeds(v, s, q, s, none, fwd)
                      /\ GoesOn(v, s, q, s, none, fwd)
    BY DEF Heard
  <2>1. CASE v = u
    BY <2>1
  <2>2. CASE v # u /\ ~Silent(fwd, v)
    BY <2>2, TellHeard
  <2>3. CASE v # u /\ Silent(fwd, v)
    <3>1. Tracked(v) /\ (Doomed(v) => Doomed(v)')
      BY TrackedNow, DoomedStays
    <3>2. Aside(v, s, q, none, fwd)
      BY <2>3 DEF Aside, Silent, Passing
    <3>3. none \in Seq(Message)
      OBVIOUS
    <3> HIDE DEF none
    <3> QED BY <1>1, <3>1, <3>2, <3>3, AsideHeard
  <2> QED BY <2>1, <2>2, <2>3
<1>4. none \in Seq(Message)
  OBVIOUS
<1> HIDE DEF none
<1> QED BY <1>1, <1>2, <1>3, <1>4, ServerStep

LEMMA HomeUp == ASSUME NEW k \in Links, NEW u \in Users, k[1] = Home[u] PROVE Up(k, u)
  BY NotUpHome, UpOne, RevOK

LEMMA ClaimedAfter ==
  ASSUME NEW type \in {"UID", "NICK"}, NEW u, NEW e \in Entry, NEW f, type = "UID" \/ f # Absent
  PROVE  /\ After(Claimed(type, u, e), u, f) = e
         /\ ClaimOf(u, Claimed(type, u, e)) = ClaimOf(u, e)
         /\ Claimed(type, u, e).type = type /\ Claimed(type, u, e).user = u
         /\ Claimed(type, u, e).nick = e.nick
  BY DEF After, About, Claimed, ClaimOf, Entry

LEMMA OneHas ==
  ASSUME NEW m, NEW u
  PROVE  /\ \A n : Has(<<m>>, n) <=> n = m
         /\ HasUid(<<m>>, u) <=> Uid(m, u)
         /\ HasKill(<<m>>, u) <=> IsKill(m, u)
         /\ Silent(<<m>>, u) <=> ~About(m, u) /\ ~Says(m, u)
         /\ Spoken(<<m>>, u) <=> (About(m, u) => IsKill(m, u))
         /\ \A i \in DOMAIN <<m>> : <<m>>[i] = m
<1> DEFINE x == <<m>>
<1>1. DOMAIN x = {1} /\ x[1] = m
  OBVIOUS
<1> HIDE DEF x
<1>2. /\ \A n : Has(x, n) <=> n = m
      /\ HasUid(x, u) <=> Uid(m, u)
      /\ HasKill(x, u) <=> IsKill(m, u)
      /\ Silent(x, u) <=> ~About(m, u) /\ ~Says(m, u)
      /\ Spoken(x, u) <=> (About(m, u) => IsKill(m, u))
      /\ \A i \in DOMAIN x : x[i] = m
  BY <1>1 DEF Has, HasUid, HasKill, Silent, Spoken
<1> QED BY <1>2 DEF x

LEMMA FirstNickKnow ==
  ASSUME IInv, Knowledge, crossed => crossed', NEW u \in Users, NEW n \in Nicks, FirstNick(u, n)
  PROVE  Knowledge'
<1> DEFINE s == Home[u]
           e == [nick |-> n, ts |-> clock]
           row == [v \in Users |-> IF v = u THEN e ELSE client[s][v]]
<1>1. s \in Servers /\ client \in Hash /\ phase \in Phases
  BY NickTree, IInvParts
<1>2. /\ client' = Rehashed(s, {}, u, e) /\ phase[u] \in {"new", "unreg"}
      /\ phase' = [phase EXCEPT ![u] = "unreg"]
      /\ UNCHANGED <<clock, splits, conn, q, history>>
  BY DEF FirstNick
<1>3. client' = [client EXCEPT ![s] = row]
  BY <1>2 DEF Rehashed
<1>4. ASSUME NEW t \in Servers, NEW v \in Users PROVE Seen(t, v)' = Seen(t, v)
  <2>1. client'[t] = IF t = s THEN row ELSE client[t]
    BY <1>1, <1>3 DEF Hash
  <2>2. row[v] = IF v = u THEN e ELSE client[s][v]
    OBVIOUS
  <2>3. phase'[v] = IF v = u THEN "unreg" ELSE phase[v]
    BY <1>1, <1>2 DEF Phases
  <2> HIDE DEF row, e
  <2> QED BY <1>2, <2>1, <2>2, <2>3 DEF Seen, Known, Holds
<1> HIDE DEF s, e, row
<1> QED BY <1>2, <1>4, StillKnowledge DEF history

\* The server of u tells the network under which nick u is from now on.
LEMMA HomeStep ==
  ASSUME IInv, Knowledge, crossed => crossed', (Crossing => crossed)',
         NEW s \in Servers, NEW u \in Users, s = Home[u],
         NEW type \in {"UID", "NICK"}, NEW e \in Entry,
         q' = ToAll(s, <<Claimed(type, u, e)>>), claims' = claims \cup {ClaimOf(u, e)},
         UNCHANGED <<conn, killed, opered>>,
         \A t \in Servers, v \in Users :
           Seen(t, v)' = IF t = s /\ v = u THEN e ELSE Seen(t, v),
         type = "UID" => Seen(s, u) = Absent,
         type = "NICK" => Seen(s, u) # Absent /\ Seen(s, u).nick # e.nick
  PROVE  Knowledge'
<1> DEFINE m == Claimed(type, u, e)
           fwd == <<m>>
<1>1. m \in Message /\ fwd \in Seq(Message)
  <2>1. m \in Message
    BY ClaimedPlain DEF Plain
  <2> HIDE DEF m
  <2> QED BY <2>1
<1>2. /\ After(m, u, Seen(s, u)) = e /\ ClaimOf(u, m) = ClaimOf(u, e)
      /\ m.type = type /\ m.user = u /\ m.nick = e.nick
  BY ClaimedAfter
<1> HIDE DEF m
<1>3. Leads(fwd, u, Doomed(u)', Seen(s, u), Seen(s, u)')
  <2>1. Allowed(m, u, Doomed(u)', Seen(s, u))
    BY <1>2 DEF Allowed, Uid, Says
  <2>2. Seen(s, u) \in Views
    BY KnownSeen
  <2> QED BY <1>1, <1>2, <2>1, <2>2, LeadsOne
<1>4. ~Has(fwd, Closing)
  BY <1>2, OneHas DEF Closing
<1>5. ASSUME NEW v \in Users, v # u PROVE Silent(fwd, v)
  BY <1>2, <1>5, OneHas DEF About, Says
<1>6. ASSUME NEW k \in Links, k[1] = s PROVE \A i \in DOMAIN fwd : Good(k, fwd[i])'
  <2>1. ClaimOf(u, m) \in claims' /\ Up(k, u)
    BY <1>2, <1>6, HomeUp
  <2>2. Good(k, m)'
    BY <1>2, <2>1 DEF Good, ClaimOf, Up
  <2>3. \A i \in DOMAIN fwd : fwd[i] = m
    OBVIOUS
  <2> HIDE DEF fwd
  <2> QED BY <2>2, <2>3
<1>7. Seen(s, u)' = e /\ ClaimOf(u, e) \in claims'
  OBVIOUS
<1>8. q' = ToAll(s, fwd)
  BY DEF m
<1> HIDE DEF fwd
<1>9. /\ Tells(u, s, s, << >>, fwd) /\ Heeds(u, s, q, s, << >>, fwd)
      /\ GoesOn(u, s, q, s, << >>, fwd)
  BY <1>1, <1>3, TellHeard
<1>10. /\ claims \subseteq claims' /\ opered \subseteq opered' /\ UNCHANGED <<conn, killed>>
       /\ \A t \in Servers : t # s => \A v \in Users : Seen(t, v)' = Seen(t, v)
       /\ \A v \in Users : v # u => Seen(s, v)' = Seen(s, v) /\ Silent(fwd, v)
  BY <1>5
<1> QED BY <1>1, <1>4, <1>6, <1>7, <1>8, <1>9, <1>10, LocalStep

LEMMA RegisterKnow ==
  ASSUME IInv, Knowledge, crossed => crossed', (Crossing => crossed)',
         NEW u \in Users, Register(u)
  PROVE  Knowledge'
<1>1. client \in Hash /\ phase \in Phases /\ Home[u] \in Servers
  BY NickTree, IInvParts
<1>2. PICK s \in Servers, e \in Entry : s = Home[u] /\ e = client[s][u] /\ e # Absent
  <2>1. client[Home[u]][u] \in Entry /\ client[Home[u]][u] # Absent
    BY <1>1, HeldEntry, EntryOK DEF Register, IInv, Present, Here
  <2> QED BY <1>1, <2>1
<1>3. /\ phase[u] = "unreg" /\ phase' = [phase EXCEPT ![u] = "reg"]
      /\ q' = ToAll(s, <<Claimed("UID", u, e)>>) /\ claims' = claims \cup {ClaimOf(u, e)}
      /\ UNCHANGED <<counters, client, conn, killed, opered>>
  BY <1>2 DEF Register, ClaimOf
<1>4. ASSUME NEW t \in Servers, NEW v \in Users
      PROVE  Seen(t, v)' = IF t = s /\ v = u THEN e ELSE Seen(t, v)
  <2>1. phase'[v] = IF v = u THEN "reg" ELSE phase[v]
    BY <1>1, <1>3 DEF Phases
  <2> QED BY <1>2, <1>3, <2>1 DEF Seen, Known, Holds
<1>5. Seen(s, u) = Absent
  BY <1>2, <1>3 DEF Seen, Known
<1> QED BY <1>2, <1>3, <1>4, <1>5, HomeStep

LEMMA ChangeNickKnow ==
  ASSUME IInv, Knowledge, crossed => crossed', (Crossing => crossed)',
         NEW u \in Users, NEW n \in Nicks, ChangeNick(u, n)
  PROVE  Knowledge'
<1>1. PICK s \in Servers, e \in Entry : s = Home[u] /\ e = [nick |-> n, ts |-> clock]
  <2>1. [nick |-> n, ts |-> clock] \in Entry /\ Home[u] \in Servers
    BY IInvParts, NickTree DEF Entry, Rest
  <2> QED BY <2>1
<1> DEFINE dead == Holders(s, n)
<1>2. /\ client' = Rehashed(s, dead, u, e) /\ phase' = Exited(s, dead)
      /\ phase[u] = "reg" /\ client[s][u].nick # n /\ Taken(s, n) = {} /\ e.nick = n
      /\ q' = ToAll(s, <<Claimed("NICK", u, e)>>) /\ claims' = claims \cup {ClaimOf(u, e)}
      /\ UNCHANGED <<clock, splits, conn, killed, opered>>
  BY <1>1 DEF ChangeNick, ClaimOf
<1>3. u \notin dead /\ \A v \in dead : v \in Users /\ ~Known(s, v)
  BY <1>2 DEF Holders, Taken
<1>4. Seen(s, u) # Absent /\ Seen(s, u) = client[s][u]
  BY <1>1, <1>2, KnownSeen DEF IInv, Present, Here, Known
<1> HIDE DEF dead
<1>5. ASSUME NEW t \in Servers, NEW v \in Users
      PROVE  Seen(t, v)' = IF t = s /\ v = u THEN e ELSE Seen(t, v)
  <2>1. Seen(t, v)' = IF t # s THEN Seen(t, v) ELSE IF v \in dead THEN Absent
                       ELSE IF v = u THEN e ELSE Seen(s, v)
    BY <1>2, SeenRehashed
  <2>2. v \in dead => Seen(s, v) = Absent
    BY <1>3, KnownSeen
  <2> QED BY <1>3, <2>1, <2>2
<1> QED BY <1>1, <1>2, <1>4, <1>5, HomeStep

LEMMA QuitKnow ==
  ASSUME IInv, Knowledge, crossed => crossed', (Crossing => crossed)',
         NEW u \in Users, Quit(u)
  PROVE  Knowledge'
<1>1. PICK s \in Servers : s = Home[u]
  BY NickTree
<1> DEFINE m == [type |-> "QUIT", user |-> u]
<1>2. PICK fwd : fwd = IF phase[u] = "reg" THEN <<m>> ELSE << >>
  OBVIOUS
<1>3. /\ client' = Removed(s, {u}) /\ phase' = Exited(s, {u}) /\ q' = ToAll(s, fwd)
      /\ UNCHANGED <<clock, splits, conn, history>> /\ phase[u] \in {"unreg", "reg"}
  BY <1>1, <1>2 DEF Quit
<1>4. m \in Message /\ m.type = "QUIT" /\ m.user = u /\ fwd \in Seq(Message)
  <2>1. m \in Message
    BY DEF Message
  <2> HIDE DEF m
  <2>2. << >> \in Seq(Message) /\ <<m>> \in Seq(Message)
    BY <2>1
  <2> QED BY <1>2, <2>1, <2>2 DEF m
<1>5. ASSUME NEW t \in Servers, NEW v \in Users
      PROVE  Seen(t, v)' = IF t = s /\ v = u THEN Absent ELSE Seen(t, v)
  BY <1>3, SeenRemoved
<1> HIDE DEF m
<1>6. fwd = << >> \/ fwd = <<m>>
  BY <1>2
<1>7. ~Has(fwd, Closing) /\ \A v \in Users : v # u => Silent(fwd, v)
  <2>1. ~Has(<<m>>, Closing) /\ \A v \in Users : v # u => Silent(<<m>>, v)
    BY <1>4, OneHas DEF Closing, About, Says
  <2>2. ~Has(<< >>, Closing) /\ \A v \in Users : v # u => Silent(<< >>, v)
    BY DEF Has, Silent
  <2> QED BY <1>6, <2>1, <2>2
<1>8. ASSUME NEW k \in Links, k[1] = s PROVE \A i \in DOMAIN fwd : Good(k, fwd[i])'
  <2>1. Up(k, u)
    BY <1>1, <1>8, HomeUp
  <2>2. Good(k, m)'
    BY <1>4, <2>1 DEF Good, Up
  <2>3. \A i \in DOMAIN fwd : fwd[i] = m
    <3>1. CASE fwd = << >>
      BY <3>1
    <3>2. CASE fwd = <<m>>
      BY <3>2
    <3> QED BY <1>6, <3>1, <3>2
  <2> QED BY <2>2, <2>3
<1>9. Leads(fwd, u, Doomed(u)', Seen(s, u), Seen(s, u)')
  <2>1. CASE phase[u] = "reg"
    <3>1. Seen(s, u) # Absent /\ Seen(s, u) \in Views
      BY <1>1, <2>1, KnownSeen DEF IInv, Present, Here, Known
    <3>2. Allowed(m, u, Doomed(u)', Seen(s, u)) /\ After(m, u, Seen(s, u)) = Absent
      BY <1>4, <3>1 DEF Allowed, Uid, After, About
    <3> QED BY <1>2, <1>4, <1>5, <2>1, <3>1, <3>2, LeadsOne
  <2>2. CASE phase[u] # "reg"
    <3>1. Seen(s, u) = Absent /\ Seen(s, u)' = Absent
      BY <1>1, <1>5, <2>2 DEF Seen, Known
    <3> QED BY <1>2, <2>2, <3>1, LeadsNil DEF Views
  <2> QED BY <2>1, <2>2
<1>10. /\ Tells(u, s, s, << >>, fwd) /\ Heeds(u, s, q, s, << >>, fwd)
       /\ GoesOn(u, s, q, s, << >>, fwd)
  BY <1>1, <1>4, <1>9, TellHeard
<1>11. /\ claims \subseteq claims' /\ opered \subseteq opered' /\ UNCHANGED <<conn, killed>>
       /\ \A t \in Servers : t # s => \A v \in Users : Seen(t, v)' = Seen(t, v)
       /\ \A v \in Users : v # u => Seen(s, v)' = Seen(s, v) /\ Silent(fwd, v)
       /\ Seen(s, u)' = Absent
  BY <1>3, <1>5, <1>7 DEF history
<1> QED BY <1>3, <1>4, <1>7, <1>8, <1>10, <1>11, LocalStep

LEMMA OperKillKnow ==
  ASSUME IInv, Knowledge, crossed => crossed', (Crossing => crossed)',
         NEW o \in Users, NEW u \in Users, OperKill(o, u)
  PROVE  Knowledge'
<1>0. PICK s \in Servers : s = Home[o]
  BY NickTree
<1> DEFINE m == KillBy(o, u)
           fwd == <<m>>
<1>1. /\ client' = Removed(s, {u}) /\ q' = ToAll(s, fwd) /\ opered' = opered \cup {u}
      /\ UNCHANGED <<clock, splits, phase, conn, claims, killed>>
      /\ o # u /\ phase[o] = "reg"
  BY <1>0 DEF OperKill
<1>2. /\ m \in Message /\ m.type = "KILL" /\ m.user = u /\ m.by = o /\ IsKill(m, u)
      /\ fwd \in Seq(Message)
  <2>1. m \in Message /\ m.type = "KILL" /\ m.user = u /\ m.by = o /\ IsKill(m, u)
    BY KillByPlain DEF Plain, KillBy, IsKill
  <2> HIDE DEF m
  <2> QED BY <2>1
<1>3. ASSUME NEW t \in Servers, NEW v \in Users
      PROVE  Seen(t, v)' = IF t = s /\ v = u THEN Absent ELSE Seen(t, v)
  BY <1>1, SeenRemoved
<1>4. Doomed(u)'
  BY <1>1 DEF Doomed
<1>5. \A i \in DOMAIN fwd : fwd[i] = m
  OBVIOUS
<1>6. /\ ~Has(fwd, Closing) /\ HasKill(fwd, u) /\ Spoken(fwd, u)
      /\ \A v \in Users : v # u /\ v # o => Silent(fwd, v)
  BY <1>2, OneHas DEF Closing, About, Says
<1> HIDE DEF m, fwd
<1>7. ASSUME NEW k \in Links, k[1] = s PROVE \A i \in DOMAIN fwd : Good(k, fwd[i])'
  <2>0. Up(k, o)
    BY <1>0, <1>7, HomeUp
  <2>1. Good(k, m)'
    BY <1>1, <1>2, <1>4, <2>0 DEF Good, Up
  <2> QED BY <1>5, <2>1
<1>8. ASSUME Clear(u)'
      PROVE  /\ Tells(u, s, s, << >>, fwd) /\ Heeds(u, s, q, s, << >>, fwd)
             /\ GoesOn(u, s, q, s, << >>, fwd)
  <2> DEFINE none == << >>
  <2>1. Tracked(u)
    BY <1>1, <1>8, TrackedNow
  <2>2. Slain(u, s, q, s, none, fwd)
    <3>1. ASSUME NEW k \in Links, k[1] = s, Open(k)
          PROVE  HasKill(Out(k, s, s, none, fwd), u)
      BY <1>6, <3>1, RevOK DEF Out
    <3>2. Seen(s, u)' = Absent /\ Taking(s, q) /\ Spoken(none, u)
      BY <1>3 DEF Taking, Spoken
    <3> HIDE DEF none
    <3> QED BY <1>4, <1>6, <3>1, <3>2 DEF Slain
  <2>3. none \in Seq(Message) /\ q \in [Links -> Seq(Message)] /\ Apart
    BY DEF IInv, Queues, Knowledge
  <2> HIDE DEF none
  <2>4. /\ Tells(u, s, s, none, fwd) /\ Heeds(u, s, q, s, none, fwd)
        /\ GoesOn(u, s, q, s, none, fwd)
    BY <1>2, <2>1, <2>2, <2>3, SlainHeard
  <2> QED BY <2>4 DEF none
<1>9. /\ claims \subseteq claims' /\ opered \subseteq opered' /\ UNCHANGED <<conn, killed>>
      /\ \A t \in Servers : t # s => \A v \in Users : Seen(t, v)' = Seen(t, v)
      /\ Seen(s, u)' = Absent
  BY <1>1, <1>3
<1>11. Leads(fwd, o, Doomed(o)', Seen(s, o), Seen(s, o))
  <2>1. Seen(s, o) # Absent /\ Seen(s, o) \in Views
    BY <1>0, <1>1, KnownSeen DEF IInv, Present, Here, Known
  <2>2. Allowed(m, o, Doomed(o)', Seen(s, o)) /\ After(m, o, Seen(s, o)) = Seen(s, o)
    BY <1>1, <1>2, <2>1 DEF Allowed, Uid, After, About
  <2>3. Leads(<<m>>, o, Doomed(o)', Seen(s, o), Seen(s, o))
    BY <1>2, <2>1, <2>2, LeadsOne
  <2> QED BY <2>3 DEF fwd
<1>12. \A v \in Users : v # u =>
         /\ Seen(s, v)' = Seen(s, v)
         /\ \/ Silent(fwd, v)
            \/ Home[v] = s /\ Leads(fwd, v, Doomed(v)', Seen(s, v), Seen(s, v)')
  BY <1>0, <1>3, <1>6, <1>11
<1>10. q' = ToAll(s, fwd) /\ fwd \in Seq(Message)
  BY <1>1, <1>2
<1> QED BY <1>6, <1>7, <1>8, <1>9, <1>10, <1>12, LocalStep

-----------------------------------------------------------------------------
(* Steps of servers *)

LEMMA UpOn ==
  ASSUME NEW l \in Links, NEW k \in Links, k[1] = l[2], k[2] # l[1], NEW u \in Users, Up(l, u)
  PROVE  Up(k, u)
<1>1. CASE Up(Rev(k), u)
  <2>1. Rev(k) = l
    BY <1>1, UpOne, RevOK
  <2> QED BY <2>1, RevOK
<1>2. CASE ~Up(Rev(k), u)
  BY <1>2, UpOne
<1> QED BY <1>1, <1>2

LEMMA GoodKill ==
  ASSUME NEW k, NEW u, Doomed(u)' PROVE Good(k, Kill(u))'
  BY DEF Good, Kill

\* What may come in may go on, away from where it came from.
LEMMA GoodOn ==
  ASSUME claims \subseteq claims', opered \subseteq opered',
         NEW l \in Links, NEW k \in Links, k[1] = l[2], k[2] # l[1],
         NEW m \in Message, Good(l, m)
  PROVE  Good(k, m)'
<1>1. /\ m.type \in {"UID", "NICK", "QUIT"} => m.user \in Users
      /\ m.type = "KILL" /\ m.by # None => m.by \in Users
  BY DEF Message
<1>2. /\ m.type \in {"UID", "NICK", "QUIT"} => Up(k, m.user)
      /\ m.type = "KILL" /\ m.by # None => Up(k, m.by) /\ m.by # m.user
  BY <1>1, UpOn DEF Good
<1>3. m.type = "KILL" => Doomed(m.user)'
  BY DoomedStays DEF Good
<1>4. m.type \in {"UID", "NICK"} => ClaimOf(m.user, m) \in claims'
  BY DEF Good
<1> QED BY <1>2, <1>3, <1>4 DEF Good, ClaimOf, Up

LEMMA HeadGood ==
  ASSUME IInv, Knowledge, NEW l \in Links, q[l] # << >>
  PROVE  Good(l, Head(q[l]))
<1>1. Has(q[l], Head(q[l]))
  BY PoppedTakes
<1> QED BY <1>1 DEF Has, Knowledge, Honest

\* What l[2] has made of u, of which it is told.
Passed(u, l, back, fwd) ==
  /\ Up(l, u) /\ Silent(back, u)
  /\ Seen(l[2], u)' = After(Head(q[l]), u, Seen(l[2], u))
  /\ Leads(fwd, u, Doomed(u)', Seen(l[2], u), Seen(l[2], u)')

LEMMA ReplyStep ==
  ASSUME IInv, Knowledge, crossed => crossed', (Crossing => crossed)',
         NEW l \in Links, q[l] # << >>, Head(q[l]).type # "CLOSE",
         NEW back \in Seq(Message), NEW fwd \in Seq(Message), Reply(l, back, fwd),
         UNCHANGED <<conn, claims, opered>>,
         \A t \in Servers : t # l[2] => \A v \in Users : Seen(t, v)' = Seen(t, v),
         Truthful(l[2], l[1], back, fwd),
         \A v \in Users : Clear(v)' =>
           \/ Aside(v, l[2], Popped(l), back, fwd)
           \/ Slain(v, l[2], Popped(l), l[1], back, fwd)
           \/ Passed(v, l, back, fwd)
           \/ /\ Tells(v, l[2], l[1], back, fwd)
              /\ Heeds(v, l[2], Popped(l), l[1], back, fwd)
              /\ GoesOn(v, l[2], Popped(l), l[1], back, fwd)
  PROVE  Knowledge'
<1>1. ServerActs(l[2], Popped(l), l[1], back, fwd)
  BY ReplyActs
<1>2. Popped(l) \in [Links -> Seq(Message)] /\ l[2] \in Servers
  BY PoppedTakes, RevOK
<1>3. Heard(l[2], Popped(l), l[1], back, fwd)
  <2> SUFFICES ASSUME NEW v \in Users, Clear(v)'
               PROVE  /\ Tells(v, l[2], l[1], back, fwd)
                      /\ Heeds(v, l[2], Popped(l), l[1], back, fwd)
                      /\ GoesOn(v, l[2], Popped(l), l[1], back, fwd)
    BY DEF Heard
  <2>1. Tracked(v) /\ (Doomed(v) => Doomed(v)')
    BY TrackedNow, DoomedStays
  <2>2. CASE Aside(v, l[2], Popped(l), back, fwd)
    BY <1>2, <2>1, <2>2, AsideHeard
  <2>3. CASE Slain(v, l[2], Popped(l), l[1], back, fwd)
    BY <1>2, <2>1, <2>3, SlainHeard DEF Knowledge
  <2>4. CASE Passed(v, l, back, fwd)
    BY <2>1, <2>4, PassHeard DEF Passed
  <2> QED BY <2>2, <2>3, <2>4
<1> QED BY <1>1, <1>2, <1>3, ServerStep

LEMMA PoppedPassing ==
  ASSUME IInv, NEW l \in Links, q[l] # << >>, NEW u, ~About(Head(q[l]), u)
  PROVE  Passing(u, l[2], Popped(l))
  BY PoppedTakes DEF Passing

\* A message about u, after which u is in the hash or is not.
LEMMA RemoveKnow ==
  ASSUME IInv, Knowledge, crossed => crossed', (Crossing => crossed)',
         NEW l \in Links, q[l] # << >>, NEW m \in Message, m = Head(q[l]),
         m.type \in {"UID", "NICK", "KILL", "QUIT"}, NEW u \in Users, u = m.user,
         NEW dead, dead \subseteq {u},
         NEW back, back = << >> \/ (back = <<Kill(u)>> /\ Doomed(u)),
         NEW fwd, fwd = << >> \/ fwd = <<m>> \/ (fwd = <<Kill(u)>> /\ Doomed(u)),
         Remove(l, dead, back, fwd), UNCHANGED <<conn, claims, opered>>,
         Home[u] = l[2] /\ u \in dead => Doomed(u),
         Clear(u)' => \/ Slain(u, l[2], Popped(l), l[1], back, fwd)
                      \/ Passed(u, l, back, fwd)
                      \/ /\ Tells(u, l[2], l[1], back, fwd)
                         /\ Heeds(u, l[2], Popped(l), l[1], back, fwd)
                         /\ GoesOn(u, l[2], Popped(l), l[1], back, fwd)
  PROVE  Knowledge'
<1>1. PICK s \in Servers : s = l[2]
  BY RevOK
<1>2. /\ phase' = Exited(s, dead) /\ client' = Removed(s, dead)
      /\ killed' = killed \cup {v \in dead : Home[v] = s} /\ Reply(l, back, fwd)
  BY <1>1 DEF Remove
<1>3. ASSUME NEW t \in Servers, NEW v \in Users
      PROVE  Seen(t, v)' = IF t = s /\ v \in dead THEN Absent ELSE Seen(t, v)
  BY <1>2, SeenRemoved
<1>4. /\ Kill(u) \in Message /\ Kill(u).type = "KILL" /\ Kill(u).user = u
      /\ Closing.type = "CLOSE"
  BY KillPlain DEF Plain, Kill, Closing
<1>5. Good(l, m)
  BY HeadGood
<1>6. back \in Seq(Message) /\ fwd \in Seq(Message)
  <2>1. (\A x \in Message : <<x>> \in Seq(Message)) /\ << >> \in Seq(Message)
    OBVIOUS
  <2> QED BY <1>4, <2>1
<1>7. /\ ~Has(back, Closing) /\ ~Has(fwd, Closing)
      /\ \A v \in Users : v # u => Silent(back, v)
      /\ \A v \in Users : v # u => Silent(fwd, v) \/ (Says(m, v) /\ fwd = <<m>>)
  <2>0. \A v \in Users : ~Says(Kill(u), v)
    BY KillNames
  <2>1. /\ ~Has(<<m>>, Closing) /\ \A v \in Users : v # u => Silent(<<m>>, v) \/ Says(m, v)
        /\ ~Has(<<Kill(u)>>, Closing) /\ \A v \in Users : v # u => Silent(<<Kill(u)>>, v)
    BY <1>4, <2>0, OneHas DEF About
  <2>2. ~Has(<< >>, Closing) /\ \A v \in Users : v # u => Silent(<< >>, v)
    BY DEF Has, Silent
  <2> QED BY <2>1, <2>2
<1>8. ASSUME NEW k \in Links, k[1] = s, k[2] = l[1] PROVE \A i \in DOMAIN back : Good(k, back[i])'
  <2>1. Doomed(u) => Good(k, Kill(u))'
    BY DoomedStays, GoodKill
  <2>2. \A i \in DOMAIN back : back[i] = Kill(u) /\ Doomed(u)
    <3>1. CASE back = << >>
      BY <3>1
    <3>2. CASE back = <<Kill(u)>> /\ Doomed(u)
      BY <3>2
    <3> QED BY <3>1, <3>2
  <2> QED BY <2>1, <2>2
<1>9. ASSUME NEW k \in Links, k[1] = s, k[2] # l[1] PROVE \A i \in DOMAIN fwd : Good(k, fwd[i])'
  <2>1. Doomed(u) => Good(k, Kill(u))'
    BY DoomedStays, GoodKill
  <2>2. Good(k, m)'
    BY <1>1, <1>5, <1>9, GoodOn
  <2>3. \A i \in DOMAIN fwd : fwd[i] = m \/ (fwd[i] = Kill(u) /\ Doomed(u))
    <3>1. CASE fwd = << >>
      BY <3>1
    <3>2. CASE fwd = <<m>>
      BY <3>2
    <3>3. CASE fwd = <<Kill(u)>> /\ Doomed(u)
      BY <3>3
    <3> QED BY <3>1, <3>2, <3>3
  <2> QED BY <2>1, <2>2, <2>3
<1>10. \A v \in killed' : v \in killed \/ Doomed(v)'
  <2>1. Doomed(u) => Doomed(u)'
    BY DoomedStays
  <2> QED BY <1>1, <1>2, <2>1
<1>11. Truthful(s, l[1], back, fwd)
  BY <1>3, <1>7, <1>8, <1>9, <1>10, TruthfulFrom
<1>12. ASSUME NEW v \in Users, v # u, Clear(v)'
       PROVE  Aside(v, s, Popped(l), back, fwd) \/ Passed(v, l, back, fwd)
  <2>1. ~About(m, v) /\ Seen(s, v)' = Seen(s, v)
    BY <1>3, <1>12 DEF About
  <2>2. CASE Silent(fwd, v)
    BY <1>1, <1>7, <1>12, <2>1, <2>2, PoppedPassing DEF Aside
  <2>3. CASE Says(m, v) /\ fwd = <<m>>
    <3>1. Up(l, v)
      BY <1>5, <2>3, NickTree DEF Good, Says
    <3>2. Tracked(v) /\ (Doomed(v) => Doomed(v)')
      BY <1>12, TrackedNow, DoomedStays
    <3>3. After(m, v, Seen(s, v)) = Seen(s, v)
      BY <2>1 DEF After
    <3>4. Leads(fwd, v, Doomed(v)', Seen(s, v), Seen(s, v))
      BY <1>1, <2>3, <3>1, <3>2, <3>3, HeadAllowed
    <3> QED BY <1>1, <1>7, <1>12, <2>1, <3>1, <3>3, <3>4 DEF Passed
  <2> QED BY <1>7, <1>12, <2>2, <2>3
<1>13. \A t \in Servers : t # l[2] => \A v \in Users : Seen(t, v)' = Seen(t, v)
  BY <1>1, <1>3
<1>14. \A v \in Users : Clear(v)' =>
           \/ Aside(v, l[2], Popped(l), back, fwd)
           \/ Slain(v, l[2], Popped(l), l[1], back, fwd)
           \/ Passed(v, l, back, fwd)
           \/ /\ Tells(v, l[2], l[1], back, fwd)
              /\ Heeds(v, l[2], Popped(l), l[1], back, fwd)
              /\ GoesOn(v, l[2], Popped(l), l[1], back, fwd)
  BY <1>1, <1>12
<1>15. Head(q[l]).type # "CLOSE" /\ Truthful(l[2], l[1], back, fwd) /\ Reply(l, back, fwd)
  BY <1>1, <1>2, <1>11
<1> QED BY <1>6, <1>13, <1>14, <1>15, ReplyStep

\* A UID of a user that is known: one that is to be killed, after a cross.
LEMMA UidKnown ==
  ASSUME IInv, Knowledge, crossed => crossed', (Crossing => crossed)',
         NEW l \in Links, q[l] # << >>, NEW m \in Message, m = Head(q[l]), m.type = "UID",
         NEW u \in Users, u = m.user, Known(l[2], u), UNCHANGED <<conn, claims, opered>>,
         Remove(l, {u}, <<Kill(u)>>, <<Kill(u)>>)
  PROVE  Knowledge'
<1>1. Good(l, m)
  BY HeadGood
<1>2. ~Clear(u)'
  <2> SUFFICES ASSUME Clear(u)' PROVE FALSE
    OBVIOUS
  <2>1. Tracked(u) /\ (Doomed(u) => Doomed(u)') /\ Up(l, u)
    BY <1>1, TrackedNow, DoomedStays DEF Good
  <2>2. Allowed(m, u, Doomed(u), Seen(l[2], u))
    BY <2>1, HeadAllowed
  <2>3. Seen(l[2], u) # Absent
    BY RevOK, KnownSeen
  <2> QED BY <2>2, <2>3 DEF Allowed, Uid
<1>3. Doomed(u)
  BY <1>2 DEF Clear, Doomed
<1> QED BY <1>2, <1>3, RemoveKnow

\* A message of a user that is not known: one that is to be killed.
LEMMA Unknown ==
  ASSUME IInv, Knowledge, crossed => crossed', (Crossing => crossed)',
         NEW l \in Links, q[l] # << >>, NEW m \in Message, m = Head(q[l]),
         m.type = "NICK" \/ m.type = "QUIT",
         NEW u \in Users, u = m.user, ~Known(l[2], u), UNCHANGED <<conn, claims, opered>>,
         conn[Rev(l)] = "up", Remove(l, {}, <<Kill(u)>>, << >>)
  PROVE  Knowledge'
<1> DEFINE back == <<Kill(u)>>
           fwd == << >>
<1>1. Good(l, m) /\ Up(l, u)
  BY HeadGood DEF Good
<1>2. Seen(l[2], u) = Absent /\ l[2] \in Servers
  BY RevOK, KnownSeen
<1>3. Doomed(u)
  <2>1. CASE Clear(u)'
    <3>1. Tracked(u) /\ (Doomed(u) => Doomed(u)')
      BY <2>1, TrackedNow, DoomedStays
    <3>2. Allowed(m, u, Doomed(u), Seen(l[2], u))
      BY <1>1, <3>1, HeadAllowed
    <3> QED BY <1>2, <3>2 DEF Allowed
  <2>2. CASE ~Clear(u)'
    BY <2>2 DEF Clear, Doomed
  <2> QED BY <2>1, <2>2
<1>4. Slain(u, l[2], Popped(l), l[1], back, fwd)
  <2>1. Doomed(u)'
    BY <1>3, DoomedStays
  <2>2. Seen(l[2], u)' = Absent
    BY <1>2, SeenRemoved DEF Remove
  <2>3. HasKill(back, u) /\ Spoken(back, u) /\ Spoken(fwd, u)
    <3>1. Spoken(fwd, u)
      BY DEF Spoken
    <3> QED BY <3>1, KillNames, OneHas
  <2> HIDE DEF back, fwd
  <2>4. ASSUME NEW k \in Links, k[1] = l[2], Open(k)
        PROVE  \/ HasKill(Out(k, l[2], l[1], back, fwd), u)
               \/ Up(k, u) /\ ~Up(Rev(k), u) /\ Seen(l[2], u) = Absent
    <3>1. CASE k[2] = l[1]
      BY <2>3, <2>4, <3>1 DEF Out
    <3>2. CASE k[2] # l[1]
      <4>1. Up(k, u)
        BY <1>1, <2>4, <3>2, UpOn
      <4> QED BY <1>2, <4>1, UpOne
    <3> QED BY <3>1, <3>2
  <2>5. /\ Taking(l[2], Popped(l))
        /\ \A k \in Links : k[2] = l[2] /\ Popped(l)[k] # q[k] => conn[Rev(k)] = "up"
    BY PoppedTakes
  <2> QED BY <2>1, <2>2, <2>3, <2>4, <2>5 DEF Slain
<1> QED BY <1>3, <1>4, RemoveKnow

\* A KILL by a user that is not known: one that is to be killed, and not all hear
\* of the KILL.
LEMMA OrphanKnow ==
  ASSUME IInv, Knowledge, Crossing => crossed, crossed => crossed', (Crossing => crossed)',
         NEW l \in Links, q[l] # << >>, NEW m \in Message, m = Head(q[l]), m.type = "KILL",
         NEW o \in Users, o = m.by, ~Known(l[2], o), UNCHANGED <<conn, claims, opered>>,
         Remove(l, {}, <<Kill(o)>>, << >>)
  PROVE  Knowledge'
<1> DEFINE back == <<Kill(o)>>
           fwd == << >>
<1>1. PICK s \in Servers : s = l[2]
  BY RevOK
<1>2. PICK u \in Users : u = m.user
  BY DEF Message
<1>3. Good(l, m) /\ Up(l, o) /\ Doomed(u)
  BY <1>2, HeadGood, NickTree DEF Good
<1>4. Doomed(o)
  <2>1. CASE Clear(o)
    <3>1. Tracked(o)
      BY <2>1 DEF Knowledge, Tracks, Tracked
    <3>2. Leads(q[l], o, Doomed(o), Seen(s, o), Final(l, o))
      BY <1>1, <1>3, <3>1 DEF Tracked
    <3>3. Allowed(m, o, Doomed(o), Seen(s, o))
      BY <3>2, PoppedTakes, LeadsTail
    <3>4. Seen(s, o) = Absent
      BY <1>1, KnownSeen
    <3> QED BY <3>3, <3>4 DEF Allowed, Says
  <2>2. CASE ~Clear(o)
    BY <2>2 DEF Clear, Doomed
  <2> QED BY <2>1, <2>2
<1>5. crossed'
  <2>1. Orphaned
    BY NickTree DEF Orphaned, Stranger
  <2> QED BY <2>1 DEF Crossing
<1>6. /\ phase' = Exited(s, {}) /\ client' = Removed(s, {})
      /\ killed' = killed /\ Reply(l, back, fwd)
  BY <1>1 DEF Remove
<1>7. ASSUME NEW t \in Servers, NEW v \in Users PROVE Seen(t, v)' = Seen(t, v)
  BY <1>6, SeenRemoved
<1>8. /\ Kill(o) \in Message /\ Kill(o).type = "KILL" /\ Closing.type = "CLOSE"
      /\ back \in Seq(Message) /\ fwd \in Seq(Message)
  <2>1. Kill(o) \in Message /\ Kill(o).type = "KILL" /\ Closing.type = "CLOSE"
    BY KillPlain DEF Plain, Kill, Closing
  <2> QED BY <2>1
<1>9. /\ ~Has(back, Closing) /\ ~Has(fwd, Closing)
      /\ \A v \in Users : (v # o => Silent(back, v)) /\ Silent(fwd, v)
      /\ \A i \in DOMAIN back : back[i] = Kill(o)
  <2>1. /\ ~Has(back, Closing) /\ \A v \in Users : v # o => Silent(back, v)
        /\ \A i \in DOMAIN back : back[i] = Kill(o)
    BY <1>8, KillNames, OneHas
  <2>2. ~Has(fwd, Closing) /\ \A v \in Users : Silent(fwd, v)
    BY DEF Has, Silent
  <2> QED BY <2>1, <2>2
<1>10. ASSUME NEW k PROVE /\ \A i \in DOMAIN back : Good(k, back[i])'
                          /\ \A i \in DOMAIN fwd : Good(k, fwd[i])'
  <2>1. Good(k, Kill(o))'
    BY <1>4, DoomedStays, GoodKill
  <2> QED BY <1>9, <2>1
<1>11. ASSUME NEW v \in Users, Clear(v)' PROVE Aside(v, s, Popped(l), back, fwd)
  <2>1. ~Doomed(v)
    BY <1>5, <1>11, DoomedStays DEF Clear
  <2>2. ~About(m, v)
    BY <1>2, <1>3, <2>1 DEF About
  <2> QED BY <1>1, <1>4, <1>7, <1>9, <2>1, <2>2, PoppedPassing DEF Aside
<1> HIDE DEF back, fwd
<1>12. Truthful(s, l[1], back, fwd)
  BY <1>6, <1>7, <1>9, <1>10, TruthfulFrom
<1>13. /\ \A t \in Servers : t # l[2] => \A v \in Users : Seen(t, v)' = Seen(t, v)
       /\ Truthful(l[2], l[1], back, fwd) /\ Head(q[l]).type # "CLOSE"
       /\ \A v \in Users : Clear(v)' => Aside(v, l[2], Popped(l), back, fwd)
  BY <1>1, <1>7, <1>11, <1>12
<1> QED BY <1>6, <1>8, <1>13, ReplyStep

LEMMA QuitKnown ==
  ASSUME IInv, Knowledge, crossed => crossed', (Crossing => crossed)',
         NEW l \in Links, q[l] # << >>, NEW m \in Message, m = Head(q[l]), m.type = "QUIT",
         NEW u \in Users, u = m.user, UNCHANGED <<conn, claims, opered>>,
         Remove(l, {u}, << >>, <<m>>)
  PROVE  Knowledge'
<1> DEFINE back == << >>
           fwd == <<m>>
<1>1. Up(l, u) /\ Home[u] # l[2]
  BY HeadGood, NotUpHome DEF Good
<1>2. ASSUME Clear(u)' PROVE Passed(u, l, back, fwd)
  <2>1. Tracked(u) /\ (Doomed(u) => Doomed(u)')
    BY <1>2, TrackedNow, DoomedStays
  <2>2. Seen(l[2], u)' = Absent
    BY RevOK, SeenRemoved DEF Remove
  <2>3. After(m, u, Seen(l[2], u)) = Absent
    BY DEF After, About
  <2>4. Leads(fwd, u, Doomed(u)', Seen(l[2], u), Absent)
    BY <1>1, <2>1, <2>3, HeadAllowed
  <2>5. Silent(back, u)
    BY DEF Silent
  <2> QED BY <1>1, <2>2, <2>3, <2>4, <2>5 DEF Passed
<1> QED BY <1>1, <1>2, RemoveKnow

LEMMA KillKnow ==
  ASSUME IInv, Knowledge, crossed => crossed', (Crossing => crossed)',
         NEW l \in Links, q[l] # << >>, NEW m \in Message, m = Head(q[l]), m.type = "KILL",
         NEW u \in Users, u = m.user, UNCHANGED <<conn, claims, opered>>, conn[Rev(l)] = "up",
         NEW fwd, Known(l[2], u) => fwd = <<m>>, ~Known(l[2], u) => fwd = << >>,
         NEW dead, dead = IF Known(l[2], u) THEN {u} ELSE {}, Remove(l, dead, << >>, fwd)
  PROVE  Knowledge'
<1> DEFINE back == << >>
<1>1. PICK s \in Servers : s = l[2]
  BY RevOK
<1>2. Good(l, m) /\ IsKill(m, u)
  BY HeadGood DEF IsKill
<1>3. Doomed(u) /\ Doomed(u)'
  BY <1>2, DoomedStays DEF Good
<1>4. Seen(s, u)' = Absent /\ (~Known(s, u) => Seen(s, u) = Absent) /\ Seen(s, u) \in Views
  BY <1>1, SeenRemoved, KnownSeen DEF Remove
<1>5. /\ Spoken(fwd, u) /\ (Known(s, u) => HasKill(fwd, u)) /\ Spoken(back, u)
      /\ fwd \in Seq(Message)
  <2>1. (\A x \in Message : <<x>> \in Seq(Message)) /\ << >> \in Seq(Message)
    OBVIOUS
  <2>2. Spoken(<< >>, u)
    BY DEF Spoken
  <2>3. Spoken(<<m>>, u) /\ HasKill(<<m>>, u)
    BY <1>2, OneHas
  <2>4. fwd = << >> \/ fwd = <<m>>
    OBVIOUS
  <2> QED BY <1>1, <2>1, <2>2, <2>3, <2>4
<1> DEFINE out(k) == Out(k, s, l[1], back, fwd)
<1>6. \A k \in Links : /\ Spoken(out(k), u) /\ out(k) \in Seq(Message)
                       /\ (k[2] = l[1] => out(k) = << >>)
                       /\ (k[1] = s /\ Open(k) /\ k[2] # l[1] => out(k) = fwd)
                       /\ (~Open(k) => out(k) = << >>)
  <2>1. << >> \in Seq(Message)
    OBVIOUS
  <2> QED BY <1>5, <2>1 DEF Out
<1>7. \A k \in Links : ~HasUid(out(k), u)
  BY <1>6, KillAbout DEF Spoken, HasUid, Uid, About
<1>8. /\ \A k \in Links : Popped(l)[k] = IF k = l THEN Tail(q[l]) ELSE q[k]
      /\ q[l] \in Seq(Message) /\ HasKill(q[l], u)
  BY <1>2, PoppedTakes, KillTail
<1> HIDE DEF out
<1>9. ASSUME NEW k \in Links, k[1] = s, k[2] = l[1] PROVE Rev(k) = l
  <2>1. k = <<k[1], k[2]>> /\ l = <<l[1], l[2]>>
    BY LinkEnds
  <2> QED BY <1>1, <1>9, <2>1 DEF Rev
<1>10. Tells(u, s, l[1], back, fwd)
  <2> SUFFICES ASSUME NEW k \in Links, k[1] = s, Open(k), ~HasKill(q[Rev(k)], u)
               PROVE  Leads(out(k), u, TRUE, Seen(s, u), Absent)
    BY <1>3, <1>4 DEF Tells, Doomed, out
  <2>1. k[2] # l[1]
    BY <1>8, <1>9
  <2>2. HasKill(out(k), u) \/ Seen(s, u) = Absent
    BY <1>4, <1>5, <1>6, <2>1
  <2> QED BY <1>4, <1>6, <2>2, LeadsKill
<1>11. Heeds(u, s, Popped(l), l[1], back, fwd)
  BY <1>4, <1>7 DEF Heeds, out
<1>12. ASSUME Clear(u)' PROVE GoesOn(u, s, Popped(l), l[1], back, fwd)
  <2> SUFFICES ASSUME NEW k \in Links, k[2] = s, Up(k, u)
               PROVE  \/ /\ Leads(Popped(l)[k], u, TRUE, Absent, Final(k, u))
                         /\ ~HasKill(out(Rev(k)), u)
                      \/ /\ conn[Rev(k)] = "up"
                         /\ (Open(Rev(k)) => HasKill(out(Rev(k)), u))
                         /\ \E e : Leads(Popped(l)[k], u, TRUE, e, Final(k, u))
    BY <1>3, <1>4 DEF GoesOn, Doomed, out
  <2>1. Tracked(u)
    BY <1>12, TrackedNow
  <2>2. Leads(q[k], u, Doomed(u), Seen(s, u), Final(k, u))
    BY <2>1 DEF Tracked
  <2>3. Leads(q[k], u, TRUE, Seen(s, u), Final(k, u))
    BY <1>3, <2>2 DEF Doomed
  <2>4. /\ Rev(k) \in Links /\ Rev(k)[1] = s /\ Rev(k)[2] = k[1]
        /\ k = <<k[1], k[2]>> /\ l = <<l[1], l[2]>>
    BY RevOK, LinkEnds
  <2>5. CASE k = l
    <3>1. Leads(Tail(q[l]), u, TRUE, After(m, u, Seen(s, u)), Final(l, u))
      BY <1>8, <2>3, <2>5, LeadsTail
    <3>2. After(m, u, Seen(s, u)) = Absent
      BY DEF After, About
    <3>3. ~HasKill(out(Rev(k)), u)
      BY <1>6, <2>4, <2>5 DEF HasKill
    <3> QED BY <1>8, <2>5, <3>1, <3>2, <3>3
  <2>6. CASE k # l
    <3>1. k[1] # l[1]
      BY <1>1, <2>4, <2>6
    <3>2. CASE Known(s, u)
      <4>1. Seen(s, u) # Absent
        BY <3>2, KnownSeen
      <4>2. conn[Rev(k)] = "up"
        BY <2>4, <4>1 DEF Knowledge, Apart, Up
      <4>3. Open(Rev(k)) => HasKill(out(Rev(k)), u)
        BY <1>5, <1>6, <2>4, <3>1, <3>2
      <4> QED BY <1>8, <2>3, <2>6, <4>2, <4>3
    <3>3. CASE ~Known(s, u)
      <4>1. out(Rev(k)) = << >>
        BY <1>1, <3>3 DEF out, Out
      <4>2. ~HasKill(out(Rev(k)), u)
        BY <4>1 DEF HasKill
      <4> QED BY <1>4, <1>8, <2>3, <2>6, <3>3, <4>2
    <3> QED BY <3>2, <3>3
  <2> QED BY <2>5, <2>6
<1>13. dead \subseteq {u} /\ (fwd = << >> \/ fwd = <<m>>)
  OBVIOUS
<1> QED BY <1>1, <1>3, <1>10, <1>11, <1>12, <1>13, RemoveKnow

-----------------------------------------------------------------------------
(* Collisions *)

\* Server l[2] has put in u as m says, and taken the users of dead out.
LEMMA AcceptSeen ==
  ASSUME IInv, NEW l \in Links, NEW m \in Message, m.type \in {"UID", "NICK"},
         NEW u \in Users, u = m.user, Up(l, u), NEW dead, u \notin dead,
         phase' = Exited(l[2], dead),
         client' = Rehashed(l[2], dead, u, [nick |-> m.nick, ts |-> m.ts])
  PROVE  /\ [nick |-> m.nick, ts |-> m.ts] \in Entry
         /\ Seen(l[2], u)' = [nick |-> m.nick, ts |-> m.ts]
         /\ \A v \in Users : v # u => Seen(l[2], v)' = IF v \in dead THEN Absent
                                                       ELSE Seen(l[2], v)
         /\ \A t \in Servers : t # l[2] => \A v \in Users : Seen(t, v)' = Seen(t, v)
<1>1. PICK s \in Servers : s = l[2]
  BY RevOK
<1>2. PICK e \in Entry : e = [nick |-> m.nick, ts |-> m.ts]
  <2>1. [nick |-> m.nick, ts |-> m.ts] \in Entry
    BY DEF Message, Entry
  <2> QED BY <2>1
<1>3. Home[u] # s
  BY <1>1, NotUpHome
<1>4. ASSUME NEW t \in Servers, NEW v \in Users
      PROVE  Seen(t, v)' = IF t # s THEN Seen(t, v) ELSE IF v \in dead THEN Absent
                           ELSE IF v = u THEN e ELSE Seen(s, v)
  BY <1>1, <1>2, <1>3, SeenRehashed
<1> QED BY <1>1, <1>2, <1>4

\* It does as m says, having killed nobody that is known.
LEMMA AcceptKnow ==
  ASSUME IInv, Knowledge, crossed => crossed', (Crossing => crossed)',
         NEW l \in Links, q[l] # << >>, NEW m \in Message, m = Head(q[l]),
         m.type \in {"UID", "NICK"}, NEW u \in Users, u = m.user,
         m.type = "NICK" => Known(l[2], u), m.type = "UID" => ~Known(l[2], u),
         UNCHANGED <<conn, claims, opered>>, conn[Rev(l)] = "up",
         Taken(l[2], m.nick) = {}, Accept(l, m)
  PROVE  Knowledge'
<1> DEFINE back == << >>
           fwd == <<m>>
<1>1. PICK s \in Servers : s = l[2]
  BY RevOK
<1>2. PICK dead : dead = Holders(s, m.nick)
  OBVIOUS
<1>3. Good(l, m) /\ Up(l, u) /\ Home[u] # s
  BY <1>1, HeadGood, NotUpHome DEF Good
<1>4. dead \subseteq Users /\ (\A v \in dead : ~Known(s, v)) /\ u \notin dead
  <2>1. dead \subseteq Users /\ \A v \in dead : ~Known(s, v)
    BY <1>1, <1>2 DEF Taken, Holders
  <2>2. ASSUME u \in dead PROVE FALSE
    <3>1. client[s][u].nick = m.nick /\ m.nick \in Nicks
      BY <1>2, <2>2 DEF Holders, Message
    <3>2. Holds(s, u)
      BY <3>1, NickTree DEF Holds, Absent
    <3>3. Known(s, u)
      BY <1>3, <3>2 DEF Known
    <3> QED BY <2>1, <2>2, <3>3
  <2> QED BY <2>1, <2>2
<1>5. PICK e \in Entry : e = [nick |-> m.nick, ts |-> m.ts]
  <2>1. [nick |-> m.nick, ts |-> m.ts] \in Entry
    BY DEF Message, Entry
  <2> QED BY <2>1
<1>6. /\ phase' = Exited(l[2], dead) /\ client' = Rehashed(l[2], dead, u, e)
      /\ Reply(l, back, fwd) /\ killed' = killed
  BY <1>1, <1>2, <1>5 DEF Accept
<1>7. /\ Seen(s, u)' = e
      /\ \A v \in Users : v # u => Seen(s, v)' = IF v \in dead THEN Absent ELSE Seen(s, v)
      /\ \A t \in Servers : t # s => \A v \in Users : Seen(t, v)' = Seen(t, v)
  BY <1>1, <1>3, <1>4, <1>5, <1>6, AcceptSeen
<1>8. ASSUME NEW v \in Users, v # u PROVE Seen(s, v)' = Seen(s, v)
  <2>1. v \in dead => Seen(s, v) = Absent
    BY <1>4, KnownSeen
  <2> QED BY <1>7, <1>8, <2>1
<1>9. back \in Seq(Message) /\ fwd \in Seq(Message)
  OBVIOUS
<1>10. /\ ~Has(back, Closing) /\ ~Has(fwd, Closing) /\ Silent(back, u)
       /\ \A v \in Users : v # u => Silent(back, v) /\ Silent(fwd, v)
       /\ \A i \in DOMAIN fwd : fwd[i] = m
       /\ \A k \in Links : \A i \in DOMAIN back : Good(k, back[i])'
  <2>1. ~Has(back, Closing) /\ (\A v \in Users : Silent(back, v))
        /\ \A k \in Links : \A i \in DOMAIN back : Good(k, back[i])'
    BY DEF Has, Silent
  <2>2. ~Has(fwd, Closing) /\ (\A v \in Users : v # u => Silent(fwd, v))
        /\ \A i \in DOMAIN fwd : fwd[i] = m
    BY OneHas DEF Closing, About, Says
  <2> QED BY <2>1, <2>2
<1>11. ASSUME Clear(u)' PROVE Passed(u, l, back, fwd)
  <2>1. Tracked(u) /\ (Doomed(u) => Doomed(u)')
    BY <1>11, TrackedNow, DoomedStays
  <2>2. m.type = "NICK" => Seen(s, u) # Absent
    BY <1>1, KnownSeen
  <2>3. After(m, u, Seen(s, u)) = e
    BY <1>5, <2>2 DEF After, About
  <2>4. Leads(fwd, u, Doomed(u)', Seen(s, u), e)
    BY <1>1, <1>3, <2>1, <2>3, HeadAllowed
  <2> QED BY <1>1, <1>3, <1>7, <1>10, <2>3, <2>4 DEF Passed
<1>12. ASSUME NEW k \in Links, k[1] = s, k[2] # l[1] PROVE \A i \in DOMAIN fwd : Good(k, fwd[i])'
  <2>1. Good(k, m)'
    BY <1>1, <1>3, <1>12, GoodOn
  <2> QED BY <1>10, <2>1
<1> HIDE DEF back, fwd
<1>13. Truthful(s, l[1], back, fwd)
  <2>1. ClaimOf(u, e) \in claims'
    BY <1>3, <1>5 DEF Good, ClaimOf
  <2>2. ASSUME NEW k \in Links, k[1] = s, conn[k] # "up" PROVE Via[s][Home[u]] # k[2]
    <3>1. k = <<k[1], k[2]>> /\ Rev(l) = <<l[2], l[1]>>
      BY LinkEnds DEF Rev
    <3>2. k[2] # l[1]
      BY <1>1, <2>2, <3>1
    <3> QED BY <1>1, <1>3, <3>2 DEF Up
  <2>3. \A v \in Users :
          \/ Seen(s, v)' = Absent \/ Seen(s, v)' = Seen(s, v)
          \/ /\ ClaimOf(v, Seen(s, v)') \in claims'
             /\ \A k \in Links : k[1] = s /\ conn[k] # "up" => Via[s][Home[v]] # k[2]
    BY <1>7, <1>8, <2>1, <2>2
  <2> QED BY <1>6, <1>10, <1>12, <2>3, TruthfulFrom
<1>14. ASSUME NEW v \in Users, v # u PROVE Aside(v, s, Popped(l), back, fwd)
  <2>1. ~About(m, v)
    BY <1>14 DEF About
  <2> QED BY <1>1, <1>8, <1>10, <1>14, <2>1, PoppedPassing DEF Aside
<1>15. /\ \A t \in Servers : t # l[2] => \A v \in Users : Seen(t, v)' = Seen(t, v)
       /\ Truthful(l[2], l[1], back, fwd) /\ Reply(l, back, fwd) /\ Head(q[l]).type # "CLOSE"
  BY <1>1, <1>6, <1>7, <1>13
<1> QED BY <1>1, <1>9, <1>11, <1>14, <1>15, ReplyStep

LEMMA BySaying ==
  ASSUME NEW x, NEW w
  PROVE  /\ Silent(x, w) <=> \A n : Has(x, n) => ~About(n, w) /\ ~Says(n, w)
         /\ Spoken(x, w) <=> \A n : Has(x, n) /\ About(n, w) => IsKill(n, w)
         /\ HasKill(x, w) <=> \E n : Has(x, n) /\ IsKill(n, w)
         /\ \A k : (\A n : Has(x, n) => Good(k, n)') => \A i \in DOMAIN x : Good(k, x[i])'
  BY DEF Silent, Spoken, Has, HasKill

LEMMA KillsHas ==
  ASSUME NEW u \in Users, NEW v \in Users, NEW dead
  PROVE  /\ Kills(u, v, dead) \in Seq(Message)
         /\ \A n : Has(Kills(u, v, dead), n) <=> \/ u \in dead /\ n = Kill(u)
                                                 \/ v \in dead /\ n = Kill(v)
<1> DEFINE a == IF u \in dead THEN <<Kill(u)>> ELSE << >>
           b == IF v \in dead THEN <<Kill(v)>> ELSE << >>
<1>1. \A w \in Users : <<Kill(w)>> \in Seq(Message) /\ Kill(w) \in Message
  BY KillPlain DEF Plain
<1>2. a \in Seq(Message) /\ b \in Seq(Message)
  BY <1>1
<1>3. \A n : ~Has(<< >>, n)
  BY DEF Has
<1>4. /\ \A n : Has(a, n) <=> u \in dead /\ n = Kill(u)
      /\ \A n : Has(b, n) <=> v \in dead /\ n = Kill(v)
  BY <1>3, OneHas
<1>5. Kills(u, v, dead) = a \o b
  BY DEF Kills
<1> HIDE DEF a, b
<1>6. \A n : Has(a \o b, n) <=> Has(a, n) \/ Has(b, n)
  BY <1>2, HasCat
<1>7. a \o b \in Seq(Message)
  BY <1>2
<1> QED BY <1>4, <1>5, <1>6, <1>7

\* Who loses has the worse claim.
LEMMA LosersDoomed ==
  ASSUME NEW u \in Users, NEW new \in Nat, NEW v \in Users, NEW old \in Nat, NEW n,
         [user |-> u, nick |-> n, ts |-> new] \in claims,
         [user |-> v, nick |-> n, ts |-> old] \in claims, u # v
  PROVE  \A w \in Losers(u, new, v, old) : Doomed(w)
<1> DEFINE c == [user |-> u, nick |-> n, ts |-> new]
           d == [user |-> v, nick |-> n, ts |-> old]
<1>1. /\ c.user = u /\ c.nick = n /\ c.ts = new /\ c \in claims
      /\ d.user = v /\ d.nick = n /\ d.ts = old /\ d \in claims
  OBVIOUS
<1> HIDE DEF c, d
<1>2. Beats(c, d) => Doomed(v)
  BY <1>1 DEF Doomed
<1>3. Beats(d, c) => Doomed(u)
  BY <1>1 DEF Doomed
<1>4. CASE new = old
  BY <1>1, <1>2, <1>3, <1>4 DEF Beats, Losers
<1>5. CASE new # old /\ (Person[u] = Person[v]) = (new < old)
  <2>1. Beats(d, c)
    BY <1>1, <1>5 DEF Beats
  <2> QED BY <1>3, <1>5, <2>1 DEF Losers
<1>6. CASE new # old /\ (Person[u] = Person[v]) # (new < old)
  <2>1. Beats(c, d)
    BY <1>1, <1>6 DEF Beats
  <2> QED BY <1>2, <1>6, <2>1 DEF Losers
<1> QED BY <1>4, <1>5, <1>6

LEMMA CollideKnow ==
  ASSUME IInv, Knowledge, crossed => crossed', (Crossing => crossed)',
         NEW l \in Links, q[l] # << >>, NEW m \in Message, m = Head(q[l]),
         m.type \in {"UID", "NICK"}, NEW u \in Users, u = m.user,
         m.type = "NICK" => Known(l[2], u), m.type = "UID" => ~Known(l[2], u),
         UNCHANGED <<conn, claims, opered>>, conn[Rev(l)] = "up",
         NEW v \in Taken(l[2], m.nick), Collide(l, m, v)
  PROVE  Knowledge'
<1>1. PICK s \in Servers : s = l[2]
  BY RevOK
<1>2. PICK dead, told :
         /\ dead = Losers(u, m.ts, v, client[s][v].ts)
         /\ told = IF m.type = "UID" THEN dead \ {u} ELSE dead
  OBVIOUS
<1>3. PICK e \in Entry : e = [nick |-> m.nick, ts |-> m.ts]
  <2>1. [nick |-> m.nick, ts |-> m.ts] \in Entry
    BY DEF Message, Entry
  <2> QED BY <2>1
<1>4. PICK back, fwd, rest :
         /\ back = Kills(u, v, dead) /\ rest = IF u \in dead THEN << >> ELSE <<m>>
         /\ fwd = Kills(u, v, told) \o rest
  OBVIOUS
<1>5. /\ phase' = Exited(l[2], dead) /\ Reply(l, back, fwd)
      /\ u \in dead => client' = Removed(l[2], dead)
      /\ u \notin dead => client' = Rehashed(l[2], dead, u, e)
      /\ killed' = killed \cup {w \in dead : Home[w] = s}
  <2> USE <1>1, <1>2, <1>3, <1>4 DEF Collide
  <2>1. phase' = Exited(l[2], dead) /\ killed' = killed \cup {w \in dead : Home[w] = s}
    OBVIOUS
  <2>2. Reply(l, back, fwd)
    OBVIOUS
  <2>3. /\ u \in dead => client' = Removed(l[2], dead)
        /\ u \notin dead => client' = Rehashed(l[2], dead, u, e)
    OBVIOUS
  <2> QED BY <2>1, <2>2, <2>3
<1>6. Good(l, m) /\ Up(l, u) /\ Home[u] # s /\ ClaimOf(u, m) \in claims
  BY <1>1, HeadGood, NotUpHome DEF Good
<1>7. /\ v \in Users /\ Known(s, v) /\ Seen(s, v) = client[s][v] /\ client[s][v] \in Entry
      /\ client[s][v].nick = m.nick /\ ClaimOf(v, client[s][v]) \in claims
  <2>1. v \in Users /\ Known(s, v) /\ client[s][v].nick = m.nick
    BY <1>1 DEF Taken, Holders
  <2> QED BY <2>1, KnownSeen DEF Knowledge, Stated
<1>8. dead \subseteq {u, v} /\ (u = v => dead = {u})
  BY <1>2 DEF Losers
<1>9. \A w \in dead : Doomed(w) /\ Doomed(w)'
  <2>1. CASE u # v
    <3>1. m.ts \in Nat /\ client[s][v].ts \in Nat
      BY <1>3, <1>7 DEF Entry
    <3>2. \A w \in dead : Doomed(w)
      BY <1>2, <1>6, <1>7, <2>1, <3>1, LosersDoomed DEF ClaimOf
    <3> QED BY <3>2, DoomedStays
  <2>2. CASE u = v
    <3>1. Doomed(u)
      <4>1. CASE Clear(u)'
        <5>1. Tracked(u) /\ (Doomed(u) => Doomed(u)')
          BY <4>1, TrackedNow, DoomedStays
        <5>2. Allowed(m, u, Doomed(u), Seen(s, u))
          BY <1>1, <1>6, <5>1, HeadAllowed
        <5>3. m.type = "NICK" /\ Seen(s, u).nick = m.nick
          BY <1>1, <1>7, <2>2
        <5> QED BY <5>2, <5>3 DEF Allowed
      <4>2. CASE ~Clear(u)'
        BY <4>2 DEF Clear, Doomed
      <4> QED BY <4>1, <4>2
    <3> QED BY <1>8, <2>2, <3>1, DoomedStays
  <2> QED BY <2>1, <2>2
<1>10. /\ Seen(s, u)' = IF u \in dead THEN Absent ELSE e
       /\ \A w \in Users : w # u => Seen(s, w)' = IF w \in dead THEN Absent ELSE Seen(s, w)
       /\ \A t \in Servers : t # s => \A w \in Users : Seen(t, w)' = Seen(t, w)
  <2>1. CASE u \in dead
    <3>1. \A t \in Servers, w \in Users :
             Seen(t, w)' = IF t = s /\ w \in dead THEN Absent ELSE Seen(t, w)
      BY <1>1, <1>5, <2>1, SeenRemoved
    <3> QED BY <2>1, <3>1
  <2>2. CASE u \notin dead
    BY <1>1, <1>3, <1>5, <1>6, <2>2, AcceptSeen
  <2> QED BY <2>1, <2>2
<1>11. /\ back \in Seq(Message) /\ fwd \in Seq(Message) /\ rest \in Seq(Message)
       /\ \A n : Has(back, n) <=> \/ u \in dead /\ n = Kill(u)
                                  \/ v \in dead /\ n = Kill(v)
       /\ \A n : Has(fwd, n) <=> \/ u \in told /\ n = Kill(u)
                                 \/ v \in told /\ n = Kill(v)
                                 \/ u \notin dead /\ n = m
  <2>1. rest \in Seq(Message) /\ \A n : Has(rest, n) <=> u \notin dead /\ n = m
    <3>1. << >> \in Seq(Message) /\ <<m>> \in Seq(Message) /\ \A n : ~Has(<< >>, n)
      BY DEF Has
    <3> QED BY <1>4, <3>1, OneHas
  <2>2. /\ Kills(u, v, told) \in Seq(Message) /\ Kills(u, v, dead) \in Seq(Message)
        /\ \A n : Has(Kills(u, v, told), n) <=> \/ u \in told /\ n = Kill(u)
                                                \/ v \in told /\ n = Kill(v)
        /\ \A n : Has(Kills(u, v, dead), n) <=> \/ u \in dead /\ n = Kill(u)
                                                \/ v \in dead /\ n = Kill(v)
    BY <1>7, KillsHas
  <2>3. \A n : Has(Kills(u, v, told) \o rest, n) <=> Has(Kills(u, v, told), n) \/ Has(rest, n)
    BY <2>1, <2>2, HasCat
  <2>4. Kills(u, v, told) \o rest \in Seq(Message)
    BY <2>1, <2>2
  <2> QED BY <1>4, <2>1, <2>2, <2>3, <2>4
<1>12. /\ \A w, x : About(Kill(w), x) <=> w = x
       /\ \A w : ~Says(Kill(w), u) /\ \A x \in Users : ~Says(Kill(w), x)
       /\ \A x : IsKill(Kill(x), x)
       /\ \A x : About(m, x) <=> x = u
       /\ \A x : ~Says(m, x)
       /\ \A w : Kill(w) # Closing
       /\ m # Closing
  <2>1. /\ \A w, x : About(Kill(w), x) <=> w = x
        /\ \A x : About(m, x) <=> x = u
        /\ \A w : Kill(w) # Closing
        /\ m # Closing
    BY DEF About, Kill, Closing
  <2>2. \A x : IsKill(Kill(x), x)
    BY DEF Kill, IsKill
  <2>3. \A x : ~Says(m, x)
    BY DEF Says
  <2>4. \A w, x : x # None => ~Says(Kill(w), x)
    BY DEF Kill, Says
  <2>5. u # None /\ \A x \in Users : x # None
    BY NickTree
  <2> QED BY <2>1, <2>2, <2>3, <2>4, <2>5
<1>13. told \subseteq dead
  BY <1>2
<1>14. ~Has(back, Closing) /\ ~Has(fwd, Closing)
  BY <1>11, <1>12
<1>15. \A w \in Users : Clear(w)' =>
           \/ Aside(w, l[2], Popped(l), back, fwd)
           \/ Slain(w, l[2], Popped(l), l[1], back, fwd)
           \/ Passed(w, l, back, fwd)
  <2> SUFFICES ASSUME NEW w \in Users, Clear(w)'
               PROVE  \/ Aside(w, s, Popped(l), back, fwd)
                      \/ Slain(w, s, Popped(l), l[1], back, fwd)
                      \/ Passed(w, l, back, fwd)
    BY <1>1
  <2>1. CASE w \in dead
    <3>1. Seen(s, w)' = Absent /\ Doomed(w)'
      BY <1>9, <1>10, <2>1
    <3>2. Spoken(back, w)
      BY <1>11, <1>12, BySaying
    <3>3. Spoken(fwd, w)
      BY <1>11, <1>12, <2>1, BySaying
    <3>4. ASSUME NEW k \in Links, k[1] = s, Open(k)
          PROVE  \/ HasKill(Out(k, s, l[1], back, fwd), w)
                 \/ Up(k, w) /\ ~Up(Rev(k), w) /\ Seen(s, w) = Absent
      <4>1. CASE k[2] = l[1]
        <5>1. HasKill(back, w)
          BY <1>8, <1>11, <1>12, <2>1, BySaying
        <5> QED BY <3>4, <4>1, <5>1 DEF Out
      <4>2. CASE k[2] # l[1] /\ w \in told
        <5>1. HasKill(fwd, w)
          BY <1>8, <1>11, <1>12, <2>1, <4>2, BySaying
        <5> QED BY <3>4, <4>2, <5>1 DEF Out
      <4>3. CASE k[2] # l[1] /\ w \notin told
        <5>1. w = u /\ Seen(s, u) = Absent
          BY <1>1, <1>2, <2>1, <4>3, KnownSeen
        <5>2. Up(k, u)
          BY <1>1, <1>6, <3>4, <4>3, UpOn
        <5> QED BY <5>1, <5>2, UpOne
      <4> QED BY <4>1, <4>2, <4>3
    <3>5. /\ Taking(s, Popped(l))
          /\ \A k \in Links : k[2] = s /\ Popped(l)[k] # q[k] => conn[Rev(k)] = "up"
      BY <1>1, PoppedTakes
    <3> QED BY <3>1, <3>2, <3>3, <3>4, <3>5 DEF Slain
  <2>2. CASE w = u /\ u \notin dead
    <3>1. Tracked(u) /\ (Doomed(u) => Doomed(u)')
      BY <2>2, TrackedNow, DoomedStays
    <3>2. m.type = "NICK" => Seen(s, u) # Absent
      BY <1>1, KnownSeen
    <3>3. After(m, u, Seen(s, u)) = e
      BY <1>3, <3>2 DEF After, About
    <3>4. Leads(<<m>>, u, Doomed(u)', Seen(s, u), e)
      BY <1>1, <1>6, <3>1, <3>3, HeadAllowed
    <3>5. Silent(back, u)
      <4>1. \A n : Has(back, n) => ~About(n, u) /\ ~Says(n, u)
        BY <1>11, <1>12, <2>2, <1>8
      <4> QED BY <4>1, BySaying
    <3>6. Silent(Kills(u, v, told), u) /\ Kills(u, v, told) \in Seq(Message)
      <4>1. /\ Kills(u, v, told) \in Seq(Message)
            /\ \A n : Has(Kills(u, v, told), n) => n = Kill(v) /\ v # u
        BY <1>7, <1>13, <2>2, KillsHas, SMTT(30)
      <4>2. \A n : Has(Kills(u, v, told), n) => ~About(n, u) /\ ~Says(n, u)
        BY <1>12, <4>1
      <4> QED BY <4>1, <4>2, BySaying
    <3>7. Leads(Kills(u, v, told), u, Doomed(u)', Seen(s, u), Seen(s, u))
      BY <3>6, LeadsStill, KnownSeen DEF Silent
    <3>8. rest = <<m>>
      BY <1>4, <2>2
    <3>9. Leads(fwd, u, Doomed(u)', Seen(s, u), e)
      BY <1>4, <1>11, <3>4, <3>6, <3>7, <3>8, LeadsCat
    <3> QED BY <1>1, <1>6, <1>10, <2>2, <3>3, <3>5, <3>9 DEF Passed
  <2>3. CASE w \notin dead /\ w # u
    <3>1. Seen(s, w)' = Seen(s, w)
      BY <1>10, <2>3
    <3>2. Silent(back, w)
      <4>1. \A n : Has(back, n) => ~About(n, w) /\ ~Says(n, w)
        BY <1>11, <1>12, <2>3
      <4> QED BY <4>1, BySaying
    <3>3. Silent(fwd, w)
      <4>1. \A n : Has(fwd, n) => ~About(n, w) /\ ~Says(n, w)
        BY <1>11, <1>12, <1>13, <2>3
      <4> QED BY <4>1, BySaying
    <3>4. Passing(w, s, Popped(l))
      BY <1>1, <1>12, <2>3, PoppedPassing
    <3> QED BY <3>1, <3>2, <3>3, <3>4 DEF Aside
  <2> QED BY <2>1, <2>2, <2>3
<1>16. Truthful(s, l[1], back, fwd)
  <2>1. ClaimOf(u, e) \in claims'
    BY <1>3, <1>6 DEF ClaimOf
  <2>2. ASSUME NEW k \in Links, k[1] = s, conn[k] # "up" PROVE Via[s][Home[u]] # k[2]
    <3>1. k = <<k[1], k[2]>> /\ Rev(l) = <<l[2], l[1]>>
      BY LinkEnds DEF Rev
    <3>2. k[2] # l[1]
      BY <1>1, <2>2, <3>1
    <3> QED BY <1>1, <1>6, <3>2 DEF Up
  <2>3. \A w \in Users :
          \/ Seen(s, w)' = Absent \/ Seen(s, w)' = Seen(s, w)
          \/ /\ ClaimOf(w, Seen(s, w)') \in claims'
             /\ \A k \in Links : k[1] = s /\ conn[k] # "up" => Via[s][Home[w]] # k[2]
    BY <1>10, <2>1, <2>2
  <2>4. ASSUME NEW k \in Links PROVE \A i \in DOMAIN back : Good(k, back[i])'
    <3>1. \A w \in dead : Good(k, Kill(w))'
      BY <1>9, GoodKill
    <3>2. \A n : Has(back, n) => \E w \in dead : n = Kill(w)
      BY <1>11
    <3>3. \A n : Has(back, n) => Good(k, n)'
      BY <3>1, <3>2
    <3> QED BY <3>3, BySaying
  <2>5. ASSUME NEW k \in Links, k[1] = s, k[2] # l[1]
        PROVE  \A i \in DOMAIN fwd : Good(k, fwd[i])'
    <3>1. \A w \in dead : Good(k, Kill(w))'
      BY <1>9, GoodKill
    <3>2. Good(k, m)'
      BY <1>1, <1>6, <2>5, GoodOn
    <3>3. \A n : Has(fwd, n) => Good(k, n)'
      <4>1. \A n : Has(fwd, n) => n = m \/ \E w \in dead : n = Kill(w)
        BY <1>11, <1>13
      <4> QED BY <3>1, <3>2, <4>1
    <3> QED BY <3>3, BySaying
  <2>6. \A w \in killed' : w \in killed \/ Doomed(w)'
    BY <1>5, <1>9
  <2> QED BY <1>14, <2>3, <2>4, <2>5, <2>6, TruthfulFrom
<1>17. /\ \A t \in Servers : t # l[2] => \A w \in Users : Seen(t, w)' = Seen(t, w)
       /\ Truthful(l[2], l[1], back, fwd) /\ Head(q[l]).type # "CLOSE"
  BY <1>1, <1>10, <1>16
<1> QED BY <1>5, <1>11, <1>15, <1>17, ReplyStep

LEMMA RecvUidKnow ==
  ASSUME IInv, Knowledge, crossed => crossed', (Crossing => crossed)',
         NEW l \in Links, RecvUid(l)
  PROVE  Knowledge'
<1>1. q[l] # << >> /\ conn[Rev(l)] = "up" /\ Head(q[l]).type = "UID"
  BY DEF RecvUid, Received, Rev
<1>2. PICK m \in Message : m = Head(q[l]) /\ m.type = "UID"
  BY <1>1, PoppedTakes
<1>3. PICK u \in Users : u = m.user
  BY <1>2 DEF Message
<1>4. UNCHANGED <<conn, claims, opered>>
  BY DEF RecvUid
<1>5. CASE Known(l[2], u)
  <2>1. Remove(l, {u}, <<Kill(u)>>, <<Kill(u)>>)
    BY <1>2, <1>3, <1>5 DEF RecvUid
  <2> QED BY <1>1, <1>2, <1>3, <1>4, <1>5, <2>1, UidKnown
<1>6. CASE ~Known(l[2], u)
  <2>1. Compare(l, m)
    BY <1>2, <1>3, <1>6 DEF RecvUid
  <2>2. CASE Taken(l[2], m.nick) = {} /\ Accept(l, m)
    BY <1>1, <1>2, <1>3, <1>4, <1>6, <2>2, AcceptKnow
  <2>3. ASSUME NEW v \in Taken(l[2], m.nick), Collide(l, m, v) PROVE Knowledge'
    BY <1>1, <1>2, <1>3, <1>4, <1>6, <2>3, CollideKnow
  <2> QED BY <2>1, <2>2, <2>3 DEF Compare
<1> QED BY <1>5, <1>6

LEMMA RecvNickKnow ==
  ASSUME IInv, Knowledge, crossed => crossed', (Crossing => crossed)',
         NEW l \in Links, RecvNick(l)
  PROVE  Knowledge'
<1>1. q[l] # << >> /\ conn[Rev(l)] = "up" /\ Head(q[l]).type = "NICK"
  BY DEF RecvNick, Received, Rev
<1>2. PICK m \in Message : m = Head(q[l]) /\ m.type = "NICK"
  BY <1>1, PoppedTakes
<1>3. PICK u \in Users : u = m.user
  BY <1>2 DEF Message
<1>4. UNCHANGED <<conn, claims, opered>>
  BY DEF RecvNick
<1>5. CASE ~Known(l[2], u)
  <2>1. Remove(l, {}, <<Kill(u)>>, << >>)
    BY <1>2, <1>3, <1>5 DEF RecvNick
  <2> QED BY <1>1, <1>2, <1>3, <1>4, <1>5, <2>1, Unknown
<1>6. CASE Known(l[2], u)
  <2>1. Compare(l, m)
    BY <1>2, <1>3, <1>6 DEF RecvNick
  <2>2. CASE Taken(l[2], m.nick) = {} /\ Accept(l, m)
    BY <1>1, <1>2, <1>3, <1>4, <1>6, <2>2, AcceptKnow
  <2>3. ASSUME NEW v \in Taken(l[2], m.nick), Collide(l, m, v) PROVE Knowledge'
    BY <1>1, <1>2, <1>3, <1>4, <1>6, <2>3, CollideKnow
  <2> QED BY <2>1, <2>2, <2>3 DEF Compare
<1> QED BY <1>5, <1>6

LEMMA RecvQuitKnow ==
  ASSUME IInv, Knowledge, crossed => crossed', (Crossing => crossed)',
         NEW l \in Links, RecvQuit(l)
  PROVE  Knowledge'
<1>1. q[l] # << >> /\ conn[Rev(l)] = "up" /\ Head(q[l]).type = "QUIT"
  BY DEF RecvQuit, Received, Rev
<1>2. PICK m \in Message : m = Head(q[l]) /\ m.type = "QUIT"
  BY <1>1, PoppedTakes
<1>3. PICK u \in Users : u = m.user
  BY <1>2 DEF Message
<1>4. UNCHANGED <<conn, claims, opered>>
  BY DEF RecvQuit
<1>5. CASE ~Known(l[2], u)
  <2>1. Remove(l, {}, <<Kill(u)>>, << >>)
    BY <1>2, <1>3, <1>5 DEF RecvQuit
  <2> QED BY <1>1, <1>2, <1>3, <1>4, <1>5, <2>1, Unknown
<1>6. CASE Known(l[2], u)
  <2>1. Remove(l, {u}, << >>, <<m>>)
    BY <1>2, <1>3, <1>6 DEF RecvQuit
  <2> QED BY <1>1, <1>2, <1>3, <1>4, <2>1, QuitKnown
<1> QED BY <1>5, <1>6

LEMMA RecvKillKnow ==
  ASSUME IInv, Knowledge, Crossing => crossed, crossed => crossed', (Crossing => crossed)',
         NEW l \in Links, RecvKill(l)
  PROVE  Knowledge'
<1>1. q[l] # << >> /\ conn[Rev(l)] = "up" /\ Head(q[l]).type = "KILL"
  BY DEF RecvKill, Received, Rev
<1>2. PICK m \in Message : m = Head(q[l]) /\ m.type = "KILL"
  BY <1>1, PoppedTakes
<1>3. PICK u \in Users : u = m.user
  BY <1>2 DEF Message
<1>4. UNCHANGED <<conn, claims, opered>>
  BY DEF RecvKill
<1>5. CASE Stranger(l[2], m)
  <2>1. PICK o \in Users : o = m.by
    BY <1>2, <1>5 DEF Message, Stranger
  <2>2. Remove(l, {}, <<Kill(o)>>, << >>)
    BY <1>2, <1>5, <2>1 DEF RecvKill
  <2> QED BY <1>1, <1>2, <1>4, <1>5, <2>1, <2>2, OrphanKnow DEF Stranger
<1>6. CASE ~Stranger(l[2], m)
  <2>1. CASE Known(l[2], u)
    <3>1. Remove(l, {u}, << >>, <<m>>)
      BY <1>2, <1>3, <1>6, <2>1 DEF RecvKill
    <3> QED BY <1>1, <1>2, <1>3, <1>4, <2>1, <3>1, KillKnow
  <2>2. CASE ~Known(l[2], u)
    <3>1. Remove(l, {}, << >>, << >>)
      BY <1>2, <1>3, <1>6, <2>2 DEF RecvKill
    <3> QED BY <1>1, <1>2, <1>3, <1>4, <2>2, <3>1, KillKnow
  <2> QED BY <2>1, <2>2
<1> QED BY <1>5, <1>6

\* Server l[2] loses the users of the servers that are gone behind l[1].
LEMMA RecvSquitKnow ==
  ASSUME IInv, Knowledge, crossed => crossed', (Crossing => crossed)',
         NEW l \in Links, RecvSquit(l)
  PROVE  Knowledge'
<1>1. q[l] # << >> /\ conn[Rev(l)] = "up" /\ Head(q[l]).type = "SQUIT"
  BY DEF RecvSquit, Received, Rev
<1>2. PICK m \in Message : m = Head(q[l]) /\ m.type = "SQUIT"
  BY <1>1, PoppedTakes
<1>0. PICK gone : gone = m.servers
  OBVIOUS
<1>3. PICK s \in Servers : gone = m.servers /\ s = l[2]
  BY <1>0, RevOK
<1> DEFINE back == << >>
           fwd == <<m>>
<1>4. m = [type |-> "SQUIT", servers |-> gone]
  BY <1>2, <1>3 DEF Message
<1>5. /\ client' = Removed(s, UsersOn(gone)) /\ Reply(l, back, fwd)
      /\ UNCHANGED <<counters, phase, conn, history>>
  BY <1>2, <1>3, <1>4 DEF RecvSquit, Lose, Reply
<1>6. \A v \in gone : Via[s][v] = l[1]
  BY <1>1, <1>2, <1>3, PoppedOK DEF OnLink
<1>7. ASSUME NEW t \in Servers, NEW v \in Users
      PROVE  Seen(t, v)' = IF t = s /\ Home[v] \in gone THEN Absent ELSE Seen(t, v)
  BY <1>5, SeenRemoved DEF UsersOn
<1>8. back \in Seq(Message) /\ fwd \in Seq(Message)
  OBVIOUS
<1>9. /\ ~Has(back, Closing) /\ ~Has(fwd, Closing)
      /\ \A k \in Links : \A i \in DOMAIN back : Good(k, back[i])'
      /\ \A k \in Links : \A i \in DOMAIN fwd : Good(k, fwd[i])'
      /\ \A v : Silent(back, v)
      /\ \A v : Home[v] \notin gone => Silent(fwd, v)
  <2>1. /\ ~Has(back, Closing) /\ \A v : Silent(back, v)
        /\ \A k \in Links : \A i \in DOMAIN back : Good(k, back[i])'
    BY DEF Has, Silent
  <2>2. /\ ~Has(fwd, Closing) /\ \A i \in DOMAIN fwd : fwd[i] = m
        /\ \A v : Home[v] \notin gone => Silent(fwd, v)
    BY <1>2, <1>3, OneHas DEF Closing, About, Says
  <2>3. \A k : Good(k, m)'
    BY <1>2 DEF Good
  <2> QED BY <2>1, <2>2, <2>3
<1>10. ASSUME NEW v \in Users, Clear(v)'
       PROVE  Aside(v, s, Popped(l), back, fwd) \/ Passed(v, l, back, fwd)
  <2>1. CASE Home[v] \in gone
    <3>1. Up(l, v)
      BY <1>3, <1>6, <2>1 DEF Up
    <3>2. Tracked(v) /\ (Doomed(v) => Doomed(v)')
      BY <1>5, <1>10, TrackedNow, DoomedStays DEF history
    <3>3. After(m, v, Seen(s, v)) = Absent /\ Seen(s, v)' = Absent
      BY <1>2, <1>3, <1>7, <2>1 DEF After, About
    <3>4. Leads(fwd, v, Doomed(v)', Seen(s, v), Absent)
      BY <1>1, <1>2, <1>3, <3>1, <3>2, <3>3, HeadAllowed
    <3> QED BY <1>2, <1>3, <1>9, <3>1, <3>3, <3>4 DEF Passed
  <2>2. CASE Home[v] \notin gone
    <3>1. ~About(m, v)
      BY <1>2, <1>3, <2>2 DEF About
    <3>2. Seen(s, v)' = Seen(s, v)
      BY <1>7, <2>2
    <3> QED BY <1>1, <1>2, <1>3, <1>9, <2>2, <3>1, <3>2, PoppedPassing DEF Aside
  <2> QED BY <2>1, <2>2
<1> HIDE DEF back, fwd
<1>11. UNCHANGED <<conn, claims, opered, killed>>
  BY <1>5 DEF history
<1>12. Truthful(s, l[1], back, fwd)
  BY <1>7, <1>9, <1>11, TruthfulFrom
<1>13. /\ \A t \in Servers : t # l[2] => \A v \in Users : Seen(t, v)' = Seen(t, v)
       /\ Truthful(l[2], l[1], back, fwd) /\ Head(q[l]).type # "CLOSE"
       /\ \A v \in Users : Clear(v)' => \/ Aside(v, l[2], Popped(l), back, fwd)
                                        \/ Passed(v, l, back, fwd)
  BY <1>1, <1>3, <1>7, <1>10, <1>12
<1> QED BY <1>1, <1>5, <1>8, <1>11, <1>13, ReplyStep

-----------------------------------------------------------------------------
(* Links that break *)

\* Of link k, and of a user u that is behind it.
LinkKnows(k) == /\ \A i \in DOMAIN q[k] : Good(k, q[k][i])
                /\ Has(q[k], Closing) => conn[k] = "down"
                /\ conn[Rev(k)] # "down" /\ conn[k] = "down" => Has(q[k], Closing)
LinkTracks(k, u) == Leads(q[k], u, Doomed(u), Seen(k[2], u), Final(k, u))

LEMMA PerLink ==
  ASSUME claims \subseteq claims', opered \subseteq opered', crossed => crossed',
         Knowledge, Blamed', Stated', Apart', \A k \in Links : LinkKnows(k)',
         \A k \in Links, u \in Users : Clear(u)' /\ Clear(u) /\ Up(k, u) => LinkTracks(k, u)'
  PROVE  Knowledge'
<1>1. Honest' /\ Ends'
  BY DEF LinkKnows, Honest, Ends
<1>2. Tracks'
  <2> SUFFICES ASSUME NEW u \in Users, Clear(u)', NEW k \in Links, Up(k, u)
               PROVE  LinkTracks(k, u)'
    <3>1. Tracks' <=> \A u \in Users : Clear(u)' => \A k \in Links : Up(k, u) =>
                        LinkTracks(k, u)'
      BY DEF Tracks, LinkTracks, Up
    <3> QED BY <3>1
  <2>1. Clear(u)
    BY ClearBefore
  <2> QED BY <2>1
<1> QED BY <1>1, <1>2 DEF Knowledge

LEMMA LinkBefore ==
  ASSUME Knowledge, NEW k \in Links, NEW u \in Users, Clear(u), Up(k, u)
  PROVE  LinkKnows(k) /\ LinkTracks(k, u)
  BY DEF Knowledge, Honest, Ends, Tracks, LinkKnows, LinkTracks

LEMMA LinkKnowsBefore ==
  ASSUME Knowledge, NEW k \in Links PROVE LinkKnows(k)
  BY DEF Knowledge, Honest, Ends, LinkKnows

Squit(gone) == [type |-> "SQUIT", servers |-> gone]

\* Server h[1] drops the link h, and tells its other neighbours.
Cut(h, gone) ==
  /\ gone = Behind(h[1], h[2]) /\ client' = Removed(h[1], UsersOn(gone)) /\ phase' = phase
  /\ UNCHANGED history
  /\ conn' = [conn EXCEPT ![h] = "down"]
  /\ \A k \in Links : k # h /\ k # Rev(h) =>
       q'[k] = IF k[1] = h[1] /\ Open(k) THEN q[k] \o <<Squit(gone)>> ELSE q[k]

LEMMA CutSeen ==
  ASSUME IInv, NEW h \in Links, NEW gone, Cut(h, gone), NEW t \in Servers, NEW u \in Users
  PROVE  Seen(t, u)' = IF t = h[1] /\ Via[h[1]][Home[u]] = h[2] THEN Absent ELSE Seen(t, u)
<1>1. h[1] \in Servers /\ h[2] # h[1] /\ Home[u] \in Servers
  BY RevOK, NickTree
<1>2. Seen(t, u)' = IF t = h[1] /\ u \in UsersOn(gone) THEN Absent ELSE Seen(t, u)
  BY <1>1, SeenRemoved DEF Cut
<1>3. u \in UsersOn(gone) <=> Via[h[1]][Home[u]] = h[2]
  BY <1>1, NickTree DEF Cut, UsersOn, Behind
<1> QED BY <1>2, <1>3

LEMMA CutRest ==
  ASSUME IInv, Knowledge, NEW h \in Links, NEW gone, Cut(h, gone)
  PROVE  /\ Blamed' /\ Stated' /\ Apart'
         /\ \A u : Doomed(u)' = Doomed(u)
<1>1. \A u : Doomed(u)' = Doomed(u)
  BY DEF Cut, history, Doomed
<1>2. Blamed'
  BY <1>1 DEF Knowledge, Blamed, Cut, history
<1>3. Stated'
  <2> SUFFICES ASSUME NEW t \in Servers, NEW u \in Users, Seen(t, u)' # Absent
               PROVE  ClaimOf(u, Seen(t, u)') \in claims'
    BY DEF Stated, ClaimOf
  <2>1. Seen(t, u)' = Seen(t, u)
    BY CutSeen
  <2> QED BY <2>1 DEF Knowledge, Stated, Cut, history
<1>4. Apart'
  <2> SUFFICES ASSUME NEW k \in Links, NEW u \in Users,
                      conn'[k] # "up", Via[k[1]][Home[u]] = k[2]
               PROVE  Seen(k[1], u)' = Absent
    BY DEF Apart
  <2>1. CASE k = h
    BY <2>1, CutSeen, RevOK
  <2>2. CASE k # h
    <3>1. conn'[k] = conn[k]
      BY <2>2, IInvParts DEF Cut, Rest
    <3>2. Seen(k[1], u) = Absent
      BY <3>1 DEF Knowledge, Apart
    <3> QED BY <3>2, CutSeen, RevOK
  <2> QED BY <2>1, <2>2
<1> QED BY <1>1, <1>2, <1>3, <1>4

\* The other links do not change but for the SQUIT.
LEMMA CutLink ==
  ASSUME IInv, Knowledge, NEW h \in Links, NEW gone, Cut(h, gone),
         NEW k \in Links, k # h, k # Rev(h)
  PROVE  /\ LinkKnows(k)'
         /\ \A u \in Users : Clear(u) /\ Up(k, u) => LinkTracks(k, u)'
<1> DEFINE m == Squit(gone)
<1>1. /\ h[1] \in Servers /\ Rev(k) \in Links /\ Rev(k)[1] = k[2] /\ Rev(k)[2] = k[1]
      /\ Rev(Rev(k)) = k /\ Rev(k) # h /\ Rev(k) # Rev(h) /\ k[1] # k[2]
      /\ k[1] \in Servers /\ k[2] \in Servers /\ q[k] \in Seq(Message)
  BY RevOK DEF IInv, Queues
<1>2. m \in Message /\ m.type = "SQUIT" /\ m.servers = gone /\ m # Closing
  BY DEF Squit, Message, Cut, Behind, Closing
<1> HIDE DEF m
<1>3. <<m>> \in Seq(Message)
  BY <1>2
<1>4. PICK x : /\ x = IF k[1] = h[1] /\ Open(k) THEN <<m>> ELSE << >>
               /\ x \in Seq(Message) /\ q'[k] = q[k] \o x
  <2>1. q[k] \o << >> = q[k] /\ << >> \in Seq(Message)
    BY <1>1
  <2> QED BY <1>3, <2>1 DEF Cut, m
<1>5. q'[Rev(k)] = q[Rev(k)] \/ q'[Rev(k)] = q[Rev(k)] \o <<m>>
  BY <1>1 DEF Cut, m
<1>6. conn'[k] = conn[k] /\ conn'[Rev(k)] = conn[Rev(k)]
  BY <1>1, IInvParts DEF Cut, Rest
<1>7. \A n : Has(x, n) => n = m
  <2>1. (\A n : Has(<<m>>, n) => n = m) /\ \A n : ~Has(<< >>, n)
    BY OneHas DEF Has
  <2> QED BY <1>4, <2>1
<1>8. \A n : Has(q'[k], n) <=> Has(q[k], n) \/ Has(x, n)
  <2>1. \A n : Has(q[k] \o x, n) <=> Has(q[k], n) \/ Has(x, n)
    BY <1>1, <1>4, HasCat
  <2> QED BY <1>4, <2>1
<1>9. LinkKnows(k)'
  <2>1. LinkKnows(k)
    BY LinkKnowsBefore
  <2>2. Has(q'[k], Closing) <=> Has(q[k], Closing)
    BY <1>2, <1>7, <1>8
  <2>3. ASSUME NEW i \in DOMAIN q'[k] PROVE Good(k, q[k][i])'
    <3>1. PICK n : n = q'[k][i]
      OBVIOUS
    <3>2. n = m \/ Has(q[k], n)
      BY <1>7, <1>8, <3>1 DEF Has
    <3>3. Good(k, n)'
      <4>1. CASE n = m
        BY <1>2, <4>1 DEF Good
      <4>2. CASE Has(q[k], n)
        <5>1. Good(k, n)
          BY <2>1, <4>2 DEF LinkKnows, Has
        <5>2. claims \subseteq claims' /\ opered \subseteq opered'
          BY DEF Cut, history
        <5> QED BY <5>1, <5>2, GoodStays
      <4> QED BY <3>2, <4>1, <4>2
    <3> QED BY <3>1, <3>3 DEF Good, ClaimOf, Up, Doomed
  <2>4. /\ Has(q'[k], Closing) => conn'[k] = "down"
        /\ conn'[Rev(k)] # "down" /\ conn'[k] = "down" => Has(q'[k], Closing)
    BY <1>6, <2>1, <2>2 DEF LinkKnows
  <2> QED BY <2>3, <2>4 DEF LinkKnows, Has, Closing, Rev
<1>10. ASSUME NEW u \in Users, Clear(u), Up(k, u) PROVE LinkTracks(k, u)'
  <2>1. LinkTracks(k, u) /\ Doomed(u)' = Doomed(u)
    BY <1>10, LinkBefore, CutRest
  <2>2. /\ Seen(k[2], u)' = IF k[2] = h[1] /\ Via[h[1]][Home[u]] = h[2] THEN Absent
                            ELSE Seen(k[2], u)
        /\ Seen(k[1], u)' = IF k[1] = h[1] /\ Via[h[1]][Home[u]] = h[2] THEN Absent
                            ELSE Seen(k[1], u)
    BY <1>1, CutSeen
  <2>3. Seen(k[2], u)' = Seen(k[2], u)
    <3>1. ASSUME k[2] = h[1], Via[h[1]][Home[u]] = h[2] PROVE FALSE
      <4>1. k[1] = h[2]
        BY <1>10, <3>1 DEF Up
      <4>2. k = <<k[1], k[2]>>
        BY LinkEnds
      <4> QED BY <3>1, <4>1, <4>2 DEF Rev
    <3> QED BY <2>2, <3>1
  <2>4. HasKill(q'[Rev(k)], u) <=> HasKill(q[Rev(k)], u)
    <3>1. ~IsKill(m, u)
      BY <1>2 DEF IsKill
    <3>2. \A n : Has(q[Rev(k)] \o <<m>>, n) <=> Has(q[Rev(k)], n) \/ Has(<<m>>, n)
      BY <1>1, <1>3, HasCat DEF IInv, Queues
    <3> QED BY <1>5, <3>1, <3>2, OneHas, KillSaid
  <2>5. Open(k)' <=> Open(k)
    BY <1>6 DEF Open, Rev
  <2>6. Final(k, u) = IF Open(k) /\ ~HasKill(q[Rev(k)], u) THEN Seen(k[1], u) ELSE Absent
    BY DEF Final
  <2>7. Final(k, u)' = IF Open(k) /\ ~HasKill(q[Rev(k)], u) THEN Seen(k[1], u)' ELSE Absent
    <3>1. Final(k, u)' = IF Open(k)' /\ ~HasKill(q'[Rev(k)], u) THEN Seen(k[1], u)' ELSE Absent
      BY DEF Final, HasKill, IsKill, Rev
    <3> QED BY <2>4, <2>5, <3>1
  <2>8. Final(k, u) \in Views /\ Seen(k[1], u) \in Views
    BY <1>1, <2>6, KnownSeen DEF Views
  <2>9. Leads(x, u, Doomed(u), Final(k, u), Final(k, u)')
    <3>1. CASE k[1] = h[1] /\ Open(k)
      <4>1. x = <<m>>
        BY <1>4, <3>1
      <4>2. Home[u] \in Servers /\ (Home[u] \in gone <=> Via[h[1]][Home[u]] = h[2])
        <5>1. Home[u] \in Servers /\ Via[h[1]][h[1]] = h[1] /\ h[1] # h[2]
          BY <1>1, RevOK, NickTree
        <5>2. gone = Behind(h[1], h[2])
          BY DEF Cut
        <5> QED BY <5>1, <5>2 DEF Behind
      <4>3. After(m, u, Final(k, u)) = Final(k, u)'
        BY <1>2, <2>2, <2>6, <2>7, <3>1, <4>2 DEF After, About
      <4>4. Allowed(m, u, Doomed(u), Final(k, u))
        BY <1>2 DEF Allowed, Uid, Says
      <4>5. Leads(<<m>>, u, Doomed(u), Final(k, u), After(m, u, Final(k, u)))
        BY <1>2, <2>8, <4>4, LeadsOne
      <4> QED BY <4>1, <4>3, <4>5
    <3>2. CASE ~(k[1] = h[1] /\ Open(k))
      <4>1. x = << >> /\ Final(k, u)' = Final(k, u)
        BY <1>4, <2>2, <2>6, <2>7, <3>2
      <4> QED BY <2>8, <4>1, LeadsNil
    <3> QED BY <3>1, <3>2
  <2>10. Leads(q[k] \o x, u, Doomed(u), Seen(k[2], u), Final(k, u)')
    BY <1>1, <1>4, <2>1, <2>9, LeadsCat DEF LinkTracks
  <2>11. LinkTracks(k, u)' <=> Leads(q'[k], u, Doomed(u)', Seen(k[2], u)', Final(k, u)')
    BY DEF LinkTracks
  <2> QED BY <1>4, <2>1, <2>3, <2>10, <2>11
<1> QED BY <1>9, <1>10

LEMMA BreakKnow ==
  ASSUME IInv, Knowledge, crossed => crossed', NEW l \in Links, Break(l)
  PROVE  Knowledge'
<1> DEFINE rev == Rev(l)
           queues == [q EXCEPT ![rev] = << >>, ![l] = Append(@, Closing)]
<1>1. PICK gone : gone = Behind(l[1], l[2])
  OBVIOUS
<1>2. /\ Open(l) /\ conn' = [conn EXCEPT ![l] = "down"]
      /\ client' = Removed(l[1], UsersOn(gone))
      /\ q' = Sent(queues, l[1], l[2], << >>, <<Squit(gone)>>)
      /\ UNCHANGED <<clock, moves, phase, history>>
  BY <1>1 DEF Break, Lose, Rev, Closing, Squit
<1>3. /\ rev \in Links /\ rev # l /\ rev[1] = l[2] /\ rev[2] = l[1] /\ l[1] # l[2]
      /\ Rev(rev) = l /\ l[1] \in Servers /\ l[2] \in Servers
  BY RevOK
<1>4. q \in [Links -> Seq(Message)] /\ \A k \in Links : q[k] \in Seq(Message)
  BY DEF IInv, Queues
<1>5. Closing \in Message /\ Closing.type = "CLOSE"
  BY DEF Closing, Message
<1> HIDE DEF rev
<1>6. \A k \in Links : queues[k] = IF k = l THEN Append(q[l], Closing)
                                   ELSE IF k = rev THEN << >> ELSE q[k]
  BY <1>3, <1>4
<1> HIDE DEF queues
<1>7. \A k \in Links : q'[k] = IF k[1] # l[1] \/ ~Open(k) THEN queues[k]
                               ELSE queues[k] \o (IF k[2] = l[2] THEN << >> ELSE <<Squit(gone)>>)
  BY <1>2 DEF Sent
<1>8. ASSUME NEW k \in Links, k # l, k[1] = l[1] PROVE k[2] # l[2]
  <2>1. k = <<k[1], k[2]>> /\ l = <<l[1], l[2]>>
    BY LinkEnds
  <2> QED BY <1>8, <2>1
<1>9. Cut(l, gone)
  <2>1. \A k \in Links : k # l /\ k # rev =>
          q'[k] = IF k[1] = l[1] /\ Open(k) THEN q[k] \o <<Squit(gone)>> ELSE q[k]
    BY <1>6, <1>7, <1>8
  <2> QED BY <1>1, <1>2, <2>1 DEF Cut, rev
<1>10. q'[l] = q[l] \o <<Closing>> /\ q'[rev] = << >>
  <2>1. Append(q[l], Closing) = q[l] \o <<Closing>>
    BY <1>4
  <2>2. Append(q[l], Closing) \in Seq(Message)
    BY <1>4, <1>5
  <2>3. Append(q[l], Closing) \o << >> = Append(q[l], Closing)
    BY <2>2
  <2> QED BY <1>2, <1>3, <1>6, <1>7, <2>1, <2>3
<1>11. conn'[l] = "down" /\ conn'[rev] = conn[rev] /\ conn[l] = "up" /\ conn[rev] # "down"
  BY <1>2, <1>3, IInvParts DEF Rest, Open, rev, Rev
<1>12. claims \subseteq claims' /\ opered \subseteq opered'
  BY <1>2 DEF history
<1>13. <<Closing>> \in Seq(Message) /\ \A n : Has(<<Closing>>, n) <=> n = Closing
  BY <1>5, OneHas
<1>14. LinkKnows(l)'
  <2>1. \A n : Has(q[l] \o <<Closing>>, n) <=> Has(q[l], n) \/ Has(<<Closing>>, n)
    BY <1>4, <1>13, HasCat
  <2>2. \A n : Has(q'[l], n) <=> Has(q[l], n) \/ n = Closing
    BY <1>10, <1>13, <2>1
  <2>3. LinkKnows(l)
    BY LinkKnowsBefore
  <2>4. ASSUME NEW i \in DOMAIN q'[l] PROVE Good(l, q[l][i])'
    <3>1. PICK n : n = q'[l][i]
      OBVIOUS
    <3>2. n = Closing \/ Has(q[l], n)
      BY <2>2, <3>1 DEF Has
    <3>3. Good(l, n)'
      <4>1. CASE n = Closing
        BY <1>5, <4>1 DEF Good
      <4>2. CASE Has(q[l], n)
        <5>1. Good(l, n)
          BY <2>3, <4>2 DEF LinkKnows, Has
        <5> QED BY <1>12, <5>1, GoodStays
      <4> QED BY <3>2, <4>1, <4>2
    <3> QED BY <3>1, <3>3 DEF Good, ClaimOf, Up, Doomed
  <2>5. Has(q'[l], Closing) /\ conn'[l] = "down"
    BY <1>11, <2>2
  <2> QED BY <2>4, <2>5 DEF LinkKnows, Has, Closing, Rev
<1>15. LinkKnows(rev)'
  <2>1. DOMAIN q'[rev] = {}
    BY <1>10
  <2>2. conn'[Rev(rev)] = "down"
    BY <1>3, <1>11
  <2> QED BY <2>1, <2>2 DEF LinkKnows, Has, Closing, Rev
<1>16. ASSUME NEW u \in Users, Clear(u), Up(l, u) PROVE LinkTracks(l, u)'
  <2>1. LinkTracks(l, u) /\ Doomed(u)' = Doomed(u)
    BY <1>9, <1>16, LinkBefore, CutRest
  <2>2. Seen(l[2], u)' = Seen(l[2], u)
    BY <1>3, <1>9, CutSeen
  <2>3. Final(l, u)' = Absent
    BY <1>11 DEF Final, Open
  <2>4. Final(l, u) \in Views
    BY <1>4, <2>1, LeadsView DEF LinkTracks
  <2>5. After(Closing, u, Final(l, u)) = Absent /\ Allowed(Closing, u, Doomed(u), Final(l, u))
    BY <1>5 DEF After, About, Allowed, Uid, Says
  <2>6. Leads(<<Closing>>, u, Doomed(u), Final(l, u), Absent)
    BY <1>5, <2>4, <2>5, LeadsOne
  <2>7. Leads(q[l] \o <<Closing>>, u, Doomed(u), Seen(l[2], u), Absent)
    BY <1>4, <1>13, <2>1, <2>6, LeadsCat DEF LinkTracks
  <2>8. LinkTracks(l, u)' <=> Leads(q'[l], u, Doomed(u)', Seen(l[2], u)', Final(l, u)')
    BY DEF LinkTracks
  <2> QED BY <1>10, <2>1, <2>2, <2>3, <2>7, <2>8
<1>17. ASSUME NEW u \in Users, Clear(u), Up(rev, u) PROVE LinkTracks(rev, u)'
  <2>1. Seen(rev[2], u)' = Absent
    BY <1>3, <1>9, <1>17, CutSeen DEF Up
  <2>2. Final(rev, u)' = Absent
    <3>1. ~Open(rev)'
      BY <1>3, <1>11 DEF Open, rev, Rev
    <3> QED BY <3>1 DEF Final
  <2>3. LinkTracks(rev, u)' <=> Leads(q'[rev], u, Doomed(u)', Seen(rev[2], u)', Final(rev, u)')
    BY DEF LinkTracks, rev, Rev
  <2> QED BY <1>10, <2>1, <2>2, <2>3, LeadsNil DEF Views
<1>18. /\ \A k \in Links : LinkKnows(k)'
       /\ \A k \in Links, u \in Users : Clear(u)' /\ Clear(u) /\ Up(k, u) => LinkTracks(k, u)'
  <2> SUFFICES ASSUME NEW k \in Links
               PROVE  /\ LinkKnows(k)'
                      /\ \A u \in Users : Clear(u) /\ Up(k, u) => LinkTracks(k, u)'
    OBVIOUS
  <2>1. CASE k # l /\ k # rev
    BY <1>9, <2>1, CutLink DEF rev
  <2>2. CASE k = l
    <3>1. LinkKnows(k)'
      BY <1>14, <2>2
    <3> QED BY <1>16, <2>2, <3>1
  <2>3. CASE k = rev
    BY <1>15, <1>17, <2>3 DEF LinkKnows, LinkTracks, rev, Rev, Final, Seen, Leads, Has
  <2> QED BY <2>1, <2>2, <2>3
<1>19. Blamed' /\ Stated' /\ Apart'
  BY <1>9, CutRest
<1> QED BY <1>12, <1>18, <1>19, PerLink

LEMMA RecvCloseKnow ==
  ASSUME IInv, Knowledge, crossed => crossed', NEW l \in Links, RecvClose(l)
  PROVE  Knowledge'
<1>1. PICK h \in Links : h = Rev(l)
  BY RevOK
<1>2. PICK gone : gone = Behind(h[1], h[2])
  OBVIOUS
<1>3. /\ h # l /\ h[1] = l[2] /\ h[2] = l[1] /\ Rev(h) = l /\ l[1] # l[2]
      /\ l[1] \in Servers /\ l[2] \in Servers /\ Rev(l) = h
  BY <1>1, RevOK
<1>4. /\ q[l] # << >> /\ Head(q[l]).type = "CLOSE" /\ conn[h] = "up"
      /\ conn' = [conn EXCEPT ![h] = "down"] /\ client' = Removed(h[1], UsersOn(gone))
      /\ q' = Sent(Popped(l), h[1], h[2], << >>, <<Squit(gone)>>)
      /\ UNCHANGED <<counters, phase, history>>
  BY <1>1, <1>2, <1>3 DEF RecvClose, Received, Lose, Rev, Squit
<1>5. PICK m \in Message : m = Head(q[l]) /\ m = Closing /\ Has(q[l], m)
  BY <1>4, PoppedTakes DEF Message, Closing
<1>6. LinkKnows(l) /\ LinkKnows(h)
  BY LinkKnowsBefore
<1>7. conn[l] = "down"
  BY <1>5, <1>6 DEF LinkKnows
<1>8. conn'[h] = "down" /\ conn'[l] = "down"
  BY <1>3, <1>4, <1>7, IInvParts DEF Rest
<1>9. /\ \A k \in Links : Popped(l)[k] = IF k = l THEN Tail(q[l]) ELSE q[k]
      /\ q[l] \in Seq(Message)
  BY <1>4, PoppedTakes
<1>10. \A k \in Links : q'[k] = IF k[1] # h[1] \/ ~Open(k) THEN Popped(l)[k]
                        ELSE Popped(l)[k] \o (IF k[2] = h[2] THEN << >> ELSE <<Squit(gone)>>)
  BY <1>4 DEF Sent
<1>11. ASSUME NEW k \in Links, k # h, k[1] = h[1] PROVE k[2] # h[2]
  <2>1. k = <<k[1], k[2]>> /\ h = <<h[1], h[2]>>
    BY LinkEnds
  <2> QED BY <1>11, <2>1
<1>12. Cut(h, gone)
  <2>1. \A k \in Links : k # h /\ k # l =>
          q'[k] = IF k[1] = h[1] /\ Open(k) THEN q[k] \o <<Squit(gone)>> ELSE q[k]
    BY <1>9, <1>10, <1>11
  <2> QED BY <1>2, <1>3, <1>4, <2>1 DEF Cut
<1>13. ~Open(h) /\ ~Open(l) /\ ~Open(h)' /\ ~Open(l)'
  BY <1>3, <1>7, <1>8 DEF Open, Rev
<1>14. q'[l] = Tail(q[l]) /\ q'[h] = q[h]
  BY <1>3, <1>9, <1>10, <1>13
<1>15. claims \subseteq claims' /\ opered \subseteq opered'
  BY <1>4 DEF history
<1>16. LinkKnows(l)'
  <2>1. ASSUME NEW i \in DOMAIN q'[l] PROVE Good(l, q[l][i])'
    <3>1. PICK n : n = q'[l][i]
      OBVIOUS
    <3>2. Has(q[l], n)
      <4>1. i \in DOMAIN Tail(q[l]) /\ n = Tail(q[l])[i]
        BY <1>14, <3>1
      <4>2. i + 1 \in DOMAIN q[l] /\ Tail(q[l])[i] = q[l][i + 1]
        BY <1>4, <1>9, <4>1, HasTail
      <4> QED BY <4>1, <4>2 DEF Has
    <3>3. Good(l, n)
      BY <1>6, <3>2 DEF LinkKnows, Has
    <3>4. Good(l, n)'
      BY <1>15, <3>3, GoodStays
    <3> QED BY <3>1, <3>4 DEF Good, ClaimOf, Up, Doomed
  <2>2. conn'[l] = "down" /\ conn'[Rev(l)] = "down"
    BY <1>3, <1>8
  <2> QED BY <2>1, <2>2 DEF LinkKnows, Has, Closing, Rev
<1>17. LinkKnows(h)'
  <2>1. ASSUME NEW i \in DOMAIN q'[h] PROVE Good(h, q[h][i])'
    <3>1. PICK n : n = q'[h][i]
      OBVIOUS
    <3>2. Good(h, n)
      BY <1>6, <1>14, <2>1, <3>1 DEF LinkKnows
    <3>3. Good(h, n)'
      BY <1>15, <3>2, GoodStays
    <3> QED BY <3>1, <3>3 DEF Good, ClaimOf, Up, Doomed
  <2>2. conn'[h] = "down" /\ conn'[Rev(h)] = "down"
    BY <1>3, <1>8
  <2> QED BY <2>1, <2>2 DEF LinkKnows, Has, Closing, Rev
<1>18. ASSUME NEW u \in Users, Clear(u), Up(l, u) PROVE LinkTracks(l, u)'
  <2>1. LinkTracks(l, u) /\ Doomed(u)' = Doomed(u)
    BY <1>12, <1>18, LinkBefore, CutRest
  <2>2. Seen(l[2], u)' = Absent
    BY <1>3, <1>12, <1>18, CutSeen DEF Up
  <2>3. Final(l, u)' = Absent /\ Final(l, u) = Absent
    BY <1>13 DEF Final
  <2>4. After(m, u, Seen(l[2], u)) = Absent
    BY <1>5 DEF After, About, Closing
  <2>5. Leads(Tail(q[l]), u, Doomed(u), Absent, Absent)
    BY <1>4, <1>5, <1>9, <2>1, <2>3, <2>4, LeadsTail DEF LinkTracks
  <2>6. LinkTracks(l, u)' <=> Leads(q'[l], u, Doomed(u)', Seen(l[2], u)', Final(l, u)')
    BY DEF LinkTracks
  <2> QED BY <1>14, <2>1, <2>2, <2>3, <2>5, <2>6
<1>19. ASSUME NEW u \in Users, Clear(u), Up(h, u) PROVE LinkTracks(h, u)'
  <2>1. LinkTracks(h, u) /\ Doomed(u)' = Doomed(u)
    BY <1>12, <1>19, LinkBefore, CutRest
  <2>2. Seen(h[2], u)' = Seen(h[2], u)
    BY <1>3, <1>12, CutSeen
  <2>3. Final(h, u)' = Absent /\ Final(h, u) = Absent
    BY <1>13 DEF Final
  <2>4. LinkTracks(h, u)' <=> Leads(q'[h], u, Doomed(u)', Seen(h[2], u)', Final(h, u)')
    BY DEF LinkTracks
  <2> QED BY <1>14, <2>1, <2>2, <2>3, <2>4 DEF LinkTracks
<1>20. /\ \A k \in Links : LinkKnows(k)'
       /\ \A k \in Links, u \in Users : Clear(u)' /\ Clear(u) /\ Up(k, u) => LinkTracks(k, u)'
  <2> SUFFICES ASSUME NEW k \in Links
               PROVE  /\ LinkKnows(k)'
                      /\ \A u \in Users : Clear(u) /\ Up(k, u) => LinkTracks(k, u)'
    OBVIOUS
  <2>1. CASE k # l /\ k # h
    BY <1>3, <1>12, <2>1, CutLink
  <2>2. CASE k = l
    <3>1. LinkKnows(k)'
      BY <1>16, <2>2
    <3> QED BY <1>18, <2>2, <3>1
  <2>3. CASE k = h
    <3>1. LinkKnows(k)'
      BY <1>17, <2>3
    <3> QED BY <1>19, <2>3, <3>1
  <2> QED BY <2>1, <2>2, <2>3
<1>21. Blamed' /\ Stated' /\ Apart'
  BY <1>12, CutRest
<1> QED BY <1>15, <1>20, <1>21, PerLink

-----------------------------------------------------------------------------
(* Links that are made *)

\* Every client that is registered is in the burst once.
LEMMA BurstOnce ==
  ASSUME NEW s, NEW order \in Orders(Registered(s)), NEW u \in Users
  PROVE  /\ Known(s, u) <=> \E i \in DOMAIN order : order[i] = u
         /\ \A i, j \in DOMAIN order : order[i] = order[j] => i = j
<1> DEFINE R == Registered(s)
           n == Cardinality(R)
<1>1. IsFiniteSet(R) /\ n \in Nat
  <2>1. R \subseteq Users
    BY DEF Registered
  <2> QED BY <2>1, NickBounds, FS_Subset, FS_CardinalityType
<1>2. order \in [1..n -> R] /\ \A i, j \in 1..n : order[i] = order[j] => i = j
  BY DEF Orders
<1>3. ASSUME u \in R, \A i \in 1..n : order[i] # u PROVE FALSE
  <2> DEFINE T == R \ {u}
  <2>1. IsFiniteSet(T) /\ Cardinality(T) = n - 1
    BY <1>1, <1>3, FS_RemoveElement
  <2>2. IsFiniteSet(1..n) /\ Cardinality(1..n) = n
    BY <1>1, FS_Interval
  <2>3. order \in [1..n -> T]
    BY <1>2, <1>3
  <2>4. Cardinality(T) < Cardinality(1..n)
    BY <1>1, <2>1, <2>2
  <2> HIDE DEF T, n
  <2>5. \E i, j \in 1..n : i # j /\ order[i] = order[j]
    BY <2>1, <2>2, <2>3, <2>4, FS_PigeonHole
  <2> QED BY <1>2, <2>5
<1>4. u \in R <=> Known(s, u)
  BY DEF Registered
<1> HIDE DEF R, n
<1> QED BY <1>2, <1>3, <1>4

LEMMA BurstSays ==
  ASSUME IInv, NEW s \in Servers, NEW order \in Orders(Registered(s))
  PROVE  /\ Burst(s, order) \in Seq(Message) /\ DOMAIN Burst(s, order) = DOMAIN order
         /\ \A i \in DOMAIN order :
              /\ order[i] \in Users /\ Known(s, order[i])
              /\ Burst(s, order)[i] = Claimed("UID", order[i], client[s][order[i]])
              /\ Burst(s, order)[i].type = "UID" /\ Burst(s, order)[i].user = order[i]
              /\ ClaimOf(order[i], Burst(s, order)[i]) = ClaimOf(order[i], Seen(s, order[i]))
         /\ \A w : ~HasKill(Burst(s, order), w)
         /\ ~Has(Burst(s, order), Closing)
<1> DEFINE b == Burst(s, order)
<1>1. b \in Seq(Message)
  BY BurstOK
<1>2. DOMAIN b = DOMAIN order
  BY DEF Burst
<1>3. ASSUME NEW i \in DOMAIN order
      PROVE  /\ order[i] \in Users /\ Known(s, order[i])
             /\ b[i] = Claimed("UID", order[i], client[s][order[i]])
             /\ b[i].type = "UID" /\ b[i].user = order[i]
             /\ ClaimOf(order[i], b[i]) = ClaimOf(order[i], Seen(s, order[i]))
  <2>1. order[i] \in Users /\ Known(s, order[i])
    BY DEF Orders, Registered
  <2>2. client[s][order[i]] \in Entry /\ Seen(s, order[i]) = client[s][order[i]]
    BY <2>1, KnownSeen
  <2>3. b[i] = Claimed("UID", order[i], client[s][order[i]])
    BY DEF Burst
  <2> HIDE DEF b
  <2> QED BY <2>1, <2>2, <2>3, ClaimedAfter
<1> HIDE DEF b
<1>4. (\A w : ~HasKill(b, w)) /\ ~Has(b, Closing)
  BY <1>2, <1>3 DEF Has, HasKill, IsKill, Closing
<1> QED BY <1>1, <1>2, <1>3, <1>4 DEF b

LEMMA LeadsBurst ==
  ASSUME IInv, NEW s \in Servers, NEW order \in Orders(Registered(s)), NEW u \in Users, NEW j
  PROVE  /\ Leads(Burst(s, order), u, j, Absent, Seen(s, u))
         /\ HasUid(Burst(s, order), u) => Known(s, u)
<1> DEFINE b == Burst(s, order)
           f == [i \in 0..Len(b) |-> IF \E k \in 1..i : order[k] = u THEN client[s][u]
                                     ELSE Absent]
<1>1. b \in Seq(Message) /\ DOMAIN b = DOMAIN order /\ DOMAIN b = 1..Len(b) /\ Len(b) \in Nat
  <2>1. b \in Seq(Message) /\ DOMAIN b = DOMAIN order
    BY BurstSays
  <2> HIDE DEF b
  <2> QED BY <2>1
<1>2. DOMAIN b = DOMAIN order
  BY <1>1
<1>3. \A i \in DOMAIN order :
        /\ order[i] \in Users /\ Known(s, order[i])
        /\ b[i] = Claimed("UID", order[i], client[s][order[i]])
        /\ b[i].type = "UID" /\ b[i].user = order[i]
  BY BurstSays
<1>4. /\ Known(s, u) <=> \E i \in DOMAIN order : order[i] = u
      /\ \A i, k \in DOMAIN order : order[i] = order[k] => i = k
  BY BurstOnce
<1>5. /\ Known(s, u) => client[s][u] \in Entry /\ Seen(s, u) = client[s][u]
      /\ ~Known(s, u) => Seen(s, u) = Absent
  BY KnownSeen
<1> HIDE DEF b
<1>6. f \in [0..Len(b) -> Views] /\ f[0] = Absent
  <2>1. ASSUME NEW i \in 0..Len(b) PROVE f[i] \in Views
    <3>1. (\E k \in 1..i : order[k] = u) => Known(s, u)
      BY <1>1, <1>2, <1>4
    <3> QED BY <1>5, <3>1 DEF Views
  <2> QED BY <1>1, <2>1
<1>7. f[Len(b)] = Seen(s, u)
  BY <1>1, <1>2, <1>4, <1>5
<1>8. Follows(b, u, j, f)
  <2> SUFFICES ASSUME NEW i \in 1..Len(b)
               PROVE  f[i] = After(b[i], u, f[i-1]) /\ Allowed(b[i], u, j, f[i-1])
    BY DEF Follows
  <2>0. i - 1 \in 0..Len(b) /\ i \in 0..Len(b) /\ i \in DOMAIN b
    BY <1>1
  <2>1. CASE order[i] = u
    <3>1. \E k \in 1..i : order[k] = u
      BY <2>1
    <3>2. ~\E k \in 1..(i-1) : order[k] = u
      BY <1>1, <1>2, <1>4, <2>1
    <3>3. f[i] = client[s][u] /\ f[i-1] = Absent
      BY <2>0, <3>1, <3>2
    <3>4. b[i] = Claimed("UID", u, client[s][u]) /\ client[s][u] \in Entry
      BY <1>2, <1>3, <1>4, <1>5, <2>0, <2>1
    <3>5. After(b[i], u, Absent) = client[s][u] /\ b[i].type = "UID"
      BY <3>4, ClaimedAfter
    <3> HIDE DEF f
    <3> QED BY <3>3, <3>5 DEF Allowed, Says
  <2>2. CASE order[i] # u
    <3>1. (\E k \in 1..i : order[k] = u) <=> \E k \in 1..(i-1) : order[k] = u
      BY <2>2
    <3>2. f[i] = f[i-1]
      BY <2>0, <3>1
    <3>3. b[i].type = "UID" /\ b[i].user # u
      BY <1>2, <1>3, <2>0, <2>2
    <3> HIDE DEF f
    <3> QED BY <3>2, <3>3 DEF After, About, Allowed, Uid, Says
  <2> QED BY <2>1, <2>2
<1>9. Leads(b, u, j, Absent, Seen(s, u))
  BY <1>6, <1>7, <1>8 DEF Leads
<1>10. HasUid(b, u) => Known(s, u)
  BY <1>2, <1>3 DEF HasUid, Uid
<1> QED BY <1>9, <1>10 DEF b

\* What a server introduces on link k are users on its side.
LEMMA BurstGood ==
  ASSUME IInv, Knowledge, NEW k \in Links, NEW order \in Orders(Registered(k[1])),
         \A u \in Users : Up(Rev(k), u) => Seen(k[1], u) = Absent,
         NEW n, Has(Burst(k[1], order), n)
  PROVE  Good(k, n)
<1> DEFINE b == Burst(k[1], order)
<1>1. k[1] \in Servers
  BY RevOK
<1>2. PICK i \in DOMAIN b : n = b[i]
  BY DEF Has
<1>3. PICK u \in Users : /\ n.type = "UID" /\ Known(k[1], u) /\ n.user = u
                         /\ ClaimOf(u, n) = ClaimOf(u, Seen(k[1], u))
  BY <1>1, <1>2, BurstSays
<1>4. Seen(k[1], u) # Absent
  BY <1>1, <1>3, KnownSeen
<1>5. Up(k, u)
  BY <1>4, UpOne
<1>6. ClaimOf(u, n) \in claims
  BY <1>1, <1>3, <1>4 DEF Knowledge, Stated
<1> QED BY <1>3, <1>5, <1>6 DEF Good

\* A link is made or comes up: the views and the rest of the links stay.
Joins(l, h) ==
  /\ UNCHANGED <<counters, phase, client, history>>
  /\ \A k \in Links : k # l /\ k # h => q'[k] = q[k] /\ conn'[k] = conn[k]
  /\ \A k \in Links : conn'[k] # "up" => conn[k] # "up"

LEMMA JoinRest ==
  ASSUME IInv, Knowledge, NEW l \in Links, NEW h, h = Rev(l), Joins(l, h)
  PROVE  /\ Blamed' /\ Stated' /\ Apart'
         /\ claims \subseteq claims' /\ opered \subseteq opered'
         /\ \A u : Doomed(u)' = Doomed(u)
         /\ \A s, u : Seen(s, u)' = Seen(s, u)
         /\ \A k \in Links : k # l /\ k # h =>
              /\ LinkKnows(k)'
              /\ \A u \in Users : Clear(u) /\ Up(k, u) => LinkTracks(k, u)'
<1>1. claims' = claims /\ opered' = opered /\ killed' = killed
      /\ client' = client /\ phase' = phase
  BY DEF Joins, history
<1>2. (\A u : Doomed(u)' = Doomed(u)) /\ \A s, u : Seen(s, u)' = Seen(s, u)
  BY <1>1 DEF Doomed, Seen, Known, Holds
<1>3. Blamed' /\ Stated'
  BY <1>1, <1>2 DEF Knowledge, Blamed, Stated, ClaimOf
<1>4. Apart'
  BY <1>2 DEF Knowledge, Apart, Joins
<1>5. ASSUME NEW k \in Links, k # l, k # h
      PROVE  /\ LinkKnows(k)'
             /\ \A u \in Users : Clear(u) /\ Up(k, u) => LinkTracks(k, u)'
  <2>1. Rev(k) \in Links /\ Rev(k) # l /\ Rev(k) # h /\ Rev(k) = <<k[2], k[1]>>
    BY <1>5, RevOK DEF Rev
  <2>2. /\ q'[k] = q[k] /\ q'[Rev(k)] = q[Rev(k)]
        /\ conn'[k] = conn[k] /\ conn'[Rev(k)] = conn[Rev(k)]
    BY <1>5, <2>1 DEF Joins
  <2>3. LinkKnows(k)'
    <3>1. LinkKnows(k)
      BY LinkKnowsBefore
    <3>2. ASSUME NEW i \in DOMAIN q'[k] PROVE Good(k, q[k][i])'
      <4>1. PICK n : n = q'[k][i]
        OBVIOUS
      <4>2. Good(k, n)
        BY <2>2, <3>1, <3>2, <4>1 DEF LinkKnows
      <4>3. Good(k, n)'
        BY <1>1, <4>2, GoodStays
      <4> QED BY <4>1, <4>3 DEF Good, ClaimOf, Up, Doomed
    <3> QED BY <2>2, <3>1, <3>2 DEF LinkKnows, Has, Closing, Rev
  <2>4. ASSUME NEW u \in Users, Clear(u), Up(k, u) PROVE LinkTracks(k, u)'
    <3>1. LinkTracks(k, u)
      BY <2>4, LinkBefore
    <3>2. Open(k)' <=> Open(k)
      BY <2>1, <2>2 DEF Open
    <3>3. Final(k, u)' = Final(k, u)
      BY <1>2, <2>2, <3>2 DEF Final, HasKill, IsKill, Rev
    <3>4. LinkTracks(k, u)' <=> Leads(q'[k], u, Doomed(u)', Seen(k[2], u)', Final(k, u)')
      BY DEF LinkTracks
    <3> QED BY <1>2, <2>2, <3>1, <3>3, <3>4 DEF LinkTracks
  <2> QED BY <2>3, <2>4
<1> QED BY <1>1, <1>2, <1>3, <1>4, <1>5

LEMMA JoinKnow ==
  ASSUME IInv, Knowledge, crossed => crossed', NEW l \in Links, NEW h, h = Rev(l), Joins(l, h),
         LinkKnows(l)', LinkKnows(h)',
         \A u \in Users : Clear(u)' /\ Clear(u) /\ Up(l, u) => LinkTracks(l, u)',
         \A u \in Users : Clear(u)' /\ Clear(u) /\ Up(h, u) => LinkTracks(h, u)'
  PROVE  Knowledge'
<1>1. ASSUME NEW k \in Links
      PROVE  /\ LinkKnows(k)'
             /\ \A u \in Users : Clear(u)' /\ Clear(u) /\ Up(k, u) => LinkTracks(k, u)'
  <2>1. CASE k # l /\ k # h
    BY <2>1, JoinRest
  <2>2. CASE k = l
    BY <2>2
  <2>3. CASE k = h
    BY <2>3
  <2> QED BY <2>1, <2>2, <2>3
<1> QED BY <1>1, JoinRest, PerLink

LEMMA ConnectKnow ==
  ASSUME IInv, Knowledge, crossed => crossed', NEW l \in Links, Connect(l)
  PROVE  Knowledge'
<1>1. PICK h \in Links : h = Rev(l)
  BY RevOK
<1>2. PICK m : m = [type |-> "SERVER"]
  OBVIOUS
<1>3. PICK order \in Orders(Registered(l[1])) : q' = [q EXCEPT ![l] = <<m>> \o Burst(l[1], order)]
  BY <1>2 DEF Connect
<1>4. PICK b : b = Burst(l[1], order)
  OBVIOUS
<1>5. /\ h # l /\ h[1] = l[2] /\ h[2] = l[1] /\ Rev(h) = l /\ l[1] # l[2]
      /\ l[1] \in Servers /\ l[2] \in Servers /\ Rev(l) = h /\ h = <<l[2], l[1]>>
  BY <1>1, RevOK DEF Rev
<1>6. /\ conn[l] = "down" /\ conn[h] = "down" /\ q[l] = << >> /\ q[h] = << >>
      /\ conn' = [conn EXCEPT ![l] = "up", ![h] = "wait"]
      /\ UNCHANGED <<counters, phase, client, history>>
  BY <1>5 DEF Connect
<1>7. /\ conn'[l] = "up" /\ conn'[h] = "wait"
      /\ \A k \in Links : k # l /\ k # h => conn'[k] = conn[k]
  BY <1>5, <1>6, IInvParts DEF Rest
<1>8. m \in Message /\ m.type = "SERVER" /\ b \in Seq(Message) /\ m # Closing
  BY <1>2, <1>4, <1>5, BurstSays DEF Message, Closing
<1>9. /\ q'[l] = <<m>> \o b /\ q'[h] = << >>
      /\ \A k \in Links : k # l => q'[k] = q[k]
  BY <1>3, <1>4, <1>5, <1>6, IInvParts DEF Queues
<1>10. Joins(l, h)
  BY <1>6, <1>7, <1>9 DEF Joins
<1>11. /\ <<m>> \in Seq(Message)
       /\ \A n : Has(<<m>> \o b, n) <=> n = m \/ Has(b, n)
  <2>1. <<m>> \in Seq(Message)
    BY <1>8
  <2>2. \A n : Has(<<m>> \o b, n) <=> Has(<<m>>, n) \/ Has(b, n)
    BY <1>8, <2>1, HasCat
  <2> QED BY <2>1, <2>2, OneHas
<1>12. ASSUME NEW u \in Users PROVE /\ Up(l, u) => Seen(l[2], u) = Absent
                                    /\ Up(h, u) => Seen(l[1], u) = Absent
  BY <1>5, <1>6 DEF Knowledge, Apart, Up
<1>13. /\ claims \subseteq claims' /\ opered \subseteq opered'
       /\ \A u : Doomed(u)' = Doomed(u)
       /\ \A s, u : Seen(s, u)' = Seen(s, u)
  BY <1>1, <1>10, JoinRest
<1>14. LinkKnows(l)'
  <2>1. ~Has(q'[l], Closing)
    BY <1>4, <1>5, <1>8, <1>9, <1>11, BurstSays
  <2>2. ASSUME NEW i \in DOMAIN q'[l] PROVE Good(l, q[l][i])'
    <3>1. PICK n : n = q'[l][i]
      OBVIOUS
    <3>2. n = m \/ Has(b, n)
      BY <1>9, <1>11, <2>2, <3>1 DEF Has
    <3>3. Good(l, n)
      <4>1. CASE n = m
        BY <1>8, <4>1 DEF Good
      <4>2. CASE Has(b, n)
        BY <1>1, <1>4, <1>12, <4>2, BurstGood
      <4> QED BY <3>2, <4>1, <4>2
    <3>4. Good(l, n)'
      BY <1>13, <3>3, GoodStays
    <3> QED BY <3>1, <3>4 DEF Good, ClaimOf, Up, Doomed
  <2> QED BY <1>7, <2>1, <2>2 DEF LinkKnows, Has, Closing, Rev
<1>15. LinkKnows(h)'
  <2>1. DOMAIN q'[h] = {}
    BY <1>9
  <2> QED BY <1>7, <2>1 DEF LinkKnows, Has, Closing, Rev
<1>16. ASSUME NEW u \in Users, Up(l, u) PROVE LinkTracks(l, u)'
  <2>1. Seen(l[2], u)' = Absent /\ Seen(l[1], u)' = Seen(l[1], u)
    BY <1>12, <1>13, <1>16
  <2>2. Open(l)' /\ ~HasKill(q'[h], u)
    BY <1>5, <1>7, <1>9 DEF Open, HasKill, Rev
  <2>3. Final(l, u)' = Seen(l[1], u)
    <3>1. Final(l, u)' = IF Open(l)' /\ ~HasKill(q'[h], u) THEN Seen(l[1], u)' ELSE Absent
      BY <1>1 DEF Final, HasKill, IsKill, Rev
    <3> QED BY <2>1, <2>2, <3>1
  <2>4. Leads(b, u, Doomed(u), Absent, Seen(l[1], u))
    BY <1>4, <1>5, LeadsBurst
  <2>5. Leads(<<m>>, u, Doomed(u), Absent, Absent)
    <3>1. Allowed(m, u, Doomed(u), Absent) /\ After(m, u, Absent) = Absent
      BY <1>8 DEF Allowed, Uid, Says, After, About
    <3> QED BY <1>8, <3>1, LeadsOne DEF Views
  <2>6. Leads(<<m>> \o b, u, Doomed(u), Absent, Seen(l[1], u))
    BY <1>8, <1>11, <2>4, <2>5, LeadsCat
  <2>7. LinkTracks(l, u)' <=> Leads(q'[l], u, Doomed(u)', Seen(l[2], u)', Final(l, u)')
    BY DEF LinkTracks
  <2> QED BY <1>9, <1>13, <2>1, <2>3, <2>6, <2>7
<1>17. ASSUME NEW u \in Users, Up(h, u) PROVE LinkTracks(h, u)'
  <2>1. Seen(h[2], u)' = Absent
    BY <1>5, <1>12, <1>13, <1>17
  <2>2. Final(h, u)' = Absent
    BY <1>7 DEF Final, Open
  <2>3. LinkTracks(h, u)' <=> Leads(q'[h], u, Doomed(u)', Seen(h[2], u)', Final(h, u)')
    BY DEF LinkTracks
  <2> QED BY <1>9, <2>1, <2>2, <2>3, LeadsNil DEF Views
<1> QED BY <1>1, <1>10, <1>14, <1>15, <1>16, <1>17, JoinKnow

LEMMA RecvServerKnow ==
  ASSUME IInv, Knowledge, crossed => crossed', (Crossing => crossed)',
         NEW l \in Links, RecvServer(l)
  PROVE  Knowledge'
<1>1. PICK h \in Links : h = Rev(l)
  BY RevOK
<1>2. /\ h # l /\ h[1] = l[2] /\ h[2] = l[1] /\ Rev(h) = l /\ l[1] # l[2]
      /\ l[1] \in Servers /\ l[2] \in Servers /\ Rev(l) = h /\ h = <<l[2], l[1]>>
  BY <1>1, RevOK DEF Rev
<1>3. PICK order \in Orders(Registered(l[2])) :
        q' = [q EXCEPT ![l] = Tail(@),
                       ![<<l[2], l[1]>>] = IF conn[l] = "down" THEN @
                                           ELSE @ \o Burst(l[2], order)]
  BY DEF RecvServer
<1>4. PICK b : b = Burst(l[2], order)
  OBVIOUS
<1>21. q' = [q EXCEPT ![l] = Tail(@), ![h] = IF conn[l] = "down" THEN @ ELSE @ \o b]
  BY <1>2, <1>3, <1>4
<1>22. order \in Orders(Registered(h[1])) /\ b = Burst(h[1], order) /\ h[1] \in Servers
  BY <1>2, <1>3, <1>4
<1>5. /\ conn[h] = "wait" /\ q[l] # << >> /\ Head(q[l]).type = "SERVER"
      /\ conn' = [conn EXCEPT ![h] = "up"]
      /\ UNCHANGED <<counters, phase, client, history>>
  BY <1>2 DEF RecvServer
<1>6. PICK m \in Message : m = Head(q[l]) /\ m.type = "SERVER" /\ m # Closing
  BY <1>5, PoppedTakes DEF Closing
<1>7. conn'[h] = "up" /\ \A k \in Links : k # h => conn'[k] = conn[k]
  BY <1>5, IInvParts DEF Rest
<1>8. b \in Seq(Message) /\ \A k \in Links : q[k] \in Seq(Message)
  BY <1>22, BurstSays, IInvParts DEF Queues
<1>9. /\ q'[l] = Tail(q[l])
      /\ (conn[l] = "down" => q'[h] = q[h])
      /\ (conn[l] # "down" => q'[h] = q[h] \o b)
      /\ (\A k \in Links : k # l /\ k # h => q'[k] = q[k])
  <2>1. q \in [Links -> Seq(Message)]
    BY IInvParts DEF Queues
  <2> QED BY <1>2, <1>21, <2>1
<1>10. Joins(l, h)
  BY <1>5, <1>7, <1>9 DEF Joins
<1>11. /\ claims \subseteq claims' /\ opered \subseteq opered'
       /\ \A u : Doomed(u)' = Doomed(u)
       /\ \A s, u : Seen(s, u)' = Seen(s, u)
  BY <1>1, <1>10, JoinRest
<1>12. q'[l] = Tail(q[l])
  BY <1>9
<1>13. \A n : Has(q[l], n) <=> n = m \/ Has(q'[l], n)
  BY <1>5, <1>6, <1>8, <1>12, HasTail
<1>14. LinkKnows(l) /\ LinkKnows(h)
  BY LinkKnowsBefore
<1>15. LinkKnows(l)'
  <2>1. Has(q'[l], Closing) <=> Has(q[l], Closing)
    BY <1>6, <1>13
  <2>2. ASSUME NEW i \in DOMAIN q'[l] PROVE Good(l, q[l][i])'
    <3>1. PICK n : n = q'[l][i]
      OBVIOUS
    <3>2. Has(q[l], n)
      BY <1>13, <2>2, <3>1 DEF Has
    <3>3. Good(l, n)
      BY <1>14, <3>2 DEF LinkKnows, Has
    <3>4. Good(l, n)'
      BY <1>11, <3>3, GoodStays
    <3> QED BY <3>1, <3>4 DEF Good, ClaimOf, Up, Doomed
  <2>3. conn'[l] = conn[l] /\ conn[Rev(l)] = "wait"
    BY <1>2, <1>5, <1>7
  <2> QED BY <1>14, <2>1, <2>2, <2>3 DEF LinkKnows, Has, Closing, Rev
<1>16. \A n : Has(q[h] \o b, n) <=> Has(q[h], n) \/ Has(b, n)
  BY <1>8, HasCat
<1>17. ASSUME NEW u \in Users, Up(l, u) PROVE Seen(h[1], u) = Absent
  BY <1>2, <1>5, <1>17 DEF Knowledge, Apart, Up
<1>18. LinkKnows(h)'
  <2>1. ~Has(q[h], Closing)
    BY <1>5, <1>14 DEF LinkKnows
  <2>2. ~Has(q'[h], Closing)
    <3>1. ~Has(b, Closing)
      BY <1>22, BurstSays
    <3> QED BY <1>9, <1>16, <2>1, <3>1
  <2>3. ASSUME NEW i \in DOMAIN q'[h] PROVE Good(h, q[h][i])'
    <3>1. PICK n : n = q'[h][i]
      OBVIOUS
    <3>2. Has(q[h], n) \/ Has(b, n)
      BY <1>9, <1>16, <2>3, <3>1 DEF Has
    <3>3. Good(h, n)
      <4>1. CASE Has(q[h], n)
        BY <1>14, <4>1 DEF LinkKnows, Has
      <4>2. CASE Has(b, n)
        BY <1>2, <1>22, <1>17, <4>2, BurstGood
      <4> QED BY <3>2, <4>1, <4>2
    <3>4. Good(h, n)'
      BY <1>11, <3>3, GoodStays
    <3> QED BY <3>1, <3>4 DEF Good, ClaimOf, Up, Doomed
  <2> QED BY <1>7, <2>2, <2>3 DEF LinkKnows, Has, Closing, Rev
<1>19. ASSUME NEW u \in Users, Clear(u), Up(l, u) PROVE LinkTracks(l, u)'
  <2>1. LinkTracks(l, u) /\ Seen(l[2], u) \in Views
    BY <1>2, <1>19, LinkBefore, KnownSeen
  <2>2. After(m, u, Seen(l[2], u)) = Seen(l[2], u)
    BY <1>6 DEF After, About
  <2>3. Leads(Tail(q[l]), u, Doomed(u), Seen(l[2], u), Final(l, u))
    BY <1>5, <1>6, <1>8, <2>1, <2>2, LeadsTail DEF LinkTracks
  <2>4. Open(l)' <=> Open(l)
    BY <1>2, <1>5, <1>7 DEF Open
  <2>5. HasKill(q'[h], u) <=> HasKill(q[h], u)
    <3>1. ~HasKill(b, u)
      BY <1>22, BurstSays
    <3> QED BY <1>9, <1>16, <3>1, KillSaid
  <2>6. Final(l, u)' = Final(l, u)
    <3>1. Final(l, u)' = IF Open(l)' /\ ~HasKill(q'[h], u) THEN Seen(l[1], u)' ELSE Absent
      BY <1>1 DEF Final, HasKill, IsKill, Rev
    <3>2. Final(l, u) = IF Open(l) /\ ~HasKill(q[h], u) THEN Seen(l[1], u) ELSE Absent
      BY <1>1 DEF Final
    <3> QED BY <1>11, <2>4, <2>5, <3>1, <3>2
  <2>7. LinkTracks(l, u)' <=> Leads(q'[l], u, Doomed(u)', Seen(l[2], u)', Final(l, u)')
    BY DEF LinkTracks
  <2> QED BY <1>11, <1>12, <2>3, <2>6, <2>7
<1>20. ASSUME NEW u \in Users, Clear(u), Clear(u)', Up(h, u) PROVE LinkTracks(h, u)'
  <2>1. LinkTracks(h, u)
    BY <1>20, LinkBefore
  <2>2. Final(h, u) = Absent
    BY <1>5 DEF Final, Open
  <2>3. Leads(q[h], u, Doomed(u), Seen(h[2], u), Absent)
    BY <2>1, <2>2 DEF LinkTracks
  <2>4. Final(h, u)' = IF Open(h)' /\ ~HasKill(q'[l], u) THEN Seen(h[1], u) ELSE Absent
    <3>1. Final(h, u)' = IF Open(h)' /\ ~HasKill(q'[l], u) THEN Seen(h[1], u)' ELSE Absent
      BY <1>1, <1>2 DEF Final, HasKill, IsKill, Rev
    <3> QED BY <1>11, <3>1
  <2>5. Open(h)' <=> conn[l] # "down"
    <3>1. l \in Links /\ l = <<h[2], h[1]>> /\ conn'[l] = conn[l]
      BY <1>2, <1>7, LinkEnds
    <3> QED BY <1>7, <3>1 DEF Open
  <2>6. Leads(q'[h], u, Doomed(u), Seen(h[2], u), Final(h, u)')
    <3>1. CASE conn[l] = "down"
      BY <1>9, <2>3, <2>4, <2>5, <3>1
    <3>2. CASE conn[l] # "down" /\ ~HasKill(q'[l], u)
      <4>1. Leads(b, u, Doomed(u), Absent, Seen(h[1], u))
        BY <1>2, <1>22, <1>17, LeadsBurst
      <4>2. Leads(q[h] \o b, u, Doomed(u), Seen(h[2], u), Seen(h[1], u))
        BY <1>8, <2>3, <4>1, LeadsCat
      <4> QED BY <1>9, <2>4, <2>5, <3>2, <4>2
    <3>3. CASE conn[l] # "down" /\ HasKill(q'[l], u)
      <4>1. Doomed(u) /\ Doomed(u)'
        <5>1. HasKill(q[l], u)
          BY <1>13, <3>3, KillSaid
        <5> QED BY <1>11, <5>1, KillDooms DEF Knowledge
      <4>2. HasKill(q[Rev(h)], u)'
        <5>1. Rev(h)' = l
          BY <1>2 DEF Rev
        <5> QED BY <1>2, <3>3, <5>1 DEF HasKill, IsKill, Rev
      <4>3. ~HasUid(q'[h], u)
        <5>1. ~HasUid(q[h], u)'
          BY <1>20, <4>1, <4>2, NotCrossed
        <5> QED BY <5>1 DEF HasUid, Uid
      <4>4. ~HasUid(b, u)
        <5>1. HasUid(q[h] \o b, u) <=> HasUid(q[h], u) \/ HasUid(b, u)
          BY <1>8, UidCat
        <5> QED BY <1>9, <3>3, <4>3, <5>1
      <4>5. Leads(b, u, TRUE, Absent, Absent)
        BY <1>8, <4>4, LeadsDead DEF HasUid
      <4>6. Leads(q[h] \o b, u, TRUE, Seen(h[2], u), Absent)
        BY <1>8, <2>3, <4>1, <4>5, LeadsCat DEF Doomed
      <4> QED BY <1>9, <2>4, <3>3, <4>1, <4>6 DEF Doomed
    <3> QED BY <3>1, <3>2, <3>3
  <2>7. LinkTracks(h, u)' <=> Leads(q'[h], u, Doomed(u)', Seen(h[2], u)', Final(h, u)')
    BY DEF LinkTracks
  <2> QED BY <1>11, <2>6, <2>7
<1> QED BY <1>1, <1>10, <1>15, <1>18, <1>19, <1>20, JoinKnow


-----------------------------------------------------------------------------
(* The theorems *)

LEMMA InitKnowledge == Init => Knowledge
<1> SUFFICES ASSUME Init PROVE Knowledge
  OBVIOUS
<1>1. IInv
  BY InitIInv
<1>2. /\ \A l \in Links : q[l] = << >> /\ conn[l] = "up"
      /\ \A s \in Servers, u \in Users : client[s][u] = Absent
      /\ claims = {} /\ killed = {} /\ opered = {}
  BY DEF Init
<1>3. \A s \in Servers, u \in Users : Seen(s, u) = Absent
  BY <1>2 DEF Seen, Known, Holds
<1>4. \A l \in Links : \A n : ~Has(q[l], n)
  BY <1>2 DEF Has
<1>5. Blamed /\ Honest
  BY <1>2 DEF Blamed, Honest
<1>6. Stated /\ Apart
  BY <1>3, LinkEnds DEF Stated, Apart
<1>7. Ends
  BY <1>2, <1>4 DEF Ends
<1>8. Tracks
  <2> SUFFICES ASSUME NEW u \in Users, NEW l \in Links
               PROVE  Leads(q[l], u, Doomed(u), Seen(l[2], u), Final(l, u))
    BY DEF Tracks
  <2>1. Seen(l[2], u) = Absent /\ Final(l, u) = Absent
    BY <1>3, LinkEnds DEF Final
  <2>2. Absent \in Views
    BY DEF Views
  <2> QED BY <1>2, <2>1, <2>2, LeadsNil
<1> QED BY <1>5, <1>6, <1>7, <1>8 DEF Knowledge

\* crossed records every crossing.
Noted == Crossing => crossed

LEMMA InitNoted == Init => Noted
<1>1. Init => \A l \in Links : q[l] = << >>
  BY DEF Init
<1>2. ASSUME Init PROVE ~Meeting /\ ~Orphaned
  <2>1. \A l \in Links : DOMAIN q[l] = {}
    BY <1>1, <1>2
  <2> QED BY <1>1, <1>2, <2>1 DEF Meeting, Orphaned
<1> QED BY <1>2 DEF Noted, Crossing

LEMMA NextNoted == Noted /\ [Next]_vars => Noted'
<1> SUFFICES ASSUME Noted, [Next]_vars PROVE Noted'
  OBVIOUS
<1>1. CASE UNCHANGED vars
  <2>1. UNCHANGED <<q, client, phase, crossed>>
    BY <1>1 DEF vars
  <2>2. Crossing' = Crossing
    BY <2>1 DEF Crossing, Meeting, Orphaned, Stranger, Known, Holds
  <2> QED BY <2>1, <2>2 DEF Noted
<1>2. CASE Next
  BY <1>2 DEF Next, Noted
<1> QED BY <1>1, <1>2

LEMMA NextKnowledge == IInv /\ Knowledge /\ Noted /\ [Next]_vars => Knowledge'
<1> SUFFICES ASSUME IInv, Knowledge, Noted, [Next]_vars PROVE Knowledge'
  OBVIOUS
<1>1. CASE UNCHANGED vars
  <2>1. UNCHANGED <<conn, q, claims, killed, opered, client, phase, crossed>>
    BY <1>1 DEF vars
  <2>2. \A t \in Servers, u \in Users : Seen(t, u)' = Seen(t, u)
    BY <2>1 DEF Seen, Known, Holds
  <2> QED BY <2>1, <2>2, StillKnowledge
<1>2. CASE Next
  <2>1. (crossed => crossed') /\ (Crossing => crossed)'
    BY <1>2 DEF Next
  <2>2. ASSUME NEW u \in Users, NEW n \in Nicks, FirstNick(u, n) \/ ChangeNick(u, n)
        PROVE  Knowledge'
    BY <2>1, <2>2, FirstNickKnow, ChangeNickKnow
  <2>3. ASSUME NEW u \in Users, Register(u) \/ Quit(u) PROVE Knowledge'
    BY <2>1, <2>3, RegisterKnow, QuitKnow
  <2>4. ASSUME NEW u \in Users, NEW o \in Users, OperKill(o, u) PROVE Knowledge'
    BY <2>1, <2>4, OperKillKnow
  <2>5. ASSUME NEW l \in Links, Deliver(l) PROVE Knowledge'
    BY <2>1, <2>5, RecvUidKnow, RecvNickKnow, RecvQuitKnow, RecvKillKnow,
       RecvSquitKnow, RecvCloseKnow, RecvServerKnow DEF Deliver, Noted
  <2>6. ASSUME NEW l \in Links, Break(l) \/ Connect(l) PROVE Knowledge'
    BY <2>1, <2>6, BreakKnow, ConnectKnow
  <2>7. CASE Tick
    <3>1. UNCHANGED <<conn, q, claims, killed, opered, client, phase>>
      BY <2>7 DEF Tick, history
    <3>2. \A t \in Servers, u \in Users : Seen(t, u)' = Seen(t, u)
      BY <3>1 DEF Seen, Known, Holds
    <3> QED BY <2>1, <3>1, <3>2, StillKnowledge
  <2> QED BY <1>2, <2>2, <2>3, <2>4, <2>5, <2>6, <2>7 DEF Next, Step
<1> QED BY <1>1, <1>2

\* A link in quiet, where no KILL has crossed a UID or lost its sender, leaves one view of each user at both ends.
LEMMA QuietAgrees ==
  ASSUME IInv, Knowledge, Quiet, ~crossed, NEW l \in Links, conn[l] = "up",
         NEW u \in Users, Up(l, u)
  PROVE  Seen(l[2], u) = Seen(l[1], u)
<1>1. PICK h \in Links : h = Rev(l)
  BY RevOK
<1>2. q[l] = << >> /\ q[h] = << >> /\ conn[h] # "wait"
  BY DEF Quiet
<1>3. conn[h] # "down"
  <2>1. Rev(h) = l
    BY <1>1, RevOK
  <2>2. ~Has(q[h], Closing)
    BY <1>2 DEF Has
  <2> QED BY <2>1, <2>2 DEF Knowledge, Ends
<1>4. Open(l) /\ ~HasKill(q[Rev(l)], u)
  BY <1>1, <1>2, <1>3 DEF Open, HasKill, Rev
<1>5. Final(l, u) = Seen(l[1], u)
  BY <1>4 DEF Final
<1>6. Leads(<< >>, u, Doomed(u), Seen(l[2], u), Final(l, u))
  BY <1>2 DEF Knowledge, Tracks, Clear
<1> QED BY <1>5, <1>6, LeadsEmpty

LEMMA QuietSame == IInv /\ Knowledge => NickAgreement
<1> SUFFICES ASSUME IInv, Knowledge, Quiet, ~crossed, NEW l \in Links, conn[l] = "up",
                    NEW u \in Users
             PROVE  Seen(l[1], u) = Seen(l[2], u)
  BY DEF NickAgreement, SameClients
<1>1. CASE Up(l, u)
  BY <1>1, QuietAgrees
<1>2. CASE ~Up(l, u)
  <2>1. PICK h \in Links : h = Rev(l)
    BY RevOK
  <2>2. Up(h, u) /\ h[1] = l[2] /\ h[2] = l[1]
    BY <1>2, <2>1, UpOne, RevOK
  <2>3. conn[h] = "up"
    <3>1. conn[h] # "wait" /\ ~Has(q[h], Closing)
      BY DEF Quiet, Has
    <3>2. conn[h] # "down"
      BY <2>1, <3>1, RevOK DEF Knowledge, Ends
    <3> QED BY <3>1, <3>2, IInvParts DEF Rest
  <2> QED BY <2>2, <2>3, QuietAgrees
<1> QED BY <1>1, <1>2

\* On any tree of servers, for any number of users, nicks, broken links and nick
\* changes, a user the servers kill over a nick has once claimed a nick that
\* another user has a better claim to: nobody loses his nick to a younger claim
\* (perform_nick_collides), and no KILL is made up on the way.
THEOREM KillJust == Spec => []KillsJustified
<1>1. Knowledge => KillsJustified
  BY DEF Knowledge, Blamed, Doomed, KillsJustified
<1> QED BY InitIInv, NextIInv, InitKnowledge, NextKnowledge, InitNoted, NextNoted,
       <1>1, PTL DEF Spec

\* On any tree of servers, once every message is handled, two linked servers have
\* the same users under the same nicks since the same time, however UID, NICK,
\* QUIT, KILL, SQUIT and the bursts of new links ran past each other, unless a
\* KILL has met the UID of its target on a link, or was dropped by a server that
\* had lost its sender (parse.c 273-288).
THEOREM NicksAgree == Spec => []NickAgreement
<1> QED BY InitIInv, NextIInv, InitKnowledge, NextKnowledge, InitNoted, NextNoted,
       QuietSame, PTL DEF Spec
=============================================================================

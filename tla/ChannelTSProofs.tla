--------------------------- MODULE ChannelTSProofs ---------------------------
(***************************************************************************)
(* Proofs about ChannelTS for every tree of servers, every set of users and *)
(* every bound.  What carries them: a message that takes users away comes   *)
(* from the direction of those users (Queues), so a server never forgets    *)
(* its own clients (LocalKnown), and no handler lets in a user its server   *)
(* does not know.  And for Convergence: what a queue will do to the server  *)
(* it leads to (Leads).  Descriptions merge into a channel in any order     *)
(* (Merge, AfterSwap), so of each link both ends will have the same once    *)
(* its two queues are handled (PairOK), and that stays so (Sync).           *)
(***************************************************************************)
EXTENDS ChannelTS, TLAPS, WellFoundedInduction

\* Messages that can be on link l: one that loses users loses users behind l[1].
OnLink(l) == {m \in Message : m.type = "SQUIT" =>
                \A u \in m.users : Via[l[2]][Home[u]] = l[1]}
Queues == q \in [Links -> Seq(Message)] /\ \A l \in Links : q[l] \in Seq(OnLink(l))
LocalKnown == \A u \in Users : u \in known[Home[u]]

\* A channel with members has a TS, one without is no channel.
ChanOK(c) == /\ c \in Channel /\ c.ops \subseteq c.mem
             /\ c.mem # {} => c.ts \in 1..MaxTS
             /\ c.mem = {} => c = NoChan
Channels == \A s \in Servers : ChanOK(chan[s])

IInv == TypeOK /\ Queues /\ LocalKnown /\ Channels /\ KnownMembers

-----------------------------------------------------------------------------
(* What the helpers return *)

LEMMA NoChanOK == ChanOK(NoChan)
  BY ChannelBounds DEF ChanOK, Channel, NoChan, Keys, Flags

LEMMA LeftOK ==
  ASSUME NEW c, ChanOK(c), NEW us
  PROVE /\ ChanOK(Left(c, us))
        /\ Left(c, us).mem = c.mem \ us
        /\ Left(c, us).mem # {} => Left(c, us).ts = c.ts
<1>1. CASE c.mem \subseteq us
  <2>1. Left(c, us) = NoChan BY <1>1 DEF Left
  <2>2. NoChan.mem = {} BY DEF NoChan
  <2> QED BY <1>1, <2>1, <2>2, NoChanOK
<1>2. CASE ~(c.mem \subseteq us)
  <2>1. Left(c, us) = [c EXCEPT !.mem = @ \ us, !.ops = @ \ us] BY <1>2 DEF Left
  <2> QED BY <1>2, <2>1 DEF ChanOK, Channel
<1> QED BY <1>1, <1>2

SJoinMsg == [type : {"SJOIN"}, ts : 1..MaxTS, zero : BOOLEAN, modes : SUBSET Flags,
             key : Keys, users : SUBSET Users, ops : SUBSET Users]

LEMMA SJoinedOK ==
  ASSUME NEW c, ChanOK(c), NEW m \in SJoinMsg, NEW us \in SUBSET m.users,
         c.mem # {} \/ us # {}
  PROVE /\ ChanOK(SJoined(c, m, us))
        /\ SJoined(c, m, us).mem = c.mem \cup us
        /\ c.mem # {} => SJoined(c, m, us).ts <= c.ts
        /\ c.mem # {} /\ SJoined(c, m, us).ts < c.ts
             => SJoined(c, m, us).ops \cap c.ops = {}
  BY ChannelBounds DEF ChanOK, Channel, SJoined, SJoinMsg, Keys, Flags, MaxOf, NoChan

LEMMA JoinedOK ==
  ASSUME NEW c, ChanOK(c), NEW u \in Users, NEW ts \in 1..MaxTS
  PROVE /\ ChanOK(Joined(c, u, ts))
        /\ Joined(c, u, ts).mem = c.mem \cup {u}
        /\ c.mem # {} => Joined(c, u, ts).ts <= c.ts
        /\ c.mem # {} /\ Joined(c, u, ts).ts < c.ts
             => Joined(c, u, ts).ops \cap c.ops = {}
  BY ChannelBounds DEF ChanOK, Channel, Joined, Keys, Flags, NoChan

LEMMA ModedOK ==
  ASSUME NEW c, ChanOK(c), c.mem # {}, NEW ch \in Changes, ~Idle(c, ch)
  PROVE /\ ChanOK(Moded(c, ch))
        /\ Moded(c, ch).mem = c.mem /\ Moded(c, ch).ts = c.ts
<1>a. c \in Channel /\ c.ops \subseteq c.mem /\ c.ts \in 1..MaxTS BY DEF ChanOK
<1>1. CASE ch.flag = "o"
  <2>1. Moded(c, ch) = [c EXCEPT !.ops = With(@, ch)] BY <1>1 DEF Moded
  <2>2. ch.arg \in c.mem BY <1>1 DEF Idle
  <2>3. With(c.ops, ch) \subseteq c.mem BY <1>a, <2>2 DEF With
  <2> QED BY <1>a, <2>1, <2>3 DEF ChanOK, Channel
<1>2. CASE ch.flag = "t"
  <2>1. PICK f \in SUBSET Flags : Moded(c, ch) = [c EXCEPT !.modes = f]
    <3>1. Moded(c, ch) = [c EXCEPT !.modes = IF ch.add THEN Flags ELSE {}]
        BY <1>2 DEF Moded
    <3> QED BY <3>1
  <2> QED BY <1>a, <2>1 DEF ChanOK, Channel
<1>3. CASE ch.flag = "k"
  <2>1. Moded(c, ch) = [c EXCEPT !.key = ch.arg] BY <1>3 DEF Moded
  <2>0. ch \in [flag : {"k"}, add : {TRUE}, arg : Keys \ {0}]
          \cup [flag : {"k"}, add : {FALSE}, arg : {0}]
      BY <1>3 DEF Changes
  <2>1a. 0 \in Keys BY ChannelBounds DEF Keys
  <2>2. ch.arg \in Keys BY <2>0, <2>1a
  <2> QED BY <1>a, <2>1, <2>2 DEF ChanOK, Channel
<1>4. CASE ch.flag = "b"
  <2>1. Moded(c, ch) = [c EXCEPT !.bans = With(@, ch)] BY <1>4 DEF Moded
  <2>2. ch.arg \in Masks BY <1>4 DEF Changes
  <2>3. With(c.bans, ch) \subseteq Masks BY <1>a, <2>2 DEF With, Channel
  <2> QED BY <1>a, <2>1, <2>3 DEF ChanOK, Channel
<1> QED BY <1>1, <1>2, <1>3, <1>4 DEF Changes

-----------------------------------------------------------------------------
(* Sending *)

LEMMA FloodedOK ==
  ASSUME Queues, NEW queues, NEW s \in Servers, NEW one, NEW msgs,
         queues \in [Links -> Seq(Message)],
         \A l \in Links : queues[l] \in Seq(OnLink(l)),
         msgs \in Seq(Message),
         \A l \in Links : l[1] = s /\ l[2] # one => msgs \in Seq(OnLink(l))
  PROVE  /\ Flooded(queues, s, one, msgs) \in [Links -> Seq(Message)]
         /\ \A l \in Links : Flooded(queues, s, one, msgs)[l] \in Seq(OnLink(l))
<1>1. ASSUME NEW l \in Links
      PROVE /\ Flooded(queues, s, one, msgs)[l] \in Seq(Message)
            /\ Flooded(queues, s, one, msgs)[l] \in Seq(OnLink(l))
  <2>1. CASE l[1] = s /\ l[2] # one /\ conn[l] = "up" /\ conn[<<l[2], l[1]>>] # "down"
    <3>1. Flooded(queues, s, one, msgs)[l] = queues[l] \o msgs BY <2>1 DEF Flooded
    <3>2. queues[l] \in Seq(Message) /\ queues[l] \in Seq(OnLink(l)) OBVIOUS
    <3>3. msgs \in Seq(OnLink(l)) BY <2>1
    <3> QED BY <3>1, <3>2, <3>3
  <2>2. CASE ~(l[1] = s /\ l[2] # one /\ conn[l] = "up" /\ conn[<<l[2], l[1]>>] # "down")
    BY <2>2 DEF Flooded
  <2> QED BY <2>1, <2>2
<1> QED BY <1>1 DEF Flooded

LEMMA PoppedOK ==
  ASSUME Queues, NEW l \in Links, q[l] # << >>
  PROVE  /\ Popped(l) \in [Links -> Seq(Message)]
         /\ \A k \in Links : Popped(l)[k] \in Seq(OnLink(k))
         /\ Head(q[l]) \in OnLink(l) /\ Head(q[l]) \in Message
<1>1. /\ q[l] \in Seq(Message) /\ q[l] \in Seq(OnLink(l)) BY DEF Queues
<1>2. Tail(q[l]) \in Seq(Message) /\ Tail(q[l]) \in Seq(OnLink(l)) BY <1>1
<1>3. Head(q[l]) \in OnLink(l) /\ Head(q[l]) \in Message BY <1>1
<1> QED BY <1>2, <1>3 DEF Queues, Popped

\* Any message that is not an SQUIT can be on any link.
LEMMA PlainMsg ==
  ASSUME NEW m \in Message, m.type # "SQUIT"
  PROVE  <<m>> \in Seq(Message) /\ \A l \in Links : <<m>> \in Seq(OnLink(l))
<1>1. \A l \in Links : m \in OnLink(l) BY DEF OnLink
<1> QED BY <1>1

LEMMA NoMsg == << >> \in Seq(Message) /\ \A l \in Links : << >> \in Seq(OnLink(l))
  OBVIOUS

-----------------------------------------------------------------------------
(* Steps: what may happen to a channel at a server, and the three shapes a     *)
(* step has.                                                                  *)

Falls(c, d) == c.mem # {} /\ d.mem # {} =>
                 d.ts <= c.ts /\ (d.ts < c.ts => d.ops \cap c.ops = {})
Good == IInv' /\ \A s \in Servers : Falls(chan[s], chan'[s])

LEMMA FallsSame == ASSUME NEW c, ChanOK(c) PROVE Falls(c, c)
  BY ChannelBounds DEF ChanOK, Channel, Falls

LEMMA FallsLeft == ASSUME NEW c, ChanOK(c), NEW us PROVE Falls(c, Left(c, us))
  BY LeftOK, ChannelBounds DEF ChanOK, Channel, Falls

LEMMA LinkEnds == ASSUME NEW l \in Links
                  PROVE l[1] \in Servers /\ l[2] \in Servers /\ l = <<l[1], l[2]>>
  BY Tree

\* A step that replaces the channel of s by d and sends only plain messages.
LEMMA ChanStep ==
  ASSUME IInv, NEW s \in Servers, NEW d, ChanOK(d), d.mem \subseteq known[s],
         Falls(chan[s], d), chan' = [chan EXCEPT ![s] = d],
         UNCHANGED known, Queues',
         clock' \in [Servers -> 1..MaxTS], conn' \in [Links -> {"up", "wait", "down"}],
         cmds' \in 0..MaxCmds, splits' \in 0..MaxSplits, crossed' \in BOOLEAN
  PROVE  Good
<1>1. d \in Channel /\ d.ops \subseteq d.mem BY DEF ChanOK
<1>2. chan' \in [Servers -> Channel] BY <1>1 DEF IInv, TypeOK
<1>3. \A t \in Servers : chan'[t] = IF t = s THEN d ELSE chan[t]
    BY DEF IInv, TypeOK
<1>4. TypeOK' BY <1>2 DEF IInv, TypeOK, Queues
<1>5. Channels' BY <1>3 DEF IInv, Channels
<1>6. KnownMembers' BY <1>1, <1>3 DEF IInv, KnownMembers
<1>7. LocalKnown' BY DEF IInv, LocalKnown
<1>8. \A t \in Servers : Falls(chan[t], chan'[t])
    BY <1>3, FallsSame DEF IInv, Channels
<1> QED BY <1>4, <1>5, <1>6, <1>7, <1>8 DEF Good, IInv

LEMMA HandleStep ==
  ASSUME IInv, NEW l \in Links, q[l] # << >>, NEW d, NEW msgs, Handle(l, d, msgs),
         ChanOK(d), d.mem \subseteq known[l[2]], Falls(chan[l[2]], d),
         msgs \in Seq(Message), \A k \in Links : msgs \in Seq(OnLink(k))
  PROVE  Good
<1>1. l[2] \in Servers BY LinkEnds
<1>2. Queues BY DEF IInv
<1>3. /\ Popped(l) \in [Links -> Seq(Message)]
      /\ \A k \in Links : Popped(l)[k] \in Seq(OnLink(k))
    BY <1>2, PoppedOK
<1>4. /\ q' \in [Links -> Seq(Message)]
      /\ \A k \in Links : q'[k] \in Seq(OnLink(k))
    BY <1>1, <1>2, <1>3, FloodedOK DEF Handle
<1>5. Queues' BY <1>4 DEF Queues, OnLink
<1> QED BY <1>1, <1>5, ChanStep DEF Handle, IInv, TypeOK

LEMMA DropStep ==
  ASSUME IInv, NEW l \in Links, q[l] # << >>, Drop(l) PROVE Good
<1>1. l[2] \in Servers BY LinkEnds
<1>2. ChanOK(chan[l[2]]) /\ chan[l[2]].mem \subseteq known[l[2]]
    BY <1>1 DEF IInv, Channels, KnownMembers
<1> QED BY <1>1, <1>2, FallsSame, NoMsg, HandleStep DEF Drop

LEMMA TellStep ==
  ASSUME IInv, NEW u \in Users, NEW type, Command(u, type), NEW d, NEW m \in Message,
         m.type # "SQUIT", Tell(Home[u], d, m), ChanOK(d),
         d.mem \subseteq known[Home[u]], Falls(chan[Home[u]], d),
         clock' \in [Servers -> 1..MaxTS]
  PROVE  Good
<1>1. Home[u] \in Servers BY Tree
<1>2. Queues BY DEF IInv
<1>3. q \in [Links -> Seq(Message)] /\ \A k \in Links : q[k] \in Seq(OnLink(k))
    BY <1>2 DEF Queues
<1>4. /\ q' \in [Links -> Seq(Message)]
      /\ \A k \in Links : q'[k] \in Seq(OnLink(k))
    BY <1>1, <1>2, <1>3, FloodedOK, PlainMsg DEF Tell
<1>5. Queues' BY <1>4 DEF Queues, OnLink
<1>6. cmds' \in 0..MaxCmds /\ crossed' \in BOOLEAN
    BY ChannelBounds DEF Command, IInv, TypeOK
<1> QED BY <1>1, <1>5, <1>6, ChanStep DEF Tell, Command, IInv, TypeOK

-----------------------------------------------------------------------------
(* The steps of clients *)

LEMMA CreateStep ==
  ASSUME IInv, NEW u \in Users, NEW t \in 1..MaxTS, Create(u, t) PROVE Good
<1> DEFINE s == Home[u]
           d == [ts |-> t, mem |-> {u}, ops |-> {u}, modes |-> Flags, key |-> 0,
                 bans |-> {}]
           m == [type |-> "SJOIN", ts |-> t, zero |-> FALSE, modes |-> Flags, key |-> 0,
                 users |-> {u}, ops |-> {u}]
<1>1. s \in Servers BY Tree
<1>2. ChanOK(d)
  <2>2. 0 \in Keys /\ t \in 0..MaxTS BY ChannelBounds DEF Keys
  <2> QED BY <2>2 DEF ChanOK, Channel
<1>3. d.mem \subseteq known[s] BY DEF IInv, LocalKnown
<1>4. Falls(chan[s], d) BY DEF Create, Exists, Falls
<1>5. m \in Message BY ChannelBounds DEF Message, Keys
<1>6. clock' \in [Servers -> 1..MaxTS] BY <1>1 DEF Create, IInv, TypeOK
<1>7. Command(u, "SJOIN") /\ Tell(s, d, m) BY DEF Create
<1> HIDE DEF d, m
<1>8. m.type # "SQUIT" BY DEF m
<1> QED BY <1>2, <1>3, <1>4, <1>5, <1>6, <1>7, <1>8, TellStep

LEMMA HomeChan ==
  ASSUME IInv, NEW u \in Users
  PROVE  /\ ChanOK(chan[Home[u]]) /\ chan[Home[u]].mem \subseteq known[Home[u]]
         /\ u \in known[Home[u]] /\ clock \in [Servers -> 1..MaxTS]
  BY Tree DEF IInv, Channels, KnownMembers, LocalKnown, TypeOK

LEMMA JoinStep == ASSUME IInv, NEW u \in Users, Join(u) PROVE Good
<1> DEFINE s == Home[u]
           d == [chan[s] EXCEPT !.mem = @ \cup {u}]
           m == [type |-> "JOIN", user |-> u, ts |-> chan[s].ts]
<1>1. ChanOK(chan[s]) /\ chan[s].mem # {} BY HomeChan DEF Join, Exists
<1>2. ChanOK(d) /\ d.mem = chan[s].mem \cup {u} /\ d.ts = chan[s].ts
    BY <1>1 DEF ChanOK, Channel
<1>3. d.mem \subseteq known[s] BY <1>2, HomeChan
<1>4. Falls(chan[s], d) BY <1>1, <1>2 DEF Falls, ChanOK, Channel
<1>5. m \in Message BY <1>1 DEF Message, ChanOK
<1>6. Command(u, "JOIN") /\ Tell(s, d, m) /\ UNCHANGED clock BY DEF Join
<1>7. m.type # "SQUIT" OBVIOUS
<1> HIDE DEF d, m
<1> QED BY <1>2, <1>3, <1>4, <1>5, <1>6, <1>7, HomeChan, TellStep

LEMMA PartStep == ASSUME IInv, NEW u \in Users, Part(u) PROVE Good
<1> DEFINE s == Home[u]
           d == Left(chan[s], {u})
           m == [type |-> "PART", user |-> u]
<1>1. ChanOK(d) /\ d.mem \subseteq known[s] BY HomeChan, LeftOK
<1>2. Falls(chan[s], d) BY HomeChan, FallsLeft
<1>3. m \in Message /\ m.type # "SQUIT" BY DEF Message
<1>4. Command(u, "PART") /\ Tell(s, d, m) /\ UNCHANGED clock BY DEF Part
<1> HIDE DEF d, m
<1> QED BY <1>1, <1>2, <1>3, <1>4, HomeChan, TellStep

LEMMA KickStep == ASSUME IInv, NEW u \in Users, NEW v \in Users, Kick(u, v) PROVE Good
<1> DEFINE s == Home[u]
           d == Left(chan[s], {v})
           m == [type |-> "KICK", user |-> u, who |-> v]
<1>1. ChanOK(d) /\ d.mem \subseteq known[s] BY HomeChan, LeftOK
<1>2. Falls(chan[s], d) BY HomeChan, FallsLeft
<1>3. m \in Message /\ m.type # "SQUIT" BY DEF Message
<1>4. Command(u, "KICK") /\ Tell(s, d, m) /\ UNCHANGED clock BY DEF Kick
<1> HIDE DEF d, m
<1> QED BY <1>1, <1>2, <1>3, <1>4, HomeChan, TellStep

LEMMA ModeStep == ASSUME IInv, NEW u \in Users, NEW ch \in Changes, Mode(u, ch) PROVE Good
<1> DEFINE s == Home[u]
           d == Moded(chan[s], ch)
           m == [type |-> "TMODE", user |-> u, ts |-> chan[s].ts, change |-> ch]
<1>1. ChanOK(chan[s]) /\ chan[s].mem # {} BY HomeChan DEF Mode, ChanOK
<1>2. ChanOK(d) /\ d.mem = chan[s].mem /\ d.ts = chan[s].ts
    BY <1>1, ModedOK DEF Mode
<1>3. d.mem \subseteq known[s] BY <1>2, HomeChan
<1>4. Falls(chan[s], d) BY <1>1, <1>2 DEF Falls, ChanOK, Channel
<1>5. m \in Message /\ m.type # "SQUIT" BY <1>1 DEF Message, ChanOK
<1>6. Command(u, "TMODE") /\ Tell(s, d, m) /\ UNCHANGED clock BY DEF Mode
<1> HIDE DEF d, m
<1> QED BY <1>2, <1>3, <1>4, <1>5, <1>6, HomeChan, TellStep

-----------------------------------------------------------------------------
(* The steps of servers *)

\* The message at the head of a link and the channel it meets.
LEMMA Met ==
  ASSUME IInv, NEW l \in Links, q[l] # << >>
  PROVE  /\ Head(q[l]) \in Message /\ Head(q[l]) \in OnLink(l)
         /\ l[2] \in Servers /\ ChanOK(chan[l[2]])
         /\ chan[l[2]].mem \subseteq known[l[2]] /\ known[l[2]] \subseteq Users
  BY LinkEnds, PoppedOK DEF IInv, Channels, KnownMembers, TypeOK

LEMMA RecvSJoinStep == ASSUME IInv, NEW l \in Links, RecvSJoin(l) PROVE Good
<1> DEFINE s == l[2]
           m == Head(q[l])
           c == chan[s]
           us == Joiners(l)
           d == SJoined(c, m, us)
           high == c.mem # {} /\ m.ts > c.ts
           garbled == m.zero /\ c.mem # {} /\ m.ts < c.ts /\ c.key # 0
           zero == m.zero \/ high
           fwd == [type |-> "SJOIN", ts |-> d.ts, zero |-> zero,
                   modes |-> IF zero THEN {} ELSE d.modes,
                   key |-> IF zero THEN 0 ELSE d.key,
                   users |-> IF garbled THEN {} ELSE us,
                   ops |-> IF garbled \/ high THEN {} ELSE m.ops \cap us]
           out == IF us = {} THEN << >> ELSE <<fwd>>
<1>1. q[l] # << >> /\ m.type = "SJOIN" BY DEF RecvSJoin, Received
<1>2. m \in SJoinMsg BY <1>1, Met DEF Message, SJoinMsg
<1>3. CASE c.mem # {} \/ us # {}
  <2>1. Handle(l, d, out) BY <1>3 DEF RecvSJoin, Forward
  <2>2. us \in SUBSET m.users /\ us \subseteq known[s] BY DEF Joiners
  <2>3. ChanOK(c) /\ (c.mem # {} \/ us # {}) BY <1>1, <1>3, Met
  <2>4. /\ ChanOK(d) /\ d.mem = c.mem \cup us
        /\ c.mem # {} => d.ts <= c.ts
        /\ c.mem # {} /\ d.ts < c.ts => d.ops \cap c.ops = {}
    <3> HIDE DEF us, m, c
    <3> QED BY <1>2, <2>2, <2>3, SJoinedOK
  <2>5. d.mem \subseteq known[s] BY <1>1, <2>2, <2>4, Met
  <2>6. Falls(c, d) BY <2>4 DEF Falls
  <2>7. out \in Seq(Message) /\ \A k \in Links : out \in Seq(OnLink(k))
    <3>1. CASE us = {} BY <3>1, NoMsg
    <3>2. CASE us # {}
      <4>1. d.ts \in 1..MaxTS /\ d.modes \in SUBSET Flags /\ d.key \in Keys
          BY <2>4, <3>2 DEF ChanOK, Channel
      <4>2. 0 \in Keys /\ m.zero \in BOOLEAN /\ m.ops \subseteq Users
          BY <1>2, ChannelBounds DEF Keys, SJoinMsg
      <4>2a. us \subseteq Users BY <1>2, <2>2 DEF SJoinMsg
      <4> HIDE DEF d, us, m
      <4>3. zero \in BOOLEAN BY <4>2
      <4>3a. fwd \in SJoinMsg BY <4>1, <4>2, <4>2a, <4>3 DEF SJoinMsg
      <4>4. fwd \in Message BY <4>3a DEF SJoinMsg, Message
      <4>5. fwd.type # "SQUIT" OBVIOUS
      <4> HIDE DEF fwd
      <4> QED BY <3>2, <4>4, <4>5, PlainMsg
    <3> QED BY <3>1, <3>2
  <2> HIDE DEF d, out, us, m, c
  <2> QED BY <1>1, <2>1, <2>4, <2>5, <2>6, <2>7, HandleStep DEF c
<1>4. CASE ~(c.mem # {} \/ us # {}) BY <1>1, <1>4, DropStep DEF RecvSJoin
<1> QED BY <1>3, <1>4

LEMMA RecvJoinStep == ASSUME IInv, NEW l \in Links, RecvJoin(l) PROVE Good
<1> DEFINE s == l[2]
           m == Head(q[l])
           d == Joined(chan[s], m.user, m.ts)
           fwd == [m EXCEPT !.ts = d.ts]
<1>1. q[l] # << >> /\ m.type = "JOIN" BY DEF RecvJoin, Received
<1>2. m \in [type : {"JOIN"}, user : Users, ts : 1..MaxTS] BY <1>1, Met DEF Message
<1>3. CASE m.user \in known[s]
  <2>1. Handle(l, d, <<fwd>>) BY <1>3 DEF RecvJoin
  <2>2. /\ ChanOK(d) /\ d.mem = chan[s].mem \cup {m.user}
        /\ chan[s].mem # {} => d.ts <= chan[s].ts
        /\ chan[s].mem # {} /\ d.ts < chan[s].ts => d.ops \cap chan[s].ops = {}
    <3> HIDE DEF m
    <3> QED BY <1>1, <1>2, Met, JoinedOK DEF m
  <2>3. d.mem \subseteq known[s] BY <1>1, <1>3, <2>2, Met
  <2>4. Falls(chan[s], d) BY <2>2 DEF Falls
  <2>5. fwd \in Message /\ fwd.type # "SQUIT"
    <3>1. d.ts \in 1..MaxTS BY <2>2 DEF ChanOK
    <3> HIDE DEF d, m
    <3>2. fwd \in [type : {"JOIN"}, user : Users, ts : 1..MaxTS] BY <1>2, <3>1
    <3> QED BY <3>2 DEF Message
  <2> HIDE DEF d, m, fwd
  <2> QED BY <1>1, <2>1, <2>2, <2>3, <2>4, <2>5, PlainMsg, HandleStep DEF m
<1>4. CASE m.user \notin known[s] BY <1>1, <1>4, DropStep DEF RecvJoin
<1> QED BY <1>3, <1>4

LEMMA RecvPartStep == ASSUME IInv, NEW l \in Links, RecvPart(l) PROVE Good
<1> DEFINE s == l[2]
           m == Head(q[l])
           d == Left(chan[s], {m.user})
<1>1. q[l] # << >> /\ m.type = "PART" BY DEF RecvPart, Received
<1>2. ChanOK(d) /\ d.mem \subseteq known[s] BY <1>1, Met, LeftOK
<1>3. Falls(chan[s], d) BY <1>1, Met, FallsLeft
<1>4. m \in Message /\ m.type # "SQUIT" BY <1>1, Met
<1>5. CASE m.user \in chan[s].mem
  <2>1. Handle(l, d, <<m>>) BY <1>5 DEF RecvPart
  <2> HIDE DEF d, m
  <2> QED BY <1>1, <1>2, <1>3, <1>4, <2>1, PlainMsg, HandleStep
<1>6. CASE m.user \notin chan[s].mem BY <1>1, <1>6, DropStep DEF RecvPart
<1> QED BY <1>5, <1>6

LEMMA RecvKickStep == ASSUME IInv, NEW l \in Links, RecvKick(l) PROVE Good
<1> DEFINE s == l[2]
           m == Head(q[l])
           d == Left(chan[s], {m.who})
<1>1. q[l] # << >> /\ m.type = "KICK" BY DEF RecvKick, Received
<1>2. ChanOK(d) /\ d.mem \subseteq known[s] BY <1>1, Met, LeftOK
<1>3. Falls(chan[s], d) BY <1>1, Met, FallsLeft
<1>4. m \in Message /\ m.type # "SQUIT" BY <1>1, Met
<1>5. CASE m.user \in known[s] /\ m.who \in chan[s].mem
  <2>1. Handle(l, d, <<m>>) BY <1>5 DEF RecvKick
  <2> HIDE DEF d, m
  <2> QED BY <1>1, <1>2, <1>3, <1>4, <2>1, PlainMsg, HandleStep
<1>6. CASE ~(m.user \in known[s] /\ m.who \in chan[s].mem)
  BY <1>1, <1>6, DropStep DEF RecvKick
<1> QED BY <1>5, <1>6

LEMMA RecvTModeStep == ASSUME IInv, NEW l \in Links, RecvTMode(l) PROVE Good
<1> DEFINE s == l[2]
           m == Head(q[l])
           c == chan[s]
           d == Moded(c, m.change)
           fwd == [m EXCEPT !.ts = c.ts]
           go == m.user \in known[s] /\ Exists(s) /\ m.ts <= c.ts /\ ~Idle(c, m.change)
<1>1. q[l] # << >> /\ m.type = "TMODE" BY DEF RecvTMode, Received
<1>2. m \in [type : {"TMODE"}, user : Users, ts : 1..MaxTS, change : Changes]
    BY <1>1, Met DEF Message
<1>3. CASE go
  <2>1. Handle(l, d, <<fwd>>) BY <1>3 DEF RecvTMode
  <2>2. ChanOK(c) /\ c.mem # {} /\ c.mem \subseteq known[s] BY <1>1, <1>3, Met DEF Exists
  <2>3. m.change \in Changes /\ ~Idle(c, m.change) BY <1>2, <1>3
  <2>4. ChanOK(d) /\ d.mem = c.mem /\ d.ts = c.ts
    <3> DEFINE ch == m.change
    <3>1. ch \in Changes /\ ~Idle(c, ch) BY <2>3
    <3> HIDE DEF ch, c, m
    <3> QED BY <2>2, <3>1, ModedOK DEF ch
  <2>5. Falls(c, d) BY <2>2, <2>4 DEF Falls, ChanOK, Channel
  <2>6. fwd \in Message /\ fwd.type # "SQUIT"
    <3>1. c.ts \in 1..MaxTS BY <2>2 DEF ChanOK
    <3> HIDE DEF c, m
    <3>2. fwd \in [type : {"TMODE"}, user : Users, ts : 1..MaxTS, change : Changes]
        BY <1>2, <3>1
    <3> QED BY <3>2 DEF Message
  <2> HIDE DEF d, fwd
  <2> QED BY <1>1, <2>1, <2>2, <2>4, <2>5, <2>6, PlainMsg, HandleStep
<1>4. CASE ~go BY <1>1, <1>4, DropStep DEF RecvTMode
<1> QED BY <1>3, <1>4

LEMMA RecvBMaskStep == ASSUME IInv, NEW l \in Links, RecvBMask(l) PROVE Good
<1> DEFINE s == l[2]
           m == Head(q[l])
           c == chan[s]
           d == [c EXCEPT !.bans = @ \cup m.masks]
           fwd == [m EXCEPT !.ts = c.ts]
           go == Exists(s) /\ m.ts <= c.ts
<1>1. q[l] # << >> /\ m.type = "BMASK" BY DEF RecvBMask, Received
<1>2. m \in [type : {"BMASK"}, ts : 1..MaxTS, masks : SUBSET Masks]
    BY <1>1, Met DEF Message
<1>3. CASE go
  <2>1. Handle(l, d, <<fwd>>) BY <1>3 DEF RecvBMask
  <2>2. ChanOK(c) /\ c.mem # {} /\ c.mem \subseteq known[s] BY <1>1, <1>3, Met DEF Exists
  <2>3. ChanOK(d) /\ d.mem = c.mem /\ d.ts = c.ts
    <3> HIDE DEF c, m
    <3> QED BY <1>2, <2>2 DEF ChanOK, Channel
  <2>4. Falls(c, d) BY <2>2, <2>3 DEF Falls, ChanOK, Channel
  <2>5. fwd \in Message /\ fwd.type # "SQUIT"
    <3>1. c.ts \in 1..MaxTS BY <2>2 DEF ChanOK
    <3> HIDE DEF c, m
    <3>2. fwd \in [type : {"BMASK"}, ts : 1..MaxTS, masks : SUBSET Masks]
        BY <1>2, <3>1
    <3> QED BY <3>2 DEF Message
  <2> HIDE DEF d, fwd
  <2> QED BY <1>1, <2>1, <2>2, <2>3, <2>4, <2>5, PlainMsg, HandleStep
<1>4. CASE ~go BY <1>1, <1>4, DropStep DEF RecvBMask
<1> QED BY <1>3, <1>4

-----------------------------------------------------------------------------
(* Links that break and are made *)

LEMMA LoseStep ==
  ASSUME IInv, NEW s \in Servers, NEW t, <<t, s>> \in Links, NEW us \in SUBSET Users,
         \A u \in us : Via[s][Home[u]] = t, NEW queues,
         queues \in [Links -> Seq(Message)],
         \A k \in Links : queues[k] \in Seq(OnLink(k)),
         Lose(s, us, queues, t), UNCHANGED clock,
         conn' \in [Links -> {"up", "wait", "down"}],
         cmds' \in 0..MaxCmds, splits' \in 0..MaxSplits, crossed' \in BOOLEAN
  PROVE  Good
<1> DEFINE m == [type |-> "SQUIT", users |-> us]
<1>1. m \in Message BY DEF Message
<1>2. ASSUME NEW k \in Links, k[1] = s, k[2] # t PROVE m \in OnLink(k)
  <2>1. ASSUME NEW u \in us PROVE Via[k[2]][Home[u]] = k[1]
      BY <1>2, Tree
  <2> QED BY <1>1, <2>1 DEF OnLink
<1>3. q' = Flooded(queues, s, t, <<m>>) BY DEF Lose
<1>4. Queues BY DEF IInv
<1> HIDE DEF m
<1>5. /\ q' \in [Links -> Seq(Message)]
      /\ \A k \in Links : q'[k] \in Seq(OnLink(k))
  <2>1. <<m>> \in Seq(Message) BY <1>1
  <2>2. \A k \in Links : k[1] = s /\ k[2] # t => <<m>> \in Seq(OnLink(k)) BY <1>2
  <2> QED BY <1>3, <1>4, <2>1, <2>2, FloodedOK
<1>6. Queues' BY <1>5 DEF Queues, OnLink
<1>7. \A u \in us : Home[u] # s
  <2>1. t # s BY Tree
  <2> QED BY <2>1, Tree
<1>8. LocalKnown'
  <2>1. ASSUME NEW u \in Users PROVE u \in known'[Home[u]]
    <3>1. u \in known[Home[u]] /\ Home[u] \in Servers BY Tree DEF IInv, LocalKnown
    <3>2. known \in [Servers -> SUBSET Users] BY DEF IInv, TypeOK
    <3>3. known' = [known EXCEPT ![s] = @ \ us] BY DEF Lose
    <3> QED BY <1>7, <3>1, <3>2, <3>3
  <2> QED BY <2>1 DEF LocalKnown
<1>9. ASSUME NEW v \in Servers
      PROVE /\ ChanOK(chan'[v]) /\ Falls(chan[v], chan'[v])
            /\ chan'[v].mem \subseteq known'[v]
  <2>1. ChanOK(chan[v]) /\ chan[v].mem \subseteq known[v]
      BY DEF IInv, Channels, KnownMembers
  <2>2. chan'[v] = IF v = s THEN Left(chan[v], us) ELSE chan[v]
      BY DEF Lose, IInv, TypeOK
  <2>3. known'[v] = IF v = s THEN known[v] \ us ELSE known[v]
      BY DEF Lose, IInv, TypeOK
  <2> QED BY <2>1, <2>2, <2>3, LeftOK, FallsLeft, FallsSame
<1>10. chan' \in [Servers -> Channel]
  <2>1. DOMAIN chan' = Servers /\ chan' = [v \in Servers |-> chan'[v]]
      BY DEF Lose, IInv, TypeOK
  <2> QED BY <1>9, <2>1 DEF ChanOK
<1>11. known' \in [Servers -> SUBSET Users] BY DEF Lose, IInv, TypeOK
<1>12. TypeOK' BY <1>5, <1>10, <1>11 DEF IInv, TypeOK
<1>13. Channels' BY <1>9 DEF Channels
<1>14. KnownMembers' BY <1>9 DEF KnownMembers, ChanOK
<1> QED BY <1>6, <1>8, <1>9, <1>12, <1>13, <1>14 DEF Good, IInv

LEMMA RecvSquitStep == ASSUME IInv, NEW l \in Links, RecvSquit(l) PROVE Good
<1> DEFINE m == Head(q[l])
<1>1. q[l] # << >> /\ m.type = "SQUIT" BY DEF RecvSquit, Received
<1>2. m \in Message /\ m \in OnLink(l) BY <1>1, Met
<1>3. m.users \in SUBSET Users BY <1>1, <1>2 DEF Message
<1>4. \A u \in m.users : Via[l[2]][Home[u]] = l[1] BY <1>1, <1>2 DEF OnLink
<1>5. /\ Popped(l) \in [Links -> Seq(Message)]
      /\ \A k \in Links : Popped(l)[k] \in Seq(OnLink(k))
    BY <1>1, PoppedOK DEF IInv
<1>6. l[2] \in Servers /\ <<l[1], l[2]>> \in Links BY LinkEnds
<1>7. Lose(l[2], m.users, Popped(l), l[1]) /\ UNCHANGED <<clock, conn, cmds, splits, crossed>>
    BY DEF RecvSquit
<1> HIDE DEF m
<1> QED BY <1>3, <1>4, <1>5, <1>6, <1>7, LoseStep DEF IInv, TypeOK

LEMMA BehindOK ==
  ASSUME IInv, NEW s \in Servers, NEW t
  PROVE  Behind(s, t) \in SUBSET Users /\ \A u \in Behind(s, t) : Via[s][Home[u]] = t
  BY DEF Behind, IInv, TypeOK

LEMMA BreakStep == ASSUME IInv, NEW l \in Links, Break(l) PROVE Good
<1> DEFINE rev == <<l[2], l[1]>>
           cl == [type |-> "CLOSE"]
           queues == [q EXCEPT ![rev] = << >>, ![l] = Append(@, cl)]
<1>1. l[1] \in Servers /\ rev \in Links BY LinkEnds, Tree
<1>2. cl \in Message /\ \A k \in Links : cl \in OnLink(k) BY DEF Message, OnLink
<1>3. \A k \in Links : q[k] \in Seq(Message) /\ q[k] \in Seq(OnLink(k))
    BY DEF IInv, Queues
<1>4. \A k \in Links : queues[k] = IF k = l THEN Append(q[l], cl)
                                   ELSE IF k = rev THEN << >> ELSE q[k]
  <2>1. l # rev BY Tree, LinkEnds
  <2>2. DOMAIN q = Links BY DEF IInv, Queues
  <2> HIDE DEF rev, cl
  <2> QED BY <1>1, <2>1, <2>2
<1>5. \A k \in Links : queues[k] \in Seq(Message) /\ queues[k] \in Seq(OnLink(k))
  <2> HIDE DEF queues, cl, rev
  <2>1. ASSUME NEW k \in Links
        PROVE queues[k] \in Seq(Message) /\ queues[k] \in Seq(OnLink(k))
    <3>1. CASE k = l
      <4>1. queues[k] = Append(q[k], cl) BY <1>4, <3>1
      <4>2. q[k] \in Seq(Message) /\ q[k] \in Seq(OnLink(k)) BY <1>3
      <4>3. cl \in Message /\ cl \in OnLink(k) BY <1>2
      <4> QED BY <4>1, <4>2, <4>3
    <3>2. CASE k = rev /\ k # l
      <4>1. queues[k] = << >> BY <1>4, <3>2
      <4> QED BY <4>1, NoMsg
    <3>3. CASE k # rev /\ k # l BY <1>3, <1>4, <3>3
    <3> QED BY <3>1, <3>2, <3>3
  <2> QED BY <2>1
<1>6. queues \in [Links -> Seq(Message)]
  <2>1. queues = [k \in Links |-> queues[k]] BY DEF IInv, Queues
  <2> HIDE DEF queues
  <2> QED BY <1>5, <2>1
<1>7. Lose(l[1], Behind(l[1], l[2]), queues, l[2]) /\ UNCHANGED <<clock, cmds>>
    BY DEF Break
<1>8. conn' \in [Links -> {"up", "wait", "down"}] /\ splits' \in 0..MaxSplits
    BY ChannelBounds DEF Break, IInv, TypeOK
<1>9. crossed' \in BOOLEAN BY DEF Break, IInv, TypeOK
<1>10. cmds' \in 0..MaxCmds BY DEF Break, IInv, TypeOK
<1> HIDE DEF queues, rev
<1> QED BY <1>1, <1>5, <1>6, <1>7, <1>8, <1>9, <1>10, BehindOK, LoseStep DEF rev

LEMMA RecvCloseStep == ASSUME IInv, NEW l \in Links, RecvClose(l) PROVE Good
<1>1. q[l] # << >> BY DEF RecvClose, Received
<1>2. l[2] \in Servers /\ <<l[1], l[2]>> \in Links BY LinkEnds
<1>3. /\ Popped(l) \in [Links -> Seq(Message)]
      /\ \A k \in Links : Popped(l)[k] \in Seq(OnLink(k))
    BY <1>1, PoppedOK DEF IInv
<1>4. Lose(l[2], Behind(l[2], l[1]), Popped(l), l[1]) /\ UNCHANGED <<clock, cmds, splits>>
    BY DEF RecvClose
<1>5. /\ conn' \in [Links -> {"up", "wait", "down"}] /\ crossed' \in BOOLEAN
      /\ cmds' \in 0..MaxCmds /\ splits' \in 0..MaxSplits
    BY DEF RecvClose, IInv, TypeOK
<1> QED BY <1>2, <1>3, <1>4, <1>5, BehindOK, LoseStep

\* A step that touches neither the users nor the channels.
LEMMA StillStep ==
  ASSUME IInv, Queues', UNCHANGED <<known, chan, clock, cmds, splits>>,
         conn' \in [Links -> {"up", "wait", "down"}], crossed' \in BOOLEAN
  PROVE  Good
<1>1. TypeOK' /\ LocalKnown' /\ Channels' /\ KnownMembers'
    BY DEF IInv, TypeOK, LocalKnown, Channels, KnownMembers, Queues
<1>2. \A s \in Servers : Falls(chan[s], chan'[s]) BY FallsSame DEF IInv, Channels
<1> QED BY <1>1, <1>2 DEF Good, IInv

LEMMA BurstOK ==
  ASSUME IInv, NEW s \in Servers
  PROVE  Burst(s) \in Seq(Message) /\ \A k \in Links : Burst(s) \in Seq(OnLink(k))
<1> DEFINE c == chan[s]
           uid == [type |-> "UID", users |-> known[s]]
           sjoin == [type |-> "SJOIN", ts |-> c.ts, zero |-> FALSE, modes |-> c.modes,
                     key |-> c.key, users |-> c.mem, ops |-> c.ops]
           bmask == [type |-> "BMASK", ts |-> c.ts, masks |-> c.bans]
           two == IF Exists(s) THEN <<sjoin>> ELSE << >>
           three == IF c.bans # {} THEN <<bmask>> ELSE << >>
<1>1. ChanOK(c) BY DEF IInv, Channels
<1>2. uid \in Message BY DEF Message, IInv, TypeOK
<1>3. Exists(s) => sjoin \in Message
  <2>1. Exists(s) => sjoin \in SJoinMsg BY <1>1 DEF ChanOK, Channel, SJoinMsg, Exists
  <2> QED BY <2>1 DEF Message, SJoinMsg
<1>4. c.bans # {} => bmask \in Message
  <2>1. c.bans # {} => c.ts \in 1..MaxTS BY <1>1 DEF ChanOK, NoChan
  <2> QED BY <1>1, <2>1 DEF Message, ChanOK, Channel
<1>5. Burst(s) = <<uid>> \o two \o three BY DEF Burst
<1>6. uid.type # "SQUIT" /\ sjoin.type # "SQUIT" /\ bmask.type # "SQUIT" OBVIOUS
<1> HIDE DEF uid, sjoin, bmask, c
<1>7. <<uid>> \in Seq(Message) /\ \A k \in Links : <<uid>> \in Seq(OnLink(k))
    BY <1>2, <1>6, PlainMsg
<1>8. two \in Seq(Message) /\ \A k \in Links : two \in Seq(OnLink(k))
    BY <1>3, <1>6, PlainMsg
<1>9. three \in Seq(Message) /\ \A k \in Links : three \in Seq(OnLink(k))
    BY <1>4, <1>6, PlainMsg
<1> HIDE DEF two, three
<1> QED BY <1>5, <1>7, <1>8, <1>9

LEMMA RecvUidStep == ASSUME IInv, NEW l \in Links, RecvUid(l) PROVE Good
<1> DEFINE m == Head(q[l])
<1>1. q[l] # << >> /\ m.type = "UID" BY DEF RecvUid, Received
<1>2. m \in Message /\ m.type # "SQUIT" BY <1>1, Met
<1>3. m.users \in SUBSET Users BY <1>1, <1>2 DEF Message
<1>4. /\ Popped(l) \in [Links -> Seq(Message)]
      /\ \A k \in Links : Popped(l)[k] \in Seq(OnLink(k))
    BY <1>1, PoppedOK DEF IInv
<1>5. l[2] \in Servers BY LinkEnds
<1>6. /\ known' = [known EXCEPT ![l[2]] = @ \cup m.users]
      /\ q' = Flooded(Popped(l), l[2], l[1], <<m>>)
      /\ UNCHANGED <<chan, clock, conn, cmds, splits, crossed>>
    BY DEF RecvUid
<1> HIDE DEF m
<1>6a. Queues /\ <<m>> \in Seq(Message) /\ \A k \in Links : <<m>> \in Seq(OnLink(k))
    BY <1>2, PlainMsg DEF IInv
<1>6b. /\ q' \in [Links -> Seq(Message)]
       /\ \A k \in Links : q'[k] \in Seq(OnLink(k))
    BY <1>4, <1>5, <1>6, <1>6a, FloodedOK
<1>7. Queues' BY <1>6b DEF Queues, OnLink
<1>8. known' \in [Servers -> SUBSET Users] BY <1>3, <1>6 DEF IInv, TypeOK
<1>9. \A s \in Servers : known[s] \subseteq known'[s] BY <1>6 DEF IInv, TypeOK
<1>10. LocalKnown' BY <1>9, Tree DEF IInv, LocalKnown
<1>11. KnownMembers' BY <1>6, <1>9 DEF IInv, KnownMembers
<1>12. TypeOK' BY <1>6, <1>7, <1>8 DEF IInv, TypeOK, Queues
<1>13. Channels' BY <1>6 DEF IInv, Channels
<1>14. \A s \in Servers : Falls(chan[s], chan'[s])
    BY <1>6, FallsSame DEF IInv, Channels
<1> QED BY <1>7, <1>10, <1>11, <1>12, <1>13, <1>14 DEF Good, IInv

LEMMA ConnectStep == ASSUME IInv, NEW l \in Links, Connect(l) PROVE Good
<1> DEFINE sv == [type |-> "SERVER"]
           rev == <<l[2], l[1]>>
<1>1. l[1] \in Servers /\ rev \in Links BY LinkEnds, Tree
<1>2. sv \in Message /\ sv.type # "SQUIT" BY DEF Message
<1>3. q' = [q EXCEPT ![l] = <<sv>> \o Burst(l[1])] BY DEF Connect
<1>4. /\ conn' \in [Links -> {"up", "wait", "down"}] /\ crossed' \in BOOLEAN
      /\ UNCHANGED <<known, chan, clock, cmds, splits>>
    BY DEF Connect, IInv, TypeOK
<1> HIDE DEF sv
<1>5. ASSUME NEW k \in Links
      PROVE <<sv>> \o Burst(l[1]) \in Seq(Message) /\ <<sv>> \o Burst(l[1]) \in Seq(OnLink(k))
  <2>1. <<sv>> \in Seq(Message) /\ <<sv>> \in Seq(OnLink(k)) BY <1>2, PlainMsg
  <2>2. Burst(l[1]) \in Seq(Message) /\ Burst(l[1]) \in Seq(OnLink(k)) BY <1>1, BurstOK
  <2> QED BY <2>1, <2>2
<1>6. Queues' BY <1>3, <1>5 DEF IInv, Queues, OnLink
<1> QED BY <1>4, <1>6, StillStep

LEMMA RecvServerStep == ASSUME IInv, NEW l \in Links, RecvServer(l) PROVE Good
<1> DEFINE rev == <<l[2], l[1]>>
           b == IF conn[l] = "down" THEN q[rev] ELSE q[rev] \o Burst(l[2])
<1>1. l[2] \in Servers /\ rev \in Links /\ rev # l BY LinkEnds, Tree
<1>2. q[l] # << >> BY DEF RecvServer
<1>3. \A k \in Links : q[k] \in Seq(Message) /\ q[k] \in Seq(OnLink(k))
    BY DEF IInv, Queues
<1>4. Tail(q[l]) \in Seq(Message) /\ Tail(q[l]) \in Seq(OnLink(l)) BY <1>2, <1>3
<1>5. b \in Seq(Message) /\ b \in Seq(OnLink(rev))
  <2>1. Burst(l[2]) \in Seq(Message) /\ Burst(l[2]) \in Seq(OnLink(rev)) BY <1>1, BurstOK
  <2>2. q[rev] \in Seq(Message) /\ q[rev] \in Seq(OnLink(rev)) BY <1>1, <1>3
  <2> HIDE DEF rev
  <2> QED BY <2>1, <2>2
<1>6. /\ DOMAIN q' = Links
      /\ \A k \in Links : q'[k] = IF k = l THEN Tail(q[l]) ELSE IF k = rev THEN b ELSE q[k]
  <2>1. q' = [q EXCEPT ![l] = Tail(@),
                       ![rev] = IF conn[l] = "down" THEN @ ELSE @ \o Burst(l[2])]
      BY DEF RecvServer
  <2>2. DOMAIN q = Links BY DEF IInv, Queues
  <2> DEFINE x == Burst(l[2])
  <2> HIDE DEF rev, x
  <2> QED BY <1>1, <2>1, <2>2 DEF x
<1>7. /\ conn' \in [Links -> {"up", "wait", "down"}] /\ crossed' \in BOOLEAN
      /\ UNCHANGED <<known, chan, clock, cmds, splits>>
    BY DEF RecvServer, IInv, TypeOK
<1>8. q \in [Links -> Seq(Message)] BY DEF IInv, Queues
<1> HIDE DEF rev, b
<1>9. ASSUME NEW k \in Links
      PROVE q'[k] \in Seq(Message) /\ q'[k] \in Seq(OnLink(k))
  <2>1. CASE k = l BY <1>4, <1>6, <2>1
  <2>2. CASE k # l /\ k = rev BY <1>5, <1>6, <2>2
  <2>3. CASE k # l /\ k # rev BY <1>3, <1>6, <2>3
  <2> QED BY <2>1, <2>2, <2>3
<1>10. q' \in [Links -> Seq(Message)]
  <2>1. q' = [k \in Links |-> q'[k]]
    <3> DEFINE x == Burst(l[2])
    <3>1. q' = [q EXCEPT ![l] = Tail(@),
                         ![rev] = IF conn[l] = "down" THEN @ ELSE @ \o x]
        BY DEF RecvServer, rev
    <3> HIDE DEF x
    <3> QED BY <1>8, <3>1
  <2> QED BY <1>9, <2>1
<1>11. Queues' BY <1>9, <1>10 DEF Queues, OnLink
<1> QED BY <1>7, <1>11, StillStep

-----------------------------------------------------------------------------
(* The invariant and what follows from it *)

LEMMA InitIInv == Init => IInv
<1> SUFFICES ASSUME Init PROVE IInv OBVIOUS
<1>1. 0 \in 0..MaxCmds /\ 0 \in 0..MaxSplits /\ 1 \in 1..MaxTS BY ChannelBounds
<1>2. ChanOK(NoChan) /\ NoChan \in Channel /\ NoChan.mem = {} /\ NoChan.ops = {}
    BY NoChanOK DEF ChanOK, NoChan
<1>3. Queues BY NoMsg DEF Init, Queues
<1>4. TypeOK BY <1>1, <1>2, <1>3 DEF Init, TypeOK, Queues
<1>5. LocalKnown BY Tree DEF Init, LocalKnown
<1>6. Channels BY <1>2 DEF Init, Channels
<1>7. KnownMembers BY <1>2 DEF Init, KnownMembers
<1> QED BY <1>3, <1>4, <1>5, <1>6, <1>7 DEF IInv

LEMMA NextGood == IInv /\ [Next]_vars => Good
<1> SUFFICES ASSUME IInv, [Next]_vars PROVE Good OBVIOUS
<1>1. CASE UNCHANGED vars
  <2>1. Queues' BY <1>1 DEF vars, IInv, Queues, OnLink
  <2> QED BY <1>1, <2>1, StillStep DEF vars, IInv, TypeOK
<1>2. ASSUME NEW u \in Users, NEW t \in 1..MaxTS, Create(u, t) PROVE Good
    BY <1>2, CreateStep
<1>3. ASSUME NEW u \in Users, Join(u) PROVE Good BY <1>3, JoinStep
<1>4. ASSUME NEW u \in Users, Part(u) PROVE Good BY <1>4, PartStep
<1>5. ASSUME NEW u \in Users, NEW v \in Users, Kick(u, v) PROVE Good
    BY <1>5, KickStep
<1>6. ASSUME NEW u \in Users, NEW ch \in Changes, Mode(u, ch) PROVE Good
    BY <1>6, ModeStep
<1>7. ASSUME NEW l \in Links,
             \/ RecvSJoin(l) \/ RecvJoin(l) \/ RecvPart(l) \/ RecvKick(l)
             \/ RecvTMode(l) \/ RecvBMask(l) \/ RecvUid(l) \/ RecvSquit(l)
             \/ Break(l) \/ RecvClose(l) \/ Connect(l) \/ RecvServer(l)
      PROVE Good
    BY <1>7, RecvSJoinStep, RecvJoinStep, RecvPartStep, RecvKickStep,
       RecvTModeStep, RecvBMaskStep, RecvUidStep, RecvSquitStep,
       BreakStep, RecvCloseStep, ConnectStep, RecvServerStep
<1> QED BY <1>1, <1>2, <1>3, <1>4, <1>5, <1>6, <1>7 DEF Next

LEMMA NextIInv == IInv /\ [Next]_vars => IInv'
  BY NextGood DEF Good

\* Every reachable state has the types of ChannelTS: a channel that has members
\* has a TS the program can give, the links carry well-formed messages only.
THEOREM TypeCorrect == Spec => []TypeOK
<1>1. IInv => TypeOK BY DEF IInv
<1> QED BY InitIInv, NextIInv, <1>1, PTL DEF Spec

\* No server ever has in its copy of the channel a client it does not know, nor
\* an op who is not in the channel, whatever is split, crossed or rejoined.
THEOREM KnownMembersAlways == Spec => []KnownMembers
<1>1. IInv => KnownMembers BY DEF IInv
<1> QED BY InitIInv, NextIInv, <1>1, PTL DEF Spec

\* On any tree of servers, the TS of a channel that lasts never rises.
THEOREM TSFalls == Spec => TSNeverRises
<1>1. IInv /\ [Next]_vars =>
        [\A s \in Servers :
           Exists(s) /\ chan'[s].mem # {} => chan'[s].ts <= chan[s].ts]_vars
    BY NextGood DEF Good, Falls, Exists
<1> QED BY InitIInv, NextIInv, <1>1, PTL DEF Spec, TSNeverRises

\* On any tree of servers, a server whose channel was the younger one keeps none
\* of the ops it had.
THEOREM LoserHasNoOps == Spec => LoserDeopped
<1>1. IInv /\ [Next]_vars =>
        [\A s \in Servers :
           Exists(s) /\ chan'[s].mem # {} /\ chan'[s].ts < chan[s].ts
             => chan'[s].ops \cap chan[s].ops = {}]_vars
    BY NextGood DEF Good, Falls, Exists
<1> QED BY InitIInv, NextIInv, <1>1, PTL DEF Spec, LoserDeopped

-----------------------------------------------------------------------------
(* Descriptions of a channel that merge                                       *)

\* Nothing is known of a channel whose TS is 0, so it is younger than any other.
Age(c) == IF c.ts = 0 THEN MaxTS + 1 ELSE c.ts
Older(c, d) == Age(c) <= Age(d)

\* What is left of two descriptions: all members, the rest of the older one.
Merge(c, d) ==
  [ts |-> IF Older(c, d) THEN c.ts ELSE d.ts,
   mem |-> c.mem \cup d.mem,
   ops |-> (IF Older(c, d) THEN c.ops ELSE {}) \cup IF Older(d, c) THEN d.ops ELSE {},
   modes |-> (IF Older(c, d) THEN c.modes ELSE {}) \cup IF Older(d, c) THEN d.modes ELSE {},
   key |-> MaxOf(IF Older(c, d) THEN c.key ELSE 0, IF Older(d, c) THEN d.key ELSE 0),
   bans |-> (IF Older(c, d) THEN c.bans ELSE {}) \cup IF Older(d, c) THEN d.bans ELSE {}]

LEMMA ChannelFields ==
  ASSUME NEW c \in Channel
  PROVE  /\ c.ts \in 0..MaxTS /\ c.mem \subseteq Users /\ c.ops \subseteq Users
         /\ c.modes \subseteq Flags /\ c.key \in Keys /\ c.bans \subseteq Masks
         /\ c = [ts |-> c.ts, mem |-> c.mem, ops |-> c.ops, modes |-> c.modes,
                 key |-> c.key, bans |-> c.bans]
         /\ Age(c) \in 1..(MaxTS + 1) /\ c.key \in Nat
  BY ChannelBounds DEF Channel, Age, Keys

LEMMA MergeFields ==
  ASSUME NEW c \in Channel, NEW d \in Channel
  PROVE  LET e == Merge(c, d) IN
         /\ e \in Channel /\ Age(e) = IF Older(c, d) THEN Age(c) ELSE Age(d)
         /\ e.mem = c.mem \cup d.mem
         /\ e.ts = IF Older(c, d) THEN c.ts ELSE d.ts
         /\ e.ops = (IF Older(c, d) THEN c.ops ELSE {}) \cup IF Older(d, c) THEN d.ops ELSE {}
         /\ e.modes = (IF Older(c, d) THEN c.modes ELSE {})
                        \cup IF Older(d, c) THEN d.modes ELSE {}
         /\ e.key = MaxOf(IF Older(c, d) THEN c.key ELSE 0, IF Older(d, c) THEN d.key ELSE 0)
         /\ e.bans = (IF Older(c, d) THEN c.bans ELSE {}) \cup IF Older(d, c) THEN d.bans ELSE {}
<1> DEFINE e == Merge(c, d)
<1>1. /\ c.ts \in 0..MaxTS /\ c.mem \subseteq Users /\ c.ops \subseteq Users
      /\ c.modes \subseteq Flags /\ c.key \in 0..MaxKey /\ c.bans \subseteq Masks
      /\ d.ts \in 0..MaxTS /\ d.mem \subseteq Users /\ d.ops \subseteq Users
      /\ d.modes \subseteq Flags /\ d.key \in 0..MaxKey /\ d.bans \subseteq Masks
  BY ChannelFields DEF Keys
<1>2. e.ts \in 0..MaxTS /\ e.mem \subseteq Users /\ e.ops \subseteq Users
  BY <1>1 DEF Merge
<1>3. e.modes \subseteq Flags /\ e.bans \subseteq Masks
  BY <1>1 DEF Merge
<1>4. e.key \in Keys
  BY <1>1, ChannelBounds DEF Merge, MaxOf, Keys
<1>5. e \in Channel
  BY <1>2, <1>3, <1>4 DEF Merge, Channel
<1>6. Age(e) = IF Older(c, d) THEN Age(c) ELSE Age(d)
  BY DEF Merge, Age
<1> QED BY <1>5, <1>6 DEF Merge

LEMMA SameChannel ==
  ASSUME NEW c \in Channel, NEW d \in Channel, c.ts = d.ts, c.mem = d.mem, c.ops = d.ops,
         c.modes = d.modes, c.key = d.key, c.bans = d.bans
  PROVE  c = d
  BY ChannelFields

LEMMA MergeComm ==
  ASSUME NEW c \in Channel, NEW d \in Channel
  PROVE  Merge(c, d) = Merge(d, c)
<1> DEFINE e == Merge(c, d)
           f == Merge(d, c)
<1>1. /\ Age(c) \in Nat /\ Age(d) \in Nat /\ c.key \in Nat /\ d.key \in Nat
      /\ (Age(c) = Age(d) => c.ts = d.ts)
  <2>1. c.ts \in 0..MaxTS /\ d.ts \in 0..MaxTS
    BY ChannelFields
  <2> QED BY <2>1, ChannelFields, ChannelBounds DEF Age
<1>2. e.ts = f.ts /\ e.mem = f.mem /\ e.ops = f.ops /\ e.modes = f.modes /\ e.bans = f.bans
  BY <1>1 DEF Merge, Older
<1>3. e.key = f.key
  BY <1>1 DEF Merge, Older, MaxOf
<1>4. e \in Channel /\ f \in Channel
  BY MergeFields
<1> HIDE DEF e, f
<1>5. e = f
  BY <1>2, <1>3, <1>4, SameChannel
<1> QED BY <1>5 DEF e, f

\* Two descriptions are merged into a channel whatever the order.
LEMMA MergeSwap ==
  ASSUME NEW c \in Channel, NEW d \in Channel, NEW e \in Channel
  PROVE  Merge(Merge(c, d), e) = Merge(Merge(c, e), d)
<1> DEFINE x == Merge(c, d)
           y == Merge(c, e)
           p == Merge(x, e)
           r == Merge(y, d)
<1>1. /\ Age(c) \in Nat /\ Age(d) \in Nat /\ Age(e) \in Nat
      /\ c.key \in Nat /\ d.key \in Nat /\ e.key \in Nat
      /\ (Age(e) = Age(d) => e.ts = d.ts) /\ (Age(c) = Age(d) => c.ts = d.ts)
      /\ (Age(c) = Age(e) => c.ts = e.ts)
  <2>1. c.ts \in 0..MaxTS /\ d.ts \in 0..MaxTS /\ e.ts \in 0..MaxTS
    BY ChannelFields
  <2> QED BY <2>1, ChannelFields, ChannelBounds DEF Age
<1>2. /\ x \in Channel /\ Age(x) = IF Older(c, d) THEN Age(c) ELSE Age(d)
      /\ x.mem = c.mem \cup d.mem /\ x.ts = IF Older(c, d) THEN c.ts ELSE d.ts
      /\ x.ops = (IF Older(c, d) THEN c.ops ELSE {}) \cup IF Older(d, c) THEN d.ops ELSE {}
      /\ x.modes = (IF Older(c, d) THEN c.modes ELSE {}) \cup IF Older(d, c) THEN d.modes ELSE {}
      /\ x.key = MaxOf(IF Older(c, d) THEN c.key ELSE 0, IF Older(d, c) THEN d.key ELSE 0)
      /\ x.bans = (IF Older(c, d) THEN c.bans ELSE {}) \cup IF Older(d, c) THEN d.bans ELSE {}
  BY MergeFields
<1>3. /\ y \in Channel /\ Age(y) = IF Older(c, e) THEN Age(c) ELSE Age(e)
      /\ y.mem = c.mem \cup e.mem /\ y.ts = IF Older(c, e) THEN c.ts ELSE e.ts
      /\ y.ops = (IF Older(c, e) THEN c.ops ELSE {}) \cup IF Older(e, c) THEN e.ops ELSE {}
      /\ y.modes = (IF Older(c, e) THEN c.modes ELSE {}) \cup IF Older(e, c) THEN e.modes ELSE {}
      /\ y.key = MaxOf(IF Older(c, e) THEN c.key ELSE 0, IF Older(e, c) THEN e.key ELSE 0)
      /\ y.bans = (IF Older(c, e) THEN c.bans ELSE {}) \cup IF Older(e, c) THEN e.bans ELSE {}
  BY MergeFields
<1>a. c \in Channel /\ d \in Channel /\ e \in Channel
  OBVIOUS
<1> HIDE DEF x, y
<1>4. /\ p \in Channel
      /\ p.mem = x.mem \cup e.mem /\ p.ts = IF Older(x, e) THEN x.ts ELSE e.ts
      /\ p.ops = (IF Older(x, e) THEN x.ops ELSE {}) \cup IF Older(e, x) THEN e.ops ELSE {}
      /\ p.modes = (IF Older(x, e) THEN x.modes ELSE {}) \cup IF Older(e, x) THEN e.modes ELSE {}
      /\ p.key = MaxOf(IF Older(x, e) THEN x.key ELSE 0, IF Older(e, x) THEN e.key ELSE 0)
      /\ p.bans = (IF Older(x, e) THEN x.bans ELSE {}) \cup IF Older(e, x) THEN e.bans ELSE {}
  BY <1>2, MergeFields
<1>5. /\ r \in Channel
      /\ r.mem = y.mem \cup d.mem /\ r.ts = IF Older(y, d) THEN y.ts ELSE d.ts
      /\ r.ops = (IF Older(y, d) THEN y.ops ELSE {}) \cup IF Older(d, y) THEN d.ops ELSE {}
      /\ r.modes = (IF Older(y, d) THEN y.modes ELSE {}) \cup IF Older(d, y) THEN d.modes ELSE {}
      /\ r.key = MaxOf(IF Older(y, d) THEN y.key ELSE 0, IF Older(d, y) THEN d.key ELSE 0)
      /\ r.bans = (IF Older(y, d) THEN y.bans ELSE {}) \cup IF Older(d, y) THEN d.bans ELSE {}
  BY <1>3, MergeFields
<1> HIDE DEF p, r
<1>6. p.mem = r.mem
  BY <1>2, <1>3, <1>4, <1>5
<1>7. p.ts = r.ts
  BY <1>1, <1>2, <1>3, <1>4, <1>5 DEF Older
<1>8. p.ops = r.ops
  BY <1>1, <1>2, <1>3, <1>4, <1>5 DEF Older
<1>9. p.modes = r.modes
  BY <1>1, <1>2, <1>3, <1>4, <1>5 DEF Older
<1>10. p.bans = r.bans
  BY <1>1, <1>2, <1>3, <1>4, <1>5 DEF Older
<1>11. p.key = r.key
  BY <1>1, <1>2, <1>3, <1>4, <1>5 DEF Older, MaxOf
<1>12. p = r
  BY <1>4, <1>5, <1>6, <1>7, <1>8, <1>9, <1>10, <1>11, SameChannel
<1> QED BY <1>12 DEF p, r, x, y

LEMMA MergeNone ==
  ASSUME NEW c \in Channel, c.ts = 0 => c = NoChan
  PROVE  /\ Merge(c, NoChan) = c /\ Merge(NoChan, c) = c
         /\ NoChan \in Channel
<1>1. NoChan \in Channel
  BY NoChanOK DEF ChanOK
<1>2. Merge(c, NoChan) = c
  <2> DEFINE e == Merge(c, NoChan)
  <2>1. e \in Channel
    BY <1>1, MergeFields
  <2>2. /\ NoChan.ts = 0 /\ NoChan.mem = {} /\ NoChan.ops = {} /\ NoChan.modes = {}
        /\ NoChan.key = 0 /\ NoChan.bans = {}
    BY DEF NoChan
  <2>3. c.ts \in 0..MaxTS /\ c.key \in Nat
    BY ChannelFields
  <2>4. Older(c, NoChan) /\ (Older(NoChan, c) => c.ts = 0)
    BY <2>2, <2>3, ChannelBounds DEF Older, Age
  <2>5. e.ts = c.ts /\ e.mem = c.mem /\ e.ops = c.ops /\ e.modes = c.modes /\ e.bans = c.bans
    BY <2>2, <2>4 DEF Merge
  <2>6. e.key = c.key
    BY <2>2, <2>3, <2>4 DEF Merge, MaxOf
  <2> HIDE DEF e
  <2>7. e = c
    BY <2>1, <2>5, <2>6, SameChannel
  <2> QED BY <2>7 DEF e
<1> QED BY <1>1, <1>2, MergeComm

-----------------------------------------------------------------------------
(* What a message does to what a server has                                   *)

AfterChan(c, m) ==
  CASE m.type = "SQUIT" -> Left(c, m.users)
    [] m.type = "SJOIN" -> SJoined(c, m, m.users)
    [] m.type = "JOIN" -> Joined(c, m.user, m.ts)
    [] m.type = "PART" -> IF m.user \in c.mem THEN Left(c, {m.user}) ELSE c
    [] m.type = "KICK" -> IF m.who \in c.mem THEN Left(c, {m.who}) ELSE c
    [] m.type = "TMODE" -> IF c.mem # {} /\ m.ts <= c.ts /\ ~Idle(c, m.change)
                           THEN Moded(c, m.change) ELSE c
    [] m.type = "BMASK" -> IF c.mem # {} /\ m.ts <= c.ts
                           THEN [c EXCEPT !.bans = @ \cup m.masks] ELSE c
    [] OTHER -> c
AfterUsers(k, m) == CASE m.type = "UID" -> k \cup m.users
                      [] m.type = "SQUIT" -> k \ m.users
                      [] OTHER -> k
After(v, m) == [users |-> AfterUsers(v.users, m), chan |-> AfterChan(v.chan, m)]

View(s) == [users |-> known[s], chan |-> chan[s]]
Views == {v \in [users : SUBSET Users, chan : Channel] :
            ChanOK(v.chan) /\ v.chan.mem \subseteq v.users}

\* A description comes for users that are known and not yet in the channel, and
\* one without modes only where the channel is no younger; nor is a JOIN or a
\* list of bans ever for an older channel.
NotOlder(m, c) == c.mem # {} /\ c.ts <= m.ts
Allowed(m, v) ==
  /\ m.type = "SJOIN" => /\ m.users # {} /\ m.users \subseteq v.users
                         /\ m.ops \subseteq m.users /\ m.users \cap v.chan.mem = {}
                         /\ m.zero => NotOlder(m, v.chan) /\ m.modes = {} /\ m.key = 0
  /\ m.type = "JOIN" => m.user \in v.users \ v.chan.mem /\ NotOlder(m, v.chan)
  /\ m.type = "BMASK" => NotOlder(m, v.chan)
  /\ m.type \in {"KICK", "TMODE"} => m.user \in v.users

LEMMA MessageFields ==
  ASSUME NEW m \in Message
  PROVE  /\ m.type \in {"SERVER", "CLOSE", "UID", "SQUIT", "SJOIN", "JOIN", "PART", "KICK",
                        "TMODE", "BMASK"}
         /\ m.type \in {"UID", "SQUIT"} => m.users \in SUBSET Users
         /\ m.type = "SJOIN" => m \in SJoinMsg
         /\ m.type \in {"JOIN", "PART", "KICK", "TMODE"} => m.user \in Users
         /\ m.type \in {"JOIN", "TMODE", "BMASK"} => m.ts \in 1..MaxTS
         /\ m.type = "TMODE" => m.change \in Changes
         /\ m.type = "BMASK" => m.masks \in SUBSET Masks
  BY DEF Message, SJoinMsg

LEMMA AfterView ==
  ASSUME NEW v \in Views, NEW m \in Message, Allowed(m, v)
  PROVE  After(v, m) \in Views
<1> DEFINE c == v.chan
           d == AfterChan(c, m)
           k == AfterUsers(v.users, m)
<1>1. ChanOK(c) /\ c \in Channel /\ c.mem \subseteq v.users /\ v.users \in SUBSET Users
  BY DEF Views
<1>2. k \in SUBSET Users /\ d.mem \subseteq k /\ ChanOK(d)
  <2>1. CASE m.type = "SQUIT"
    <3>1. d = Left(c, m.users) /\ k = v.users \ m.users
      BY <2>1 DEF AfterChan, AfterUsers
    <3> HIDE DEF c, d, k
    <3> QED BY <1>1, <3>1, LeftOK
  <2>2. CASE m.type = "SJOIN"
    <3>1. d = SJoined(c, m, m.users) /\ k = v.users
      BY <2>2 DEF AfterChan, AfterUsers
    <3>2. m.users # {} /\ m.users \subseteq v.users /\ m \in SJoinMsg
      BY <2>2, MessageFields DEF Allowed
    <3> HIDE DEF c, d, k
    <3>3. ChanOK(d) /\ d.mem = c.mem \cup m.users
      BY <1>1, <3>1, <3>2, SJoinedOK
    <3> QED BY <1>1, <3>1, <3>2, <3>3
  <2>3. CASE m.type = "JOIN"
    <3>1. d = Joined(c, m.user, m.ts) /\ k = v.users
      BY <2>3 DEF AfterChan, AfterUsers
    <3>2. m.user \in v.users /\ m.user \in Users /\ m.ts \in 1..MaxTS
      BY <2>3, MessageFields DEF Allowed
    <3> HIDE DEF c, d, k
    <3>3. ChanOK(d) /\ d.mem = c.mem \cup {m.user}
      BY <1>1, <3>1, <3>2, JoinedOK
    <3> QED BY <1>1, <3>1, <3>2, <3>3
  <2>4. CASE m.type = "PART"
    <3>1. (d = c \/ d = Left(c, {m.user})) /\ k = v.users
      BY <2>4 DEF AfterChan, AfterUsers
    <3> HIDE DEF c, d, k
    <3> QED BY <1>1, <3>1, LeftOK
  <2>5. CASE m.type = "KICK"
    <3>1. (d = c \/ d = Left(c, {m.who})) /\ k = v.users
      BY <2>5 DEF AfterChan, AfterUsers
    <3> HIDE DEF c, d, k
    <3> QED BY <1>1, <3>1, LeftOK
  <2>6. CASE m.type = "TMODE"
    <3>1. /\ d = IF c.mem # {} /\ m.ts <= c.ts /\ ~Idle(c, m.change)
                 THEN Moded(c, m.change) ELSE c
          /\ k = v.users /\ m.change \in Changes
      BY <2>6, MessageFields DEF AfterChan, AfterUsers
    <3> HIDE DEF c, d, k
    <3>2. CASE c.mem # {} /\ ~Idle(c, m.change)
      <4>1. ChanOK(Moded(c, m.change)) /\ Moded(c, m.change).mem = c.mem
        BY <1>1, <3>1, <3>2, ModedOK
      <4> QED BY <1>1, <3>1, <4>1
    <3>3. CASE ~(c.mem # {} /\ ~Idle(c, m.change))
      BY <1>1, <3>1, <3>3
    <3> QED BY <3>2, <3>3
  <2>7. CASE m.type = "BMASK"
    <3>1. /\ d = IF c.mem # {} /\ m.ts <= c.ts
                 THEN [c EXCEPT !.bans = @ \cup m.masks] ELSE c
          /\ k = v.users /\ m.masks \in SUBSET Masks
      BY <2>7, MessageFields DEF AfterChan, AfterUsers
    <3> HIDE DEF c, d, k
    <3>2. CASE c.mem # {}
      <4>1. [c EXCEPT !.bans = @ \cup m.masks] \in Channel
        BY <1>1, <3>1 DEF Channel
      <4> QED BY <1>1, <3>1, <3>2, <4>1 DEF ChanOK, Channel
    <3>3. CASE ~(c.mem # {})
      BY <1>1, <3>1, <3>3
    <3> QED BY <3>2, <3>3
  <2>8. CASE m.type \in {"SERVER", "CLOSE", "UID"}
    <3>1. d = c /\ v.users \subseteq k /\ k \in SUBSET Users
      BY <1>1, <2>8, MessageFields DEF AfterChan, AfterUsers
    <3> HIDE DEF c, d, k
    <3> QED BY <1>1, <3>1
  <2> QED BY <2>1, <2>2, <2>3, <2>4, <2>5, <2>6, <2>7, <2>8, MessageFields
<1>3. After(v, m) = [users |-> k, chan |-> d]
  BY DEF After
<1>4. d \in Channel
  BY <1>2 DEF ChanOK
<1> HIDE DEF c, d, k
<1> QED BY <1>2, <1>3, <1>4 DEF Views

\* What a message that merges tells of the channel.
Desc(m) ==
  CASE m.type = "SJOIN" -> [ts |-> m.ts, mem |-> m.users, ops |-> m.ops, modes |-> m.modes,
                            key |-> m.key, bans |-> {}]
    [] m.type = "JOIN" -> [ts |-> m.ts, mem |-> {m.user}, ops |-> {}, modes |-> {},
                           key |-> 0, bans |-> {}]
    [] m.type = "BMASK" -> [ts |-> m.ts, mem |-> {}, ops |-> {}, modes |-> {}, key |-> 0,
                            bans |-> m.masks]
    [] OTHER -> NoChan
Soft == Merging \cup {"CLOSE"}

LEMMA DescOK ==
  ASSUME NEW m \in Message
  PROVE  Desc(m) \in Channel
<1>0. 0 \in Keys /\ \A t \in 1..MaxTS : t \in 0..MaxTS
  BY ChannelBounds DEF Keys
<1>1. CASE m.type = "SJOIN"
  <2>1. m \in SJoinMsg
    BY <1>1, MessageFields
  <2>2. /\ Desc(m) = [ts |-> m.ts, mem |-> m.users, ops |-> m.ops, modes |-> m.modes,
                      key |-> m.key, bans |-> {}]
        /\ m.ts \in 1..MaxTS /\ m.users \in SUBSET Users /\ m.ops \in SUBSET Users
        /\ m.modes \in SUBSET Flags /\ m.key \in Keys
    BY <1>1, <2>1 DEF Desc, SJoinMsg
  <2> QED BY <1>0, <2>2 DEF Channel
<1>2. CASE m.type = "JOIN"
  <2>1. m.user \in Users /\ m.ts \in 1..MaxTS
    BY <1>2, MessageFields
  <2>2. Desc(m) = [ts |-> m.ts, mem |-> {m.user}, ops |-> {}, modes |-> {},
                   key |-> 0, bans |-> {}]
    BY <1>2 DEF Desc
  <2> QED BY <1>0, <2>1, <2>2 DEF Channel
<1>3. CASE m.type = "BMASK"
  <2>1. m.masks \in SUBSET Masks /\ m.ts \in 1..MaxTS
    BY <1>3, MessageFields
  <2>2. Desc(m) = [ts |-> m.ts, mem |-> {}, ops |-> {}, modes |-> {},
                   key |-> 0, bans |-> m.masks]
    BY <1>3 DEF Desc
  <2> QED BY <1>0, <2>1, <2>2 DEF Channel
<1>4. CASE m.type \notin {"SJOIN", "JOIN", "BMASK"}
  <2>1. Desc(m) = NoChan
    BY <1>4 DEF Desc
  <2> QED BY <2>1, NoChanOK DEF ChanOK
<1> QED BY <1>1, <1>2, <1>3, <1>4

LEMMA SJoinMerges ==
  ASSUME NEW c, ChanOK(c), NEW m \in Message, m.type = "SJOIN", m.users # {},
         m.ops \subseteq m.users, m.users \cap c.mem = {}
  PROVE  SJoined(c, m, m.users) = Merge(c, Desc(m))
<1> DEFINE d == Desc(m)
           e == SJoined(c, m, m.users)
           f == Merge(c, d)
<1>0. m \in SJoinMsg /\ c \in Channel
  BY MessageFields DEF ChanOK
<1>1. /\ d.ts = m.ts /\ d.mem = m.users /\ d.ops = m.ops /\ d.modes = m.modes
      /\ d.key = m.key /\ d.bans = {} /\ m.ts \in 1..MaxTS
      /\ m.key \in Nat
  BY <1>0, ChannelBounds DEF Desc, SJoinMsg, Keys
<1>2. c.key \in Nat /\ c.ts \in 0..MaxTS
  BY <1>0, ChannelFields
<1>3. /\ c.mem = {} => c.ts = 0 /\ c.ops = {} /\ c.modes = {} /\ c.key = 0 /\ c.bans = {}
      /\ c.mem # {} => c.ts # 0
  BY <1>2, ChannelBounds DEF ChanOK, NoChan
<1>4. /\ Older(c, d) <=> (c.mem # {} /\ c.ts <= m.ts)
      /\ Older(d, c) <=> (c.mem = {} \/ m.ts <= c.ts)
  BY <1>1, <1>2, <1>3, ChannelBounds DEF Older, Age
<1>5. e \in Channel
  BY <1>0, SJoinedOK DEF ChanOK
<1>6. /\ f \in Channel /\ f.mem = c.mem \cup d.mem /\ f.ts = IF Older(c, d) THEN c.ts ELSE d.ts
      /\ f.ops = (IF Older(c, d) THEN c.ops ELSE {}) \cup IF Older(d, c) THEN d.ops ELSE {}
      /\ f.modes = (IF Older(c, d) THEN c.modes ELSE {}) \cup IF Older(d, c) THEN d.modes ELSE {}
      /\ f.key = MaxOf(IF Older(c, d) THEN c.key ELSE 0, IF Older(d, c) THEN d.key ELSE 0)
      /\ f.bans = (IF Older(c, d) THEN c.bans ELSE {}) \cup IF Older(d, c) THEN d.bans ELSE {}
  BY <1>0, DescOK, MergeFields
<1>7. m.ops \cap (m.users \ c.mem) = m.ops
  OBVIOUS
<1> HIDE DEF d, f
<1>8. e.ts = f.ts /\ e.mem = f.mem
  BY <1>1, <1>2, <1>3, <1>4, <1>6 DEF SJoined
<1>9. e.ops = f.ops
  BY <1>1, <1>2, <1>3, <1>4, <1>6, <1>7 DEF SJoined
<1>10. e.modes = f.modes
  BY <1>1, <1>2, <1>3, <1>4, <1>6 DEF SJoined
<1>11. e.bans = f.bans
  BY <1>1, <1>2, <1>3, <1>4, <1>6, SMTT(40) DEF SJoined
<1>12. e.key = f.key
  BY <1>1, <1>2, <1>3, <1>4, <1>6 DEF SJoined, MaxOf
<1> HIDE DEF e
<1>13. e = f
  BY <1>5, <1>6, <1>8, <1>9, <1>10, <1>11, <1>12, SameChannel
<1> QED BY <1>13 DEF e, f, d

LEMMA JoinMerges ==
  ASSUME NEW c, ChanOK(c), NEW m \in Message, m.type = "JOIN", NotOlder(m, c)
  PROVE  /\ Joined(c, m.user, m.ts) = Merge(c, Desc(m))
         /\ Merge(c, Desc(m)) = [c EXCEPT !.mem = @ \cup {m.user}]
<1> DEFINE d == Desc(m)
           e == Joined(c, m.user, m.ts)
           f == Merge(c, d)
           g == [c EXCEPT !.mem = @ \cup {m.user}]
<1>0. m.ts \in 1..MaxTS /\ m.user \in Users /\ c \in Channel
  BY MessageFields DEF ChanOK
<1>1. /\ d.ts = m.ts /\ d.mem = {m.user} /\ d.ops = {} /\ d.modes = {}
      /\ d.key = 0 /\ d.bans = {}
  BY DEF Desc
<1>2. c.key \in Nat /\ c.ts \in 1..MaxTS /\ c.mem # {} /\ c.ts <= m.ts
  BY <1>0, ChannelFields DEF ChanOK, NotOlder
<1>4. Older(c, d)
  BY <1>0, <1>1, <1>2, ChannelBounds DEF Older, Age
<1>5. g \in Channel /\ g.ts = c.ts /\ g.mem = c.mem \cup {m.user} /\ g.ops = c.ops
      /\ g.modes = c.modes /\ g.key = c.key /\ g.bans = c.bans
  BY <1>0 DEF Channel
<1>6. /\ f \in Channel /\ f.mem = c.mem \cup d.mem /\ f.ts = IF Older(c, d) THEN c.ts ELSE d.ts
      /\ f.ops = (IF Older(c, d) THEN c.ops ELSE {}) \cup IF Older(d, c) THEN d.ops ELSE {}
      /\ f.modes = (IF Older(c, d) THEN c.modes ELSE {}) \cup IF Older(d, c) THEN d.modes ELSE {}
      /\ f.key = MaxOf(IF Older(c, d) THEN c.key ELSE 0, IF Older(d, c) THEN d.key ELSE 0)
      /\ f.bans = (IF Older(c, d) THEN c.bans ELSE {}) \cup IF Older(d, c) THEN d.bans ELSE {}
  BY <1>0, DescOK, MergeFields
<1>7. /\ e.ts = c.ts /\ e.mem = c.mem \cup {m.user} /\ e.ops = c.ops /\ e.modes = c.modes
      /\ e.key = c.key /\ e.bans = c.bans
  BY <1>0, <1>2 DEF Joined
<1>8. e \in Channel
  BY <1>0, JoinedOK DEF ChanOK
<1> HIDE DEF d, e, f, g
<1>9. f.ts = c.ts /\ f.mem = c.mem \cup {m.user} /\ f.ops = c.ops /\ f.modes = c.modes
      /\ f.bans = c.bans /\ f.key = c.key
  BY <1>1, <1>2, <1>4, <1>6 DEF MaxOf
<1>10. e = g
  BY <1>5, <1>7, <1>8, SameChannel
<1>11. f = g
  BY <1>5, <1>6, <1>9, SameChannel, ZenonT(40)
<1> QED BY <1>10, <1>11 DEF d, e, f, g

LEMMA BMaskMerges ==
  ASSUME NEW c, ChanOK(c), NEW m \in Message, m.type = "BMASK", NotOlder(m, c)
  PROVE  (IF m.ts <= c.ts THEN [c EXCEPT !.bans = @ \cup m.masks] ELSE c) = Merge(c, Desc(m))
<1> DEFINE d == Desc(m)
           e == IF m.ts <= c.ts THEN [c EXCEPT !.bans = @ \cup m.masks] ELSE c
           f == Merge(c, d)
<1>0. m.ts \in 1..MaxTS /\ m.masks \in SUBSET Masks /\ c \in Channel
  BY MessageFields DEF ChanOK
<1>1. /\ d.ts = m.ts /\ d.mem = {} /\ d.ops = {} /\ d.modes = {}
      /\ d.key = 0 /\ d.bans = m.masks
  BY DEF Desc
<1>2. c.key \in Nat /\ c.ts \in 1..MaxTS /\ c.mem # {} /\ c.ts <= m.ts
  BY <1>0, ChannelFields DEF ChanOK, NotOlder
<1>4. Older(c, d) /\ (Older(d, c) <=> m.ts <= c.ts)
  BY <1>0, <1>1, <1>2, ChannelBounds DEF Older, Age
<1>5. e \in Channel /\ e.ts = c.ts /\ e.mem = c.mem /\ e.ops = c.ops
      /\ e.modes = c.modes /\ e.key = c.key
      /\ e.bans = IF m.ts <= c.ts THEN c.bans \cup m.masks ELSE c.bans
  BY <1>0 DEF Channel
<1>6. /\ f \in Channel /\ f.mem = c.mem \cup d.mem /\ f.ts = IF Older(c, d) THEN c.ts ELSE d.ts
      /\ f.ops = (IF Older(c, d) THEN c.ops ELSE {}) \cup IF Older(d, c) THEN d.ops ELSE {}
      /\ f.modes = (IF Older(c, d) THEN c.modes ELSE {}) \cup IF Older(d, c) THEN d.modes ELSE {}
      /\ f.key = MaxOf(IF Older(c, d) THEN c.key ELSE 0, IF Older(d, c) THEN d.key ELSE 0)
      /\ f.bans = (IF Older(c, d) THEN c.bans ELSE {}) \cup IF Older(d, c) THEN d.bans ELSE {}
  BY <1>0, DescOK, MergeFields
<1> HIDE DEF d, e, f
<1>9. f.ts = c.ts /\ f.mem = c.mem /\ f.ops = c.ops /\ f.modes = c.modes
      /\ f.bans = e.bans /\ f.key = c.key
  BY <1>1, <1>2, <1>4, <1>5, <1>6 DEF MaxOf
<1>11. f = e
  BY <1>5, <1>6, <1>9, SameChannel
<1> QED BY <1>11 DEF d, e, f

LEMMA AfterMerges ==
  ASSUME NEW v \in Views, NEW m \in Message, m.type \in Soft, Allowed(m, v)
  PROVE  /\ AfterChan(v.chan, m) = Merge(v.chan, Desc(m))
         /\ AfterUsers(v.users, m) = v.users \cup IF m.type = "UID" THEN m.users ELSE {}
<1> DEFINE c == v.chan
<1>0. ChanOK(c) /\ c \in Channel /\ (c.ts = 0 => c = NoChan)
  BY ChannelBounds DEF Views, ChanOK
<1>1. CASE m.type = "SJOIN"
  <2>1. AfterChan(c, m) = SJoined(c, m, m.users) /\ AfterUsers(v.users, m) = v.users
    BY <1>1 DEF AfterChan, AfterUsers
  <2>2. m.users # {} /\ m.ops \subseteq m.users /\ m.users \cap c.mem = {}
    BY <1>1 DEF Allowed
  <2> HIDE DEF c
  <2>3. SJoined(c, m, m.users) = Merge(c, Desc(m))
    BY <1>0, <1>1, <2>2, SJoinMerges
  <2> QED BY <1>1, <2>1, <2>3 DEF c
<1>2. CASE m.type = "JOIN"
  <2>1. AfterChan(c, m) = Joined(c, m.user, m.ts) /\ AfterUsers(v.users, m) = v.users
    BY <1>2 DEF AfterChan, AfterUsers
  <2>2. NotOlder(m, c)
    BY <1>2 DEF Allowed
  <2> HIDE DEF c
  <2>3. Joined(c, m.user, m.ts) = Merge(c, Desc(m))
    BY <1>0, <1>2, <2>2, JoinMerges
  <2> QED BY <1>2, <2>1, <2>3 DEF c
<1>3. CASE m.type = "BMASK"
  <2>2. NotOlder(m, c)
    BY <1>3 DEF Allowed
  <2>1. /\ AfterChan(c, m) = IF m.ts <= c.ts THEN [c EXCEPT !.bans = @ \cup m.masks] ELSE c
        /\ AfterUsers(v.users, m) = v.users
    BY <1>3, <2>2 DEF AfterChan, AfterUsers, NotOlder
  <2> HIDE DEF c
  <2>3. (IF m.ts <= c.ts THEN [c EXCEPT !.bans = @ \cup m.masks] ELSE c) = Merge(c, Desc(m))
    BY <1>0, <1>3, <2>2, BMaskMerges
  <2> QED BY <1>3, <2>1, <2>3 DEF c
<1>4. CASE m.type \in {"SERVER", "CLOSE", "UID"}
  <2>1. AfterChan(c, m) = c /\ Desc(m) = NoChan
    BY <1>4 DEF AfterChan, Desc
  <2>2. AfterUsers(v.users, m) = v.users \cup IF m.type = "UID" THEN m.users ELSE {}
    BY <1>4 DEF AfterUsers
  <2> HIDE DEF c
  <2> QED BY <1>0, <2>1, <2>2, MergeNone DEF c
<1> QED BY <1>1, <1>2, <1>3, <1>4 DEF Soft, Merging

-----------------------------------------------------------------------------
(* Induction over the messages of a queue                                     *)

LEMMA LeastOf ==
  ASSUME NEW S, S \subseteq Nat, S # {}
  PROVE  \E k \in S : \A j \in S : k <= j
<1> DEFINE R == OpToRel(<, Nat)
<1>1. IsWellFoundedOn(R, Nat)
  BY NatLessThanWellFounded
<1>2. \A x, y \in Nat : <<y, x>> \in R <=> y < x
  BY DEF OpToRel
<1>3. \E x \in S : \A y \in S : ~(<<y, x>> \in R)
  <2> HIDE DEF R
  <2> QED BY <1>1, WFMin
<1>4. PICK k \in S : \A j \in S : ~(<<j, k>> \in R)
  BY <1>3
<1>5. ASSUME NEW j \in S PROVE k <= j
  <2>1. k \in Nat /\ j \in Nat /\ ~(<<j, k>> \in R)
    BY <1>4
  <2> HIDE DEF R
  <2>2. ~(j < k)
    BY <1>2, <2>1
  <2> QED BY <2>1, <2>2
<1> QED BY <1>5

LEMMA Induct ==
  ASSUME NEW S, 0 \in S, \A k \in Nat : k \in S => k + 1 \in S
  PROVE  \A k \in Nat : k \in S
<1> SUFFICES ASSUME {k \in Nat : k \notin S} # {} PROVE FALSE
  OBVIOUS
<1>1. PICK k \in {i \in Nat : i \notin S} : \A j \in {i \in Nat : i \notin S} : k <= j
  BY LeastOf
<1>2. k # 0 /\ k - 1 \in Nat /\ k - 1 < k
  BY <1>1
<1>3. k - 1 \in S
  BY <1>1, <1>2
<1> QED BY <1>1, <1>2, <1>3

-----------------------------------------------------------------------------
(* Queues of messages                                                         *)

Follows(x, f) == \A i \in 1..Len(x) : f[i] = After(f[i-1], x[i]) /\ Allowed(x[i], f[i-1])
Leads(x, v, w) == \E f \in [0..Len(x) -> Views] : f[0] = v /\ f[Len(x)] = w /\ Follows(x, f)

LEMMA LeadsNil == ASSUME NEW v \in Views PROVE Leads(<< >>, v, v)
<1> DEFINE f == [i \in 0..0 |-> v]
<1>1. f \in [0..Len(<< >>) -> Views] /\ f[0] = v /\ f[Len(<< >>)] = v
  OBVIOUS
<1>2. Follows(<< >>, f)
  BY DEF Follows
<1> QED BY <1>1, <1>2 DEF Leads

LEMMA LeadsEmpty == ASSUME NEW v, NEW w, Leads(<< >>, v, w) PROVE v = w
  BY DEF Leads

LEMMA LeadsOne ==
  ASSUME NEW m \in Message, NEW v \in Views, Allowed(m, v)
  PROVE  Leads(<<m>>, v, After(v, m))
<1> DEFINE f == [i \in 0..1 |-> IF i = 0 THEN v ELSE After(v, m)]
<1>1. f \in [0..Len(<<m>>) -> Views] /\ f[0] = v /\ f[Len(<<m>>)] = After(v, m)
  BY AfterView
<1>2. Follows(<<m>>, f)
  BY DEF Follows
<1> QED BY <1>1, <1>2 DEF Leads

LEMMA LeadsView ==
  ASSUME NEW x \in Seq(Message), NEW v, NEW w, Leads(x, v, w)
  PROVE  v \in Views /\ w \in Views
  BY DEF Leads

LEMMA LeadsCat ==
  ASSUME NEW x \in Seq(Message), NEW y \in Seq(Message),
         NEW u, NEW v, NEW w, Leads(x, u, v), Leads(y, v, w)
  PROVE  Leads(x \o y, u, w)
<1>1. PICK a \in [0..Len(x) -> Views] : a[0] = u /\ a[Len(x)] = v /\ Follows(x, a)
  BY DEF Leads
<1>2. PICK b \in [0..Len(y) -> Views] : b[0] = v /\ b[Len(y)] = w /\ Follows(y, b)
  BY DEF Leads
<1> DEFINE z == x \o y
           n == Len(x)
           f == [i \in 0..Len(z) |-> IF i <= n THEN a[i] ELSE b[i - n]]
<1>3. n \in Nat /\ Len(y) \in Nat /\ Len(z) = n + Len(y)
  OBVIOUS
<1>4. \A i \in 0..Len(z) : f[i] \in Views
  <2> SUFFICES ASSUME NEW i \in 0..Len(z) PROVE f[i] \in Views
    OBVIOUS
  <2>1. CASE i <= n
    <3>1. i \in 0..Len(x) /\ f[i] = a[i]
      BY <1>3, <2>1
    <3> HIDE DEF f, z, n
    <3> QED BY <1>1, <3>1
  <2>2. CASE ~(i <= n)
    <3>1. i - n \in 0..Len(y) /\ f[i] = b[i - n]
      BY <1>3, <2>2
    <3> HIDE DEF f, z, n
    <3> QED BY <1>2, <3>1
  <2> QED BY <2>1, <2>2
<1>5. f \in [0..Len(z) -> Views] /\ f[0] = u
  BY <1>1, <1>3, <1>4
<1>6. f[Len(z)] = w
  <2>1. CASE Len(y) = 0
    BY <1>1, <1>2, <1>3, <2>1
  <2>2. CASE Len(y) # 0
    BY <1>2, <1>3, <2>2
  <2> QED BY <2>1, <2>2
<1>7. Follows(z, f)
  <2> SUFFICES ASSUME NEW i \in 1..Len(z)
               PROVE  f[i] = After(f[i-1], z[i]) /\ Allowed(z[i], f[i-1])
    BY DEF Follows
  <2>1. CASE i <= n
    <3>1. z[i] = x[i] /\ f[i] = a[i] /\ f[i-1] = a[i-1] /\ i \in 1..Len(x)
      BY <1>3, <2>1
    <3> HIDE DEF f, z, n
    <3> QED BY <1>1, <3>1 DEF Follows
  <2>2. CASE i = n + 1
    <3>1. z[i] = y[1] /\ f[i] = b[1] /\ f[i-1] = b[1-1] /\ 1 \in 1..Len(y)
      BY <1>1, <1>2, <1>3, <2>2
    <3> HIDE DEF f, z, n
    <3> QED BY <1>2, <3>1 DEF Follows
  <2>3. CASE i > n + 1
    <3>1. i - n \in 1..Len(y) /\ z[i] = y[i - n] /\ f[i] = b[i - n]
          /\ f[i-1] = b[(i - n) - 1]
      BY <1>3, <2>3
    <3>2. PICK k \in 1..Len(y) : k = i - n
      BY <3>1
    <3>3. b[k] = After(b[k-1], y[k]) /\ Allowed(y[k], b[k-1])
      BY <1>2 DEF Follows
    <3> HIDE DEF f, z, n
    <3> QED BY <3>1, <3>2, <3>3
  <2>4. i <= n \/ i = n + 1 \/ i > n + 1
    BY <1>3
  <2> QED BY <2>1, <2>2, <2>3, <2>4
<1> QED BY <1>5, <1>6, <1>7 DEF Leads

LEMMA LeadsTail ==
  ASSUME NEW x \in Seq(Message), x # << >>, NEW v, NEW w, Leads(x, v, w)
  PROVE  Leads(Tail(x), After(v, Head(x)), w) /\ Allowed(Head(x), v)
<1>1. PICK a \in [0..Len(x) -> Views] : a[0] = v /\ a[Len(x)] = w /\ Follows(x, a)
  BY DEF Leads
<1> DEFINE y == Tail(x)
           f == [i \in 0..Len(y) |-> a[i + 1]]
<1>2. Len(x) \in Nat /\ Len(x) >= 1 /\ Len(y) = Len(x) - 1 /\ x[1] = Head(x)
  OBVIOUS
<1>3. a[1] = After(v, Head(x)) /\ Allowed(Head(x), v)
  BY <1>1, <1>2 DEF Follows
<1>4. f \in [0..Len(y) -> Views] /\ f[0] = a[1] /\ f[Len(y)] = w
  BY <1>1, <1>2
<1>5. Follows(y, f)
  <2> SUFFICES ASSUME NEW i \in 1..Len(y)
               PROVE  f[i] = After(f[i-1], y[i]) /\ Allowed(y[i], f[i-1])
    BY DEF Follows
  <2>1. /\ y[i] = x[i + 1] /\ f[i] = a[i + 1] /\ f[i-1] = a[(i + 1) - 1]
        /\ i + 1 \in 1..Len(x)
    BY <1>2
  <2> HIDE DEF f, y
  <2> QED BY <1>1, <2>1 DEF Follows
<1> QED BY <1>3, <1>4, <1>5 DEF Leads

Quit(x) == \A i \in DOMAIN x : x[i].type = "CLOSE"
AllSoft(x) == \A i \in DOMAIN x : x[i].type \in Soft

LEMMA LeadsQuit ==
  ASSUME NEW x \in Seq(Message), NEW v \in Views, Quit(x)
  PROVE  Leads(x, v, v)
<1> DEFINE f == [i \in 0..Len(x) |-> v]
<1>1. f \in [0..Len(x) -> Views] /\ f[0] = v /\ f[Len(x)] = v
  OBVIOUS
<1>2. Follows(x, f)
  <2> SUFFICES ASSUME NEW i \in 1..Len(x)
               PROVE  f[i] = After(f[i-1], x[i]) /\ Allowed(x[i], f[i-1])
    BY DEF Follows
  <2>1. f[i] = v /\ f[i-1] = v /\ x[i].type = "CLOSE"
    BY DEF Quit
  <2>2. v = [users |-> v.users, chan |-> v.chan]
    BY DEF Views
  <2> HIDE DEF f
  <2> QED BY <2>1, <2>2 DEF After, AfterChan, AfterUsers, Allowed
<1> QED BY <1>1, <1>2 DEF Leads

\* The users a message is about.
Senders(m) == CASE m.type \in {"UID", "SJOIN", "SQUIT"} -> m.users
                [] m.type \in {"JOIN", "PART", "KICK", "TMODE"} -> {m.user}
                [] OTHER -> {}
Separate(m, n) == Senders(m) \cap Senders(n) = {}

LEMMA DescMembers ==
  ASSUME NEW m \in Message, m.type \in Soft
  PROVE  Desc(m).mem \subseteq Senders(m)
  BY DEF Soft, Merging, Desc, Senders, NoChan

\* What merges into a channel leaves it as old as it was.
LEMMA StillNotOlder ==
  ASSUME NEW c, ChanOK(c), NEW d \in Channel, NEW n, n.ts \in 1..MaxTS, NotOlder(n, c)
  PROVE  NotOlder(n, Merge(c, d))
<1>1. c \in Channel /\ c.mem # {} /\ c.ts \in 1..MaxTS /\ c.ts <= n.ts
  BY DEF ChanOK, NotOlder
<1>2. /\ Merge(c, d).mem = c.mem \cup d.mem
      /\ Merge(c, d).ts = IF Older(c, d) THEN c.ts ELSE d.ts
      /\ d.ts \in 0..MaxTS
  BY <1>1, MergeFields, ChannelFields
<1>3. ~Older(c, d) => d.ts < c.ts
  BY <1>1, <1>2, ChannelBounds DEF Older, Age
<1> QED BY <1>1, <1>2, <1>3 DEF NotOlder

LEMMA AllowedLater ==
  ASSUME NEW v \in Views, NEW m \in Message, NEW n \in Message, m.type \in Soft,
         n.type \in Soft, Allowed(m, v), Allowed(n, v), Separate(m, n)
  PROVE  Allowed(n, After(v, m))
<1> DEFINE w == After(v, m)
<1>1. /\ w.chan = Merge(v.chan, Desc(m))
      /\ w.users = v.users \cup IF m.type = "UID" THEN m.users ELSE {}
  BY AfterMerges DEF After
<1>2. ChanOK(v.chan) /\ v.chan \in Channel /\ Desc(m) \in Channel
  BY DescOK DEF Views
<1>3. w.chan.mem \subseteq v.chan.mem \cup Senders(m)
  BY <1>1, <1>2, MergeFields, DescMembers
<1> HIDE DEF w
<1>4. v.users \subseteq w.users
  BY <1>1
<1>5. n.type \in {"JOIN", "SJOIN", "BMASK"} /\ NotOlder(n, v.chan) => NotOlder(n, w.chan)
  <2>1. n.type \in {"JOIN", "SJOIN", "BMASK"} => n.ts \in 1..MaxTS
    BY MessageFields DEF SJoinMsg
  <2> QED BY <1>1, <1>2, <2>1, StillNotOlder
<1>6. CASE n.type = "SJOIN"
  <2>1. /\ n.users # {} /\ n.users \subseteq v.users /\ n.ops \subseteq n.users
        /\ n.users \cap v.chan.mem = {} /\ Senders(n) = n.users
        /\ (n.zero => NotOlder(n, v.chan) /\ n.modes = {} /\ n.key = 0)
    BY <1>6 DEF Allowed, Senders
  <2>2. n.users \cap Senders(m) = {}
    BY <2>1 DEF Separate
  <2>3. n.users \cap w.chan.mem = {} /\ n.users \subseteq w.users
    BY <1>3, <1>4, <2>1, <2>2
  <2> QED BY <1>5, <1>6, <2>1, <2>3 DEF Allowed, w
<1>7. CASE n.type = "JOIN"
  <2>1. n.user \in v.users \ v.chan.mem /\ NotOlder(n, v.chan) /\ Senders(n) = {n.user}
    BY <1>7 DEF Allowed, Senders
  <2>2. n.user \notin Senders(m)
    BY <2>1 DEF Separate
  <2> QED BY <1>3, <1>4, <1>5, <1>7, <2>1, <2>2 DEF Allowed, w
<1>8. CASE n.type = "BMASK"
  BY <1>5, <1>8 DEF Allowed, w
<1>9. CASE n.type \in {"SERVER", "CLOSE", "UID"}
  BY <1>9 DEF Allowed
<1> QED BY <1>6, <1>7, <1>8, <1>9 DEF Soft, Merging

\* Messages that merge come to the same in either order.
LEMMA AfterSwap ==
  ASSUME NEW v \in Views, NEW m \in Message, NEW n \in Message, m.type \in Soft,
         n.type \in Soft, Allowed(m, v), Allowed(n, v), Separate(m, n)
  PROVE  /\ Allowed(n, After(v, m)) /\ Allowed(m, After(v, n))
         /\ After(After(v, m), n) = After(After(v, n), m)
<1> DEFINE x == After(v, m)
           y == After(v, n)
<1>1. Allowed(n, x) /\ Allowed(m, y)
  BY AllowedLater DEF Separate
<1>2. x \in Views /\ y \in Views
  BY AfterView
<1>3. /\ x.chan = Merge(v.chan, Desc(m)) /\ y.chan = Merge(v.chan, Desc(n))
      /\ x.users = v.users \cup IF m.type = "UID" THEN m.users ELSE {}
      /\ y.users = v.users \cup IF n.type = "UID" THEN n.users ELSE {}
  BY AfterMerges DEF After
<1> HIDE DEF x, y
<1>4. /\ After(x, n) = [users |-> AfterUsers(x.users, n), chan |-> AfterChan(x.chan, n)]
      /\ After(y, m) = [users |-> AfterUsers(y.users, m), chan |-> AfterChan(y.chan, m)]
  BY DEF After
<1>5. /\ AfterChan(x.chan, n) = Merge(x.chan, Desc(n))
      /\ AfterUsers(x.users, n) = x.users \cup IF n.type = "UID" THEN n.users ELSE {}
  BY <1>1, <1>2, AfterMerges
<1>6. /\ AfterChan(y.chan, m) = Merge(y.chan, Desc(m))
      /\ AfterUsers(y.users, m) = y.users \cup IF m.type = "UID" THEN m.users ELSE {}
  BY <1>1, <1>2, AfterMerges
<1>7. v.chan \in Channel /\ Desc(m) \in Channel /\ Desc(n) \in Channel
  BY DescOK DEF Views
<1>8. AfterChan(x.chan, n) = AfterChan(y.chan, m)
  BY <1>3, <1>5, <1>6, <1>7, MergeSwap
<1>9. AfterUsers(x.users, n) = AfterUsers(y.users, m)
  BY <1>3, <1>5, <1>6
<1> QED BY <1>1, <1>4, <1>8, <1>9 DEF x, y

\* So a message that merges can be handled before a queue of others.
LEMMA LeadsPast ==
  ASSUME NEW x \in Seq(Message), AllSoft(x), NEW v, NEW w, Leads(x, v, w),
         NEW m \in Message, m.type \in Soft, Allowed(m, v),
         \A i \in DOMAIN x : Separate(m, x[i])
  PROVE  Leads(x, After(v, m), After(w, m)) /\ Allowed(m, w)
<1>1. PICK f \in [0..Len(x) -> Views] : f[0] = v /\ f[Len(x)] = w /\ Follows(x, f)
  BY DEF Leads
<1>2. Len(x) \in Nat /\ DOMAIN x = 1..Len(x)
  OBVIOUS
<1>3. ASSUME NEW i \in 1..Len(x), Allowed(m, f[i-1])
      PROVE  /\ Allowed(m, f[i]) /\ Allowed(x[i], After(f[i-1], m))
             /\ After(f[i], m) = After(After(f[i-1], m), x[i])
  <2>1. f[i] = After(f[i-1], x[i]) /\ Allowed(x[i], f[i-1])
    BY <1>1 DEF Follows
  <2>2. f[i-1] \in Views /\ x[i] \in Message /\ x[i].type \in Soft
    <3>1. i - 1 \in 0..Len(x) /\ i \in DOMAIN x
      BY <1>2
    <3> QED BY <1>1, <3>1 DEF AllSoft
  <2>3. Separate(m, x[i])
    BY <1>2
  <2>4. PICK e \in Views : e = f[i-1]
    BY <2>2
  <2>5. PICK n \in Message : n = x[i]
    BY <2>2
  <2>6. /\ Allowed(n, After(e, m)) /\ Allowed(m, After(e, n))
        /\ After(After(e, m), n) = After(After(e, n), m)
    BY <1>3, <2>1, <2>2, <2>3, <2>4, <2>5, AfterSwap
  <2> QED BY <2>1, <2>4, <2>5, <2>6
<1> DEFINE S == {i \in Nat : i \in 0..Len(x) => Allowed(m, f[i])}
<1>4. 0 \in S
  BY <1>1
<1>5. ASSUME NEW k \in Nat, k \in S PROVE k + 1 \in S
  <2> SUFFICES ASSUME k + 1 \in 0..Len(x) PROVE Allowed(m, f[k+1])
    OBVIOUS
  <2>1. k \in 0..Len(x) /\ k + 1 \in 1..Len(x) /\ (k + 1) - 1 = k
    BY <1>2
  <2>2. PICK i \in 1..Len(x) : i = k + 1
    BY <2>1
  <2>3. Allowed(m, f[i-1])
    BY <1>5, <2>1, <2>2
  <2>4. Allowed(m, f[i])
    BY <1>3, <2>3
  <2> QED BY <2>2, <2>4
<1>6. \A i \in 0..Len(x) : Allowed(m, f[i])
  <2>1. \A k \in Nat : k \in S
    <3> HIDE DEF S
    <3> QED BY <1>4, <1>5, Induct
  <2> QED BY <1>2, <2>1
<1> DEFINE g == [i \in 0..Len(x) |-> After(f[i], m)]
<1>7. g \in [0..Len(x) -> Views]
  <2>1. \A i \in 0..Len(x) : After(f[i], m) \in Views
    BY <1>1, <1>6, AfterView
  <2> QED BY <2>1
<1>8. g[0] = After(v, m) /\ g[Len(x)] = After(w, m)
  BY <1>1, <1>2
<1>9. Follows(x, g)
  <2> SUFFICES ASSUME NEW i \in 1..Len(x)
               PROVE  g[i] = After(g[i-1], x[i]) /\ Allowed(x[i], g[i-1])
    BY DEF Follows
  <2>1. i - 1 \in 0..Len(x) /\ i \in 0..Len(x)
    BY <1>2
  <2>2. g[i] = After(f[i], m) /\ g[i-1] = After(f[i-1], m) /\ Allowed(m, f[i-1])
    BY <1>6, <2>1
  <2> HIDE DEF g
  <2> QED BY <1>3, <2>2
<1>10. Allowed(m, w)
  BY <1>1, <1>2, <1>6
<1> HIDE DEF g
<1> QED BY <1>7, <1>8, <1>9, <1>10 DEF Leads

-----------------------------------------------------------------------------
(* Two servers that have not been linked                                      *)

Both(v, w) == [users |-> v.users \cup w.users, chan |-> Merge(v.chan, w.chan)]

LEMMA BothComm ==
  ASSUME NEW v \in Views, NEW w \in Views
  PROVE  Both(v, w) = Both(w, v)
<1>1. v.chan \in Channel /\ w.chan \in Channel
  BY DEF Views
<1>2. Merge(v.chan, w.chan) = Merge(w.chan, v.chan)
  BY <1>1, MergeComm
<1>3. v.users \cup w.users = w.users \cup v.users
  OBVIOUS
<1> QED BY <1>2, <1>3 DEF Both

LEMMA BothAllowed ==
  ASSUME NEW v \in Views, NEW w \in Views, NEW m \in Message, m.type \in Soft,
         Allowed(m, v), Senders(m) \cap w.users = {}
  PROVE  Allowed(m, Both(v, w))
<1> DEFINE b == Both(v, w)
<1>1. /\ ChanOK(v.chan) /\ v.chan \in Channel /\ w.chan \in Channel
      /\ w.chan.mem \subseteq w.users
  BY DEF Views
<1>2. b.users = v.users \cup w.users /\ b.chan = Merge(v.chan, w.chan)
  BY DEF Both
<1>3. b.chan.mem = v.chan.mem \cup w.chan.mem
  BY <1>1, <1>2, MergeFields
<1>4. m.type \in {"JOIN", "SJOIN", "BMASK"} /\ NotOlder(m, v.chan) => NotOlder(m, b.chan)
  <2>1. m.type \in {"JOIN", "SJOIN", "BMASK"} => m.ts \in 1..MaxTS
    BY MessageFields DEF SJoinMsg
  <2> QED BY <1>1, <1>2, <2>1, StillNotOlder
<1> HIDE DEF b
<1>5. CASE m.type = "SJOIN"
  <2>1. /\ m.users # {} /\ m.users \subseteq v.users /\ m.ops \subseteq m.users
        /\ m.users \cap v.chan.mem = {} /\ Senders(m) = m.users
        /\ (m.zero => NotOlder(m, v.chan) /\ m.modes = {} /\ m.key = 0)
    BY <1>5 DEF Allowed, Senders
  <2>2. m.users \cap b.chan.mem = {} /\ m.users \subseteq b.users
    BY <1>1, <1>2, <1>3, <2>1
  <2> QED BY <1>4, <1>5, <2>1, <2>2 DEF Allowed, b
<1>6. CASE m.type = "JOIN"
  <2>1. m.user \in v.users \ v.chan.mem /\ NotOlder(m, v.chan) /\ Senders(m) = {m.user}
    BY <1>6 DEF Allowed, Senders
  <2> QED BY <1>1, <1>2, <1>3, <1>4, <1>6, <2>1 DEF Allowed, b
<1>7. CASE m.type = "BMASK"
  BY <1>4, <1>7 DEF Allowed, b
<1>8. CASE m.type \in {"SERVER", "CLOSE", "UID"}
  BY <1>8 DEF Allowed
<1> QED BY <1>5, <1>6, <1>7, <1>8 DEF Soft, Merging

\* What one of them hears the two hear.
LEMMA BothAfter ==
  ASSUME NEW v \in Views, NEW w \in Views, NEW m \in Message, m.type \in Soft,
         Allowed(m, v), Both(v, w) \in Views, Allowed(m, Both(v, w))
  PROVE  Both(After(v, m), w) = After(Both(v, w), m)
<1> DEFINE b == Both(v, w)
           x == After(v, m)
<1>1. v.chan \in Channel /\ w.chan \in Channel /\ Desc(m) \in Channel
  BY DescOK DEF Views
<1>2. /\ x.chan = Merge(v.chan, Desc(m))
      /\ x.users = v.users \cup IF m.type = "UID" THEN m.users ELSE {}
  BY AfterMerges DEF After
<1>3. b.users = v.users \cup w.users /\ b.chan = Merge(v.chan, w.chan)
  BY DEF Both
<1>4. /\ AfterChan(b.chan, m) = Merge(b.chan, Desc(m))
      /\ AfterUsers(b.users, m) = b.users \cup IF m.type = "UID" THEN m.users ELSE {}
  BY AfterMerges
<1>5. Both(x, w) = [users |-> x.users \cup w.users, chan |-> Merge(x.chan, w.chan)]
  BY DEF Both
<1>6. After(b, m) = [users |-> AfterUsers(b.users, m), chan |-> AfterChan(b.chan, m)]
  BY DEF After
<1> HIDE DEF b, x
<1>7. Merge(x.chan, w.chan) = AfterChan(b.chan, m)
  BY <1>1, <1>2, <1>3, <1>4, MergeSwap
<1>8. x.users \cup w.users = AfterUsers(b.users, m)
  BY <1>2, <1>3, <1>4
<1> QED BY <1>5, <1>6, <1>7, <1>8 DEF b, x

\* A burst tells all that a server has.
LEMMA BurstLeads ==
  ASSUME NEW s \in Servers, View(s) \in Views, Burst(s) \in Seq(Message),
         NEW v \in Views, v.users \cap known[s] = {}
  PROVE  Leads(Burst(s), v, Both(v, View(s)))
<1> DEFINE c == chan[s]
           uid == [type |-> "UID", users |-> known[s]]
           sjoin == [type |-> "SJOIN", ts |-> c.ts, zero |-> FALSE, modes |-> c.modes,
                     key |-> c.key, users |-> c.mem, ops |-> c.ops]
           bmask == [type |-> "BMASK", ts |-> c.ts, masks |-> c.bans]
           d1 == Desc(sjoin)
           d2 == Desc(bmask)
           v1 == After(v, uid)
           v2 == After(v1, sjoin)
           v3 == After(v2, bmask)
<1>1. /\ ChanOK(c) /\ c \in Channel /\ c.mem \subseteq known[s] /\ known[s] \in SUBSET Users
      /\ c.ops \subseteq c.mem
  BY DEF Views, View, ChanOK
<1>2. uid \in Message
  BY <1>1 DEF Message
<1>3. Leads(<<uid>>, v, v1) /\ v1 \in Views
  <2>1. Allowed(uid, v)
    BY DEF Allowed
  <2> QED BY <1>2, <2>1, LeadsOne, AfterView
<1>4. v1.users = v.users \cup known[s] /\ v1.chan = v.chan
  BY DEF After, AfterUsers, AfterChan
<1>5. ChanOK(v.chan) /\ v.chan \in Channel /\ v.chan.mem \subseteq v.users
  BY DEF Views
<1>6. Both(v, View(s)) = [users |-> v.users \cup known[s], chan |-> Merge(v.chan, c)]
  BY DEF Both, View
<1>7. CASE ~Exists(s)
  <2>1. c = NoChan /\ c.bans = {} /\ (v.chan.ts = 0 => v.chan = NoChan)
    BY <1>1, <1>5, <1>7, ChannelBounds DEF Exists, ChanOK, NoChan
  <2>2. Burst(s) = <<uid>>
    <3>1. Burst(s) = <<uid>> \o << >> \o << >>
      BY <1>7, <2>1 DEF Burst
    <3> HIDE DEF uid
    <3> QED BY <1>2, <3>1
  <2>3. v1 = [users |-> v1.users, chan |-> v1.chan]
    BY DEF After
  <2>4. Merge(v.chan, c) = v.chan
    BY <1>5, <2>1, MergeNone
  <2> HIDE DEF v1, uid, c
  <2> QED BY <1>3, <1>4, <1>6, <2>2, <2>3, <2>4
<1>8. CASE Exists(s)
  <2>1. c.mem # {} /\ c.ts \in 1..MaxTS /\ c.key \in Nat
    BY <1>1, <1>8, ChannelFields DEF Exists, ChanOK
  <2>2. sjoin \in Message
    <3>1. sjoin \in SJoinMsg
      BY <1>1, <2>1 DEF SJoinMsg, Channel
    <3> QED BY <3>1 DEF SJoinMsg, Message
  <2>3. Allowed(sjoin, v1)
    <3>1. c.mem \cap v.chan.mem = {} /\ c.mem \subseteq v1.users
      BY <1>1, <1>4, <1>5
    <3> HIDE DEF v1
    <3> QED BY <1>1, <1>4, <2>1, <3>1 DEF Allowed
  <2>4. Leads(<<sjoin>>, v1, v2) /\ v2 \in Views
    <3> HIDE DEF v1, sjoin
    <3> QED BY <1>3, <2>2, <2>3, LeadsOne, AfterView
  <2>5. v2.chan = Merge(v.chan, d1) /\ v2.users = v.users \cup known[s] /\ d1 \in Channel
    <3>1. sjoin.type \in Soft /\ sjoin.type # "UID"
      BY DEF Soft, Merging
    <3>2. v2 = [users |-> AfterUsers(v1.users, sjoin), chan |-> AfterChan(v1.chan, sjoin)]
      BY DEF After
    <3> HIDE DEF v1, sjoin, v2
    <3>3. v2.users = AfterUsers(v1.users, sjoin) /\ v2.chan = AfterChan(v1.chan, sjoin)
      BY <3>2
    <3>4. AfterChan(v1.chan, sjoin) = Merge(v1.chan, Desc(sjoin))
      BY <1>3, <2>2, <2>3, <3>1, AfterMerges
    <3>5. AfterUsers(v1.users, sjoin) = v1.users \cup IF sjoin.type = "UID" THEN sjoin.users ELSE {}
      BY <1>3, <2>2, <2>3, <3>1, AfterMerges
    <3> QED BY <1>4, <2>2, <3>1, <3>3, <3>4, <3>5, DescOK
  <2>6. d1 = [ts |-> c.ts, mem |-> c.mem, ops |-> c.ops, modes |-> c.modes,
              key |-> c.key, bans |-> {}]
    BY DEF Desc
  <2>7. <<uid>> \in Seq(Message) /\ <<sjoin>> \in Seq(Message)
    BY <1>2, <2>2
  <2>8. CASE c.bans = {}
    <3>1. Burst(s) = <<uid>> \o <<sjoin>>
      <4>1. Burst(s) = <<uid>> \o <<sjoin>> \o << >>
        BY <1>8, <2>8 DEF Burst
      <4> HIDE DEF uid, sjoin
      <4> QED BY <2>7, <4>1
    <3>2. d1 = c
      BY <1>1, <2>6, <2>8, ChannelFields
    <3>3. Leads(Burst(s), v, v2)
      <4> HIDE DEF uid, sjoin, v1, v2
      <4> QED BY <1>3, <2>4, <2>7, <3>1, LeadsCat
    <3>4. v2 = [users |-> v2.users, chan |-> v2.chan]
      BY DEF After
    <3> HIDE DEF v2, c, d1
    <3> QED BY <1>6, <2>5, <3>2, <3>3, <3>4
  <2>9. CASE c.bans # {}
    <3>1. bmask \in Message
      BY <1>1, <2>1 DEF Message, Channel
    <3>2. d2 = [ts |-> c.ts, mem |-> {}, ops |-> {}, modes |-> {}, key |-> 0,
                bans |-> c.bans]
      BY DEF Desc
    <3>3. d2 \in Channel
      BY <3>1, DescOK
    <3>4. Allowed(bmask, v2)
      <4>1. v2.chan.mem = v.chan.mem \cup d1.mem
            /\ v2.chan.ts = IF Older(v.chan, d1) THEN v.chan.ts ELSE d1.ts
        BY <1>5, <2>5, MergeFields
      <4>2. d1.mem = c.mem /\ d1.ts = c.ts
        <5> HIDE DEF d1, c
        <5> QED BY <2>6
      <4>3. v.chan.ts \in 0..MaxTS
        BY <1>5, ChannelFields
      <4>4. Older(v.chan, d1) => v.chan.ts <= c.ts
        <5>0. MaxTS \in Nat
          BY ChannelBounds
        <5>1. Age(d1) = c.ts
          BY <2>1, <4>2 DEF Age
        <5>2. v.chan.ts # 0 => Age(v.chan) = v.chan.ts
          BY DEF Age
        <5> QED BY <2>1, <4>3, <5>0, <5>1, <5>2 DEF Older
      <4>5. NotOlder(bmask, v2.chan)
        <5> HIDE DEF v2, d1
        <5>1. bmask.ts = c.ts
          OBVIOUS
        <5> HIDE DEF c, bmask
        <5> QED BY <2>1, <4>1, <4>2, <4>3, <4>4, <5>1 DEF NotOlder
      <4>6. bmask.type = "BMASK"
        OBVIOUS
      <4> HIDE DEF v2, bmask
      <4> QED BY <4>5, <4>6 DEF Allowed
    <3>5. Leads(<<bmask>>, v2, v3)
      <4> HIDE DEF v2, bmask
      <4> QED BY <2>4, <3>1, <3>4, LeadsOne
    <3>6. v3.chan = Merge(v2.chan, d2) /\ v3.users = v2.users
      <4>1. bmask.type \in Soft /\ bmask.type # "UID"
        BY DEF Soft, Merging
      <4>2. v3 = [users |-> AfterUsers(v2.users, bmask), chan |-> AfterChan(v2.chan, bmask)]
        BY DEF After
      <4> HIDE DEF v2, bmask, v3
      <4>3. v3.users = AfterUsers(v2.users, bmask) /\ v3.chan = AfterChan(v2.chan, bmask)
        BY <4>2
      <4>4. AfterChan(v2.chan, bmask) = Merge(v2.chan, Desc(bmask))
        BY <2>4, <3>1, <3>4, <4>1, AfterMerges
      <4>5. AfterUsers(v2.users, bmask) = v2.users \cup IF bmask.type = "UID" THEN bmask.users ELSE {}
        BY <2>4, <3>1, <3>4, <4>1, AfterMerges
      <4> QED BY <4>1, <4>3, <4>4, <4>5
    <3>7. Merge(d1, d2) = c
      <4>1. d1.ts = c.ts /\ d1.mem = c.mem /\ d1.ops = c.ops /\ d1.modes = c.modes
            /\ d1.key = c.key /\ d1.bans = {}
        <5> HIDE DEF d1, c
        <5> QED BY <2>6
      <4>2. d2.ts = c.ts /\ d2.mem = {} /\ d2.ops = {} /\ d2.modes = {}
            /\ d2.key = 0 /\ d2.bans = c.bans
        <5> HIDE DEF d2, c
        <5> QED BY <3>2
      <4> DEFINE e == Merge(d1, d2)
      <4>3. Age(d1) = c.ts /\ Age(d2) = c.ts
        BY <2>1, <4>1, <4>2 DEF Age
      <4>4. Older(d1, d2) /\ Older(d2, d1)
        BY <2>1, <4>3 DEF Older
      <4>5. /\ e \in Channel /\ e.mem = d1.mem \cup d2.mem
            /\ e.ts = IF Older(d1, d2) THEN d1.ts ELSE d2.ts
            /\ e.ops = (IF Older(d1, d2) THEN d1.ops ELSE {}) \cup IF Older(d2, d1) THEN d2.ops ELSE {}
            /\ e.modes = (IF Older(d1, d2) THEN d1.modes ELSE {}) \cup IF Older(d2, d1) THEN d2.modes ELSE {}
            /\ e.key = MaxOf(IF Older(d1, d2) THEN d1.key ELSE 0, IF Older(d2, d1) THEN d2.key ELSE 0)
            /\ e.bans = (IF Older(d1, d2) THEN d1.bans ELSE {}) \cup IF Older(d2, d1) THEN d2.bans ELSE {}
        <5> HIDE DEF d1, d2
        <5> QED BY <2>5, <3>3, MergeFields
      <4> HIDE DEF d1, d2, e, c
      <4>6. e.mem = c.mem /\ e.ts = c.ts /\ e.ops = c.ops /\ e.modes = c.modes
            /\ e.bans = c.bans
        BY <4>1, <4>2, <4>4, <4>5
      <4>7. e.key = c.key
        BY <2>1, <4>1, <4>2, <4>4, <4>5 DEF MaxOf
      <4>8. e = c
        BY <1>1, <4>5, <4>6, <4>7, SameChannel
      <4> QED BY <4>8 DEF e
    <3>8. Merge(Merge(v.chan, d1), d2) = Merge(v.chan, c)
      <4> HIDE DEF d1, d2, c
      <4>1. Merge(Merge(d1, d2), v.chan) = Merge(Merge(d1, v.chan), d2)
        BY <1>5, <2>5, <3>3, MergeSwap
      <4>2. Merge(d1, v.chan) = Merge(v.chan, d1) /\ Merge(c, v.chan) = Merge(v.chan, c)
        BY <1>1, <1>5, <2>5, MergeComm
      <4> QED BY <3>7, <4>1, <4>2
    <3>9. Burst(s) = <<uid>> \o <<sjoin>> \o <<bmask>>
      BY <1>8, <2>9 DEF Burst
    <3>10. Leads(Burst(s), v, v3)
      <4>1. <<bmask>> \in Seq(Message)
        BY <3>1
      <4> HIDE DEF uid, sjoin, bmask, v1, v2, v3
      <4>2. Leads(<<uid>> \o <<sjoin>>, v, v2)
        BY <1>3, <2>4, <2>7, LeadsCat
      <4>3. <<uid>> \o <<sjoin>> \in Seq(Message)
        BY <2>7
      <4> QED BY <2>7, <3>5, <3>9, <4>1, <4>2, <4>3, LeadsCat
    <3>11. v3 = [users |-> v3.users, chan |-> v3.chan]
      BY DEF After
    <3> HIDE DEF v2, v3, c, d1, d2
    <3> QED BY <1>6, <2>5, <3>6, <3>8, <3>10, <3>11
  <2> QED BY <2>8, <2>9
<1> QED BY <1>7, <1>8

-----------------------------------------------------------------------------
(* The tree                                                                   *)

Rev(l) == <<l[2], l[1]>>
From(l, u) == Via[l[2]][Home[u]] = l[1]
Facing(k, l) == Toward(k, l[1]) /\ Toward(l, k[1])

LEMMA RevLink ==
  ASSUME NEW l \in Links
  PROVE  /\ Rev(l) \in Links /\ Rev(l)[1] = l[2] /\ Rev(l)[2] = l[1] /\ Rev(Rev(l)) = l
         /\ l[1] \in Servers /\ l[2] \in Servers /\ l[1] # l[2] /\ l = <<l[1], l[2]>>
         /\ Rev(l) # l
<1>1. l[1] \in Servers /\ l[2] \in Servers /\ l = <<l[1], l[2]>>
  BY LinkEnds
<1>2. l[1] # l[2] /\ Rev(l) \in Links
  BY Tree DEF Rev
<1>3. Rev(l)[1] = l[2] /\ Rev(l)[2] = l[1]
  BY DEF Rev
<1> QED BY <1>1, <1>2, <1>3 DEF Rev

LEMMA SideOf ==
  ASSUME NEW l \in Links, NEW t \in Servers
  PROVE  /\ Via[l[1]][t] # l[2] <=> Via[l[2]][t] = l[1]
         /\ Via[l[1]][l[2]] = l[2]
<1>1. Via[l[1]][t] # l[2] <=> Via[l[2]][t] = l[1]
  BY Tree
<1>2. Via[l[1]][l[2]] # l[2] <=> Via[l[2]][l[2]] = l[1]
  BY RevLink, Tree
<1>3. Via[l[2]][l[2]] = l[2] /\ l[1] # l[2]
  BY RevLink, Tree
<1> QED BY <1>1, <1>2, <1>3

LEMMA FromSide ==
  ASSUME NEW l \in Links, NEW u \in Users
  PROVE  From(l, u) <=> Via[l[1]][Home[u]] # l[2]
  BY SideOf, Tree DEF From

LEMMA FacingRev ==
  ASSUME NEW l \in Links
  PROVE  Facing(l, Rev(l)) /\ Facing(Rev(l), l)
<1>1. Via[l[1]][l[2]] = l[2] /\ l[1] # l[2]
  BY SideOf, RevLink
<1>2. Via[l[2]][l[1]] = l[1] /\ Rev(l)[1] = l[2] /\ Rev(l)[2] = l[1]
  <2>1. Via[Rev(l)[1]][Rev(l)[2]] = Rev(l)[2]
    BY SideOf, RevLink
  <2> QED BY <2>1, RevLink
<1> QED BY <1>1, <1>2 DEF Facing, Toward

\* What meets a message beyond a server meets it before the server.
LEMMA FacingBefore ==
  ASSUME NEW r \in Links, NEW l \in Links, r[2] = l[1], r[1] # l[2], NEW k \in Links,
         Facing(k, l)
  PROVE  Facing(k, r)
<1> DEFINE x == k[1]
           s == l[1]
           one == r[1]
           t == l[2]
<1>1. x # s /\ Via[x][s] = k[2] /\ Via[s][x] = t /\ x \in Servers
  BY RevLink DEF Facing, Toward
<1>2. Via[s][one] = one
  <2>1. Via[Rev(r)[1]][Rev(r)[2]] = Rev(r)[2]
    BY RevLink, SideOf
  <2> QED BY <2>1, RevLink
<1>3. x # one
  BY <1>1, <1>2
<1>4. Via[x][one] = Via[x][s]
  <2>1. x \in Servers \ {r[1], r[2]}
    BY <1>1, <1>3
  <2> QED BY <2>1, Tree
<1>5. Via[one][x] = s
  <2>1. Via[r[1]][x] # r[2] <=> Via[r[2]][x] = r[1]
    BY <1>1, SideOf
  <2> QED BY <1>1, <2>1
<1> QED BY <1>1, <1>3, <1>4, <1>5 DEF Facing, Toward

-----------------------------------------------------------------------------
(* One link: what the two ends think of it (a, b), what is on its way each     *)
(* way (x, y) and what each end has (v, w)                                     *)

\* Of a link that is up both ends come to the same; while one end waits for the
\* burst of the other, it will have what the two have; and the end that has not
\* met the end of the stream yet can handle what is before it.
PairOK(a, b, x, y, v, w) ==
  /\ a = "up" /\ b = "up" => \E z \in Views : Leads(x, w, z) /\ Leads(y, v, z)
  /\ a = "up" /\ b = "wait" => (AllSoft(x) => Leads(x, w, Both(v, w)))
  /\ a = "wait" /\ b = "up" => (AllSoft(y) => Leads(y, v, Both(w, v)))
  /\ a = "down" /\ b = "up" => \E z \in Views : Leads(x, w, z)
  /\ a = "up" /\ b = "down" => \E z \in Views : Leads(y, v, z)

Closes(x) == \E i \in DOMAIN x : x[i].type = "CLOSE"
WiresIn(a, b, x) ==
  /\ a = "wait" => x = << >>
  /\ Closes(x) => a = "down"
  /\ a = "down" /\ b # "down" => Closes(x)
  /\ a = "up" /\ b = "wait" => x # << >> /\ Head(x).type = "SERVER"
DirectedIn(l, x) == \A i \in DOMAIN x : \A u \in Senders(x[i]) : From(l, u)
ApartIn(l, a, b, us) ==
  a # "up" \/ b = "wait" => \A u \in us : Via[l[1]][Home[u]] # l[2]

Commute(m, n) == \/ m.type \in Merging /\ n.type \in Merging
                 \/ m.type = "CLOSE" \/ n.type = "CLOSE"
Given(a, b, x, f) == IF a = "up" /\ b # "down" THEN x \o <<f>> ELSE x
News(f) == f \in Message /\ f.type \notin {"SERVER", "CLOSE"}

LEMMA PairSym ==
  ASSUME NEW a, NEW b, NEW x, NEW y, NEW v, NEW w, PairOK(a, b, x, y, v, w)
  PROVE  PairOK(b, a, y, x, w, v)
  BY ZenonT(30) DEF PairOK

LEMMA Given1 ==
  ASSUME NEW x \in Seq(Message), NEW f \in Message
  PROVE  /\ x \o <<f>> \in Seq(Message) /\ x \o <<f>> # << >>
         /\ Len(x) \in Nat /\ Len(x \o <<f>>) = Len(x) + 1
         /\ \A i \in DOMAIN x : i \in DOMAIN (x \o <<f>>) /\ (x \o <<f>>)[i] = x[i]
         /\ \A i \in DOMAIN (x \o <<f>>) :
              \/ i \in DOMAIN x /\ (x \o <<f>>)[i] = x[i]
              \/ i = Len(x) + 1 /\ (x \o <<f>>)[i] = f
         /\ Len(x) + 1 \in DOMAIN (x \o <<f>>) /\ (x \o <<f>>)[Len(x) + 1] = f
         /\ x # << >> => Head(x \o <<f>>) = Head(x)
  OBVIOUS

\* A message is met by messages that commute with it: it goes past all of them,
\* or it ends a stream.
LEMMA MeetsSoft ==
  ASSUME NEW y \in Seq(Message), NEW f, News(f), \A i \in DOMAIN y : Commute(f, y[i])
  PROVE  Quit(y) \/ (f.type \in Soft /\ AllSoft(y))
<1>1. CASE f.type \in Merging
  <2>1. AllSoft(y)
    BY <1>1 DEF AllSoft, Commute, Soft, News
  <2> QED BY <1>1, <2>1 DEF Soft
<1>2. CASE f.type \notin Merging
  BY <1>2 DEF Quit, Commute, News
<1> QED BY <1>1, <1>2

LEMMA PairActs ==
  ASSUME NEW a, NEW b, NEW x \in Seq(Message), NEW y \in Seq(Message), NEW v \in Views,
         NEW w \in Views, PairOK(a, b, x, y, v, w), NEW f, News(f), Allowed(f, v),
         \A i \in DOMAIN y : Commute(f, y[i]), \A i \in DOMAIN y : Separate(f, y[i]),
         WiresIn(b, a, y), b = "wait" => Senders(f) \cap w.users = {}
  PROVE  PairOK(a, b, Given(a, b, x, f), y, After(v, f), w)
<1> DEFINE d == After(v, f)
<1>0. f \in Message /\ d \in Views /\ f.type \notin {"SERVER", "CLOSE"}
  BY AfterView DEF News
<1>f. <<f>> \in Seq(Message) /\ x \o <<f>> \in Seq(Message)
  BY <1>0, Given1
<1>s. Quit(y) \/ (f.type \in Soft /\ AllSoft(y))
  BY MeetsSoft
<1>1. ASSUME a = "up", b = "up"
      PROVE  \E z \in Views : Leads(x \o <<f>>, w, z) /\ Leads(y, d, z)
  <2>1. PICK z \in Views : Leads(x, w, z) /\ Leads(y, v, z)
    BY <1>1 DEF PairOK
  <2>2. CASE y = << >>
    <3>1. v = z
      BY <2>1, <2>2, LeadsEmpty
    <3>2. Leads(<<f>>, z, d)
      BY <1>0, <3>1, LeadsOne
    <3>3. Leads(x \o <<f>>, w, d)
      BY <1>f, <2>1, <3>2, LeadsCat
    <3>4. Leads(y, d, d)
      BY <1>0, <2>2, LeadsNil
    <3> QED BY <1>0, <3>3, <3>4
  <2>3. CASE y # << >>
    <3>1. ~Quit(y)
      <4>1. 1 \in DOMAIN y
        BY <2>3
      <4>2. y[1].type # "CLOSE"
        BY <1>1, <4>1 DEF WiresIn, Closes
      <4> QED BY <4>1, <4>2 DEF Quit
    <3>2. Leads(y, d, After(z, f)) /\ Allowed(f, z)
      BY <1>0, <1>s, <2>1, <3>1, LeadsPast
    <3>3. Leads(<<f>>, z, After(z, f)) /\ After(z, f) \in Views
      BY <1>0, <3>2, LeadsOne, AfterView
    <3>4. Leads(x \o <<f>>, w, After(z, f))
      BY <1>f, <2>1, <3>3, LeadsCat
    <3> QED BY <3>2, <3>3, <3>4
  <2> QED BY <2>2, <2>3
<1>2. ASSUME a = "up", b = "wait", AllSoft(x \o <<f>>)
      PROVE  Leads(x \o <<f>>, w, Both(d, w))
  <2>1. AllSoft(x) /\ f.type \in Soft
    BY <1>0, <1>2, Given1, SMTT(40) DEF AllSoft
  <2>2. Leads(x, w, Both(v, w))
    BY <1>2, <2>1 DEF PairOK
  <2>3. Both(v, w) \in Views
    BY <2>2, LeadsView
  <2>4. Allowed(f, Both(v, w))
    BY <1>0, <1>2, <2>1, BothAllowed
  <2>5. Leads(<<f>>, Both(v, w), After(Both(v, w), f))
    BY <1>0, <2>3, <2>4, LeadsOne
  <2>6. Both(d, w) = After(Both(v, w), f)
    BY <1>0, <2>1, <2>3, <2>4, BothAfter
  <2> QED BY <1>f, <2>2, <2>5, <2>6, LeadsCat
<1>3. ASSUME a = "wait", b = "up", AllSoft(y)
      PROVE  Leads(y, d, Both(w, d))
  <2>1. Leads(y, v, Both(w, v)) /\ Both(w, v) = Both(v, w)
    BY <1>3, BothComm DEF PairOK
  <2>2. ~Quit(y)
    <3>1. y # << >> /\ Head(y).type = "SERVER"
      BY <1>3 DEF WiresIn
    <3>2. 1 \in DOMAIN y /\ y[1].type = "SERVER"
      BY <3>1
    <3> QED BY <3>2 DEF Quit
  <2>3. f.type \in Soft
    BY <1>s, <2>2
  <2>4. Leads(y, d, After(Both(v, w), f)) /\ Allowed(f, Both(v, w))
    BY <1>0, <1>3, <2>1, <2>3, LeadsPast
  <2>5. Both(v, w) \in Views
    BY <2>1, LeadsView
  <2>6. Both(d, w) = After(Both(v, w), f)
    BY <1>0, <2>3, <2>4, <2>5, BothAfter
  <2>7. Both(d, w) = Both(w, d)
    BY <1>0, BothComm
  <2> QED BY <2>4, <2>6, <2>7
<1>4. ASSUME a = "up", b = "down"
      PROVE  \E z \in Views : Leads(y, d, z)
  <2>1. PICK z \in Views : Leads(y, v, z)
    BY <1>4 DEF PairOK
  <2>2. CASE Quit(y)
    <3>1. Leads(y, d, d)
      BY <1>0, <2>2, LeadsQuit
    <3> QED BY <1>0, <3>1
  <2>3. CASE f.type \in Soft /\ AllSoft(y)
    <3>1. Leads(y, d, After(z, f)) /\ Allowed(f, z)
      BY <1>0, <2>1, <2>3, LeadsPast
    <3> QED BY <1>0, <3>1, AfterView
  <2> QED BY <1>s, <2>2, <2>3
<1>5. a = "down" /\ b = "up" => \E z \in Views : Leads(x, w, z)
  BY DEF PairOK
<1> HIDE DEF d
<1>6. PairOK(a, b, Given(a, b, x, f), y, d, w)
  <2> USE DEF Given
  <2>1. a = "up" /\ b = "up" => \E z \in Views : Leads(Given(a, b, x, f), w, z) /\ Leads(y, d, z)
    BY <1>1
  <2>2. a = "up" /\ b = "wait" => (AllSoft(Given(a, b, x, f)) =>
          Leads(Given(a, b, x, f), w, Both(d, w)))
    BY <1>2
  <2>3. a = "wait" /\ b = "up" => (AllSoft(y) => Leads(y, d, Both(w, d)))
    BY <1>3
  <2>4. a = "down" /\ b = "up" => \E z \in Views : Leads(Given(a, b, x, f), w, z)
    BY <1>5
  <2>5. a = "up" /\ b = "down" => \E z \in Views : Leads(y, d, z)
    BY <1>4
  <2> HIDE DEF Given
  <2> QED BY <2>1, <2>2, <2>3, <2>4, <2>5 DEF PairOK
<1> QED BY <1>6 DEF d

LEMMA PairHears ==
  ASSUME NEW a \in {"up", "down"}, NEW x \in Seq(Message), x # << >>, NEW y, NEW v, NEW w,
         PairOK(a, "up", x, y, v, w)
  PROVE  /\ Allowed(Head(x), w)
         /\ PairOK(a, "up", Tail(x), y, v, After(w, Head(x)))
<1>1. PICK z \in Views : Leads(x, w, z) /\ (a = "up" => Leads(y, v, z))
  BY DEF PairOK
<1>2. Leads(Tail(x), After(w, Head(x)), z) /\ Allowed(Head(x), w)
  BY <1>1, LeadsTail
<1> QED BY <1>1, <1>2 DEF PairOK

LEMMA WiresGiven ==
  ASSUME NEW a, NEW b, NEW x \in Seq(Message), WiresIn(a, b, x), NEW f, News(f)
  PROVE  WiresIn(a, b, Given(a, b, x, f))
<1>1. CASE a = "up" /\ b # "down"
  <2>1. ~Closes(x) /\ f \in Message /\ f.type # "CLOSE"
    BY <1>1 DEF WiresIn, News
  <2>2. ~Closes(x \o <<f>>)
    BY <2>1, Given1 DEF Closes
  <2>3. b = "wait" => x \o <<f>> # << >> /\ Head(x \o <<f>>).type = "SERVER"
    BY <1>1, <2>1, Given1 DEF WiresIn
  <2> QED BY <1>1, <2>2, <2>3 DEF WiresIn, Given
<1>2. CASE ~(a = "up" /\ b # "down")
  BY <1>2 DEF Given
<1> QED BY <1>1, <1>2

LEMMA WiresTail ==
  ASSUME NEW a, NEW b, NEW x \in Seq(Message), WiresIn(a, b, x), x # << >>, b # "down",
         Head(x).type # "CLOSE", NEW c \in {"up", "down"}
  PROVE  /\ WiresIn(a, c, Tail(x)) /\ a # "wait"
         /\ a = "down" => Closes(x)
<1>1. Len(x) \in Nat /\ Len(x) >= 1 /\ Head(x) = x[1] /\ Len(Tail(x)) = Len(x) - 1
  OBVIOUS
<1>2. \A i \in DOMAIN Tail(x) : i + 1 \in DOMAIN x /\ Tail(x)[i] = x[i + 1]
  BY <1>1
<1>3. Closes(Tail(x)) => Closes(x)
  BY <1>2 DEF Closes
<1>4. Closes(x) => Closes(Tail(x))
  <2>1. ASSUME NEW i \in DOMAIN x, x[i].type = "CLOSE" PROVE Closes(Tail(x))
    <3>1. i \in 1..Len(x) /\ i # 1
      BY <1>1, <2>1
    <3>2. i - 1 \in DOMAIN Tail(x) /\ Tail(x)[i - 1] = x[i]
      BY <1>1, <3>1
    <3> QED BY <2>1, <3>2 DEF Closes
  <2> QED BY <2>1 DEF Closes
<1> QED BY <1>3, <1>4 DEF WiresIn

LEMMA DirectedGiven ==
  ASSUME NEW l, NEW x \in Seq(Message), DirectedIn(l, x), NEW f \in Message,
         \A u \in Senders(f) : From(l, u)
  PROVE  DirectedIn(l, x \o <<f>>)
  BY Given1 DEF DirectedIn

LEMMA DirectedTail ==
  ASSUME NEW l, NEW x \in Seq(Message), DirectedIn(l, x), x # << >>
  PROVE  DirectedIn(l, Tail(x)) /\ \A u \in Senders(Head(x)) : From(l, u)
<1>1. Len(x) \in Nat /\ Len(x) >= 1 /\ Head(x) = x[1] /\ Len(Tail(x)) = Len(x) - 1
  OBVIOUS
<1>2. \A i \in DOMAIN Tail(x) : i + 1 \in DOMAIN x /\ Tail(x)[i] = x[i + 1]
  BY <1>1
<1> QED BY <1>1, <1>2 DEF DirectedIn

-----------------------------------------------------------------------------
(* The invariant, and a step of a server as the links it is not made on see it *)

PairAt(l) == PairOK(conn[l], conn[Rev(l)], q[l], q[Rev(l)], View(l[1]), View(l[2]))
LinkAt(l) == /\ DirectedIn(l, q[l])
             /\ ApartIn(l, conn[l], conn[Rev(l)], known[l[1]])
             /\ WiresIn(conn[l], conn[Rev(l)], q[l])
\* Messages on their way to meet commute.
Uncrossed == \A k, l \in Links : Facing(k, l) =>
               \A i \in DOMAIN q[k], j \in DOMAIN q[l] : Commute(q[k][i], q[l][j])
Sync == /\ \A l \in Links : LinkAt(l)
        /\ ~crossed => Uncrossed /\ \A l \in Links : PairAt(l)

Own(r, s, one) == (r[1] = s /\ r[2] = one) \/ (r[1] = one /\ r[2] = s)
\* Server s does what message f says, and tells it to all its neighbours but one.
Acts(s, one, f) ==
  /\ News(f)
  /\ \A t \in Servers \ {s} : known'[t] = known[t] /\ chan'[t] = chan[t]
  /\ known'[s] \subseteq known[s] \cup Senders(f)
  /\ \A r \in Links : r[1] = s /\ r[2] # one =>
       \A u \in Senders(f) : Via[s][Home[u]] # r[2]
  /\ \A r \in Links : ~Own(r, s, one) =>
       /\ conn'[r] = conn[r]
       /\ q'[r] = IF r[1] = s THEN Given(conn[r], conn[Rev(r)], q[r], f) ELSE q[r]
  /\ ~crossed' =>
       /\ ~crossed /\ Allowed(f, View(s)) /\ View(s)' = After(View(s), f)
       /\ \A r \in Links : r[1] = s /\ r[2] # one =>
            \A k \in Links : Facing(k, r) => \A i \in DOMAIN q[k] : Commute(f, q[k][i])

LEMMA ViewOK == ASSUME IInv, NEW s \in Servers PROVE View(s) \in Views
  BY DEF IInv, TypeOK, Channels, KnownMembers, View, Views

LEMMA SendersOK == ASSUME NEW m \in Message PROVE Senders(m) \subseteq Users
<1>1. m.type = "SJOIN" => m.users \subseteq Users
  BY MessageFields DEF SJoinMsg
<1> QED BY <1>1, MessageFields DEF Senders

LEMMA QueueOf == ASSUME IInv, NEW l \in Links PROVE q[l] \in Seq(Message)
  BY DEF IInv, Queues

LEMMA ActsLinks ==
  ASSUME IInv, Sync, NEW s \in Servers, NEW one, NEW f, Acts(s, one, f), NEW r \in Links,
         ~Own(r, s, one)
  PROVE  LinkAt(r)'
<1>0. /\ Rev(r) \in Links /\ r[1] \in Servers /\ r[2] \in Servers /\ Rev(r)[1] = r[2]
      /\ Rev(r)[2] = r[1] /\ r[1] # r[2] /\ ~Own(Rev(r), s, one)
  BY RevLink DEF Own
<1>1. LinkAt(r) /\ q[r] \in Seq(Message) /\ News(f) /\ f \in Message
  BY QueueOf DEF Sync, Acts, News
<1>2. conn'[r] = conn[r] /\ conn'[Rev(r)] = conn[Rev(r)]
  BY <1>0 DEF Acts
<1>3. CASE r[1] = s
  <2>1. q'[r] = Given(conn[r], conn[Rev(r)], q[r], f) /\ r[2] # one
    BY <1>3 DEF Acts, Own
  <2>2. \A u \in Senders(f) : Via[s][Home[u]] # r[2]
    BY <1>3, <2>1 DEF Acts
  <2>3. \A u \in Senders(f) : From(r, u)
    BY <1>1, <1>3, <2>2, SendersOK, FromSide
  <2>4. DirectedIn(r, q'[r])
    BY <1>1, <2>1, <2>3, DirectedGiven DEF LinkAt, Given
  <2>5. WiresIn(conn[r], conn[Rev(r)], q'[r])
    BY <1>1, <2>1, WiresGiven DEF LinkAt
  <2>6. ApartIn(r, conn[r], conn[Rev(r)], known'[r[1]])
    <3>1. known'[s] \subseteq known[s] \cup Senders(f)
      BY DEF Acts
    <3> QED BY <1>1, <1>3, <2>2, <3>1 DEF LinkAt, ApartIn
  <2> QED BY <1>2, <2>4, <2>5, <2>6 DEF LinkAt
<1>4. CASE r[1] # s
  <2>1. q'[r] = q[r] /\ known'[r[1]] = known[r[1]]
    BY <1>0, <1>4 DEF Acts
  <2> QED BY <1>1, <1>2, <2>1 DEF LinkAt
<1> QED BY <1>3, <1>4

LEMMA ActsPair ==
  ASSUME IInv, Sync, NEW s \in Servers, NEW one, NEW f, Acts(s, one, f), ~crossed',
         NEW r \in Links, ~Own(r, s, one), r[1] = s
  PROVE  PairAt(r)' /\ PairAt(Rev(r))'
<1> DEFINE k == Rev(r)
           t == r[2]
<1>0. /\ k \in Links /\ t \in Servers /\ k[1] = t /\ k[2] = s /\ Rev(k) = r /\ s # t
      /\ ~Own(k, s, one) /\ t # one
  BY RevLink DEF Own
<1>1. PairAt(r) /\ LinkAt(k) /\ q[r] \in Seq(Message) /\ q[k] \in Seq(Message)
  BY <1>0, QueueOf DEF Sync, Acts
<1>2. /\ conn'[r] = conn[r] /\ conn'[k] = conn[k] /\ q'[k] = q[k]
      /\ q'[r] = Given(conn[r], conn[k], q[r], f)
  BY <1>0 DEF Acts
<1>3. View(s) \in Views /\ View(t) \in Views
  BY <1>0, ViewOK
<1>4. News(f) /\ f \in Message /\ Allowed(f, View(s)) /\ View(s)' = After(View(s), f)
  BY DEF Acts, News
<1>5. View(t)' = View(t)
  BY <1>0 DEF Acts, View
<1>6. \A i \in DOMAIN q[k] : Commute(f, q[k][i])
  BY <1>0, FacingRev DEF Acts
<1>7. \A u \in Senders(f) : Via[s][Home[u]] # t /\ u \in Users
  BY <1>0, <1>4, SendersOK DEF Acts
<1>8. \A i \in DOMAIN q[k] : Separate(f, q[k][i])
  <2>1. \A i \in DOMAIN q[k] : \A u \in Senders(q[k][i]) : Via[s][Home[u]] = t
    BY <1>0, <1>1 DEF LinkAt, DirectedIn, From
  <2> QED BY <1>7, <2>1 DEF Separate
<1>9. WiresIn(conn[k], conn[r], q[k])
  BY <1>0, <1>1 DEF LinkAt
<1>10. conn[k] = "wait" => Senders(f) \cap View(t).users = {}
  <2>1. ASSUME conn[k] = "wait" PROVE \A u \in known[t] : Via[t][Home[u]] # s
    BY <1>0, <1>1, <2>1 DEF LinkAt, ApartIn
  <2>2. ASSUME NEW u \in Senders(f) PROVE Via[t][Home[u]] = s
    BY <1>0, <1>7, SideOf, Tree
  <2> QED BY <2>1, <2>2 DEF View
<1>11. PairOK(conn[r], conn[k], q[r], q[k], View(s), View(t))
  BY <1>1 DEF PairAt
<1> HIDE DEF k, t
<1>12. PairOK(conn[r], conn[k], Given(conn[r], conn[k], q[r], f), q[k],
              After(View(s), f), View(t))
  BY <1>1, <1>3, <1>4, <1>6, <1>8, <1>9, <1>10, <1>11, PairActs
<1>13. PairOK(conn'[r], conn'[k], q'[r], q'[k], View(s)', View(t)')
  BY <1>2, <1>4, <1>5, <1>12
<1>14. PairOK(conn'[k], conn'[r], q'[k], q'[r], View(t)', View(s)')
  BY <1>13, PairSym
<1>15. PairAt(r)'
  BY <1>13 DEF PairAt, k, t
<1>16. PairAt(k)'
  BY <1>0, <1>14 DEF PairAt
<1> QED BY <1>15, <1>16 DEF k

LEMMA ActsPairs ==
  ASSUME IInv, Sync, NEW s \in Servers, NEW one, NEW f, Acts(s, one, f), ~crossed',
         NEW r \in Links, ~Own(r, s, one)
  PROVE  PairAt(r)'
<1>0. /\ Rev(r) \in Links /\ r[1] \in Servers /\ r[2] \in Servers /\ Rev(r)[1] = r[2]
      /\ Rev(r)[2] = r[1] /\ r[1] # r[2] /\ ~Own(Rev(r), s, one) /\ Rev(Rev(r)) = r
  BY RevLink DEF Own
<1>1. CASE r[1] = s
  BY <1>1, ActsPair
<1>2. CASE r[2] = s
  BY <1>0, <1>2, ActsPair
<1>3. CASE r[1] # s /\ r[2] # s
  <2>1. /\ conn'[r] = conn[r] /\ conn'[Rev(r)] = conn[Rev(r)]
        /\ q'[r] = q[r] /\ q'[Rev(r)] = q[Rev(r)]
    BY <1>0, <1>3 DEF Acts
  <2>2. View(r[1])' = View(r[1]) /\ View(r[2])' = View(r[2])
    BY <1>0, <1>3 DEF Acts, View
  <2>3. PairAt(r)
    BY DEF Sync, Acts
  <2> QED BY <2>1, <2>2, <2>3 DEF PairAt
<1> QED BY <1>1, <1>2, <1>3

LEMMA CommuteSym == ASSUME NEW m, NEW n, Commute(m, n) PROVE Commute(n, m)
  BY DEF Commute

LEMMA ActsUncrossed ==
  ASSUME IInv, Sync, NEW s \in Servers, NEW one, NEW f, Acts(s, one, f), ~crossed',
         \A r \in Links : Own(r, s, one) => \A i \in DOMAIN q'[r] :
           q'[r][i].type = "CLOSE" \/ \E j \in DOMAIN q[r] : q'[r][i] = q[r][j]
  PROVE  Uncrossed'
<1>1. ~crossed /\ Uncrossed /\ f \in Message
  BY DEF Sync, Acts, News
<1>2. ASSUME NEW r \in Links, NEW i \in DOMAIN q'[r]
      PROVE  \/ q'[r][i].type = "CLOSE"
             \/ \E j \in DOMAIN q[r] : q'[r][i] = q[r][j]
             \/ r[1] = s /\ r[2] # one /\ q'[r][i] = f
  <2>1. CASE Own(r, s, one)
    BY <1>2, <2>1
  <2>2. CASE ~Own(r, s, one) /\ r[1] # s
    <3>1. q'[r] = q[r]
      BY <2>2 DEF Acts
    <3> QED BY <1>2, <3>1
  <2>3. CASE ~Own(r, s, one) /\ r[1] = s
    <3>1. q'[r] = Given(conn[r], conn[Rev(r)], q[r], f) /\ r[2] # one /\ q[r] \in Seq(Message)
      BY <2>3, QueueOf DEF Acts, Own
    <3>2. CASE q'[r] = q[r]
      BY <1>2, <3>2
    <3>3. CASE q'[r] = q[r] \o <<f>>
      <4>1. \/ i \in DOMAIN q[r] /\ q'[r][i] = q[r][i]
            \/ q'[r][i] = f
        BY <1>1, <1>2, <3>1, <3>3, Given1
      <4> QED BY <2>3, <3>1, <4>1
    <3> QED BY <3>1, <3>2, <3>3 DEF Given
  <2> QED BY <2>1, <2>2, <2>3
<1>3. ASSUME NEW k \in Links, NEW l \in Links, Facing(k, l), NEW i \in DOMAIN q'[k],
             NEW j \in DOMAIN q'[l]
      PROVE  Commute(q'[k][i], q'[l][j])
  <2>1. CASE q'[k][i].type = "CLOSE" \/ q'[l][j].type = "CLOSE"
    BY <2>1 DEF Commute
  <2>2. k[1] # l[1] /\ Facing(l, k)
    BY <1>3 DEF Facing, Toward
  <2>3. CASE l[1] = s /\ l[2] # one /\ q'[l][j] = f /\ q'[k][i].type # "CLOSE"
    <3>1. PICK n \in DOMAIN q[k] : q'[k][i] = q[k][n]
      BY <1>2, <1>3, <2>2, <2>3
    <3>2. Commute(f, q[k][n])
      BY <1>3, <2>3, <3>1 DEF Acts
    <3> QED BY <2>3, <3>1, <3>2, CommuteSym
  <2>4. CASE k[1] = s /\ k[2] # one /\ q'[k][i] = f /\ q'[l][j].type # "CLOSE"
    <3>1. PICK n \in DOMAIN q[l] : q'[l][j] = q[l][n]
      BY <1>2, <1>3, <2>2, <2>4
    <3>2. Commute(f, q[l][n])
      BY <2>2, <2>4, <3>1 DEF Acts
    <3> QED BY <2>4, <3>1, <3>2
  <2>5. CASE /\ \E n \in DOMAIN q[k] : q'[k][i] = q[k][n]
             /\ \E n \in DOMAIN q[l] : q'[l][j] = q[l][n]
    BY <1>1, <1>3, <2>5 DEF Uncrossed
  <2> QED BY <1>2, <1>3, <2>1, <2>3, <2>4, <2>5
<1> QED BY <1>3 DEF Uncrossed

\* The links the step is made on.
OwnOK(r) ==
  /\ LinkAt(r)' /\ (~crossed' => PairAt(r)')
  /\ \A i \in DOMAIN q'[r] :
       q'[r][i].type = "CLOSE" \/ \E j \in DOMAIN q[r] : q'[r][i] = q[r][j]

LEMMA ActsSync ==
  ASSUME IInv, Sync, NEW s \in Servers, NEW one, NEW f, Acts(s, one, f),
         \A r \in Links : Own(r, s, one) => OwnOK(r)
  PROVE  Sync'
<1>1. \A r \in Links : LinkAt(r)'
  BY ActsLinks DEF OwnOK
<1>2. ASSUME ~crossed' PROVE Uncrossed' /\ \A r \in Links : PairAt(r)'
  <2>1. \A r \in Links : Own(r, s, one) => \A i \in DOMAIN q'[r] :
          q'[r][i].type = "CLOSE" \/ \E j \in DOMAIN q[r] : q'[r][i] = q[r][j]
    BY DEF OwnOK
  <2>2. Uncrossed'
    BY <1>2, <2>1, ActsUncrossed
  <2>3. \A r \in Links : PairAt(r)'
    BY <1>2, ActsPairs DEF OwnOK
  <2> QED BY <2>2, <2>3
<1> QED BY <1>1, <1>2 DEF Sync

\* The message at the head of a link can be handled by the server it has reached.
LEMMA Ready ==
  ASSUME IInv, Sync, NEW l \in Links, q[l] # << >>, conn[Rev(l)] = "up"
  PROVE  /\ conn[l] \in {"up", "down"}
         /\ Head(q[l]) \in Message /\ Tail(q[l]) \in Seq(Message)
         /\ Head(q[l]) = q[l][1] /\ 1 \in DOMAIN q[l]
         /\ \A i \in DOMAIN Tail(q[l]) : \E j \in DOMAIN q[l] : Tail(q[l])[i] = q[l][j]
         /\ \A u \in Senders(Head(q[l])) : Via[l[2]][Home[u]] = l[1]
         /\ ~crossed => Allowed(Head(q[l]), View(l[2]))
<1>1. q[l] \in Seq(Message) /\ LinkAt(l)
  BY QueueOf DEF Sync
<1>2. conn[l] \in {"up", "wait", "down"}
  BY DEF IInv, TypeOK
<1>3. conn[l] # "wait"
  BY <1>1 DEF LinkAt, WiresIn
<1>4. \A u \in Senders(Head(q[l])) : Via[l[2]][Home[u]] = l[1]
  BY <1>1, DirectedTail DEF LinkAt, From
<1>5. ASSUME ~crossed PROVE Allowed(Head(q[l]), View(l[2]))
  <2>1. PairOK(conn[l], "up", q[l], q[Rev(l)], View(l[1]), View(l[2]))
    BY <1>5 DEF Sync, PairAt
  <2> QED BY <1>1, <1>2, <1>3, <2>1, PairHears
<1>6. /\ Head(q[l]) \in Message /\ Tail(q[l]) \in Seq(Message)
      /\ Head(q[l]) = q[l][1] /\ 1 \in DOMAIN q[l]
  BY <1>1
<1>7. \A i \in DOMAIN Tail(q[l]) : i + 1 \in DOMAIN q[l] /\ Tail(q[l])[i] = q[l][i + 1]
  BY <1>1
<1> QED BY <1>2, <1>3, <1>4, <1>5, <1>6, <1>7

\* The link a message is received on.
LEMMA Hears ==
  ASSUME IInv, Sync, NEW l \in Links, q[l] # << >>, conn[Rev(l)] = "up",
         News(Head(q[l])), UNCHANGED <<conn, crossed>>,
         q'[l] = Tail(q[l]), q'[Rev(l)] = q[Rev(l)],
         known'[l[1]] = known[l[1]], chan'[l[1]] = chan[l[1]],
         known'[l[2]] \subseteq known[l[2]] \cup Senders(Head(q[l])),
         ~crossed => View(l[2])' = After(View(l[2]), Head(q[l])),
         NEW r \in Links, Own(r, l[2], l[1])
  PROVE  OwnOK(r)
<1> DEFINE k == Rev(l)
           m == Head(q[l])
<1>0. /\ k \in Links /\ k[1] = l[2] /\ k[2] = l[1] /\ Rev(k) = l
      /\ r = l \/ r = k
  <2>1. (r[1] = k[1] /\ r[2] = k[2]) \/ (r[1] = l[1] /\ r[2] = l[2])
    BY RevLink DEF Own
  <2>2. r = <<r[1], r[2]>> /\ l = <<l[1], l[2]>> /\ k = <<k[1], k[2]>>
    BY RevLink
  <2> QED BY <2>1, <2>2, RevLink
<1>1. LinkAt(l) /\ LinkAt(k) /\ q[l] \in Seq(Message)
  BY <1>0, QueueOf DEF Sync
<1>2. /\ conn[l] \in {"up", "down"} /\ Tail(q[l]) \in Seq(Message)
      /\ \A i \in DOMAIN Tail(q[l]) : \E j \in DOMAIN q[l] : Tail(q[l])[i] = q[l][j]
      /\ \A u \in Senders(m) : Via[l[2]][Home[u]] = l[1]
  BY Ready
<1>3. LinkAt(l)'
  <2>1. DirectedIn(l, Tail(q[l]))
    BY <1>1, DirectedTail DEF LinkAt
  <2>2. WiresIn(conn[l], conn[k], q[l]) /\ Head(q[l]).type # "CLOSE"
    BY <1>1 DEF LinkAt, News
  <2>3. WiresIn(conn[l], "up", Tail(q[l]))
    BY <1>1, <2>2, WiresTail
  <2>4. ApartIn(l, conn[l], conn[k], known[l[1]])
    BY <1>1 DEF LinkAt
  <2> QED BY <2>1, <2>3, <2>4 DEF LinkAt
<1>4. LinkAt(k)'
  <2>1. conn[k] = "up" /\ conn[l] # "wait"
    BY <1>2
  <2>2. ApartIn(k, conn[k], conn[l], known'[k[1]])
    BY <2>1 DEF ApartIn
  <2>3. DirectedIn(k, q[k]) /\ WiresIn(conn[k], conn[l], q[k])
    BY <1>0, <1>1 DEF LinkAt
  <2> QED BY <1>0, <2>2, <2>3 DEF LinkAt
<1>5. ASSUME ~crossed PROVE PairAt(l)' /\ PairAt(k)'
  <2>1. PairOK(conn[l], "up", q[l], q[k], View(l[1]), View(l[2]))
    BY <1>5 DEF Sync, PairAt
  <2> HIDE DEF k, m
  <2>2. PairOK(conn[l], "up", Tail(q[l]), q[k], View(l[1]), After(View(l[2]), Head(q[l])))
    BY <1>1, <1>2, <2>1, PairHears
  <2>3. View(l[1])' = View(l[1]) /\ View(l[2])' = After(View(l[2]), Head(q[l]))
    BY <1>5 DEF View
  <2>4. /\ conn'[l] = conn[l] /\ conn'[k] = "up" /\ q'[l] = Tail(q[l]) /\ q'[k] = q[k]
    BY DEF k
  <2>5. PairOK(conn'[l], conn'[k], q'[l], q'[k], View(l[1])', View(l[2])')
    BY <2>2, <2>3, <2>4
  <2>6. PairOK(conn'[k], conn'[l], q'[k], q'[l], View(l[2])', View(l[1])')
    BY <2>5, PairSym
  <2>7. PairAt(l)'
    BY <2>5 DEF PairAt, k
  <2>8. PairAt(k)'
    BY <1>0, <2>6 DEF PairAt
  <2> QED BY <2>7, <2>8
<1>6. \A i \in DOMAIN q'[r] : \E j \in DOMAIN q[r] : q'[r][i] = q[r][j]
  <2>1. CASE r = l
    <3>1. q'[r] = Tail(q[l]) /\ q[r] = q[l]
      BY <2>1
    <3> QED BY <1>2, <3>1
  <2>2. CASE r = k
    <3>1. q'[r] = q[r]
      BY <2>2
    <3> QED BY <3>1
  <2> QED BY <1>0, <2>1, <2>2
<1> QED BY <1>0, <1>3, <1>4, <1>5, <1>6 DEF OwnOK

\* A message that is handled and passed on, as f, to the servers beyond.
LEMMA Passes ==
  ASSUME IInv, Sync, NEW l \in Links, q[l] # << >>, conn[Rev(l)] = "up",
         News(Head(q[l])), NEW f, News(f), f.type = Head(q[l]).type,
         Senders(f) \subseteq Senders(Head(q[l])), NEW k, NEW c,
         k \subseteq known[l[2]] \cup Senders(f),
         known' = [known EXCEPT ![l[2]] = k], chan' = [chan EXCEPT ![l[2]] = c],
         q' = Flooded(Popped(l), l[2], l[1], <<f>>), UNCHANGED <<conn, crossed>>,
         ~crossed => /\ Allowed(f, View(l[2]))
                     /\ [users |-> k, chan |-> c] = After(View(l[2]), Head(q[l]))
                     /\ [users |-> k, chan |-> c] = After(View(l[2]), f)
  PROVE  Sync'
<1> DEFINE s == l[2]
           one == l[1]
           m == Head(q[l])
<1>0. /\ s \in Servers /\ one \in Servers /\ s # one /\ l = <<l[1], l[2]>>
      /\ Rev(l) \in Links /\ Rev(l)[1] = s /\ Rev(l)[2] = one /\ Rev(l) # l
  BY RevLink
<1>1. /\ \A u \in Senders(m) : Via[s][Home[u]] = one
      /\ m = q[l][1] /\ 1 \in DOMAIN q[l]
  BY Ready
<1>2. /\ \A t \in Servers \ {s} : known'[t] = known[t] /\ chan'[t] = chan[t]
      /\ known'[s] = k /\ chan'[s] = c
  BY <1>0 DEF IInv, TypeOK
<1>3. \A r \in Links : q'[r] = IF r[1] = s /\ r[2] # one
                               THEN Given(conn[r], conn[Rev(r)], Popped(l)[r], f)
                               ELSE Popped(l)[r]
  BY DEF Flooded, Given, Rev
<1>4. \A r \in Links : Popped(l)[r] = IF r = l THEN Tail(q[l]) ELSE q[r]
  BY DEF Popped, IInv, TypeOK
<1>5. \A r \in Links : ~Own(r, s, one) =>
        q'[r] = IF r[1] = s THEN Given(conn[r], conn[Rev(r)], q[r], f) ELSE q[r]
  <2>1. \A r \in Links : ~Own(r, s, one) => r # l /\ (r[1] = s => r[2] # one)
    BY DEF Own
  <2> QED BY <1>3, <1>4, <2>1
<1>6. ASSUME ~crossed'
      PROVE  /\ ~crossed /\ Allowed(f, View(s)) /\ View(s)' = After(View(s), f)
             /\ \A r \in Links : r[1] = s /\ r[2] # one =>
                  \A n \in Links : Facing(n, r) => \A i \in DOMAIN q[n] : Commute(f, q[n][i])
  <2>1. ~crossed /\ Uncrossed
    BY <1>6 DEF Sync
  <2>2. ASSUME NEW r \in Links, r[1] = s, r[2] # one, NEW n \in Links, Facing(n, r),
               NEW i \in DOMAIN q[n]
        PROVE  Commute(f, q[n][i])
    <3>1. Facing(n, l)
      BY <2>2, FacingBefore
    <3>2. Commute(q[n][i], m)
      BY <1>1, <2>1, <2>2, <3>1 DEF Uncrossed
    <3> QED BY <3>2 DEF Commute
  <2>3. View(s)' = [users |-> k, chan |-> c]
    BY <1>2 DEF View
  <2> QED BY <2>1, <2>2, <2>3
<1>7. \A r \in Links : r[1] = s /\ r[2] # one =>
        \A u \in Senders(f) : Via[s][Home[u]] # r[2]
  BY <1>1
<1>8. Acts(s, one, f)
  BY <1>2, <1>5, <1>6, <1>7 DEF Acts
<1>9. \A r \in Links : Own(r, s, one) => OwnOK(r)
  <2>1. q'[l] = Tail(q[l])
    BY <1>0, <1>3, <1>4
  <2>2. q'[Rev(l)] = q[Rev(l)]
    BY <1>0, <1>3, <1>4
  <2>3. known'[s] \subseteq known[s] \cup Senders(m)
    BY <1>2
  <2>4. ~crossed => View(s)' = After(View(s), m)
    BY <1>2 DEF View
  <2>5. known'[one] = known[one] /\ chan'[one] = chan[one]
    BY <1>0, <1>2
  <2> QED BY <2>1, <2>2, <2>3, <2>4, <2>5, Hears
<1> HIDE DEF s, one
<1> QED BY <1>0, <1>8, <1>9, ActsSync

\* A message that is passed on to nobody.
LEMMA Drops ==
  ASSUME IInv, Sync, NEW l \in Links, q[l] # << >>, conn[Rev(l)] = "up",
         News(Head(q[l])), NEW c, Handle(l, c, << >>),
         ~crossed => c = chan[l[2]] /\ After(View(l[2]), Head(q[l])) = View(l[2])
  PROVE  Sync'
<1> DEFINE s == l[2]
           one == l[1]
<1>0. /\ s \in Servers /\ one \in Servers /\ s # one /\ l = <<l[1], l[2]>>
      /\ Rev(l) \in Links /\ Rev(l)[1] = s /\ Rev(l)[2] = one /\ Rev(l) # l
  BY RevLink
<1>1. /\ UNCHANGED <<known, conn, crossed>> /\ chan' = [chan EXCEPT ![s] = c]
      /\ q' = Flooded(Popped(l), s, one, << >>)
  BY DEF Handle
<1>2. \A t \in Servers : t # s => chan'[t] = chan[t]
  BY <1>1 DEF IInv, TypeOK
<1>3. \A r \in Links : q'[r] = IF r = l THEN Tail(q[l]) ELSE q[r]
  <2>1. \A r \in Links : Popped(l)[r] = IF r = l THEN Tail(q[l]) ELSE q[r]
    BY DEF Popped, IInv, TypeOK
  <2>2. ASSUME NEW r \in Links PROVE q'[r] = Popped(l)[r]
    <3>1. Popped(l)[r] \in Seq(Message)
      BY PoppedOK DEF IInv
    <3>2. Popped(l)[r] \o << >> = Popped(l)[r]
      BY <3>1
    <3> QED BY <1>1, <3>2 DEF Flooded
  <2> QED BY <2>1, <2>2
<1>4. ~crossed => \A t \in Servers : View(t)' = View(t)
  <2>1. ~crossed => chan'[s] = chan[s]
    BY <1>0, <1>1 DEF IInv, TypeOK
  <2> QED BY <1>1, <1>2, <2>1 DEF View
<1>5. ASSUME NEW r \in Links, Own(r, s, one) PROVE OwnOK(r)
  BY <1>0, <1>1, <1>2, <1>3, <1>4, <1>5, Hears
<1>6. ASSUME NEW r \in Links, ~Own(r, s, one) PROVE LinkAt(r)' /\ (~crossed' => PairAt(r)')
  <2>1. r # l /\ Rev(r) # l /\ r[1] \in Servers /\ r[2] \in Servers /\ Rev(r) \in Links
    BY <1>6, RevLink DEF Own
  <2>2. q'[r] = q[r] /\ q'[Rev(r)] = q[Rev(r)]
    BY <1>3, <2>1
  <2>3. LinkAt(r) /\ (~crossed => PairAt(r))
    BY DEF Sync
  <2>4. LinkAt(r)'
    BY <1>1, <2>2, <2>3 DEF LinkAt
  <2>5. ASSUME ~crossed PROVE PairAt(r)'
    BY <1>1, <1>4, <2>1, <2>2, <2>3, <2>5 DEF PairAt
  <2> QED BY <1>1, <2>4, <2>5
<1>7. ASSUME ~crossed PROVE Uncrossed'
  <2>1. ASSUME NEW r \in Links
        PROVE  \A i \in DOMAIN q'[r] : \E j \in DOMAIN q[r] : q'[r][i] = q[r][j]
    <3>1. CASE r = l
      <4>1. q'[r] = Tail(q[l]) /\ q[r] = q[l]
        BY <1>3, <3>1
      <4> QED BY <4>1, Ready
    <3>2. CASE r # l
      <4>1. q'[r] = q[r]
        BY <1>3, <3>2
      <4> QED BY <4>1
    <3> QED BY <3>1, <3>2
  <2>2. Uncrossed
    BY <1>7 DEF Sync
  <2> QED BY <2>1, <2>2 DEF Uncrossed
<1> QED BY <1>1, <1>5, <1>6, <1>7 DEF Sync, OwnOK

-----------------------------------------------------------------------------
(* Messages between servers                                                   *)

LEMMA ViewParts == ASSUME NEW v \in Views PROVE v = [users |-> v.users, chan |-> v.chan]
  BY DEF Views

\* A message that only changes the channel is handled and passed on.
LEMMA HandlePasses ==
  ASSUME IInv, Sync, NEW l \in Links, q[l] # << >>, conn[Rev(l)] = "up",
         News(Head(q[l])), Head(q[l]).type \notin {"UID", "SQUIT"},
         NEW f, News(f), f.type = Head(q[l]).type,
         Senders(f) \subseteq Senders(Head(q[l])), NEW c, Handle(l, c, <<f>>),
         ~crossed /\ Allowed(Head(q[l]), View(l[2])) =>
            /\ Allowed(f, View(l[2])) /\ c = AfterChan(chan[l[2]], Head(q[l]))
            /\ c = AfterChan(chan[l[2]], f)
  PROVE  Sync'
<1> DEFINE s == l[2]
<1>1. s \in Servers
  BY RevLink
<1>2. known' = [known EXCEPT ![s] = known[s]]
  BY <1>1 DEF Handle, IInv, TypeOK
<1>3. /\ chan' = [chan EXCEPT ![s] = c] /\ q' = Flooded(Popped(l), l[2], l[1], <<f>>)
      /\ UNCHANGED <<conn, crossed>>
  BY DEF Handle
<1>4. ~crossed => Allowed(Head(q[l]), View(s))
  BY Ready
<1>5. /\ After(View(s), Head(q[l])) = [users |-> known[s], chan |-> AfterChan(chan[s], Head(q[l]))]
      /\ After(View(s), f) = [users |-> known[s], chan |-> AfterChan(chan[s], f)]
  BY DEF After, AfterUsers, View
<1>6. ~crossed => /\ Allowed(f, View(s))
                  /\ [users |-> known[s], chan |-> c] = After(View(s), Head(q[l]))
                  /\ [users |-> known[s], chan |-> c] = After(View(s), f)
  BY <1>4, <1>5
<1>7. known[s] \subseteq known[s] \cup Senders(f)
  OBVIOUS
<1> QED BY <1>2, <1>3, <1>6, <1>7, Passes

\* One that changes nothing is dropped.
LEMMA HandleDrops ==
  ASSUME IInv, Sync, NEW l \in Links, q[l] # << >>, conn[Rev(l)] = "up",
         News(Head(q[l])), Head(q[l]).type \notin {"UID", "SQUIT"}, Drop(l),
         Allowed(Head(q[l]), View(l[2])) =>
           AfterChan(chan[l[2]], Head(q[l])) = chan[l[2]]
  PROVE  Sync'
<1>1. ~crossed => After(View(l[2]), Head(q[l])) = View(l[2])
  BY Ready DEF After, AfterUsers, View
<1> QED BY <1>1, Drops DEF Drop

LEMMA SJoinForward ==
  ASSUME NEW c, ChanOK(c), NEW m \in SJoinMsg, NEW us, us # {}, us \subseteq m.users
  PROVE  LET f == Forward(m, c, SJoined(c, m, us), us) IN
         f \in Message /\ f.type = "SJOIN" /\ f.users \subseteq us
<1> DEFINE d == SJoined(c, m, us)
           f == Forward(m, c, d, us)
<1>1. ChanOK(d) /\ d.mem = c.mem \cup us
  BY SJoinedOK
<1>2. d \in Channel /\ d.ts \in 1..MaxTS
  BY <1>1 DEF ChanOK
<1>3. d.modes \subseteq Flags /\ d.key \in Keys /\ 0 \in Keys
  BY <1>2, ChannelFields, ChannelBounds DEF Keys
<1> HIDE DEF d
<1>4. /\ f.type = "SJOIN" /\ f.ts = d.ts /\ f.zero \in BOOLEAN /\ f.users \subseteq us
      /\ f.modes \subseteq Flags /\ f.key \in Keys /\ f.ops \subseteq m.ops
  BY <1>3 DEF Forward, SJoinMsg
<1>5. f = [type |-> "SJOIN", ts |-> f.ts, zero |-> f.zero, modes |-> f.modes,
           key |-> f.key, users |-> f.users, ops |-> f.ops]
  BY DEF Forward
<1>6. m.users \subseteq Users /\ m.ops \subseteq Users
  BY DEF SJoinMsg
<1> HIDE DEF f
<1>7. f \in SJoinMsg
  BY <1>2, <1>4, <1>5, <1>6 DEF SJoinMsg
<1>8. f \in Message
  BY <1>7 DEF SJoinMsg, Message
<1> QED BY <1>4, <1>8 DEF f, d

\* What ms_sjoin passes on of a description does to the channel what the
\* description did.
LEMMA SJoinSame ==
  ASSUME NEW c, ChanOK(c), NEW m \in SJoinMsg, m.users # {}, m.ops \subseteq m.users,
         m.users \cap c.mem = {},
         m.zero => NotOlder(m, c) /\ m.modes = {} /\ m.key = 0
  PROVE  LET d == SJoined(c, m, m.users)
             f == Forward(m, c, d, m.users)
         IN /\ SJoined(c, f, f.users) = d
            /\ f.users = m.users /\ f.ops \subseteq m.users
            /\ f.zero => NotOlder(f, c) /\ f.modes = {} /\ f.key = 0
<1> DEFINE d == SJoined(c, m, m.users)
           f == Forward(m, c, d, m.users)
           e == SJoined(c, f, f.users)
           low == c.mem # {} /\ m.ts < c.ts
           high == c.mem # {} /\ m.ts > c.ts
<1>1. /\ c \in Channel /\ c.ts \in 0..MaxTS /\ c.key \in Nat
      /\ c.mem = {} => c.ops = {} /\ c.modes = {} /\ c.key = 0 /\ c.bans = {}
  BY ChannelFields DEF ChanOK, NoChan
<1>2. m.ts \in 1..MaxTS /\ m.key \in Nat
  BY ChannelBounds DEF SJoinMsg, Keys
<1>3. /\ d.ts = IF c.mem = {} \/ low THEN m.ts ELSE c.ts
      /\ d.mem = c.mem \cup m.users
      /\ d.ops = (IF low THEN {} ELSE c.ops) \cup (IF high THEN {} ELSE m.ops)
      /\ d.modes = IF high THEN c.modes ELSE IF low THEN m.modes ELSE c.modes \cup m.modes
      /\ d.key = IF high THEN c.key ELSE IF low THEN m.key ELSE MaxOf(c.key, m.key)
      /\ d.bans = IF low THEN {} ELSE c.bans
  <2>1. m.ops \cap (m.users \ c.mem) = m.ops
    OBVIOUS
  <2> QED BY <2>1 DEF SJoined
<1>4. ~(m.zero /\ low)
  BY <1>1, <1>2 DEF NotOlder
<1>5. /\ f.ts = d.ts /\ f.users = m.users
      /\ f.zero = (m.zero \/ high)
      /\ f.modes = IF m.zero \/ high THEN {} ELSE d.modes
      /\ f.key = IF m.zero \/ high THEN 0 ELSE d.key
      /\ f.ops = IF high THEN {} ELSE m.ops
  <2>1. m.ops \cap m.users = m.ops
    OBVIOUS
  <2> QED BY <1>4, <2>1 DEF Forward
<1> HIDE DEF d, f
<1>6. m.zero => m.modes = {} /\ m.key = 0 /\ c.mem # {} /\ c.ts <= m.ts
  BY DEF NotOlder
<1>7. /\ e.ts = IF c.mem = {} THEN f.ts ELSE IF f.ts < c.ts THEN f.ts ELSE c.ts
      /\ e.mem = c.mem \cup f.users
      /\ e.ops = (IF c.mem # {} /\ f.ts < c.ts THEN {} ELSE c.ops) \cup
                 (IF c.mem # {} /\ f.ts > c.ts THEN {} ELSE f.ops)
      /\ e.modes = IF c.mem # {} /\ f.ts > c.ts THEN c.modes
                   ELSE IF c.mem # {} /\ f.ts < c.ts THEN f.modes ELSE c.modes \cup f.modes
      /\ e.key = IF c.mem # {} /\ f.ts > c.ts THEN c.key
                 ELSE IF c.mem # {} /\ f.ts < c.ts THEN f.key ELSE MaxOf(c.key, f.key)
      /\ e.bans = IF c.mem # {} /\ f.ts < c.ts THEN {} ELSE c.bans
  <2>1. f.ops \cap (f.users \ c.mem) = f.ops
    BY <1>5
  <2> QED BY <2>1 DEF SJoined
<1>8. e.ts = d.ts /\ e.mem = d.mem
  BY <1>1, <1>2, <1>3, <1>5, <1>7
<1>9. e.ops = d.ops /\ e.bans = d.bans
  BY <1>1, <1>2, <1>3, <1>5, <1>7
<1>10. e.modes = d.modes
  <2>1. CASE high
    <3>1. f.modes = {} /\ f.ts = c.ts /\ d.modes = c.modes
      BY <1>1, <1>2, <1>3, <1>5, <2>1
    <3> QED BY <1>1, <1>7, <2>1, <3>1
  <2>2. CASE ~high /\ m.zero
    <3>1. f.modes = {} /\ f.ts = c.ts /\ d.modes = c.modes
      BY <1>1, <1>2, <1>3, <1>5, <1>6, <2>2
    <3> QED BY <1>1, <1>7, <2>2, <3>1
  <2>3. CASE ~high /\ ~m.zero
    <3>1. f.modes = d.modes
      BY <1>5, <2>3
    <3>2. CASE c.mem = {} \/ low
      BY <1>1, <1>2, <1>3, <1>5, <1>7, <2>3, <3>1, <3>2
    <3>3. CASE ~(c.mem = {} \/ low)
      <4>1. f.ts = c.ts /\ d.modes = c.modes \cup m.modes
        BY <1>1, <1>2, <1>3, <1>5, <2>3, <3>3
      <4> QED BY <1>1, <1>7, <3>1, <4>1
    <3> QED BY <3>2, <3>3
  <2> QED BY <2>1, <2>2, <2>3
<1>11. e.key = d.key
  BY <1>1, <1>2, <1>3, <1>4, <1>5, <1>6, <1>7 DEF MaxOf
<1>12. d \in Channel /\ f \in SJoinMsg
  <2>1. ChanOK(SJoined(c, m, m.users))
    BY SJoinedOK
  <2>2. Forward(m, c, SJoined(c, m, m.users), m.users) \in Message
        /\ Forward(m, c, SJoined(c, m, m.users), m.users).type = "SJOIN"
    BY SJoinForward
  <2> QED BY <2>1, <2>2, MessageFields DEF d, f, ChanOK
<1>13. e \in Channel
  BY <1>5, <1>12, SJoinedOK DEF ChanOK
<1> HIDE DEF e
<1>14. e = d
  BY <1>8, <1>9, <1>10, <1>11, <1>12, <1>13, SameChannel
<1>15. f.zero => NotOlder(f, c) /\ f.modes = {} /\ f.key = 0
  <2>1. CASE m.zero
    BY <1>1, <1>2, <1>3, <1>5, <1>6, <2>1 DEF NotOlder
  <2>2. CASE ~m.zero /\ high
    BY <1>1, <1>2, <1>3, <1>5, <2>2 DEF NotOlder
  <2>3. CASE ~m.zero /\ ~high
    BY <1>5, <2>3
  <2> QED BY <2>1, <2>2, <2>3
<1> QED BY <1>5, <1>14, <1>15 DEF d, e, f

LEMMA SyncSJoin == ASSUME IInv, Sync, NEW l \in Links, RecvSJoin(l) PROVE Sync'
<1> DEFINE s == l[2]
           m == Head(q[l])
           c == chan[s]
           us == Joiners(l)
           d == SJoined(c, m, us)
           f == Forward(m, c, d, us)
<1>1. q[l] # << >> /\ m.type = "SJOIN" /\ conn[Rev(l)] = "up"
  BY DEF RecvSJoin, Received, Rev
<1>2. m \in Message /\ m \in SJoinMsg /\ News(m) /\ ChanOK(c) /\ s \in Servers
  BY <1>1, Met, MessageFields DEF News
<1>3. us \subseteq m.users /\ us \subseteq known[s]
  BY DEF Joiners
<1>4. Allowed(m, View(s)) => /\ m.users # {} /\ us = m.users /\ m.ops \subseteq m.users
                             /\ m.users \cap c.mem = {} /\ m.users \subseteq known[s]
                             /\ m.zero => NotOlder(m, c) /\ m.modes = {} /\ m.key = 0
  <2>1. \A u \in m.users : Via[s][Home[u]] = l[1]
    BY <1>1, Ready DEF Senders
  <2> QED BY <1>1, <2>1 DEF Allowed, View, Joiners
<1>5. CASE us = {} /\ c.mem # {}
  <2>1. Handle(l, d, << >>)
    BY <1>5 DEF RecvSJoin
  <2>2. crossed
    BY <1>1, <1>4, <1>5, Ready
  <2> HIDE DEF d
  <2> QED BY <1>1, <1>2, <2>1, <2>2, Drops
<1>6. CASE us = {} /\ c.mem = {}
  <2>1. Drop(l)
    BY <1>6 DEF RecvSJoin
  <2>2. crossed
    BY <1>1, <1>4, <1>6, Ready
  <2> QED BY <1>1, <1>2, <2>1, <2>2, Drops DEF Drop
<1>7. CASE us # {}
  <2>1. Handle(l, d, <<f>>)
    BY <1>7 DEF RecvSJoin
  <2>2. f \in Message /\ f.type = "SJOIN" /\ f.users \subseteq us
    BY <1>2, <1>3, <1>7, SJoinForward
  <2>3. News(f) /\ Senders(f) \subseteq Senders(m)
    BY <1>1, <1>3, <2>2 DEF News, Senders
  <2>4. ASSUME Allowed(m, View(s))
        PROVE  /\ Allowed(f, View(s)) /\ d = AfterChan(c, m) /\ d = AfterChan(c, f)
    <3>1. /\ SJoined(c, f, f.users) = d /\ f.users = m.users /\ f.ops \subseteq m.users
          /\ f.zero => NotOlder(f, c) /\ f.modes = {} /\ f.key = 0
      BY <1>2, <1>4, <2>4, SJoinSame
    <3> HIDE DEF f
    <3>2. Allowed(f, View(s))
      BY <1>4, <2>2, <2>4, <3>1 DEF Allowed, View
    <3>3. AfterChan(c, m) = d /\ AfterChan(c, f) = SJoined(c, f, f.users)
      BY <1>1, <1>4, <2>2, <2>4 DEF AfterChan
    <3> QED BY <3>1, <3>2, <3>3
  <2> HIDE DEF d, f
  <2> QED BY <1>1, <1>2, <2>1, <2>2, <2>3, <2>4, HandlePasses
<1> QED BY <1>5, <1>6, <1>7

LEMMA SyncJoin == ASSUME IInv, Sync, NEW l \in Links, RecvJoin(l) PROVE Sync'
<1> DEFINE s == l[2]
           m == Head(q[l])
           c == chan[s]
           d == Joined(c, m.user, m.ts)
           f == [m EXCEPT !.ts = d.ts]
<1>1. q[l] # << >> /\ m.type = "JOIN" /\ conn[Rev(l)] = "up"
  BY DEF RecvJoin, Received, Rev
<1>2. m \in Message /\ News(m) /\ ChanOK(c) /\ s \in Servers
  BY <1>1, Met DEF News
<1>3. m \in [type : {"JOIN"}, user : Users, ts : 1..MaxTS]
  BY <1>1, <1>2 DEF Message
<1>4. Allowed(m, View(s)) => m.user \in known[s] /\ m.user \notin c.mem /\ NotOlder(m, c)
  BY <1>1 DEF Allowed, View
<1>5. CASE m.user \notin known[s]
  <2>1. Drop(l)
    BY <1>5 DEF RecvJoin
  <2> QED BY <1>1, <1>2, <1>4, <1>5, <2>1, HandleDrops
<1>6. CASE m.user \in known[s]
  <2>1. Handle(l, d, <<f>>)
    BY <1>6 DEF RecvJoin
  <2>2. ChanOK(d) /\ d.mem = c.mem \cup {m.user}
    BY <1>2, <1>3, JoinedOK
  <2>3. d.ts \in 1..MaxTS
    BY <2>2 DEF ChanOK
  <2>4. f \in Message /\ f.type = "JOIN" /\ f.user = m.user /\ f.ts = d.ts
    <3> HIDE DEF d
    <3>1. f \in [type : {"JOIN"}, user : Users, ts : 1..MaxTS]
      BY <1>3, <2>3
    <3>2. f.type = "JOIN" /\ f.user = m.user /\ f.ts = d.ts
      BY <1>3
    <3> QED BY <3>1, <3>2 DEF Message
  <2>5. News(f) /\ Senders(f) \subseteq Senders(m)
    BY <1>1, <2>4 DEF News, Senders
  <2>6. ASSUME Allowed(m, View(s))
        PROVE  /\ Allowed(f, View(s)) /\ d = AfterChan(c, m) /\ d = AfterChan(c, f)
    <3>1. d = [c EXCEPT !.mem = @ \cup {m.user}] /\ NotOlder(m, c)
      BY <1>1, <1>2, <1>4, <2>6, JoinMerges
    <3>2. d.ts = c.ts /\ c.mem # {} /\ c.ts \in 1..MaxTS
      BY <1>2, <3>1 DEF ChanOK, Channel, NotOlder
    <3> HIDE DEF d, f
    <3>3. NotOlder(f, c)
      BY <2>4, <3>2 DEF NotOlder
    <3>4. Joined(c, f.user, f.ts) = [c EXCEPT !.mem = @ \cup {f.user}]
      BY <1>2, <2>4, <3>3, JoinMerges, ZenonT(40)
    <3>5. AfterChan(c, f) = Joined(c, f.user, f.ts) /\ AfterChan(c, m) = Joined(c, m.user, m.ts)
      BY <1>1, <2>4 DEF AfterChan
    <3>6. Allowed(f, View(s))
      BY <1>4, <2>4, <2>6, <3>3 DEF Allowed, View
    <3> QED BY <2>4, <3>1, <3>4, <3>5, <3>6 DEF d
  <2> HIDE DEF d, f
  <2> QED BY <1>1, <1>2, <2>1, <2>4, <2>5, <2>6, HandlePasses
<1> QED BY <1>5, <1>6

LEMMA SyncPart == ASSUME IInv, Sync, NEW l \in Links, RecvPart(l) PROVE Sync'
<1> DEFINE s == l[2]
           m == Head(q[l])
<1>1. q[l] # << >> /\ m.type = "PART" /\ conn[Rev(l)] = "up"
  BY DEF RecvPart, Received, Rev
<1>2. m \in Message /\ News(m)
  BY <1>1, Met DEF News
<1>3. CASE m.user \in chan[s].mem
  <2>1. Handle(l, Left(chan[s], {m.user}), <<m>>)
    BY <1>3 DEF RecvPart
  <2>2. Left(chan[s], {m.user}) = AfterChan(chan[s], m)
    BY <1>1, <1>3 DEF AfterChan
  <2> QED BY <1>1, <1>2, <2>1, <2>2, HandlePasses
<1>4. CASE m.user \notin chan[s].mem
  <2>1. Drop(l)
    BY <1>4 DEF RecvPart
  <2>2. AfterChan(chan[s], m) = chan[s]
    BY <1>1, <1>4 DEF AfterChan
  <2> QED BY <1>1, <1>2, <2>1, <2>2, HandleDrops
<1> QED BY <1>3, <1>4

LEMMA SyncKick == ASSUME IInv, Sync, NEW l \in Links, RecvKick(l) PROVE Sync'
<1> DEFINE s == l[2]
           m == Head(q[l])
<1>1. q[l] # << >> /\ m.type = "KICK" /\ conn[Rev(l)] = "up"
  BY DEF RecvKick, Received, Rev
<1>2. m \in Message /\ News(m)
  BY <1>1, Met DEF News
<1>3. CASE m.user \in known[s] /\ m.who \in chan[s].mem
  <2>1. Handle(l, Left(chan[s], {m.who}), <<m>>)
    BY <1>3 DEF RecvKick
  <2>2. Left(chan[s], {m.who}) = AfterChan(chan[s], m)
    BY <1>1, <1>3 DEF AfterChan
  <2> QED BY <1>1, <1>2, <2>1, <2>2, HandlePasses
<1>4. CASE ~(m.user \in known[s] /\ m.who \in chan[s].mem)
  <2>1. Drop(l)
    BY <1>4 DEF RecvKick
  <2>2. Allowed(m, View(s)) => AfterChan(chan[s], m) = chan[s]
    BY <1>1, <1>4 DEF AfterChan, Allowed, View
  <2> QED BY <1>1, <1>2, <2>1, <2>2, HandleDrops
<1> QED BY <1>3, <1>4

LEMMA SyncTMode == ASSUME IInv, Sync, NEW l \in Links, RecvTMode(l) PROVE Sync'
<1> DEFINE s == l[2]
           m == Head(q[l])
           c == chan[s]
           f == [m EXCEPT !.ts = c.ts]
           go == m.user \in known[s] /\ Exists(s) /\ m.ts <= c.ts /\ ~Idle(c, m.change)
<1>1. q[l] # << >> /\ m.type = "TMODE" /\ conn[Rev(l)] = "up"
  BY DEF RecvTMode, Received, Rev
<1>2. m \in Message /\ News(m) /\ ChanOK(c) /\ s \in Servers
  BY <1>1, Met DEF News
<1>3. m \in [type : {"TMODE"}, user : Users, ts : 1..MaxTS, change : Changes]
  BY <1>1, <1>2 DEF Message
<1>4. CASE go
  <2>1. Handle(l, Moded(c, m.change), <<f>>)
    BY <1>4 DEF RecvTMode
  <2>2. c.mem # {} /\ c.ts \in 1..MaxTS
    BY <1>2, <1>4 DEF Exists, ChanOK
  <2>3. /\ f \in Message /\ f.type = "TMODE" /\ f.user = m.user /\ f.ts = c.ts
        /\ f.change = m.change
    <3> HIDE DEF c
    <3>1. f \in [type : {"TMODE"}, user : Users, ts : 1..MaxTS, change : Changes]
      BY <1>3, <2>2
    <3>2. f.type = "TMODE" /\ f.user = m.user /\ f.ts = c.ts /\ f.change = m.change
      BY <1>3
    <3> QED BY <3>1, <3>2 DEF Message
  <2> HIDE DEF f
  <2>4. News(f) /\ Senders(f) \subseteq Senders(m)
    BY <1>1, <2>3 DEF News, Senders
  <2>5. /\ AfterChan(c, m) = Moded(c, m.change) /\ AfterChan(c, f) = Moded(c, f.change)
    BY <1>1, <1>4, <2>2, <2>3 DEF AfterChan
  <2>6. Allowed(f, View(s))
    BY <1>4, <2>3 DEF Allowed, View
  <2> QED BY <1>1, <1>2, <2>1, <2>3, <2>4, <2>5, <2>6, HandlePasses
<1>5. CASE ~go
  <2>1. Drop(l)
    BY <1>5 DEF RecvTMode
  <2>2. Allowed(m, View(s)) => AfterChan(c, m) = c
    BY <1>1, <1>5 DEF AfterChan, Allowed, View, Exists
  <2> QED BY <1>1, <1>2, <2>1, <2>2, HandleDrops
<1> QED BY <1>4, <1>5

LEMMA SyncBMask == ASSUME IInv, Sync, NEW l \in Links, RecvBMask(l) PROVE Sync'
<1> DEFINE s == l[2]
           m == Head(q[l])
           c == chan[s]
           d == [c EXCEPT !.bans = @ \cup m.masks]
           f == [m EXCEPT !.ts = c.ts]
<1>1. q[l] # << >> /\ m.type = "BMASK" /\ conn[Rev(l)] = "up"
  BY DEF RecvBMask, Received, Rev
<1>2. m \in Message /\ News(m) /\ ChanOK(c) /\ s \in Servers
  BY <1>1, Met DEF News
<1>3. m \in [type : {"BMASK"}, ts : 1..MaxTS, masks : SUBSET Masks]
  BY <1>1, <1>2 DEF Message
<1>4. CASE Exists(s) /\ m.ts <= c.ts
  <2>1. Handle(l, d, <<f>>)
    BY <1>4 DEF RecvBMask
  <2>2. c.mem # {} /\ c.ts \in 1..MaxTS
    BY <1>2, <1>4 DEF Exists, ChanOK
  <2>3. /\ f \in Message /\ f.type = "BMASK" /\ f.ts = c.ts /\ f.masks = m.masks
    <3> HIDE DEF c
    <3>1. f \in [type : {"BMASK"}, ts : 1..MaxTS, masks : SUBSET Masks]
      BY <1>3, <2>2
    <3>2. f.type = "BMASK" /\ f.ts = c.ts /\ f.masks = m.masks
      BY <1>3
    <3> QED BY <3>1, <3>2 DEF Message
  <2> HIDE DEF f
  <2>4. News(f) /\ Senders(f) \subseteq Senders(m)
    BY <1>1, <2>3 DEF News, Senders
  <2>5. AfterChan(c, m) = d /\ AfterChan(c, f) = d
    BY <1>1, <1>4, <2>2, <2>3 DEF AfterChan
  <2>6. Allowed(f, View(s))
    BY <2>2, <2>3 DEF Allowed, View, NotOlder
  <2> HIDE DEF d
  <2> QED BY <1>1, <1>2, <2>1, <2>3, <2>4, <2>5, <2>6, HandlePasses
<1>5. CASE ~(Exists(s) /\ m.ts <= c.ts)
  <2>1. Drop(l)
    BY <1>5 DEF RecvBMask
  <2>2. AfterChan(c, m) = c
    BY <1>1, <1>5 DEF AfterChan, Exists
  <2> QED BY <1>1, <1>2, <2>1, <2>2, HandleDrops
<1> QED BY <1>4, <1>5

LEMMA SyncUid == ASSUME IInv, Sync, NEW l \in Links, RecvUid(l) PROVE Sync'
<1> DEFINE s == l[2]
           m == Head(q[l])
           k == known[s] \cup m.users
<1>1. q[l] # << >> /\ m.type = "UID" /\ conn[Rev(l)] = "up" /\ s \in Servers
  BY RevLink DEF RecvUid, Received, Rev
<1>2. m \in Message /\ News(m) /\ Senders(m) = m.users
  BY <1>1, Met DEF News, Senders
<1>3. /\ known' = [known EXCEPT ![s] = k] /\ q' = Flooded(Popped(l), l[2], l[1], <<m>>)
      /\ UNCHANGED <<conn, crossed>>
  BY DEF RecvUid
<1>4. chan' = [chan EXCEPT ![s] = chan[s]]
  BY DEF RecvUid, IInv, TypeOK
<1>5. [users |-> k, chan |-> chan[s]] = After(View(s), m)
  BY <1>1 DEF After, AfterUsers, AfterChan, View
<1>6. Allowed(m, View(s))
  BY <1>1 DEF Allowed
<1>7. k \subseteq known[s] \cup Senders(m)
  BY <1>2
<1> HIDE DEF k
<1> QED BY <1>1, <1>2, <1>3, <1>4, <1>5, <1>6, <1>7, Passes

LEMMA SyncSquit == ASSUME IInv, Sync, NEW l \in Links, RecvSquit(l) PROVE Sync'
<1> DEFINE s == l[2]
           m == Head(q[l])
           k == known[s] \ m.users
           c == Left(chan[s], m.users)
<1>1. q[l] # << >> /\ m.type = "SQUIT" /\ conn[Rev(l)] = "up" /\ s \in Servers
  BY RevLink DEF RecvSquit, Received, Rev
<1>2. m \in Message /\ News(m) /\ m \in [type : {"UID", "SQUIT"}, users : SUBSET Users]
  BY <1>1, Met DEF News, Message
<1>3. [type |-> "SQUIT", users |-> m.users] = m
  BY <1>1, <1>2
<1>4. /\ known' = [known EXCEPT ![s] = k] /\ chan' = [chan EXCEPT ![s] = c]
      /\ q' = Flooded(Popped(l), l[2], l[1], <<m>>) /\ UNCHANGED <<conn, crossed>>
  BY <1>3 DEF RecvSquit, Lose
<1>5. [users |-> k, chan |-> c] = After(View(s), m)
  BY <1>1 DEF After, AfterUsers, AfterChan, View
<1>6. Allowed(m, View(s))
  BY <1>1 DEF Allowed
<1>7. k \subseteq known[s] \cup Senders(m)
  OBVIOUS
<1> HIDE DEF k, c
<1> QED BY <1>1, <1>2, <1>4, <1>5, <1>6, <1>7, Passes

-----------------------------------------------------------------------------
(* Clients                                                                    *)

LEMMA Tells ==
  ASSUME IInv, Sync, NEW u \in Users, NEW f, News(f), Senders(f) = {u},
         Command(u, f.type), NEW c, Tell(Home[u], c, f), Allowed(f, View(Home[u])),
         c = AfterChan(chan[Home[u]], f), f.type \notin {"UID", "SQUIT"}
  PROVE  Sync'
<1> DEFINE s == Home[u]
<1>0. s \in Servers /\ \A r \in Links : ~Own(r, s, s)
  BY Tree, RevLink DEF Own
<1>1. /\ UNCHANGED <<known, conn>> /\ crossed' = (crossed \/ Meets(f.type, s))
      /\ chan' = [chan EXCEPT ![s] = c] /\ q' = Flooded(q, s, s, <<f>>)
  BY DEF Command, Tell
<1>2. \A t \in Servers : chan'[t] = IF t = s THEN c ELSE chan[t]
  BY <1>1 DEF IInv, TypeOK
<1>3. View(s)' = After(View(s), f)
  BY <1>0, <1>1, <1>2 DEF View, After, AfterUsers
<1>4. \A r \in Links : q'[r] = IF r[1] = s THEN Given(conn[r], conn[Rev(r)], q[r], f) ELSE q[r]
  <2>1. \A r \in Links : r[1] = s => r[2] # s
    BY RevLink
  <2> QED BY <1>1, <2>1 DEF Flooded, Given, Rev
<1>5. ASSUME NEW r \in Links, r[1] = s, NEW v \in Senders(f) PROVE Via[s][Home[v]] # r[2]
  <2>1. v = u /\ Via[s][s] = s /\ r[2] # s
    BY <1>0, <1>5, RevLink, Tree
  <2> QED BY <2>1
<1>6. ASSUME ~crossed'
      PROVE  /\ ~crossed
             /\ \A r \in Links : r[1] = s => \A k \in Links : Facing(k, r) =>
                  \A i \in DOMAIN q[k] : Commute(f, q[k][i])
  <2>1. ~crossed /\ ~Meets(f.type, s)
    BY <1>1, <1>6
  <2> QED BY <2>1 DEF Meets, Facing, Commute
<1>7. Acts(s, s, f)
  <2>1. \A t \in Servers \ {s} : known'[t] = known[t] /\ chan'[t] = chan[t]
    BY <1>1, <1>2
  <2>2. known'[s] \subseteq known[s] \cup Senders(f)
    BY <1>1
  <2>3. \A r \in Links : conn'[r] = conn[r]
    BY <1>1
  <2> QED BY <1>3, <1>4, <1>5, <1>6, <2>1, <2>2, <2>3 DEF Acts
<1> HIDE DEF s
<1> QED BY <1>0, <1>7, ActsSync

LEMMA SyncCreate ==
  ASSUME IInv, Sync, NEW u \in Users, NEW t \in 1..MaxTS, Create(u, t) PROVE Sync'
<1> DEFINE s == Home[u]
           d == [ts |-> t, mem |-> {u}, ops |-> {u}, modes |-> Flags, key |-> 0,
                 bans |-> {}]
           f == [type |-> "SJOIN", ts |-> t, zero |-> FALSE, modes |-> Flags, key |-> 0,
                 users |-> {u}, ops |-> {u}]
<1>1. Command(u, "SJOIN") /\ Tell(s, d, f) /\ chan[s].mem = {}
  BY DEF Create, Exists
<1>2. ChanOK(chan[s]) /\ u \in known[s]
  BY HomeChan
<1>3. chan[s] = NoChan
  BY <1>1, <1>2 DEF ChanOK
<1>4. f \in Message
  <2>1. f \in SJoinMsg
    BY ChannelBounds DEF SJoinMsg, Keys
  <2> QED BY <2>1 DEF SJoinMsg, Message
<1>5. f.type = "SJOIN" /\ Senders(f) = {u} /\ News(f)
  BY <1>4 DEF Senders, News
<1>6. Allowed(f, View(s))
  BY <1>1, <1>2 DEF Allowed, View
<1>7. AfterChan(chan[s], f) = SJoined(NoChan, f, {u})
  BY <1>3 DEF AfterChan
<1>8. SJoined(NoChan, f, {u}) = d
  <2>1. f.ops \cap ({u} \ NoChan.mem) = {u}
    BY DEF NoChan
  <2> QED BY <2>1, ChannelBounds DEF SJoined, NoChan, MaxOf
<1> HIDE DEF d, f
<1> QED BY <1>1, <1>5, <1>6, <1>7, <1>8, Tells

LEMMA SyncJoinCommand == ASSUME IInv, Sync, NEW u \in Users, Join(u) PROVE Sync'
<1> DEFINE s == Home[u]
           c == chan[s]
           d == [c EXCEPT !.mem = @ \cup {u}]
           f == [type |-> "JOIN", user |-> u, ts |-> c.ts]
<1>1. Command(u, "JOIN") /\ Tell(s, d, f) /\ c.mem # {} /\ u \notin c.mem
  BY DEF Join, Exists
<1>2. ChanOK(c) /\ u \in known[s] /\ c.ts \in 1..MaxTS
  BY <1>1, HomeChan DEF ChanOK
<1>3. f \in Message
  BY <1>2 DEF Message
<1>4. f.type = "JOIN" /\ Senders(f) = {u} /\ News(f) /\ NotOlder(f, c) /\ f.user = u
  BY <1>1, <1>2, <1>3 DEF Senders, News, NotOlder
<1>5. Allowed(f, View(s))
  BY <1>1, <1>2, <1>4 DEF Allowed, View
<1>6. AfterChan(c, f) = Joined(c, f.user, f.ts)
  BY <1>4 DEF AfterChan
<1>7. d = AfterChan(c, f)
  <2> HIDE DEF c, f
  <2>1. Joined(c, f.user, f.ts) = Merge(c, Desc(f))
    BY <1>2, <1>3, <1>4, JoinMerges
  <2>2. Merge(c, Desc(f)) = [c EXCEPT !.mem = @ \cup {f.user}]
    BY <1>2, <1>3, <1>4, JoinMerges
  <2> QED BY <1>4, <1>6, <2>1, <2>2
<1> HIDE DEF d, f
<1> QED BY <1>1, <1>4, <1>5, <1>7, Tells

LEMMA SyncPartCommand == ASSUME IInv, Sync, NEW u \in Users, Part(u) PROVE Sync'
<1> DEFINE s == Home[u]
           c == chan[s]
           d == Left(c, {u})
           f == [type |-> "PART", user |-> u]
<1>1. Command(u, "PART") /\ Tell(s, d, f) /\ u \in c.mem
  BY DEF Part
<1>2. f \in Message
  BY DEF Message
<1>3. f.type = "PART" /\ Senders(f) = {u} /\ News(f) /\ Allowed(f, View(s))
  BY <1>2 DEF Senders, News, Allowed
<1>4. d = AfterChan(c, f)
  BY <1>1 DEF AfterChan
<1> HIDE DEF d, f
<1> QED BY <1>1, <1>3, <1>4, Tells

LEMMA SyncKickCommand ==
  ASSUME IInv, Sync, NEW u \in Users, NEW v \in Users, Kick(u, v) PROVE Sync'
<1> DEFINE s == Home[u]
           c == chan[s]
           d == Left(c, {v})
           f == [type |-> "KICK", user |-> u, who |-> v]
<1>1. Command(u, "KICK") /\ Tell(s, d, f) /\ v \in c.mem
  BY DEF Kick
<1>2. f \in Message /\ u \in known[s]
  BY HomeChan DEF Message
<1>3. f.type = "KICK" /\ Senders(f) = {u} /\ News(f) /\ Allowed(f, View(s))
  BY <1>2 DEF Senders, News, Allowed, View
<1>4. d = AfterChan(c, f)
  BY <1>1 DEF AfterChan
<1> HIDE DEF d, f
<1> QED BY <1>1, <1>3, <1>4, Tells

LEMMA SyncModeCommand ==
  ASSUME IInv, Sync, NEW u \in Users, NEW ch \in Changes, Mode(u, ch) PROVE Sync'
<1> DEFINE s == Home[u]
           c == chan[s]
           d == Moded(c, ch)
           f == [type |-> "TMODE", user |-> u, ts |-> c.ts, change |-> ch]
<1>1. Command(u, "TMODE") /\ Tell(s, d, f) /\ u \in c.ops /\ ~Idle(c, ch)
  BY DEF Mode
<1>2. ChanOK(c) /\ u \in known[s]
  BY HomeChan
<1>3. c.mem # {} /\ c.ts \in 1..MaxTS
  BY <1>1, <1>2 DEF ChanOK
<1>4. f \in Message
  BY <1>3 DEF Message
<1>5. f.type = "TMODE" /\ Senders(f) = {u} /\ News(f) /\ Allowed(f, View(s))
  BY <1>2, <1>4 DEF Senders, News, Allowed, View
<1>6. d = AfterChan(c, f)
  <2>1. f.type = "TMODE" /\ f.ts <= c.ts /\ f.change = ch
    BY <1>3
  <2> HIDE DEF f, c
  <2> QED BY <1>1, <1>3, <2>1 DEF AfterChan
<1> HIDE DEF d, f
<1> QED BY <1>1, <1>5, <1>6, Tells

-----------------------------------------------------------------------------
(* Links                                                                      *)

\* Server s loses the users behind one, whose link has just ended (conn').
LEMMA Loses ==
  ASSUME IInv, Sync, NEW s \in Servers, NEW one \in Servers, NEW queues,
         Lose(s, Behind(s, one), queues, one),
         \A r \in Links : ~Own(r, s, one) => queues[r] = q[r] /\ conn'[r] = conn[r],
         crossed' = (crossed \/ \E k \in Links :
                      Toward(k, s) /\ Via[s][k[1]] # one /\ q[k] # << >>),
         \A r \in Links : Own(r, s, one) => OwnOK(r)
  PROVE  Sync'
<1> DEFINE us == Behind(s, one)
           f == [type |-> "SQUIT", users |-> us]
<1>1. us \in SUBSET Users /\ \A u \in us : Via[s][Home[u]] = one
  BY BehindOK
<1> HIDE DEF us
<1>2. f \in Message /\ News(f) /\ Senders(f) = us /\ Allowed(f, View(s))
  BY <1>1 DEF Message, News, Senders, Allowed
<1>3. /\ known' = [known EXCEPT ![s] = @ \ us] /\ chan' = [chan EXCEPT ![s] = Left(@, us)]
      /\ q' = Flooded(queues, s, one, <<f>>)
  BY DEF Lose, us
<1>4. /\ \A t \in Servers \ {s} : known'[t] = known[t] /\ chan'[t] = chan[t]
      /\ known'[s] = known[s] \ us /\ chan'[s] = Left(chan[s], us)
  BY <1>3 DEF IInv, TypeOK
<1>5. View(s)' = After(View(s), f)
  BY <1>4 DEF View, After, AfterUsers, AfterChan
<1>6. ASSUME NEW r \in Links, ~Own(r, s, one)
      PROVE  /\ conn'[r] = conn[r]
             /\ q'[r] = IF r[1] = s THEN Given(conn[r], conn[Rev(r)], q[r], f) ELSE q[r]
  <2>1. queues[r] = q[r] /\ conn'[r] = conn[r] /\ (r[1] = s => r[2] # one)
    BY <1>6 DEF Own
  <2> HIDE DEF f
  <2> QED BY <1>3, <2>1 DEF Flooded, Given, Rev
<1>7. ASSUME ~crossed'
      PROVE  /\ ~crossed
             /\ \A r \in Links : r[1] = s /\ r[2] # one =>
                  \A k \in Links : Facing(k, r) => \A i \in DOMAIN q[k] : Commute(f, q[k][i])
  <2>1. ~crossed /\ \A k \in Links : Toward(k, s) /\ Via[s][k[1]] # one => q[k] = << >>
    BY <1>7
  <2>2. ASSUME NEW r \in Links, r[1] = s, r[2] # one, NEW k \in Links, Facing(k, r)
        PROVE  q[k] = << >>
    BY <2>1, <2>2 DEF Facing, Toward
  <2>3. DOMAIN << >> = {}
    OBVIOUS
  <2> QED BY <2>1, <2>2, <2>3
<1> HIDE DEF f
<1>8. Acts(s, one, f)
  BY <1>1, <1>2, <1>4, <1>5, <1>6, <1>7 DEF Acts
<1> QED BY <1>8, ActsSync

LEMMA OwnLink ==
  ASSUME NEW l \in Links, NEW r \in Links, Own(r, l[1], l[2])
  PROVE  r = l \/ r = Rev(l)
<1>1. (r[1] = l[1] /\ r[2] = l[2]) \/ (r[1] = l[2] /\ r[2] = l[1])
  BY DEF Own
<1>2. r = <<r[1], r[2]>> /\ l = <<l[1], l[2]>> /\ Rev(l) = <<l[2], l[1]>>
  BY RevLink DEF Rev
<1> QED BY <1>1, <1>2

LEMMA SyncBreak == ASSUME IInv, Sync, NEW l \in Links, Break(l) PROVE Sync'
<1> DEFINE k == Rev(l)
           s == l[1]
           one == l[2]
           cl == [type |-> "CLOSE"]
           queues == [q EXCEPT ![k] = << >>, ![l] = Append(@, cl)]
<1>0. /\ k \in Links /\ k[1] = one /\ k[2] = s /\ Rev(k) = l /\ k # l
      /\ s \in Servers /\ one \in Servers /\ s # one
      /\ q[l] \in Seq(Message) /\ q[k] \in Seq(Message)
  BY RevLink, QueueOf
<1>1. /\ conn[l] = "up" /\ conn[k] # "down" /\ conn' = [conn EXCEPT ![l] = "down"]
      /\ crossed' = (crossed \/ \E n \in Links :
                      Toward(n, s) /\ Via[s][n[1]] # one /\ q[n] # << >>)
      /\ Lose(s, Behind(s, one), queues, one)
  BY DEF Break, Rev
<1>2. cl \in Message /\ cl.type = "CLOSE" /\ Senders(cl) = {} /\ <<cl>> \in Seq(Message)
  BY DEF Message, Senders
<1>3. \A r \in Links : conn'[r] = IF r = l THEN "down" ELSE conn[r]
  BY <1>1 DEF IInv, TypeOK
<1> HIDE DEF cl
<1>4. \A r \in Links : queues[r] = IF r = l THEN q[l] \o <<cl>>
                                   ELSE IF r = k THEN << >> ELSE q[r]
  <2>1. Append(q[l], cl) = q[l] \o <<cl>>
    BY <1>0, <1>2
  <2> QED BY <1>0, <2>1 DEF IInv, TypeOK
<1> HIDE DEF queues
<1>5. \A r \in Links : ~Own(r, s, one) => queues[r] = q[r] /\ conn'[r] = conn[r]
  BY <1>0, <1>3, <1>4 DEF Own
<1>6. q'[l] = q[l] \o <<cl>> /\ q'[k] = << >>
  <2>1. q' = Flooded(queues, s, one, <<[type |-> "SQUIT", users |-> Behind(s, one)]>>)
    BY <1>1 DEF Lose
  <2>2. q'[l] = queues[l] /\ q'[k] = queues[k]
    BY <1>0, <2>1 DEF Flooded
  <2> QED BY <1>0, <1>4, <2>2
<1>7. /\ known'[s] = known[s] \ Behind(s, one) /\ known'[one] = known[one]
      /\ chan'[one] = chan[one]
  BY <1>0, <1>1 DEF Lose, IInv, TypeOK
<1>8. LinkAt(l) /\ LinkAt(k)
  BY <1>0 DEF Sync
<1>9. LinkAt(l)'
  <2>1. DirectedIn(l, q[l] \o <<cl>>)
    BY <1>0, <1>2, <1>8, DirectedGiven DEF LinkAt
  <2>2. Closes(q[l] \o <<cl>>)
    <3>1. /\ Len(q[l]) + 1 \in DOMAIN (q[l] \o <<cl>>)
          /\ (q[l] \o <<cl>>)[Len(q[l]) + 1] = cl
      BY <1>0, <1>2, Given1
    <3> QED BY <1>2, <3>1 DEF Closes
  <2>3. WiresIn("down", conn[k], q[l] \o <<cl>>)
    BY <2>2 DEF WiresIn
  <2>4. ApartIn(l, "down", conn[k], known[s] \ Behind(s, one))
    BY DEF ApartIn, Behind
  <2> QED BY <1>0, <1>3, <1>6, <1>7, <2>1, <2>3, <2>4 DEF LinkAt
<1>10. LinkAt(k)'
  <2>1. DirectedIn(k, << >>) /\ ~Closes(<< >>)
    BY DEF DirectedIn, Closes
  <2>2. WiresIn(conn[k], "down", << >>)
    BY <1>1, <2>1 DEF WiresIn
  <2>3. ApartIn(k, conn[k], "down", known[one])
    BY <1>0, <1>1, <1>8 DEF LinkAt, ApartIn
  <2> QED BY <1>0, <1>3, <1>6, <1>7, <2>1, <2>2, <2>3 DEF LinkAt
<1>11. ASSUME ~crossed' PROVE PairAt(l)' /\ PairAt(k)'
  <2>1. ~crossed /\ PairAt(l) /\ View(one) \in Views /\ View(one)' = View(one)
    BY <1>0, <1>1, <1>7, <1>11, ViewOK DEF Sync, View
  <2>2. ASSUME conn[k] = "up" PROVE \E z \in Views : Leads(q[l] \o <<cl>>, View(one), z)
    <3>1. PICK z \in Views : Leads(q[l], View(one), z)
      BY <1>1, <2>1, <2>2 DEF PairAt, PairOK
    <3>2. Quit(<<cl>>)
      BY <1>2 DEF Quit
    <3>3. Leads(<<cl>>, z, z)
      BY <1>2, <3>2, LeadsQuit
    <3>4. Leads(q[l] \o <<cl>>, View(one), z)
      BY <1>0, <1>2, <3>1, <3>3, LeadsCat
    <3> QED BY <3>4
  <2>3. PairOK("down", conn[k], q[l] \o <<cl>>, << >>, View(s)', View(one)')
    BY <1>1, <2>1, <2>2 DEF PairOK
  <2>4. PairOK(conn[k], "down", << >>, q[l] \o <<cl>>, View(one)', View(s)')
    BY <2>3, PairSym
  <2>5. PairAt(l)'
    BY <1>0, <1>3, <1>6, <2>3 DEF PairAt
  <2>6. PairAt(k)'
    BY <1>0, <1>3, <1>6, <2>4 DEF PairAt
  <2> QED BY <2>5, <2>6
<1>12. ASSUME NEW r \in Links, Own(r, s, one) PROVE OwnOK(r)
  <2>1. r = l \/ r = k
    BY <1>12, OwnLink
  <2>2. \A i \in DOMAIN q'[l] : q'[l][i].type = "CLOSE" \/ \E j \in DOMAIN q[l] : q'[l][i] = q[l][j]
    BY <1>0, <1>2, <1>6, Given1
  <2>3. DOMAIN << >> = {}
    OBVIOUS
  <2>4. \A i \in DOMAIN q'[k] : q'[k][i].type = "CLOSE" \/ \E j \in DOMAIN q[k] : q'[k][i] = q[k][j]
    BY <1>6, <2>3
  <2>5. OwnOK(l)
    BY <1>9, <1>11, <2>2 DEF OwnOK
  <2>6. OwnOK(k)
    BY <1>10, <1>11, <2>4 DEF OwnOK
  <2> QED BY <2>1, <2>5, <2>6
<1> HIDE DEF s, one
<1> QED BY <1>0, <1>1, <1>5, <1>12, Loses

LEMMA SyncClose == ASSUME IInv, Sync, NEW l \in Links, RecvClose(l) PROVE Sync'
<1> DEFINE k == Rev(l)
           s == l[2]
           one == l[1]
<1>0. /\ k \in Links /\ k[1] = s /\ k[2] = one /\ Rev(k) = l /\ k # l
      /\ s \in Servers /\ one \in Servers /\ s # one
      /\ q[l] \in Seq(Message) /\ q[l] # << >> /\ Head(q[l]).type = "CLOSE"
  BY RevLink, QueueOf DEF RecvClose, Received
<1>1. /\ conn' = [conn EXCEPT ![k] = "down"]
      /\ crossed' = (crossed \/ \E n \in Links :
                      Toward(n, s) /\ Via[s][n[1]] # one /\ q[n] # << >>)
      /\ Lose(s, Behind(s, one), Popped(l), one) /\ conn[k] = "up"
  BY DEF RecvClose, Received, Rev
<1>2. LinkAt(l) /\ LinkAt(k)
  BY <1>0 DEF Sync
<1>3. conn[l] = "down"
  <2>1. Closes(q[l])
    <3>1. 1 \in DOMAIN q[l] /\ q[l][1] = Head(q[l])
      BY <1>0
    <3> QED BY <1>0, <3>1 DEF Closes
  <2> QED BY <1>2, <2>1 DEF LinkAt, WiresIn
<1>4. \A r \in Links : conn'[r] = IF r = k THEN "down" ELSE conn[r]
  BY <1>1 DEF IInv, TypeOK
<1>5. \A r \in Links : Popped(l)[r] = IF r = l THEN Tail(q[l]) ELSE q[r]
  BY DEF Popped, IInv, TypeOK
<1>6. \A r \in Links : ~Own(r, s, one) => Popped(l)[r] = q[r] /\ conn'[r] = conn[r]
  BY <1>0, <1>4, <1>5 DEF Own
<1>7. q'[l] = Tail(q[l]) /\ q'[k] = q[k]
  <2>1. q' = Flooded(Popped(l), s, one, <<[type |-> "SQUIT", users |-> Behind(s, one)]>>)
    BY <1>1 DEF Lose
  <2>2. q'[l] = Popped(l)[l] /\ q'[k] = Popped(l)[k]
    BY <1>0, <2>1 DEF Flooded
  <2> QED BY <1>0, <1>5, <2>2
<1>8. known'[s] = known[s] \ Behind(s, one) /\ known'[one] = known[one]
  BY <1>0, <1>1 DEF Lose, IInv, TypeOK
<1>9. LinkAt(l)'
  <2>1. DirectedIn(l, Tail(q[l]))
    BY <1>0, <1>2, DirectedTail DEF LinkAt
  <2>2. WiresIn("down", "down", Tail(q[l]))
    BY DEF WiresIn
  <2>3. ApartIn(l, "down", "down", known[one])
    BY <1>2, <1>3 DEF LinkAt, ApartIn
  <2> QED BY <1>0, <1>3, <1>4, <1>7, <1>8, <2>1, <2>2, <2>3 DEF LinkAt
<1>10. LinkAt(k)'
  <2>1. DirectedIn(k, q[k])
    BY <1>2 DEF LinkAt
  <2>2. WiresIn("down", "down", q[k])
    BY DEF WiresIn
  <2>3. ApartIn(k, "down", "down", known[s] \ Behind(s, one))
    BY <1>0 DEF ApartIn, Behind
  <2> QED BY <1>0, <1>3, <1>4, <1>7, <1>8, <2>1, <2>2, <2>3 DEF LinkAt
<1>11. PairAt(l)' /\ PairAt(k)'
  BY <1>0, <1>3, <1>4 DEF PairAt, PairOK
<1>12. ASSUME NEW r \in Links, Own(r, s, one) PROVE OwnOK(r)
  <2>1. r = l \/ r = k
    <3>1. Own(r, l[1], l[2])
      BY <1>12 DEF Own
    <3> QED BY <3>1, OwnLink
  <2>2. \A i \in DOMAIN Tail(q[l]) : i + 1 \in DOMAIN q[l] /\ Tail(q[l])[i] = q[l][i + 1]
    BY <1>0
  <2>3. OwnOK(l)
    BY <1>7, <1>9, <1>11, <2>2 DEF OwnOK
  <2>4. OwnOK(k)
    BY <1>7, <1>10, <1>11 DEF OwnOK
  <2> QED BY <2>1, <2>3, <2>4
<1> HIDE DEF s, one
<1> QED BY <1>0, <1>1, <1>6, <1>12, Loses

\* A burst is made of descriptions that merge, of users the server knows.
Tale(us) == {m \in Message : m.type \in Merging /\ Senders(m) \subseteq us}
LEMMA BurstTale ==
  ASSUME IInv, NEW s \in Servers
  PROVE  \A i \in DOMAIN Burst(s) : Burst(s)[i] \in Tale(known[s])
<1> DEFINE c == chan[s]
           uid == [type |-> "UID", users |-> known[s]]
           sjoin == [type |-> "SJOIN", ts |-> c.ts, zero |-> FALSE, modes |-> c.modes,
                     key |-> c.key, users |-> c.mem, ops |-> c.ops]
           bmask == [type |-> "BMASK", ts |-> c.ts, masks |-> c.bans]
           two == IF Exists(s) THEN <<sjoin>> ELSE << >>
           three == IF c.bans # {} THEN <<bmask>> ELSE << >>
<1>1. ChanOK(c) /\ c.mem \subseteq known[s]
  BY DEF IInv, Channels, KnownMembers
<1>2. uid \in Tale(known[s])
  BY DEF Message, IInv, TypeOK, Tale, Senders, Merging
<1>3. Exists(s) => sjoin \in Tale(known[s])
  <2>1. Exists(s) => sjoin \in SJoinMsg
    BY <1>1 DEF ChanOK, Channel, SJoinMsg, Exists
  <2>2. Exists(s) => sjoin \in Message
    BY <2>1 DEF Message, SJoinMsg
  <2> QED BY <1>1, <2>2 DEF Tale, Senders, Merging
<1>4. c.bans # {} => bmask \in Tale(known[s])
  <2>1. c.bans # {} => c.ts \in 1..MaxTS
    BY <1>1 DEF ChanOK, NoChan
  <2> QED BY <1>1, <2>1 DEF Message, ChanOK, Channel, Tale, Senders, Merging
<1>5. Burst(s) = <<uid>> \o two \o three
  BY DEF Burst
<1> HIDE DEF uid, sjoin, bmask, c
<1>6. two \in Seq(Tale(known[s])) /\ three \in Seq(Tale(known[s]))
  <2> DEFINE S == Tale(known[s])
  <2>1. (Exists(s) => sjoin \in S) /\ (c.bans # {} => bmask \in S)
    BY <1>3, <1>4
  <2> HIDE DEF S
  <2>2. two \in Seq(S)
    BY <2>1
  <2>3. three \in Seq(S)
    BY <2>1
  <2> QED BY <2>2, <2>3 DEF S
<1> HIDE DEF two, three
<1>7. Burst(s) \in Seq(Tale(known[s]))
  BY <1>2, <1>5, <1>6
<1> QED BY <1>7

\* Two ends of a link that is down know no user in common, nor where only one end
\* has heard of the other.
LEMMA NoneShared ==
  ASSUME IInv, Sync, NEW l \in Links, conn[Rev(l)] # "up",
         conn[l] # "up" \/ conn[Rev(l)] = "wait"
  PROVE  known[l[1]] \cap known[l[2]] = {}
<1>1. LinkAt(l) /\ LinkAt(Rev(l)) /\ Rev(l)[1] = l[2] /\ Rev(l)[2] = l[1] /\ Rev(Rev(l)) = l
  BY RevLink DEF Sync
<1>2. \A u \in known[l[1]] : Via[l[1]][Home[u]] # l[2]
  BY <1>1 DEF LinkAt, ApartIn
<1>3. \A u \in known[l[2]] : Via[l[2]][Home[u]] # l[1]
  BY <1>1 DEF LinkAt, ApartIn
<1>4. known[l[1]] \subseteq Users
  BY RevLink DEF IInv, TypeOK
<1>5. \A u \in Users : Home[u] \in Servers
  BY Tree
<1> QED BY <1>2, <1>3, <1>4, <1>5, SideOf

\* A step that makes one link anew: x and y are what is then on its way each way,
\* descriptions added to what was.
LEMMA Makes ==
  ASSUME IInv, Sync, UNCHANGED <<known, chan>>, NEW l \in Links, NEW s \in {l[1], l[2]},
         crossed' = (crossed \/ Meets("SJOIN", s)),
         \A r \in Links : r # l /\ r # Rev(l) => q'[r] = q[r] /\ conn'[r] = conn[r],
         \A r \in {l, Rev(l)} : LinkAt(r)' /\ (~crossed' => PairAt(r)'),
         \A r \in {l, Rev(l)} : \A i \in DOMAIN q'[r] :
           \/ \E j \in DOMAIN q[r] : q'[r][i] = q[r][j]
           \/ r[1] = s /\ q'[r][i].type \in Merging
  PROVE  Sync'
<1>0. \A r \in Links : r # l /\ r # Rev(l) => Rev(r) # l /\ Rev(r) # Rev(l) /\ Rev(r) \in Links
  <2>1. \A r \in Links : Rev(Rev(r)) = r /\ Rev(r) \in Links
    BY RevLink
  <2> QED BY <2>1
<1>1. ASSUME NEW r \in Links PROVE LinkAt(r)' /\ (~crossed' => PairAt(r)')
  <2>1. CASE r # l /\ r # Rev(l)
    <3>1. /\ q'[r] = q[r] /\ q'[Rev(r)] = q[Rev(r)]
          /\ conn'[r] = conn[r] /\ conn'[Rev(r)] = conn[Rev(r)]
      BY <1>0, <2>1
    <3>2. LinkAt(r) /\ (~crossed => PairAt(r))
      BY DEF Sync
    <3>3. LinkAt(r)'
      BY <3>1, <3>2 DEF LinkAt
    <3>4. ASSUME ~crossed' PROVE PairAt(r)'
      <4>1. View(r[1])' = View(r[1]) /\ View(r[2])' = View(r[2])
        BY DEF View
      <4> QED BY <3>1, <3>2, <3>4, <4>1 DEF PairAt
    <3> QED BY <3>3, <3>4
  <2>2. CASE r \in {l, Rev(l)}
    BY <2>2
  <2> QED BY <2>1, <2>2
<1>2. ASSUME ~crossed' PROVE Uncrossed'
  <2>1. Uncrossed /\ ~Meets("SJOIN", s)
    BY <1>2 DEF Sync
  <2>2. ASSUME NEW r \in Links, NEW i \in DOMAIN q'[r]
        PROVE  \/ \E j \in DOMAIN q[r] : q'[r][i] = q[r][j]
               \/ r[1] = s /\ q'[r][i].type \in Merging
    <3>1. CASE r # l /\ r # Rev(l)
      BY <2>2, <3>1
    <3>2. CASE r \in {l, Rev(l)}
      BY <2>2, <3>2
    <3> QED BY <3>1, <3>2
  <2>3. \A r \in Links : Toward(r, s) => \A i \in DOMAIN q[r] : q[r][i].type \in Merging
    BY <2>1 DEF Meets
  <2>4. ASSUME NEW k \in Links, NEW n \in Links, Facing(k, n), NEW i \in DOMAIN q'[k],
               NEW j \in DOMAIN q'[n]
        PROVE  Commute(q'[k][i], q'[n][j])
    <3>1. Toward(k, n[1]) /\ Toward(n, k[1]) /\ k[1] # n[1]
      BY <2>4 DEF Facing, Toward
    <3>2. CASE n[1] = s /\ q'[n][j].type \in Merging
      <4>1. PICK a \in DOMAIN q[k] : q'[k][i] = q[k][a]
        BY <2>2, <2>4, <3>1, <3>2
      <4>2. q[k][a].type \in Merging
        BY <2>3, <3>1, <3>2, <4>1
      <4> QED BY <3>2, <4>1, <4>2 DEF Commute
    <3>3. CASE k[1] = s /\ q'[k][i].type \in Merging
      <4>1. PICK a \in DOMAIN q[n] : q'[n][j] = q[n][a]
        BY <2>2, <2>4, <3>1, <3>3
      <4>2. q[n][a].type \in Merging
        BY <2>3, <3>1, <3>3, <4>1
      <4> QED BY <3>3, <4>1, <4>2 DEF Commute
    <3>4. CASE /\ \E a \in DOMAIN q[k] : q'[k][i] = q[k][a]
               /\ \E a \in DOMAIN q[n] : q'[n][j] = q[n][a]
      BY <2>1, <2>4, <3>4 DEF Uncrossed
    <3> QED BY <2>2, <2>4, <3>2, <3>3, <3>4
  <2> QED BY <2>4 DEF Uncrossed
<1> QED BY <1>1, <1>2 DEF Sync

LEMMA SyncConnect == ASSUME IInv, Sync, NEW l \in Links, Connect(l) PROVE Sync'
<1> DEFINE k == Rev(l)
           s == l[1]
           t == l[2]
           sv == [type |-> "SERVER"]
           b == Burst(s)
<1>0. /\ k \in Links /\ k[1] = t /\ k[2] = s /\ Rev(k) = l /\ k # l
      /\ s \in Servers /\ t \in Servers
  BY RevLink
<1>1. /\ conn[l] = "down" /\ conn[k] = "down" /\ q[l] = << >> /\ q[k] = << >>
      /\ conn' = [conn EXCEPT ![l] = "up", ![k] = "wait"]
      /\ q' = [q EXCEPT ![l] = <<sv>> \o b]
      /\ crossed' = (crossed \/ Meets("SJOIN", s)) /\ UNCHANGED <<known, chan>>
  BY DEF Connect, Rev
<1>2. sv \in Message /\ sv.type = "SERVER" /\ Senders(sv) = {} /\ <<sv>> \in Seq(Message)
  BY DEF Message, Senders
<1>3. b \in Seq(Message) /\ \A i \in DOMAIN b : b[i] \in Tale(known[s])
  BY <1>0, BurstOK, BurstTale
<1> HIDE DEF sv, b
<1>4. \A r \in Links : /\ conn'[r] = IF r = k THEN "wait" ELSE IF r = l THEN "up" ELSE conn[r]
                       /\ q'[r] = IF r = l THEN <<sv>> \o b ELSE q[r]
  BY <1>0, <1>1 DEF IInv, TypeOK
<1>5. LinkAt(l) /\ known[s] \cap known[t] = {}
  BY <1>1, NoneShared DEF Sync
<1>6. \A u \in known[s] : From(l, u)
  <2>1. \A u \in known[s] : Via[s][Home[u]] # t /\ u \in Users
    BY <1>0, <1>1, <1>5 DEF LinkAt, ApartIn, IInv, TypeOK
  <2> QED BY <2>1, FromSide
<1> DEFINE x == <<sv>> \o b
<1>7. x \in Seq(Message) /\ x # << >> /\ Head(x) = sv
      /\ \A i \in DOMAIN x : x[i] = sv \/ \E j \in DOMAIN b : x[i] = b[j]
  BY <1>2, <1>3
<1>8. \A i \in DOMAIN x : x[i].type \in Merging /\ \A u \in Senders(x[i]) : From(l, u)
  BY <1>2, <1>3, <1>6, <1>7 DEF Tale, Merging
<1>9. LinkAt(l)'
  <2>1. DirectedIn(l, x) /\ ~Closes(x)
    BY <1>8 DEF DirectedIn, Closes, Merging
  <2>2. WiresIn("up", "wait", x)
    BY <1>2, <1>7, <2>1 DEF WiresIn
  <2>3. ApartIn(l, "up", "wait", known[s])
    BY <1>0, <1>1, <1>5 DEF LinkAt, ApartIn
  <2> QED BY <1>0, <1>1, <1>4, <2>1, <2>2, <2>3 DEF LinkAt
<1>10. LinkAt(k)'
  <2>1. DirectedIn(k, << >>) /\ ~Closes(<< >>)
    BY DEF DirectedIn, Closes
  <2>2. WiresIn("wait", "up", << >>)
    BY <2>1 DEF WiresIn
  <2>3. ApartIn(k, conn[k], conn[l], known[t])
    BY <1>0 DEF Sync, LinkAt
  <2>4. ApartIn(k, "wait", "up", known[t])
    BY <1>1, <2>3 DEF ApartIn
  <2> QED BY <1>0, <1>1, <1>4, <2>1, <2>2, <2>4 DEF LinkAt
<1>11. PairAt(l)' /\ PairAt(k)'
  <2>1. View(s) \in Views /\ View(t) \in Views
    BY <1>0, ViewOK
  <2>2. Leads(<<sv>>, View(t), View(t))
    <3>1. Allowed(sv, View(t)) /\ After(View(t), sv) = View(t)
      BY <1>2 DEF Allowed, After, AfterUsers, AfterChan, View
    <3> QED BY <1>2, <2>1, <3>1, LeadsOne
  <2>3. Leads(b, View(t), Both(View(t), View(s)))
    <3>1. View(t).users \cap known[s] = {}
      BY <1>5 DEF View
    <3> QED BY <1>0, <1>3, <2>1, <3>1, BurstLeads DEF b
  <2>4. Leads(x, View(t), Both(View(s), View(t)))
    BY <1>2, <1>3, <2>1, <2>2, <2>3, LeadsCat, BothComm
  <2>5. View(s)' = View(s) /\ View(t)' = View(t)
    BY <1>1 DEF View
  <2> HIDE DEF x
  <2>6. PairOK("up", "wait", x, q[k], View(s), View(t))
    BY <2>4 DEF PairOK
  <2>7. PairOK("wait", "up", q[k], x, View(t), View(s))
    BY <2>6, PairSym
  <2>8. PairAt(l)'
    BY <1>0, <1>4, <2>5, <2>6 DEF PairAt, x
  <2>9. PairAt(k)'
    BY <1>0, <1>4, <2>5, <2>7 DEF PairAt, x
  <2> QED BY <2>8, <2>9
<1>12. ASSUME NEW r \in {l, k}, NEW i \in DOMAIN q'[r]
       PROVE  \/ \E j \in DOMAIN q[r] : q'[r][i] = q[r][j]
              \/ r[1] = s /\ q'[r][i].type \in Merging
  <2>1. CASE r = l
    <3>1. q'[r] = x /\ r[1] = s
      BY <1>0, <1>4, <2>1
    <3> QED BY <1>8, <1>12, <3>1
  <2>2. CASE r # l
    <3>1. q'[r] = q[r]
      BY <1>0, <1>4, <1>12, <2>2
    <3> QED BY <1>12, <3>1
  <2> QED BY <2>1, <2>2
<1>13. \A r \in Links : r # l /\ r # k => q'[r] = q[r] /\ conn'[r] = conn[r]
  BY <1>4
<1>14. s \in {l[1], l[2]}
  OBVIOUS
<1>15. \A r \in {l, k} : LinkAt(r)' /\ (~crossed' => PairAt(r)')
  BY <1>9, <1>10, <1>11
<1> HIDE DEF s, x
<1> QED BY <1>1, <1>12, <1>13, <1>14, <1>15, Makes

LEMMA SyncServer == ASSUME IInv, Sync, NEW l \in Links, RecvServer(l) PROVE Sync'
<1> DEFINE k == Rev(l)
           s == l[2]
           t == l[1]
           b == Burst(s)
           y == IF conn[l] = "down" THEN q[k] ELSE q[k] \o b
<1>0. /\ k \in Links /\ k[1] = s /\ k[2] = t /\ Rev(k) = l /\ k # l
      /\ s \in Servers /\ t \in Servers /\ s # t
  BY RevLink
<1>1. /\ conn[k] = "wait" /\ q[l] # << >> /\ Head(q[l]).type = "SERVER"
      /\ conn' = [conn EXCEPT ![k] = "up"]
      /\ q' = [q EXCEPT ![l] = Tail(@), ![k] = IF conn[l] = "down" THEN @ ELSE @ \o b]
      /\ crossed' = (crossed \/ Meets("SJOIN", s)) /\ UNCHANGED <<known, chan>>
  BY DEF RecvServer, Rev
<1>2. b \in Seq(Message) /\ \A i \in DOMAIN b : b[i] \in Tale(known[s])
  BY <1>0, BurstOK, BurstTale
<1> HIDE DEF b
<1>3. LinkAt(l) /\ LinkAt(k) /\ q[l] \in Seq(Message)
  BY <1>0, QueueOf DEF Sync
<1>4. q[k] = << >>
  BY <1>0, <1>1, <1>3 DEF LinkAt, WiresIn
<1>5. y = IF conn[l] = "down" THEN << >> ELSE b
  BY <1>2, <1>4
<1>6. \A r \in Links : /\ conn'[r] = IF r = k THEN "up" ELSE conn[r]
                       /\ q'[r] = IF r = l THEN Tail(q[l]) ELSE IF r = k THEN y ELSE q[r]
  BY <1>0, <1>1 DEF IInv, TypeOK
<1> HIDE DEF y
<1>7. /\ conn[l] \in {"up", "down"} /\ (conn[l] = "down" => Closes(q[l]))
      /\ WiresIn(conn[l], "up", Tail(q[l]))
  <2>1. conn[l] \in {"up", "wait", "down"}
    BY DEF IInv, TypeOK
  <2>2. WiresIn(conn[l], conn[k], q[l])
    BY <1>3 DEF LinkAt
  <2>3. WiresIn(conn[l], "up", Tail(q[l])) /\ conn[l] # "wait" /\ (conn[l] = "down" => Closes(q[l]))
    BY <1>1, <1>3, <2>2, WiresTail
  <2> QED BY <2>1, <2>3
<1>8. known[t] \cap known[s] = {}
  BY <1>1, NoneShared
<1>9. \A u \in known[s] : From(k, u)
  <2>1. \A u \in known[s] : Via[s][Home[u]] # t /\ u \in Users
    BY <1>0, <1>1, <1>3 DEF LinkAt, ApartIn, IInv, TypeOK
  <2> QED BY <1>0, <2>1, FromSide
<1>10. \A i \in DOMAIN y : y[i].type \in Merging /\ \A u \in Senders(y[i]) : From(k, u)
  BY <1>2, <1>5, <1>9 DEF Tale
<1>11. LinkAt(l)'
  <2>1. DirectedIn(l, Tail(q[l]))
    BY <1>1, <1>3, DirectedTail DEF LinkAt
  <2>2. ApartIn(l, conn[l], conn[k], known[t])
    BY <1>3 DEF LinkAt
  <2>3. ApartIn(l, conn[l], "up", known[t])
    BY <1>1, <2>2 DEF ApartIn
  <2> QED BY <1>0, <1>1, <1>6, <1>7, <2>1, <2>3 DEF LinkAt
<1>12. LinkAt(k)'
  <2>1. DirectedIn(k, y) /\ ~Closes(y)
    BY <1>10 DEF DirectedIn, Closes, Merging
  <2>2. WiresIn("up", conn[l], y)
    BY <1>7, <2>1 DEF WiresIn
  <2>3. ApartIn(k, "up", conn[l], known[s])
    BY <1>7 DEF ApartIn
  <2> QED BY <1>0, <1>1, <1>6, <2>1, <2>2, <2>3 DEF LinkAt
<1>13. ASSUME ~crossed' PROVE PairAt(l)' /\ PairAt(k)'
  <2>1. ~crossed /\ \A i \in DOMAIN q[l] : q[l][i].type \in Merging
    <3>1. ~Meets("SJOIN", s) /\ ~crossed
      BY <1>1, <1>13
    <3>2. Toward(l, s)
      BY <1>0, SideOf DEF Toward
    <3> QED BY <3>1, <3>2 DEF Meets
  <2>2. conn[l] = "up" /\ AllSoft(q[l])
    <3>1. ~Closes(q[l])
      BY <2>1 DEF Closes, Merging
    <3> QED BY <1>7, <2>1, <3>1 DEF AllSoft, Soft
  <2>3. View(s) \in Views /\ View(t) \in Views /\ PairAt(l)
    BY <1>0, <2>1, ViewOK DEF Sync
  <2>4. Leads(q[l], View(s), Both(View(t), View(s)))
    BY <1>1, <2>2, <2>3 DEF PairAt, PairOK
  <2>5. Leads(Tail(q[l]), View(s), Both(View(t), View(s)))
    <3>1. After(View(s), Head(q[l])) = View(s)
      BY <1>1 DEF After, AfterUsers, AfterChan, View
    <3> QED BY <1>1, <1>3, <2>4, <3>1, LeadsTail
  <2>6. Leads(y, View(t), Both(View(t), View(s)))
    <3>1. View(t).users \cap known[s] = {} /\ y = b
      BY <1>5, <1>8, <2>2 DEF View
    <3> QED BY <1>0, <1>2, <2>3, <3>1, BurstLeads DEF b
  <2>7. Both(View(t), View(s)) \in Views
    BY <1>3, <2>4, LeadsView
  <2>8. PairOK("up", "up", Tail(q[l]), y, View(t), View(s))
    BY <2>5, <2>6, <2>7 DEF PairOK
  <2>9. PairOK("up", "up", y, Tail(q[l]), View(s), View(t))
    BY <2>8, PairSym
  <2>10. View(s)' = View(s) /\ View(t)' = View(t)
    BY <1>1 DEF View
  <2>11. PairAt(l)'
    BY <1>0, <1>6, <2>2, <2>8, <2>10 DEF PairAt
  <2>12. PairAt(k)'
    BY <1>0, <1>6, <2>2, <2>9, <2>10 DEF PairAt
  <2> QED BY <2>11, <2>12
<1>14. ASSUME NEW r \in {l, k}, NEW i \in DOMAIN q'[r]
       PROVE  \/ \E j \in DOMAIN q[r] : q'[r][i] = q[r][j]
              \/ r[1] = s /\ q'[r][i].type \in Merging
  <2>1. CASE r = l
    <3>1. q'[r] = Tail(q[l]) /\ q[r] = q[l]
      BY <1>6, <2>1
    <3>2. \A n \in DOMAIN Tail(q[l]) : n + 1 \in DOMAIN q[l] /\ Tail(q[l])[n] = q[l][n + 1]
      BY <1>1, <1>3
    <3> QED BY <1>14, <3>1, <3>2
  <2>2. CASE r = k /\ r # l
    <3>1. q'[r] = y /\ r[1] = s
      BY <1>0, <1>6, <2>2
    <3> QED BY <1>10, <1>14, <3>1
  <2> QED BY <1>14, <2>1, <2>2
<1>15. \A r \in Links : r # l /\ r # k => q'[r] = q[r] /\ conn'[r] = conn[r]
  BY <1>6
<1>16. s \in {l[1], l[2]}
  OBVIOUS
<1>17. \A r \in {l, k} : LinkAt(r)' /\ (~crossed' => PairAt(r)')
  BY <1>11, <1>12, <1>13
<1> HIDE DEF s
<1> QED BY <1>1, <1>14, <1>15, <1>16, <1>17, Makes

-----------------------------------------------------------------------------
LEMMA InitSync == Init => Sync
<1> SUFFICES ASSUME Init PROVE Sync
  OBVIOUS
<1>1. IInv
  BY InitIInv
<1>2. \A l \in Links : conn[l] = "up" /\ q[l] = << >> /\ Rev(l) \in Links
  BY RevLink DEF Init
<1>3. DOMAIN << >> = {}
  OBVIOUS
<1>4. ASSUME NEW l \in Links PROVE LinkAt(l) /\ PairAt(l)
  <2>1. conn[l] = "up" /\ q[l] = << >> /\ conn[Rev(l)] = "up" /\ q[Rev(l)] = << >>
    BY <1>2
  <2>2. LinkAt(l)
    BY <1>3, <2>1 DEF LinkAt, DirectedIn, ApartIn, WiresIn, Closes
  <2>3. View(l[1]) = View(l[2]) /\ View(l[1]) \in Views
    BY <1>1, RevLink, ViewOK DEF Init, View
  <2>4. Leads(<< >>, View(l[1]), View(l[1]))
    BY <2>3, LeadsNil
  <2> QED BY <2>1, <2>2, <2>3, <2>4 DEF PairAt, PairOK
<1>5. Uncrossed
  BY <1>2, <1>3 DEF Uncrossed
<1> QED BY <1>4, <1>5 DEF Sync

LEMMA NextSync == IInv /\ Sync /\ [Next]_vars => Sync'
<1> SUFFICES ASSUME IInv, Sync, [Next]_vars PROVE Sync'
  OBVIOUS
<1>1. CASE UNCHANGED vars
  BY <1>1 DEF vars, Sync, LinkAt, PairAt, Uncrossed, View
<1>2. ASSUME NEW u \in Users, NEW t \in 1..MaxTS, Create(u, t) PROVE Sync'
  BY <1>2, SyncCreate
<1>3. ASSUME NEW u \in Users, Join(u) PROVE Sync'
  BY <1>3, SyncJoinCommand
<1>4. ASSUME NEW u \in Users, Part(u) PROVE Sync'
  BY <1>4, SyncPartCommand
<1>5. ASSUME NEW u \in Users, NEW v \in Users, Kick(u, v) PROVE Sync'
  BY <1>5, SyncKickCommand
<1>6. ASSUME NEW u \in Users, NEW ch \in Changes, Mode(u, ch) PROVE Sync'
  BY <1>6, SyncModeCommand
<1>7. ASSUME NEW l \in Links,
             \/ RecvSJoin(l) \/ RecvJoin(l) \/ RecvPart(l) \/ RecvKick(l)
             \/ RecvTMode(l) \/ RecvBMask(l) \/ RecvUid(l) \/ RecvSquit(l)
             \/ Break(l) \/ RecvClose(l) \/ Connect(l) \/ RecvServer(l)
      PROVE Sync'
  BY <1>7, SyncSJoin, SyncJoin, SyncPart, SyncKick, SyncTMode, SyncBMask, SyncUid,
     SyncSquit, SyncBreak, SyncClose, SyncConnect, SyncServer
<1> QED BY <1>1, <1>2, <1>3, <1>4, <1>5, <1>6, <1>7 DEF Next

\* On any tree of servers, whatever is split and rejoined and however JOINs and
\* bursts meet: when every message has been handled, linked servers have the same
\* channel, if no MODE, KICK, PART or split crossed another event.
THEOREM Converges == Spec => []Convergence
<1>1. IInv /\ Sync => Convergence
  <2> SUFFICES ASSUME IInv, Sync, Quiet, ~crossed, NEW l \in Links, conn[l] = "up"
               PROVE  chan[l[1]] = chan[l[2]]
    BY DEF Convergence, Same
  <2>1. /\ q[l] = << >> /\ q[Rev(l)] = << >> /\ conn[Rev(l)] # "wait"
        /\ Rev(l) \in Links /\ Rev(Rev(l)) = l
    BY RevLink DEF Quiet
  <2>2. ~Closes(<< >>)
    BY DEF Closes
  <2>3. conn[Rev(l)] = "up"
    <3>1. conn[Rev(l)] \in {"up", "wait", "down"}
      BY <2>1 DEF IInv, TypeOK
    <3>2. WiresIn(conn[Rev(l)], conn[l], << >>)
      BY <2>1 DEF Sync, LinkAt
    <3> QED BY <2>1, <2>2, <3>1, <3>2 DEF WiresIn
  <2>4. PairOK("up", "up", << >>, << >>, View(l[1]), View(l[2]))
    BY <2>1, <2>3 DEF Sync, PairAt
  <2>5. PICK z \in Views : Leads(<< >>, View(l[2]), z) /\ Leads(<< >>, View(l[1]), z)
    BY <2>4 DEF PairOK
  <2>6. View(l[1]) = View(l[2])
    BY <2>5, LeadsEmpty
  <2> QED BY <2>6 DEF View
<1>2. Init => IInv /\ Sync
  BY InitIInv, InitSync
<1>3. IInv /\ Sync /\ [Next]_vars => (IInv /\ Sync)'
  BY NextIInv, NextSync
<1> QED BY <1>1, <1>2, <1>3, PTL DEF Spec
=============================================================================

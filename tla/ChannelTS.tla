----------------------------- MODULE ChannelTS -----------------------------
(***************************************************************************)
(* One channel as every server of the IRC network keeps it, and the         *)
(* timestamped channel descriptions that are meant to keep the copies the   *)
(* same: JOIN, PART, KICK, MODE by clients; SJOIN, JOIN, TMODE, BMASK, PART *)
(* and KICK between servers; a link that breaks, and the burst when it is   *)
(* made again.                                                              *)
(*                                                                         *)
(* Links are FIFO (TCP).  Server names, clients' nicks and the texts of     *)
(* topics are left out; the limit is merged as the key is, half-ops and     *)
(* voices as ops are, and the e and I lists as the ban list is, so one of   *)
(* each stands for its kind.  A channel TS is CurrentTime of the server     *)
(* that creates the channel, so TS 0 does not occur.                        *)
(***************************************************************************)
EXTENDS Integers, Sequences, FiniteSets

CONSTANTS Servers, Users, Masks,
          Home,       \* the server each user is connected to
          Links,      \* ordered pairs of neighbours: the tree, both ways
          Via,        \* Via[s][t]: the neighbour of s on the way to t
          Commands,   \* the client commands and mode letters in use
          Breaks,     \* the links that may break
          MaxTS,      \* bound on timestamps
          MaxKey,     \* keys are 1..MaxKey in strcmp order, 0 is no key
          MaxCmds,    \* bound on client commands
          MaxSplits   \* bound on broken links

ASSUME Tree ==
  /\ Home \in [Users -> Servers]
  /\ Via \in [Servers -> [Servers -> Servers]]
  /\ Links \subseteq Servers \X Servers
  /\ Breaks \subseteq Links
  /\ \A l \in Links : l[1] # l[2] /\ <<l[2], l[1]>> \in Links
  /\ \A s \in Servers : Via[s][s] = s
  /\ \A l \in Links, t \in Servers : Via[l[1]][t] # l[2] <=> Via[l[2]][t] = l[1]
  /\ \A l \in Links : \A s \in Servers \ {l[1], l[2]} : Via[s][l[1]] = Via[s][l[2]]
ASSUME ChannelBounds == /\ MaxTS \in Nat \ {0} /\ MaxKey \in Nat
                        /\ MaxCmds \in Nat /\ MaxSplits \in Nat

Keys == 0..MaxKey
Flags == {"t"}     \* the simple modes; a new channel has them set (+nt)

VARIABLES known,    \* known[s]: the users in the client hash of server s
          chan,     \* chan[s]: the channel as server s has it
          clock,    \* clock[s]: the last TS server s gave a channel
          conn,     \* conn[<<s, t>>]: what s thinks of its link to t
          q,        \* q[<<s, t>>]: sent by s, not yet handled by t
          cmds, splits,
          crossed   \* history: two events that do not commute crossed

vars == <<known, chan, clock, conn, q, cmds, splits, crossed>>

Channel == [ts : 0..MaxTS, mem : SUBSET Users, ops : SUBSET Users,
            modes : SUBSET Flags, key : Keys, bans : SUBSET Masks]

\* A channel is destroyed with its last member (channel.c 134-151).
NoChan == [ts |-> 0, mem |-> {}, ops |-> {}, modes |-> {}, key |-> 0, bans |-> {}]
Exists(s) == chan[s].mem # {}

Changes == [flag : {"o"}, add : BOOLEAN, arg : Users]
           \cup [flag : {"t"}, add : BOOLEAN, arg : {0}]
           \cup [flag : {"k"}, add : {TRUE}, arg : Keys \ {0}]
           \cup [flag : {"k"}, add : {FALSE}, arg : {0}]
           \cup [flag : {"b"}, add : BOOLEAN, arg : Masks]

Message == [type : {"SERVER", "CLOSE"}]
           \cup [type : {"UID", "SQUIT"}, users : SUBSET Users]
           \cup [type : {"SJOIN"}, ts : 1..MaxTS, zero : BOOLEAN,
                 modes : SUBSET Flags, key : Keys,
                 users : SUBSET Users, ops : SUBSET Users]
           \cup [type : {"JOIN"}, user : Users, ts : 1..MaxTS]
           \cup [type : {"PART"}, user : Users]
           \cup [type : {"KICK"}, user : Users, who : Users]
           \cup [type : {"TMODE"}, user : Users, ts : 1..MaxTS, change : Changes]
           \cup [type : {"BMASK"}, ts : 1..MaxTS, masks : SUBSET Masks]

TypeOK ==
  /\ known \in [Servers -> SUBSET Users]
  /\ chan \in [Servers -> Channel]
  /\ clock \in [Servers -> 1..MaxTS]
  /\ conn \in [Links -> {"up", "wait", "down"}]
  /\ q \in [Links -> Seq(Message)]
  /\ cmds \in 0..MaxCmds /\ splits \in 0..MaxSplits
  /\ crossed \in BOOLEAN

\* The network is linked and every server has been told of every user.
Init ==
  /\ known = [s \in Servers |-> Users]
  /\ chan = [s \in Servers |-> NoChan]
  /\ clock = [s \in Servers |-> 1]
  /\ conn = [l \in Links |-> "up"]
  /\ q = [l \in Links |-> << >>]
  /\ cmds = 0 /\ splits = 0 /\ crossed = FALSE

-----------------------------------------------------------------------------
(* Sending and receiving *)

\* sendto_server(one, ...): to every server linked to s but the one it came
\* from.  What a broken link is given is lost.
Flooded(queues, s, one, msgs) ==
  [l \in Links |-> IF /\ l[1] = s /\ l[2] # one
                      /\ conn[l] = "up" /\ conn[<<l[2], l[1]>>] # "down"
                     THEN queues[l] \o msgs ELSE queues[l]]

Popped(l) == [q EXCEPT ![l] = Tail(@)]

\* Server l[2] handles the head of the link, changes its channel to c and
\* passes msgs on to the servers beyond.
Handle(l, c, msgs) ==
  /\ chan' = [chan EXCEPT ![l[2]] = c]
  /\ q' = Flooded(Popped(l), l[2], l[1], msgs)
  /\ UNCHANGED <<known, clock, conn, cmds, splits, crossed>>

Received(l, type) ==
  /\ conn[<<l[2], l[1]>>] = "up" /\ q[l] # << >> /\ Head(q[l]).type = type

\* Descriptions of the channel merge, whatever the order.  The others do not:
\* an event that meets one of them, on its way to the server, crosses it.
Merging == {"SERVER", "UID", "SJOIN", "JOIN", "BMASK"}
Toward(l, s) == l[1] # s /\ Via[l[1]][s] = l[2]
Meets(type, s) ==
  \E l \in Links : Toward(l, s) /\
    \E i \in DOMAIN q[l] : type \notin Merging \/ q[l][i].type \notin Merging

-----------------------------------------------------------------------------
(* What each command does to a channel *)

\* remove_user_from_channel: the last one out destroys the channel.
Left(c, us) == IF c.mem \subseteq us THEN NoChan
               ELSE [c EXCEPT !.mem = @ \ us, !.ops = @ \ us]

\* ms_sjoin for the users us of the message that are real; a channel that does
\* not exist takes the whole description.  The older TS wins, equal ones merge.
MaxOf(a, b) == IF a < b THEN b ELSE a

\* Faulty variant: the received TS is taken even when it is younger.
SJoinedYounger(c, m, us) ==
  [ts |-> m.ts, mem |-> c.mem \cup us, ops |-> c.ops \cup (m.ops \cap us),
   modes |-> m.modes, key |-> m.key, bans |-> c.bans]

\* Faulty variant: the losing side keeps its chanops and bans.
SJoinedKeep(c, m, us) ==
  LET new == c.mem = {}
      low == ~new /\ m.ts < c.ts
      high == ~new /\ m.ts > c.ts
  IN [ts |-> IF new \/ low THEN m.ts ELSE c.ts,
      mem |-> c.mem \cup us,
      ops |-> c.ops \cup IF high THEN {} ELSE m.ops \cap (us \ c.mem),
      modes |-> IF high THEN c.modes ELSE m.modes,
      key |-> IF high THEN c.key ELSE m.key,
      bans |-> c.bans]

\* Faulty variant: at equal TS the description received replaces ours.
SJoinedReplace(c, m, us) ==
  LET new == c.mem = {}
      low == ~new /\ m.ts < c.ts
      high == ~new /\ m.ts > c.ts
  IN [ts |-> IF new \/ low THEN m.ts ELSE c.ts,
      mem |-> c.mem \cup us,
      ops |-> (IF low THEN {} ELSE c.ops)
              \cup IF high THEN {} ELSE m.ops \cap (us \ c.mem),
      modes |-> IF high THEN c.modes ELSE m.modes,
      key |-> IF high THEN c.key ELSE m.key,
      bans |-> IF low THEN {} ELSE c.bans]

SJoined(c, m, us) ==
  LET new == c.mem = {}
      low == ~new /\ m.ts < c.ts
      high == ~new /\ m.ts > c.ts
  IN [ts |-> IF new \/ low THEN m.ts ELSE c.ts,
      mem |-> c.mem \cup us,
      ops |-> (IF low THEN {} ELSE c.ops)
              \cup IF high THEN {} ELSE m.ops \cap (us \ c.mem),
      modes |-> IF high THEN c.modes
                ELSE IF low THEN m.modes ELSE c.modes \cup m.modes,
      key |-> IF high THEN c.key
              ELSE IF low THEN m.key ELSE MaxOf(c.key, m.key),
      bans |-> IF low THEN {} ELSE c.bans]

\* Faulty variant: a new channel does not take the TS received.
JoinedNoTS(c, u, ts) ==
  LET low == c.mem # {} /\ ts < c.ts
  IN [ts |-> IF low THEN ts ELSE c.ts,
      mem |-> c.mem \cup {u},
      ops |-> IF low THEN {} ELSE c.ops,
      modes |-> IF low THEN {} ELSE c.modes,
      key |-> IF low THEN 0 ELSE c.key,
      bans |-> c.bans]

\* ms_join: as an SJOIN with no modes, except that the losing side keeps its bans.
Joined(c, u, ts) ==
  LET low == c.mem # {} /\ ts < c.ts
  IN [ts |-> IF c.mem = {} \/ low THEN ts ELSE c.ts,
      mem |-> c.mem \cup {u},
      ops |-> IF low THEN {} ELSE c.ops,
      modes |-> IF low THEN {} ELSE c.modes,
      key |-> IF low THEN 0 ELSE c.key,
      bans |-> c.bans]

\* set_channel_mode: a change that changes nothing is not passed on, but a
\* simple mode and +k are whether or not they change anything.
Idle(c, ch) ==
  \/ ch.flag = "o" /\ (ch.arg \notin c.mem \/ ch.add = (ch.arg \in c.ops))
  \/ ch.flag = "k" /\ ~ch.add /\ c.key = 0
  \/ ch.flag = "b" /\ ch.add = (ch.arg \in c.bans)

With(set, ch) == IF ch.add THEN set \cup {ch.arg} ELSE set \ {ch.arg}

Moded(c, ch) ==
  CASE ch.flag = "o" -> [c EXCEPT !.ops = With(@, ch)]
    [] ch.flag = "t" -> [c EXCEPT !.modes = IF ch.add THEN Flags ELSE {}]
    [] ch.flag = "k" -> [c EXCEPT !.key = ch.arg]
    [] ch.flag = "b" -> [c EXCEPT !.bans = With(@, ch)]

-----------------------------------------------------------------------------
(* Clients *)

\* Room for one more command, by user u at his own server.
Command(u, type) ==
  /\ cmds < MaxCmds /\ cmds' = cmds + 1
  /\ crossed' = (crossed \/ Meets(type, Home[u]))
  /\ UNCHANGED <<known, conn, splits>>

Tell(s, c, m) == /\ chan' = [chan EXCEPT ![s] = c]
                 /\ q' = Flooded(q, s, s, <<m>>)

\* channel_do_join of a channel that does not exist.
Create(u, t) ==
  LET s == Home[u] IN
  /\ ~Exists(s) /\ t >= clock[s]
  /\ Command(u, "SJOIN")
  /\ clock' = [clock EXCEPT ![s] = t]
  /\ Tell(s, [ts |-> t, mem |-> {u}, ops |-> {u}, modes |-> Flags, key |-> 0, bans |-> {}],
          [type |-> "SJOIN", ts |-> t, zero |-> FALSE, modes |-> Flags, key |-> 0,
           users |-> {u}, ops |-> {u}])

\* channel_do_join of one that does: the user is not banned and has the key.
Join(u) ==
  LET s == Home[u] IN
  /\ Exists(s) /\ u \notin chan[s].mem /\ u \notin chan[s].bans
  /\ Command(u, "JOIN")
  /\ Tell(s, [chan[s] EXCEPT !.mem = @ \cup {u}],
          [type |-> "JOIN", user |-> u, ts |-> chan[s].ts])
  /\ UNCHANGED clock

Part(u) ==
  LET s == Home[u] IN
  /\ "PART" \in Commands /\ u \in chan[s].mem
  /\ Command(u, "PART")
  /\ Tell(s, Left(chan[s], {u}), [type |-> "PART", user |-> u])
  /\ UNCHANGED clock

Kick(u, v) ==
  LET s == Home[u] IN
  /\ "KICK" \in Commands /\ u \in chan[s].ops /\ v \in chan[s].mem
  /\ Command(u, "KICK")
  /\ Tell(s, Left(chan[s], {v}), [type |-> "KICK", user |-> u, who |-> v])
  /\ UNCHANGED clock

Mode(u, ch) ==
  LET s == Home[u] IN
  /\ ch.flag \in Commands /\ u \in chan[s].ops /\ ~Idle(chan[s], ch)
  /\ Command(u, "TMODE")
  /\ Tell(s, Moded(chan[s], ch),
          [type |-> "TMODE", user |-> u, ts |-> chan[s].ts, change |-> ch])
  /\ UNCHANGED clock

-----------------------------------------------------------------------------
(* Messages between servers.  l is the link, s the server that handles it. *)

\* A prefix no server knows any more: the line is dropped (parse.c).
Drop(l) == Handle(l, chan[l[2]], << >>)

\* Users that do not exist, or are not in the direction the message came from,
\* are skipped.
Joiners(l) == {u \in Head(q[l]).users \cap known[l[2]] :
                 Via[l[2]][Home[u]] = l[1]}

\* What ms_sjoin passes on, given the channel before (c) and after (d).  A
\* description that lost goes on without its modes ("0"); where one sent with
\* "0" clears a key, the key slips in before the list of users and hides it
\* (parabuf of set_final_mode).
Forward(m, c, d, us) ==
  LET high == c.mem # {} /\ m.ts > c.ts
      garbled == m.zero /\ c.mem # {} /\ m.ts < c.ts /\ c.key # 0
      zero == m.zero \/ high
  IN [type |-> "SJOIN", ts |-> d.ts, zero |-> zero,
      modes |-> IF zero THEN {} ELSE d.modes,
      key |-> IF zero THEN 0 ELSE d.key,
      users |-> IF garbled THEN {} ELSE us,
      ops |-> IF garbled \/ high THEN {} ELSE m.ops \cap us]

\* With no user left nothing is passed on, and a new channel is destroyed at once.
RecvSJoin(l) ==
  LET c == chan[l[2]]
      us == Joiners(l)
      d == SJoined(c, Head(q[l]), us)
  IN /\ Received(l, "SJOIN")
     /\ IF c.mem # {} \/ us # {}
          THEN Handle(l, d, IF us = {} THEN << >>
                            ELSE <<Forward(Head(q[l]), c, d, us)>>)
          ELSE Drop(l)

RecvJoin(l) ==
  LET s == l[2]
      m == Head(q[l])
      d == Joined(chan[s], m.user, m.ts)
  IN /\ Received(l, "JOIN")
     /\ IF m.user \in known[s]
          THEN Handle(l, d, <<[m EXCEPT !.ts = d.ts]>>)
          ELSE Drop(l)

RecvPart(l) ==
  LET s == l[2]
      m == Head(q[l])
  IN /\ Received(l, "PART")
     /\ IF m.user \in chan[s].mem
          THEN Handle(l, Left(chan[s], {m.user}), <<m>>)
          ELSE Drop(l)

\* Neither the TS nor the kicker's status is looked at.
RecvKick(l) ==
  LET s == l[2]
      m == Head(q[l])
  IN /\ Received(l, "KICK")
     /\ IF m.user \in known[s] /\ m.who \in chan[s].mem
          THEN Handle(l, Left(chan[s], {m.who}), <<m>>)
          ELSE Drop(l)

RecvTMode(l) ==
  LET s == l[2]
      m == Head(q[l])
      c == chan[s]
  IN /\ Received(l, "TMODE")
     /\ IF m.user \in known[s] /\ Exists(s) /\ m.ts <= c.ts /\ ~Idle(c, m.change)
          THEN Handle(l, Moded(c, m.change), <<[m EXCEPT !.ts = c.ts]>>)
          ELSE Drop(l)

RecvBMask(l) ==
  LET s == l[2]
      m == Head(q[l])
      c == chan[s]
  IN /\ Received(l, "BMASK")
     /\ IF Exists(s) /\ m.ts <= c.ts
          THEN Handle(l, [c EXCEPT !.bans = @ \cup m.masks], <<[m EXCEPT !.ts = c.ts]>>)
          ELSE Drop(l)

-----------------------------------------------------------------------------
(* Links *)

\* burst_all: the users, then the channel and its bans.
Burst(s) ==
  LET c == chan[s] IN
  << [type |-> "UID", users |-> known[s]] >>
  \o (IF Exists(s)
        THEN << [type |-> "SJOIN", ts |-> c.ts, zero |-> FALSE, modes |-> c.modes,
                 key |-> c.key, users |-> c.mem, ops |-> c.ops] >>
        ELSE << >>)
  \o (IF c.bans # {} THEN << [type |-> "BMASK", ts |-> c.ts, masks |-> c.bans] >>
                     ELSE << >>)

RecvUid(l) ==
  LET m == Head(q[l]) IN
  /\ Received(l, "UID")
  /\ known' = [known EXCEPT ![l[2]] = @ \cup m.users]
  /\ q' = Flooded(Popped(l), l[2], l[1], <<m>>)
  /\ UNCHANGED <<chan, clock, conn, cmds, splits, crossed>>

\* Faulty variant: the users are forgotten but not taken out of the channel.
LoseNoLeave(s, us, queues, one) ==
  /\ known' = [known EXCEPT ![s] = @ \ us]
  /\ q' = Flooded(queues, s, one, <<[type |-> "SQUIT", users |-> us]>>)
  /\ UNCHANGED chan

\* Server s forgets the users us and tells the other servers it has left.
Lose(s, us, queues, one) ==
  /\ known' = [known EXCEPT ![s] = @ \ us]
  /\ chan' = [chan EXCEPT ![s] = Left(@, us)]
  /\ q' = Flooded(queues, s, one, <<[type |-> "SQUIT", users |-> us]>>)

RecvSquit(l) ==
  /\ Received(l, "SQUIT")
  /\ Lose(l[2], Head(q[l]).users, Popped(l), l[1])
  /\ UNCHANGED <<clock, conn, cmds, splits, crossed>>

Behind(s, t) == {u \in known[s] : Via[s][Home[u]] = t}

\* Server l[1] drops the link.  The other end reads what it was sent before
\* it meets the end of the stream.
Break(l) ==
  LET rev == <<l[2], l[1]>> IN
  /\ l \in Breaks /\ splits < MaxSplits /\ conn[l] = "up" /\ conn[rev] # "down"
  /\ conn' = [conn EXCEPT ![l] = "down"]
  /\ splits' = splits + 1
  /\ crossed' = (crossed \/ \E k \in Links :
                    Toward(k, l[1]) /\ Via[l[1]][k[1]] # l[2] /\ q[k] # << >>)
  /\ Lose(l[1], Behind(l[1], l[2]),
          [q EXCEPT ![rev] = << >>, ![l] = Append(@, [type |-> "CLOSE"])], l[2])
  /\ UNCHANGED <<clock, cmds>>

RecvClose(l) ==
  LET s == l[2] IN
  /\ Received(l, "CLOSE")
  /\ conn' = [conn EXCEPT ![<<s, l[1]>>] = "down"]
  /\ crossed' = (crossed \/ \E k \in Links :
                    Toward(k, s) /\ Via[s][k[1]] # l[1] /\ q[k] # << >>)
  /\ Lose(s, Behind(s, l[1]), Popped(l), l[1])
  /\ UNCHANGED <<clock, cmds, splits>>

\* server_estab at the end that is connected to, and then, when it has read the
\* other's SERVER, at the end that connects.
Connect(l) ==
  LET rev == <<l[2], l[1]>> IN
  /\ conn[l] = "down" /\ conn[rev] = "down" /\ q[l] = << >> /\ q[rev] = << >>
  /\ conn' = [conn EXCEPT ![l] = "up", ![rev] = "wait"]
  /\ q' = [q EXCEPT ![l] = <<[type |-> "SERVER"]>> \o Burst(l[1])]
  /\ crossed' = (crossed \/ Meets("SJOIN", l[1]))
  /\ UNCHANGED <<known, chan, clock, cmds, splits>>

RecvServer(l) ==
  LET rev == <<l[2], l[1]>> IN
  /\ conn[rev] = "wait" /\ q[l] # << >> /\ Head(q[l]).type = "SERVER"
  /\ conn' = [conn EXCEPT ![rev] = "up"]
  /\ q' = [q EXCEPT ![l] = Tail(@),
                    ![rev] = IF conn[l] = "down" THEN @ ELSE @ \o Burst(l[2])]
  /\ crossed' = (crossed \/ Meets("SJOIN", l[2]))
  /\ UNCHANGED <<known, chan, clock, cmds, splits>>

-----------------------------------------------------------------------------
Next ==
  \/ \E u \in Users :
       \/ \E t \in 1..MaxTS : Create(u, t)
       \/ Join(u)
       \/ Part(u)
       \/ \E v \in Users : Kick(u, v)
       \/ \E ch \in Changes : Mode(u, ch)
  \/ \E l \in Links :
       \/ RecvSJoin(l) \/ RecvJoin(l) \/ RecvPart(l) \/ RecvKick(l)
       \/ RecvTMode(l) \/ RecvBMask(l) \/ RecvUid(l) \/ RecvSquit(l)
       \/ Break(l) \/ RecvClose(l) \/ Connect(l) \/ RecvServer(l)

Spec == Init /\ [][Next]_vars

-----------------------------------------------------------------------------
Quiet == \A l \in Links : q[l] = << >> /\ conn[l] # "wait"
Same == \A l \in Links : conn[l] = "up" => chan[l[1]] = chan[l[2]]

\* A server has in the channel no user it has not been told of, or has been told
\* is gone with a link: a dangling member would outlive its client (client.c 598).
\* And it counts no one as an op who is not in the channel.
KnownMembers == \A s \in Servers : /\ chan[s].mem \subseteq known[s]
                                   /\ chan[s].ops \subseteq chan[s].mem

\* While a channel lasts at a server its TS never rises: ops earned under a
\* younger description are never taken for ops of the older channel
\* (m_sjoin.c 179-194, m_join.c 155-165).
TSNeverRises ==
  [][\A s \in Servers :
       Exists(s) /\ chan'[s].mem # {} => chan'[s].ts <= chan[s].ts]_vars

\* A server whose channel turns out to be the younger one takes all its ops
\* away: the ops it has then came with the older description.
LoserDeopped ==
  [][\A s \in Servers :
       Exists(s) /\ chan'[s].mem # {} /\ chan'[s].ts < chan[s].ts
         => chan'[s].ops \cap chan[s].ops = {}]_vars

\* Once every message is handled, linked servers have the same channel: same TS,
\* members, ops, modes, key and bans, after any splits and rejoins and any JOINs
\* and channel creations that met on the way, provided no MODE, KICK, PART or
\* split crossed another event.
Convergence == Quiet /\ ~crossed => Same

\* ts3.txt 316-321: "Even when SJOINs and MODEs for the same channel are being
\* propagated in different direction because of several splits rejoining, the
\* final state will be the same".
FinalStateSame == Quiet /\ splits > 0 => Same
=============================================================================

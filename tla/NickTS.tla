------------------------------- MODULE NickTS -------------------------------
(***************************************************************************)
(* Nicknames as every server of the IRC network keeps them, and the nick    *)
(* timestamps that decide who keeps a nick two users took at once: NICK and *)
(* QUIT by clients, KILL by an oper, UID, NICK, KILL, QUIT and SQUIT        *)
(* between servers, a link that breaks, and the burst when it is made again.*)
(*                                                                         *)
(* Links are FIFO (TCP).  A UID is never reused.  Changes of case only, nicks*)
(* that are not valid or are reserved, and the limit on nick changes are    *)
(* left out: they are refused, or change nothing another server compares.   *)
(* A nick TS is CurrentTime of the user's server, so TS 0 does not occur.   *)
(***************************************************************************)
EXTENDS Integers, Sequences, FiniteSets

CONSTANTS Servers, Users, Nicks,
          None,       \* no nick, no user
          Home,       \* the server each user is connected to
          Person,     \* Person[u]: the user@host of u
          Links,      \* ordered pairs of neighbours: the tree, both ways
          Via,        \* Via[s][t]: the neighbour of s on the way to t
          Breaks,     \* the links that may break
          MaxTS,      \* bound on the clock
          MaxMoves,   \* bound on client commands
          MaxSplits   \* bound on broken links

ASSUME NickTree ==
  /\ None \notin Nicks \cup Users
  /\ Home \in [Users -> Servers]
  /\ Via \in [Servers -> [Servers -> Servers]]
  /\ Links \subseteq Servers \X Servers
  /\ Breaks \subseteq Links
  /\ \A l \in Links : l[1] # l[2] /\ <<l[2], l[1]>> \in Links
  /\ \A s \in Servers : Via[s][s] = s
  /\ \A l \in Links, t \in Servers : Via[l[1]][t] # l[2] <=> Via[l[2]][t] = l[1]
ASSUME NickBounds == /\ IsFiniteSet(Users) /\ MaxTS \in Nat \ {0}
                     /\ MaxMoves \in Nat /\ MaxSplits \in Nat

VARIABLES clock,      \* CurrentTime, kept in step on all servers
          phase,      \* phase[u]: what its own server has made of user u
          client,     \* client[s][u]: nick and TS of u in the hash of server s
          conn,       \* conn[<<s, t>>]: what s thinks of its link to t
          q,          \* q[<<s, t>>]: sent by s, not yet handled by t
          moves, splits,
          claims,     \* history: every nick a registered user took, and when
          killed,     \* history: the users their own server exited by a KILL
          opered,     \* history: the users an oper killed
          crossed     \* history: a KILL crossed the UID of its target, or met a
                      \* server that no longer knew its sender

vars == <<clock, phase, client, conn, q, moves, splits, claims, killed, opered, crossed>>
history == <<claims, killed, opered>>
counters == <<clock, moves, splits>>

Entry == [nick : Nicks, ts : 1..MaxTS]
Absent == [nick |-> None, ts |-> 0]
Claim == [user : Users, nick : Nicks, ts : 1..MaxTS]

Message == [type : {"SERVER", "CLOSE"}]
           \cup [type : {"UID", "NICK"}, user : Users, nick : Nicks, ts : 1..MaxTS]
           \cup [type : {"QUIT"}, user : Users]
           \cup [type : {"KILL"}, user : Users, by : Users \cup {None}]
           \cup [type : {"SQUIT"}, servers : SUBSET Servers]

TypeOK ==
  /\ clock \in 1..MaxTS
  /\ phase \in [Users -> {"new", "unreg", "reg", "gone"}]
  /\ client \in [Servers -> [Users -> Entry \cup {Absent}]]
  /\ conn \in [Links -> {"up", "wait", "down"}]
  /\ q \in [Links -> Seq(Message)]
  /\ moves \in 0..MaxMoves /\ splits \in 0..MaxSplits
  /\ claims \subseteq Claim
  /\ killed \subseteq Users /\ opered \subseteq Users /\ crossed \in BOOLEAN

\* The network is linked and no user is connected.
Init ==
  /\ clock = 1
  /\ phase = [u \in Users |-> "new"]
  /\ client = [s \in Servers |-> [u \in Users |-> Absent]]
  /\ conn = [l \in Links |-> "up"]
  /\ q = [l \in Links |-> << >>]
  /\ moves = 0 /\ splits = 0
  /\ claims = {} /\ killed = {} /\ opered = {} /\ crossed = FALSE

-----------------------------------------------------------------------------
(* The client hash *)

Holds(s, u) == client[s][u] # Absent
Holders(s, n) == {u \in Users : client[s][u].nick = n}

\* Clients server s has in the ID hash: its own only once they are registered.
Known(s, u) == Holds(s, u) /\ (Home[u] = s => phase[u] = "reg")
Taken(s, n) == {u \in Holders(s, n) : Known(s, u)}

\* Server s takes the clients of dead out of its hash and has u there as e.
Rehashed(s, dead, u, e) ==
  [client EXCEPT ![s] = [v \in Users |-> IF v \in dead THEN Absent
                                         ELSE IF v = u THEN e ELSE @[v]]]

\* Faulty variant: the name is cleared, the TS is not.
RemovedName(s, dead) ==
  [client EXCEPT ![s] = [v \in Users |-> IF v \in dead THEN [@[v] EXCEPT !.nick = None]
                                         ELSE @[v]]]

Removed(s, dead) ==
  [client EXCEPT ![s] = [v \in Users |-> IF v \in dead THEN Absent ELSE @[v]]]

\* exit_client for those of dead that are connected to s.
Exited(s, dead) == [u \in Users |-> IF u \in dead /\ Home[u] = s THEN "gone"
                                    ELSE phase[u]]

-----------------------------------------------------------------------------
(* Sending and receiving *)

Open(l) == conn[l] = "up" /\ conn[<<l[2], l[1]>>] # "down"

\* Server s sends back to its neighbour one, and fwd to the other neighbours.
Sent(queues, s, one, back, fwd) ==
  [l \in Links |-> IF l[1] # s \/ ~Open(l) THEN queues[l]
                   ELSE queues[l] \o (IF l[2] = one THEN back ELSE fwd)]

ToAll(s, msgs) == Sent(q, s, s, << >>, msgs)
Popped(l) == [q EXCEPT ![l] = Tail(@)]

Received(l, type) ==
  /\ conn[<<l[2], l[1]>>] = "up" /\ q[l] # << >> /\ Head(q[l]).type = type

Reply(l, back, fwd) == q' = Sent(Popped(l), l[2], l[1], back, fwd)

\* A KILL is sent by a server, or by an oper and then under the oper's ID.
Kill(u) == [type |-> "KILL", user |-> u, by |-> None]
KillBy(o, u) == [type |-> "KILL", user |-> u, by |-> o]
IsKill(m, u) == m.type = "KILL" /\ m.user = u
Claimed(type, u, e) == [type |-> type, user |-> u, nick |-> e.nick, ts |-> e.ts]

-----------------------------------------------------------------------------
(* Clients *)

Move == moves < MaxMoves /\ moves' = moves + 1

\* mr_nick, set_initial_nick: before it is registered a client already holds
\* its nick in the hash of its own server, since the time it asked for it.
FirstNick(u, n) ==
  LET s == Home[u] IN
  /\ Move
  /\ phase[u] \in {"new", "unreg"}
  /\ Holders(s, n) = {}
  /\ phase' = [phase EXCEPT ![u] = "unreg"]
  /\ client' = Rehashed(s, {}, u, [nick |-> n, ts |-> clock])
  /\ UNCHANGED <<clock, splits, conn, q, history>>

\* register_local_user: the nick goes out with the TS it was taken with.
Register(u) ==
  /\ phase[u] = "unreg"
  /\ phase' = [phase EXCEPT ![u] = "reg"]
  /\ q' = ToAll(Home[u], <<Claimed("UID", u, client[Home[u]][u])>>)
  /\ claims' = claims \cup {[user |-> u, nick |-> client[Home[u]][u].nick,
                             ts |-> client[Home[u]][u].ts]}
  /\ UNCHANGED <<counters, client, conn, killed, opered>>

\* m_nick, change_local_nick: a nick in use is refused, one that is held by a
\* client that is not registered is taken from it.
ChangeNick(u, n) ==
  LET s == Home[u] IN
  LET e == [nick |-> n, ts |-> clock] IN
  /\ Move
  /\ phase[u] = "reg" /\ client[s][u].nick # n
  /\ Taken(s, n) = {}
  /\ phase' = Exited(s, Holders(s, n))
  /\ client' = Rehashed(s, Holders(s, n), u, e)
  /\ q' = ToAll(s, <<Claimed("NICK", u, e)>>)
  /\ claims' = claims \cup {[user |-> u, nick |-> n, ts |-> clock]}
  /\ UNCHANGED <<clock, splits, conn, killed, opered>>

\* exit_client of a local user: nobody was told of one that is not registered.
Quit(u) ==
  LET s == Home[u] IN
  /\ Move
  /\ phase[u] \in {"unreg", "reg"}
  /\ phase' = Exited(s, {u})
  /\ client' = Removed(s, {u})
  /\ q' = ToAll(s, IF phase[u] = "reg" THEN <<[type |-> "QUIT", user |-> u]>> ELSE << >>)
  /\ UNCHANGED <<clock, splits, conn, history>>

\* mo_kill of a user of another server; a KILL of a local one is a QUIT.
OperKill(o, u) ==
  LET s == Home[o] IN
  /\ Move
  /\ phase[o] = "reg"
  /\ Home[u] # s /\ Known(s, u)
  /\ client' = Removed(s, {u})
  /\ q' = ToAll(s, <<KillBy(o, u)>>)
  /\ opered' = opered \cup {u}
  /\ UNCHANGED <<clock, splits, phase, conn, claims, killed>>

Tick == /\ clock < MaxTS /\ clock' = clock + 1
        /\ UNCHANGED <<moves, splits, phase, client, conn, q, history>>

-----------------------------------------------------------------------------
(* Collisions *)

\* Faulty variant: the rule for one user is applied to all.
LosersSame(u, new, v, old) ==
  IF new = old THEN {u, v} ELSE IF new < old THEN {u} ELSE {v}

\* perform_uid_introduction_collides, perform_nick_change_collides: who is
\* killed when u comes with the TS new and v holds the nick with the TS old.
\* Of two users the older keeps the nick; of two clients of one user the newer.
Losers(u, new, v, old) ==
  IF new = old THEN {u, v}
  ELSE IF (Person[u] = Person[v]) = (new < old) THEN {u} ELSE {v}

Kills(u, v, dead) == (IF u \in dead THEN <<Kill(u)>> ELSE << >>)
                     \o (IF v \in dead THEN <<Kill(v)>> ELSE << >>)

\* Faulty variant: an unregistered holder of the nick is left where it is.
AcceptOver(l, m) ==
  LET s == l[2] IN
  /\ phase' = phase
  /\ client' = Rehashed(s, {}, m.user, [nick |-> m.nick, ts |-> m.ts])
  /\ Reply(l, << >>, <<m>>)
  /\ killed' = killed

\* The nick is free at l[2], or held by a client that is not registered: it is
\* "overridden by other sign on".
Accept(l, m) ==
  LET s == l[2] IN
  /\ phase' = Exited(s, Holders(s, m.nick))
  /\ client' = Rehashed(s, Holders(s, m.nick), m.user, [nick |-> m.nick, ts |-> m.ts])
  /\ Reply(l, << >>, <<m>>)
  /\ killed' = killed

\* Faulty variant: the KILL of the holder is not sent back as well.
CollideForward(l, m, v) ==
  LET s == l[2] IN
  LET dead == Losers(m.user, m.ts, v, client[s][v].ts) IN
  LET told == IF m.type = "UID" THEN dead \ {m.user} ELSE dead IN
  /\ phase' = Exited(s, dead)
  /\ client' = IF m.user \in dead THEN Removed(s, dead)
               ELSE Rehashed(s, dead, m.user, [nick |-> m.nick, ts |-> m.ts])
  /\ Reply(l, Kills(m.user, v, dead \ {v}),
              Kills(m.user, v, told) \o (IF m.user \in dead THEN << >> ELSE <<m>>))
  /\ killed' = killed \cup {u \in dead : Home[u] = s}

\* The nick is held by v.  KILLs of the users known beyond l[2] go everywhere;
\* a user that is introduced and loses is known only on the side it came from.
Collide(l, m, v) ==
  LET s == l[2] IN
  LET dead == Losers(m.user, m.ts, v, client[s][v].ts) IN
  LET told == IF m.type = "UID" THEN dead \ {m.user} ELSE dead IN
  /\ phase' = Exited(s, dead)
  /\ client' = IF m.user \in dead THEN Removed(s, dead)
               ELSE Rehashed(s, dead, m.user, [nick |-> m.nick, ts |-> m.ts])
  /\ Reply(l, Kills(m.user, v, dead),
              Kills(m.user, v, told) \o (IF m.user \in dead THEN << >> ELSE <<m>>))
  /\ killed' = killed \cup {u \in dead : Home[u] = s}

Compare(l, m) ==
  \/ Taken(l[2], m.nick) = {} /\ Accept(l, m)
  \/ \E v \in Taken(l[2], m.nick) : Collide(l, m, v)

-----------------------------------------------------------------------------
(* Servers *)

\* Server l[2] exits the users dead and answers.
Remove(l, dead, back, fwd) ==
  /\ phase' = Exited(l[2], dead)
  /\ client' = Removed(l[2], dead)
  /\ killed' = killed \cup {u \in dead : Home[u] = l[2]}
  /\ Reply(l, back, fwd)

\* ms_uid: an ID that is known already is killed on both sides.
RecvUid(l) ==
  LET m == Head(q[l]) IN
  /\ Received(l, "UID")
  /\ IF Known(l[2], m.user)
       THEN Remove(l, {m.user}, <<Kill(m.user)>>, <<Kill(m.user)>>)
       ELSE Compare(l, m)
  /\ UNCHANGED <<counters, conn, claims, opered>>

\* ms_nick; a message of a user l[2] does not know is answered with a KILL
\* (parse_remove_unknown).
RecvNick(l) ==
  LET m == Head(q[l]) IN
  /\ Received(l, "NICK")
  /\ IF Known(l[2], m.user) THEN Compare(l, m)
     ELSE Remove(l, {}, <<Kill(m.user)>>, << >>)
  /\ UNCHANGED <<counters, conn, claims, opered>>

\* ms_quit
RecvQuit(l) ==
  LET m == Head(q[l]) IN
  /\ Received(l, "QUIT")
  /\ IF Known(l[2], m.user) THEN Remove(l, {m.user}, << >>, <<m>>)
     ELSE Remove(l, {}, <<Kill(m.user)>>, << >>)
  /\ UNCHANGED <<counters, conn, claims, opered>>

\* The KILL m comes from an oper that server s does not know.
Stranger(s, m) == m.by # None /\ ~Known(s, m.by)

\* Faulty variant: the KILL of a user that is gone is sent back.
RecvKillBounce(l) ==
  LET m == Head(q[l]) IN
  /\ Received(l, "KILL")
  /\ \/ Stranger(l[2], m) /\ Remove(l, {}, <<Kill(m.by)>>, << >>)
     \/ ~Stranger(l[2], m) /\ Known(l[2], m.user) /\ Remove(l, {m.user}, << >>, <<m>>)
     \/ ~Stranger(l[2], m) /\ ~Known(l[2], m.user) /\ Remove(l, {}, <<m>>, << >>)
  /\ UNCHANGED <<counters, conn, claims, opered>>

\* ms_kill passes the KILL on in the name of its sender.  One whose sender l[2]
\* does not know is dropped and the sender killed (parse_remove_unknown).
RecvKill(l) ==
  LET m == Head(q[l]) IN
  /\ Received(l, "KILL")
  /\ \/ Stranger(l[2], m) /\ Remove(l, {}, <<Kill(m.by)>>, << >>)
     \/ ~Stranger(l[2], m) /\ Known(l[2], m.user) /\ Remove(l, {m.user}, << >>, <<m>>)
     \/ ~Stranger(l[2], m) /\ ~Known(l[2], m.user) /\ Remove(l, {}, << >>, << >>)
  /\ UNCHANGED <<counters, conn, claims, opered>>

-----------------------------------------------------------------------------
(* Links *)

Behind(s, t) == {v \in Servers : v # s /\ Via[s][v] = t}
UsersOn(servers) == {u \in Users : Home[u] \in servers}

\* Server s loses the servers gone with all their users, and tells the others.
Lose(s, gone, queues, one) ==
  /\ client' = Removed(s, UsersOn(gone))
  /\ q' = Sent(queues, s, one, << >>, <<[type |-> "SQUIT", servers |-> gone]>>)

\* m_squit, exit_client, recurse_remove_clients
RecvSquit(l) ==
  /\ Received(l, "SQUIT")
  /\ Lose(l[2], Head(q[l]).servers, Popped(l), l[1])
  /\ UNCHANGED <<counters, phase, conn, history>>

\* Server l[1] drops the link.  The other end reads what it was sent before
\* it meets the end of the stream.
Break(l) ==
  LET rev == <<l[2], l[1]>> IN
  /\ l \in Breaks /\ splits < MaxSplits /\ Open(l)
  /\ splits' = splits + 1
  /\ conn' = [conn EXCEPT ![l] = "down"]
  /\ Lose(l[1], Behind(l[1], l[2]),
          [q EXCEPT ![rev] = << >>, ![l] = Append(@, [type |-> "CLOSE"])], l[2])
  /\ UNCHANGED <<clock, moves, phase, history>>

RecvClose(l) ==
  LET s == l[2] IN
  /\ Received(l, "CLOSE")
  /\ conn' = [conn EXCEPT ![<<s, l[1]>>] = "down"]
  /\ Lose(s, Behind(s, l[1]), Popped(l), l[1])
  /\ UNCHANGED <<counters, phase, history>>

\* burst_all: every client that is registered, in the order of the lists.
Orders(users) ==
  {f \in [1..Cardinality(users) -> users] : \A i, j \in DOMAIN f : f[i] = f[j] => i = j}
Burst(s, order) == [i \in DOMAIN order |-> Claimed("UID", order[i], client[s][order[i]])]
Registered(s) == {u \in Users : Known(s, u)}

\* server_estab at the end that is connected to, and then, when it has read the
\* other's SERVER, at the end that connects.
Connect(l) ==
  LET rev == <<l[2], l[1]>> IN
  /\ conn[l] = "down" /\ conn[rev] = "down" /\ q[l] = << >> /\ q[rev] = << >>
  /\ conn' = [conn EXCEPT ![l] = "up", ![rev] = "wait"]
  /\ \E order \in Orders(Registered(l[1])) :
       q' = [q EXCEPT ![l] = <<[type |-> "SERVER"]>> \o Burst(l[1], order)]
  /\ UNCHANGED <<counters, phase, client, history>>

RecvServer(l) ==
  LET rev == <<l[2], l[1]>> IN
  /\ conn[rev] = "wait" /\ q[l] # << >> /\ Head(q[l]).type = "SERVER"
  /\ conn' = [conn EXCEPT ![rev] = "up"]
  /\ \E order \in Orders(Registered(l[2])) :
       q' = [q EXCEPT ![l] = Tail(@),
                      ![rev] = IF conn[l] = "down" THEN @ ELSE @ \o Burst(l[2], order)]
  /\ UNCHANGED <<counters, phase, client, history>>

-----------------------------------------------------------------------------
Deliver(l) ==
  \/ RecvUid(l) \/ RecvNick(l) \/ RecvQuit(l) \/ RecvKill(l)
  \/ RecvSquit(l) \/ RecvClose(l) \/ RecvServer(l)

\* A KILL and the UID of its target run towards each other on a link.
Meeting ==
  \E l \in Links, u \in Users :
    /\ \E i \in DOMAIN q[l] : IsKill(q[l][i], u)
    /\ LET rev == <<l[2], l[1]>> IN
       \E i \in DOMAIN q[rev] : q[rev][i].type = "UID" /\ q[rev][i].user = u

\* The next message on a link is a KILL by an oper who is unknown at its end.
Orphaned ==
  \E l \in Links : /\ q[l] # << >> /\ Head(q[l]).type = "KILL"
                   /\ Stranger(l[2], Head(q[l]))

Crossing == Meeting \/ Orphaned

Step ==
  \/ \E u \in Users :
       \/ \E n \in Nicks : FirstNick(u, n) \/ ChangeNick(u, n)
       \/ Register(u) \/ Quit(u)
       \/ \E o \in Users : OperKill(o, u)
  \/ \E l \in Links : Deliver(l) \/ Break(l) \/ Connect(l)
  \/ Tick

Next == Step /\ crossed' = (crossed \/ Crossing')

\* Servers read what they are sent.  Nobody has to connect, register or leave.
Fairness == \A l \in Links : WF_vars(Deliver(l) /\ crossed' = (crossed \/ Crossing'))

Spec == Init /\ [][Next]_vars
FairSpec == Spec /\ Fairness

-----------------------------------------------------------------------------
Quiet == \A l \in Links : q[l] = << >> /\ conn[l] # "wait"
Seen(s, u) == IF Known(s, u) THEN client[s][u] ELSE Absent
SameClients ==
  \A l \in Links : conn[l] = "up" => \A u \in Users : Seen(l[1], u) = Seen(l[2], u)

\* No server has two clients of one nick in its hash, registered or not: a
\* command aimed at a nick would reach one of them and miss the other
\* (m_nick.c 155-176, 560-600, 690-720, 786-797).
NickUnique == \A s \in Servers, u, v \in Users :
  u # v /\ Holds(s, u) /\ Holds(s, v) => client[s][u].nick # client[s][v].nick

\* Once every message is handled, linked servers agree on who is there, under
\* which nick and since when, whatever nicks were taken, users killed and links
\* broken and made again on the way, unless a KILL was still on its way when the
\* link behind which its target was had been made again, or the KILL of an oper
\* came to a server where the oper had been killed before.
NickAgreement == Quiet /\ ~crossed => SameClients

\* rfc2813.txt 113-114: every server "maintains a "global state database" about
\* the whole IRC network.  This database is, in theory, identical on all servers."
DatabaseIdentical == Quiet => SameClients

\* A claim that kills the claim d of another user to the same nick: no younger
\* than it, or of the same user@host and no older.
Beats(c, d) == /\ c.user # d.user /\ c.nick = d.nick
               /\ IF Person[c.user] = Person[d.user] THEN c.ts >= d.ts ELSE c.ts <= d.ts

\* Nobody loses a nick to a younger claim of somebody else: a user killed by the
\* servers once claimed a nick that another user has a better claim to.
KillsJustified == \A u \in killed \ opered :
  \E c, d \in claims : d.user = u /\ Beats(c, d)

\* The servers always come to an end of it: KILLs sent back for users that are
\* gone do not set off others for ever (parse.c 124-130).
Settles == <>[]Quiet
=============================================================================

------------------------------ MODULE Delivery ------------------------------
(***************************************************************************)
(* Messages on their way to users: PRIVMSG and NOTICE to a channel, to its  *)
(* operators or voiced, to a user, to all users of a mask; WALLOPS,         *)
(* GLOBOPS, LOCOPS.  Each server forwards by its own view of the members,   *)
(* the modes and who is deaf, while JOIN, PART and MODE are under way.      *)
(*                                                                         *)
(* One channel; a tree of FIFO links that hold.  Numerics to the sender,    *)
(* notices to operators and RPL_UMODEGMSG to users with +g are left out; no *)
(* class has can_flood.  +R, +g, +G, who is registered and the accept lists *)
(* do not change.                                                          *)
(***************************************************************************)
EXTENDS Integers, Sequences, FiniteSets

CONSTANTS Servers, Links, Ways,
          Users, Home,
          Starts,      \* flags of the first members: a set of functions
          Operators,   \* with +w and +l
          Kinds,       \* what is sent
          CallerId,    \* users with +g; those with +G are in Soft
          Soft,
          Accepts,     \* <<t, u>>: t has u on the accept list
          Bypass,      \* opers_bypass_callerid
          RegOnly,     \* users with +R
          Registered,  \* users with +r
          Cluster,     \* servers that know CAP_CLUSTER and share LOCOPS
          FloodCount,  \* 0 turns flood protection off
          MaxSays, MaxMoves  \* bounds on messages and on changes

Nobody == "none"
Flags == {"plain", "voice", "op"}
Ids == 1..MaxSays

\* Links lead both ways; Ways[s][t] is the neighbour of s on the way to t.  Of two ends
\* of a link each other server is on one side.
ASSUME DeliveryTree ==
  /\ Servers \cap Users = {}
  /\ Home \in [Users -> Servers] /\ Ways \in [Servers -> [Servers -> Servers]]
  /\ Links \subseteq Servers \X Servers
  /\ \A l \in Links : l[1] # l[2] /\ <<l[2], l[1]>> \in Links
  /\ \A s, t \in Servers : IF s = t THEN Ways[s][t] = s ELSE <<s, Ways[s][t]>> \in Links
  /\ \A l \in Links, t \in Servers : Ways[l[1]][t] # l[2] <=> Ways[l[2]][t] = l[1]
ASSUME DeliveryBounds ==
  /\ Starts \subseteq [Users -> Flags \cup {Nobody}]
  /\ Kinds \subseteq {"chan", "voiced", "ops", "user", "all", "wallops", "locops"}
  /\ FloodCount \in Nat /\ MaxSays \in Nat /\ MaxMoves \in Nat

VARIABLES mem,      \* mem[s][u]: flags of u on the channel, known by s
          deaf,     \* deaf[s]: users with +D, known by s
          moderated,  \* servers that have seen +m
          count, noticed,  \* flood counter and FLAGS_FLOOD_NOTICED of the channel at
                       \* each server, and of each user at his own
          q,
          says, moves,
          heard,    \* history: heard[u][id], how often
          sent,     \* history: all that was said
          lost,     \* history: messages that a server took for a flood
          moved     \* history: users that changed, or that had MODE +m change for them

deliveryVars == <<mem, deaf, moderated, count, noticed, q, says, moves, heard, sent, lost, moved>>

DeliveryTypeOK ==
  /\ mem \in [Servers -> [Users -> Flags \cup {Nobody}]]
  /\ deaf \in [Servers -> SUBSET Users] /\ moderated \subseteq Servers
  /\ count \in [Servers \cup Users -> 0..(FloodCount + 2)] /\ noticed \subseteq Servers \cup Users
  /\ says \in 0..MaxSays /\ moves \in 0..MaxMoves
  /\ heard \in [Users -> [Ids -> Nat]] /\ moved \subseteq Users

DeliveryInit ==
  /\ \E f \in Starts : mem = [s \in Servers |-> f]
  /\ deaf = [s \in Servers |-> {}] /\ moderated = {}
  /\ count = [x \in Servers \cup Users |-> 0] /\ noticed = {}
  /\ q = [l \in Links |-> << >>] /\ says = 0 /\ moves = 0
  /\ heard = [u \in Users |-> [i \in Ids |-> 0]] /\ sent = {} /\ lost = {} /\ moved = {}

-----------------------------------------------------------------------------
(* Directions *)

Neighbours(s) == {t \in Servers : <<s, t>> \in Links}
Local(s) == {u \in Users : Home[u] = s}

\* The neighbour a user is behind; s for a local one
From(s, u) == IF Home[u] = s THEN s ELSE Ways[s][Home[u]]

\* Copies of m for each neighbour
Send(q0, s, copies, m) ==
  [l \in Links |-> IF l[1] = s THEN q0[l] \o [k \in 1..copies[l[2]] |-> m] ELSE q0[l]]
Took(in) == IF in = << >> THEN q ELSE [q EXCEPT ![in] = Tail(@)]
Once(s, ts) == [t \in Neighbours(s) |-> IF t \in ts THEN 1 ELSE 0]
Flooded(s, u) == Once(s, Neighbours(s) \ {From(s, u)})

Hear(us, m) == [u \in Users |-> [i \in Ids |->
                 heard[u][i] + (IF u \in us /\ i = m.id THEN 1 ELSE 0)]]

Msg(id, u, kind, to) == [type |-> "msg", id |-> id, user |-> u, kind |-> kind, to |-> to]

-----------------------------------------------------------------------------
(* Floods *)

\* flood_attack_channel, flood_attack_client: x is the channel at server x, or user x.
Flood(x) == FloodCount > 0 /\ (count[x] >= FloodCount \/ x \in noticed)
Counted(x) == IF FloodCount = 0 \/ x \in noticed THEN count[x]
              ELSE IF Flood(x) THEN count[x] + 2 ELSE count[x] + 1

\* What they do to x if they are called
Tally(x, called) ==
  /\ count' = IF called THEN [count EXCEPT ![x] = Counted(x)] ELSE count
  /\ noticed' = IF called /\ Flood(x) THEN noticed \cup {x} ELSE noticed

-----------------------------------------------------------------------------
(* Channels *)

Rights == [chan |-> Flags, voiced |-> {"voice", "op"}, ops |-> {"op"}]

\* can_send: "opv" is not counted by the flood protection.
CanSend(s, u) ==
  IF mem[s][u] \in {"op", "voice"} THEN "opv"
  ELSE IF mem[s][u] = Nobody \/ s \in moderated THEN "no" ELSE "yes"

\* sendto_channel_butone: members that are to hear, none in the direction of the sender
Hearers(s, m) ==
  {v \in Users : /\ mem[s][v] \in Rights[m.kind] /\ v \notin deaf[s]
                 /\ IF Home[m.user] = s THEN v # m.user ELSE From(s, v) # From(s, m.user)}

\* Faulty variant: current_serial is not looked at.
CopyEach(s, m) ==
  [t \in Neighbours(s) |-> Cardinality({v \in Hearers(s, m) \ Local(s) : From(s, v) = t})]

\* One copy for each direction (current_serial)
Copies(s, m) == Once(s, {From(s, v) : v \in Hearers(s, m) \ Local(s)})

\* msg_channel and msg_channel_flags
Channel(s, in, m) ==
  LET can == CanSend(s, m.user)
      drop == can = "no" \/ (can = "yes" /\ Flood(s))
  IN  /\ Tally(s, can = "yes")
      /\ heard' = IF drop THEN heard ELSE Hear(Hearers(s, m) \cap Local(s), m)
      /\ q' = IF drop THEN Took(in) ELSE Send(Took(in), s, Copies(s, m), m)
      /\ lost' = IF can = "yes" /\ Flood(s) THEN lost \cup {m.id} ELSE lost

-----------------------------------------------------------------------------
(* Users, masks, operators *)

\* accept_message: on the accept list, or +G and a channel in common
Accepted(s, u, t) == \/ u = t \/ <<t, u>> \in Accepts
                     \/ t \in Soft \ CallerId /\ {mem[s][u], mem[s][t]} \cap {Nobody} = {}

\* Whether t is told what u says: t has no caller-id, or lets u through.
Listens(s, u, t) == \/ t \notin CallerId \cup Soft \/ Accepted(s, u, t)
                    \/ Bypass /\ u \in Operators

\* ERR_NONONREG: the sender's server keeps the unregistered from users with +R.
Barred(s, m) == /\ Home[m.user] = s /\ m.to \in RegOnly \ {m.user}
                /\ m.user \notin Registered \cup Operators

\* Faulty variant: the counter holds up messages from other servers and of operators too.
TellLimited(s, m) ==
  LET refused == ~Listens(s, m.user, m.to)
      limited == m.to \notin CallerId \cup Soft
      drop == limited /\ Flood(m.to)
  IN  /\ Tally(m.to, refused \/ limited)
      /\ heard' = IF refused \/ drop THEN heard ELSE Hear({m.to}, m)
      /\ lost' = IF drop THEN lost \cup {m.id} ELSE lost

\* msg_client at the server of the target.  The counter holds up messages of local
\* users; with caller-id it only counts those that are refused.
Tell(s, m) ==
  LET refused == ~Listens(s, m.user, m.to)
      limited == /\ m.to \notin CallerId \cup Soft
                 /\ Home[m.user] = s /\ m.user \notin Operators
      drop == limited /\ Flood(m.to)
  IN  /\ Tally(m.to, refused \/ limited)
      /\ heard' = IF refused \/ drop THEN heard ELSE Hear({m.to}, m)
      /\ lost' = IF drop THEN lost \cup {m.id} ELSE lost

\* msg_client; send_message_remote sends nothing back where it came from ("Fake Dir").
Client(s, in, m) ==
  \/ Barred(s, m) /\ q' = Took(in) /\ UNCHANGED <<count, noticed, heard, lost>>
  \/ ~Barred(s, m) /\ Home[m.to] = s /\ q' = Took(in) /\ Tell(s, m)
  \/ /\ ~Barred(s, m) /\ Home[m.to] # s
     /\ q' = Send(Took(in), s, Once(s, {From(s, m.to)} \ {From(s, m.user)}), m)
     /\ UNCHANGED <<count, noticed, heard, lost>>

\* us hear m, which goes on to the neighbours ts.
Forward(s, in, m, us, ts) ==
  /\ heard' = Hear(us, m) /\ q' = Send(Took(in), s, Once(s, ts), m)
  /\ UNCHANGED <<count, noticed, lost>>
Farther(s, m) == Neighbours(s) \ {From(s, m.user)}

\* handle_special with $$*, sendto_match_butone: all but the server it came from
Everyone(s, in, m) == Forward(s, in, m, Local(s), Farther(s, m))

\* WALLOPS and GLOBOPS
Wallops(s, in, m) == Forward(s, in, m, Local(s) \cap Operators, Farther(s, m))

\* LOCOPS with a cluster of *, sendto_match_servs: one copy for each direction that
\* has another server, if it is capable; heard where it is shared.
Locops(s, in, m) ==
  Forward(s, in, m, IF Home[m.user] = s \/ s \in Cluster THEN Local(s) \cap Operators ELSE {},
          Farther(s, m) \cap Cluster)

Handle(s, in, m) ==
  CASE m.kind \in DOMAIN Rights -> Channel(s, in, m)
    [] m.kind = "user" -> Client(s, in, m)
    [] m.kind = "all" -> Everyone(s, in, m)
    [] m.kind = "wallops" -> Wallops(s, in, m)
    [] m.kind = "locops" -> Locops(s, in, m)

\* m_message, mo_wallops ...: + and @ are for those who have a flag themselves.
Say(u, kind, to) ==
  /\ says < MaxSays /\ says' = says + 1
  /\ kind \in {"voiced", "ops"} => mem[Home[u]][u] \in {"voice", "op"}
  /\ kind \in {"all", "wallops", "locops"} => u \in Operators
  /\ Handle(Home[u], << >>, Msg(says + 1, u, kind, to))
  /\ sent' = sent \cup {Msg(says + 1, u, kind, to)}
  /\ UNCHANGED <<mem, deaf, moderated, moves, moved>>

First(l, type) == q[l] # << >> /\ Head(q[l]).type = type

RecvMsg(l) ==
  /\ First(l, "msg") /\ Handle(l[2], l, Head(q[l]))
  /\ UNCHANGED <<mem, deaf, moderated, says, moves, sent, moved>>

\* Two seconds go by since the last message (first_received_message_time).
Calm(x) ==
  /\ count[x] > 0
  /\ count' = [count EXCEPT ![x] = IF @ > 2 THEN @ - 2 ELSE 0]
  /\ noticed' = IF count[x] > 2 THEN noticed ELSE noticed \ {x}
  /\ UNCHANGED <<mem, deaf, moderated, q, says, moves, heard, sent, lost, moved>>

-----------------------------------------------------------------------------
(* Changes, passed on to all servers *)

Change(type, u, val) == [type |-> type, user |-> u, val |-> val]

Apply(s, m) ==
  /\ mem' = IF m.type = "MEMBER" THEN [mem EXCEPT ![s][m.user] = m.val] ELSE mem
  /\ deaf' = IF m.type = "DEAF" THEN [deaf EXCEPT ![s] = @ \cup {m.user}] ELSE deaf
  /\ moderated' = IF m.type = "+m" THEN moderated \cup {s} ELSE moderated

Move(m) ==
  LET s == Home[m.user]
  IN  /\ moves < MaxMoves /\ moves' = moves + 1
      /\ Apply(s, m) /\ q' = Send(q, s, Flooded(s, m.user), m)
      /\ moved' = IF m.type = "+m" THEN Users ELSE moved \cup {m.user}
      /\ UNCHANGED <<count, noticed, says, heard, sent, lost>>

Join(u) == mem[Home[u]][u] = Nobody /\ Move(Change("MEMBER", u, "plain"))
Part(u) == mem[Home[u]][u] # Nobody /\ Move(Change("MEMBER", u, Nobody))
Deafen(u) == u \notin deaf[Home[u]] /\ Move(Change("DEAF", u, Nobody))
Moderate(u) == /\ mem[Home[u]][u] = "op" /\ Home[u] \notin moderated
               /\ Move(Change("+m", u, Nobody))

RecvChange(l) ==
  /\ \E type \in {"MEMBER", "DEAF", "+m"} : First(l, type)
  /\ Apply(l[2], Head(q[l]))
  /\ q' = Send(Took(l), l[2], Flooded(l[2], Head(q[l]).user), Head(q[l]))
  /\ UNCHANGED <<count, noticed, says, moves, heard, sent, lost, moved>>

\* kinds: the messages that are sent
DeliveryNext(kinds) ==
  \/ \E u \in Users :
       \/ \E kind \in kinds, to \in Users : (kind # "user" => to = u) /\ Say(u, kind, to)
       \/ Join(u) \/ Part(u) \/ Deafen(u) \/ Moderate(u)
  \/ \E l \in Links : RecvMsg(l) \/ RecvChange(l)
  \/ \E x \in Servers \cup Users : Calm(x)

DeliverySpec == DeliveryInit /\ [][DeliveryNext(Kinds)]_deliveryVars

-----------------------------------------------------------------------------
(* Properties *)

\* Nobody hears a message twice, however many members are behind a link and whatever
\* the servers on the way think of the channel.
HeardOnce == \A u \in Users, i \in Ids : heard[u][i] <= 1

\* The servers on the way from s to t
Way(s, t) == {r \in Servers : r = s \/ Ways[r][s] # Ways[r][t]}

\* v was to hear m, whatever was under way: what a member said, the members with the right
\* flags; the user who was addressed, unless +R or caller-id is against it; everyone; the
\* operators, of LOCOPS those that servers with CAP_CLUSTER lead to.  What depends on the
\* channel is asked of those only for whom it did not change (the deaf and all under a
\* new +m have).
IsFor(m, v) ==
  \/ /\ m.kind \in DOMAIN Rights /\ v # m.user /\ {m.user, v} \cap moved = {}
     /\ mem[Home[m.user]][m.user] # Nobody /\ mem[Home[v]][v] \in Rights[m.kind]
  \/ /\ m.kind = "user" /\ v = m.to
     /\ ~Barred(Home[m.user], m) /\ Listens(Home[v], m.user, v)
     /\ v \in Soft => {m.user, v} \cap moved = {}
  \/ m.kind = "all"
  \/ m.kind = "wallops" /\ v \in Operators
  \/ /\ m.kind = "locops" /\ v \in Operators
     /\ Way(Home[m.user], Home[v]) \subseteq Cluster \cup {Home[m.user]}

\* Messages that the flood protection may stop: those of operators and voiced to their
\* own channel it may not, nor those to a user by an operator or from another server
\* (m_message.c 234, 395-403).
Floodable(m) ==
  \/ m.kind \in DOMAIN Rights /\ mem[Home[m.user]][m.user] \notin {"op", "voice"}
  \/ m.kind = "user" /\ Home[m.to] = Home[m.user] /\ m.user \notin Operators

\* All that was said, to a channel, a user, everyone or operators, has been heard by each
\* it was for when all is delivered, unless a server took it for a flood and might.
Reached ==
  (\A l \in Links : q[l] = << >>) =>
    \A m \in sent : ~(m.id \in lost /\ Floodable(m)) =>
      \A v \in Users : IsFor(m, v) => heard[v][m.id] = 1

\* Each message is heard once by all it was for (send.c, m_message.c).
Delivered == HeardOnce /\ Reached
=============================================================================

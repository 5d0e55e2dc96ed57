----------------------------- MODULE ServerTree -----------------------------
(***************************************************************************)
(* The tree of servers: every server's list of the others, kept by SERVER   *)
(* and SID when a link is made, SQUIT and closed connections when one goes. *)
(* Links may be made by both ends at once and in loops, and break.          *)
(*                                                                         *)
(* A connection is a pair of FIFO queues (TCP); what the peer of a closed   *)
(* end still sends is lost.  The users and channels of a burst are those of *)
(* NickTS and ChannelTS and are left out here.                              *)
(***************************************************************************)
EXTENDS Integers, Sequences, SequencesExt, FiniteSets

CONSTANTS Nodes,     \* the servers
          Networks,  \* see Allowed of MCPing: connect{} blocks and what they allow, with
                     \* bounds on connections, SQUIT commands and breaks
          MaxConns   \* the largest bound on connections

\* src of a message: the server of the prefix, or NoPrefix
NoPrefix == "none"

ASSUME TreeNodes == NoPrefix \notin Nodes
ASSUME TreeNetworks ==
  /\ MaxConns \in Nat
  /\ \A c \in Networks : /\ c.auto \in [Nodes -> SUBSET Nodes] /\ c.conns \in 0..MaxConns
                         /\ c.squits \in Nat /\ c.breaks \in Nat

VARIABLES conf,
          made,    \* made[i]: <<initiator, acceptor>> of connection i
          end,     \* end[<<i, s>>]: what s thinks of its end of i
          table,   \* table[s]: global_server_list without s, oldest first
          tq,      \* tq[<<i, s>>]: sent to s on i
          squits, breaks,
          stale    \* history: a SQUIT was obeyed that came another way

treeVars == <<conf, made, end, table, tq, squits, breaks, stale>>

Sockets == 1..MaxConns
Sides == Sockets \X Nodes

Pair(i) == IF made[i] = <<>> THEN {} ELSE {made[i][1], made[i][2]}
Other(i, s) == IF made[i][1] = s THEN made[i][2] ELSE made[i][1]

NamesIn(T) == {T[n].name : n \in DOMAIN T}
Entry(T, x) == CHOOSE r \in ToSet(T) : r.name = x
Via(T, x) == Entry(T, x).via

\* local_server_list of s
LocalServers(s) == {i \in Sockets : end[<<i, s>>] = "server"}

\* x and what is behind it: an entry comes after the one it was introduced by.
Below(T, x) ==
  LET In[n \in 0..Len(T)] ==
        IF n = 0 THEN {x}
        ELSE In[n - 1] \cup {y \in {T[n].name} : T[n].up \in In[n - 1]}
  IN  In[Len(T)]

\* What is left of T without those of xs
Without(T, xs) ==
  LET Rest[n \in 0..Len(T)] ==
        IF n = 0 THEN << >>
        ELSE IF T[n].name \in xs THEN Rest[n - 1] ELSE Append(Rest[n - 1], T[n])
  IN  Rest[Len(T)]

\* find_servconn_in_progress: the name of the connecting side is known
InProgress(s, x) == {i \in Sockets : end[<<i, s>>] = "unknown" /\ made[i] = <<s, x>>}

TreeMessage(type, src, who) == [type |-> type, src |-> src, who |-> who]

Entries == [name : Nodes, up : Nodes, via : Sockets, eob : BOOLEAN]
TreeMessages == [type : {"SERVER", "SID", "SQUIT", "EOB", "CLOSE"},
                 src : Nodes \cup {NoPrefix}, who : Nodes]

TreeTypeOK ==
  /\ conf \in Networks
  /\ made \in [Sockets -> {<<>>} \cup Nodes \X Nodes]
  /\ end \in [Sides -> {"none", "unknown", "server", "closed"}]
  /\ table \in [Nodes -> Seq(Entries)] /\ \A s \in Nodes : s \notin NamesIn(table[s])
  /\ tq \in [Sides -> Seq(TreeMessages)]
  /\ squits \in 0..conf.squits /\ breaks \in 0..conf.breaks /\ stale \in BOOLEAN

TreeInit ==
  /\ conf \in Networks
  /\ made = [i \in Sockets |-> <<>>]
  /\ end = [e \in Sides |-> "none"]
  /\ table = [s \in Nodes |-> << >>]
  /\ tq = [e \in Sides |-> << >>]
  /\ squits = 0 /\ breaks = 0 /\ stale = FALSE

-----------------------------------------------------------------------------
(* What a handler of s does: the connections it closes, the servers it      *)
(* exits, and what it sends on which connection before it closes them.      *)

NoOut == [i \in Sockets |-> << >>]
To(is, m) == [i \in Sockets |-> IF i \in is THEN <<m>> ELSE << >>]
Then(f, g) == [i \in Sockets |-> f[i] \o g[i]]

\* s is done with the first message of connection took; what out has on each one
\* is sent, the ends of shut are closed and those of up are servers.
Deliver(s, took, out, shut, up) ==
  LET mine == {i \in Sockets : s \in Pair(i)}
      Close(i) == IF i \in shut THEN <<TreeMessage("CLOSE", NoPrefix, s)>> ELSE << >>
  IN  /\ end' = [e \in Sides |-> IF e[2] = s /\ e[1] \in shut THEN "closed"
                                ELSE IF e[2] = s /\ e[1] \in up THEN "server"
                                ELSE end[e]]
      /\ tq' = [e \in Sides |->
           IF e[1] \notin mine THEN tq[e]
           ELSE IF e[2] = s
           THEN IF e[1] \in shut THEN << >> ELSE IF e[1] = took THEN Tail(tq[e]) ELSE tq[e]
           ELSE IF e[2] = Other(e[1], s) /\ end[e] # "closed"
           THEN tq[e] \o out[e[1]] \o Close(e[1]) ELSE tq[e]]

Keep(s, xs) == table' = [table EXCEPT ![s] = Without(@, xs)]

\* Faulty variant: only the one who is closed is told.
ExitOutQuiet(s, i) ==
  IF i \notin LocalServers(s) THEN NoOut ELSE To({i}, TreeMessage("SQUIT", s, s))

\* exit_client of a local connection that FLAGS_SQUIT does not mark
ExitOut(s, i) ==
  IF i \notin LocalServers(s) THEN NoOut
  ELSE Then(To({i}, TreeMessage("SQUIT", s, s)),
            To(LocalServers(s) \ {i}, TreeMessage("SQUIT", NoPrefix, Other(i, s))))
Exited(s, i) == IF i \in LocalServers(s) THEN Below(table[s], Other(i, s)) ELSE {}

\* over: the connection in progress that goes first, "Overridden"
ExitConn(s, took, i, over) ==
  /\ Deliver(s, took, ExitOut(s, i), {i} \cup over, {}) /\ Keep(s, Exited(s, i))

\* exit_client of a remote server: SQUIT for it in every direction
ExitRemote(s, took, x, over) ==
  /\ Deliver(s, took, To(LocalServers(s), TreeMessage("SQUIT", NoPrefix, x)), over, {})
  /\ Keep(s, Below(table[s], x))

-----------------------------------------------------------------------------
(* Connecting *)

\* serv_connect_callback: the handshake, with PASS and CAPAB left out
Hello(s) == TreeMessage("SERVER", NoPrefix, s)

\* serv_connect: connection i is in progress at both ends.
Dial(s, x, i) ==
  /\ made' = [made EXCEPT ![i] = <<s, x>>]
  /\ end' = [end EXCEPT ![<<i, s>>] = "unknown", ![<<i, x>>] = "unknown"]
  /\ tq' = [tq EXCEPT ![<<i, x>>] = <<Hello(s)>>]

\* try_connections and CONNECT, to a server that is not there yet
Connect(s, x) ==
  /\ x \in conf.auto[s] /\ x \notin NamesIn(table[s]) /\ InProgress(s, x) = {}
  /\ \E i \in 1..conf.conns :
       /\ made[i] = <<>> /\ \A j \in 1..i - 1 : made[j] # <<>>
       /\ Dial(s, x, i)
  /\ UNCHANGED <<conf, table, squits, breaks, stale>>

\* server_estab: SIDs of all, oldest first, the burst, and the EOBs.
Introduce(s, i, x) ==
  LET T == table[s]
      sids == [n \in DOMAIN T |-> TreeMessage("SID", T[n].up, T[n].name)]
      done == Without(T, {T[n].name : n \in {m \in DOMAIN T : ~T[m].eob}})
      eobs == <<TreeMessage("EOB", s, s)>> \o
                [n \in DOMAIN done |-> TreeMessage("EOB", done[n].name, done[n].name)]
      hello == IF made[i] = <<s, x>> THEN << >> ELSE <<Hello(s)>>
  IN  Then([j \in Sockets |-> IF j = i THEN hello \o sids \o eobs ELSE << >>],
           To(LocalServers(s), TreeMessage("SID", s, x)))

\* Faulty variant: only a server of its own is checked for.
KnownLocal(s, x) == \E i \in LocalServers(s) : Other(i, s) = x

Known(s, x) == x = s \/ x \in NamesIn(table[s])

\* mr_server: check_server, the names that exist, server_estab.
Estab(s, i, x) ==
  LET over == InProgress(s, x) \ {i}
  IN  IF x \notin conf.blocks[s] \/ Known(s, x) THEN ExitConn(s, i, i, {})
      ELSE IF s \notin conf.hubs /\ LocalServers(s) # {} THEN ExitConn(s, i, i, over)
      ELSE /\ Deliver(s, i, Introduce(s, i, x), over, {i})
           /\ table' = [table EXCEPT ![s] =
                Append(@, [name |-> x, up |-> s, via |-> i, eob |-> FALSE])]

\* The message that s handles next on connection i
NextIs(s, i, type) == tq[<<i, s>>] # << >> /\ Head(tq[<<i, s>>]).type = type

RecvServer(s, i) ==
  /\ NextIs(s, i, "SERVER")
  /\ IF end[<<i, s>>] = "unknown" THEN Estab(s, i, Head(tq[<<i, s>>]).who)
     ELSE Deliver(s, i, NoOut, {}, {}) /\ UNCHANGED table
  /\ UNCHANGED <<conf, made, squits, breaks, stale>>

-----------------------------------------------------------------------------
(* Messages of a server *)

\* parse: who the prefix is, if it is from that direction
Source(s, i, m) == IF m.src = NoPrefix THEN Other(i, s) ELSE m.src
Sourced(s, i, m) == LET x == Source(s, i, m)
                  IN  x # s /\ x \in NamesIn(table[s]) /\ Via(table[s], x) = i

\* A prefix nobody has is answered by SQUIT, one from another direction ignored.
Drop(s, i, m) ==
  /\ Deliver(s, i, IF Known(s, m.src) \/ m.type = "SQUIT" THEN NoOut
                          ELSE To({i}, TreeMessage("SQUIT", s, m.src)), {}, {})
  /\ UNCHANGED table

\* ms_sid
Sid(s, i, src, x) ==
  LET over == InProgress(s, x) \ {i}
  IN  IF Known(s, x) THEN ExitConn(s, i, i, {})
      ELSE IF <<s, Other(i, s)>> \in conf.nohub
      THEN IF src = Other(i, s) THEN ExitConn(s, i, i, over)
           ELSE ExitRemote(s, i, src, over)
      ELSE IF <<s, x>> \in conf.leafed THEN ExitConn(s, i, i, over)
      ELSE /\ Deliver(s, i, To(LocalServers(s) \ {i}, TreeMessage("SID", src, x)), over, {})
           /\ table' = [table EXCEPT ![s] =
                Append(@, [name |-> x, up |-> src, via |-> i, eob |-> FALSE])]

RecvSid(s, i) ==
  /\ NextIs(s, i, "SID") /\ end[<<i, s>>] = "server"
  /\ LET m == Head(tq[<<i, s>>])
     IN  IF Sourced(s, i, m) THEN Sid(s, i, m.src, m.who) ELSE Drop(s, i, m)
  /\ UNCHANGED <<conf, made, squits, breaks, stale>>

\* SQUIT of x, marked by FLAGS_SQUIT: those in sends are told by the handler, a
\* local x itself that we go.
Squit(s, took, src, x, sends) ==
  LET i == Via(table[s], x)
  IN  /\ IF Other(i, s) = x
         THEN Deliver(s, took, Then(To({i}, TreeMessage("SQUIT", src, s)),
                                    To(sends \ {i}, TreeMessage("SQUIT", src, x))), {i}, {})
         ELSE Deliver(s, took, To(sends, TreeMessage("SQUIT", src, x)), {}, {})
      /\ Keep(s, Below(table[s], x))

\* ms_squit: told to go ourselves, we drop the one who says so.
RecvSquit(s, i) ==
  /\ NextIs(s, i, "SQUIT") /\ end[<<i, s>>] = "server"
  /\ LET m == Head(tq[<<i, s>>])
         x == IF m.who = s THEN Other(i, s) ELSE m.who
     IN  IF ~Sourced(s, i, m) THEN Drop(s, i, m) /\ UNCHANGED stale
         ELSE IF x \notin NamesIn(table[s])
         THEN Deliver(s, i, NoOut, {}, {}) /\ UNCHANGED <<table, stale>>
         ELSE /\ Squit(s, i, Source(s, i, m), x, LocalServers(s) \ {i})
              /\ stale' = (stale \/ Via(table[s], x) # i)
  /\ UNCHANGED <<conf, made, squits, breaks>>

\* mo_squit by an operator of s
OperSquit(s, x) ==
  /\ squits < conf.squits /\ x \in NamesIn(table[s]) /\ squits' = squits + 1
  /\ Squit(s, 0, s, x, LocalServers(s))
  /\ UNCHANGED <<conf, made, breaks, stale>>

\* server_eob: x and what is behind it
Eob(T, x) == [n \in DOMAIN T |-> [T[n] EXCEPT !.eob = @ \/ T[n].name \in Below(T, x)]]

RecvEob(s, i) ==
  /\ NextIs(s, i, "EOB") /\ end[<<i, s>>] = "server"
  /\ LET m == Head(tq[<<i, s>>])
     IN  IF Sourced(s, i, m)
         THEN /\ Deliver(s, i, To(LocalServers(s) \ {i}, m), {}, {})
              /\ table' = [table EXCEPT ![s] = Eob(@, m.src)]
         ELSE Drop(s, i, m)
  /\ UNCHANGED <<conf, made, squits, breaks, stale>>

\* dead_link_on_read: the other end has closed the connection.
RecvClose(s, i) ==
  /\ NextIs(s, i, "CLOSE") /\ ExitConn(s, i, i, {})
  /\ UNCHANGED <<conf, made, squits, breaks, stale>>

\* The connection is lost with what is on it.
Break(i) ==
  /\ breaks < conf.breaks /\ breaks' = breaks + 1
  /\ made[i] # <<>> /\ \A s \in Pair(i) : end[<<i, s>>] # "closed"
  /\ tq' = [e \in Sides |-> IF e[1] = i /\ e[2] \in Pair(i)
                            THEN <<TreeMessage("CLOSE", NoPrefix, Other(i, e[2]))>>
                            ELSE tq[e]]
  /\ UNCHANGED <<conf, made, end, table, squits, stale>>

TreeNext ==
  \/ \E s, x \in Nodes : Connect(s, x) \/ OperSquit(s, x)
  \/ \E s \in Nodes, i \in Sockets :
       \/ RecvServer(s, i) \/ RecvSid(s, i) \/ RecvSquit(s, i)
       \/ RecvEob(s, i) \/ RecvClose(s, i)
  \/ \E i \in Sockets : Break(i)

TreeSpec == TreeInit /\ [][TreeNext]_treeVars

-----------------------------------------------------------------------------
(* Properties *)

\* An entry is behind an entry of the same connection, or is the peer of its own.
Rooted(s) ==
  \A n \in DOMAIN table[s] :
    LET r == table[s][n]
    IN  IF r.up = s THEN end[<<r.via, s>>] = "server" /\ Other(r.via, s) = r.name
        ELSE \E m \in 1..n - 1 : table[s][m].name = r.up /\ table[s][m].via = r.via

\* No server is known twice, and none is kept whose uplink has gone: what
\* servptr and from point to is always there (client.c 646-659, m_server.c 782).
Uplinked ==
  \A s \in Nodes :
    /\ Rooted(s)
    /\ \A m, n \in DOMAIN table[s] : table[s][m].name = table[s][n].name => m = n

Quiet == \A e \in Sides : tq[e] = << >> /\ end[e] # "unknown"

\* The servers that the links lead to
Linked(s) == {Other(i, s) : i \in LocalServers(s)}
Within(s) ==
  LET Far[n \in 0..Cardinality(Nodes)] ==
        IF n = 0 THEN {s} ELSE Far[n - 1] \cup UNION {Linked(x) : x \in Far[n - 1]}
  IN  Far[Cardinality(Nodes)]

\* When nothing is on its way, a server knows those it is linked with and no
\* others, has the EOB of each, and no two paths lead to the same one; unless a
\* SQUIT was obeyed for a server that had come back another way.
Agreement ==
  Quiet /\ ~stale =>
    \A s \in Nodes :
      /\ NamesIn(table[s]) = Within(s) \ {s}
      /\ \A r \in ToSet(table[s]) : r.eob
=============================================================================

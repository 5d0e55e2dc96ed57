----------------------------- MODULE ClientLife -----------------------------
(***************************************************************************)
(* The structures the IRC server keeps for its connections, from accept to  *)
(* free: the lists a connection is on, the two flags that say it is on its  *)
(* way out, the counters, and the deferred exit and free that io_loop does  *)
(* after the handlers of one turn.  A struct that is freed is used again    *)
(* for a later connection, as the memory pool does.                         *)
(*                                                                         *)
(* The process has one thread.  Its handlers send to many connections; a    *)
(* send that finds a full queue or a broken socket is the action Overflow,  *)
(* which may come between any two of the others until the turn ends.        *)
(* abort_list and dead_list are bags: the order they are served in does not *)
(* matter, how often a struct is on one does.                               *)
(***************************************************************************)
EXTENDS Integers, FiniteSets

CONSTANTS Conns,       \* structs for connections to this server
          Remotes,     \* structs for users of the servers connected to it
          MaxClients,  \* serverinfo::max_clients
          MaxBuffer,   \* MAX_BUFFER: room above it for exempt clients
          Hub          \* serverinfo::hub

ASSUME Structs == /\ IsFiniteSet(Conns) /\ IsFiniteSet(Remotes)
                  /\ Conns \cap Remotes = {}
                  /\ MaxClients \in Nat /\ MaxBuffer \in Nat
                  /\ Hub \in BOOLEAN

VARIABLES status,             \* "free", or what the struct is used as
          dead, closing,      \* FLAGS_DEADSOCKET, FLAGS_CLOSING
          finished,           \* FLAGS_FINISHED_AUTH
          auth_pending_list, unknown_list, local_client_list, local_server_list,
          behind,             \* behind[s]: serv->client_list of server s
          hash,               \* users that can be found by name
          local, myserver, total,   \* Count.local, Count.myserver, Count.total
          abort_list, dead_list,
          turn                \* where io_loop is

flags == <<dead, closing, finished>>
lists == <<auth_pending_list, unknown_list, local_client_list, local_server_list,
           behind, hash>>
counts == <<local, myserver, total>>
vars == <<status, flags, lists, counts, abort_list, dead_list, turn>>

All == Conns \cup Remotes

\* What IsRegistered is false of: all of them are on unknown_list.
Unregistered == {"connecting", "handshake", "unknown"}

TypeOK ==
  /\ status \in [All -> Unregistered \cup {"free", "client", "server"}]
  /\ dead \subseteq All /\ closing \subseteq Conns /\ finished \subseteq Conns
  /\ auth_pending_list \subseteq Conns /\ unknown_list \subseteq Conns
  /\ local_client_list \subseteq Conns /\ local_server_list \subseteq Conns
  /\ behind \in [Conns -> SUBSET Remotes] /\ hash \subseteq All
  /\ local \in Nat /\ myserver \in Nat /\ total \in Nat
  /\ abort_list \in [Conns -> Nat] /\ dead_list \in [All -> Nat]
  /\ turn \in {"handlers", "abort"}

Init ==
  /\ status = [x \in All |-> "free"]
  /\ dead = {} /\ closing = {} /\ finished = {}
  /\ auth_pending_list = {} /\ unknown_list = {}
  /\ local_client_list = {} /\ local_server_list = {}
  /\ behind = [c \in Conns |-> {}] /\ hash = {}
  /\ local = 0 /\ myserver = 0 /\ total = 0
  /\ abort_list = [c \in Conns |-> 0] /\ dead_list = [x \in All |-> 0]
  /\ turn = "handlers"

Defunct(c) == c \in dead \cup closing

-----------------------------------------------------------------------------
(* Leaving *)

\* exit_one_client for every struct of xs: on the dead list, dead, not found.
Buried(xs) ==
  /\ dead' = dead \cup xs
  /\ dead_list' = [x \in All |-> IF x \in xs THEN dead_list[x] + 1 ELSE dead_list[x]]
  /\ hash' = hash \ xs

\* Faulty variant: exit_client does not look whether it has been here before.
ExitConnTwice(c) ==
  LET gone == IF status[c] = "server" THEN behind[c] ELSE {} IN
  /\ closing' = closing \cup {c}
  /\ auth_pending_list' = auth_pending_list \ {c}
  /\ unknown_list' = unknown_list \ {c}
  /\ local_client_list' = IF status[c] = "client" THEN local_client_list \ {c}
                          ELSE local_client_list
  /\ local_server_list' = IF status[c] = "server" THEN local_server_list \ {c}
                          ELSE local_server_list
  /\ local' = IF status[c] = "client" THEN local - 1 ELSE local
  /\ myserver' = IF status[c] = "server" THEN myserver - 1 ELSE myserver
  /\ total' = (IF status[c] = "client" THEN total - 1 ELSE total) - Cardinality(gone)
  /\ behind' = [behind EXCEPT ![c] = {}]
  /\ Buried({c} \cup gone)

\* exit_client for a connection to this server.  It can be called twice.
ExitConn(c) ==
  LET gone == IF status[c] = "server" THEN behind[c] ELSE {} IN
  IF c \in closing
    THEN UNCHANGED <<dead, closing, lists, counts, dead_list>>
    ELSE /\ closing' = closing \cup {c}
         /\ auth_pending_list' = auth_pending_list \ {c}
         /\ unknown_list' = IF status[c] \in Unregistered THEN unknown_list \ {c}
                            ELSE unknown_list
         /\ local_client_list' = IF status[c] = "client" THEN local_client_list \ {c}
                                 ELSE local_client_list
         /\ local_server_list' = IF status[c] = "server" THEN local_server_list \ {c}
                                 ELSE local_server_list
         /\ local' = IF status[c] = "client" THEN local - 1 ELSE local
         /\ myserver' = IF status[c] = "server" THEN myserver - 1 ELSE myserver
         /\ total' = (IF status[c] = "client" THEN total - 1 ELSE total)
                     - Cardinality(gone)
         /\ behind' = [behind EXCEPT ![c] = {}]
         /\ Buried({c} \cup gone)

\* exit_client for a user of another server.
ExitRemote(r) ==
  /\ behind' = [s \in Conns |-> behind[s] \ {r}]
  /\ total' = total - 1
  /\ Buried({r})
  /\ UNCHANGED <<closing, auth_pending_list, unknown_list, local_client_list,
                 local_server_list, local, myserver>>

-----------------------------------------------------------------------------
(* Handlers *)

\* make_client: add_connection, which starts the DNS and ident queries, or
\* serv_connect, which does not.
Accept(c) ==
  /\ turn = "handlers" /\ status[c] = "free"
  /\ status' = [status EXCEPT ![c] = "unknown"]
  /\ unknown_list' = unknown_list \cup {c}
  /\ auth_pending_list' = auth_pending_list \cup {c}
  /\ UNCHANGED <<flags, local_client_list, local_server_list, behind, hash, counts,
                 abort_list, dead_list, turn>>

ServConnect(c) ==
  /\ turn = "handlers" /\ status[c] = "free"
  /\ status' = [status EXCEPT ![c] = "connecting"]
  /\ unknown_list' = unknown_list \cup {c}
  /\ UNCHANGED <<flags, auth_pending_list, local_client_list, local_server_list,
                 behind, hash, counts, abort_list, dead_list, turn>>

\* serv_connect_callback: the peer has accepted, and PASS, CAPAB and SERVER go out.
Connected(c) ==
  /\ turn = "handlers" /\ status[c] = "connecting" /\ ~Defunct(c)
  /\ status' = [status EXCEPT ![c] = "handshake"]
  /\ UNCHANGED <<flags, lists, counts, abort_list, dead_list, turn>>

\* release_auth_client: both queries have been answered or have timed out.
AuthDone(c) ==
  /\ turn = "handlers" /\ c \in auth_pending_list
  /\ auth_pending_list' = auth_pending_list \ {c}
  /\ finished' = finished \cup {c}
  /\ UNCHANGED <<status, dead, closing, unknown_list, local_client_list,
                 local_server_list, behind, hash, counts, abort_list, dead_list, turn>>

\* A NICK of an unregistered connection: it can be found, but is no client yet.
Nick(c) ==
  /\ turn = "handlers" /\ c \in unknown_list \cap finished /\ ~Defunct(c)
  /\ c \notin hash
  /\ hash' = hash \cup {c}
  /\ UNCHANGED <<status, flags, auth_pending_list, unknown_list, local_client_list,
                 local_server_list, behind, counts, abort_list, dead_list, turn>>

\* Faulty variant: the client is added to its list and left on the other.
RegisterKept(c, exempt) ==
  /\ turn = "handlers" /\ c \in unknown_list \cap finished \cap hash /\ ~Defunct(c)
  /\ status' = [status EXCEPT ![c] = "client"]
  /\ local_client_list' = local_client_list \cup {c}
  /\ local' = local + 1 /\ total' = total + 1
  /\ UNCHANGED <<flags, auth_pending_list, unknown_list, local_server_list, behind,
                 hash, myserver, abort_list, dead_list, turn>>

\* Faulty variant: the client is counted before it is turned away.
RegisterCounted(c, exempt) ==
  /\ turn = "handlers" /\ c \in unknown_list \cap finished \cap hash /\ ~Defunct(c)
  /\ status' = [status EXCEPT ![c] = "client"]
  /\ unknown_list' = unknown_list \ {c}
  /\ local_client_list' = local_client_list \cup {c}
  /\ local' = local + 1 /\ total' = total + 1
  /\ UNCHANGED <<flags, auth_pending_list, local_server_list, behind, hash,
                 myserver, abort_list, dead_list, turn>>

\* register_local_user, from m_authpong and the others: the client is turned
\* away when the server is full, else counted and moved to the client list.
Register(c, exempt) ==
  /\ turn = "handlers" /\ c \in unknown_list \cap finished \cap hash /\ ~Defunct(c)
  /\ IF local >= MaxClients + MaxBuffer \/ (local >= MaxClients /\ ~exempt)
       THEN /\ ExitConn(c)
            /\ UNCHANGED <<status, finished, abort_list, turn>>
       ELSE /\ status' = [status EXCEPT ![c] = "client"]
            /\ unknown_list' = unknown_list \ {c}
            /\ local_client_list' = local_client_list \cup {c}
            /\ local' = local + 1 /\ total' = total + 1
            /\ UNCHANGED <<flags, auth_pending_list, local_server_list, behind, hash,
                           myserver, abort_list, dead_list, turn>>

\* server_estab: a leaf refuses a second server.  (A connection that has sent a
\* NICK is not taken for a server here.)
ServerEstab(c) ==
  /\ turn = "handlers" /\ c \in unknown_list \ hash /\ ~Defunct(c)
  /\ status[c] = "handshake" \/ c \in finished
  /\ IF ~Hub /\ local_server_list # {}
       THEN /\ ExitConn(c)
            /\ UNCHANGED <<status, finished, abort_list, turn>>
       ELSE /\ status' = [status EXCEPT ![c] = "server"]
            /\ unknown_list' = unknown_list \ {c}
            /\ local_server_list' = local_server_list \cup {c}
            /\ myserver' = myserver + 1
            /\ hash' = hash \cup {c}
            /\ UNCHANGED <<flags, auth_pending_list, local_client_list, behind, local,
                           total, abort_list, dead_list, turn>>

\* register_remote_user: server c introduces user r.
Introduce(c, r) ==
  /\ turn = "handlers" /\ c \in local_server_list /\ ~Defunct(c)
  /\ status[r] = "free"
  /\ status' = [status EXCEPT ![r] = "client"]
  /\ behind' = [behind EXCEPT ![c] = @ \cup {r}]
  /\ hash' = hash \cup {r}
  /\ total' = total + 1
  /\ UNCHANGED <<flags, auth_pending_list, unknown_list, local_client_list,
                 local_server_list, local, myserver, abort_list, dead_list, turn>>

\* A KILL, a SQUIT or a nick collision by someone else, the QUIT of a remote user:
\* x is found by name, so it may be marked dead already, but has not been exited.
Removed(x) ==
  /\ turn = "handlers" /\ x \in hash
  /\ IF x \in Conns THEN ExitConn(x) ELSE ExitRemote(x)
  /\ UNCHANGED <<status, finished, abort_list, turn>>

\* Its own QUIT, a read error, an excess flood, a line that is refused: the
\* handlers of a connection stop at once when it is defunct.
Quit(c) ==
  /\ turn = "handlers" /\ status[c] # "free" /\ ~Defunct(c)
  /\ ExitConn(c)
  /\ UNCHANGED <<status, finished, abort_list, turn>>

\* check_pings_list, and check_conf_klines for a registered client.
PingTimeout(c) ==
  /\ turn = "handlers" /\ c \in local_client_list \cup local_server_list
  /\ c \notin dead
  /\ ExitConn(c)
  /\ UNCHANGED <<status, finished, abort_list, turn>>

\* CLOSE of an operator, a D-line, or the server a connection was made to has
\* itself connected meanwhile (Overridden).
CloseUnknown(c) ==
  /\ turn = "handlers" /\ c \in unknown_list
  /\ ExitConn(c)
  /\ UNCHANGED <<status, finished, abort_list, turn>>

\* Faulty variant: only connections that have sent a NICK time out.
CheckUnknownsNamed(c) ==
  /\ turn = "handlers" /\ c \in unknown_list \cap finished \cap hash
  /\ ExitConn(c)
  /\ UNCHANGED <<status, finished, abort_list, turn>>

\* check_unknowns_list: 30 seconds after the queries are done.
CheckUnknowns(c) ==
  /\ turn = "handlers" /\ c \in unknown_list \cap finished
  /\ ExitConn(c)
  /\ UNCHANGED <<status, finished, abort_list, turn>>

\* Faulty variant: a connection that is closing goes on the abort list too.
OverflowAny(c) ==
  /\ status[c] # "free" /\ (c \notin dead \/ c \in closing)
  /\ dead' = dead \cup {c}
  /\ abort_list' = [abort_list EXCEPT ![c] = @ + 1]
  /\ UNCHANGED <<status, closing, finished, lists, counts, dead_list, turn>>

\* Faulty variant: the connection is marked dead and left where it is.
OverflowKeep(c) ==
  /\ status[c] # "free" /\ ~Defunct(c)
  /\ dead' = dead \cup {c}
  /\ UNCHANGED <<status, closing, finished, lists, counts, abort_list, dead_list, turn>>

\* dead_link_on_write.
Overflow(c) ==
  /\ status[c] # "free" /\ ~Defunct(c)
  /\ dead' = dead \cup {c}
  /\ abort_list' = [abort_list EXCEPT ![c] = @ + 1]
  /\ UNCHANGED <<status, closing, finished, lists, counts, dead_list, turn>>

\* The connect fails or takes longer than CONNECTTIMEOUT.
ConnectFailed(c) ==
  /\ turn = "handlers" /\ status[c] = "connecting"
  /\ Overflow(c)

-----------------------------------------------------------------------------
(* The end of a turn of io_loop *)

\* free_client for all of dead_list: the structs go back to their pool.
FreeDead ==
  /\ status' = [x \in All |-> IF dead_list[x] > 0 THEN "free" ELSE status[x]]
  /\ dead' = {x \in dead : dead_list[x] = 0}
  /\ closing' = {c \in closing : dead_list[c] = 0}
  /\ finished' = {c \in finished : dead_list[c] = 0}
  /\ dead_list' = [x \in All |-> 0]
  /\ UNCHANGED <<lists, counts, abort_list>>

\* Faulty variant: the dead are freed before the aborted are exited.
HandlersDoneFree ==
  /\ turn = "handlers" /\ turn' = "abort"
  /\ FreeDead

HandlersDone ==
  /\ turn = "handlers" /\ turn' = "abort"
  /\ UNCHANGED <<status, flags, lists, counts, abort_list, dead_list>>

\* exit_aborted_clients takes the nodes one by one, with those that its own
\* exits have added (eac_next).
ExitAborted(c) ==
  /\ turn = "abort" /\ abort_list[c] > 0
  /\ abort_list' = [abort_list EXCEPT ![c] = @ - 1]
  /\ ExitConn(c)
  /\ UNCHANGED <<status, finished, turn>>

FreeExited ==
  /\ turn = "abort" /\ \A c \in Conns : abort_list[c] = 0
  /\ turn' = "handlers"
  /\ FreeDead

-----------------------------------------------------------------------------
Handler(c) ==
  \/ Accept(c) \/ ServConnect(c) \/ Connected(c) \/ ConnectFailed(c)
  \/ AuthDone(c) \/ Nick(c)
  \/ \E exempt \in BOOLEAN : Register(c, exempt)
  \/ ServerEstab(c) \/ \E r \in Remotes : Introduce(c, r)
  \/ Quit(c) \/ PingTimeout(c) \/ CheckUnknowns(c) \/ CloseUnknown(c)

Next ==
  \/ \E c \in Conns : Handler(c) \/ Overflow(c) \/ ExitAborted(c)
  \/ \E x \in All : Removed(x)
  \/ HandlersDone \/ FreeExited

Spec == Init /\ [][Next]_vars

\* comm_select returns, and the events of every turn include the timeouts of the
\* connects (CONNECTTIMEOUT), of the queries and of the unregistered (30 s).
Fairness ==
  /\ WF_vars(HandlersDone) /\ WF_vars(FreeExited)
  /\ \A c \in Conns : /\ WF_vars(ExitAborted(c)) /\ SF_vars(CheckUnknowns(c))
                      /\ SF_vars(AuthDone(c)) /\ SF_vars(ConnectFailed(c))

FairSpec == Spec /\ Fairness

-----------------------------------------------------------------------------
\* A connection that has not been exited is on the one list that goes with its
\* status, and one that has is on none, as the assertions of exit_client say
\* (client.c 739, 755, 780, 853); a pending query belongs to a connection not registered.
Listed ==
  \A c \in Conns :
    /\ c \in unknown_list <=> status[c] \in Unregistered /\ c \notin closing
    /\ c \in local_client_list <=> status[c] = "client" /\ c \notin closing
    /\ c \in local_server_list <=> status[c] = "server" /\ c \notin closing
    /\ c \in auth_pending_list => c \in unknown_list

\* Count.local, Count.myserver and Count.total are what the lists hold, whichever
\* way each connection and each remote user goes.
Counted ==
  /\ local = Cardinality(local_client_list)
  /\ myserver = Cardinality(local_server_list)
  /\ total = Cardinality(local_client_list) + Cardinality(UNION {behind[s] : s \in Conns})

\* No list, and no name, leads to a struct that has been freed and may belong to
\* another connection by now.
NoDangling ==
  /\ \A x \in All : status[x] = "free" =>
       /\ dead_list[x] = 0
       /\ x \notin hash \cup unknown_list \cup local_client_list \cup local_server_list
       /\ x \notin auth_pending_list /\ \A s \in Conns : x \notin behind[s]
  /\ \A c \in Conns : status[c] = "free" => abort_list[c] = 0 /\ ~Defunct(c)

\* Nothing is freed twice or exited twice in one turn, and what is to be freed is
\* dead, and closing when it is a connection (client.c 139, 659).
FreedOnce ==
  /\ \A x \in All : dead_list[x] \in {0, 1} /\ (dead_list[x] = 1 => x \in dead \ hash)
  /\ \A c \in Conns : abort_list[c] \in {0, 1} /\ (dead_list[c] = 1 => c \in closing)

\* The lists never hold more clients than max_clients and the buffer, nor more than
\* one server at a leaf, although the checks look at counters and flags that every
\* way out has to keep.
Limits ==
  /\ Cardinality(local_client_list) <= MaxClients + MaxBuffer
  /\ ~Hub => Cardinality(local_server_list) <= 1

\* A connection that is dead, by an exit or by a write that failed in the middle of
\* someone else's handler, is freed.
Reaped == \A x \in All : x \in dead ~> status[x] = "free"

\* A connection attempt ends, and a connection that someone made to this server does
\* not stay unregistered, whether or not it ever sends a line.
NotStuck ==
  \A c \in Conns :
    /\ status[c] = "connecting" ~> status[c] # "connecting"
    /\ c \in unknown_list /\ status[c] = "unknown" ~> c \notin unknown_list

\* "Check UNKNOWN connections - if they have been in this state for > 30s, close
\* them" (client.c 260): no connection stays on unknown_list.
UnknownClosed == \A c \in Conns : c \in unknown_list ~> c \notin unknown_list
=============================================================================

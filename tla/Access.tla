------------------------------- MODULE Access -------------------------------
(***************************************************************************)
(* How a connection becomes a user of the IRC server: the DNS and ident     *)
(* queries that start with it, NICK, USER and CAP in any order, the         *)
(* AUTHPING challenge, and the auth{} block and class it is attached to;    *)
(* and what is counted for it on the way - the class, the auth{} block, the  *)
(* listener, the address - while a rehash replaces all but the counts.      *)
(*                                                                         *)
(* A struct that exits is free at once: the lists between are ClientLife's.  *)
(* An address is a number of two bits, the subnets of a class the addresses  *)
(* with the same first bit or bits.                                        *)
(***************************************************************************)
EXTENDS Integers, Sequences, FiniteSetsExt, SequencesExt

CONSTANTS Callers,     \* structs of connections
          Ips,         \* addresses, of 0..3
          Classes,     \* the names a rehash may give to a class{}, Default apart
          ConfIds,     \* structs of auth{} blocks, numbers: one more than Callers
          Settings,    \* <<max_number, number_per_cidr, cidr_bitlen>> of a class
          PerIp,       \* number_per_ip, of every class
          Throttle,    \* throttle_time
          ThrottleMax, \* throttle_count
          MaxAsked,    \* bound on unanswered challenges
          None

VARIABLES conn,       \* the connections
          queries,    \* <<c, kind>>: what the resolver and the ident sockets hold
          ipcache,    \* entries of ip_hash_table
          class,      \* class_list
          conf,       \* the auth{} blocks
          listener    \* the one listen{} port

accessVars == <<conn, queries, ipcache, class, conf, listener>>

Default == "default"
ClassNames == Classes \cup {Default}

\* There is always a struct for one more auth{} block.
AccessBounds ==
  /\ IsFiniteSet(Callers) /\ IsFiniteSet(ConfIds)
  /\ Cardinality(ConfIds) > Cardinality(Callers)
  /\ 1 \in ConfIds /\ None \notin ConfIds
  /\ Ips \subseteq 0..3 /\ Default \notin Classes
  /\ Throttle \in Nat /\ ThrottleMax \in Nat /\ MaxAsked \in Nat
ASSUME AccessConstants == AccessBounds

NoConn == [stage |-> "free", ip |-> 0, asked |-> {}, finished |-> FALSE,
           releases |-> 0, need |-> {}, pings |-> 0, authed |-> FALSE,
           iphash |-> FALSE, conf |-> None]
NoEntry == [held |-> FALSE, count |-> 0, tries |-> 0, age |-> Throttle]
NoClass == [held |-> FALSE, active |-> FALSE, refs |-> 0,
            max |-> 0, per |-> 0, bits |-> 0, cidr |-> << >>]
NoConf == [held |-> FALSE, active |-> FALSE, class |-> Default, refs |-> 0]

AccessTypeOK ==
  /\ \A c \in Callers :
       /\ conn[c].stage \in {"free", "unknown", "client"} /\ conn[c].ip \in 0..3
       /\ conn[c].asked \subseteq {"dns", "ident"}
       /\ conn[c].need \subseteq {"NICK", "USER", "CAP"}
       /\ conn[c].pings \in 0..MaxAsked /\ conn[c].conf \in ConfIds \cup {None}
  /\ queries \subseteq Callers \X {"dns", "ident"}
  /\ \A a \in Ips : ipcache[a].count \in Nat /\ ipcache[a].age \in 0..Throttle
  /\ \A k \in ClassNames : class[k].refs \in Nat /\ class[k].cidr \in Seq([mask : 0..3, n : Nat])
  /\ \A i \in ConfIds : conf[i].refs \in Nat /\ conf[i].class \in ClassNames
  /\ listener \in [held : BOOLEAN, open : BOOLEAN, refs : Nat]

AccessInit ==
  /\ conn = [c \in Callers |-> NoConn] /\ queries = {}
  /\ ipcache = [a \in Ips |-> NoEntry]
  /\ \E s \in Settings : class = [k \in ClassNames |->
       IF k = Default THEN [NoClass EXCEPT !.held = TRUE, !.active = TRUE]
       ELSE [NoClass EXCEPT !.held = TRUE, !.active = TRUE, !.max = s[1],
                            !.per = s[2], !.bits = s[3]]]
  /\ \E k \in ClassNames :
       conf = [[j \in ConfIds |-> NoConf] EXCEPT
                 ![1] = [held |-> TRUE, active |-> TRUE, class |-> k, refs |-> 0]]
  /\ listener = [held |-> TRUE, open |-> TRUE, refs |-> 0]

-----------------------------------------------------------------------------
(* The address cache *)

Found(cache, a) ==
  IF cache[a].held THEN cache ELSE [cache EXCEPT ![a] = [NoEntry EXCEPT !.held = TRUE]]

Dropped(cache, a) ==
  LET e == [cache[a] EXCEPT !.count = @ - 1]
  IN  [cache EXCEPT ![a] = IF e.count = 0 /\ e.age >= Throttle THEN NoEntry ELSE e]

\* conf_connect_allowed
TooFast(a) ==
  LET e == Found(ipcache, a)[a] IN e.age < Throttle /\ e.tries >= ThrottleMax
Attempt(a) ==
  LET e == Found(ipcache, a)[a]
  IN  [Found(ipcache, a) EXCEPT ![a] =
        [e EXCEPT !.tries = IF ipcache[a].age < Throttle THEN @ + 1 ELSE 1, !.age = 0]]

ExpireEntries ==
  /\ \E a \in Ips : ipcache[a].held
  /\ ipcache' = [a \in Ips |-> IF ipcache[a].count = 0 /\ ipcache[a].age >= Throttle
                               THEN NoEntry ELSE ipcache[a]]
  /\ UNCHANGED <<conn, queries, class, conf, listener>>

-----------------------------------------------------------------------------
(* Classes and their subnets *)

Mask(a, bits) == (a \div 2 ^ (2 - bits)) * 2 ^ (2 - bits)
Matches(a, item, bits) == Mask(a, bits) = Mask(item.mask, bits)

\* The items of the list that a matches, in the order of the list.
Hits(a, k) == {i \in 1..Len(k.cidr) : Matches(a, k.cidr[i], k.bits)}
First(is) == CHOOSE i \in is : \A j \in is : i <= j
Subnetted(k) == k.per # 0 /\ k.bits # 0

\* Faulty variant: one more is let in than number_per_cidr.
CidrFullOver(a, k) ==
  Subnetted(k) /\ Hits(a, k) # {} /\ k.cidr[First(Hits(a, k))].n > k.per

CidrFull(a, k) ==
  Subnetted(k) /\ Hits(a, k) # {} /\ k.cidr[First(Hits(a, k))].n >= k.per

CidrAdd(a, k) ==
  IF ~Subnetted(k) THEN k
  ELSE IF Hits(a, k) = {}
    THEN [k EXCEPT !.cidr = << [mask |-> Mask(a, k.bits), n |-> 1] >> \o @]
    ELSE [k EXCEPT !.cidr[First(Hits(a, k))].n = @ + 1]

\* Every match goes down, until one is used up and taken out.
CidrRemove(a, k) ==
  IF ~Subnetted(k) THEN k
  ELSE LET out == {i \in Hits(a, k) : k.cidr[i].n = 1}
           last == IF out = {} THEN Len(k.cidr) ELSE First(out)
           less == [i \in DOMAIN k.cidr |-> IF i \in Hits(a, k) /\ i <= last
                      THEN [k.cidr[i] EXCEPT !.n = @ - 1] ELSE k.cidr[i]]
       IN  [k EXCEPT !.cidr = IF out = {} THEN less ELSE RemoveAt(less, last)]

\* rebuild_cidr_list: of the registered users whose block has this class.
ClassUsers(k) == {c \in Callers : conn[c].stage = "client" /\ conf[conn[c].conf].class = k}
Rebuilt(k) ==
  [class[k] EXCEPT !.cidr =
     FoldSet(LAMBDA c, list : CidrAdd(conn[c].ip, [class[k] EXCEPT !.cidr = list]).cidr,
             << >>, ClassUsers(k))]

-----------------------------------------------------------------------------
(* Leaving *)

FreeClass(k) == IF k.refs = 0 /\ ~k.active THEN NoClass ELSE k
FreeConf(i) == IF i.refs = 0 /\ ~i.active THEN NoConf ELSE i

\* A reference more or less to a class or a block
OneMore(r) == [r EXCEPT !.refs = @ + 1]
OneLess(r) == [r EXCEPT !.refs = @ - 1]

\* detach_conf
Detached(c) ==
  LET i == conn[c].conf
      k == conf[i].class
  IN  IF i = None THEN UNCHANGED <<class, conf>>
      ELSE /\ class' = [class EXCEPT ![k] =
                FreeClass(OneLess(CidrRemove(conn[c].ip, @)))]
           /\ conf' = [conf EXCEPT ![i] = FreeConf(OneLess(@))]

\* listener_release, which closes a port that is not configured any more
Released ==
  listener' = IF listener.refs = 1 /\ ~listener.open
              THEN [held |-> FALSE, open |-> FALSE, refs |-> 0]
              ELSE [listener EXCEPT !.refs = @ - 1]

\* Faulty variant: the queries of an exiting connection are left with the resolver.
ExitAsked(c) ==
  /\ conn' = [conn EXCEPT ![c] = NoConn]
  /\ UNCHANGED queries
  /\ ipcache' = IF conn[c].iphash THEN Dropped(ipcache, conn[c].ip) ELSE ipcache
  /\ Detached(c) /\ Released

\* exit_client, close_connection and free_client
Exit(c) ==
  /\ conn' = [conn EXCEPT ![c] = NoConn]
  /\ queries' = {q \in queries : q[1] # c}
  /\ ipcache' = IF conn[c].iphash THEN Dropped(ipcache, conn[c].ip) ELSE ipcache
  /\ Detached(c) /\ Released

\* A QUIT, a timeout, a KILL, a lost connection
Leave(c) == conn[c].stage # "free" /\ Exit(c)

-----------------------------------------------------------------------------
(* The queries of a new connection *)

\* start_auth; ident is the result of start_auth_query, or "off" with disable_auth.
\* One that could not be opened is waited for all the same.
Asked(ident) == IF ident = "off" THEN {"dns"} ELSE {"dns", "ident"}
Sent(ident) == IF ident = "open" THEN {"dns", "ident"} ELSE {"dns"}

\* listener_accept_connection and add_connection
AcceptConn(c, a, ident) ==
  /\ listener.open /\ conn[c].stage = "free" /\ ~TooFast(a)
  /\ ipcache' = Attempt(a)
  /\ listener' = [listener EXCEPT !.refs = @ + 1]
  /\ conn' = [conn EXCEPT ![c] = [NoConn EXCEPT !.stage = "unknown", !.ip = a,
                                     !.need = {"NICK", "USER"}, !.asked = Asked(ident)]]
  /\ queries' = queries \cup {c} \X Sent(ident)
  /\ UNCHANGED <<class, conf>>

\* The connection is closed at once.
Refuse(a) ==
  /\ listener.open /\ TooFast(a)
  /\ ipcache' = Found(ipcache, a)
  /\ UNCHANGED <<conn, queries, class, conf, listener>>

\* release_auth_client: nothing yet when the other query is out.
ReleaseAuth(c, asked) ==
  IF asked # {} THEN [c EXCEPT !.asked = asked]
  ELSE [c EXCEPT !.asked = {}, !.finished = TRUE,
                 !.releases = IF @ < 2 THEN @ + 1 ELSE @]

Answer(c, kind) ==
  /\ <<c, kind>> \in queries
  /\ queries' = queries \ {<<c, kind>>}
  /\ conn' = [conn EXCEPT ![c] = ReleaseAuth(@, @.asked \ {kind})]
  /\ UNCHANGED <<ipcache, class, conf, listener>>

\* auth_dns_callback, whatever the answer is
DnsAnswer(c) == Answer(c, "dns")

\* auth_error from auth_connect_callback, or read_auth_reply
IdentAnswer(c) == Answer(c, "ident")

\* timeout_auth_queries_event: CONNECTTIMEOUT is over for the first that still waits.
\* The list is in the order of the timeouts, so any of them may be that one.
TimeoutAuth(c) ==
  /\ conn[c].stage = "unknown" /\ ~conn[c].finished
  /\ queries' = {q \in queries : q[1] # c}
  /\ conn' = [conn EXCEPT ![c] = ReleaseAuth(@, {})]
  /\ UNCHANGED <<ipcache, class, conf, listener>>

Tick ==
  /\ \E a \in Ips : ipcache[a].held /\ ipcache[a].age < Throttle
  /\ ipcache' = [a \in Ips |-> IF ipcache[a].held /\ ipcache[a].age < Throttle
                               THEN [ipcache[a] EXCEPT !.age = @ + 1] ELSE ipcache[a]]
  /\ UNCHANGED <<conn, queries, class, conf, listener>>

-----------------------------------------------------------------------------
(* Registration *)

\* The blocks find_address_conf may return: the one in the file, or none for this user.
Blocks == {i \in ConfIds : conf[i].held /\ conf[i].active} \cup {None}

\* attach_iline: the limits of the class, and of the subnet in attach_conf
Full(c, i) ==
  LET k == class[conf[i].class] IN
  \/ k.max # 0 /\ k.refs >= k.max
  \/ Found(ipcache, conn[c].ip)[conn[c].ip].count + 1 > PerIp
  \/ CidrFull(conn[c].ip, k)

CountedIn(a) == [Found(ipcache, a) EXCEPT ![a].count = @ + 1]

\* check_client fails, or one of the checks that follow it: what was counted for c is
\* taken back by its exit.
TurnAway(c, i) ==
  /\ ipcache' = IF i = None THEN ipcache
                ELSE Dropped(CountedIn(conn[c].ip), conn[c].ip)
  /\ conn' = [conn EXCEPT ![c] = NoConn] /\ queries' = {q \in queries : q[1] # c}
  /\ Released
  /\ UNCHANGED <<class, conf>>

\* Faulty variant: the class is looked up by name when the user is attached.
AdmitUncounted(c, me, i) ==
  /\ ipcache' = CountedIn(me.ip)
  /\ class' = [class EXCEPT ![conf[i].class] = CidrAdd(me.ip, @)]
  /\ conf' = [conf EXCEPT ![i].refs = @ + 1]
  /\ conn' = [conn EXCEPT ![c] = [me EXCEPT !.stage = "client", !.iphash = TRUE,
                                             !.conf = i]]
  /\ UNCHANGED <<queries, listener>>

Admit(c, me, i) ==
  /\ ipcache' = CountedIn(me.ip)
  /\ class' = [class EXCEPT ![conf[i].class] = OneMore(CidrAdd(me.ip, @))]
  /\ conf' = [conf EXCEPT ![i].refs = @ + 1]
  /\ conn' = [conn EXCEPT ![c] = [me EXCEPT !.stage = "client", !.iphash = TRUE,
                                             !.conf = i]]
  /\ UNCHANGED <<queries, listener>>

\* register_local_user for me, the new value of conn[c]: a challenge, whatever was
\* asked before, until one has been answered; then a user, or no connection at all.
RegisterUser(c, me) ==
  IF ~me.authed
    THEN /\ me.pings < MaxAsked
         /\ conn' = [conn EXCEPT ![c] = [me EXCEPT !.pings = @ + 1]]
         /\ UNCHANGED <<queries, ipcache, class, conf, listener>>
    ELSE \E i \in Blocks : \/ TurnAway(c, i)
                           \/ i # None /\ ~Full(c, i) /\ Admit(c, me, i)

Continue(c, me) ==
  IF me.need = {} THEN RegisterUser(c, me)
  ELSE conn' = [conn EXCEPT ![c] = me] /\ UNCHANGED <<queries, ipcache, class, conf, listener>>

Reads(c) == conn[c].stage = "unknown" /\ conn[c].finished

\* A gateway gives the address of its user.  The attempt was counted for its own.
WebIrc(c, a) ==
  /\ Reads(c) /\ a # conn[c].ip
  /\ conn' = [conn EXCEPT ![c].ip = a]
  /\ UNCHANGED <<queries, ipcache, class, conf, listener>>

\* mr_nick and mr_user may come again, and again with no challenge answered.
MrNick(c) == Reads(c) /\ Continue(c, [conn[c] EXCEPT !.need = @ \ {"NICK"}])
MrUser(c) == Reads(c) /\ Continue(c, [conn[c] EXCEPT !.need = @ \ {"USER"}])

\* cap_ls and cap_req hold the registration back, cap_end lets it go on.
CapAsk(c) ==
  /\ Reads(c) /\ conn' = [conn EXCEPT ![c].need = @ \cup {"CAP"}]
  /\ UNCHANGED <<queries, ipcache, class, conf, listener>>
CapEnd(c) == Reads(c) /\ Continue(c, [conn[c] EXCEPT !.need = @ \ {"CAP"}])

\* Faulty variant: the right answer makes a user of whoever gave it.
AuthPongNow(c, same) ==
  /\ Reads(c) /\ conn[c].pings > 0
  /\ LET me == [conn[c] EXCEPT !.authed = TRUE, !.pings = @ - 1]
     IN  IF conn[c].pings = 1 \/ same THEN RegisterUser(c, me) ELSE Exit(c)

\* m_authpong: the answer to the first challenge that c has not answered.  It is that
\* to the last one when there is no other, or when they are of the same second.
AuthPong(c, same) ==
  /\ Reads(c) /\ conn[c].pings > 0
  /\ LET me == [conn[c] EXCEPT !.authed = TRUE, !.pings = @ - 1]
     IN  IF conn[c].pings = 1 \/ same THEN Continue(c, me) ELSE Exit(c)

-----------------------------------------------------------------------------
(* conf_rehash *)

\* The class{} of the file for a name that is in the list, marked or not, keeps its
\* counts; its subnets are counted anew when the length of their masks changes.
FromFile(k, s) ==
  LET old == IF ~class[k].held THEN NoClass
             ELSE IF class[k].per # 0 /\ s[2] # 0 /\ class[k].bits # 0 /\ s[3] # 0
                     /\ class[k].bits # s[3]
               THEN Rebuilt(k) ELSE class[k]
  IN  [old EXCEPT !.held = TRUE, !.active = TRUE, !.max = s[1], !.per = s[2], !.bits = s[3]]

\* A struct for the block of the new file
NewConf == CHOOSE i \in ConfIds : conf[i].refs = 0

\* class_mark_for_deletion spares the default class, which is the last of the list;
\* class_delete_marked comes after the file has been read.
Swept(S, s) ==
  [q \in ClassNames |-> IF q = Default THEN class[q]
                        ELSE IF q \in S THEN FromFile(q, s)
                        ELSE FreeClass([class[q] EXCEPT !.active = FALSE])]

\* clear_out_address_conf
Cleared == [i \in ConfIds |-> FreeConf([conf[i] EXCEPT !.active = FALSE])]

\* conf_add_class_to_conf: a class that is not in the file is replaced
Named(k, S) == IF k \in S THEN k ELSE Default

\* close_listeners, then add_listener and inetport when the port is in the file
Listening(listen) ==
  [held |-> listen \/ listener.refs > 0, open |-> listen, refs |-> listener.refs]

\* Faulty variant: the blocks of the old file are freed, used or not.
RehashHard(S, s, k, listen) ==
  /\ class' = Swept(S, s)
  /\ conf' = [[i \in ConfIds |-> NoConf] EXCEPT ![NewConf] =
                [held |-> TRUE, active |-> TRUE, class |-> Named(k, S), refs |-> 0]]
  /\ listener' = Listening(listen)
  /\ UNCHANGED <<conn, queries, ipcache>>

\* S are the classes of the new file, k the class its auth{} block names; listen tells
\* if the port is in the file and can be bound.
Rehash(S, s, k, listen) ==
  /\ class' = Swept(S, s)
  /\ conf' = [Cleared EXCEPT ![NewConf] =
                [held |-> TRUE, active |-> TRUE, class |-> Named(k, S), refs |-> 0]]
  /\ listener' = Listening(listen)
  /\ UNCHANGED <<conn, queries, ipcache>>

-----------------------------------------------------------------------------
AccessNext ==
  \/ \E c \in Callers :
       \/ \E a \in Ips, ident \in {"off", "open", "failed"} : AcceptConn(c, a, ident)
       \/ DnsAnswer(c) \/ IdentAnswer(c) \/ \E a \in Ips : WebIrc(c, a)
       \/ MrNick(c) \/ MrUser(c) \/ CapAsk(c) \/ CapEnd(c)
       \/ \E same \in BOOLEAN : AuthPong(c, same)
       \/ TimeoutAuth(c) \/ Leave(c)
  \/ \E a \in Ips : Refuse(a)
  \/ ExpireEntries \/ Tick
  \/ \E S \in SUBSET Classes, s \in Settings, k \in ClassNames, listen \in BOOLEAN :
       Rehash(S, s, k, listen)

AccessSpec == AccessInit /\ [][AccessNext]_accessVars

-----------------------------------------------------------------------------
\* Who counts for an address, an auth{} block, a class and the port
OnAddress(a) == {c \in Callers : conn[c].iphash /\ conn[c].ip = a}
OnBlock(i) == {c \in Callers : conn[c].conf = i}
OnClass(k) == {c \in Callers : conn[c].conf # None /\ conf[conn[c].conf].class = k}
OnPort == {c \in Callers : conn[c].stage # "free"}

AddressesCounted ==
  \A a \in Ips : /\ ipcache[a].count = Cardinality(OnAddress(a))
                 /\ ipcache[a].count > 0 => ipcache[a].held
BlocksCounted ==
  \A i \in ConfIds : /\ conf[i].refs = Cardinality(OnBlock(i))
                     /\ conf[i].held <=> conf[i].active \/ conf[i].refs > 0
ClassesCounted ==
  \A k \in ClassNames : /\ class[k].refs = Cardinality(OnClass(k))
                        /\ class[k].held <=> class[k].active \/ class[k].refs > 0
PortCounted == /\ listener.refs = Cardinality(OnPort)
               /\ listener.held <=> listener.open \/ listener.refs > 0

\* Whatever a user counts for is counted once and still there: the class and the
\* auth{} block it was attached to before any number of rehashes, the port it came in
\* by, its address; and what is neither configured nor counted for is freed.
Accounted == AddressesCounted /\ BlocksCounted /\ ClassesCounted /\ PortCounted

\* An answer never finds its connection gone or given up, and a connection is released
\* once, in whatever order DNS, ident, their timeout and the exit come; only then, with
\* NICK, USER and CAP done and the challenge answered, does it become a user.
Admitted ==
  /\ \A q \in queries : conn[q[1]].stage = "unknown" /\ q[2] \in conn[q[1]].asked
  /\ \A c \in Callers :
       /\ conn[c].finished <=> conn[c].stage # "free" /\ conn[c].asked = {}
       /\ conn[c].releases <= 1
       /\ conn[c].stage = "client" => conn[c].finished /\ conn[c].authed /\ conn[c].need = {}

\* Both together: of whoever becomes a user every step was done, and all that he counts
\* for is counted (user.c 399-613, conf.c 241-494, auth.c, ipcache.c, listener.c).
Entered == Accounted /\ Admitted

\* "how many users can connect from one /NN subnet" (reference.conf 233): nobody becomes a
\* user of a class who makes it more than number_per_cidr from the subnet.
SubnetLimit ==
  [][\A c \in Callers : conn[c].stage # "client" /\ conn'[c].stage = "client" =>
       LET k == class[conf[conn'[c].conf].class] IN
       Subnetted(k) =>
         Cardinality({d \in Callers : /\ conn'[d].stage = "client"
                                      /\ conf[conn'[d].conf].class = conf[conn'[c].conf].class
                                      /\ Mask(conn'[d].ip, k.bits) = Mask(conn'[c].ip, k.bits)})
           <= k.per
    ]_accessVars
=============================================================================

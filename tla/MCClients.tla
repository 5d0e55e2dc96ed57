----------------------------- MODULE MCClients -----------------------------
(***************************************************************************)
(* Connections, in parts that share nothing: of each behaviour one moves.    *)
(*   "structs" ClientLife, with a few structs                               *)
(*   "access"  Access, two connections                                      *)
(*   "pool"    MemPool                                                      *)
(*   "recvq"   RecvQueue, one connection                                    *)
(*   "file"    ConfFile, a few files that follow each other                 *)
(*   "cmds"    Commands, some whose names begin with one another              *)
(*   "index"   Indexes                                                      *)
(*   "motd"    Motd                                                         *)
(*   "dns"     Resolver                                                     *)
(*   "names"   DnsNames                                                     *)
(***************************************************************************)
EXTENDS ClientLife, MemPool, RecvQueue, Access, TLC
CONSTANT Parts   \* the parts to check

VARIABLES part, s1, s2, s3, s4, s5, s6, s7, s8, s9, s10, s11, s12, s13, s14   \* of the other parts

Symm == Permutations(Conns) \cup Permutations(Remotes) \cup Permutations(Callers)

\* A class with one user for each address and subnet, and one without max_number
OneUser == {<<1, 1, 1>>, <<0, 1, 1>>}

\* Files that differ in what they say, in what order, and in what is wrong with them.
Is(k, v) == [k |-> k, v |-> v]
B(kind, items) == [kind |-> kind, items |-> items]
ServerInfoBlock == B("serverinfo", <<Is("name", "a"), Is("sid", "0AA"), Is("description", "d")>>)
Plain == <<ServerInfoBlock>>
F1 == <<ServerInfoBlock,
  B("oper", <<Is("name", "o"), Is("user", <<"u", "h">>), Is("password", "p"), Is("class", "late"),
              Is("flags", <<"kill", "bad", "die">>)>>),
  B("kill", <<Is("user", <<"k", "h">>), Is("error", 0)>>),
  B("kill", <<Is("reason", "r"), Is("user", <<"l", "h">>)>>),
  B("class", <<Is("name", "late"), Is("recvq", 100), Is("min_idle", 2), Is("max_idle", 1)>>),
  B("auth", <<Is("user", <<"u", "h">>), Is("class", "late"), Is("redirserv", "x"), Is("flags", <<"can_flood">>)>>),
  B("general", <<Is("gline_enable", 1), Is("ts_warn_delta", 3), Is("oper_umodes", <<"locops">>)>>)>>
F2 == <<ServerInfoBlock,
  B("connect", <<Is("name", "b"), Is("host", "bhost"), Is("accept_password", "p"),
                 Is("send_password", "q"), Is("flags", <<"autoconn">>), Is("port", 7000)>>),
  B("connect", <<Is("name", "c"), Is("host", "ip"), Is("accept_password", ":p"), Is("send_password", "q")>>),
  B("listen", <<Is("flags", <<"ssl">>), Is("port", <<"6697", "bad">>), Is("port", <<"6667">>), Is("host", "ip"), Is("port", <<"7000">>)>>),
  B("resv", <<Is("mask", "r")>>), B("resv", <<Is("mask", "r"), Is("reason", "again")>>),
  B("shared", <<Is("type", <<"kline", "all">>)>>), B("cluster", <<Is("name", "b")>>),
  B("channel", <<Is("join_flood_count", 4), Is("max_bans", 3)>>)>>
F3 == <<B("serverinfo", <<Is("name", "a"), Is("sid", "0AA"), Is("description", "d"),
    Is("ssl_certificate_file", "cert"), Is("rsa_private_key_file", "key"), Is("max_clients", 5), Is("hub", 1)>>),
  B("gecos", <<Is("name", "g")>>), B("deny", <<Is("ip", "ip"), Is("reason", "x")>>), B("deny", <<Is("ip", "bhost")>>),
  B("motd", <<Is("mask", "late"), Is("file", "m")>>), B("logfile", <<Is("name", "f"), Is("type", "kill"), Is("size", 3)>>),
  B("logfile", <<Is("name", "f2"), Is("type", "kill")>>), B("logfile", <<Is("name", "f2")>>),
  B("pseudo", <<Is("command", "NS"), Is("name", "n"), Is("target", <<"nick", "h">>)>>),
  B("pseudo", <<Is("command", "KICK"), Is("name", "n"), Is("target", <<"nick", "h">>)>>),
  B("modules", <<Is("path", "p"), Is("module", "m")>>), B("service", <<Is("name", "s")>>), B("exempt", <<Is("ip", "ip")>>),
  B("oper", <<Is("name", "o"), Is("user", <<"u", "h">>), Is("user", <<"v", "h">>), Is("rsa_public_key_file", "nokey"), Is("umodes", <<"bots">>), Is("encrypted", 0)>>)>>
F4 == <<ServerInfoBlock, B("general", <<Is("havent_read_conf", 1)>>)>>
F5 == <<B("serverinfo", <<Is("name", ":p")>>)>>
MCFiles == {<< >>, Plain, F1, F2, F3, F4, F5}
Loaded == INSTANCE ConfFile WITH
  Files <- MCFiles, Addresses <- {"ip", "::", "0.0.0.0"}, Invalid <- {":p", "nokey"},
  Wildcards <- {"*"}, Commands <- {"KICK"}, MaxReads <- 3,
  file <- s1, text <- s2, up <- s3, pass <- s4, at <- s5, st <- s6, settings <- s7,
  confs <- s8, class <- s9, ports <- s10, others <- s11, held <- s12, asked <- s13,
  reads <- s14

\* KI begins KICK and KILL, which two modules bring; NS is a pseudo command and a
\* module's; NS1 is not made of letters.
Cmd == INSTANCE Commands WITH
  Modules <- {"core", "auto", "dup", "mod"}, Core <- {"core"}, Auto <- {"auto", "mod"},
  Resident <- {"mod"}, Odd <- {"NS1"}, MaxOps <- 4,
  Provides <- [core |-> {"KICK"}, auto |-> {"KILL", "KI"}, dup |-> {"NS", "KILL"},
               mod |-> {"MOD"}],
  Dir <- [core |-> "core", auto |-> "auto", dup |-> "auto", mod |-> "auto"],
  Key <- [KICK |-> <<11, 9, 3>>, KILL |-> <<11, 9, 12>>, KI |-> <<11, 9>>, MOD |-> <<13>>,
          NS |-> <<14, 19>>, NS1 |-> <<14, 19, 17>>],
  Files <- {[paths |-> {"auto"}, mods |-> <<"dup">>, pseudos |-> <<"NS", "KI">>],
            [paths |-> {"auto", "core"}, mods |-> << >>, pseudos |-> <<"NS", "NS1", "NS">>]},
  up <- s1, file <- s2, disk <- s3, paths <- s4, mods <- s5, loaded <- s6, pseudos <- s7,
  tree <- s8, reads <- s9, ops <- s10, clashed <- s11

Index == INSTANCE Indexes WITH
  Users <- {"l", "r"}, Locals <- {"l"}, Nicks <- {"a", "b"}, Length <- 2, MaxWatch <- 2,
  MaxAccept <- 1, ChaseLimit <- 1, PaceWait <- 1, MaxTime <- 3, MaxOps <- 5,
  user <- s1, watchTable <- s2, ring <- s3, next <- s4, hash <- s5, lastUsed <- s6, now <- s7,
  ops <- s8, told <- s9, left <- s10, answer <- s11

Day == INSTANCE Motd WITH
  Here <- {"u", "v"}, Far <- {"f"}, Class <- [u |-> "c1", v |-> "c2"], Path <- "m", MaxOps <- 5,
  Fits <- {<<"*", "u">>, <<"*", "v">>},
  Files <- {[classes |-> {"c1"}, motds |-> <<<<"*", "m">>, <<"*.at", "g">>, <<"c1", "g">>>>],
            [classes |-> {"c1"}, motds |-> <<<<"c2", "g">>>>]},
  disk <- s1, motds <- s2, cachelist <- s3, ops <- s4, since <- s5

Dns == INSTANCE Resolver WITH
  Asking <- Callers, Ptr <- [a1 |-> "n1"], Addr <- [n1 |-> "a1", n2 |-> None], Ids <- {1, 2, 3},
  MaxAsks <- 3,
  ctx <- s1, requests <- s2, wire <- s3, open <- s4, asks <- s5, reused <- s6

\* Octets: ends, labels of one and two, a dot, an octet that is shown by its number, and
\* pointers; and texts of dots, escapes, digits and a letter
Names == INSTANCE DnsNames WITH
  Messages <- UNION {[1..k -> {0, 1, 2, 46, 192}] : k \in 1..4},
  Texts <- UNION {[1..k -> {46, 92, 97, 50}] : k \in 0..4} \cup {[i \in 1..k |-> 97] : k \in 63..64},
  MaxName <- 66, TextSize <- 10, msg <- s1, text <- s2

from12 == <<s12, s13, s14>>
from7 == <<s7, s8, s9, s10, s11, from12>>
from6 == <<s6, from7>>
from3 == <<s3, s4, s5, from6>>
Zero12 == s12 = 0 /\ s13 = 0 /\ s14 = 0
Zero7 == s7 = 0 /\ s8 = 0 /\ s9 = 0 /\ s10 = 0 /\ s11 = 0 /\ Zero12
Zero6 == s6 = 0 /\ Zero7
Zero3 == s3 = 0 /\ s4 = 0 /\ s5 = 0 /\ Zero6

slots == <<s1, s2, s3, s4, s5, s6, s7, s8, s9, s10, s11, s12, s13, s14>>

-----------------------------------------------------------------------------
PartsInit ==
  /\ part \in Parts
  /\ Init /\ PoolInit /\ RecvInit
  /\ AccessInit
  /\ part # "access" => /\ \A k \in Classes : class[k].max = 0
                        /\ conf[1].class = Default
  /\ CASE part = "file" -> Loaded!Init
       [] part = "cmds" -> Cmd!Init /\ Zero12
       [] part = "index" -> Index!Init /\ Zero12
       [] part = "motd" -> Day!Init /\ Zero6
       [] part = "dns" -> Dns!Init /\ Zero7
       [] part = "names" -> Names!Init /\ Zero3
       [] OTHER -> s1 = 0 /\ s2 = 0 /\ Zero3

PartsNext ==
  /\ UNCHANGED part
  /\ \/ part = "structs" /\ Next /\ UNCHANGED <<poolVars, recvVars, accessVars, slots>>
     \/ part = "access" /\ AccessNext /\ UNCHANGED <<vars, poolVars, recvVars, slots>>
     \/ part = "pool" /\ PoolNext /\ UNCHANGED <<vars, recvVars, accessVars, slots>>
     \/ part = "recvq" /\ RecvNext /\ UNCHANGED <<vars, poolVars, accessVars, slots>>
     \/ /\ \/ part = "file" /\ Loaded!Next
           \/ part = "cmds" /\ Cmd!Next /\ UNCHANGED from12
           \/ part = "index" /\ Index!Next /\ UNCHANGED from12
           \/ part = "motd" /\ Day!Next /\ UNCHANGED from6
           \/ part = "dns" /\ Dns!Next /\ UNCHANGED from7
           \/ part = "names" /\ Names!Next /\ UNCHANGED from3
        /\ UNCHANGED <<vars, poolVars, recvVars, accessVars>>

allvars == <<part, vars, poolVars, recvVars, accessVars, slots>>

PartsSpec == PartsInit /\ [][PartsNext]_allvars

\* The fairness of ClientLife, RecvQueue and Resolver
Turn(A) == part = "structs" /\ A /\ UNCHANGED <<part, poolVars, recvVars, accessVars, slots>>
Recv(A) == part = "recvq" /\ A /\ UNCHANGED <<part, vars, poolVars, accessVars, slots>>
Dns1(A) == /\ part = "dns" /\ A
           /\ UNCHANGED <<part, vars, poolVars, recvVars, accessVars, from7>>
FairParts ==
  /\ PartsSpec /\ WF_allvars(Turn(HandlersDone)) /\ WF_allvars(Turn(FreeExited))
  /\ \A c \in Conns : /\ WF_allvars(Turn(ExitAborted(c)))
                      /\ SF_allvars(Turn(CheckUnknowns(c)))
                      /\ SF_allvars(Turn(AuthDone(c))) /\ SF_allvars(Turn(ConnectFailed(c)))
  /\ \A c \in Callers : WF_allvars(Dns1(Dns!Timeout(c)))
  /\ WF_allvars(Recv(Recalc)) /\ WF_allvars(Recv(ParseLine \/ EndPass))

-----------------------------------------------------------------------------
PartsTypeOK ==
  /\ TypeOK /\ PoolTypeOK /\ RecvTypeOK /\ AccessTypeOK
  /\ CASE part = "file" -> Loaded!FileTypeOK
       [] part = "cmds" -> Cmd!TypeOK
       [] part = "index" -> Index!TypeOK
       [] part = "motd" -> Day!TypeOK
       [] part = "dns" -> Dns!TypeOK
       [] OTHER -> TRUE

\* A struct that is dead is freed; no connection stays an attempt, nor unregistered
\* (client.c 254-274, 866, 951; s_bsd.c 430-507); and whoever asks the resolver is answered,
\* though queries, answers and the socket are lost (res.c 655-690).
Waiting(c) == part = "dns" /\ s1[c].pending
Ended == Reaped /\ NotStuck /\ \A c \in Callers : Waiting(c) ~> ~Waiting(c)

\* What is read and looked up is what is there.
\* What is in force after a read is what the file says, and each block of it for itself;
\* the classes are there for all that names them; and the answer to a query that was out
\* during a rehash finds its conf (conf_parser.y, conf.c 753-925, 1164-1316).
\* The tree of commands has those of the modules that are loaded and of the pseudo blocks,
\* none that was freed, and no node too many or too few; the core modules stay
\* (parse.c 456-560, modules.c, conf_pseudo.c).
\* Watches, the ring of old nicks and accept lists point to clients that are there, at
\* both ends; watchers know who is on; a KILL follows the right user (watch.c, whowas.c).
\* A message of the day is cached once, while it is used, and not older than the last
\* rehash (motd.c).
\* Whoever waits for the resolver has one query out, and gets the answer to what it asked;
\* the octets of an answer give the name they mean, and give it back in the next query
\* (res.c, reslib.c).  And all of every part is of its kind.
LookupsRight ==
  /\ PartsTypeOK
  /\ CASE part = "file" -> /\ Loaded!Isolated /\ Loaded!Classed
                           /\ Loaded!SettingsRead /\ Loaded!AnswersFind
       [] part = "cmds" -> Cmd!LinksRight /\ Cmd!NoStale /\ Cmd!Available /\ Cmd!CoreThere
       [] part = "index" -> /\ Index!WatchesAgree /\ Index!ToldRight /\ Index!OnlineKnown
                            /\ Index!Chases /\ Index!NewestFirst /\ Index!AcceptsOnce
       [] part = "motd" -> Day!RefsRight /\ Day!NotOld
       [] part = "dns" -> Dns!Waits /\ Dns!Right
       [] part = "names" -> /\ Names!ReadsNames /\ Names!SkipsNames /\ Names!AsksForNames
                            /\ Names!WellFormed
       [] OTHER -> TRUE
=============================================================================

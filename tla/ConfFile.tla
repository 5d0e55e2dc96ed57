------------------------------ MODULE ConfFile ------------------------------
(***************************************************************************)
(* How ircd.conf is read (conf_parser.y, compiled as conf_parser.c; conf.c). *)
(* A file is a sequence of blocks and a block a kind and a sequence of       *)
(* items.  The file is parsed twice: the first pass takes the classes, which *)
(* a block may name before they are declared, the second all the rest.  What *)
(* the items of a block say is gathered in block_state, one struct for all   *)
(* blocks, and made into confs where the block ends.                         *)
(*                                                                         *)
(* An item whose syntax is wrong is skipped up to its ';'.  A ';' that is    *)
(* missing, which swallows the block that follows, is not among the files.  *)
(* Messages, and what a certificate or a host name looks like, are left out. *)
(***************************************************************************)
EXTENDS Naturals, Sequences, FiniteSets

CONSTANTS
    Files,      \* what ircd.conf may hold: sequences of [kind, items]
    Addresses,  \* the texts that are addresses (getaddrinfo, parse_netmask)
    Invalid,    \* names and passwords that are refused, files that are not there
    Wildcards,  \* the texts with wildcards in them
    Commands,   \* the commands there are without pseudo blocks
    MaxReads    \* bound: times the file is read

VARIABLES
    file,      \* what is on disk; << >> when it cannot be opened
    text,      \* what is being read, or was read last
    up,        \* "down" | "boot" | "up" | "exited"
    pass,      \* conf_parser_ctx.pass; 0 between the reads
    at,        \* <<n, i>>: the parser is before item i of block n, 0 its opening
    st,        \* block_state
    settings,  \* ConfigGeneral, ConfigChannel, ...: section -> key -> value
    confs,     \* the conf_items lists and the address table
    class,     \* the classes: name -> what its block said
    ports,     \* the listeners: <<port, address, flags>>
    others,    \* MOTDs, log files, pseudo commands, modules and their paths
    held,      \* confs that somebody has attached
    asked,     \* confs whose host a query is out for: dns_pending
    reads

fileVars == <<file, text, up, pass, at, st, settings, confs, class, ports, others, held,
              asked, reads>>

-----------------------------------------------------------------------------
\* block_state: texts, lists (flags are sets of their names), numbers.
Texts == {"name", "nick", "user", "host", "addr", "bind", "file", "ciph", "cert", "rpass",
          "spass", "class", "prepend", "command", "type", "aftype"}
Lists == {"leaf", "hub", "flags", "modes", "privs"}
Limits == {"ping_time", "number_per_ip", "connectfreq", "max_channels", "max_number",
           "max_global", "max_local", "max_ident", "sendq", "recvq", "cidr_bitlen_ipv4",
           "cidr_bitlen_ipv6", "number_per_cidr", "min_idle", "max_idle"}
Numbers == Limits \cup {"port", "size"}
Blank == [f \in Texts \cup Lists \cup Numbers \cup {"mask"} |->
            CASE f \in Texts -> "" [] f \in Lists -> {} [] f \in Numbers -> 0
              [] OTHER -> << >>]

SharedAll == {"kline", "unkline", "dline", "undline", "xline", "unxline", "resv", "unresv",
              "locops"}

\* Set where a block opens.
Opened(kind) ==
  CASE kind = "class" ->
         [Blank EXCEPT !["ping_time"] = 120, !["connectfreq"] = 600,
                       !["sendq"] = 9000000, !["recvq"] = 2560]
    [] kind = "oper" -> [Blank EXCEPT !["flags"] = {"encrypted"}]
    [] kind = "resv" -> [Blank EXCEPT !["rpass"] = "no reason"]
    [] kind = "shared" -> [Blank EXCEPT !["name"] = "*", !["user"] = "*", !["host"] = "*",
                                        !["flags"] = SharedAll]
    [] kind = "cluster" -> [Blank EXCEPT !["name"] = "*", !["flags"] = SharedAll]
    [] kind = "connect" -> [Blank EXCEPT !["aftype"] = "ipv4", !["port"] = 6667]
    [] OTHER -> Blank
\* The kinds of blocks that use block_state, which their openings reset; the others act
\* where an item ends.
Gathered == {"motd", "pseudo", "logfile", "oper", "class", "listen", "auth", "resv",
             "shared", "cluster", "connect", "kill", "deny", "gecos"}
Resetting == Gathered
Own(kind) == IF kind = "class" THEN 1 ELSE 2

-----------------------------------------------------------------------------
\* The items: what item k = v makes of block_state s.  The value of a list of flags is
\* a sequence, taken up to what the parser cannot read, "bad"; an item that it cannot
\* read at all has k = "error".
Taken(v) == {v[n] : n \in {m \in DOMAIN v : \A k \in 1..m : v[k] # "bad"}}
Whole(v) == \A n \in DOMAIN v : v[n] # "bad"
Put(s, f, v) == [s EXCEPT ![f] = v]
Toggled(s, flag, v) ==
  [s EXCEPT !["flags"] = IF v = 1 THEN @ \cup {flag} ELSE @ \ {flag}]
Split(s, user, v) == [s EXCEPT ![user] = v[1], !["host"] = v[2]]
Capped(v, most) == IF v > most THEN most ELSE v
Worded(s, k, v, fields) == IF k \in DOMAIN fields THEN Put(s, fields[k], v) ELSE s

MotdItem(s, k, v) ==
  IF k = "mask" THEN [s EXCEPT !["mask"] = Append(@, v)] ELSE Put(s, "file", v)
PseudoItem(s, k, v) == IF k = "target" THEN Split(s, "nick", v) ELSE Put(s, k, v)
LogItem(s, k, v) == CASE k = "name" -> Put(s, "file", v)
                      [] k = "size" -> Put(s, "size", v)
                      [] OTHER -> Put(s, "type", v)

OperWords(s, k, v) ==
  Worded(s, k, v, [name |-> "name", password |-> "rpass", rsa_public_key_file |-> "file",
                   ssl_certificate_fingerprint |-> "cert", class |-> "class"])
OperModes(s, v) == Put(s, "modes", Taken(v))
OperPrivs(s, v) == Put(s, "privs", Taken(v))
OperItem(s, k, v) ==
  CASE k = "user" -> [s EXCEPT !["mask"] = Append(@, v)]
    [] k = "encrypted" -> Toggled(s, "encrypted", v)
    [] k = "ssl_connection_required" -> Toggled(s, "ssl", v)
    [] k = "umodes" -> OperModes(s, v)
    [] k = "flags" -> OperPrivs(s, v)
    [] OTHER -> OperWords(s, k, v)

ClassItem(s, k, v) ==
  CASE k = "name" -> Put(s, "class", v)
    [] k = "recvq" -> IF v \in 512..8000 THEN Put(s, k, v) ELSE s
    [] k = "cidr_bitlen_ipv4" -> Put(s, k, Capped(v, 32))
    [] k = "cidr_bitlen_ipv6" -> Put(s, k, Capped(v, 128))
    [] k \in {"min_idle", "max_idle"} ->
         [s EXCEPT ![k] = v, !["flags"] = @ \cup {"fake_idle"}]
    [] k = "flags" -> [s EXCEPT !["flags"] = (@ \cap {"fake_idle"}) \cup Taken(v)]
    [] OTHER -> Put(s, k, v)

\* Flags are for the ports named next: a list of ports that ends as it should takes them.
ListenItem(s, k, v) ==
  CASE k = "port" -> IF Whole(v) THEN Put(s, "flags", {}) ELSE s
    [] k = "flags" -> Put(s, "flags", Taken(v))
    [] OTHER -> Put(s, "addr", v)

AuthItem(s, k, v) ==
  CASE k = "user" -> [s EXCEPT !["mask"] = Append(@, v)]
    [] k = "password" -> Put(s, "rpass", v)
    [] k = "class" -> Put(s, "class", v)
    [] k = "encrypted" -> Toggled(s, "encrypted", v)
    [] k = "spoof" -> IF v \in Invalid THEN s ELSE Toggled(Put(s, "name", v), "spoof", 1)
    [] k = "redirserv" -> Toggled(Put(s, "name", v), "redir", 1)
    [] k = "redirport" -> Toggled(Put(s, "port", v), "redir", 1)
    [] OTHER -> s
AuthFlags(s, v) ==
  [s EXCEPT !["flags"] = (@ \cap {"encrypted", "spoof"}) \cup Taken(v)]

ResvItem(s, k, v) == CASE k = "mask" -> Put(s, "name", v)
                       [] k = "reason" -> Put(s, "rpass", v)
                       [] OTHER -> [s EXCEPT !["mask"] = Append(@, v)]
SharedTypes(v) == IF "all" \in Taken(v) THEN SharedAll ELSE Taken(v)
SharedItem(s, k, v) == CASE k = "name" -> Put(s, "name", v)
                         [] k = "user" -> Split(s, "user", v)
                         [] OTHER -> Put(s, "flags", SharedTypes(v))
ClusterItem(s, k, v) ==
  IF k = "name" THEN Put(s, "name", v) ELSE Put(s, "flags", SharedTypes(v))

ConnectFlags(s, v) == [s EXCEPT !["flags"] = (@ \cap {"encrypted"}) \cup Taken(v)]
ConnectWords(s, k, v) ==
  Worded(s, k, v, [name |-> "name", host |-> "host", vhost |-> "bind",
                   send_password |-> "spass", accept_password |-> "rpass",
                   ssl_certificate_fingerprint |-> "cert", port |-> "port",
                   aftype |-> "aftype", class |-> "class", ciphers |-> "ciph"])
ConnectItem(s, k, v) ==
  CASE k = "flags" -> ConnectFlags(s, v)
    [] k = "encrypted" -> Toggled(s, "encrypted", v)
    [] k = "hub_mask" -> [s EXCEPT !["hub"] = @ \cup {v}]
    [] k = "leaf_mask" -> [s EXCEPT !["leaf"] = @ \cup {v}]
    [] k \in {"send_password", "accept_password"} /\ v \in Invalid -> s
    [] OTHER -> ConnectWords(s, k, v)

KillItem(s, k, v) == IF k = "user" THEN Split(s, "user", v) ELSE Put(s, "rpass", v)
DenyItem(s, k, v) == IF k = "ip" THEN Put(s, "addr", v) ELSE Put(s, "rpass", v)
GecosItem(s, k, v) == IF k = "name" THEN Put(s, "name", v) ELSE Put(s, "rpass", v)

ItemOf(kind, s, k, v) ==
  CASE kind = "motd" -> MotdItem(s, k, v)
    [] kind = "pseudo" -> PseudoItem(s, k, v)
    [] kind = "logfile" -> LogItem(s, k, v)
    [] kind = "oper" -> OperItem(s, k, v)
    [] kind = "class" -> ClassItem(s, k, v)
    [] kind = "listen" -> ListenItem(s, k, v)
    [] kind = "auth" -> IF k = "flags" THEN AuthFlags(s, v) ELSE AuthItem(s, k, v)
    [] kind = "resv" -> ResvItem(s, k, v)
    [] kind = "shared" -> SharedItem(s, k, v)
    [] kind = "cluster" -> ClusterItem(s, k, v)
    [] kind = "connect" -> ConnectItem(s, k, v)
    [] kind = "kill" -> KillItem(s, k, v)
    [] kind = "deny" -> DenyItem(s, k, v)
    [] kind = "gecos" -> GecosItem(s, k, v)
\* A line that the parser skips changes nothing.
Item(kind, s, k, v) == IF k = "error" THEN s ELSE ItemOf(kind, s, k, v)
\* Some items touch block_state in the pass that is not theirs, too.
EitherPass(kind, s, k, v) ==
  CASE kind = "logfile" /\ k = "size" -> Put(s, "size", v)
    [] kind = "listen" /\ k = "flags" -> Put(s, "flags", {})
    [] kind = "listen" /\ k = "port" -> IF Whole(v) THEN Put(s, "flags", {}) ELSE s
    [] kind = "connect" /\ k = "flags" -> [s EXCEPT !["flags"] = @ \cap {"encrypted"}]
    [] OTHER -> s

-----------------------------------------------------------------------------
\* The blocks: what is made of block_state where a block closes.
Named(c) == IF c \in DOMAIN class THEN c ELSE "default"
Conf(type, s, fields, mask) ==
  [type |-> type, said |-> [f \in fields |-> s[f]], mask |-> mask, read |-> reads,
   class |-> IF type \in {"oper", "auth", "connect"} THEN Named(s["class"]) ELSE ""]
Masked(type, s, fields) == {Conf(type, s, fields, s["mask"][n]) : n \in DOMAIN s["mask"]}

\* When the key is not there, the operator of the mask that came last is made without
\* it and those of the other masks are not.
OperMade(s) ==
  LET fields == {"name", "cert", "rpass", "flags", "modes", "privs"}
  IN  IF s["name"] = "" \/ (s["file"] = "" /\ s["rpass"] = "") THEN {}
      ELSE IF s["file"] \in Invalid /\ s["mask"] # << >>
      THEN {Conf("oper", s, fields, s["mask"][Len(s["mask"])])}
      ELSE Masked("oper", s, fields)
AuthMade(s) == Masked("auth", s, {"rpass", "name", "flags", "port"})
ConnectMade(s) ==
  IF \/ "" \in {s["name"], s["host"], s["rpass"], s["spass"]}
     \/ {s["name"], s["host"]} \cap Wildcards # {} THEN {}
  ELSE {Conf("connect", s, {"name", "host", "rpass", "spass", "cert", "ciph", "bind", "flags",
                            "port", "aftype", "hub", "leaf"}, << >>)}
ResvMade(s) ==
  IF \E c \in confs : c.type = "resv" /\ c.said["name"] = s["name"] THEN {}
  ELSE {Conf("resv", s, {"name", "rpass", "mask"}, << >>)}
SharedMade(s) == {Conf("shared", s, {"name", "user", "host", "flags"}, << >>)}
ClusterMade(s) == {Conf("cluster", s, {"name", "flags"}, << >>)}
KillMade(s) == IF "" \in {s["user"], s["host"]} THEN {}
               ELSE {Conf("kill", s, {"user", "host", "rpass"}, << >>)}
DenyMade(s) == IF s["addr"] \in Addresses THEN {Conf("deny", s, {"addr", "rpass"}, << >>)} ELSE {}
GecosMade(s) == IF s["name"] = "" THEN {} ELSE {Conf("gecos", s, {"name", "rpass"}, << >>)}
Made(kind, s) ==
  CASE kind = "oper" -> OperMade(s) [] kind = "auth" -> AuthMade(s)
    [] kind = "connect" -> ConnectMade(s) [] kind = "resv" -> ResvMade(s)
    [] kind = "shared" -> SharedMade(s) [] kind = "cluster" -> ClusterMade(s)
    [] kind = "kill" -> KillMade(s) [] kind = "deny" -> DenyMade(s)
    [] kind = "gecos" -> GecosMade(s) [] OTHER -> {}

\* A class: idle times that contradict each other are none.
ClassMade(s) ==
  LET odd == s["min_idle"] > s["max_idle"]
  IN  [f \in Limits \cup {"flags"} |->
         CASE f = "flags" -> IF odd THEN s[f] \ {"fake_idle"} ELSE s[f]
           [] f \in {"min_idle", "max_idle"} /\ odd -> 0
           [] OTHER -> s[f]]
MotdMade(s) == IF s["file"] = "" THEN {}
               ELSE {<<"motd", s["mask"][n], s["file"]>> : n \in DOMAIN s["mask"]}
LogMade(s) == IF s["type"] = "" \/ s["file"] = "" THEN {}
              ELSE {<<"log", s["type"], s["file"], s["size"]>>}
PseudoMade(s) ==
  IF \/ "" \in {s["command"], s["name"], s["nick"], s["host"]}
     \/ s["command"] \in Commands \cup {o[2] : o \in {p \in others : p[1] = "pseudo"}} THEN {}
  ELSE {<<"pseudo", s["command"], s["name"], s["nick"], s["host"], s["prepend"]>>}
\* The one log file of a type is the last that was named for it.
OthersMade(kind, s) ==
  CASE kind = "motd" -> others \cup MotdMade(s)
    [] kind = "logfile" -> LogMade(s) \cup
         {o \in others : LogMade(s) = {} \/ o[1] # "log" \/ o[2] # s["type"]}
    [] kind = "pseudo" -> others \cup PseudoMade(s)
    [] OTHER -> others

\* Without an address a port is for both protocols.
PortsOf(s, v) ==
  {<<p, a, s["flags"]>> :
     p \in Taken(v), a \in IF s["addr"] = "" THEN {"0.0.0.0", "::"}
                           ELSE {s["addr"]} \cap Addresses}
Opens(new) == new \cup {p \in ports : \A q \in new : <<q[1], q[2]>> # <<p[1], p[2]>>}

-----------------------------------------------------------------------------
\* The settings, with what set_default_conf makes of them.
GeneralDefaults ==
  [away_count |-> 2, away_time |-> 10, max_watch |-> 32, cycle_on_host_change |-> 1,
   gline_enable |-> 0, gline_duration |-> 43200, gline_request_duration |-> 600,
   gline_min_cidr |-> 16, gline_min_cidr6 |-> 48, invisible_on_connect |-> 1,
   tkline_expire_notices |-> 1, ignore_bogus_ts |-> 0, disable_auth |-> 0,
   kill_chase_time_limit |-> 90, default_floodcount |-> 8, failed_oper_notice |-> 1,
   dots_in_ident |-> 0, min_nonwildcard |-> 4, min_nonwildcard_simple |-> 3,
   max_accept |-> 20, anti_nick_flood |-> 0, max_nick_time |-> 20, max_nick_changes |-> 5,
   anti_spam_exit_message_time |-> 0, ts_warn_delta |-> 30, ts_max_delta |-> 600,
   warn_no_connect_block |-> 1, stats_e_disabled |-> 0, stats_i_oper_only |-> 1,
   stats_k_oper_only |-> 1, stats_o_oper_only |-> 1, stats_m_oper_only |-> 1,
   stats_P_oper_only |-> 0, stats_u_oper_only |-> 0, caller_id_wait |-> 60,
   opers_bypass_callerid |-> 0, pace_wait |-> 10, pace_wait_simple |-> 1, short_motd |-> 0,
   ping_cookie |-> 0, no_oper_flood |-> 0, oper_pass_resv |-> 1, max_targets |-> 4,
   oper_only_umodes |-> {"debug"}, oper_umodes |-> {"bots", "locops", "servnotice", "wallop"},
   throttle_count |-> 1, throttle_time |-> 1]
ChannelDefaults ==
  [disable_fake_channels |-> 0, invite_client_count |-> 10, invite_client_time |-> 300,
   knock_client_count |-> 1, knock_client_time |-> 300, knock_delay_channel |-> 60,
   max_channels |-> 25, max_bans |-> 25, default_split_user_count |-> 0,
   default_split_server_count |-> 0, no_join_on_split |-> 0, no_create_on_split |-> 0]
HideDefaults ==
  [flatten_links |-> 0, links_delay |-> 300, hidden |-> 0, hide_servers |-> 0,
   hide_services |-> 0, hidden_name |-> "network", hide_server_ips |-> 0,
   disable_remote_commands |-> 0]
\* What a read keeps: the name and the sid of the server, and the certificate of the
\* SSL context, which takes effect only with a key.
ServerDefaults(old) ==
  [name |-> old.name, sid |-> old.sid, ssl_certificate_file |-> old.ssl_certificate_file,
   rsa_private_key_file |-> "", description |-> "", network_name |-> "network",
   network_desc |-> "a network", vhost |-> "", vhost6 |-> "", max_clients |-> 1000,
   max_nick_length |-> 9, max_topic_length |-> 80, hub |-> 0]
AdminDefaults == [name |-> "", email |-> "", description |-> ""]

\* set: what SET can change, which only a start of the server sets to its defaults.
Defaults(old) ==
  [general |-> GeneralDefaults, channel |-> ChannelDefaults, serverhide |-> HideDefaults,
   serverinfo |-> ServerDefaults(old.serverinfo), admin |-> AdminDefaults,
   log |-> [use_logging |-> 1], set |-> old.set]
Unset == [name |-> "", sid |-> "", ssl_certificate_file |-> ""]

\* A file that holds the key file makes the certificate usable only in the second pass.
SecondOnly == {"cycle_on_host_change", "gline_enable", "gline_duration",
               "gline_request_duration", "ts_max_delta"}
InPass(sec, k) ==
  CASE k = "rsa_private_key_file" -> pass = 1
    [] sec = "general" -> k \in SecondOnly => pass = 2
    [] sec = "channel" -> TRUE
    [] OTHER -> pass = 2

Between(low, v, high) == IF v < low THEN low ELSE Capped(v, high)
\* What a rehash does not change
Identity(v, old) == IF old = "" THEN v ELSE old
Vhost(v, old) == IF v \in Addresses THEN v ELSE old
KeyFile(v) == IF v \in Invalid THEN "" ELSE v
Certificate(v, old) ==
  IF v \in Invalid \/ settings.serverinfo.rsa_private_key_file = "" THEN old ELSE v
ServerInfo(k, v, old) ==
  CASE k \in {"name", "sid"} -> Identity(v, old)
    [] k = "max_clients" -> Between(32, v, 1000)
    [] k = "max_nick_length" -> Between(9, v, 30)
    [] k = "max_topic_length" -> Between(80, v, 300)
    [] k \in {"vhost", "vhost6"} -> Vhost(v, old)
    [] k = "rsa_private_key_file" -> KeyFile(v)
    [] k = "ssl_certificate_file" -> Certificate(v, old)
    [] OTHER -> v
OperUmodes(v) == Taken(v)
OperOnlyUmodes(v) == Taken(v)
NewValue(sec, k, v, old) ==
  CASE sec = "serverinfo" -> ServerInfo(k, v, old)
    [] k = "oper_umodes" -> OperUmodes(v)
    [] k = "oper_only_umodes" -> OperOnlyUmodes(v)
    [] OTHER -> v
SetItem(sec, k, v) ==
  LET to == IF k \in {"join_flood_count", "join_flood_time"} THEN "set" ELSE sec
  IN  IF InPass(sec, k) THEN [settings EXCEPT ![to][k] = NewValue(sec, k, v, @)] ELSE settings

Validated(c) ==
  [c EXCEPT !.general.ts_warn_delta = IF @ < 10 THEN 30 ELSE @,
            !.general.ts_max_delta = IF @ < 10 THEN 600 ELSE @,
            !.general.max_watch = IF @ < 1 THEN 1 ELSE @,
            !.serverinfo.network_name = IF @ = "" THEN "network" ELSE @]
\* initialize_global_set_options, called once, when the file has been read.
Started(c) ==
  [c EXCEPT !.set = [join_flood_count |-> 16, join_flood_time |-> 8,
                     floodcount |-> IF c.general.default_floodcount = 0 THEN 10
                                    ELSE c.general.default_floodcount]]

-----------------------------------------------------------------------------
Parsing == pass # 0 /\ up # "exited"
Block == text[at[1]]
It == Block.items[at[2]]
Onward == at' = <<at[1], at[2] + 1>>

Init ==
  /\ file \in Files /\ text = << >> /\ up = "down" /\ pass = 0 /\ at = <<1, 0>> /\ st = Blank
  /\ settings = Defaults([serverinfo |-> Unset,
                          set |-> [join_flood_count |-> 0, join_flood_time |-> 0,
                                   floodcount |-> 0]])
  /\ confs = {} /\ class = << >> /\ ports = {} /\ others = {} /\ held = {} /\ asked = {}
  /\ reads = 0

ClearOutAsked ==
  /\ confs' = {} /\ ports' = {} /\ class' = << >>
  /\ others' = {o \in others : o[1] = "log"}
  /\ UNCHANGED asked
\* clear_out_old_conf, on a rehash only: a conf that somebody has attached is kept until
\* he lets go of it, and its query with it.
ClearOut ==
  /\ confs' = {} /\ ports' = {} /\ class' = << >>
  /\ others' = {o \in others : o[1] = "log"}
  /\ asked' = asked \cap held

\* read_conf_files: a file that cannot be opened ends a server that starts and leaves
\* one that runs as it was.
Open ==
  /\ pass = 0 /\ up \in {"down", "up"} /\ reads < MaxReads
  /\ IF file = << >>
     THEN /\ up' = IF up = "down" THEN "exited" ELSE up
          /\ UNCHANGED <<text, pass, at, settings, confs, class, ports, others, asked, reads>>
     ELSE /\ text' = file /\ pass' = 1 /\ at' = <<1, 0>> /\ reads' = reads + 1
          /\ up' = IF up = "down" THEN "boot" ELSE up
          /\ IF up = "up" THEN ClearOut
             ELSE UNCHANGED <<confs, class, ports, others, asked>>
          /\ settings' = Defaults(settings)
  /\ UNCHANGED <<file, st, held>>

\* A block opens.  read_conf deletes the log files, through set_default_conf.
Enter ==
  /\ Parsing /\ at[1] <= Len(text) /\ at[2] = 0
  /\ st' = IF pass = Own(Block.kind) /\ Block.kind \in Resetting THEN Opened(Block.kind) ELSE st
  /\ others' = IF pass = 1 /\ at[1] = 1 THEN {o \in others : o[1] # "log"} ELSE others
  /\ Onward
  /\ UNCHANGED <<file, text, up, pass, settings, confs, class, ports, held, asked, reads>>

\* An item of a block that is gathered; the ports of a listener are opened at once.
Gather ==
  /\ Parsing /\ at[1] <= Len(text) /\ at[2] \in 1..Len(Block.items)
  /\ Block.kind \in Gathered
  /\ st' = IF pass = Own(Block.kind) THEN Item(Block.kind, st, It.k, It.v)
           ELSE EitherPass(Block.kind, st, It.k, It.v)
  /\ ports' = IF pass = 2 /\ Block.kind = "listen" /\ It.k = "port"
              THEN Opens(PortsOf(st, It.v)) ELSE ports
  /\ Onward
  /\ UNCHANGED <<file, text, up, pass, settings, confs, class, others, held, asked, reads>>

\* An item of the other blocks has its effect at once.  A name that is no server's and
\* an example that was not edited end the program.
Set ==
  /\ Parsing /\ at[1] <= Len(text) /\ at[2] \in 1..Len(Block.items)
  /\ Block.kind \in DOMAIN settings
  /\ LET k == It.k
         fatal == \/ k = "havent_read_conf" /\ pass = 1
                  \/ /\ Block.kind = "serverinfo" /\ k \in {"name", "sid"} /\ pass = 2
                     /\ settings.serverinfo[k] = "" /\ It.v \in Invalid
     IN  /\ up' = IF fatal THEN "exited" ELSE up
         /\ settings' = IF fatal \/ k \in {"error", "havent_read_conf"} THEN settings
                        ELSE SetItem(Block.kind, k, It.v)
  /\ Onward
  /\ UNCHANGED <<file, text, pass, st, confs, class, ports, others, held, asked, reads>>
Direct ==
  /\ Parsing /\ at[1] <= Len(text) /\ at[2] \in 1..Len(Block.items)
  /\ Block.kind \in {"modules", "service", "exempt"}
  /\ IF pass = 1 \/ It.k = "error" THEN UNCHANGED <<confs, others>>
     ELSE /\ confs' = confs \cup
               CASE Block.kind = "service" /\ It.v \notin Invalid ->
                      {Conf("service", Put(Blank, "name", It.v), {"name"}, << >>)}
                 [] Block.kind = "exempt" /\ It.v \in Addresses ->
                      {Conf("exempt", Put(Blank, "host", It.v), {"host"}, << >>)}
                 [] OTHER -> {}
          /\ others' = IF Block.kind = "modules" THEN others \cup {<<It.k, It.v>>} ELSE others
  /\ Onward
  /\ UNCHANGED <<file, text, up, pass, st, settings, class, ports, held, asked, reads>>

\* A block closes.  The host of a server is looked up unless it is an address.
Leave ==
  /\ Parsing /\ at[1] <= Len(text) /\ at[2] = Len(Block.items) + 1
  /\ LET mine == pass = Own(Block.kind)
         new == IF mine THEN Made(Block.kind, st) ELSE {}
     IN  /\ confs' = confs \cup new
         /\ asked' = asked \cup {c \in new : c.type = "connect" /\ c.said["host"] \notin Addresses}
         /\ class' = IF mine /\ Block.kind = "class" /\ st["class"] # ""
                     THEN [c \in DOMAIN class \cup {st["class"]} |->
                             IF c = st["class"] THEN ClassMade(st) ELSE class[c]]
                     ELSE class
         /\ others' = IF mine THEN OthersMade(Block.kind, st) ELSE others
  /\ at' = <<at[1] + 1, 0>>
  /\ UNCHANGED <<file, text, up, pass, st, settings, ports, held, reads>>

\* The file ends: the second pass, or main(), which ends without a name or a sid.
Again ==
  /\ Parsing /\ at[1] > Len(text) /\ pass = 1
  /\ pass' = 2 /\ at' = <<1, 0>>
  /\ UNCHANGED <<file, text, up, st, settings, confs, class, ports, others, held, asked, reads>>
Done ==
  /\ Parsing /\ at[1] > Len(text) /\ pass = 2
  /\ pass' = 0
  /\ settings' = IF up = "boot" THEN Started(Validated(settings)) ELSE Validated(settings)
  /\ up' = IF up = "boot" /\ "" \in {settings.serverinfo.name, settings.serverinfo.sid,
                                     settings.serverinfo.description}
           THEN "exited" ELSE "up"
  /\ UNCHANGED <<file, text, at, st, confs, class, ports, others, held, asked, reads>>

-----------------------------------------------------------------------------
\* What happens between the reads: the file is edited, a conf is attached and let go of,
\* and the answer to a query writes the address of its conf.
Edit == /\ pass = 0 /\ reads < MaxReads /\ \E f \in Files : f # file /\ file' = f
        /\ UNCHANGED <<text, up, pass, at, st, settings, confs, class, ports, others, held,
                       asked, reads>>
Attach(c) == /\ pass = 0 /\ up = "up" /\ c.type \in {"oper", "connect"} /\ held' = held \cup {c}
             /\ UNCHANGED <<file, text, up, pass, at, st, settings, confs, class, ports,
                            others, asked, reads>>
Detach(c) == /\ pass = 0 /\ held' = held \ {c}
             /\ asked' = IF c \in confs THEN asked ELSE asked \ {c}
             /\ UNCHANGED <<file, text, up, pass, at, st, settings, confs, class, ports,
                            others, reads>>
Answer(c) == /\ pass = 0 /\ asked' = asked \ {c}
             /\ UNCHANGED <<file, text, up, pass, at, st, settings, confs, class, ports,
                            others, held, reads>>

Next == \/ Open \/ Enter \/ Gather \/ Set \/ Direct \/ Leave \/ Again \/ Done \/ Edit
        \/ \E c \in confs \ held : Attach(c)
        \/ \E c \in held : Detach(c)
        \/ \E c \in asked : Answer(c)

Spec == Init /\ [][Next]_fileVars

-----------------------------------------------------------------------------
FileTypeOK ==
  /\ file \in Files /\ text \in Files \cup {<< >>} /\ up \in {"down", "boot", "up", "exited"}
  /\ pass \in 0..2 /\ at \in Nat \X Nat /\ reads \in 0..MaxReads
  /\ DOMAIN st = DOMAIN Blank /\ DOMAIN class \subseteq STRING
  /\ \A c \in confs \cup held : c.read \in 1..reads /\ c.class \in STRING

\* block_state as the items of block b alone leave it.
Alone(b) ==
  LET after[n \in 0..Len(b.items)] ==
        IF n = 0 THEN Opened(b.kind)
        ELSE Item(b.kind, after[n - 1], b.items[n].k, b.items[n].v)
  IN  after[Len(b.items)]
\* The same, before item n.
Before(b, n) == Alone([b EXCEPT !.items = SubSeq(b.items, 1, n - 1)])
Blocks(kind) == {text[n] : n \in {m \in DOMAIN text : text[m].kind = kind}}
AlonePorts ==
  UNION {UNION {PortsOf(Before(b, n), b.items[n].v) :
                n \in {m \in DOMAIN b.items : b.items[m].k = "port"}} : b \in Blocks("listen")}
Said(sec, k) ==
  {<<m, n>> \in (DOMAIN text) \X (1..10) :
     /\ text[m].kind = sec /\ n \in DOMAIN text[m].items /\ text[m].items[n].k = k}
Latest(places) ==
  CHOOSE p \in places : \A q \in places : q[1] < p[1] \/ (q[1] = p[1] /\ q[2] <= p[2])

Loaded == up = "up" /\ pass = 0 /\ reads > 0

\* What a block makes is what its own items say, whatever blocks come before it: nothing
\* of block_state is left from one block to the next, nor from the first pass to the
\* second (reset_block_state, conf_parser.y 127-152, at each block that uses it).  RESVs
\* and pseudo commands are made of the first block that names them.
Isolated ==
  Loaded =>
  /\ \A c \in confs : c.type \in Gathered =>
       \E b \in Blocks(c.type) : c \in Made(c.type, Alone(b)) \/ c.type = "resv"
  /\ \A b \in {text[n] : n \in DOMAIN text} : \A c \in Made(b.kind, Alone(b)) : c \in confs
  /\ \A b \in Blocks("class") :
       Alone(b)["class"] # "" =>
         \E d \in Blocks("class") : /\ Alone(d)["class"] = Alone(b)["class"]
                                    /\ class[Alone(b)["class"]] = ClassMade(Alone(d))
  /\ ports \subseteq AlonePorts
  /\ \A p \in AlonePorts : \E q \in ports : <<p[1], p[2]>> = <<q[1], q[2]>>

\* Every conf is in the class its block names when the file declares it, even further
\* down: the classes are read in a pass of their own (conf.c 901-919).
Classed ==
  Loaded => \A kind \in {"oper", "auth", "connect"} : \A b \in Blocks(kind) :
    LET c == Alone(b)["class"]
    IN  (\E d \in Blocks("class") : Alone(d)["class"] = c /\ c # "") =>
          \A made \in Made(kind, Alone(b)) : made.class = c

\* A setting is what the file just read says last, or its default when the file does not
\* speak of it any more: nothing stays of what an earlier file said (conf.c 752-875).
SettingsRead ==
  Loaded => \A sec \in DOMAIN settings \ {"set"} :
    \A k \in DOMAIN settings[sec] \ {"name", "sid", "ssl_certificate_file"} :
      LET old == Defaults(settings)[sec][k]
          p == Latest(Said(sec, k))
          v == text[p[1]].items[p[2]].v
      IN  settings[sec][k] =
            Validated([settings EXCEPT ![sec][k] = IF Said(sec, k) = {} THEN old
                                                   ELSE NewValue(sec, k, v, old)])[sec][k]

\* The answer to a query finds its conf: a conf that is freed takes its query with it
\* (conf_free, conf.c 184-185), and one that is attached through a rehash is not freed.
AnswersFind == asked \subseteq confs \cup held

\* join_flood_count is what the file says.  It is not: a start sets it to 16 after it
\* has read the file, and a rehash does not set it to a default (ircd.c 273-274).
FloodRead ==
  Loaded => LET p == Latest(Said("channel", "join_flood_count"))
            IN  Said("channel", "join_flood_count") # {} =>
                  settings.set.join_flood_count = text[p[1]].items[p[2]].v
=============================================================================

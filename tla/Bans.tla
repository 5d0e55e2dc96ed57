-------------------------------- MODULE Bans --------------------------------
(***************************************************************************)
(* The bans of one server: K-, D- and G-lines on masks of addresses, X-lines *)
(* on the real name of a client and RESVs of names.  They come from the     *)
(* configuration file, from operators here and elsewhere, by the vote of    *)
(* three operators (G-lines), and from the database files of the last save. *)
(*                                                                         *)
(* An address is a number of two bits and every mask is of any username.    *)
(* The time until a ban expires is counted down, on disk too.              *)
(***************************************************************************)
EXTENDS Integers, SequencesExt, FiniteSets

CONSTANTS Clients,
          Ips,      \* addresses, of 0..3
          Nets,     \* masks, <<address, bits>>, for K-, D- and G-lines
          Names,    \* real names, for X-lines, and what RESVs are on
          Files,    \* configuration files: bans in their order, exempt addresses, glines
          Opers,    \* <<server, user@host>>: the operators who vote
          Exemptions, \* sets of the lines an auth{} block may exempt from: K, G
          Life,     \* of a temporary ban and of a G-line
          Lives,    \* what an operator may give: Life, and Perm for no time
          Request,  \* gline_request_time
          MinBits,  \* the widest mask an operator may D-line
          Step,     \* bits that a mask is hashed by: 8
          Placed,   \* <<type, mask>>: the bans that operators place and take back
          MaxBans   \* bound on the bans

Perm == 0 - 1
Types == {"K", "D", "G", "X", "R"}
Lines == {"K", "D", "G"}

ASSUME BansConstants ==
  /\ \A f \in Files : f.bans \in Seq(({"K", "D"} \X Nets) \cup ({"X", "R"} \X Names))
  /\ Life \in Nat /\ Lives \subseteq (0 - 1)..Life

VARIABLES client,   \* the connections
          bans,     \* in the order of precedence
          pending,  \* votes for and against a G-line
          conf,     \* the file that was read last
          disk,     \* the files of the database: [type, mask, ttl]
          gone      \* history: what of disk has been taken back or has expired

banVars == <<client, bans, pending, conf, disk, gone>>

NoClient == [stage |-> "free", ip |-> 0, name |-> 0, exempt |-> {}]
NoVotes == [votes |-> << >>, age |-> 0]
Kinds == {"add", "del"}

Ban(t, m, ttl, db) == [type |-> t, mask |-> m, ttl |-> ttl, db |-> db]
Record(b) == [type |-> b.type, mask |-> b.mask, ttl |-> b.ttl]

Filed(f) == [i \in DOMAIN f.bans |-> Ban(f.bans[i][1], f.bans[i][2], Perm, FALSE)]
\* The bans of bs at the places in is, in their order
Those(bs, is) ==
  LET from[i \in 0..Len(bs)] == IF i = 0 THEN << >>
                                ELSE IF i \in is THEN Append(from[i - 1], bs[i])
                                ELSE from[i - 1]
  IN from[Len(bs)]

BansTypeOK ==
  /\ \A c \in Clients : client[c].stage \in {"free", "unknown", "client"}
  /\ \A i \in DOMAIN bans :
       /\ bans[i].type \in Types /\ bans[i].ttl \in Perm..Life
       /\ bans[i].mask \in IF bans[i].type \in Lines THEN Nets ELSE Names
  /\ \A k \in Kinds, m \in Nets : pending[k][m].votes \in Seq(Opers)
                                   /\ Len(pending[k][m].votes) <= 2
  /\ conf \in Files
  /\ \A r \in disk \cup gone : r.type \in Types /\ r.ttl \in Perm..Life

BansInit ==
  /\ client = [c \in Clients |-> NoClient]
  /\ conf \in Files /\ bans = Filed(conf)
  /\ pending = [k \in Kinds |-> [m \in Nets |-> NoVotes]]
  /\ disk = {} /\ gone = {}

-----------------------------------------------------------------------------
(* Nets *)

Prefix(a, bits) == a \div 2 ^ (2 - bits)
Covers(m, a) == Prefix(m[1], m[2]) = Prefix(a, m[2])
\* The chain of atable that a mask hashes to: by whole steps of its bits
Chain(m) == LET bits == m[2] - (m[2] % Step) IN <<bits, Prefix(m[1], bits)>>

\* find_conf_by_address: indices of the lines of type t that cover a, best first
Found(t, a) == {i \in DOMAIN bans : bans[i].type = t /\ Covers(bans[i].mask, a)}
Best(is) == CHOOSE i \in is : \A j \in is : i <= j

Exempt(f, a) == a \in f.exempt

\* conf_try_ban: is c out if it is matched by bans of this kind?
Spared(f, c, t) ==
  \/ t = "K" /\ "K" \in c.exempt
  \/ t = "G" /\ c.exempt # {}
  \/ t = "D" /\ Exempt(f, c.ip)

Hit(bs, c, t) == \E i \in DOMAIN bs : /\ bs[i].type = t
                                      /\ IF t = "X" THEN bs[i].mask = c.name
                                         ELSE Covers(bs[i].mask, c.ip)

-----------------------------------------------------------------------------
(* Clients *)

\* add_connection: conf_connect_allowed looks for a D-line
Accept(c, a) ==
  /\ client[c].stage = "free"
  /\ Exempt(conf, a) \/ Found("D", a) = {}
  /\ client' = [client EXCEPT ![c] = [NoClient EXCEPT !.stage = "unknown", !.ip = a]]
  /\ UNCHANGED <<bans, pending, conf, disk, gone>>

\* check_client, with the exemptions of the auth{} block, then check_xline
Register(c, name, ex) ==
  /\ client[c].stage = "unknown"
  /\ LET me == [client[c] EXCEPT !.stage = "client", !.name = name,
                                 !.exempt = ex]
     IN  client' = [client EXCEPT ![c] =
           IF \/ Hit(bans, me, "X")
              \/ Hit(bans, me, "K") /\ "K" \notin ex
              \/ Hit(bans, me, "G") /\ ex = {}
           THEN NoClient ELSE me]
  /\ UNCHANGED <<bans, pending, conf, disk, gone>>

Leave(c) ==
  /\ client[c].stage # "free" /\ client' = [client EXCEPT ![c] = NoClient]
  /\ UNCHANGED <<bans, pending, conf, disk, gone>>

-----------------------------------------------------------------------------
(* Bans of operators *)

\* check_kline, check_gline and check_xline look at users, check_dline at all.
Sees(t, c) == c.stage = "client" \/ (t = "D" /\ c.stage = "unknown")
Struck(b) ==
  [c \in Clients |-> IF /\ Sees(b.type, client[c]) /\ Hit(<<b>>, client[c], b.type)
                        /\ ~Spared(conf, client[c], b.type)
                     THEN NoClient ELSE client[c]]

\* Faulty variant: a ban is for those who come after it.
AddQuiet(b) ==
  /\ Len(bans) < MaxBans /\ bans' = Append(bans, b)
  /\ UNCHANGED client

Add(b) ==
  /\ Len(bans) < MaxBans /\ bans' = Append(bans, b)
  /\ client' = Struck(b)

\* mo_kline and ms_kline: one that the address of the mask is under already is refused.
Kline(m, ttl) ==
  /\ Found("K", m[1]) = {} /\ Add(Ban("K", m, ttl, TRUE))
  /\ UNCHANGED <<pending, conf, disk, gone>>

Dline(m, ttl) ==
  /\ m[2] >= MinBits /\ ~Exempt(conf, m[1]) /\ Found("D", m[1]) = {}
  /\ Add(Ban("D", m, ttl, TRUE))
  /\ UNCHANGED <<pending, conf, disk, gone>>

Named(t, n) == {i \in DOMAIN bans : bans[i].type = t /\ bans[i].mask = n}

\* mo_xline, and relay_xline: it takes the time from the parameter that ENCAP leaves 0.
Xline(n, ttl, remote) ==
  /\ Named("X", n) = {} /\ Add(Ban("X", n, IF remote THEN Perm ELSE ttl, TRUE))
  /\ UNCHANGED <<pending, conf, disk, gone>>

\* parse_resv.  It is for those who come after it.
Resv(n, ttl) ==
  /\ Named("R", n) = {} /\ Len(bans) < MaxBans
  /\ bans' = Append(bans, Ban("R", n, ttl, TRUE))
  /\ UNCHANGED <<client, pending, conf, disk, gone>>

-----------------------------------------------------------------------------
(* Taking a ban back *)

Lift(i) ==
  /\ bans' = Those(bans, DOMAIN bans \ {i})
  /\ gone' = gone \cup ({Record(bans[i])} \cap disk)

\* remove_kline_match, remove_dline_match, remove_gline_match: the best line that covers
\* the address of m, if no file has it and it hashes where m does.
Unline(t, m) ==
  LET i == Best(Found(t, m[1])) IN
  IF Found(t, m[1]) # {} /\ bans[i].db /\ Chain(bans[i].mask) = Chain(m)
    THEN Lift(i) ELSE UNCHANGED <<bans, gone>>

UnKline(m) == Unline("K", m) /\ UNCHANGED <<client, pending, conf, disk>>
UnDline(m) == Unline("D", m) /\ UNCHANGED <<client, pending, conf, disk>>

\* remove_xline_exact passes over those of the file, remove_resv does not.
UnXline(n) ==
  /\ \E i \in Named("X", n) : bans[i].db /\ Lift(i)
  /\ UNCHANGED <<client, pending, conf, disk>>
UnResv(n) ==
  /\ \E i \in Named("R", n) : bans[i].db /\ Lift(i)
  /\ UNCHANGED <<client, pending, conf, disk>>

-----------------------------------------------------------------------------
(* G-lines *)

\* expire_pending_glines
Current(p) == [k \in Kinds |-> [m \in Nets |-> IF p[k][m].age >= Request THEN NoVotes
                                                ELSE p[k][m]]]
SameVoter(o, q) == o[1] = q[1] \/ o[2] = q[2]

\* check_majority for operator o, who is of this server or another
Vote(kind, m, o) ==
  LET now == Current(pending)
      v == now[kind][m].votes
      Put(w) == pending' = [now EXCEPT ![kind][m] = w]
  IN
  /\ conf.glines
  /\ \/ /\ \/ kind = "add" /\ Found("G", m[1]) # {}
           \/ \E i \in DOMAIN v : SameVoter(o, v[i])
        /\ pending' = now /\ UNCHANGED <<client, bans, gone>>
     \/ /\ kind = "del" \/ Found("G", m[1]) = {}
        /\ \A i \in DOMAIN v : ~SameVoter(o, v[i])
        /\ \/ /\ Len(v) < 2
              /\ Put([votes |-> Append(v, o), age |-> 0])
              /\ UNCHANGED <<client, bans, gone>>
           \/ /\ Len(v) = 2 /\ kind = "add"
              /\ Put(NoVotes) /\ Add(Ban("G", m, Life, TRUE)) /\ UNCHANGED gone
           \/ /\ Len(v) = 2 /\ kind = "del"
              /\ Put(NoVotes) /\ Unline("G", m) /\ UNCHANGED client
  /\ UNCHANGED <<conf, disk>>

-----------------------------------------------------------------------------
(* Time *)

Older(b) == [b EXCEPT !.ttl = IF @ > 0 THEN @ - 1 ELSE @]

Tick ==
  /\ bans' = [i \in DOMAIN bans |-> Older(bans[i])]
  /\ disk' = {Older(r) : r \in disk} /\ gone' = {Older(r) : r \in gone}
  /\ pending' = [k \in Kinds |-> [m \in Nets |->
       IF pending[k][m].votes # << >> /\ pending[k][m].age < Request
       THEN [pending[k][m] EXCEPT !.age = @ + 1] ELSE pending[k][m]]]
  /\ UNCHANGED <<client, conf>>

\* hostmask_expire_temporary and expire_tklines: until is 0 or has not come.
Live(b) == b.ttl # 0

\* cleanup_tklines
CleanTklines ==
  /\ bans' = Those(bans, {i \in DOMAIN bans : Live(bans[i])})
  /\ gone' = gone \cup ({Record(bans[i]) : i \in {j \in DOMAIN bans : ~Live(bans[j])}}
                     \cap disk)
  /\ UNCHANGED <<client, pending, conf, disk>>

\* cleanup_glines
CleanGlines == pending' = Current(pending) /\ UNCHANGED <<client, bans, conf, disk, gone>>

-----------------------------------------------------------------------------
(* Files *)

\* check_conf_klines: the first kind that matches decides, and may spare the client.
Order == << "D", "G", "K", "X" >>
Swept(bs, f) ==
  [c \in Clients |->
    LET d == client[c]
        tried == {i \in 1..4 : Hit(bs, d, Order[i]) /\ (Order[i] = "G" => f.glines)}
        first == Order[Best(tried)]
    IN  IF \/ d.stage = "client" /\ tried # {} /\ ~Spared(f, d, first)
           \/ d.stage = "unknown" /\ Hit(bs, d, "D") /\ ~Spared(f, d, "D")
        THEN NoClient ELSE d]

\* Faulty variant: the lines of operators go with those of the old file.
KeptNone(b) == b.ttl # Perm /\ b.type \in Lines

\* clear_out_old_conf and clear_out_address_conf: the lists of X-lines and RESVs are
\* emptied, whoever put them there.
Kept(b) == b.type \in Lines /\ (b.ttl # Perm \/ b.db)

\* conf_rehash
Rehash(f) ==
  /\ conf' = f
  /\ bans' = Those(bans, {i \in DOMAIN bans : Kept(bans[i])}) \o Filed(f)
  /\ client' = Swept(bans', f)
  /\ UNCHANGED <<pending, disk, gone>>

\* save_all_databases; a file that cannot be written, or was not yet when the server
\* died, stays what it was.
Save(S) ==
  /\ disk' = {r \in disk : r.type \notin S}
             \cup {Record(b) : b \in {bans[i] : i \in {j \in DOMAIN bans :
                                                 bans[j].db /\ bans[j].type \in S}}}
  /\ gone' = {r \in gone : r.type \notin S}
  /\ UNCHANGED <<client, bans, pending, conf>>

\* The server comes up: the file, then the databases; a RESV the file has is not loaded.
Restart ==
  LET new == {r \in disk : r.type = "R" => \A i \in DOMAIN conf.bans : conf.bans[i] # <<"R", r.mask>>} IN
  /\ \E loaded \in SetToSeqs({Ban(r.type, r.mask, r.ttl, TRUE) : r \in new}) :
       bans' = Filed(conf) \o loaded
  /\ client' = [c \in Clients |-> NoClient]
  /\ pending' = [k \in Kinds |-> [m \in Nets |-> NoVotes]]
  /\ gone' = {r \in disk : r \notin new}
  /\ UNCHANGED <<conf, disk>>

-----------------------------------------------------------------------------
\* placed: what operators place and take back
BansNext(placed) ==
  \/ \E c \in Clients :
       \/ \E a \in Ips : Accept(c, a)
       \/ \E n \in Names, ex \in Exemptions : Register(c, n, ex)
       \/ Leave(c)
  \/ \E m \in Nets :
       \/ <<"K", m>> \in placed /\ (UnKline(m) \/ \E ttl \in Lives : Kline(m, ttl))
       \/ <<"D", m>> \in placed /\ (UnDline(m) \/ \E ttl \in Lives : Dline(m, ttl))
       \/ <<"G", m>> \in placed /\ \E k \in Kinds, o \in Opers : Vote(k, m, o)
  \/ \E n \in Names, ttl \in Lives :
       \/ <<"X", n>> \in placed /\ (UnXline(n) \/ \E remote \in BOOLEAN : Xline(n, ttl, remote))
       \/ <<"R", n>> \in placed /\ (UnResv(n) \/ Resv(n, ttl))
  \/ Tick \/ CleanTklines \/ CleanGlines
  \/ \E f \in Files : Rehash(f)
  \/ \E S \in {Types, Lines} : Save(S)
  \/ Restart

BansSpec == BansInit /\ [][BansNext(Placed)]_banVars

-----------------------------------------------------------------------------
\* Nobody who is not exempt in any way is here under a ban: not one who came before it,
\* not one who came by while the file changed.
NoBannedUser ==
  \A c \in Clients :
    LET d == client[c] IN
    d.stage # "free" /\ ~Exempt(conf, d.ip) =>
      /\ ~Hit(bans, d, "D")
      /\ d.stage = "client" /\ d.exempt = {} =>
           \A t \in {"K", "G", "X"} : ~Hit(bans, d, t)

\* What is on disk for the next start is in force until an operator, a vote or its time
\* ends it, and no rehash does.
KeptIn(types) == \A r \in disk : r.type \in types =>
                   \/ \E i \in DOMAIN bans : bans[i].db /\ Record(bans[i]) = r
                   \/ r \in gone
LinesKept == KeptIn(Lines)

\* Nobody who is not exempt stays under a ban, whether the ban, the client or a new
\* file came last; and a line on disk is in force until an operator, a vote or its
\* time ends it: no rehash does (client.c 320-360, conf.c 1164-1202, hostmask.c, conf_db.c).
BansHold == NoBannedUser /\ LinesKept

\* NEWS 332: "binary database storage for X-,D-,K-,G-Lines and RESVs"
DatabaseKept == KeptIn(Types)
=============================================================================

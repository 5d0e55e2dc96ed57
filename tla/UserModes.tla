----------------------------- MODULE UserModes -----------------------------
(***************************************************************************)
(* The modes of users, operators and visible hosts (m_oper.c, m_challenge.c, *)
(* m_mode.c set_user_mode, m_svsmode.c, user.c, hash.c userhost) at the home *)
(* of some users and at a second server, far, which knows them by what home  *)
(* sends.  Services sit behind far, so that an SVSMODE passes it first.      *)
(***************************************************************************)
EXTENDS Integers, Sequences, FiniteSets, SequencesExt

CONSTANTS
    Users,         \* connections of home, all with one username
    Ident,         \* those of them that ident answered for
    Hosts,         \* visible hosts that services give; 1 is everyone's own
    Files,         \* oper{} blocks of a file: name -> [for, modes, flags, key]
    OperUmodes,    \* general::oper_umodes
    OperOnly,      \* general::oper_only_umodes
    OnConnect,     \* what a new user gets: {"i"} for invisible_on_connect
    Asks, Orders,  \* what users say in MODE and services in SVSMODE: pairs of "+" or "-"
                   \* and a mode
    MaxOps         \* bound: commands

VARIABLES
    user,       \* at home: [id, ts, modes, host, flags, conf, asked, given]; id 0: not there
    view,       \* at far: [id, ts, modes, host]
    count,      \* server -> [oper, invisi]
    operList,   \* oper_list of home
    userhost,   \* server -> host -> [g, l, i]
    confs,      \* oper{} blocks in memory: <<name, read>> -> the block, ref and active
    toFar, toHome,
    ops,
    crossed     \* history: users of whom a change met one that came from the other side

\* In the order of user_modes[]
Letters == <<"a", "i", "l", "o", "w", "x">>

\* A block as a file has it.  invisible_on_connect is all that gives a new user a mode
\* (user.c 578-613).
Written == [for : SUBSET (Hosts \cup {1}), modes : SUBSET Range(Letters),
            flags : SUBSET STRING, key : BOOLEAN]
ASSUME ModesConstants ==
  /\ IsFiniteSet(Users) /\ MaxOps \in Nat
  /\ OperUmodes \cup OperOnly \subseteq Range(Letters) /\ OnConnect \subseteq {"i"}
  /\ \A f \in Files : \A b \in DOMAIN f : f[b] \in Written
  /\ Asks \cup Orders \subseteq Seq({"+", "-"} \X Range(Letters))

modeVars == <<user, view, count, operList, userhost, confs, toFar, toHome, ops, crossed>>

NoBlock == << >>
Nobody == ""
Admin == "admin"
Gone == [id |-> 0, ts |-> 0, modes |-> {}, host |-> 1, flags |-> {}, conf |-> NoBlock,
         asked |-> Nobody, given |-> {}]
Unseen == [id |-> 0, ts |-> 0, modes |-> {}, host |-> 1]
On(u) == user[u].id # 0
Known(u) == view[u].id # 0

-----------------------------------------------------------------------------
(* Hash table of user@host *)

Zero == [g |-> 0, l |-> 0, i |-> 0]
Entry(t, h) == IF h \in DOMAIN t THEN t[h] ELSE Zero
Less(k) == IF k > 0 THEN k - 1 ELSE 0

AddUserHost(t, u, h, global) ==
  LET e == Entry(t, h)
      one == IF global THEN 0 ELSE 1
      new == [g |-> e.g + 1, l |-> e.l + one, i |-> e.i + (IF u \in Ident THEN one ELSE 0)]
  IN  [k \in DOMAIN t \cup {h} |-> IF k = h THEN new ELSE t[k]]

\* A name without users is freed, and a host without names.
DeleteUserHost(t, u, h, global) ==
  LET e == Entry(t, h)
      new == IF global THEN [e EXCEPT !.g = Less(@)]
             ELSE [g |-> Less(e.g), l |-> Less(e.l),
                   i |-> IF u \in Ident THEN Less(e.i) ELSE e.i]
  IN  IF h \notin DOMAIN t THEN t
      ELSE IF new.g = 0 /\ new.l = 0 THEN [k \in DOMAIN t \ {h} |-> t[k]]
      ELSE [t EXCEPT ![h] = new]

\* user_set_hostmask: also a "-x" sets the host that comes with it.
Masked(r, what, h) ==
  IF r.host = h THEN r
  ELSE [r EXCEPT !.host = h, !.modes = IF what = "+" THEN @ \cup {"x"} ELSE @ \ {"x"}]
Moved(t, u, old, new, global) ==
  IF old = new THEN t
  ELSE AddUserHost(DeleteUserHost(t, u, old, global), u, new, global)

-----------------------------------------------------------------------------
(* Mode changes.  r: [modes, host, oper, invisi, down]: the last three are what is   *)
(* added to the counters and whether a local operator was one no longer.              *)

Start(modes, host) == [modes |-> modes, host |-> host, oper |-> 0, invisi |-> 0, down |-> FALSE]
Put(r, c) == [r EXCEPT !.modes = IF c[1] = "+" THEN @ \cup {c[2]} ELSE @ \ {c[2]}]

\* Faulty variant: ClearOper leaves +a.
DeoppedAdmin(r, mine) ==
  [r EXCEPT !.modes = (@ \ {"o"}) \ (IF mine THEN OperOnly ELSE {}), !.oper = @ - 1, !.down = mine]

\* ClearOper takes +a as well; a local operator loses all that only operators have.
Deopped(r, mine) ==
  [r EXCEPT !.modes = (@ \ {"o", "a"}) \ (IF mine THEN OperOnly ELSE {}),
            !.oper = @ - 1, !.down = mine]

\* set_user_mode of one's own user, and of one that another server tells of
Own(r, c) ==
  LET is == "o" \in r.modes
  IN  IF c = <<"-", "o">> /\ is THEN Deopped(r, TRUE)
      ELSE IF c[2] \in {"o", "x"} \/ (c[2] \in OperOnly /\ ~is) THEN r
      ELSE Put(r, c)
Other(r, c) ==
  LET is == "o" \in r.modes
  IN  IF c = <<"-", "o">> /\ is THEN Deopped(r, FALSE)
      ELSE IF c = <<"+", "o">> /\ ~is THEN [Put(r, c) EXCEPT !.oper = @ + 1]
      ELSE IF c[2] \in {"o", "x"} THEN r
      ELSE Put(r, c)

More(r, k) == [r EXCEPT !.invisi = @ + k]

\* The counter of invisible users follows the difference.
Compared(r, old) ==
  More(r, CASE "i" \in r.modes \ old -> 1 [] "i" \in old \ r.modes -> -1 [] OTHER -> 0)

\* ms_svsmode: +o, S, W not at all; "i" counts at once.
Svs(r, c, h, mine) ==
  CASE c[2] = "o" -> IF c[1] = "-" /\ "o" \in r.modes THEN Deopped(r, mine) ELSE r
    [] c[2] = "x" -> Masked(r, c[1], h)
    [] c[2] = "i" -> Compared(Put([r EXCEPT !.invisi = 0], c), r.modes)
    [] OTHER -> Put(r, c)
SvsOne(r, c, h, mine) ==
  LET s == Svs(r, c, h, mine)
  IN  IF c[2] = "i" THEN More(s, r.invisi) ELSE s

\* One change after the other
OwnAll(r, cs) ==
  LET after[k \in 0..Len(cs)] == IF k = 0 THEN r ELSE Own(after[k - 1], cs[k])
  IN  after[Len(cs)]
OtherAll(r, cs) ==
  LET after[k \in 0..Len(cs)] == IF k = 0 THEN r ELSE Other(after[k - 1], cs[k])
  IN  after[Len(cs)]
SvsAll(r, cs, h, mine) ==
  LET after[k \in 0..Len(cs)] == IF k = 0 THEN r ELSE SvsOne(after[k - 1], cs[k], h, mine)
  IN  after[Len(cs)]

\* send_umode
Diff(old, new) ==
  LET changed == SelectSeq(Letters, LAMBDA m : m \in (old \ new) \cup (new \ old))
  IN  [k \in DOMAIN changed |-> <<IF changed[k] \in new THEN "+" ELSE "-", changed[k]>>]

Counted(c, r) == [oper |-> c.oper + r.oper, invisi |-> c.invisi + r.invisi]
ModesOf(u, old, new) ==
  IF old = new THEN << >> ELSE <<[type |-> "mode", u |-> u, id |-> user[u].id, cs |-> Diff(old, new)]>>

-----------------------------------------------------------------------------
(* oper{} blocks *)

Find(b) == LET k == {x \in DOMAIN confs : x[1] = b /\ confs[x].active}
           IN  IF k = {} THEN NoBlock ELSE CHOOSE x \in k : TRUE
\* The mask is that of the visible host or of the socket's, which is 1 for all.
Fits(k, u) == k # NoBlock /\ {user[u].host, 1} \cap confs[k].for # {}
Attached(cs, k) == [cs EXCEPT ![k].ref = @ + 1]
\* detach_conf: the last user of a block that is in the file no longer frees it.
Detached(cs, k) ==
  IF k = NoBlock THEN cs
  ELSE IF cs[k].ref = 1 /\ ~cs[k].active THEN [x \in DOMAIN cs \ {k} |-> cs[x]]
  ELSE [cs EXCEPT ![k].ref = @ - 1]

Step == ops < MaxOps /\ ops' = ops + 1
OnItsWay(q, u) == \E k \in DOMAIN q : q[k].u = u
Crossing(u) == crossed' = IF OnItsWay(toHome, u) THEN crossed \cup {u} ELSE crossed

-----------------------------------------------------------------------------
(* At home *)

Register(u) ==
  /\ Step /\ ~On(u)
  /\ user' = [user EXCEPT ![u] = [Gone EXCEPT !.id = ops + 1, !.ts = ops + 1, !.modes = OnConnect]]
  /\ count' = [count EXCEPT !["home"].invisi = @ + Cardinality(OnConnect \cap {"i"})]
  /\ userhost' = [userhost EXCEPT !["home"] = AddUserHost(@, u, 1, FALSE)]
  /\ toFar' = Append(toFar, [type |-> "uid", u |-> u, id |-> ops + 1, ts |-> ops + 1,
                             modes |-> OnConnect, host |-> 1])
  /\ crossed' = crossed \ {u}
  /\ UNCHANGED <<view, operList, confs, toHome>>

\* oper_up
OperUp(u, k, asked) ==
  LET old == user[u].modes
      b == confs[k]
      new == old \cup {"o"} \cup (IF b.modes # {} THEN b.modes ELSE OperUmodes)
                 \cup (IF Admin \in user[u].flags \cup b.flags THEN {"a"} ELSE {})
      r == Compared([Start(new, 1) EXCEPT !.oper = 1], old)
  IN  /\ user' = [user EXCEPT ![u].modes = new, ![u].flags = @ \cup b.flags, ![u].conf = k,
                              ![u].asked = asked]
      /\ count' = [count EXCEPT !["home"] = Counted(@, r)]
      /\ operList' = operList \cup {u}
      /\ confs' = Attached(confs, k)
      /\ toFar' = toFar \o ModesOf(u, old, new)
      /\ Crossing(u)

\* m_oper, with the right password
Oper(u, b) ==
  /\ Step /\ On(u) /\ "o" \notin user[u].modes
  /\ Fits(Find(b), u)
  /\ OperUp(u, Find(b), user[u].asked)
  /\ UNCHANGED <<view, userhost, toHome>>

\* m_challenge: an earlier challenge is forgotten; the new one is for a block with a key.
Challenge(u, b) ==
  /\ Step /\ On(u) /\ "o" \notin user[u].modes
  /\ LET k == Find(b)
     IN  user' = [user EXCEPT ![u].asked = IF Fits(k, u) /\ confs[k].key THEN b ELSE Nobody]
  /\ UNCHANGED <<view, count, operList, userhost, confs, toFar, toHome, crossed>>

\* m_challenge with the right answer: the block is looked up again, and the challenge
\* kept when it is not there.
Answer(u) ==
  /\ Step /\ On(u) /\ "o" \notin user[u].modes /\ user[u].asked # Nobody
  /\ LET k == Find(user[u].asked)
     IN  /\ Fits(k, u) /\ OperUp(u, k, Nobody)
  /\ UNCHANGED <<view, userhost, toHome>>

\* MODE: +a stays with those who have the flag.
Mode(u, cs) ==
  /\ Step /\ On(u)
  /\ LET old == user[u].modes
         r == OwnAll(Start(old, 1), cs)
         flags == IF r.down THEN {} ELSE user[u].flags
         new == IF Admin \in flags THEN r.modes ELSE r.modes \ {"a"}
     IN  /\ user' = [user EXCEPT ![u].modes = new, ![u].flags = flags,
                                 ![u].conf = IF r.down THEN NoBlock ELSE @,
                                 ![u].given = @ \cap new]
         /\ count' = [count EXCEPT !["home"] = Counted(@, Compared([r EXCEPT !.modes = new], old))]
         /\ operList' = IF r.down THEN operList \ {u} ELSE operList
         /\ confs' = IF r.down THEN Detached(confs, user[u].conf) ELSE confs
         /\ toFar' = toFar \o ModesOf(u, old, new)
  /\ Crossing(u) /\ UNCHANGED <<view, userhost, toHome>>

\* NICK gives a new TS.
Nick(u) ==
  /\ Step /\ On(u)
  /\ user' = [user EXCEPT ![u].ts = ops + 1]
  /\ toFar' = Append(toFar, [type |-> "nick", u |-> u, id |-> user[u].id, ts |-> ops + 1])
  /\ Crossing(u) /\ UNCHANGED <<view, count, operList, userhost, confs, toHome>>

\* What update_client_exit_stats takes off the counters
Left(c, modes) == [oper |-> c.oper - Cardinality(modes \cap {"o"}),
                   invisi |-> c.invisi - Cardinality(modes \cap {"i"})]

Exit(u) ==
  /\ Step /\ On(u)
  /\ user' = [user EXCEPT ![u] = Gone]
  /\ count' = [count EXCEPT !["home"] = Left(@, user[u].modes)]
  /\ operList' = IF "o" \in user[u].modes THEN operList \ {u} ELSE operList
  /\ userhost' = [userhost EXCEPT !["home"] = DeleteUserHost(@, u, user[u].host, FALSE)]
  /\ confs' = Detached(confs, user[u].conf)
  /\ toFar' = Append(toFar, [type |-> "quit", u |-> u, id |-> user[u].id])
  /\ UNCHANGED <<view, toHome, crossed>>

\* The blocks are read anew; one that an operator has stays until that one lets go.
Rehash(f) ==
  /\ Step
  /\ confs' = [k \in {x \in DOMAIN confs : confs[x].ref > 0} \cup {<<b, ops>> : b \in DOMAIN f} |->
                 IF k \in DOMAIN confs THEN [confs[k] EXCEPT !.active = FALSE]
                 ELSE [for |-> f[k[1]].for, modes |-> f[k[1]].modes, flags |-> f[k[1]].flags,
                       key |-> f[k[1]].key, ref |-> 0, active |-> TRUE]]
  /\ UNCHANGED <<user, view, count, operList, userhost, toFar, toHome, crossed>>

\* SVSMODE, for one whose TS it knows
RecvSvsmode ==
  /\ toHome # << >> /\ toHome' = Tail(toHome)
  /\ LET m == Head(toHome)
         u == m.u
         r == SvsAll(Start(user[u].modes, user[u].host), m.cs, m.host, TRUE)
         gave == {m.cs[k][2] : k \in {j \in DOMAIN m.cs : m.cs[j][1] = "+"}}
     IN  IF user[u].id # m.id \/ m.ts \notin {0, user[u].ts}
         THEN UNCHANGED <<user, count, operList, userhost, confs>>
         ELSE /\ user' = [user EXCEPT ![u].modes = r.modes, ![u].host = r.host,
                            ![u].flags = IF r.down THEN {} ELSE @,
                            ![u].conf = IF r.down THEN NoBlock ELSE @,
                            ![u].given = (@ \cup gave) \cap r.modes]
              /\ count' = [count EXCEPT !["home"] = Counted(@, r)]
              /\ operList' = IF r.down THEN operList \ {u} ELSE operList
              /\ confs' = IF r.down THEN Detached(confs, user[u].conf) ELSE confs
              /\ userhost' = [userhost EXCEPT !["home"] = Moved(@, u, user[u].host, r.host, FALSE)]
  /\ UNCHANGED <<view, toFar, ops, crossed>>

-----------------------------------------------------------------------------
(* At far *)

\* Services change a user that they know by its TS, or whatever its TS is.
Svsmode(u, cs, h, ts) ==
  /\ Step /\ Known(u) /\ ts \in {0, view[u].ts}
  /\ LET r == SvsAll(Start(view[u].modes, view[u].host), cs, h, FALSE)
     IN  /\ view' = [view EXCEPT ![u].modes = r.modes, ![u].host = r.host]
         /\ count' = [count EXCEPT !["far"] = Counted(@, r)]
         /\ userhost' = [userhost EXCEPT !["far"] = Moved(@, u, view[u].host, r.host, TRUE)]
  /\ toHome' = Append(toHome, [u |-> u, id |-> view[u].id, cs |-> cs, host |-> h, ts |-> ts])
  /\ crossed' = IF OnItsWay(toFar, u) \/ (OperOnly # {} /\ <<"-", "o">> \in Range(cs))
                THEN crossed \cup {u} ELSE crossed
  /\ UNCHANGED <<user, operList, confs, toFar>>

\* uid_from_server, register_remote_user
Seen(u, m) ==
  /\ view' = [view EXCEPT ![u] = [id |-> m.id, ts |-> m.ts, modes |-> m.modes, host |-> m.host]]
  /\ count' = [count EXCEPT !["far"] =
        [oper |-> @.oper + Cardinality(m.modes \cap {"o"}),
         invisi |-> @.invisi + Cardinality(m.modes \cap {"i"})]]
  /\ userhost' = [userhost EXCEPT !["far"] = AddUserHost(@, u, m.host, TRUE)]

Forgotten(u) ==
  /\ view' = [view EXCEPT ![u] = Unseen]
  /\ count' = [count EXCEPT !["far"] = Left(@, view[u].modes)]
  /\ userhost' = [userhost EXCEPT !["far"] = DeleteUserHost(@, u, view[u].host, TRUE)]

Recv ==
  /\ toFar # << >> /\ toFar' = Tail(toFar)
  /\ LET m == Head(toFar)
         u == m.u
         r == Compared(OtherAll(Start(view[u].modes, 1), m.cs), view[u].modes)
     IN  CASE m.type = "uid" -> Seen(u, m)
           [] m.type = "mode" -> /\ view' = [view EXCEPT ![u].modes = r.modes]
                                 /\ count' = [count EXCEPT !["far"] = Counted(@, r)]
                                 /\ UNCHANGED userhost
           [] m.type = "nick" -> view' = [view EXCEPT ![u].ts = m.ts] /\ UNCHANGED <<count, userhost>>
           [] m.type = "quit" -> Forgotten(u)
  /\ UNCHANGED <<user, operList, confs, toHome, ops, crossed>>

\* The link breaks and comes back: far has forgotten all users, and is told of all.
Relink ==
  /\ Step
  /\ view' = [u \in Users |-> Unseen]
  /\ count' = [count EXCEPT !["far"] =
        [oper |-> @.oper - Cardinality({u \in Users : "o" \in view[u].modes}),
         invisi |-> @.invisi - Cardinality({u \in Users : "i" \in view[u].modes})]]
  /\ userhost' = [userhost EXCEPT !["far"] =
        FoldLeft(LAMBDA t, u : IF Known(u) THEN DeleteUserHost(t, u, view[u].host, TRUE) ELSE t,
                 @, SetToSeq(Users))]
  /\ toHome' = << >> /\ crossed' = {}
  /\ toFar' = LET there == SetToSeq({u \in Users : On(u)})
              IN  [k \in DOMAIN there |->
                     [type |-> "uid", u |-> there[k], id |-> user[there[k]].id, ts |-> user[there[k]].ts,
                      modes |-> user[there[k]].modes, host |-> user[there[k]].host]]
  /\ UNCHANGED <<user, operList, confs>>

-----------------------------------------------------------------------------
Blocks == UNION {DOMAIN f : f \in Files}

ModesInit ==
  /\ user = [u \in Users |-> Gone] /\ view = [u \in Users |-> Unseen]
  /\ count = [s \in {"home", "far"} |-> [oper |-> 0, invisi |-> 0]]
  /\ operList = {} /\ userhost = [s \in {"home", "far"} |-> << >>]
  /\ \E f \in Files :
       confs = [k \in {<<b, MaxOps>> : b \in DOMAIN f} |->
                  [for |-> f[k[1]].for, modes |-> f[k[1]].modes, flags |-> f[k[1]].flags,
                   key |-> f[k[1]].key, ref |-> 0, active |-> TRUE]]
  /\ toFar = << >> /\ toHome = << >> /\ ops = 0 /\ crossed = {}

ModesNext ==
  \/ \E u \in Users :
       \/ Register(u) \/ Nick(u) \/ Exit(u) \/ Answer(u)
       \/ \E b \in Blocks : Oper(u, b) \/ Challenge(u, b)
       \/ \E cs \in Asks : Mode(u, cs)
       \/ \E cs \in Orders, h \in Hosts, ts \in {0, view[u].ts} : Svsmode(u, cs, h, ts)
  \/ \E f \in Files : Rehash(f)
  \/ RecvSvsmode \/ Recv \/ Relink

ModesSpec == ModesInit /\ [][ModesNext]_modeVars

-----------------------------------------------------------------------------
UserRow == [id : 0..MaxOps, ts : 0..MaxOps, modes : SUBSET Range(Letters),
            host : Hosts \cup {1}, flags : SUBSET STRING,
            conf : (Blocks \X (0..MaxOps)) \cup {NoBlock}, asked : Blocks \cup {Nobody},
            given : SUBSET Range(Letters)]
BlockRow == [for : SUBSET (Hosts \cup {1}), modes : SUBSET Range(Letters),
             flags : SUBSET STRING, key : BOOLEAN, ref : Nat, active : BOOLEAN]
HomeTypeOK ==
  /\ user \in [Users -> UserRow] /\ confs \in [DOMAIN confs -> BlockRow]
  /\ DOMAIN confs \subseteq Blocks \X (0..MaxOps)
  /\ \A u \in Users : user[u].conf \in DOMAIN confs \cup {NoBlock}
  /\ toHome \in Seq([u : Users, id : 1..MaxOps, cs : Orders, host : Hosts, ts : 0..MaxOps])
  /\ operList \subseteq Users /\ ops \in 0..MaxOps

ModesTypeOK == HomeTypeOK /\ crossed \subseteq Users
               /\ \A u \in Users : view[u].modes \subseteq Range(Letters)

\* What a server counts is what is there, whichever way each came and went: operators and
\* invisible users (LUSERS), and the users of a host (the limits of classes).
CountsRight ==
  LET modes(s, u) == IF s = "home" THEN user[u].modes ELSE view[u].modes
      with(s, h) == {u \in Users : IF s = "home" THEN On(u) /\ user[u].host = h
                                   ELSE Known(u) /\ view[u].host = h}
      mine(s, us) == IF s = "home" THEN Cardinality(us) ELSE 0
  IN  \A s \in {"home", "far"} :
        /\ count[s] = [oper |-> Cardinality({u \in Users : "o" \in modes(s, u)}),
                       invisi |-> Cardinality({u \in Users : "i" \in modes(s, u)})]
        /\ \A h \in Hosts \cup {1} :
             /\ Entry(userhost[s], h) = [g |-> Cardinality(with(s, h)), l |-> mine(s, with(s, h)),
                                         i |-> mine(s, with(s, h) \cap Ident)]
             /\ h \in DOMAIN userhost[s] => with(s, h) # {}

\* Who is an operator here has a block, which is in memory and counts it, is on the list
\* and has its flags; who is none has nothing left of it.
OpersRight ==
  /\ \A u \in Users :
       LET is == "o" \in user[u].modes
       IN  /\ is <=> u \in operList
           /\ is <=> user[u].conf # NoBlock
           /\ is => user[u].flags = confs[user[u].conf].flags
           /\ ~is => /\ user[u].flags = {}
                     /\ OperOnly \cap user[u].modes \subseteq user[u].given \cup OnConnect
                     /\ "a" \in user[u].modes => "a" \in user[u].given
  /\ \A k \in DOMAIN confs :
       /\ confs[k].ref = Cardinality({u \in Users : user[u].conf = k})
       /\ confs[k].active \/ confs[k].ref > 0

\* Once nothing is on its way, far knows of a user what home does, unless one of its
\* changes met one by services.
FarAgrees ==
  toFar = << >> /\ toHome = << >> =>
    \A u \in Users \ crossed :
      view[u] = [id |-> user[u].id, ts |-> user[u].ts, modes |-> user[u].modes, host |-> user[u].host]
=============================================================================

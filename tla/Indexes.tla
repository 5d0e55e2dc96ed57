------------------------------ MODULE Indexes ------------------------------
(***************************************************************************)
(* Who is looked up by name when they are not there: the nicks that users    *)
(* watch (watch.c, m_watch.c), the ring of the nicks that were left, by      *)
(* which a KILL follows a user to its new nick (whowas.c, client.c 497-516,  *)
(* m_whowas.c), and the masks a user accepts messages from (m_accept.c,      *)
(* client.c 985-1063).  All of them point at clients, and a client's struct *)
(* is used again once it is gone.                                           *)
(*                                                                         *)
(* Nicks are as irccmp sees them: a change of case is a change to the same  *)
(* nick.  That two users never have one nick is NickTS's.                   *)
(***************************************************************************)
EXTENDS Naturals, Sequences, FiniteSets, SequencesExt

CONSTANTS
    Users,       \* client structs
    Locals,      \* those of them that are of this server
    Nicks,
    Length,      \* NICKNAMEHISTORYLENGTH
    MaxWatch,    \* ConfigGeneral.max_watch
    MaxAccept,   \* ConfigGeneral.max_accept
    ChaseLimit,  \* ConfigGeneral.kill_chase_time_limit
    PaceWait,    \* ConfigGeneral.pace_wait
    MaxTime,     \* bound: the clock
    MaxOps       \* bound: commands

VARIABLES
    user,        \* the structs: [name, born, watches, whowas, accepts]
    watchTable,  \* nick -> the set that watches it (watched_by)
    ring,        \* WHOWAS: [name, online, logoff], at 1..Length
    next,        \* whowas_next
    hash,        \* WHOWASHASH: the places of the ring, as a lookup meets them
    lastUsed,    \* of WHOWAS
    now,
    ops,
    told,        \* history: <<user, nick>> -> what it was told last of that nick
    left,        \* history: who left which nick, in order: <<nick, user, born, time>>
    answer       \* history: what the last WHOWAS gave

indexVars == <<user, watchTable, ring, next, hash, lastUsed, now, ops, told, left, answer>>

Nobody == "nobody"
Free == [name |-> Nobody, online |-> Nobody, logoff |-> 0]

On(u) == user[u].name # Nobody
\* find_person
Find(n) == IF \E u \in Users : user[u].name = n THEN CHOOSE u \in Users : user[u].name = n
           ELSE Nobody

-----------------------------------------------------------------------------
(* The parts of a handler.  s: [user, watchTable, ring, next, hash, told, left] *)

Now == [user |-> user, watchTable |-> watchTable, ring |-> ring, next |-> next,
        hash |-> hash, told |-> told, left |-> left]
Become(s) ==
  /\ user' = s.user /\ watchTable' = s.watchTable /\ ring' = s.ring /\ next' = s.next
  /\ hash' = s.hash /\ told' = s.told /\ left' = s.left

\* watch_check_hash
Notify(s, n, what) ==
  IF n \notin DOMAIN s.watchTable THEN s
  ELSE [s EXCEPT !.told = [p \in DOMAIN s.told |->
          IF p[2] = n /\ p[1] \in s.watchTable[n] THEN what ELSE s.told[p]]]

\* watch_add_to_hash_table
AddWatch(s, u, n) ==
  LET by == IF n \in DOMAIN s.watchTable THEN s.watchTable[n] ELSE {}
  IN  [s EXCEPT !.watchTable = [m \in DOMAIN @ \cup {n} |-> IF m = n THEN by \cup {u} ELSE @[m]],
                !.user[u].watches = @ \cup {n}]
\* watch_del_from_hash_table, and watch_del_watch_list for all of the nicks of u
DelWatch(s, u, ns) ==
  LET mine == {n \in ns : n \in DOMAIN s.watchTable /\ u \in s.watchTable[n]}
      empty == {n \in mine : s.watchTable[n] = {u}}
  IN  [s EXCEPT !.watchTable = [n \in DOMAIN @ \ empty |-> IF n \in mine THEN @[n] \ {u} ELSE @[n]],
                !.user[u].watches = @ \ mine]

\* whowas_add_history: the oldest place is taken from the user that it points to.
AddHistory(s, u, online) ==
  LET i == s.next
      old == s.ring[i]
      who == [name |-> s.user[u].name, online |-> IF online THEN u ELSE Nobody, logoff |-> now]
      freed == IF old.online = Nobody THEN s.user
               ELSE [s.user EXCEPT ![old.online].whowas = @ \ {i}]
  IN  [s EXCEPT !.next = (i % Length) + 1,
                !.user = IF online THEN [freed EXCEPT ![u].whowas = @ \cup {i}] ELSE freed,
                !.ring[i] = who,
                !.hash = <<i>> \o SelectSeq(@, LAMBDA j : j # i),
                !.left = Append(@, <<s.user[u].name, IF online THEN u ELSE Nobody,
                                     s.user[u].born, now>>)]

\* Faulty variant: the places of the ring are left to point at the user.
OffHistoryKept(s, u) == [s EXCEPT !.user[u].whowas = {}]

\* whowas_off_history
OffHistory(s, u) ==
  [s EXCEPT !.ring = [i \in DOMAIN @ |-> IF i \in s.user[u].whowas THEN [@[i] EXCEPT !.online = Nobody]
                                         ELSE @[i]],
            !.user[u].whowas = {}]

\* whowas_get_history: the last to have left the nick, if that is not too long ago.
GetHistory(n) ==
  LET found == SelectSeq(hash, LAMBDA i : /\ ring[i].logoff + ChaseLimit >= now
                                          /\ ring[i].name = n)
  IN  IF found = << >> THEN Nobody ELSE ring[Head(found)].online
\* find_chasing
Chased(n) == IF Find(n) # Nobody THEN Find(n) ELSE GetHistory(n)

\* exit_client and exit_one_client, as far as these go
Exited(s, u) ==
  LET unwatched == IF u \in Locals THEN DelWatch(s, u, s.user[u].watches) ELSE s
      off == Notify(OffHistory(AddHistory(unwatched, u, FALSE), u), s.user[u].name, "off")
  IN  [off EXCEPT !.user[u] = [@ EXCEPT !.name = Nobody, !.accepts = << >>]]

\* A change of nick: change_local_nick, change_remote_nick; SVSNICK tells the watchers
\* even when only the case changes (m_svsnick.c 100-125).
Renamed(s, u, n, tell) ==
  LET old == s.user[u].name
      off == AddHistory(IF tell THEN Notify(s, old, "off") ELSE s, u, TRUE)
      named == [off EXCEPT !.user[u].name = n]
  IN  IF tell THEN Notify(named, n, "on") ELSE named

-----------------------------------------------------------------------------
Init ==
  /\ user = [u \in Users |-> [name |-> Nobody, born |-> 0, watches |-> {}, whowas |-> {}, accepts |-> << >>]]
  /\ watchTable = << >> /\ ring = [i \in 1..Length |-> Free] /\ next = 1 /\ hash = << >>
  /\ lastUsed = 0 /\ now = PaceWait /\ ops = 0 /\ left = << >> /\ answer = << >>
  /\ told = [p \in Locals \X Nicks |-> "off"]

Step == ops < MaxOps /\ ops' = ops + 1
Same == UNCHANGED <<lastUsed, now, answer>>

\* A user is introduced (user.c 281-301), in a struct that may have been another's.
Introduce(u, n) ==
  /\ Step /\ Same /\ ~On(u) /\ Find(n) = Nobody
  /\ Become(Notify([Now EXCEPT !.user[u] = [@ EXCEPT !.name = n, !.born = ops + 1]], n, "on"))

Exit(u) == Step /\ Same /\ On(u) /\ Become(Exited(Now, u))

ChangeNick(u, n) ==
  /\ Step /\ Same /\ On(u) /\ Find(n) \in {u, Nobody}
  /\ Become(Renamed(Now, u, n, n # user[u].name))
Svsnick(u, n) ==
  /\ Step /\ Same /\ On(u) /\ u \in Locals
  /\ Become(IF Find(n) \in {u, Nobody} THEN Renamed(Now, u, n, TRUE) ELSE Exited(Now, u))

\* KILL by an operator: the nick may have been left.
Kill(n) == /\ Step /\ Same /\ Chased(n) # Nobody /\ Become(Exited(Now, Chased(n)))

\* WATCH +n: the reply tells whether somebody has the nick.
Watch(u, n) ==
  /\ Step /\ Same /\ On(u) /\ u \in Locals /\ Cardinality(user[u].watches) < MaxWatch
  /\ LET s == AddWatch(Now, u, n)
     IN  Become([s EXCEPT !.told[<<u, n>>] = IF Find(n) = Nobody THEN "off" ELSE "on"])
\* WATCH -n, WATCH C
Unwatch(u, n) == Step /\ Same /\ On(u) /\ u \in Locals /\ Become(DelWatch(Now, u, {n}))
UnwatchAll(u) == /\ Step /\ Same /\ On(u) /\ u \in Locals /\ user[u].watches # {}
                 /\ Become(DelWatch(Now, u, user[u].watches))

\* WHOWAS n max
Whowas(u, n, max) ==
  /\ Step /\ On(u) /\ u \in Locals /\ lastUsed + PaceWait <= now
  /\ lastUsed' = now
  /\ LET found == SelectSeq(hash, LAMBDA i : ring[i].name = n)
         shown == IF max > 0 /\ Len(found) > max THEN SubSeq(found, 1, max) ELSE found
     IN  answer' = <<n, [k \in 1..Len(shown) |-> ring[shown[k]]]>>
  /\ UNCHANGED <<user, watchTable, ring, next, hash, told, left, now>>

\* ACCEPT: a full list ends the command, a mask that is there already is passed over;
\* <<mask, TRUE>> adds.
Accept(u, words) ==
  /\ Step /\ Same /\ On(u) /\ u \in Locals
  /\ LET after[k \in 0..Len(words)] ==
           IF k = 0 THEN [list |-> user[u].accepts, full |-> FALSE]
           ELSE LET r == after[k - 1]
                    mask == words[k][1]
                    there == \E i \in 1..Len(r.list) : r.list[i] = mask
                IN  IF r.full THEN r
                    ELSE IF ~words[k][2] THEN [r EXCEPT !.list = SelectSeq(@, LAMBDA m : m # mask)]
                    ELSE IF Len(r.list) >= MaxAccept THEN [r EXCEPT !.full = TRUE]
                    ELSE IF there THEN r ELSE [r EXCEPT !.list = <<mask>> \o @]
     IN  user' = [user EXCEPT ![u].accepts = after[Len(words)].list]
  /\ UNCHANGED <<watchTable, ring, next, hash, told, left>>

Tick == now < MaxTime /\ now' = now + 1
        /\ UNCHANGED <<user, watchTable, ring, next, hash, lastUsed, ops, told, left, answer>>

Words == {<<<<n, TRUE>>>> : n \in Nicks} \cup
         {<<<<n, FALSE>>, <<m, TRUE>>>> : n \in Nicks, m \in Nicks}

Next ==
  \/ \E u \in Users : Exit(u) \/ UnwatchAll(u)
  \/ \E u \in Users, n \in Nicks :
       \/ Introduce(u, n) \/ ChangeNick(u, n) \/ Svsnick(u, n) \/ Watch(u, n) \/ Unwatch(u, n)
       \/ \E max \in {0, 1} : Whowas(u, n, max)
  \/ \E n \in Nicks : Kill(n)
  \/ \E u \in Users, words \in Words : Accept(u, words)
  \/ Tick

Spec == Init /\ [][Next]_indexVars

-----------------------------------------------------------------------------
TypeOK ==
  /\ \A u \in Users : /\ user[u].name \in Nicks \cup {Nobody} /\ user[u].watches \subseteq Nicks
                      /\ user[u].whowas \subseteq 1..Length
                      /\ Len(user[u].accepts) <= MaxAccept
  /\ DOMAIN watchTable \subseteq Nicks /\ next \in 1..Length /\ now \in 0..MaxTime
  /\ \A i \in 1..Length : ring[i].online \in Users \cup {Nobody}

\* A watch is known at both ends, a nick that nobody watches has no entry, and a client
\* that is gone watches nothing, so that no notice goes to a struct that is another's.
WatchesAgree ==
  /\ \A u \in Users, n \in Nicks :
       n \in user[u].watches <=> n \in DOMAIN watchTable /\ u \in watchTable[n]
  /\ \A n \in DOMAIN watchTable : watchTable[n] # {}
  /\ \A u \in Users : user[u].watches # {} => On(u) /\ u \in Locals

\* What a watcher was told last of a nick is so: no change of nick, exit or KILL, local or
\* remote, passes it by.
ToldRight ==
  \A u \in Users : \A n \in user[u].watches : told[<<u, n>>] = "on" <=> Find(n) # Nobody

\* A place of the ring points to a user iff the user points to the place, and to none
\* that is gone (whowas.h: "it must know when they cease to exist"), through each reuse
\* of the place and of the struct.
OnlineKnown ==
  /\ \A u \in Users, i \in 1..Length : i \in user[u].whowas <=> ring[i].online = u
  /\ \A u \in Users : user[u].whowas # {} => On(u)
  /\ IsInjective(hash) /\ {hash[k] : k \in 1..Len(hash)} = {i \in 1..Length : ring[i].name # Nobody}

\* A KILL follows the last that left a nick, while the ring still has it and the limit
\* allows; and follows it to nobody when that one is gone, whoever has its struct now.
Chases ==
  \A n \in Nicks :
    LET of == {k \in 1..Len(left) : left[k][1] = n}
        k == CHOOSE j \in of : \A i \in of : i <= j
        who == left[k][2]
        chased == /\ of # {} /\ left[k][4] + ChaseLimit >= now /\ Len(left) - k < Length
                  /\ who # Nobody /\ On(who) /\ user[who].born = left[k][3]
    IN  GetHistory(n) = IF chased THEN who ELSE Nobody

\* WHOWAS gives the newest first.
NewestFirst ==
  answer # << >> =>
    \A i, j \in DOMAIN answer[2] : i < j => answer[2][i].logoff >= answer[2][j].logoff

\* ACCEPT: no mask is there twice, and a client that is gone has none.
AcceptsOnce == \A u \in Users : /\ IsInjective(user[u].accepts)
                                /\ user[u].accepts # << >> => On(u)
=============================================================================

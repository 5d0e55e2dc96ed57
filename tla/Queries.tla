------------------------------ MODULE Queries ------------------------------
(***************************************************************************)
(* Questions to a server: STATS, TRACE, INFO, ADMIN, VERSION, TIME, MOTD,   *)
(* LUSERS and LINKS.  A user names a server, or a user for that user's      *)
(* server; each server on the way hunts for it anew, and the answers come   *)
(* back as numerics for the one who asked.  Meanwhile users become opers,   *)
(* cease to be, and leave.                                                  *)
(*                                                                         *)
(* Links are FIFO and hold.  A question is by its kind, an answer by what    *)
(* may be in it; of one answer only its last line is kept.                   *)
(***************************************************************************)
EXTENDS Integers, Sequences, FiniteSets

CONSTANTS Servers, Users,
          Home,      \* the server of each user
          Links,     \* pairs of neighbours, both ways
          Via,       \* Via[s][t]: the neighbour of s on the way to t
          Kinds,     \* the questions
          Settings,  \* [remote, koper]: remote commands of users, stats_k_oper_only
          MaxAsks,   \* bound on questions
          MaxModes   \* bound on changes of user modes

Flags == {"oper", "admin"}

\* stats_cmd_table, one letter of each sort: f, a and E are for administrators, l and
\* most others for operators, and what k, I, p and ? tell depends on who asks.
Needs == [k \in {"STATS f", "STATS l"} |-> IF k = "STATS f" THEN Flags ELSE {"oper"}]
Stats == DOMAIN Needs \cup {"STATS k", "STATS I", "STATS ?"}

VARIABLES modes,   \* modes[s][u]: user modes of u as s knows them
          here,    \* here[s]: the users that s knows
          wait,    \* wait[s]: kinds that s has answered a user within pace_wait
          q,       \* q[<<s, t>>]: sent by s, not yet handled by t
          conf,
          asks, changes,
          open     \* history: questions of each user without a last line

vars == <<modes, here, wait, q, conf, asks, changes, open>>

Targets == Servers \cup Users
Levels == {"end", "own", "all", "oper", "admin"}

TypeOK ==
  /\ modes \in [Servers -> [Users -> SUBSET Flags]]
  /\ here \in [Servers -> SUBSET Users]
  /\ wait \in [Servers -> SUBSET Kinds]
  /\ conf \in Settings /\ asks \in 0..MaxAsks /\ changes \in 0..MaxModes
  /\ open \in [Users -> 0..MaxAsks]
  /\ \A l \in Links : \A n \in DOMAIN q[l] : q[l][n].user \in Users

Init ==
  /\ modes = [s \in Servers |-> [u \in Users |-> {}]]
  /\ here = [s \in Servers |-> Users]
  /\ wait = [s \in Servers |-> {}]
  /\ q = [l \in Links |-> << >>]
  /\ conf \in Settings /\ asks = 0 /\ changes = 0
  /\ open = [u \in Users |-> 0]

-----------------------------------------------------------------------------
(* Messages.  had is history: the modes of the user who asked.              *)

Question(u, k, t, had) == [type |-> "ask", user |-> u, kind |-> k, to |-> t, had |-> had]
Numeric(u, level, had) == [type |-> "numeric", user |-> u, level |-> level, had |-> had]
Mode(u, f) == [type |-> "MODE", user |-> u, flags |-> f]
Quit(u) == [type |-> "QUIT", user |-> u]

Neighbours(s) == {t \in Servers : <<s, t>> \in Links}

\* The queues after s has handled the first message of link in (none if it is
\* << >>), sending m to each of the servers in ts
Send(q0, s, ts, m) ==
  [l \in Links |-> IF l[1] = s /\ l[2] \in ts THEN Append(q0[l], m) ELSE q0[l]]
Took(in) == IF in = << >> THEN q ELSE [q EXCEPT ![in] = Tail(@)]

\* Where the home of a user or a server is from s
Place(t) == IF t \in Users THEN Home[t] ELSE t
Exists(s, t) == t \in Servers \/ t \in here[s]

\* The direction a user's question has come from; its own server for a local one
From(s, u) == IF Home[u] = s THEN s ELSE Via[s][Home[u]]

-----------------------------------------------------------------------------
(* Answers *)

\* Faulty variant: a letter for administrators is shown to any operator.
GrantedOper(f, k) == k \in DOMAIN Needs => "oper" \in f

\* do_stats: the table says what privileges are needed.
Granted(f, k) == k \in DOMAIN Needs => Needs[k] \subseteq f

\* stats_klines: as stats_k_oper_only says
Klines(f) ==
  IF "oper" \in f THEN "oper"
  ELSE IF conf.koper = 2 THEN "end" ELSE IF conf.koper = 1 THEN "own" ELSE "all"

\* report_auth and stats_operedup: what is for local operators only
Auth(s, u, f) == IF Home[u] = s /\ "oper" \in f THEN "oper" ELSE "all"

\* stats_servlinks and LINKS of hidden servers, INFO with its options
ByOper(f) == IF "oper" \in f THEN "oper" ELSE "all"

StatsLevel(s, u, k) ==
  LET f == modes[s][u]
  IN  CASE ~Granted(f, k) -> "end"
        [] Granted(f, k) /\ k \in DOMAIN Needs -> IF "admin" \in Needs[k] THEN "admin" ELSE "oper"
        [] Granted(f, k) /\ k = "STATS k" -> Klines(f)
        [] Granted(f, k) /\ k = "STATS I" -> Auth(s, u, f)
        [] OTHER -> ByOper(f)

\* m_trace tells a user nothing, ms_trace does not even answer one.
Level(s, u, k) ==
  IF k \in Stats THEN StatsLevel(s, u, k)
  ELSE IF k = "TRACE"
  THEN IF "admin" \in modes[s][u] THEN "admin"
       ELSE IF "oper" \in modes[s][u] THEN "oper" ELSE "end"
  ELSE IF k = "INFO" THEN ByOper(modes[s][u]) ELSE "all"

Silent(s, u, k) == k = "TRACE" /\ Home[u] # s /\ "oper" \notin modes[s][u]

\* sendto_one_numeric to a user that s knows; its home sends it on to the user.
Answer(s, in, u, level, had) ==
  IF Home[u] = s
  THEN q' = Took(in) /\ open' = [open EXCEPT ![u] = @ - 1]
  ELSE q' = Send(Took(in), s, {Via[s][Home[u]]}, Numeric(u, level, had)) /\ UNCHANGED open

\* hunt_server, and the answer if it is for us.
Hunt(s, in, u, k, t, had) ==
  IF Exists(s, t) /\ Place(t) = s
  THEN IF Silent(s, u, k) THEN q' = Took(in) /\ UNCHANGED open
       ELSE Answer(s, in, u, Level(s, u, k), had)
  ELSE IF ~Exists(s, t) \/ Via[s][Place(t)] = From(s, u)
  THEN Answer(s, in, u, "end", had)
  ELSE q' = Send(Took(in), s, {Via[s][Place(t)]}, Question(u, k, t, had)) /\ UNCHANGED open

-----------------------------------------------------------------------------
(* Users *)

Paced(k) == k \notin {"TIME", "TRACE"}

\* A question of a user that is answered at once: asked and answered
AskLocal(s, u, k, t) ==
  IF Exists(s, t) /\ Place(t) # s
  THEN /\ q' = Send(q, s, {Via[s][Place(t)]}, Question(u, k, t, modes[s][u]))
       /\ open' = [open EXCEPT ![u] = @ + 1]
  ELSE UNCHANGED <<q, open>>

\* m_stats, m_admin ...: users wait for pace_wait, and are answered here when
\* remote commands are disabled.  ms_... are the handlers of operators too.
Ask(u, k, t) ==
  LET s == Home[u]
      oper == "oper" \in modes[s][u]
      slow == ~oper /\ Paced(k) /\ k \in wait[s]
  IN  /\ asks < MaxAsks /\ asks' = asks + 1 /\ u \in here[s]
      /\ wait' = IF ~oper /\ Paced(k) THEN [wait EXCEPT ![s] = @ \cup {k}] ELSE wait
      /\ IF slow \/ (~oper /\ (k = "TRACE" \/ ~conf.remote))
         THEN UNCHANGED <<q, open>>
         ELSE AskLocal(s, u, k, t)
      /\ UNCHANGED <<modes, here, conf, changes>>

\* CurrentTime goes on by pace_wait.
Tick(s) ==
  /\ wait[s] # {} /\ wait' = [wait EXCEPT ![s] = {}]
  /\ UNCHANGED <<modes, here, q, conf, asks, changes, open>>

\* OPER, or MODE -o
ChangeModes(u, f) ==
  LET s == Home[u]
  IN  /\ changes < MaxModes /\ changes' = changes + 1 /\ u \in here[s]
      /\ "admin" \in f => "oper" \in f
      /\ f # modes[s][u]
      /\ modes' = [modes EXCEPT ![s][u] = f]
      /\ q' = Send(q, s, Neighbours(s), Mode(u, f))
      /\ UNCHANGED <<here, wait, conf, asks, open>>

Leave(u) ==
  LET s == Home[u]
  IN  /\ changes < MaxModes /\ changes' = changes + 1 /\ u \in here[s]
      /\ here' = [here EXCEPT ![s] = @ \ {u}]
      /\ open' = [open EXCEPT ![u] = 0]
      /\ q' = Send(q, s, Neighbours(s), Quit(u))
      /\ UNCHANGED <<modes, wait, conf, asks>>

-----------------------------------------------------------------------------
(* Servers *)

First(l, type) == q[l] # << >> /\ Head(q[l]).type = type

\* A prefix that is not known is dropped (parse.c 283-288).
RecvQuestion(l) ==
  /\ First(l, "ask")
  /\ LET m == Head(q[l])
         s == l[2]
     IN  IF m.user \in here[s] THEN Hunt(s, l, m.user, m.kind, m.to, m.had)
         ELSE q' = Took(l) /\ UNCHANGED open
  /\ UNCHANGED <<modes, here, wait, conf, asks, changes>>

\* parse_handle_numeric: not for one who is gone, nor back where it is from.
RecvNumeric(l) ==
  /\ First(l, "numeric")
  /\ LET m == Head(q[l])
         s == l[2]
     IN  IF m.user \notin here[s] \/ From(s, m.user) = l[1]
         THEN q' = Took(l) /\ UNCHANGED open
         ELSE Answer(s, l, m.user, m.level, m.had)
  /\ UNCHANGED <<modes, here, wait, conf, asks, changes>>

\* A server's MODE for a user, and QUIT, are passed on.
RecvMode(l) ==
  /\ First(l, "MODE")
  /\ LET m == Head(q[l])
         s == l[2]
     IN  /\ modes' = [modes EXCEPT ![s][m.user] = m.flags]
         /\ q' = Send(Took(l), s, Neighbours(s) \ {l[1]}, m)
  /\ UNCHANGED <<here, wait, conf, asks, changes, open>>

RecvQuit(l) ==
  /\ First(l, "QUIT")
  /\ LET m == Head(q[l])
         s == l[2]
     IN  /\ here' = [here EXCEPT ![s] = @ \ {m.user}]
         /\ q' = Send(Took(l), s, Neighbours(s) \ {l[1]}, m)
  /\ UNCHANGED <<modes, wait, conf, asks, changes, open>>

Next ==
  \/ \E u \in Users :
       \/ \E k \in Kinds, t \in Targets : Ask(u, k, t)
       \/ \E f \in SUBSET Flags : ChangeModes(u, f)
       \/ Leave(u)
  \/ \E s \in Servers : Tick(s)
  \/ \E l \in Links : RecvQuestion(l) \/ RecvNumeric(l) \/ RecvMode(l) \/ RecvQuit(l)

Spec == Init /\ [][Next]_vars

-----------------------------------------------------------------------------
(* Properties *)

\* What only operators or administrators may see is on its way only to one who
\* was that when asking, whatever the servers on the way knew meanwhile.
Entitled ==
  \A l \in Links : \A n \in DOMAIN q[l] :
    LET m == q[l][n]
    IN  m.type = "numeric" =>
          /\ m.level = "oper" => "oper" \in m.had
          /\ m.level = "admin" => "admin" \in m.had

\* A question is answered once, by the server that was asked for or by one on the
\* way that knows of none: also a TRACE, which a server does not answer to a user.
Answered ==
  (\A l \in Links : q[l] = << >>) => \A u \in Users : open[u] = 0
=============================================================================

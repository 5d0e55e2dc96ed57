------------------------------ MODULE MCGames ------------------------------
(***************************************************************************)
(* The game list, and other parts that share nothing with it: of each         *)
(* behaviour one moves.                                                      *)
(*   "games"  GameRegistry                                                   *)
(*   "modes"  UserModes, two users                                           *)
(*   "db"     Database, bans of four kinds                                    *)
(*   "masks"  Match                                                          *)
(*   "timers" Events, three of them                                          *)
(*   "web"    Accounts, two requests at once                                  *)
(*   "bot"    ChanServ                                                       *)
(*   "lists"  Lists, three nodes and two lists                                *)
(***************************************************************************)
EXTENDS GameRegistry, Lists, Accounts, UserModes, TLC
CONSTANT Parts     \* the parts to check

VARIABLES part, s1, s2, s3, s4, s5, s6, s7, s8, s9, s10   \* of the other parts

\* One block for a host that only services give, with a key, and one for everyone with
\* the flag admin; "l" is a mode of operators only.
ForAll == [o |-> [for |-> {1}, modes |-> {}, flags |-> {"admin", "kill"}, key |-> FALSE]]
ForHost == [p |-> [for |-> {2}, modes |-> {"i", "l"}, flags |-> {"kill"}, key |-> TRUE]]
MCFiles == {ForAll, ForHost}
Say(what, m) == <<what, m>>
MCAsks == {<<Say("-", "o"), Say("+", "l")>>, <<Say("-", "i"), Say("+", "a")>>, <<Say("+", "i")>>}
MCOrders == {<<Say("-", "o")>>, <<Say("+", "x"), Say("-", "i")>>, <<Say("-", "x"), Say("+", "i")>>}

\* Of two passwords HTML changes one.
MCHtml == [p |-> "p", q |-> "q&amp;"]

\* A text of 256 characters, an empty one, and times of one to four octets
Line(kind, texts, setat, until) ==
  [kind |-> kind, texts |-> texts, setat |-> setat, until |-> until, db |-> TRUE]
Stored == INSTANCE Database WITH
  Lines <- {Line("K", <<<<97>>, << >>, <<98, 99>>>>, 70000, 0),
            Line("R", <<<<97>>, <<98>>>>, 20000000, 0),
            Line("X", <<[i \in 1..256 |-> 97], << >>>>, 3, 256)},
  Configs <- {{}, {[Line("R", <<<<97>>, <<99>>>>, 0, 0) EXCEPT !.db = FALSE]}},
  MaxChanges <- 2, MaxSaves <- 2, MaxFaults <- 1,
  bans <- s1, up <- s2, disk <- s3, temp <- s4, todo <- s5, bound <- s6, snap <- s7,
  booted <- s8, last <- s9

\* Wildcards, a backslash and two letters; names with a wildcard and a capital
Masks == INSTANCE Match WITH
  Masks <- UNION {[1..k -> {42, 63, 92, 97, 98}] : k \in 0..4},
  Tried <- UNION {[1..k -> {42, 65, 97, 98}] : k \in 0..3} \cup {<<97, 97, 98, 97>>},
  mask <- s1

\* Events that delete and add themselves and others
Timed == INSTANCE Events WITH
  Timers <- {"a", "b", "c"}, Period <- [a |-> 1, b |-> 3, c |-> 2],
  Does <- [a |-> {<< >>, <<<<"add", "c">>>>}, b |-> {<< >>, <<<<"delete", "a">>>>},
           c |-> {<<<<"delete", "c">>>>, <<<<"delete", "b">>, <<"add", "a">>>>}],
  MaxTime <- 5, MaxOps <- 2,
  events <- s1, next <- s2, when <- s3, enabled <- s4, now <- s5, last <- s6, pc <- s7,
  left <- s8, ops <- s9, ran <- s10

\* Two channels, and connections that break twice
Bot == INSTANCE ChanServ WITH
  Channels <- {"c", "d"}, MaxLinks <- 3, MaxPings <- 2,
  connected <- s1, executed <- s2, toServer <- s3, toBot <- s4, stage <- s5, ghost <- s6,
  joined <- s7, links <- s8, pings <- s9, stale <- s10

from2 == <<s2, s3, s4, s5, s6, s7, s8, s9, s10>>
Zero2 == s2 = 0 /\ s3 = 0 /\ s4 = 0 /\ s5 = 0 /\ s6 = 0 /\ s7 = 0 /\ s8 = 0 /\ s9 = 0 /\ s10 = 0
slots == <<s1, from2>>
rows == <<accountVars, modeVars>>
others == <<slots, listVars, rows>>

-----------------------------------------------------------------------------
PartsInit ==
  /\ part \in Parts /\ Init /\ ListInit
  /\ AccountsInit
  /\ part # "web" => users[1].name = "a" /\ users[1].mail = "m" /\ users[1].pass = "p"
  /\ ModesInit /\ (part # "modes" => \E k \in DOMAIN confs : k[1] = "o")
  /\ CASE part = "db" -> Stored!Init /\ s10 = 0
       [] part = "masks" -> Masks!Init /\ Zero2
       [] part = "timers" -> Timed!Init
       [] part = "bot" -> Bot!Init
       [] OTHER -> s1 = 0 /\ Zero2

PartsNext ==
  /\ UNCHANGED part
  /\ \/ part = "games" /\ Next /\ UNCHANGED others
     \/ part = "lists" /\ ListNext /\ UNCHANGED <<vars, slots, rows>>
     \/ part = "modes" /\ ModesNext /\ UNCHANGED <<vars, listVars, slots, accountVars>>
     \/ part = "web" /\ AccountsNext /\ UNCHANGED <<vars, listVars, slots, modeVars>>
     \/ /\ \/ part = "db" /\ Stored!Next /\ UNCHANGED s10
           \/ part = "masks" /\ Masks!Next /\ UNCHANGED from2
           \/ part = "timers" /\ Timed!Next
           \/ part = "bot" /\ Bot!Next
        /\ UNCHANGED <<vars, listVars, rows>>
     \/ part # "games" /\ UNCHANGED <<vars, others>>   \* these come to their bounds

allvars == <<part, vars, others>>

\* The fairness of GameRegistry
Turn(A) == part = "games" /\ A /\ UNCHANGED <<part, others>>
PartsSpec ==
  /\ PartsInit /\ [][PartsNext]_allvars
  /\ WF_allvars(Turn(Tick))
  /\ \A w \in Workers : WF_allvars(Turn(Work(w)))
  /\ SF_allvars(Turn(\E w \in Workers : CleanSelect(w)))

-----------------------------------------------------------------------------
\* The list of games is fresh, and what is kept or looked up elsewhere is right.
\* Operators, invisible users and the users of each host are counted right, and servers
\* agree on modes (m_oper.c, m_mode.c, m_svsmode.c, user.c, hash.c).
\* A database of bans is whole and reads back as it was saved, wherever a save was cut
\* short, and a server told to end forgets nothing (conf_db.c).
\* A mask matches what it means, collapsed or not (match.c).
\* Events run in the order of their time, never late by more than their period and once in
\* a run, whatever their handlers do to the list (event.c).
\* A bot that was in no connection before holds its channels (chanserv.php).
\* Pointers of lists agree, and a walk misses no node (list.c, list.h).
KeptRight ==
  /\ FreshListing
  /\ CASE part = "modes" -> ModesTypeOK /\ CountsRight /\ FarAgrees
       [] part = "db" -> Stored!TypeOK /\ Stored!Whole /\ Stored!Restored /\ Stored!EndsRight
       [] part = "masks" -> Masks!MatchesRight /\ Masks!CollapseRight /\ Masks!CaseRight
       [] part = "timers" -> /\ Timed!TypeOK /\ Timed!InOrder /\ Timed!NoneLate
                          /\ Timed!OncePerRun /\ Timed!NoneFar
       [] part = "web" -> AccountsTypeOK
       [] part = "bot" -> Bot!TypeOK /\ Bot!HoldsChannels
       [] part = "lists" -> AllLinked /\ WalksAll
       [] OTHER -> TRUE
=============================================================================

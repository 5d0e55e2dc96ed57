----------------------------- MODULE MCChannel -----------------------------
(***************************************************************************)
(* Channels, in parts that share nothing: of each behaviour one part moves. *)
(*   "line"   ChannelTS, on a pair of servers or a hub with two leaves        *)
(*   "topic"  TopicTS on a line a -- h -- b, links that hold                 *)
(*   "burst"  TopicTS on a -- h, a link that may break                       *)
(*   "rules"  ChannelRules, two channels and clients of this server  *)
(*   "remote" ChannelRules, one channel, with a client of another server *)
(*   "split"  Splitmode                                                      *)
(*   "lines"  Bans, K- and D-lines placed and of a file, with their times    *)
(*   "votes"  Bans, G-lines that operators vote for                         *)
(*   "names"  Bans, X-lines and RESVs                                       *)
(*   "ask"    Queries, two users at the ends of a line a -- h -- b            *)
(*   "modes"  ModeLine, commands of up to three letters                       *)
(*   "list"   Listing, a client while channels come and go                   *)
(***************************************************************************)
EXTENDS ChannelTS, Bans, TopicTS, ChannelRules, TLC
CONSTANTS a, b, h, ua, ub,
          ModeParams, \* MAXMODEPARAMS
          Parts   \* the parts to check

VARIABLES part,
          servers, users, splitServers, splitUsers, splitmode, splitchecking,
          queued, ssets,
          modes, here, wait, aq, ruled, asks, changes, open,
          home, far, wire, given, blank,
          table, lchan, task, listing, lsendq, last, lists, lchanges

\* a -- b, a user on each
PairHome == (ua :> a) @@ (ub :> b)
PairLinks == {<<a, b>>, <<b, a>>}
Broken == {<<a, h>>, <<h, a>>}
PairVia == [s \in {a, b} |-> [t \in {a, b} |-> t]]

\* a -- h -- b, a user on each leaf
LineLinks == {<<a, h>>, <<h, a>>, <<h, b>>, <<b, h>>}
LineVia == [s \in {a, b, h} |-> [t \in {a, b, h} |-> IF s = h \/ s = t THEN t ELSE h]]

Split == INSTANCE Splitmode WITH
  MaxServers <- 3, MaxUsers <- 2, MaxSets <- 3, sets <- ssets
Queried == INSTANCE Queries WITH
  Servers <- {a, h, b}, Users <- {ua, ub}, Home <- PairHome,
  Links <- LineLinks, Via <- LineVia, Kinds <- {"STATS f", "TRACE"},
  Settings <- [remote : BOOLEAN, koper : {0, 1}], MaxAsks <- 2, MaxModes <- 2,
  q <- aq, conf <- ruled

Letters == [dir : {"+", "-"}, letter : {"k", "l", "o", "b"}]
             \cup {[dir |-> "+", letter |-> "m"]}
Keyed == [dir : {"+", "-"}, letter : {"k", "o"}] \cup {[dir |-> "+", letter |-> "l"]}
UpTo(S, n) == UNION {[1..k -> S] : k \in 0..n}
Local(level) == [level |-> level, local |-> TRUE, oper |-> FALSE, service |-> FALSE]
NoRanks == [r \in {"o", "h", "v"} |-> {}]
ModeLines == INSTANCE ModeLine WITH
  Members <- {"u"}, Strangers <- {"3"},
  Number <- [p \in {"u", "3", ":", "*"} |-> IF p = "3" THEN 3 ELSE 0],
  Clean <- [p \in {"u", "3", ":", "*"} |-> IF p = ":" THEN "" ELSE p],
  Sources <- {Local(1), Local(2), [Local(3) EXCEPT !.local = FALSE, !.service = TRUE]},
  Lines <- [letters : UpTo(Letters, 2), params : UpTo({"u", "3", ":"}, 2)]
             \cup [letters : [1..3 -> Keyed], params : UpTo({"u", "3"}, 3)],
  Starts <- {[modes |-> {}, limit |-> 0, key |-> "", rank |-> NoRanks, bans |-> {}],
             [modes |-> {"m"}, limit |-> 3, key |-> "u", bans |-> {"u"},
              rank |-> [NoRanks EXCEPT !["o"] = {"u"}]]},
  MaxParams <- ModeParams, MaxBans <- 1, MaxLines <- 1

Asked == {<< >>, <<[kind |-> ">", n |-> 1]>>, <<[kind |-> "C>", n |-> 1]>>,
          <<[kind |-> "mask", mask |-> {"x", "z"}], [kind |-> "C<", n |-> 1]>>,
          <<[kind |-> "!", mask |-> {"x"}], [kind |-> "<", n |-> 0]>>}
Listed == INSTANCE Listing WITH
  Clients <- {1}, Channels <- {"x", "y", "z"},
  Bucket <- [c \in {"x", "y", "z"} |-> IF c = "z" THEN 1 ELSE 0], Size <- 2,
  Orders <- Asked, Limit <- 4, Room <- 2, Now <- 2, MaxUsers <- 2, MaxLists <- 2,
  MaxChanges <- 2, chan <- lchan, sendq <- lsendq, changes <- lchanges

Lenient == [bans |-> << >>, exempt |-> {}, glines |-> TRUE]
Strict == [bans |-> <<<<"K", <<0, 1>>>>>>, exempt |-> {1}, glines |-> FALSE]
Both == {Lenient, Strict}
Forever == 0 - 1
Spans == {Forever, 1}
Half == <<0, 1>>
Two == {Half, <<1, 2>>}
Voters == {<<1, "a">>, <<2, "b">>, <<3, "c">>}
Bannable == ({"K", "D"} \X Nets) \cup {<<"G", Half>>} \cup ({"X", "R"} \X Names)
\* What operators of a part place
PlacedIn == [lines |-> {"K", "D"}, votes |-> {"G"}, names |-> {"X", "R"}]
BanParts == DOMAIN PlacedIn
\* Who is there in a part
RulesFor == [p \in Parts |-> CASE p = "rules" -> {"u", "v"} [] p = "remote" -> {"u", "r"}
                             [] OTHER -> {}]

-----------------------------------------------------------------------------
splitVars == <<servers, users, splitServers, splitUsers, splitmode, splitchecking,
               queued, ssets>>
askVars == <<modes, here, wait, aq, ruled, asks, changes, open>>
modeVars == <<home, far, wire, given, blank>>
listVars == <<table, lchan, task, listing, lsendq, last, lists, lchanges>>

SplitIdle == /\ servers = 0 /\ users = 0 /\ splitServers = 0 /\ splitUsers = 0
             /\ splitmode = 0 /\ splitchecking = 0 /\ queued = 0 /\ ssets = 0
AskIdle == /\ modes = 0 /\ here = 0 /\ wait = 0 /\ aq = 0 /\ ruled = 0 /\ asks = 0
           /\ changes = 0 /\ open = 0
ModeIdle == home = 0 /\ far = 0 /\ wire = 0 /\ given = 0 /\ blank = 0
ListIdle == /\ table = 0 /\ lchan = 0 /\ task = 0 /\ listing = 0 /\ lsendq = 0
            /\ last = 0 /\ lists = 0 /\ lchanges = 0

PartsInit ==
  /\ part \in Parts
  /\ Init
  /\ TopicInit /\ (part \notin {"topic", "burst"} => ts = [s \in Holders |-> 1])
  /\ RulesInit /\ \A u \in Everyone : u \notin RulesFor[part] => who[u] = Offline
  /\ IF part = "split" THEN Split!Init ELSE SplitIdle
  /\ IF part = "ask" THEN Queried!Init ELSE AskIdle
  /\ IF part = "modes" THEN ModeLines!Init ELSE ModeIdle
  /\ IF part = "list" THEN Listed!Init ELSE ListIdle
  /\ BansInit /\ (part \notin BanParts => conf = Lenient)

PartsNext ==
  /\ UNCHANGED part
  /\ \/ /\ part = "line" /\ Next
        /\ UNCHANGED <<topicVars, rulesVars, splitVars, askVars, banVars, modeVars, listVars>>
     \/ /\ TopicNext
        /\ \/ part = "topic" /\ cuts' = 0
           \/ part = "burst" /\ up' \subseteq Broken /\ at'[b] = 0
        /\ UNCHANGED <<vars, rulesVars, splitVars, askVars, banVars, modeVars, listVars>>
     \/ /\ part \in {"rules", "remote"} /\ RulesNext
        /\ \A u \in Everyone : u \notin RulesFor[part] => who'[u] = Offline
        /\ part = "rules" => \A c \in Channels : MasksOn(c)' <= 1
        /\ part = "remote" => room'["y"].ts = 0
        /\ UNCHANGED <<vars, topicVars, splitVars, askVars, banVars, modeVars, listVars>>
     \/ /\ part = "split" /\ Split!Next
        /\ UNCHANGED <<vars, topicVars, rulesVars, askVars, banVars, modeVars, listVars>>
     \/ /\ part = "ask" /\ Queried!Next
        /\ UNCHANGED <<vars, topicVars, rulesVars, splitVars, banVars, modeVars, listVars>>
     \/ /\ part \in BanParts /\ BansNext({p \in Placed : p[1] \in PlacedIn[part]})
        /\ UNCHANGED <<vars, topicVars, rulesVars, splitVars, askVars, modeVars, listVars>>
     \/ /\ part = "modes" /\ ModeLines!Next
        /\ UNCHANGED <<vars, topicVars, rulesVars, splitVars, askVars, banVars, listVars>>
     \/ /\ part = "list" /\ Listed!Next
        /\ UNCHANGED <<vars, topicVars, rulesVars, splitVars, askVars, banVars, modeVars>>

allvars == <<part, vars, topicVars, rulesVars, splitVars, askVars, banVars, modeVars,
             listVars>>

PartsSpec == PartsInit /\ [][PartsNext]_allvars

-----------------------------------------------------------------------------
PartsTypeOK ==
  /\ TypeOK /\ BansTypeOK /\ TopicTypeOK /\ RulesTypeOK
  /\ CASE part = "split" -> Split!TypeOK
       [] part = "ask" -> Queried!TypeOK
       [] part = "list" -> Listed!TypeOK
       [] part = "modes" -> ModeLines!TypeOK
       [] OTHER -> TRUE

\* Side effects of send_mode_changes_server, channel_mode.c 1327: "Sends the appropriate
\* mode changes to servers", which leave the next server with what this one has.
ModesSame == part = "modes" => ModeLines!Same

\* A network too small by the counts is in split mode, so that nobody makes a channel
\* there whose other half is elsewhere (channel.c 861).
\* A command of several modes ends the same at the next server, in lines of no more
\* parameters than it reads, but for a parameter that is empty by then
\* (channel_mode.c 402-1029, 1329-1407).
\* What is for operators reaches only those who were that when they asked; and each
\* question has one answer (parse.c hunt_server, m_stats.c, m_trace.c).  A LIST that
\* comes to its end has shown each channel that was there all the while, once, over all
\* the turns it took (hash.c 701-848).  And all of every part is of its kind.
RulesKept ==
  /\ PartsTypeOK
  /\ part = "split" => Split!Protected
  /\ part = "modes" => ModeLines!SameUnlessBlank /\ ModeLines!Fits
  /\ part = "ask" => Queried!Entitled /\ Queried!Answered
  /\ part = "list" => Listed!Complete
=============================================================================

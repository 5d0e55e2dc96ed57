------------------------------ MODULE ChanServ ------------------------------
(***************************************************************************)
(* The bot that holds the channels (chanserv.php, authenication.php): it      *)
(* connects, answers the challenge, joins its channels, and connects again   *)
(* when the connection ends.  Its variables outlive the connection.          *)
(*                                                                         *)
(* The server's side is Access, as far as the bot meets it: it says that it  *)
(* looks the host up, asks for an answer when it has NICK and USER, and takes *)
(* no JOIN before it has the answer.                                         *)
(***************************************************************************)
EXTENDS Naturals, Sequences, FiniteSets, SequencesExt

CONSTANTS
    Channels,    \* of config.json
    MaxLinks,    \* bound: connections
    MaxPings     \* bound: PINGs of the server

VARIABLES
    connected, executed,    \* of the bot
    toServer, toBot,        \* lines under way
    stage,                  \* the server's view: "none", "open", "asked", "user"
    ghost,                  \* it has not noticed the end of the connection before
    joined,                 \* the channels that the bot is in
    links, pings,
    stale                   \* history: connected when the connection was made

botVars == <<connected, executed, toServer, toBot, stage, ghost, joined, links, pings, stale>>

Joins == SetToSeq({<<"join", c>> : c \in Channels})

-----------------------------------------------------------------------------
Init == /\ connected = FALSE /\ executed = FALSE /\ toServer = << >> /\ toBot = << >>
        /\ stage = "none" /\ ghost = FALSE /\ joined = {} /\ links = 0 /\ pings = 0
        /\ stale = FALSE

\* fsockopen, and what is sent at once
Connect ==
  /\ stage = "none" /\ links < MaxLinks /\ links' = links + 1
  /\ executed' = FALSE /\ toServer' = <<<<"nick">>, <<"user">>>> /\ toBot' = <<"notice">>
  /\ stage' = "open" /\ stale' = connected
  /\ UNCHANGED <<connected, ghost, joined, pings>>

\* Faulty variant: the channels are joined before the challenge is answered.
ReadJoinsFirst ==
  /\ toBot # << >> /\ toBot' = Tail(toBot)
  /\ LET line == Head(toBot)
     IN  /\ connected' = (connected \/ line = "authping")
         /\ executed' = (executed \/ connected')
         /\ toServer' = toServer \o (IF connected' /\ ~executed THEN Joins ELSE << >>)
              \o (CASE line = "authping" -> <<<<"authpong">>>>
                    [] line = "ping" -> <<<<"pong">>>>
                    [] OTHER -> << >>)
  /\ UNCHANGED <<stage, ghost, joined, links, pings, stale>>
\* One turn of the loop: the answer, the channels the first time that connected is set,
\* and the answer to a PING
Read ==
  /\ toBot # << >> /\ toBot' = Tail(toBot)
  /\ LET line == Head(toBot)
         answer == IF line = "authping" THEN <<<<"authpong">>>> ELSE << >>
         pong == IF line = "ping" THEN <<<<"pong">>>> ELSE << >>
     IN  /\ connected' = (connected \/ line = "authping")
         /\ executed' = (executed \/ connected')
         /\ toServer' = toServer \o answer
              \o (IF connected' /\ ~executed THEN Joins ELSE << >>) \o pong
  /\ UNCHANGED <<stage, ghost, joined, links, pings, stale>>

\* The server handles a line: the nick is refused while the one before still has it.
Serve ==
  /\ toServer # << >> /\ toServer' = Tail(toServer)
  /\ LET m == Head(toServer)
     IN  /\ stage' = CASE m = <<"user">> /\ ~ghost -> "asked"
                       [] m = <<"authpong">> /\ stage = "asked" -> "user"
                       [] OTHER -> stage
         /\ toBot' = CASE m = <<"user">> -> Append(toBot, IF ghost THEN "notice" ELSE "authping")
                       [] m # <<"user">> /\ m # <<"nick">> /\ stage # "user" /\ stage' # "user" ->
                            Append(toBot, "notice")
                       [] OTHER -> toBot
         /\ joined' = IF m[1] = "join" /\ stage = "user" THEN joined \cup {m[2]} ELSE joined
  /\ UNCHANGED <<connected, executed, ghost, links, pings, stale>>
Ping == /\ stage = "user" /\ pings < MaxPings /\ pings' = pings + 1
        /\ toBot' = Append(toBot, "ping")
        /\ UNCHANGED <<connected, executed, toServer, stage, ghost, joined, links, stale>>

\* The connection ends; the server may learn of it later.
Break == /\ stage # "none" /\ stage' = "none" /\ toServer' = << >> /\ toBot' = << >>
         /\ ghost' \in {ghost, TRUE} /\ joined' = {}
         /\ UNCHANGED <<connected, executed, links, pings, stale>>
Notice == ghost /\ ghost' = FALSE
          /\ UNCHANGED <<connected, executed, toServer, toBot, stage, joined, links, pings, stale>>

Next == Connect \/ Read \/ Serve \/ Ping \/ Break \/ Notice
Spec == Init /\ [][Next]_botVars

-----------------------------------------------------------------------------
TypeOK == /\ {connected, executed, ghost} \subseteq BOOLEAN /\ joined \subseteq Channels
          /\ stage \in {"none", "open", "asked", "user"}

\* When the bot is a user and all it sent is handled, it is in its channels; but for a
\* connection after one that got as far as the challenge: connected is still set, so
\* that the JOINs go out on the first line, before there is a user, and never again.
HoldsChannels ==
  stage = "user" /\ toServer = << >> /\ toBot = << >> =>
    joined = IF stale THEN {} ELSE Channels
=============================================================================

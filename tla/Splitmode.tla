----------------------------- MODULE Splitmode -----------------------------
(***************************************************************************)
(* The split mode of a server: it refuses joins while it sees too few      *)
(* servers or users.  Exits enter it, a timed event leaves it, and SET      *)
(* SPLITMODE puts it ON, OFF or in the hands of the counts (channel.c,     *)
(* client.c, m_set.c, event.c).                                            *)
(***************************************************************************)
EXTENDS Naturals

CONSTANTS MaxServers, MaxUsers,     \* bounds: the network
          MaxSets                   \* bound: SET commands

VARIABLES servers,      \* dlink_list_length(&global_server_list)
          users,        \* Count.total
          splitServers, splitUsers,
          splitmode, splitchecking,
          queued,       \* splitmode_event is in the list of events
          sets

vars == <<servers, users, splitServers, splitUsers, splitmode, splitchecking,
          queued, sets>>

Init ==
    /\ servers = 1 /\ users = 0
    /\ splitServers \in 0..MaxServers /\ splitUsers \in 0..MaxUsers
    /\ splitmode = (splitServers > 0 /\ splitUsers > 0)
    /\ splitchecking = splitmode
    /\ queued = splitmode
    /\ sets = 0

TypeOK ==
    /\ servers \in 1..MaxServers /\ users \in 0..MaxUsers
    /\ splitServers \in 0..MaxServers /\ splitUsers \in 0..MaxUsers
    /\ {splitmode, splitchecking, queued} \subseteq BOOLEAN
    /\ sets \in 0..MaxSets

Few(s, u, ns, nu) == s < ns \/ u < nu

\* check_splitmode() with the counts and limits given; q: the event is queued.
Check(s, u, ns, nu, checking, mode, q) ==
    /\ splitmode' = IF checking THEN Few(s, u, ns, nu) ELSE mode
    /\ queued' = IF checking /\ Few(s, u, ns, nu) # mode THEN ~mode ELSE q

\* Faulty variant: only the exit of a server is looked at.
ExitedServer(s, u) ==
    IF splitchecking /\ ~splitmode /\ s < servers
    THEN Check(s, u, splitServers, splitUsers, TRUE, FALSE, queued)
    ELSE UNCHANGED <<splitmode, queued>>

\* update_client_exit_stats().
Exited(s, u) ==
    IF splitchecking /\ ~splitmode
    THEN Check(s, u, splitServers, splitUsers, TRUE, FALSE, queued)
    ELSE UNCHANGED <<splitmode, queued>>

Arrive ==
    /\ \/ servers < MaxServers /\ servers' = servers + 1 /\ UNCHANGED users
       \/ users < MaxUsers /\ users' = users + 1 /\ UNCHANGED servers
    /\ UNCHANGED <<splitServers, splitUsers, splitmode, splitchecking, queued,
                   sets>>

Exit ==
    /\ \/ servers > 1 /\ servers' = servers - 1 /\ UNCHANGED users
       \/ users > 0 /\ users' = users - 1 /\ UNCHANGED servers
    /\ Exited(servers', users')
    /\ UNCHANGED <<splitServers, splitUsers, splitchecking, sets>>

Command == sets < MaxSets /\ sets' = sets + 1

\* SET SPLITMODE ON or OFF: for good, so the event is taken off.
Force(mode) ==
    /\ Command
    /\ splitmode' = mode /\ splitchecking' = FALSE
    /\ queued' = FALSE
    /\ UNCHANGED <<servers, users, splitServers, splitUsers>>

\* SET SPLITMODE AUTO.
Auto ==
    /\ Command
    /\ splitchecking' = TRUE
    /\ Check(servers, users, splitServers, splitUsers, TRUE, splitmode, queued)
    /\ UNCHANGED <<servers, users, splitServers, splitUsers>>

\* SET SPLITNUM and SET SPLITUSERS.
SetCounts(ns, nu) ==
    /\ Command
    /\ ns = splitServers \/ nu = splitUsers
    /\ splitServers' = ns /\ splitUsers' = nu
    /\ Check(servers, users, ns, nu, splitchecking, splitmode, queued)
    /\ UNCHANGED <<servers, users, splitchecking>>

\* event_run() takes the event off, runs it, and queues it again.
RunEvent ==
    /\ queued
    /\ splitmode' = IF splitchecking
                    THEN Few(servers, users, splitServers, splitUsers)
                    ELSE splitmode
    /\ queued' = TRUE
    /\ UNCHANGED <<servers, users, splitServers, splitUsers, splitchecking,
                   sets>>

Next ==
    \/ Arrive \/ Exit \/ Auto \/ RunEvent
    \/ \E mode \in BOOLEAN : Force(mode)
    \/ \E ns \in 0..MaxServers, nu \in 0..MaxUsers : SetCounts(ns, nu)

\* The event loop goes on running the events that are queued.
Spec == Init /\ [][Next]_vars /\ WF_vars(RunEvent)

-----------------------------------------------------------------------------
(***************************************************************************)
(* Properties.                                                             *)
(***************************************************************************)

\* While the counts decide, too few servers or users always mean split mode,
\* however they came to be too few (check_splitmode() and its callers).
Protected ==
    splitchecking /\ Few(servers, users, splitServers, splitUsers) => splitmode

\* help/set says of AUTO: "ircd chooses splitmode based on SPLITUSERS and
\* SPLITNUM": with enough of both, split mode ends.
Chosen ==
    (splitchecking /\ splitmode)
        ~> (~splitmode \/ ~splitchecking
                \/ Few(servers, users, splitServers, splitUsers))
=============================================================================

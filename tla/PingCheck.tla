------------------------------ MODULE PingCheck ------------------------------
(***************************************************************************)
(* One established connection of the IRC server and the PINGs that find out *)
(* whether its other end is still there: check_pings_list, read_packet and  *)
(* the answer to a PING.  The connection is a client's (one end checks) or a *)
(* link of two servers (both do).                                           *)
(*                                                                         *)
(* Time goes in units of 5 seconds, the period of check_pings.  A rehash may *)
(* change the ping_time of the connection's class at any moment.            *)
(***************************************************************************)
EXTENDS Integers, Sequences

CONSTANTS Ends,       \* the two ends of the connection
          Peer,       \* Peer[e]: the other one
          Checkers,   \* the ends that are IRC servers
          Authed,     \* those whose struct of the other end has HasAuthPing
          Pings,      \* values of ping_time
          Limit,      \* the 120 seconds given to clients without HasAuthPing
          Delay,      \* longest time a message takes
          None,
          MaxTalk,    \* bound on messages under way, PINGs and PONGs aside
          MaxRehash   \* bound on rehashes

ASSUME PingEnds ==
  /\ Peer \in [Ends -> Ends]
  /\ \A e \in Ends : Peer[e] # e /\ Peer[Peer[e]] = e
  /\ Checkers \subseteq Ends /\ Authed \subseteq Checkers
  /\ None \notin Ends
ASSUME PingBounds ==
  /\ Pings \subseteq Nat /\ Limit \in Nat /\ Delay \in Nat
  /\ MaxTalk \in Nat /\ MaxRehash \in Nat

VARIABLES ping,      \* ping[e]: get_client_ping of the connection at e
          idle,      \* idle[e]: CurrentTime - lasttime
          pingSent,  \* IsPingSent
          due,       \* the ends that have not run check_pings this period
          wire,      \* wire[e]: what e sent and its peer has not read, with its age
          hung,      \* ends that no longer read nor write
          closed,    \* the end whose check closed the connection, or None
          rehashes,
          quiet,     \* history: time since e last read something
          lowered    \* history: a rehash lowered a ping_time

vars == <<ping, idle, pingSent, due, wire, hung, closed, rehashes, quiet, lowered>>
config == <<ping, rehashes, lowered>>

Message == [type : {"PING", "PONG", "OTHER"}, age : 0..Delay]

TypeOK ==
  /\ ping \in [Checkers -> Pings]
  /\ idle \in [Checkers -> Nat] /\ quiet \in [Checkers -> Nat]
  /\ pingSent \in [Checkers -> BOOLEAN]
  /\ due \subseteq Checkers
  /\ wire \in [Ends -> Seq(Message)]
  /\ hung \subseteq Ends
  /\ closed \in Checkers \cup {None}
  /\ rehashes \in 0..MaxRehash
  /\ lowered \in BOOLEAN

\* The connection has just been registered.
Init ==
  /\ ping \in [Checkers -> Pings]
  /\ idle = [e \in Checkers |-> 0] /\ quiet = idle
  /\ pingSent = [e \in Checkers |-> FALSE]
  /\ due = {}
  /\ wire = [e \in Ends |-> << >>]
  /\ hung = {} /\ closed = None
  /\ rehashes = 0 /\ lowered = FALSE

Live(e) == closed = None /\ e \notin hung
Sent(e, type) == [wire EXCEPT ![e] = Append(@, [type |-> type, age |-> 0])]

-----------------------------------------------------------------------------
(* check_pings_list *)

\* Faulty variant: for a struct that has got it
AuthTimeoutAuthed(e) == e \in Authed /\ idle[e] > Limit

\* "Connection Timed Out", for a struct that never got AUTHPONG
AuthTimeout(e) == e \notin Authed /\ idle[e] > Limit

\* Faulty variant: the answer gets no time of its own.
PingTimeoutSoon(e) == pingSent[e] /\ ping[e] < idle[e]

\* "Ping timeout"
PingTimeout(e) == pingSent[e] /\ ping[e] < idle[e] /\ idle[e] >= 2 * ping[e]

\* Faulty variant: lasttime is put where the ping_time ends.
AskAhead(e) ==
  /\ ping[e] < idle[e] /\ ~pingSent[e]
  /\ pingSent' = [pingSent EXCEPT ![e] = TRUE]
  /\ idle' = [idle EXCEPT ![e] = -ping[e]]
  /\ wire' = Sent(e, "PING")
  /\ closed' = closed

\* lasttime is put where a ping_time of silence ends now.
Ask(e) ==
  /\ ping[e] < idle[e] /\ ~pingSent[e]
  /\ pingSent' = [pingSent EXCEPT ![e] = TRUE]
  /\ idle' = [idle EXCEPT ![e] = ping[e]]
  /\ wire' = Sent(e, "PING")
  /\ closed' = closed

\* Faulty variant: a connection is closed as soon as it has been silent for the
\* ping_time, asked or not.
CloseUnasked(e) ==
  /\ ping[e] < idle[e]
  /\ closed' = e
  /\ UNCHANGED <<idle, pingSent, wire>>

\* exit_client.  What the loop goes on to do with the dead struct is no matter.
Close(e) ==
  /\ AuthTimeout(e) \/ PingTimeout(e)
  /\ closed' = e
  /\ UNCHANGED <<idle, pingSent, wire>>

Check(e) ==
  /\ Live(e) /\ e \in due
  /\ due' = due \ {e}
  /\ \/ Close(e)
     \/ ~AuthTimeout(e) /\ Ask(e)
     \/ /\ ~AuthTimeout(e) /\ ~PingTimeout(e)
        /\ ping[e] >= idle[e] \/ pingSent[e]
        /\ UNCHANGED <<idle, pingSent, wire, closed>>
  /\ UNCHANGED <<config, hung, quiet>>

-----------------------------------------------------------------------------
(* read_packet and the handlers *)

Heard(e) == IF e \notin Checkers THEN UNCHANGED <<idle, pingSent, quiet>>
            ELSE /\ idle' = [idle EXCEPT ![e] = 0]
                 /\ quiet' = [quiet EXCEPT ![e] = 0]
                 /\ pingSent' = [pingSent EXCEPT ![e] = FALSE]

\* Whatever it reads, e has heard of its peer; a PING is answered.
Read(e) ==
  LET p == Peer[e] IN
  /\ Live(e) /\ wire[p] # << >>
  /\ Heard(e)
  /\ wire' = IF Head(wire[p]).type = "PING"
             THEN [Sent(e, "PONG") EXCEPT ![p] = Tail(wire[p])]
             ELSE [wire EXCEPT ![p] = Tail(@)]
  /\ UNCHANGED <<config, due, hung, closed>>

\* Any other message, as users chat
Talk(e) ==
  /\ Live(e) /\ Len(wire[e]) < MaxTalk
  /\ wire' = Sent(e, "OTHER")
  /\ UNCHANGED <<config, idle, pingSent, due, hung, closed, quiet>>

-----------------------------------------------------------------------------
(* The world *)

Older(e) == [i \in DOMAIN wire[e] |->
               [wire[e][i] EXCEPT !.age = IF @ < Delay THEN @ + 1 ELSE @]]

\* Five seconds pass, when every server has run check_pings and everything that
\* has taken Delay has been read.
Tick ==
  /\ closed = None
  /\ Checkers \ hung # {} /\ due \subseteq hung
  /\ \A e \in Ends : Live(Peer[e]) /\ wire[e] # << >> => Head(wire[e]).age < Delay
  /\ idle' = [e \in Checkers |-> idle[e] + 1]
  /\ quiet' = [e \in Checkers |-> quiet[e] + 1]
  /\ due' = Checkers \ hung
  /\ wire' = [e \in Ends |-> Older(e)]
  /\ UNCHANGED <<config, pingSent, hung, closed>>

\* The machine or the network of e is gone, and nobody closes the socket.
Hang(e) ==
  /\ closed = None /\ hung = {} /\ Peer[e] \in Checkers
  /\ hung' = {e}
  /\ UNCHANGED <<config, idle, pingSent, due, wire, closed, quiet>>

\* A class is read again with another ping_time.
Rehash(e) ==
  /\ Live(e) /\ rehashes < MaxRehash
  /\ rehashes' = rehashes + 1
  /\ \E p \in Pings \ {ping[e]} : /\ ping' = [ping EXCEPT ![e] = p]
                                  /\ lowered' = (lowered \/ p < ping[e])
  /\ UNCHANGED <<idle, pingSent, due, wire, hung, closed, quiet>>

Next ==
  \/ Tick
  \/ \E e \in Checkers : Check(e) \/ Rehash(e)
  \/ \E e \in Ends : Read(e) \/ Talk(e) \/ Hang(e)

Spec == Init /\ [][Next]_vars

-----------------------------------------------------------------------------
\* A peer that answers is kept: whatever the moments at which PINGs, PONGs and
\* other messages meet the checks of the two ends, a connection is closed only
\* if one end hangs, or a rehash cut the time given short (client.c 184-238).
AnsweringKept == closed # None => hung # {} \/ lowered

\* A peer that has gone is found out: no connection that is open has been silent
\* for longer than the ping_time, and twice the ping_time from the PING on, less
\* what lasttime was put forward, rehashes or not; 120 seconds from the PING on
\* for a server (client.c 212-238).  p and r: the ping_times when it was waited
\* for and when the PING was sent; 2: the periods until a check comes round.
SilentClosed ==
  \A e \in Checkers : Live(e) =>
    \E p, r \in Pings : /\ quiet[e] <= 3 * p + 2 - r
                        /\ e \in Authed \/ quiet[e] <= Limit + p + 2 - r

\* client.c 207-211: "If we haven't PINGed the connection and we haven't heard
\* from it in a while, PING it to make sure it is still alive."  Nobody is
\* closed who has not been sent a PING since it was last heard of.
PingedFirst == closed # None => pingSent[closed]
=============================================================================

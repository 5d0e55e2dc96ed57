---------------------------- MODULE ChannelRules ----------------------------
(***************************************************************************)
(* Who may enter a channel and speak in it, as one server decides it:      *)
(* ban, exception and invitation lists, the ban answer cached in each      *)
(* membership, and the invitations linked both to the channel and to the   *)
(* client (channel.c, channel_mode.c, m_invite.c).  Timestamps and ops     *)
(* across servers are in ChannelTS.                                        *)
(***************************************************************************)
EXTENDS Integers, FiniteSets, Sequences

CONSTANTS
    Locals,         \* clients of this server
    Remotes,        \* clients of other servers
    Channels,       \* names of channels
    Idents,         \* what a mask can tell a client by: nick, user and host
    Modes,          \* modes besides the lists: "i", "k", "m"
    MaxChannels,    \* ConfigChannel.max_channels
    MaxIds,         \* ConfigChannel.max_bans
    MaxMasks,       \* bound: masks other servers put on a channel
    Changing,       \* bound: channels whose lists, modes and TS change
    MaxLimit,       \* bound: largest +l
    LastTs          \* bound: the clock, the TS of each new channel

\* Offline: not connected
Offline == 0

\* With max_channels 0 add_invite() would take the tail of an empty list.
ASSUME RulesConstants ==
    /\ Offline \notin Idents
    /\ MaxChannels \in Nat \ {0} /\ MaxLimit \in Nat /\ LastTs \in Nat \ {0}

VARIABLES
    room,       \* channel -> timestamp, modes, limit and lists; ts 0: none
    member,     \* channel -> its members -> op or not, and the cached ban
    who,        \* client -> the name it goes by; Offline: not connected
    invites,    \* channel -> clients invited (chptr->invites)
    invited,    \* client -> channels it is invited to, newest first
    asked       \* history: invitations to the channel since its lists were last lost

rulesVars == <<room, member, who, invites, invited, asked>>

Everyone == Locals \cup Remotes
IdLists == {"b", "e", "I"}
NoLists == [k \in IdLists |-> {}]
NoChannel == [ts |-> 0, modes |-> {}, limit |-> 0, list |-> NoLists]
Member(op) == [op |-> op, cache |-> "unknown"]
Empty == [u \in {} |-> Member(FALSE)]

Rooms == [ts: 0..LastTs, modes: SUBSET Modes, limit: 0..MaxLimit,
          list: [IdLists -> SUBSET Idents]]
Memberships ==
    UNION {[S -> [op: BOOLEAN, cache: {"unknown", "clear", "silenced"}]] :
              S \in SUBSET Everyone}

RulesInit ==
    /\ room = [c \in Channels |-> NoChannel]
    /\ member = [c \in Channels |-> Empty]
    /\ who \in [Everyone -> Idents \cup {Offline}]
    /\ invites = [c \in Channels |-> {}]
    /\ invited = [u \in Locals |-> <<>>]
    /\ asked = {}

RulesTypeOK ==
    /\ room \in [Channels -> Rooms]
    /\ member \in [Channels -> Memberships]
    /\ \A c \in Channels : room[c].ts = 0 <=> member[c] = Empty
    /\ who \in [Everyone -> Idents \cup {Offline}]
    /\ invites \in [Channels -> SUBSET Locals]
    /\ invited \in [Locals -> Seq(Channels)]
    /\ asked \subseteq Channels \X Locals

-----------------------------------------------------------------------------

On(u, c) == u \in DOMAIN member[c]
OnWhat(u) == {c \in Channels : On(u, c)}

IsBanned(u, c) == who[u] \in room[c].list["b"] \ room[c].list["e"]

\* The cached answers of one channel, or of one client, are forgotten.
Unchecked(ms) == [u \in DOMAIN ms |-> [ms[u] EXCEPT !.cache = "unknown"]]
UncheckedClient(ms, u) ==
    [c \in Channels |->
        IF u \in DOMAIN ms[c] THEN [ms[c] EXCEPT ![u].cache = "unknown"]
        ELSE ms[c]]

ClearsCache(kind) == kind \in {"b", "e"}

-----------------------------------------------------------------------------
\* Invitations are in two lists, changed together.

InvitedTo(u) == {invited[u][n] : n \in DOMAIN invited[u]}

\* What is left of a list without those of cs
Dropping(list, cs) ==
    LET Rest[n \in 0..Len(list)] ==
          IF n = 0 THEN <<>>
          ELSE IF list[n] \in cs THEN Rest[n - 1] ELSE Append(Rest[n - 1], list[n])
    IN  Rest[Len(list)]

DelInvite(c, u) ==
    /\ invites' = [invites EXCEPT ![c] = @ \ {u}]
    /\ invited' = [invited EXCEPT ![u] = Dropping(@, {c})]

\* A full list of the client loses its oldest.
AddInvite(c, u) ==
    LET left == Dropping(invited[u], {c})
        gone == IF Len(left) >= MaxChannels THEN {left[Len(left)]} ELSE {}
    IN  /\ invited' = [invited EXCEPT ![u] = <<c>> \o Dropping(left, gone)]
        /\ invites' = [d \in Channels |->
                          IF d = c THEN invites[d] \cup {u}
                          ELSE IF d \in gone THEN invites[d] \ {u}
                          ELSE invites[d]]
        /\ asked' = asked \cup {<<c, u>>}

\* Faulty variant: a channel without members is freed with its invitations.
ClearInvitesNone(gone) ==
    /\ asked' = {a \in asked : a[1] \notin gone}
    /\ UNCHANGED <<invites, invited>>
\* The channels gone leave no invitation.
ClearInvites(gone) ==
    /\ invites' = [c \in Channels |-> IF c \in gone THEN {} ELSE invites[c]]
    /\ invited' = [u \in Locals |-> Dropping(invited[u], gone)]
    /\ asked' = {a \in asked : a[1] \notin gone}

\* u leaves each channel of cs, and a channel it was the last in ends.
Leaves(u, cs) ==
    LET rest(c) == [v \in DOMAIN member[c] \ {u} |-> member[c][v]]
        ended == {c \in cs : DOMAIN member[c] = {u}}
    IN  /\ member' = [c \in Channels |-> IF c \in cs THEN rest(c) ELSE member[c]]
        /\ room' = [c \in Channels |->
                       IF c \in ended THEN NoChannel ELSE room[c]]
        /\ ClearInvites(ended)

-----------------------------------------------------------------------------
\* Entering and leaving.

CanJoin(u, c, key) ==
    /\ "i" \in room[c].modes => \/ c \in InvitedTo(u)
                                \/ who[u] \in room[c].list["I"]
    /\ "k" \in room[c].modes => key
    /\ room[c].limit = 0 \/ Cardinality(DOMAIN member[c]) < room[c].limit
    /\ ~IsBanned(u, c)

\* The members ms, with u new among them
Added(ms, u, op) == [v \in DOMAIN ms \cup {u} |-> IF v = u THEN Member(op) ELSE ms[v]]

\* JOIN of a client here; the first one in makes the channel and is its op.
Enter(u, c, key) ==
    /\ who[u] # Offline /\ ~On(u, c)
    /\ Cardinality(OnWhat(u)) < MaxChannels
    /\ \/ /\ room[c].ts > 0
          /\ CanJoin(u, c, key)
          /\ member' = [member EXCEPT ![c] = Added(@, u, FALSE)]
          /\ UNCHANGED room
       \/ /\ room[c].ts = 0
          /\ room' = [room EXCEPT ![c].ts = LastTs]
          /\ member' = [member EXCEPT ![c] = Added(@, u, TRUE)]
    /\ DelInvite(c, u)
    /\ asked' = asked \ {<<c, u>>}
    /\ UNCHANGED who

\* A channel keeps those already in it as they are.
Arriving(ms, u, op) == IF u \in DOMAIN ms THEN ms ELSE Added(ms, u, op)

Deopped(ms) == [v \in DOMAIN ms |-> [ms[v] EXCEPT !.op = FALSE]]

\* JOIN of a client elsewhere, where its server let it in, and the channel has TS ts.  If
\* it is older there, TS, modes, limit and ops are lost here; lists and invitations stay.
RecvEnter(u, c, ts) ==
    LET older == ts < room[c].ts
        lost == [room[c] EXCEPT !.ts = ts, !.modes = {}, !.limit = 0]
    IN  /\ who[u] # Offline
        /\ older => c \in Changing
        /\ room' = [room EXCEPT ![c] = IF older \/ @.ts = 0 THEN lost ELSE @]
        /\ member' = [member EXCEPT
                         ![c] = Arriving(IF older THEN Deopped(@) ELSE @, u, FALSE)]
        /\ UNCHANGED <<who, invites, invited, asked>>

\* PART, or KICK by an op.
PartFrom(u, c) ==
    /\ On(u, c)
    /\ Leaves(u, {c})
    /\ UNCHANGED who

\* JOIN 0.
PartAll(u) ==
    /\ Cardinality(OnWhat(u)) > 1
    /\ Leaves(u, OnWhat(u))
    /\ UNCHANGED who

\* A client that exits also leaves the lists of those invited.
Quit(u) ==
    /\ who[u] # Offline
    /\ who' = [who EXCEPT ![u] = Offline]
    /\ LET cs == OnWhat(u)
           ended == {c \in cs : DOMAIN member[c] = {u}}
       IN  /\ member' = [c \in Channels |->
                            [v \in DOMAIN member[c] \ {u} |-> member[c][v]]]
           /\ room' = [c \in Channels |->
                          IF c \in ended THEN NoChannel ELSE room[c]]
           /\ invites' = [c \in Channels |->
                             IF c \in ended THEN {} ELSE invites[c] \ {u}]
           /\ invited' = [v \in Locals |->
                             IF v = u THEN <<>>
                             ELSE Dropping(invited[v], ended)]
           /\ asked' = {a \in asked : a[1] \notin ended /\ a[2] # u}

Arrive(u, n) ==
    /\ who[u] = Offline
    /\ who' = [who EXCEPT ![u] = n]
    /\ UNCHANGED <<room, member, invites, invited, asked>>

\* Faulty variant: the cached answers outlive the name they were for.
RenameKept(u, n) ==
    /\ who[u] \notin {Offline, n}
    /\ who' = [who EXCEPT ![u] = n]
    /\ UNCHANGED <<room, member, invites, invited, asked>>

\* NICK, SVSNICK or a new host.
Rename(u, n) ==
    /\ who[u] \notin {Offline, n}
    /\ who' = [who EXCEPT ![u] = n]
    /\ member' = UncheckedClient(member, u)
    /\ UNCHANGED <<room, invites, invited, asked>>

-----------------------------------------------------------------------------
\* Modes.

MasksOn(c) == Cardinality(room[c].list["b"]) + Cardinality(room[c].list["e"])
                + Cardinality(room[c].list["I"])

IsOp(u, c) == On(u, c) /\ member[c][u].op

\* MODE +beI, add_id(): clients here are held to MaxIds, other servers not.
AddMask(u, c, kind, n) ==
    /\ IsOp(u, c) /\ c \in Changing
    /\ MasksOn(c) < (IF u \in Locals THEN MaxIds ELSE MaxMasks)
    /\ room' = [room EXCEPT ![c].list[kind] = @ \cup {n}]
    /\ member' = [member EXCEPT ![c] = IF ClearsCache(kind)
                                       THEN Unchecked(@) ELSE @]
    /\ UNCHANGED <<who, invites, invited, asked>>

\* MODE -beI, del_id().
DelMask(u, c, kind, n) ==
    /\ IsOp(u, c) /\ c \in Changing
    /\ room' = [room EXCEPT ![c].list[kind] = @ \ {n}]
    /\ member' = [member EXCEPT ![c] = IF ClearsCache(kind)
                                       THEN Unchecked(@) ELSE @]
    /\ UNCHANGED <<who, invites, invited, asked>>

SetModes(u, c, ms) ==
    /\ IsOp(u, c)
    /\ room' = [room EXCEPT ![c].modes = ms]
    /\ UNCHANGED <<member, who, invites, invited, asked>>

SetLimit(u, c, l) ==
    /\ IsOp(u, c)
    /\ room' = [room EXCEPT ![c].limit = l]
    /\ UNCHANGED <<member, who, invites, invited, asked>>

\* SJOIN of a channel that has TS ts, modes ms, limit l and u, an op or not, elsewhere.
\* The older side keeps what it has, and both do if neither is.  An older channel takes
\* lists and invitations from a newer one here, with its modes and ops.
RecvBurst(u, c, ts, ms, l, op) ==
    LET old == room[c].ts
        ours == old = 0 \/ ts >= old
        theirs == old = 0 \/ ts <= old
        higher == IF l > room[c].limit THEN l ELSE room[c].limit
        both == [room[c] EXCEPT !.ts = ts, !.modes = @ \cup ms, !.limit = higher]
    IN  /\ who[u] # Offline /\ c \in Changing
        /\ room' = [room EXCEPT ![c] =
                       IF ~theirs THEN @
                       ELSE IF ours THEN both
                       ELSE [NoChannel EXCEPT !.ts = ts, !.modes = ms, !.limit = l]]
        /\ member' = [member EXCEPT ![c] =
                         Arriving(IF ours THEN @ ELSE [v \in DOMAIN @ |-> Member(FALSE)],
                                  u, theirs /\ op)]
        /\ IF ours THEN UNCHANGED <<invites, invited, asked>> ELSE ClearInvites({c})
        /\ UNCHANGED who

-----------------------------------------------------------------------------
\* Speaking: the ban of a member is looked up once, then the answer is kept.

Speak(u, c) ==
    /\ On(u, c) /\ ~member[c][u].op
    /\ "m" \notin room[c].modes
    /\ member[c][u].cache = "unknown"
    /\ member' = [member EXCEPT ![c][u].cache =
                     IF IsBanned(u, c) THEN "silenced" ELSE "clear"]
    /\ UNCHANGED <<room, who, invites, invited, asked>>

\* INVITE by an op here: kept only for clients here, on a +i channel.
Invite(u, v, c) ==
    /\ IsOp(u, c)
    /\ who[v] # Offline /\ ~On(v, c)
    /\ "i" \in room[c].modes
    /\ AddInvite(c, v)
    /\ UNCHANGED <<room, member, who>>

\* INVITE by another server, of a channel that may be newer there.
RecvInvite(v, c, ts) ==
    /\ room[c].ts > 0
    /\ who[v] # Offline /\ ~On(v, c)
    /\ ts <= room[c].ts
    /\ "i" \in room[c].modes
    /\ AddInvite(c, v)
    /\ UNCHANGED <<room, member, who>>

RulesNext ==
    \/ \E c \in Channels :
          \/ \E u \in Locals : \/ \E key \in BOOLEAN : Enter(u, c, key)
                               \/ Speak(u, c)
                               \/ \E v \in Locals : Invite(u, v, c)
                               \/ \E ts \in 1..LastTs : RecvInvite(u, c, ts)
          \/ \E u \in Remotes, ts \in 1..LastTs :
                \/ RecvEnter(u, c, ts)
                \/ \E ms \in SUBSET Modes, l \in 0..MaxLimit, op \in BOOLEAN :
                      RecvBurst(u, c, ts, ms, l, op)
          \/ \E u \in Everyone :
                \/ PartFrom(u, c)
                \/ \E k \in IdLists, n \in Idents : \/ AddMask(u, c, k, n)
                                                 \/ DelMask(u, c, k, n)
                \/ \E ms \in SUBSET Modes : SetModes(u, c, ms)
                \/ \E l \in 0..MaxLimit : SetLimit(u, c, l)
    \/ \E u \in Locals : PartAll(u)
    \/ \E u \in Everyone : \/ Quit(u)
                        \/ \E n \in Idents : Arrive(u, n) \/ Rename(u, n)

RulesSpec == RulesInit /\ [][RulesNext]_rulesVars

-----------------------------------------------------------------------------
(***************************************************************************)
(* Properties.                                                             *)
(***************************************************************************)

\* The answer kept in a membership is the one the lists would give now: no
\* member goes on speaking past a ban, or silent past its end
\* (can_send(), clear_ban_cache_channel(), clear_ban_cache_client()).
CacheRight ==
    \A c \in Channels : \A u \in DOMAIN member[c] \cap Locals :
        /\ member[c][u].cache = "silenced" => IsBanned(u, c)
        /\ member[c][u].cache = "clear" => ~IsBanned(u, c)

\* The two lists of invitations agree, no client holds more than it may, and
\* each one was given to the channel as it is now: none outlives a channel that
\* ended or that an SJOIN showed to be older elsewhere (add_invite(), del_invite(),
\* clear_invites()).  A JOIN that shows the same takes modes and ops, and leaves
\* lists and invitations (m_join.c 191-209, m_sjoin.c 212-230).
InvitesLinked ==
    /\ \A c \in Channels, u \in Locals :
          /\ u \in invites[c] <=> c \in InvitedTo(u)
          /\ u \in invites[c] => <<c, u>> \in asked /\ room[c].ts > 0
    /\ \A u \in Locals : /\ Len(invited[u]) <= MaxChannels
                         /\ \A m, n \in DOMAIN invited[u] : invited[u][m] = invited[u][n] => m = n

\* The ban a member has cached is the one its channel has for it now; an invitation is
\* known at both its ends, and ends with the channel it was given to, or with the lists
\* of that channel (channel.c, m_invite.c, m_sjoin.c).
RulesRight == CacheRight /\ InvitesLinked
=============================================================================

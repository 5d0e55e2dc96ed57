# A verification project for the WormNET 2 emulator

The repository emulates the WormNET 2 lobby of *Worms World Party*: a PHP web server
(`WWP server/`) that keeps the accounts and the list of hosted games; an IRC server
(`WWP IRC server/IRC/`, ircd-hybrid 8.1 with an AUTHPING/AUTHPONG challenge added)
that carries the chat and the lobby channels; a channel bot (`WWP IRC server/ChanServ`);
and a command line client (`WWP Connector/WWPCLI.php`). Paths below are relative to
the IRC server's directory, or to `WWP server/` for the PHP files.

This directory holds TLA+ modules translated from that code, TLC configurations that
check them on small instances, and TLAPS proofs for every instance. `PROJECT.json`
lists the runs, the mutants that each property must catch, the lines that each
definition models, the hazards and the findings.

## 1. Inventory

| Part | State | Operations | Talks to | Hard behaviour | Correct when | Module |
|---|---|---|---|---|---|---|
| Game list: `Game.php`, `GameList.php`, `cleanOldGames.php` | tables HostGames, EncryptedHost (MyISAM) | Create, Close, Delete, Failed, list with cleanup | the game client; the bot and CLI poll it | requests interleave statement by statement, and end half-way | both tables agree; nothing old is listed or stays; nothing young is taken | GameRegistry |
| Accounts: `Login.php`, `CreateUserAccount.php`, `install.php`, `userSettings.php` | table USERS, sessions | create, log in, ban, rename | the game client | SELECT, then INSERT or UPDATE | one account per name and address; who was told so can log in | Accounts |
| Bot: `chanserv.php`, `authenication.php` | two flags that outlive a connection | connect, answer, join | the IRC server | connections break | it holds its channels | ChanServ |
| Channels: `src/channel.c`, `src/channel_mode.c`, `m_join`, `m_sjoin`, `m_part`, `m_kick`, `m_mode`, `m_tmode`, `m_bmask` | at every server: members, ops, TS, modes, key, bans | JOIN, PART, KICK, MODE; SJOIN, JOIN, TMODE, BMASK between servers | every other server; exits of clients | messages cross; links split and rejoin | the copies agree; the older channel wins; no op is smuggled in | ChannelTS, ModeLine |
| Entering and speaking: `src/channel.c`, `m_invite`, `src/invite.c` | ban lists, cached answers, invitations at both ends; split mode | can_join, can_send, INVITE, SET SPLITMODE | channels, exits | the cache is stale; an invitation outlives its channel | the cache is right; both ends fit; a split is noticed | ChannelRules, Splitmode |
| Topic: `m_topic`, `m_tburst`, `m_sjoin` | topic and its time | TOPIC, TBURST | channels, bursts | a lost TS, bursts both ways | one topic | TopicTS |
| Nicks: `m_nick`, `m_kill`, `m_quit`, `src/hash.c` | at every server: the client hash, nick TS | NICK, QUIT, KILL; UID, NICK, QUIT, KILL between servers | every other server; registration | two users take a nick at once; KILLs cross claims, splits and rejoins | a nick has one holder; the servers agree; the worse claim loses; it ends | NickTS |
| Connections: `src/client.c`, `src/ircd.c`, `src/server.c`, `src/s_bsd.c` | lists of connections, flags, counters, abort and dead lists | accept, connect, register, exit, abort, free | everything that sends; the memory pool | exits inside handlers, deferred exits and frees, structs used again | every list and counter fits; nothing is freed twice or used after; nothing stays for ever | ClientLife |
| Registration and limits: `src/user.c`, `src/auth.c`, `src/conf.c`, `src/class.c`, `src/ipcache.c`, `m_user`, `m_cap`, `m_authpong` | what is still needed, the challenge, reference counts | NICK, USER, CAP, AUTHPONG; attach, detach, rehash, expire | nicks, connections, resolver | steps in any order and again; answers race the timeout and the exit; a rehash under it | let in once with every step done; each count is taken down once | Access |
| Ping check: `src/client.c`, `src/packet.c`, `m_ping` | lasttime, PINGSENT, ping_time | check_pings every 5 s, read, PING, PONG | the peer, which checks too | an answer races the check; a rehash | who answers stays, who is gone goes, nobody goes unasked | PingCheck |
| Receiving and sending: `src/packet.c`, `src/send.c`, `src/dbuf.c` | recvq, flood counters; sendqs of shared, counted blocks | read, parse, recalc; put, flush, overflow | everything | overflow in the middle of a line being sent; flood limits | lines whole and in order; a block lives as long as it is queued | RecvQueue, SendQueue |
| Server tree: `m_server`, `m_squit`, `m_eob`, `src/server.c` | who is behind whom | SERVER, SID, SQUIT, EOB | channels and nicks ride on it | links made at both ends, loops, splits crossing introductions | a tree; all know all | ServerTree |
| Messages: `m_message`, `src/send.c`, WALLOPS, LOCOPS | members, flags, flood counters | PRIVMSG, NOTICE to channel, user, mask | the tree | each server routes by its own view | each receiver hears it once, and none is left out | Delivery |
| Questions: `m_stats`, `m_trace`, ..., `parse.c` hunt_server; LIST | a LIST under way | ask, forward, answer | the tree; the sendq | rank changes while it is under way; LIST over many turns | answers for operators reach operators; LIST is complete | Queries, Listing |
| Operators: `m_oper`, `m_challenge`, `m_mode`, `m_svsmode` | modes, oper blocks, counts, hosts | OPER, MODE, SVSMODE, rehash | services, other servers | a change meets one by services | counts fit; an operator has all of it, others nothing | UserModes |
| Bans: `src/gline.c`, `src/hostmask.c`, `src/conf.c`, `src/conf_db.c`, K-, D-, G-, X-lines, RESVs | lines with an end, votes, database files | place, vote, lift, expire, rehash, save, restart | registration, exits, the disk | votes expire; a save is cut short; a rehash clears a table | nobody stays under a ban; no ban is lost | Bans, Database |
| Configuration: `src/conf_parser.y`, `src/conf.c` | block_state, classes, confs, settings | the two passes, rehash | classes, resolver | blocks with parts missing or wrong; confs in use | what is in force is what the file says | ConfFile |
| Commands: `src/parse.c`, `src/modules.c`, `src/conf_pseudo.c` | the tree of commands | load, unload, reload, rehash | everything | removal goes by name | no command leads to what is gone | Commands |
| Resolver: `src/res.c`, `src/reslib.c` | requests, ids | query, answer, time out, reopen | registration, confs, connects | UDP; late answers; structs used again | everyone asking is answered, and by the right answer | Resolver, DnsNames |
| Small stores: WATCH, WHOWAS, ACCEPT, MOTD | lists that point at each other, caches | add, delete, expire, rehash | connections, nicks | both ends must go together | no dangling pointer; nothing old | Indexes, Motd |
| Base: `src/list.c`, `src/mempool.c`, `src/event.c`, `src/match.c` | pointers, chunks, due times | add, delete, walk; get, release, collect; run | everything | a body changes the list that is walked | lists are sequences; a pool is an allocator; events are on time; a mask means what it says | Lists, MemPool, Events, Match |

Not modelled: section 7.

## 2. How the project is built, and what is left

The order was the game list, channels, connections, nicks and the ping check first, each
with proofs; then the parts they rest on. A component is a module with VARIABLES, Init, one
action per operation or handler and Next; its proofs are in `<Module>Proofs` (those of Lists and
MemPool together in `ListPoolProofs`, of ClientLife and Access in `ClientProofs`, of SendQueue and
RecvQueue in `QueueProofs`, of GameRegistry, UserModes and Accounts in `GamesProofs`, of Bans,
TopicTS and ChannelRules in `ChannelProofs`, of PingCheck, Delivery and ServerTree in `LinkProofs`).

The number of runs is kept small. A bench (`MCGames`, `MCChannel`, `MCClients`, `MCPing`)
extends its main module and holds other components as *parts*: each behaviour picks
one part at the start, and only that part moves. So one run explores each part
completely, and never their product. Two consequences: a part that comes to its bound may
stutter, and a property of several parts is a conjunction of `part = "x" => ...`, each
conjunct being a definition of that part's module, where it is stated and
commented. Where a part has proofs the bench extends it as well (`MCPing` SendQueue, Delivery and ServerTree,
`MCClients` Access and RecvQueue, `MCChannel` Bans, TopicTS and ChannelRules, `MCGames` Lists, UserModes and
Accounts), so that run and theorem are about the same definitions. `MCNick`
has NickTS alone.

Parts share nothing in the model; where one component relies on another, the reliance is
written down in the module (ClientLife gives an exited struct back at once to Access,
ServerTree leaves bursts to ChannelTS and NickTS, Bans leaves the files' octets to Database).

Left, in this order:
1. ChannelTS and NickTS over ServerTree instead of a constant tree whose links break.
2. Proofs of the parts that are only model-checked: ConfFile, Agreement of ServerTree.
3. Abstract specifications for GameRegistry (a set of listed games) and ClientLife (a
   table of connections), as MemPool has one in Allocator.
4. A property for `m_user.c:53`, the one hazard of the list without one.

## 3. The modules and the code

Definitions named after a function of the code stand for that function. A faulty
variant is marked "Faulty variant" and is used by the mutants only. Texts, numerics
and notices are left out throughout unless a property is about them.

### The web server and the bot

**GameRegistry** - HostGames is the function `hosted` from GameID to name, EncryptedHost the
set `listed`. Each SQL statement is an action: `InsertHost`, `InsertEncrypted`,
`DeleteHost`, `FailGame` (Failed skips the first half), `DeleteEncrypted`, `CleanSelect`,
`CleanRow`, `CleanHost`, `CleanDone`, `ListGames`; a worker's registers `pc`, `arg` and
`todo` are its PHP variables. `Abort` is `die()`. The GameID of Close, Delete and Failed is
whatever the client sends (`Game.php:167-195`). `known` and `early` are history variables: the
games whose host was told its GameID, and those whose HostGames row was gone before it was.

**Accounts** - the table USERS under CreateUserAccount, Login and userSettings, statement by
statement, with the unique keys install.php declares. `Html` is htmlspecialchars on passwords,
which one page applies and another does not. AccountsInit is after the install: the admin row is there.

**ChanServ** - the bot's two flags outlive its connection. `$connected` is never reset, so after a
connection that got as far as the challenge the JOINs go out before the bot is a user, and
never again; HoldsChannels excludes just that (`stale`).

### Channels and nicks over servers

**ChannelTS** - one channel. `chan[s]` is the struct Channel at server s, `q` the links,
`conn` what each end thinks of its link. Client actions are the whole command, message
included; `RecvSJoin`, `RecvJoin`, `RecvTMode`, `RecvBMask`, ... are the handlers;
`Break`/`RecvClose` the loss of a link at each end and `Connect`/`RecvServer` the two
halves of `server_estab` with the burst. Abstractions: one user mode (ops), one simple
mode, the key (which stands for the limit, merged the same way), one list of bans (for +e
and +I as well). Every server starts with the user list complete; users do not quit, they
are lost with links. `crossed` is a history variable: some change that does not commute
(MODE, KICK, PART, a split) was under way towards a server while that server sent something
that does not commute with it.

**ModeLine** - what ChannelTS takes as one change: a MODE command letter by letter, the
TMODE lines that send_mode_changes_server makes of it, and how the next server takes
them apart. Parameters are words; a key in `mode_changes` is a pointer to the channel's key, so that what
is sent is what the key is when the line is written.

**TopicTS** - `topic`, `at` and `ts` are the topic, its time and the channel's TS at each server, `tq`
the links; SetTopic is the whole of TOPIC, `TopicBurst` what a burst sends of the channel. Every
server has the channel from the start. `met` is a history variable: a topic was set in the second of
another or while something was under way, or a link was made while a topic was spreading; a TOPIC
carries no time, so these the code cannot put in order. Bursts may cross bursts, and links
break, without it.

**ChannelRules**, **Splitmode** - `room`, `member` and `who`: a channel's modes and lists, who is in it with the
answer cached for him, and the name each client goes by; `invites` and `invited`, the two lists of an
invitation, and `asked`, a history of those given to the channel since it was made or an SJOIN took its
lists. A JOIN (`RecvEnter`) or an SJOIN (`RecvBurst`) may be of an older channel, of the same, or of a
newer one; the older one of a JOIN takes modes and ops, of an SJOIN lists and invitations as well. max_channels is at least 1 and is not
changed by a rehash: with 0, `add_invite` takes the tail of an empty list. Then the counts that enter and leave split mode, SET
SPLITMODE and the event that runs between.

**NickTS** - `client[s][u]` is what server s has of user u in its name hash; an
unregistered client holds its nick at its own server only (`phase` is "unreg").
`Losers` is the rule of perform_uid_introduction_collides and
perform_nick_change_collides, the same for a UID and a NICK; `Collide` sends the KILLs each
of the two sends. `Reply` sends to the link a message came on and to the others,
as sendto_server with and without an exception does. Abstractions: clocks in step (one
`clock`), UIDs never reused, refused nicks and changes of case left out, a KILL of a local
user is a QUIT (the code sends the same message to the servers), the burst in any order.
A KILL carries the oper who sent it (`by`), or None when a server did: `RecvKill` drops one whose
sender the server does not know and answers with a KILL of the sender, as parse does before ms_kill
runs. `claims`, `killed`, `opered` and `crossed` are history variables; `crossed` says that a KILL met
the UID of its target (`Meeting`) or a server that had lost its sender (`Orphaned`).

**UserModes** - a user's modes at home and at a second server behind which services sit.
`confs` are the oper{} blocks in memory, by name and reading of the file, with their reference counts;
one that a rehash took out of force stays until its last operator lets go. `given` records the modes
services gave a user; `crossed` marks users one of whose changes met one by services.

**ServerTree** - a connection is a pair of queues; SERVER, SID, SQUIT, EOB and the exit of a
link's end, with hub and leaf masks. Connections may be made by both ends at once and in loops.
`table` is global_server_list without s, oldest first; `up` is servptr, `via` is from.

**Delivery** - routing of messages by each server's own view: to a channel, to those with a flag,
to a user, to everyone, to operators. `Tell` and `Barred` are msg_client: +R at the sender's
server; at the target's the caller-id and the flood counter of the user, which holds up local
senders that are no operators, and which refused messages count up (`Tally`). `sent` keeps all
that was said, `lost` what a server took for a flood, so that `Reached` can say of every kind of
message: those it was for (`IsFor`) have heard it when nothing is under way, unless it is lost
and `Floodable`. For a channel message IsFor asks only of those whose membership, flags or
hearing did not change; for LOCOPS, of those that servers with CAP_CLUSTER lead to (`Way`).

**Queries**, **Listing** - hunt_server, anew at each server, and who may see what of an answer; LIST, one bucket
after another, stopped when the sendq is half full and resumed by io_loop, while the table
changes (find_channel moves what it finds to the front of its bucket).

### One server

**ClientLife** - the lists and counters have the names they have in the code. `status`
is client_p->status, `dead` and `closing` the two flags of IsDefunct, `abort_list` and
`dead_list` the bags of what io_loop has still to exit and free. `Handler` collects what runs
inside one turn; `HandlersDone`, `ExitAborted` and `FreeExited` are the end of the turn.
`Overflow` is dead_link_on_write: it may come between any two actions, which stands for the
send that fails in the middle of a handler. A freed struct is free for the next accept.
Left out: the TLS handshake, NICK followed by SERVER on one connection, servers behind a server.

**Access** - from accept to user: the two auth queries, NICK, USER, CAP and AUTHPONG in any
order, attach_iline and attach_conf with class, auth{} block, listener and address, and a
rehash that replaces all but the counts.

**PingCheck** - one connection, in units of the 5 seconds of check_pings. `idle` is
CurrentTime - lasttime, which is put forward when the PING is sent. A client has
HasAuthPing by the time it is on local_client_list (register_local_user returns without it,
`src/user.c:428`); a server never has it. `Delay` bounds the time a message takes; `Hang` is
a peer that is gone without closing the socket; `Rehash` another ping_time.

**RecvQueue**, **SendQueue** - bytes, lines and the pacing of them, `sent_parsed`,
`allow_read` and the grace as in packet.c; the blocks, their counts, and a stack of the
lines under way, since a server that overruns its sendq makes a notice in the middle of one.

**Bans**, **Database** - the bans of one server, with votes, expiry, rehash and restart (time
is counted down, on disk too; the parts lines, votes and names differ only in what operators place); the database files octet by octet, with disks that fill up, and a kill
at any point.

**ConfFile** - a file is a sequence of blocks of items; `block_state` is one struct for all
blocks, as in the parser; the two passes are those of conf.c. **Commands** - the tree, keyed
by the five low bits of each character. **Resolver**, **DnsNames** - requests, their ids and
packets on a wire that loses, doubles and delays; the octets of names with their
pointers. **Indexes**, **Motd** - WATCH, WHOWAS and ACCEPT; the cache of the messages of the day.

**MemPool**, **Allocator**, **Lists**, **Events**, **Match** - the pool with its three lists
of chunks, and what a pool promises; list.c pointer by pointer, with a walk whose body may
change the lists; the event list under a clock that may be set; match and collapse against
a reference definition over all short masks and names.

## 4. Runs

| Run | Instance | Question, and answer |
|---|---|---|
| games | games: fair, 2 workers, 2 names, 2 games, 1 abort; parts modes, db, masks, timers, web, bot, lists | Are the tables in step, is nothing stale listed, is nothing young taken, does every game leave the list? Yes, except that the tables differ during a deletion of that very game, after one that was cut short, and after one that came between the two INSERTs of the game's Create. Are accounts unique, and operators those who have a block (`AccountsRight`, `OpersRight`)? Yes. Do counts of operators, databases, masks, events, the bot and lists keep right (`KeptRight`)? Yes |
| games_orphan | fair, no aborts | **Violated**: a Failed report leaves a HostGames row for ever |
| channel_line | line: a-h-b, 3 commands, 1 split; parts topic, burst, rules, remote, split, ask, modes, list, lines, votes, names | Do the copies agree (TS, members, ops, modes, key, bans) when nothing that does not commute crossed? Yes; TS never rises; the younger side loses its ops. Topics agree, cached bans and invitations are right, MODE commands end the same unless a parameter has become empty, LIST is complete, questions are answered, bans hold |
| channel_cross | a-b, +t and -t only | **Violated**: SJOIN of equal TS crossing a MODE |
| mode_lost | one MODE of up to 3 letters | **Violated**: +k and -k in one command |
| clients | 3 structs, 2 remote users, 1+1 places; parts access, pool, file, cmds, index, motd, dns, names | Lists, counters, names, frees: they hold. A connection is counted once for all it needs; a pool implements Allocator; a rehash leaves what the file says; what is looked up is there |
| clients_live | fair; 2 structs at a leaf; parts recvq, dns | Dead structs are freed, connects and registrations end, one uplink, the resolver answers all, lines are whole, paced, and parsed in time: yes |
| clients_handshake | 1 struct, fair | **Violated**: a handshake of this server's own making never times out |
| nick_line | fair, a-h-b, 3 users (2 of one person), 3 moves, 1 split; 4 moves, an oper's KILL among them, with no split and in one second | Is a nick unique at a server, do the servers agree, does the worse claim lose, do KILLs come to an end? Yes; they may differ after a KILL that crossed a reintroduction, or that was dropped since its oper was killed meanwhile |
| nick_ghost | a-h-b | **Violated**: without the proviso on KILLs that cross a reintroduction the servers may differ for ever |
| ping | two servers, no HasAuthPing, 40 or 90 s, 1 rehash; parts sendq, tree, chat, say | Is a peer that answers kept, one that is gone found out, and is no one closed unasked? Yes, save for a rehash that lowers the time. Blocks and lines of sendqs, messages and the tree are right |
| ping_default | two servers, ping_time 120 s | **Violated**: closed without a PING |

What the umbrella properties stand for:

| Property | Parts, and definitions |
|---|---|
| KeptRight | games: FreshListing. modes: CountsRight, FarAgrees. db: Whole, Restored, EndsRight. masks: MatchesRight, CollapseRight, CaseRight. timers: InOrder, NoneLate, OncePerRun, NoneFar. bot: HoldsChannels. lists: AllLinked, WalksAll |
| AccountsRight | web: Unique, CanLogIn, MainAdmin |
| OpersRight | modes: operators, their list and their blocks |
| RulesRight | rules, remote: CacheRight, InvitesLinked |
| RulesKept | split: Protected. modes: SameUnlessBlank, Fits. ask: Entitled, Answered. list: Complete |
| BansHold | lines, votes, names: NoBannedUser, LinesKept |
| Entered | access: Accounted, Admitted |
| LookupsRight | file: Isolated, Classed, SettingsRead, AnswersFind. cmds: LinksRight, NoStale, Available, CoreThere. index: WatchesAgree, ToldRight, OnlineKnown, Chases, NewestFirst, AcceptsOnce. motd: RefsRight, NotOld. dns: Waits, Right. names: ReadsNames, SkipsNames, AsksForNames, WellFormed |
| Parsed, Ended | recvq: LinesWhole, Paced. structs: Reaped, NotStuck; dns: whoever asks is answered |
| Queued | sendq: References, InOrder |
| Delivered | chat: HeardOnce, Reached for a channel. say: the same for users, everyone, operators |
| Uplinked, Network | tree: every entry behind one that is there, none twice; Agreement |

Several of these have provisos, because the code does not keep the plain statement. Each proviso
names the case (a history variable `crossed`, `met`, `dropped`, `blank`, `stale`, `reused`,
`clashed`), and section 5 has the cases that disagree with a text of the repository.

**Bounds.** Two games and two workers give every pair of requests on the same game and on
different ones; the third worker adds only another reader. For channels and nicks three
servers in a line give every crossing on a link, relaying, and a split away from the
sender; two of the three users of nick_line are one person, which decides the collision the
other way. One split is one split and rejoin, with everything that happened on both sides.
Two timestamps are enough for younger, equal and older. The topic part is a line
whose links hold, the burst part a pair whose link breaks once; the line with a break, 2.9 million states, was
checked once by hand and is what the theorem is for. Three structs let one be exited while
another is aborted and a third takes a freed place. Three units (15 s) of delay is the
largest delay with which the round trip fits in the 30 seconds that the limit leaves a
server with ping_time 90 s; `Limit`, `Pings` are the code's and `doc/reference.conf`'s values.
Three servers of the tree part start from five networks: a ring in which all connect at once, a line
that breaks, is squit and closes to a loop, and lines with hub and leaf masks. A list of three nodes has a
first, a middle and a last; a pool of three chunks of three items has a full, a used and an
empty one. Masks of up to four characters hold two wildcards, an escape and a literal. DNS
messages of up to four octets hold a label, a pointer and a loop; labels of 63 and 64 octets
are tried in queries. MODE commands have up to three letters, one more than a line takes with
MAXMODEPARAMS 2, so that lines break. LIST has three channels in two buckets and a sendq of
four lines. Counters of commands, moves, splits, aborts and rehashes are named Max... and
are in the guards. `MaxLine`, `RecvLimit`, `MaxFlood` and the like are the code's
limits, made small.

**Deadlock** is checked in games, games_orphan and clients_handshake. The others stop when
their command budget is used and every message is handled (or the connection is
closed), so there it is off.

**Symmetry** is used for structs, remote users and callers of `clients` and for the two ends of `ping`, in
runs with no liveness property.

**Fairness.** The web server: a worker goes on with its request and time passes (weak); players
keep polling, and a poll gets its turn however busy the workers are (strong), since
requests wait in order of arrival. Connections: io_loop ends each of its phases (weak), and the timeouts of
connects, queries and the unregistered are events that every turn runs (strong, since
being defunct disables them for a while; the code tests them each time). RecvQueue: the event
of each second runs, and a pass over the recvq goes on (weak). Resolver: timeout_resolver runs
(weak); no packet is assumed to arrive. Nicks: each link is
read (weak, per link). No user, oper or operator is assumed to do anything.

## 5. Findings

1. `games_orphan`: `cleanOldGames.php` cleans through EncryptedHost only; `Game.php:79`
   skips HostGames on Failed, so that row is never removed.
2. `channel_cross`: ts3.txt promises the same final state when SJOINs and MODEs
   propagate in different directions; at equal TS `m_sjoin.c:196` merges, and the mode that was just
   removed comes back at one server only.
3. `mode_lost`: `channel_mode.c:1016` keeps a pointer to the channel's key for the line
   to the servers; a later -k of the same command empties it, and every letter behind it
   takes the wrong parameter at the next server (`MODE #c +k-k+o key key nick` ops
   nobody there).
4. `clients_handshake`: `check_unknowns_list` (`client.c:264`) asks for IsAuthFinished,
   which outgoing server connections never get; try_connections then waits behind it.
5. `nick_ghost`: a KILL under way across a split and rejoin (`m_kill.c:245`) kills the user
   everywhere but at the server that sent it. The same happens when no link breaks but
   the oper of a KILL loses his own nick on the way (`MaxMoves = 4`, `MaxSplits = 0`): the next
   server ignores the KILL (`parse.c:286`) and kills the oper only, so the target stays there and is
   gone where the KILL came from.
6. `ping_default`: the AUTHPING timeout added to check_pings_list (`client.c:184`) also
   meets servers, which never have HasAuthPing, and comes before the first PING when the
   class keeps the default ping_time.

Seen while modelling, and written into the provisos of properties, but without a run of its own:

- `m_sjoin.c:232` clears the topic of a channel that lost its TS only if it has a text: the time of
  one that was unset stays, and refuses the older channel's topic (`m_tburst.c:81`).
- `conf_parser.y:1506-1515` rebuilds the subnets of a class before the new cidr_bitlen is stored, and
  not at all when number_per_cidr was 0: those who are there are then not counted, against
  `doc/reference.conf:233`. SubnetsLimited has the hypothesis that neither changes in that way.
- A rehash empties the X-lines and RESVs, those of the database too (`conf.c:1164-1202`; `NEWS:332`).
  `Bans!DatabaseKept` states the promise; LinesKept is what holds.
- SET SPLITMODE ON deletes the event that ends a split mode, and AUTO after it, while the counts are
  low, adds none: split mode stays after the network is whole (`m_set.c:247-258`,
  `channel.c:868-876`; `help/set:25-26`). `Splitmode!Chosen` states the promise.
- A pseudo command that is not made of letters is put where no lookup finds it, and stays in the
  tree after its block was freed (`parse.c:51-56`); one that has the name of a module's
  command is removed with it, and the assertion of pseudo_clear fails (`conf_pseudo.c:126`).
- An escape straight after a wildcard is not one (`match.c:90-97`; the comment at 31-36).
- A name in a DNS answer whose pointers make it read octets twice is refused (`reslib.c:362-367`).
- A password that htmlspecialchars changes is stored changed and compared as typed
  (`CreateUserAccount.php:49`, `Login.php`): that account cannot be logged into.
- A SQUIT that comes after its server has come back another way is obeyed (`m_squit.c:177-192`).
- `get_file_version` accepts a greater version than its own, against its comment (`conf_db.c:40`).
- An X-line sent on by ENCAP is permanent at the other servers (`m_xline.c:146,187`).
- An event whose handler deletes it is queued again (`event.c`, `channel.c:882`).

## 6. Proofs

All proofs are for every value of the constants under the modules' named assumptions: any finite
set of connections and users, any tree (`Via` and `Links` fit together), any bounds.

- **GamesProofs**, on GameRegistry - TypeCorrect, ListedHosted, AlwaysFresh, OnlyOldTaken. ListedHasHost
  is not inductive: the GameID of a Create under way could be one that is listed. `IInv` adds
  that such a GameID is private (no other Create has it, no host knows it, and its HostGames row is there
unless it is `early`), that a cleaner about
  to delete from HostGames has taken the game off the list first, and that GameIDs are below
  nextId. For the cleanup, `Cleaning` says that what a cleaner found expired stays so, was told
  to somebody, and is on the list only until the cleaner has come to it.
- **GamesProofs**, on UserModes - OpersTyped and OpersAlwaysRight (OpersRight), for any users, files, hosts
  and orders of services. OpersRight is inductive with the types of home, with `OffGone` (who is not there
  has nothing), `KeysOld` (no block in memory is of a reading to come, so a rehash never lays a new
  block over one in use) and `FarTyped` (what far knows, since its SVSMODEs come back). A command is a
  row of changes, a recursion over their number; `OwnAllKept` and `SvsAllKept` say what all of them
  keep, from what one keeps, by the least counterexample. A command then changes one user, and of the
  blocks at most the one it takes up or lets go: `OneChanges` has OpersRight from the new row alone,
  and `AttachedRight`, `DetachedRight` have the counts, as cardinalities. `BlocksFollow` says that a
  block which others hold stays with the flags they have from it. The assumption `ModesConstants`:
  general::oper_umodes and oper_only_umodes are user modes, a new user gets +i at most, and blocks are
  of the form the parser makes. No bound is put on what services may order.
- **GamesProofs**, on Accounts - AccountsTyped and AccountsAlwaysRight (AccountsRight), for any number of
  requests, names and passwords. Unique needs the keys alone. For CanLogIn, `RowKept`
  says that the row of a name that was told is still there as it was made, with the password as
  htmlspecialchars leaves it, until an admin edits it; with Unique it is the only one. The assumption `AccountsConstants` says that Html is a function on
  passwords.
- **ChannelTSProofs** - KnownMembersAlways, TSFalls, LoserHasNoOps. Needed: a message that takes
  users away comes from their direction (`Queues`), hence no server forgets its own clients
  (`LocalKnown`), hence no handler of a client's own command puts an unknown user into a
  channel; and a channel without members is NoChan (`Channels`). The two action properties are
  proved step by step from the same invariant.
  **Converges** is Convergence, on any tree. A queue is read as what it will do to the channel
  at the server it leads to: `Leads(x, c, d)` says that the messages x, handled one after the
  other, take c to d. SJOINs, JOINs and BMASKs *merge* (`Merge`: the older side's ops, modes,
  key and bans, both of equal age; commutative, idempotent, and any two of a burst may change
  places: `AfterSwap`), the rest does not. `PairOK` says of a link that is up at both ends that
  its two queues take the views of its two ends to one view; of one whose one end waits for
  SERVER, that the burst takes it to both views merged (`Both`); of one that is down at one end,
  that the rest can still be handled. `Uncrossed` says that messages on their way to meet, on
  one link or on several, commute. Both hold as long as not `crossed`. `Sync` adds, for all
  links, `DirectedIn` (a message comes from the side of the users it names), `ApartIn` (nobody
  is known behind a link that is down or not yet up) and `WiresIn` (what each state of the ends
  allows on the queue). Each action is a lemma about a link it reads, one it writes and one it
  leaves alone (`BurstLeads`, `Passes`, `Drops`, `Loses`, `Makes`), and the step lemmas put them
  together. TLC checked Sync on the instance of channel_line first. A tree is needed for it: the
  assumption `Tree` says that a link leads to the servers of one side, and that of any two ends
  of a link each other server is on one side.
- **ClientProofs**, on ClientLife - AlwaysListed, AlwaysCounted, NeverDangling, AlwaysFreedOnce,
  WithinLimits. Per struct, `IInv` says which lists go with which status and flags: closing,
  dead list and dead go together, so exit_client called again does nothing; what is on the abort
  list is dead, so Overflow cannot add it twice. The counters are cardinalities of the lists, so
  limits checked on counters are limits on lists.
- **NickTSProofs** - NicksUnique. Needed: a SQUIT never takes away the server it is sent to
  (`Queues`), so a client connected to s stays in the hash of s until s exits it (`Present`);
  every insertion under a nick first takes out all who hold it.
  NicksAgree and KillJust are NickAgreement and KillsJustified on any tree. Of
  each user, server and neighbour on the way to him, the invariant `Tracks` says that what is on
  the link takes the view of the server that reads it to that of the server that sent it, or to
  nothing if a KILL of the user is on its way back or the link is closed (`Final`; `Leads` is a
  function from positions of the queue to views). It holds of all users until a KILL has crossed
  a reintroduction or come to a server that had lost its sender (`crossed`), and of those nobody has a
  better claim than for ever (`Clear`): the servers know the sender of a KILL unless he is doomed.
  With empty queues both views are the same, link by link, from his own server on. `Stated` and
  `Honest` say that every nick and TS in a hash or a queue is in `claims`, that messages of a
  user come from his side, and that whoever is named in a KILL is `Doomed`: he has the worse of
  two claims, or an operator killed him; `Blamed` says that of the killed. `Apart` and `Ends`
  say what the states of a link's ends allow. Their conjunction is `Knowledge`. The assumption `NickTree` says that of two ends of a link
  exactly one is on the way to a server from the other.
- **ClientProofs**, on Access - AlwaysEntered is Entered, from `AccessInv`. `Fit` says of a connection what it counts for at
  each stage; one that changes is the only one in or out of the sets that are counted (`But`,
  `Counters`, `Members`), so each action is arithmetic on cardinalities. A rehash leaves those
  sets alone: a block in use keeps its class (`Steady`), and the new file's block gets a struct
  that nobody uses, which exists since there are more structs than connections (`Spare`, by the
  pigeonhole principle). `Configured`: the class of a block that may be given to a user is itself
  configured, so attaching him cannot find it freed. The assumption `AccessConstants` says what
  the constants are; TLC evaluates it in the runs of MCClients.
  SubnetsLimited is SubnetLimit. `SubnetsInv` says that the list of a class has each subnet once,
  with the number of its users there (`Lists`, `Users`); counting a user in and out keeps it
  (`AddLists`, `RemoveLists`), and a subnet that is not full has room for one more (`FullLists`). The
  hypothesis `SteadySubnets` is that every file limits the subnets, by masks of one length: then
  no list is ever rebuilt, which is a fold over the users and would need an induction over an
  operator. It is not for convenience: without it the limit fails (section 5, `conf_parser.y:1506`).
  MCClients satisfies it.
- **LinkProofs**, on PingCheck - SilenceBounded, AskedFirst, AnsweringNeverClosed. `Waiting` says, per
  live end, how far `idle` and `quiet` can be apart and how large idle can be before and after
  the PING, with a unit of slack while the check is due. AskedFirst has the hypothesis that
  every ping_time is below the limit: the finding above is what happens without it.
  AnsweringNeverClosed (AnsweringKept) has the hypothesis `Prompt`: the way there and back is
  shorter than every ping_time, and fits between the PING and the limit of an end without
  HasAuthPing. The instance of `ping` satisfies it exactly, with 90 + 2 * 15 = 120 s; the
  property itself excepts a rehash that lowers the time. `InOrder` says that messages of a queue
  are younger the later they were sent, `Answering` that with PINGSENT the PING is still on its
  way, or something its reader has sent since is, each with an age that bounds `idle`.
- **ListPoolProofs** - PoolOk, and Implements: the pool refines Allocator, for any number of
  chunks and any capacity of two or more. `IInv` says that the items of a chunk that are out are
  those carved from it and not on its freelist; so neither the freelist nor the memory behind
  next_mem offers one of them, and a chunk counted empty has none when it is given back. The
  refinement maps the items somebody has and the chunks the pool has; each action of the pool is
  a step of the allocator or a stutter.
  AlwaysLinked: heads, tails, pointers and lengths of all lists say one sequence per list,
  whatever routines are called. `Chained` is the types, `Single` (a node is in one place of one
  list, which is what callers keep) and AllLinked. Two lemmas on sequences (Insertion, Removal)
  and two on pointers (InsertedLinks, RemovedLinks) carry it; each routine of list.c is then one
  lemma that it keeps the invariant.
- **QueueProofs**, on RecvQueue - NeverFaster: after the grace a user has no more than MAX_FLOOD lines
  parsed and two more in each second. `sent_parsed` counts what is left of the lines when two
  are taken off each second, and a line is parsed only below the limit.
  NoneLost: the lines parsed are the first lines of all that was read, wherever reads break
  lines and wherever the parser stops; ParsedRight is both (`Parsed`). `Whole` says that a scan
  of what is on the recvq, begun with the lines parsed, comes to where a scan of all that was
  read comes. The scan is a recursion over bytes, so the lemmas about it need induction; it is
  had from the least counterexample (`Induct`, `LeastOf`).
- **QueueProofs**, on SendQueue - SendTyped and QueuedAlways (Queued), for any number of operators' and
  servers' connections. References: `Load` counts the places of all sendqs that hold a block, and
  each action moves count and places together: putting a line adds one, `dbuf_delete` takes the
  prefix it frees from both, a failed write or a close the whole sendq (`LoadSplit`, `Under`).
  The block a new line gets has no reference, hence is on no sendq, so no line that waits is
  overwritten; and there is one, also in the middle of an overflow, since no more blocks are out
  than lines were made (`Active`, `SpareFree`, with `MaxLines <= Cardinality(Blocks)` of
  SendConstants: mp_pool_get makes another chunk when it needs one). InOrder: a live sendq
  is fine (`FineQ`), that is, `pos` ends inside its first block and total_size is the rest. What is on
  the wire and what waits make up what was told; a write moves bytes from the one to the other and
  loses none at the boundary of blocks, however many it ends in (`DeletedLeft`). AllBytes is a
  recursive function; that it distributes over appending (`WireCat`) is proved from the least
  counterexample, as for the scan above.
- **LinkProofs**, on Delivery - DeliveryTyped and DeliveredAlways (Delivered), on any tree, for any users,
  flags, +R, caller-ids, flood limits and kinds of messages. `Routed`: a copy of a message moves away from its sender,
  and nobody on the side it moves to has heard it yet. `Apart`: of two copies none is on its way
  where the other is; so whoever hears one has heard none, and the copies a server makes go where
  no other copy is. `Awaited` is what Reached says before the end, of every
  message in `sent` that is not in `lost`: whoever it is for (IsFor) has heard it, or a copy is on
  its way to him (`Coming`), through servers that see him where he is (`Views`). That each server
  sends it on there is `Served`, which for a channel holds since a server sends it to links behind
  which it sees somebody with the flag, and for LOCOPS since those on the `Way` share them. IsFor
  can only lose users as they change (`FewerFor`), so what held when a message was said stays.
  `Losses`: what is lost is `Stoppable`, that is Floodable or said to the
  channel by a user who has changed, for whom IsFor asks nothing. The assumption
  `DeliveryTree` says that a link leads to the servers of one side.
- **LinkProofs**, on ServerTree - TreeTyped and UplinkedAlways (Uplinked), for any number of servers and
  connections and any connect{} blocks. Per server, `Sound` says that an entry was introduced by the
  peer of an open connection, or by an entry before it that came on the same one, and that no name
  comes twice. A new entry keeps that, as mr_server and ms_sid look the name up first and the prefix
  of a SID has to be a server from that direction (`SourcedIs`). An exit takes away what is behind
  the server, and the rest keeps its uplinks: what `Below` collects is closed under uplinks
  (`BelowIs`) and `Without` keeps the order (`WithoutIs`), both by induction from the least
  counterexample. When a connection is closed, the one entry that leans on it is its peer, which goes
  with it; a SQUIT leads to a connection that is open (`ViaIs`). `Wired` says that what is on a
  connection is for its two ends and that a SERVER on it names the peer.
- **ChannelProofs**, on Bans - BansTyped and BansAlwaysHold (BansHold), for any addresses, masks, files,
  auth{} exemptions and lifetimes. NoBannedUser alone is not inductive: a client at an exempt
  address could be under a G-line, which a rehash to a file without that exemption and with
  glines off would not sweep. `Sound` says that there is no such client, as registration and a vote
  spare of a G-line only whom an auth{} block exempts; that a new file cannot bring one is
  the assumption `BansConstants`: files have no G-lines. LinesKept is inductive with the types: a
  removal and an expiry put what they take into `gone`, a rehash keeps what is `db`, and a restart
  loads all that is on disk (`ListingAll`, by the pigeonhole principle). `ThoseIs` says what a
  filter leaves of the list of bans, by induction from the least counterexample.
- **ChannelProofs**, on TopicTS - TopicTyped and TopicsAlwaysAgree (TopicsAgree), on any network, cycles
  included, with any number of topics, seconds, links made and broken. TopicsAgree speaks of the end. Before it,
  order what a server has by Below: an older channel is worth more, and in it a later topic. Reading an
  SJOIN, a TBURST or a TOPIC takes the greater of two, so what a server will have is the greatest of
  what it has and of what is on its way there. `Level` says that the ends of an established link come to
  the same; a server passes on what raised it, to all but the link it came on, and a burst gives both
  ends all of both. Times alone do not order topics, as each server dates a TOPIC itself: `Story`
  numbers them, by a function of the second that is the same for all servers. `Leading` says
  that a TBURST follows the SJOIN that lets it in, `Calm` that a topic which spreads meets no burst.
  The proof showed that the proviso could be narrower than it was: a burst that crosses a burst,
  and a link that breaks, need no exception.
- **ChannelProofs**, on ChannelRules - RulesTyped and RulesAlwaysRight (RulesRight), for any clients here and
  elsewhere, channels, names, modes and limits. What changes a list that bans or excepts, the name of a
  member, or the channel itself has to forget what was cached for those it may concern. `Proper` says of one
  channel that its cache is right, with the two facts that make this inductive: its members are on line, so a
  client that arrives is cached nowhere, and it is there when it has members, so whoever leaves last
  ends it (`ProperLess`). An older channel's JOIN takes ops and leaves lists and cache (`ProperDeopped`), its
SJOIN leaves neither (`BurstLost`). `Linked` is InvitesLinked over a set of channels, which may
  only lose those whose invitations are cleared with them. `Dropping`, a recursive function, takes entries out of an
  invited list; `DroppingKeeps` says that it keeps the others, once, and that the list gets shorter if there was
  one: a full list has room for the new invitation when its oldest is gone (`LinkedAdd`). The
  assumption `RulesConstants` is max_channels of at least 1.

Model-checked only: liveness (ListedExpires, Ended, Settles, Heard), which the prover does not
reach; the properties of the parts that have no proof module: KeptRight, RulesKept (Splitmode,
ModeLine, Queries, Listing) and LookupsRight, each with the types of its parts (those of
PingCheck, SendQueue, Delivery and ServerTree are proved and no run checks them); of KeptRight the
parts of UserModes that are about far too, CountsRight and FarAgrees, which would need the queue read as what
it will do, as in ChannelTS; and Network, that all
servers know all when nothing is under way, which is about the ends of paths, as
TopicsAgree, but over a tree that changes. What Match, DnsNames and ModeLine compute from their input is
shown for all inputs up to a length: each is a recursion over its input with several cases a
step, and the library's induction theorems cannot be instantiated here (they take an operator).

## 7. What is not modelled

- **Command line client**: a loop of HTTP requests that keeps nothing.
- **Event loops and vendored code**: epoll, poll and the rest of the calls to the
  operating system; libltdl; `src/patricia.c`, which nothing calls; the lexer and the tables of the
  generated parser (the grammar's actions are in ConfFile).
- **Cryptography**: RSA of CHALLENGE, RIPEMD160 and the answer of AUTHPONG, the TLS handshake, the
  encrypted form of a game. An answer is right or wrong.
- **Admin panel**: the forms for modes and special weapons, each one UPDATE of one row;
  RequestAuth and RequestChannelScheme, which read; UpdatePlayerInfo, whose UPDATE names no row.
- **Channels**: knocks; halfops and voices in ChannelTS (they are ranks in ModeLine and flags in
  Delivery); the exception lists as lists of their own between servers.
- **Messages**: what the sender is told, and RPL_UMODEGMSG to a user with +g; class option can_flood;
  messages of services and servers.
- **Nicks**: refused nicks, changes of case, SVSNICK and SVSKILL. TS 0 and TS below 800000000 are not
  generated by servers of this code.
- **Servers**: CAPAB and what it changes, SVINFO.
- **Answers**: what INFO, WHO, WHOIS and most of STATS say; numerics and their formats.
- A ';' missing in front of a '}' in the configuration file, which swallows the block
  that follows; a mask that ends in a lone backslash, where `match.c` reads past its end.

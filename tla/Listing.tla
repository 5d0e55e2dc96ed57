------------------------------ MODULE Listing ------------------------------
(***************************************************************************)
(* LIST: the channels are sent bucket by bucket of the hash table, as long  *)
(* as the send queue is not half full, and further at each turn of the main *)
(* loop, while channels come, go and change.                               *)
(*                                                                         *)
(* Send queues are counted in lines.  Masks are the sets of names they       *)
(* match; filters on the topic are like those on the time of creation.     *)
(***************************************************************************)
EXTENDS Integers, Sequences, SequencesExt, FiniteSets

CONSTANTS Clients,
          Channels,
          Bucket,    \* the bucket that strhash gives a name, of 0..Size - 1
          Size,      \* HASHSIZE
          Orders,    \* what clients ask for: sequences of options
          Limit,     \* sendq of the class, in lines
          Room,      \* bound on the lines that a socket takes at once
          Now,       \* the time of the requests; channels are there since 0 or now
          MaxUsers,  \* bound on the members of a channel
          MaxLists,  \* bound on the LIST commands
          MaxChanges \* bound on what happens to channels

VARIABLES table,    \* channelTable: each bucket, newest channel first
          chan,     \* chan[c]: +s, and the members who are clients or others
          task,     \* task[x]: connection->list_task
          listing,  \* listing_client_list
          sendq,    \* sendq[x]: lines that wait
          last,     \* history, last[x]: what became of the last LIST
          lists, changes

vars == <<table, chan, task, listing, sendq, last, lists, changes>>

NoTask == [index |-> 0 - 1, min |-> 0, max |-> MaxUsers + 1, since |-> 0, until |-> Now,
           show |-> {}, hide |-> {}]
NewTask == [NoTask EXCEPT !.index = 0]

Buckets == 0..Size - 1
Table == [Buckets -> Seq(Channels)]
There(t) == UNION {ToSet(t[i]) : i \in Buckets}

TypeOK ==
  /\ table \in Table /\ \A i \in Buckets : \A c \in ToSet(table[i]) : Bucket[c] = i
  /\ chan \in [Channels -> [secret : BOOLEAN, in : SUBSET Clients,
                            others : 0..MaxUsers, born : {0, Now}]]
  /\ \A x \in Clients : task[x].index \in -1..Size
  /\ listing \in SUBSET Clients
  /\ sendq \in [Clients -> 0..Limit]
  /\ \A x \in Clients : last[x].state \in {"none", "running", "whole", "stopped"}
  /\ lists \in 0..MaxLists /\ changes \in 0..MaxChanges

Init ==
  /\ table = [i \in Buckets |-> SetToSeq({c \in Channels : Bucket[c] = i})]
  /\ chan = [c \in Channels |-> [secret |-> FALSE, in |-> {}, others |-> 1, born |-> 0]]
  /\ task = [x \in Clients |-> NoTask] /\ listing = {}
  /\ sendq = [x \in Clients |-> 0]
  /\ last = [x \in Clients |-> [state |-> "none", seen |-> << >>, sure |-> {}, may |-> {}]]
  /\ lists = 0 /\ changes = 0

-----------------------------------------------------------------------------
(* What is shown *)

UserCount(ch) == Cardinality(ch.in) + ch.others

\* list_allow_channel: every mask to show has to match.
Allowed(t, c) == /\ \A m \in t.show : c \in m
                 /\ \A m \in t.hide : c \notin m

\* list_one_channel, for who is not an admin
Shown(t, x, c, ch) ==
  /\ ch.secret => x \in ch.in
  /\ UserCount(ch) \in t.min..t.max
  /\ ch.born # 0 => ch.born \in t.since..t.until
  /\ Allowed(t, c)

Visible(tb, cs, x, t) == {c \in There(tb) : Shown(t, x, c, cs[c])}

\* The options in order; one that is wrong spoils all.
Wrong(o) == \/ o.kind = "<" /\ o.n <= 0
            \/ o.kind \in {">", "C<", "C>"} /\ o.n < 0
            \/ o.kind = "?"
Option(t, o) ==
  CASE o.kind = "<" -> [t EXCEPT !.max = o.n - 1]
    [] o.kind = ">" -> [t EXCEPT !.min = o.n + 1]
    [] o.kind = "C<" -> [t EXCEPT !.until = Now - o.n]
    [] o.kind = "C>" -> [t EXCEPT !.since = Now - o.n]
    [] o.kind = "mask" -> [t EXCEPT !.show = @ \cup {o.mask}]
    [] o.kind = "!" -> [t EXCEPT !.hide = @ \cup {o.mask}]
    [] OTHER -> t
Filter(os) == FoldLeft(Option, NewTask, os)

-----------------------------------------------------------------------------
(* The listing *)

\* The lines of buckets i..j - 1 for client x
Lines(t, x, i, j) ==
  FlattenSeq([n \in 1..j - i |->
    SelectSeq(table[i + n - 1], LAMBDA c : Shown(t, x, c, chan[c]))])

\* What waits after n lines more, of which the socket takes room if none waited
Waiting(x, n, room) ==
  IF sendq[x] > 0 THEN sendq[x] + n ELSE IF n > room THEN n - room ELSE 0

\* exceeding_sendq
Exceeding(n) == n > Limit \div 2

\* Faulty variant: the bucket that comes next is taken for done.
PauseAhead(t, i) == [t EXCEPT !.index = i + 1]

Pause(t, i) == [t EXCEPT !.index = i]

\* Faulty variant: the task goes and the list of those who have one does not.
FreeTaskOnly(x) == task' = [task EXCEPT ![x] = NoTask] /\ UNCHANGED listing

\* free_list_task
FreeTask(x) == task' = [task EXCEPT ![x] = NoTask] /\ listing' = listing \ {x}

Became(x, state) == [last[x] EXCEPT !.state = state]

\* safe_list_channels for x with task t, who is sent first lines before
SafeList(t, x, first, room, was) ==
  LET Wait(j) == Waiting(x, first + Len(Lines(t, x, t.index, j)), room)
      full == {j \in t.index..Size - 1 : Exceeding(Wait(j))}
      stop == IF full = {} THEN Size ELSE CHOOSE j \in full : \A k \in full : j <= k
      out == [was EXCEPT !.seen = @ \o Lines(t, x, t.index, stop)]
  IN  \* a bucket longer than the queue: dead_link_on_write, the rest is for nobody
      \/ /\ Wait(stop) > Limit
         /\ FreeTask(x) /\ sendq' = [sendq EXCEPT ![x] = 0]
         /\ last' = [last EXCEPT ![x] = [was EXCEPT !.state = "stopped"]]
      \/ /\ Wait(stop) <= Limit /\ stop < Size
         /\ task' = [task EXCEPT ![x] = Pause(t, stop)] /\ listing' = listing \cup {x}
         /\ sendq' = [sendq EXCEPT ![x] = Wait(stop)]
         /\ last' = [last EXCEPT ![x] = [out EXCEPT !.state = "running"]]
      \/ /\ Wait(stop) <= Limit /\ stop = Size
         /\ FreeTask(x) /\ sendq' = [sendq EXCEPT ![x] = Wait(stop)]
         /\ last' = [last EXCEPT ![x] = [out EXCEPT !.state = "whole"]]

\* do_list: of a client whose listing goes on, the end of it
List(x, os) ==
  /\ lists < MaxLists /\ lists' = lists + 1
  /\ IF task[x] # NoTask
     THEN /\ FreeTask(x) /\ last' = [last EXCEPT ![x] = Became(x, "stopped")]
          /\ UNCHANGED sendq
     ELSE IF \E o \in ToSet(os) : Wrong(o)
     THEN UNCHANGED <<task, listing, sendq, last>>
     ELSE LET t == Filter(os)
              now == Visible(table, chan, x, t)
              new == [state |-> "running", seen |-> << >>, sure |-> now, may |-> now]
          IN  \E room \in 0..Room : SafeList(t, x, 1, room, new)
  /\ UNCHANGED <<table, chan, changes>>

\* io_loop
Turn ==
  /\ \E x \in listing, room \in 0..Room : SafeList(task[x], x, 0, room, last[x])
  /\ UNCHANGED <<table, chan, lists, changes>>

\* sendq_unblocked
Unblocked(x) ==
  /\ sendq[x] > 0 /\ \E n \in 0..sendq[x] - 1 : sendq' = [sendq EXCEPT ![x] = n]
  /\ UNCHANGED <<table, chan, task, listing, last, lists, changes>>

\* exit_client of one who has a task; another connection may take its place.
Exit(x) ==
  /\ task[x] # NoTask /\ FreeTask(x)
  /\ sendq' = [sendq EXCEPT ![x] = 0]
  /\ last' = [last EXCEPT ![x] = Became(x, "stopped")]
  /\ UNCHANGED <<table, chan, lists, changes>>

-----------------------------------------------------------------------------
(* The channels meanwhile *)

\* What is seen all the time of a listing, and what at some time of it
Change(tb, cs) ==
  /\ changes < MaxChanges /\ changes' = changes + 1
  /\ table' = tb /\ chan' = cs
  /\ last' = [x \in Clients |->
       IF last[x].state # "running" THEN last[x]
       ELSE LET now == Visible(tb, cs, x, task[x])
            IN  [last[x] EXCEPT !.sure = @ \cap now, !.may = @ \cup now]]
  /\ UNCHANGED <<task, listing, sendq, lists>>

\* make_channel, by a join of somebody: hash_add_channel puts it in front.
Make(c) ==
  /\ c \notin There(table)
  /\ Change([table EXCEPT ![Bucket[c]] = <<c>> \o @],
            [chan EXCEPT ![c] = [secret |-> FALSE, in |-> {}, others |-> 1, born |-> Now]])

\* remove_user_from_channel: the last who leaves takes the channel along.
Part(c) ==
  /\ c \in There(table) /\ UserCount(chan[c]) = 1
  /\ Change([table EXCEPT ![Bucket[c]] = SelectSeq(@, LAMBDA d : d # c)], chan)

\* hash_find_channel: the one that is found comes to the front of its bucket.
Find(c) ==
  /\ c \in There(table)
  /\ table' = [table EXCEPT ![Bucket[c]] = <<c>> \o SelectSeq(@, LAMBDA d : d # c)]
  /\ UNCHANGED <<chan, task, listing, sendq, last, lists, changes>>

\* Members come and go, and +s is set and unset.
Join(c, x) ==
  /\ c \in There(table) /\ x \notin chan[c].in /\ UserCount(chan[c]) < MaxUsers
  /\ Change(table, [chan EXCEPT ![c].in = @ \cup {x}])
Others(c, n) ==
  /\ c \in There(table) /\ n + Cardinality(chan[c].in) \in 1..MaxUsers
  /\ n # chan[c].others /\ Change(table, [chan EXCEPT ![c].others = n])
Secret(c) ==
  /\ c \in There(table) /\ Change(table, [chan EXCEPT ![c].secret = ~@])

Next ==
  \/ \E x \in Clients : Unblocked(x) \/ Exit(x) \/ \E os \in Orders : List(x, os)
  \/ Turn
  \/ \E c \in Channels :
       \/ Make(c) \/ Part(c) \/ Find(c) \/ Secret(c)
       \/ \E x \in Clients : Join(c, x)
       \/ \E n \in 0..MaxUsers : Others(c, n)

Spec == Init /\ [][Next]_vars

-----------------------------------------------------------------------------
\* A listing that comes to its end has had once each channel that could be seen all the
\* while, none twice and none that never could, whatever the table did between two turns;
\* and the clients that the main loop goes on with are those who have a task.
Complete ==
  \A x \in Clients :
    LET l == last[x] IN
    /\ l.state = "whole" => l.sure \subseteq ToSet(l.seen)
    /\ IsInjective(l.seen) /\ ToSet(l.seen) \subseteq l.may
    /\ x \in listing <=> task[x] # NoTask
    /\ x \in listing <=> l.state = "running"
=============================================================================

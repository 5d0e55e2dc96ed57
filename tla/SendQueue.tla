----------------------------- MODULE SendQueue -----------------------------
(***************************************************************************)
(* The sendqs of a server's connections (src/send.c, src/dbuf.c).           *)
(*                                                                         *)
(* A line is formatted once into a block and the block is put on the sendq  *)
(* of each receiver; it is counted, and goes back to its pool with the last *)
(* of them.  The socket takes as much of a sendq as it likes.  A server     *)
(* that overruns its sendq makes a notice for the operators, in the middle  *)
(* of the line being sent: calls is the stack of the lines under way.       *)
(***************************************************************************)
EXTENDS Integers, Sequences, FiniteSets

CONSTANTS Opers, Peers,  \* connections: of operators, and of servers
          Blocks,        \* the blocks of the pool
          Sizes,         \* lengths of lines
          MaxSendq,      \* max_sendq
          MaxLines       \* bound on lines

\* The pool has a block for every line that may be made: mp_pool_get makes another
\* chunk when the pool is empty.
ASSUME SendConstants ==
  /\ IsFiniteSet(Opers) /\ IsFiniteSet(Peers)
  /\ IsFiniteSet(Blocks) /\ MaxLines \in Nat /\ MaxLines <= Cardinality(Blocks)
  /\ Sizes \subseteq Nat \ {0} /\ MaxSendq \in Nat

VARIABLES refs,     \* references to each block; 0 for one in the pool
          line,     \* the line in each block, a record [id, size]
          sendq,    \* blocks queued for each connection
          pos,      \* bytes of the first one that are sent
          total,    \* total_size
          blocked,  \* FLAGS_BLOCKED: a write is scheduled
          dead,     \* FLAGS_DEADSOCKET
          gone,     \* connections closed
          calls,    \* lines being sent: [block, to, all]
          lines,    \* number of lines made
          told,     \* history: lines put on each sendq
          got       \* history: bytes each socket has taken

sendVars == <<refs, line, sendq, pos, total, blocked, dead, gone, calls, lines, told, got>>

Conns == Opers \cup Peers
NoLine == [id |-> 0, size |-> 0]
QueuedLine == [id : 1..MaxLines, size : Sizes]

SendInit ==
  /\ refs = [b \in Blocks |-> 0] /\ line = [b \in Blocks |-> NoLine]
  /\ sendq = [c \in Conns |-> << >>] /\ pos = [c \in Conns |-> 0]
  /\ total = [c \in Conns |-> 0]
  /\ blocked = {} /\ dead = {} /\ gone = {} /\ calls = << >> /\ lines = 0
  /\ told = [c \in Conns |-> << >>] /\ got = [c \in Conns |-> << >>]

SendTypeOK ==
  /\ refs \in [Blocks -> Nat] /\ line \in [Blocks -> QueuedLine \cup {NoLine}]
  /\ \A c \in Conns : sendq[c] \in Seq(Blocks) /\ told[c] \in Seq(QueuedLine)
  /\ pos \in [Conns -> Nat] /\ total \in [Conns -> 0..MaxSendq]
  /\ blocked \subseteq Conns /\ dead \subseteq Conns /\ gone \subseteq Conns
  /\ \A i \in DOMAIN calls :
       calls[i].block \in Blocks /\ calls[i].to \subseteq Conns /\ calls[i].all \in BOOLEAN
  /\ lines \in 0..MaxLines

-----------------------------------------------------------------------------
(* Blocks *)

Bytes(l) == [k \in 1..l.size |-> <<l.id, k>>]
AddBytes(s, l) == s \o Bytes(l)
AllBytes(ls) ==
  LET upto[k \in 0..Len(ls)] == IF k = 0 THEN << >> ELSE AddBytes(upto[k - 1], ls[k])
  IN  upto[Len(ls)]
LinesIn(bs) == [k \in DOMAIN bs |-> line[bs[k]]]

\* What is to be sent on a sendq
Pending(c) == LET s == AllBytes(LinesIn(sendq[c])) IN SubSeq(s, pos[c] + 1, Len(s))

Uses(bs, b) == Cardinality({k \in DOMAIN bs : bs[k] = b})

\* Faulty variant: a block goes back to the pool at the first dbuf_ref_free.
FreedAtOnce(r, bs) == [b \in Blocks |-> IF Uses(bs, b) > 0 THEN 0 ELSE r[b]]

\* References after dbuf_ref_free of each of bs.
Freed(r, bs) == [b \in Blocks |-> r[b] - Uses(bs, b)]

\* dbuf_delete of n bytes at the head: how many blocks it frees, and pos after it.
Deleted(bs, p, n) ==
  LET after(k) == Len(AllBytes(LinesIn(SubSeq(bs, 1, k)))) - p
      k == CHOOSE k \in 0..Len(bs) :
             (k = 0 \/ after(k) <= n) /\ (k = Len(bs) \/ after(k + 1) > n)
  IN  [blocks |-> k, pos |-> IF k = Len(bs) THEN 0 ELSE IF k = 0 THEN p + n ELSE n - after(k)]

-----------------------------------------------------------------------------
(* Writing.  Each operator gives the new values of what it changes.         *)

\* dead_link_on_write: the sendq is dropped; once only.
DeadLink(c, r) ==
  /\ refs' = IF c \in dead THEN r ELSE Freed(r, sendq[c])
  /\ sendq' = IF c \in dead THEN sendq ELSE [sendq EXCEPT ![c] = << >>]
  /\ pos' = IF c \in dead THEN pos ELSE [pos EXCEPT ![c] = 0]
  /\ total' = IF c \in dead THEN total ELSE [total EXCEPT ![c] = 0]
  /\ dead' = dead \cup {c}
  /\ UNCHANGED <<blocked, got, told>>

\* send_queued_write of a sendq bs of t bytes, with references r and held those that
\* are blocked: the socket takes n bytes, then it takes all, would block
\* (EWOULDBLOCK), wants to read first (TLS), or fails.
Write(c, bs, t, r, held) ==
  IF c \in dead \/ c \in held \/ t = 0
  THEN /\ sendq' = [sendq EXCEPT ![c] = bs] /\ total' = [total EXCEPT ![c] = t] /\ refs' = r
       /\ blocked' = held /\ UNCHANGED <<pos, dead, got>>
  ELSE \E n \in 0..t, end \in {"all", "block", "read", "fail"} :
    LET d == Deleted(bs, pos[c], n)
        sent == SubSeq(bs, 1, d.blocks)
        left == SubSeq(bs, d.blocks + 1, Len(bs))
        bytes == AllBytes(LinesIn(bs))
    IN  /\ (end = "all") = (n = t)
        /\ got' = [got EXCEPT ![c] = @ \o SubSeq(bytes, pos[c] + 1, pos[c] + n)]
        /\ IF end = "fail"
           THEN /\ refs' = Freed(r, bs) /\ sendq' = [sendq EXCEPT ![c] = << >>]
                /\ pos' = [pos EXCEPT ![c] = 0] /\ total' = [total EXCEPT ![c] = 0]
                /\ dead' = dead \cup {c} /\ blocked' = held
           ELSE /\ refs' = Freed(r, sent) /\ sendq' = [sendq EXCEPT ![c] = left]
                /\ pos' = [pos EXCEPT ![c] = d.pos] /\ total' = [total EXCEPT ![c] = t - n]
                /\ blocked' = IF end = "block" THEN held \cup {c} ELSE held
                /\ UNCHANGED dead

-----------------------------------------------------------------------------
(* Sending *)

\* dbuf_alloc and send_format.  all: the receivers are not looked at again (the
\* directions of remote users on a channel) and may be dead.
Frame(b, to, all) == [block |-> b, to |-> to, all |-> all]

Spare == CHOOSE b \in Blocks : refs[b] = 0

\* sendto_one, sendto_server, sendto_channel_butone ...
SendTo(to, all, size) ==
  /\ calls = << >> /\ lines < MaxLines /\ lines' = lines + 1
  /\ refs' = [refs EXCEPT ![Spare] = @ + 1]
  /\ line' = [line EXCEPT ![Spare] = [id |-> lines + 1, size |-> size]]
  /\ calls' = << Frame(Spare, to, all) >>
  /\ UNCHANGED <<sendq, pos, total, blocked, dead, gone, told, got>>

Top == Head(calls)
Onward(c) == << [Top EXCEPT !.to = @ \ {c}] >> \o Tail(calls)

\* Faulty variant: the line is not counted before it is queued.
OverLate(c, l) == total[c] > MaxSendq

Over(c, l) == total[c] + l.size > MaxSendq

\* send_message for the next receiver, if it is not dead.  More than max_sendq
\* ends the connection; operators are told when it is a server's.
SendMessage(c) ==
  /\ calls # << >> /\ c \in Top.to
  /\ LET b == Top.block
         l == line[b]
     IN  IF c \in gone \/ (c \in dead /\ ~(Top.all /\ c \in Peers))
         THEN /\ calls' = Onward(c)
              /\ UNCHANGED <<refs, line, sendq, pos, total, blocked, dead, lines, told, got>>
         ELSE IF Over(c, l)
         THEN IF c \in Peers /\ lines < MaxLines
              THEN \E size \in Sizes :
                     /\ lines' = lines + 1
                     /\ line' = [line EXCEPT ![Spare] = [id |-> lines + 1, size |-> size]]
                     /\ DeadLink(c, [refs EXCEPT ![Spare] = @ + 1])
                     /\ calls' = << Frame(Spare, Opers, FALSE) >> \o Onward(c)
              ELSE /\ c \in Peers => lines = MaxLines
                   /\ DeadLink(c, refs) /\ calls' = Onward(c) /\ UNCHANGED <<line, lines>>
         ELSE /\ told' = [told EXCEPT ![c] = Append(@, l)]
              /\ Write(c, Append(sendq[c], b), total[c] + l.size, [refs EXCEPT ![b] = @ + 1], blocked)
              /\ calls' = Onward(c) /\ UNCHANGED <<line, lines>>
  /\ UNCHANGED gone

\* dbuf_ref_free by the one who made the line
LineSent ==
  /\ calls # << >> /\ Top.to = {}
  /\ refs' = Freed(refs, << Top.block >>) /\ calls' = Tail(calls)
  /\ UNCHANGED <<line, sendq, pos, total, blocked, dead, gone, lines, told, got>>

\* sendq_unblocked: the socket may be written again.
Unblocked(c) ==
  /\ calls = << >> /\ c \in blocked \ gone
  /\ Write(c, sendq[c], total[c], refs, blocked \ {c})
  /\ UNCHANGED <<line, gone, calls, lines, told>>

\* send_queued_all: what is left (a TLS connection that wanted to read first)
SendQueued(c) ==
  /\ calls = << >> /\ c \notin gone \cup dead \cup blocked /\ total[c] > 0
  /\ Write(c, sendq[c], total[c], refs, blocked)
  /\ UNCHANGED <<line, gone, calls, lines, told>>

\* close_connection, of a dead link or any other
CloseConn(c) ==
  /\ calls = << >> /\ c \notin gone
  /\ gone' = gone \cup {c} /\ dead' = dead \cup {c} /\ blocked' = blocked \ {c}
  /\ refs' = Freed(refs, sendq[c]) /\ sendq' = [sendq EXCEPT ![c] = << >>]
  /\ pos' = [pos EXCEPT ![c] = 0] /\ total' = [total EXCEPT ![c] = 0]
  /\ UNCHANGED <<line, calls, lines, told, got>>

SendNext ==
  \/ \E to \in SUBSET Conns \ {{}}, all \in BOOLEAN, size \in Sizes : SendTo(to, all, size)
  \/ \E c \in Conns : SendMessage(c) \/ Unblocked(c) \/ SendQueued(c) \/ CloseConn(c)
  \/ LineSent

SendSpec == SendInit /\ [][SendNext]_sendVars

-----------------------------------------------------------------------------
(* Properties *)

\* A block has a reference for each place that holds it, so that none is in the pool
\* while it waits on a sendq and none is lost.
Places == UNION {{c} \X DOMAIN sendq[c] : c \in Conns}
References ==
  \A b \in Blocks :
    refs[b] = Cardinality({p \in Places : sendq[p[1]][p[2]] = b})
              + Cardinality({i \in DOMAIN calls : calls[i].block = b})

\* A live connection gets the lines meant for it whole, in order and once: what it has
\* taken and what waits on its sendq are what it was told, whatever became of the
\* blocks on the sendqs of others.
InOrder ==
  \A c \in Conns \ dead :
    /\ got[c] \o Pending(c) = AllBytes(told[c])
    /\ total[c] = Len(Pending(c)) /\ total[c] <= MaxSendq

\* The lines a connection is sent are whole and in order, whatever becomes of the
\* blocks on the sendqs of others, and a block goes back to the pool when, and only
\* when, no queue nor call has it (send.c, dbuf.c).
Queued == References /\ InOrder
=============================================================================

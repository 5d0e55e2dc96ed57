----------------------------- MODULE RecvQueue -----------------------------
(***************************************************************************)
(* The recvq of a connection (src/packet.c): bytes are read as they come,   *)
(* lines are taken out of them and parsed.  A user may have MAX_FLOOD lines *)
(* parsed and two more in each second, after a first grace of               *)
(* MAX_FLOOD_BURST; what is beyond waits on the recvq, which has a limit.   *)
(*                                                                         *)
(* One connection; handlers run one at a time, a line at a step.            *)
(***************************************************************************)
EXTENDS Integers, Sequences

CONSTANTS MaxFlood, MaxBurst,
          MaxLine,    \* IRCD_BUFSIZE - 2: the longest line
          RecvLimit,  \* max_recvq
          ReadSize,   \* bytes of one read (READBUF_SIZE)
          OperFlood,  \* no_oper_flood: opers are not paced
          MaxBytes, MaxTicks  \* bounds on bytes and on seconds counted

ASSUME FloodLimits == /\ MaxFlood \in Nat \ {0} /\ MaxBurst \in Nat /\ MaxBurst >= MaxFlood
                      /\ MaxLine \in Nat \ {0} /\ ReadSize \in Nat /\ MaxTicks \in Nat

VARIABLES stage,   \* "unknown", "user", "server"
          oper, graced,  \* UMODE_OPER; FLAGS_FLOODDONE
          sent_parsed, allow_read,
          recvq,
          pass,     \* the parse_client_queued under way: none, or of read or recalc
          n,        \* lines of this pass (unknown clients)
          reading,  \* a read handler is set
          defunct,
          stream,   \* history: all bytes read
          parsed,   \* history: all lines parsed
          paced, ticks  \* history: lines and seconds since the grace ended

recvVars == <<stage, oper, graced, sent_parsed, allow_read, recvq, pass, n, reading,
          defunct, stream, parsed, paced, ticks>>

Byte == {"x", " ", "eol"}

RecvInit ==
  /\ stage = "unknown" /\ oper = FALSE /\ graced = FALSE
  /\ sent_parsed = 0 /\ allow_read = MaxFlood
  /\ recvq = << >> /\ pass = "none" /\ n = 0 /\ reading = TRUE /\ defunct = FALSE
  /\ stream = << >> /\ parsed = << >> /\ paced = 0 /\ ticks = 0

RecvTypeOK ==
  /\ stage \in {"unknown", "user", "server"} /\ {oper, graced, reading, defunct} \subseteq BOOLEAN
  /\ sent_parsed \in 0..MaxBytes /\ allow_read \in {MaxFlood, MaxBurst}
  /\ recvq \in Seq(Byte) /\ stream \in Seq(Byte) /\ parsed \in Seq(Seq(Byte))
  /\ pass \in {"none", "read", "recalc"} /\ n \in 0..MaxFlood
  /\ paced \in Nat /\ ticks \in 0..MaxTicks

-----------------------------------------------------------------------------
(* Lines *)

Empty == {" ", "eol"}

\* Where the first line begins, ends, and what is after the empty bytes behind it;
\* Len + 1 for nowhere
Start(s) == LET I == {i \in DOMAIN s : s[i] \notin Empty}
            IN  IF I = {} THEN Len(s) + 1 ELSE CHOOSE i \in I : \A j \in I : i <= j
End(s) == LET I == {i \in DOMAIN s : i > Start(s) /\ s[i] = "eol"}
          IN  IF I = {} THEN Len(s) + 1 ELSE CHOOSE i \in I : \A j \in I : i <= j
Rest(s) == LET t == SubSeq(s, End(s), Len(s)) IN SubSeq(t, Start(t), Len(t))

Least(a, b) == IF a < b THEN a ELSE b

\* extract_one_line: the first line and what remains; an empty one if there is none
\* with its end, when only empty bytes before it are dropped.
Extract(s) ==
  IF End(s) > Len(s) THEN [line |-> << >>, rest |-> SubSeq(s, Start(s), Len(s))]
  ELSE [line |-> SubSeq(s, Start(s), Least(End(s) - 1, Start(s) + MaxLine - 1)),
        rest |-> Rest(s)]

\* The lines of all bytes, one byte after the other
Add(acc, b) ==
  IF b = "eol"
  THEN IF acc.open = << >> THEN acc
       ELSE [lines |-> Append(acc.lines, SubSeq(acc.open, 1, Least(MaxLine, Len(acc.open)))),
             open |-> << >>]
  ELSE IF b = " " /\ acc.open = << >> THEN acc ELSE [acc EXCEPT !.open = Append(@, b)]
Lines(s) ==
  LET acc[k \in 0..Len(s)] ==
        IF k = 0 THEN [lines |-> << >>, open |-> << >>] ELSE Add(acc[k - 1], s[k])
  IN  acc[Len(s)].lines

-----------------------------------------------------------------------------
(* Parsing *)

\* user: no_oper_flood, or can_flood of the auth{}, which makes one like it
Checked == ~(OperFlood /\ oper)

\* Faulty variant: a line more than allow_read.
HeldOne == \/ stage = "unknown" /\ n >= MaxFlood
           \/ stage = "user" /\ Checked /\ sent_parsed > allow_read

\* No more lines are parsed in this pass.
Held == \/ stage = "unknown" /\ n >= MaxFlood
        \/ stage = "user" /\ Checked /\ sent_parsed >= allow_read

\* A line is taken and parsed.  It may register the connection as a user's, with
\* the grace, or as a server's; end the grace (flood_endgrace by NICK, JOIN to other
\* commands of users); make an oper; end the connection.
ParseLine ==
  LET e == Extract(recvq)
  IN  /\ pass # "none" /\ ~defunct /\ ~Held /\ e.line # << >>
      /\ recvq' = e.rest /\ parsed' = Append(parsed, e.line)
      /\ n' = IF stage = "unknown" THEN n + 1 ELSE n
      /\ \/ /\ sent_parsed' = IF stage = "user" THEN sent_parsed + 1 ELSE sent_parsed
            /\ paced' = IF graced THEN paced + 1 ELSE paced
            /\ UNCHANGED <<stage, oper, graced, allow_read, defunct>>
         \/ /\ stage = "unknown"
            /\ \/ stage' = "user" /\ allow_read' = MaxBurst
               \/ stage' = "server" /\ UNCHANGED allow_read
            /\ UNCHANGED <<oper, graced, sent_parsed, defunct, paced>>
         \/ /\ stage = "user" /\ ~graced
            /\ graced' = TRUE /\ allow_read' = MaxFlood /\ sent_parsed' = 1 /\ paced' = 1
            /\ UNCHANGED <<stage, oper, defunct>>
         \/ /\ stage = "user" /\ ~oper
            /\ oper' = TRUE /\ sent_parsed' = sent_parsed + 1
            /\ paced' = IF graced THEN paced + 1 ELSE paced
            /\ UNCHANGED <<stage, graced, allow_read, defunct>>
         \/ /\ defunct' = TRUE
            /\ UNCHANGED <<stage, oper, graced, sent_parsed, allow_read, paced>>
      /\ UNCHANGED <<pass, reading, stream, ticks>>

\* The pass ends; more than max_recvq after a read is "Excess Flood".
EndPass ==
  /\ pass # "none" /\ (defunct \/ Held \/ Extract(recvq).line = << >>)
  /\ pass' = "none" /\ n' = 0
  /\ recvq' = IF defunct \/ Held THEN recvq ELSE Extract(recvq).rest
  /\ defunct' = (defunct \/ (pass = "read" /\ stage # "server" /\ Len(recvq') > RecvLimit))
  /\ UNCHANGED <<stage, oper, graced, sent_parsed, allow_read, reading, stream, parsed,
                 paced, ticks>>

\* read_packet: some bytes, which dbuf_put adds
Read ==
  /\ pass = "none" /\ ~defunct /\ reading
  /\ \E k \in 1..ReadSize : \E bytes \in [1..k -> Byte] :
       /\ Len(stream) + k <= MaxBytes
       /\ recvq' = recvq \o bytes /\ stream' = stream \o bytes
  /\ pass' = "read"
  /\ UNCHANGED <<stage, oper, graced, sent_parsed, allow_read, n, reading, defunct,
                 parsed, paced, ticks>>

\* A TLS read that wants to write first: a write handler is set, which does not set
\* the read handler again.
ReadWantsWrite ==
  /\ pass = "none" /\ ~defunct /\ reading /\ reading' = FALSE
  /\ UNCHANGED <<stage, oper, graced, sent_parsed, allow_read, recvq, pass, n, defunct,
                 stream, parsed, paced, ticks>>

\* dead_link_on_read, dead_link_on_write, or an exit: the recvq is dropped.
Die ==
  /\ pass = "none" /\ ~defunct /\ defunct' = TRUE /\ recvq' = << >>
  /\ UNCHANGED <<stage, oper, graced, sent_parsed, allow_read, pass, n, reading,
                 stream, parsed, paced, ticks>>

\* Faulty variant: a second is counted, and nothing parsed of what had to wait.
RecalcOnly ==
  /\ pass = "none" /\ ~defunct
  /\ sent_parsed' = IF graced /\ sent_parsed > 2 THEN sent_parsed - 2 ELSE 0
  /\ ticks' = IF graced THEN Least(ticks + 1, MaxTicks) ELSE ticks
  /\ UNCHANGED <<pass, stage, oper, graced, allow_read, recvq, n, reading, defunct, stream,
                 parsed, paced>>

\* flood_recalc, each second (comm_setflush, comm_checktimeouts)
Recalc ==
  /\ pass = "none" /\ ~defunct
  /\ sent_parsed' = IF graced /\ sent_parsed > 2 THEN sent_parsed - 2 ELSE 0
  /\ ticks' = IF graced THEN Least(ticks + 1, MaxTicks) ELSE ticks
  /\ pass' = "recalc"
  /\ UNCHANGED <<stage, oper, graced, allow_read, recvq, n, reading, defunct, stream,
                 parsed, paced>>

RecvNext == ParseLine \/ EndPass \/ Read \/ ReadWantsWrite \/ Die \/ Recalc

RecvSpec == RecvInit /\ [][RecvNext]_recvVars /\ WF_recvVars(Recalc) /\ WF_recvVars(ParseLine \/ EndPass)

-----------------------------------------------------------------------------
(* Properties *)

\* The lines parsed are the first lines of all that was read, however the bytes came
\* in reads and wherever the pacing stopped.
LinesWhole == parsed = SubSeq(Lines(stream), 1, Len(parsed))

\* After the grace, a user has MAX_FLOOD lines parsed and two more in each second.
Paced == stage = "user" /\ graced /\ Checked /\ ticks < MaxTicks =>
           paced <= MaxFlood + 2 * ticks

\* The lines a client has had parsed are the first of what it has sent, whole, and no
\* more of them than the flood limits allow (packet.c).
Parsed == LinesWhole /\ Paced

\* The lines that have come are all parsed in time, though no more bytes come, unless
\* the connection ends.
Heard == []<>(defunct \/ parsed = Lines(stream))
=============================================================================

------------------------------ MODULE Database ------------------------------
(***************************************************************************)
(* The databases of bans (conf_db.c; restart.c, ircd.c 602-606): one file    *)
(* for each kind, written octet by octet to a temporary file that then takes *)
(* the place of the old one, each 5 minutes and when the server is told to   *)
(* end, and read when it starts.  Disks fill up; the process may be killed.  *)
(***************************************************************************)
EXTENDS Naturals, Sequences, FiniteSets, SequencesExt

CONSTANTS
    Lines,        \* bans that may be set: [kind, texts, setat, until, db]; db: by a command,
                  \* otherwise by the file
    Configs,      \* sets of such bans that a file may have
    MaxChanges, MaxSaves, MaxFaults   \* bounds

VARIABLES
    bans,         \* in memory
    up,           \* the process runs
    disk, temp,   \* kind -> octets of the file and of the temporary file, Absent
    todo,         \* what save_all_databases has left: [kinds, fields, open, ends]
    bound,        \* [changes, saves, faults] so far
    snap,         \* history: kind -> what was saved last
    booted,       \* history: the file of the last start while nothing changed since, or None
    last          \* history: what a server told to end had, if all of it was written

dbVars == <<bans, up, disk, temp, todo, bound, snap, booted, last>>

\* In the order of save_all_databases
Kinds == <<"K", "D", "G", "X", "R">>
Absent == <<256>>
NoFile == {[kind |-> "none", texts |-> << >>, setat |-> 0, until |-> 0, db |-> FALSE]}
Idle == [kinds |-> << >>, fields |-> << >>, open |-> FALSE, ends |-> FALSE]
Version == 1
Saved(k) == {b \in bans : b.kind = k /\ b.db}

-----------------------------------------------------------------------------
(* Octets.  Numbers here are below 2^31.                                     *)

Octets(v, n) == [i \in 1..n |-> IF n - i > 3 THEN 0 ELSE (v \div 256^(n - i)) % 256]
\* write_string: the length counts the closing 0.
Text(s) == Octets(Len(s) + 1, 4) \o s \o <<0>>

\* The fields that one ban is written as
Fields(b) == [i \in DOMAIN b.texts |-> Text(b.texts[i])] \o <<Octets(b.setat, 8), Octets(b.until, 8)>>
File(bs) == LET seq == SetToSeq(bs)
            IN  <<Octets(Version, 4), Octets(Cardinality(bs), 4)>>
                \o FlattenSeq([i \in DOMAIN seq |-> Fields(seq[i])])

\* A read that fails leaves the field what it was; SAFE_READ goes on to the next field.
\* r: [rest, got]
Number(octets) == FoldLeft(LAMBDA v, o : v * 256 + o, 0, octets)
ReadNumber(r, field, n) ==
  IF Len(r.rest) < n THEN [r EXCEPT !.rest = << >>]
  ELSE [r EXCEPT !.rest = SubSeq(@, n + 1, Len(@)),
                 !.got[field] = Number(SubSeq(r.rest, 1, n))]
ReadText(r, field) ==
  LET n == Number(SubSeq(r.rest, 1, 4))
      rest == SubSeq(r.rest, 5, Len(r.rest))
  IN  IF Len(r.rest) < 4 \/ Len(rest) < n THEN [r EXCEPT !.rest = << >>]
      ELSE [r EXCEPT !.rest = SubSeq(rest, n + 1, Len(rest)),
                     !.got[field] = SubSeq(rest, 1, n - 1)]

Texts(k) == IF k \in {"K", "G"} THEN 3 ELSE 2
Unread == [texts |-> << << >>, << >>, << >> >>, setat |-> 0, until |-> 0]

ReadBan(r, k) ==
  LET one(x, i) == LET y == ReadText([rest |-> x.rest, got |-> x.got.texts], i)
                   IN  [rest |-> y.rest, got |-> [x.got EXCEPT !.texts = y.got]]
      texts == FoldLeft(one, r, [i \in 1..Texts(k) |-> i])
  IN  ReadNumber(ReadNumber(texts, "setat", 8), "until", 8)
Ban(k, got) == [kind |-> k, texts |-> SubSeq(got.texts, 1, Texts(k)), setat |-> got.setat,
                until |-> got.until, db |-> TRUE]

\* create_resv refuses a name that is there; the other kinds are added in any case.
Make(bs, b) == IF b.kind = "R" /\ \E c \in bs : c.kind = "R" /\ c.texts[1] = b.texts[1]
               THEN bs ELSE bs \cup {b}

Load(bs, k, octets) ==
  LET start == ReadNumber(ReadNumber([rest |-> octets, got |-> [version |-> 0, records |-> 0]],
                                     "version", 4), "records", 4)
      next(x, i) == LET r == ReadBan(x.r, k) IN [r |-> r, bs |-> Make(x.bs, Ban(k, r.got))]
  IN  IF octets = Absent \/ start.got.version < 1 THEN bs
      ELSE FoldLeft(next, [r |-> [rest |-> start.rest, got |-> Unread], bs |-> bs],
                    [i \in 1..start.got.records |-> i]).bs

-----------------------------------------------------------------------------
Quiet == up /\ todo = Idle
Busy == up /\ todo # Idle
Change == bound.changes < MaxChanges /\ bound' = [bound EXCEPT !.changes = @ + 1]
Fault == bound.faults < MaxFaults /\ bound' = [bound EXCEPT !.faults = @ + 1]

\* A command sets a ban, ends one, or its time does.
Set(b) ==
  /\ Quiet /\ Change /\ b.db /\ b \notin bans
  /\ bans' = Make(bans, b) /\ booted' = NoFile
  /\ UNCHANGED <<up, disk, temp, todo, snap, last>>
Unset(b) ==
  /\ Quiet /\ Change /\ b \in bans
  /\ bans' = bans \ {b} /\ booted' = NoFile
  /\ UNCHANGED <<up, disk, temp, todo, snap, last>>

\* save_all_databases, by its event or by server_die
Save(ends) ==
  /\ Quiet /\ bound.saves < MaxSaves /\ bound' = [bound EXCEPT !.saves = @ + 1]
  /\ todo' = [Idle EXCEPT !.kinds = Kinds, !.ends = ends]
  /\ last' = IF ends THEN {b \in bans : b.db} ELSE last
  /\ UNCHANGED <<bans, up, disk, temp, snap, booted>>

\* The next database; a server that was to end has done so after the last.
NextFile ==
  IF Len(todo.kinds) > 1
  THEN /\ todo' = [todo EXCEPT !.kinds = Tail(@), !.open = FALSE, !.fields = << >>]
       /\ UNCHANGED <<up, bans, booted>>
  ELSE /\ todo' = Idle /\ up' = ~todo.ends
       /\ bans' = IF todo.ends THEN {} ELSE bans
       /\ booted' = IF todo.ends THEN NoFile ELSE booted
Failed == NextFile /\ last' = NoFile

\* open_db_write: what is left of an earlier temporary file is removed.
OpenDb ==
  /\ Busy /\ ~todo.open
  /\ LET k == Head(todo.kinds)
     IN  \/ /\ temp' = [temp EXCEPT ![k] = << >>]
            /\ todo' = [todo EXCEPT !.open = TRUE, !.fields = File(Saved(k))]
            /\ UNCHANGED <<bans, up, bound, last, booted>>
         \/ /\ Fault /\ temp' = [temp EXCEPT ![k] = Absent] /\ Failed
  /\ UNCHANGED <<disk, snap>>

\* SAFE_WRITE; one that fails gives up this database (restore_db).
WriteField ==
  /\ Busy /\ todo.open /\ todo.fields # << >>
  /\ LET k == Head(todo.kinds)
     IN  \/ /\ temp' = [temp EXCEPT ![k] = @ \o Head(todo.fields)]
            /\ todo' = [todo EXCEPT !.fields = Tail(@)]
            /\ UNCHANGED <<bans, up, bound, last, booted>>
         \/ Fault /\ temp' = [temp EXCEPT ![k] = Absent] /\ Failed
  /\ UNCHANGED <<disk, snap>>

\* Faulty variant: a file that was not written to its end takes the place of the old one.
CloseDbAnyway ==
  /\ Busy /\ todo.open /\ todo.fields = << >>
  /\ LET k == Head(todo.kinds)
     IN  \E n \in {Len(temp[k]) - 1, Len(temp[k])} :
           /\ disk' = [disk EXCEPT ![k] = SubSeq(temp[k], 1, n)]
           /\ temp' = [temp EXCEPT ![k] = Absent] /\ snap' = [snap EXCEPT ![k] = Saved(k)]
           /\ NextFile /\ UNCHANGED <<bound, last>>

\* close_db: the disk may be full when the rest is written, and the file not be moved.
CloseDb ==
  /\ Busy /\ todo.open /\ todo.fields = << >>
  /\ LET k == Head(todo.kinds)
     IN  \/ /\ disk' = [disk EXCEPT ![k] = temp[k]] /\ temp' = [temp EXCEPT ![k] = Absent]
            /\ snap' = [snap EXCEPT ![k] = Saved(k)]
            /\ NextFile /\ UNCHANGED <<bound, last>>
         \/ Fault /\ Failed /\ UNCHANGED <<disk, temp, snap>>
         \/ Fault /\ Failed /\ temp' = [temp EXCEPT ![k] = Absent] /\ UNCHANGED <<disk, snap>>

\* The process is killed.
Crash ==
  /\ up /\ Fault
  /\ up' = FALSE /\ bans' = {} /\ todo' = Idle /\ booted' = NoFile
  /\ last' = NoFile
  /\ UNCHANGED <<disk, temp, snap>>

\* The file, then the databases
Boot(f) ==
  /\ ~up /\ up' = TRUE
  /\ bans' = FoldLeft(LAMBDA bs, k : Load(bs, k, disk[k]), f, Kinds)
  /\ booted' = f
  /\ UNCHANGED <<disk, temp, todo, bound, snap, last>>

Init ==
  /\ bans = {} /\ up = FALSE /\ todo = Idle
  /\ disk = [k \in Range(Kinds) |-> Absent] /\ temp = disk
  /\ bound = [changes |-> 0, saves |-> 0, faults |-> 0]
  /\ snap = [k \in Range(Kinds) |-> {}] /\ booted = NoFile /\ last = NoFile

Next ==
  \/ \E b \in Lines : Set(b) \/ Unset(b)
  \/ \E ends \in BOOLEAN : Save(ends)
  \/ OpenDb \/ WriteField \/ CloseDb \/ Crash
  \/ \E f \in Configs : Boot(f)

Spec == Init /\ [][Next]_dbVars

-----------------------------------------------------------------------------
TypeOK ==
  /\ up \in BOOLEAN /\ bans \subseteq Lines \cup UNION Configs
  /\ \A k \in Range(Kinds) : disk[k] \in Seq(0..256) /\ snap[k] \subseteq Lines

\* A database is whole whenever it is there, and reads back as what was in memory when it
\* was saved, wherever a later save was cut short.
Whole == \A k \in Range(Kinds) : Load({}, k, disk[k]) = snap[k]

\* A start gives what the file and the databases have, and of a RESV in both the file's.
Restored ==
  up /\ booted # NoFile =>
    bans = booted \cup {b \in UNION Range(snap) :
                          b.kind = "R" => \A c \in booted : c.kind # "R" \/ c.texts[1] # b.texts[1]}

\* A server that ended when told to, with no fault in writing, forgets nothing.
EndsRight == ~up /\ last # NoFile => UNION Range(snap) = last
=============================================================================

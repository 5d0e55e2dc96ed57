------------------------------ MODULE DnsNames ------------------------------
(***************************************************************************)
(* The names in DNS packets (reslib.c): a query has the labels of a name as *)
(* the text gives them; in an answer a name may end in a pointer to where    *)
(* the rest of it is, and pointers may go anywhere, round in a circle too.   *)
(* The text of a name comes from packets and goes back into queries.         *)
(*                                                                         *)
(* A message is a sequence of octets; a position counts from 0.  Bit string  *)
(* labels (reslib.c 657-687, 968-1072) and the search for pointers to use in *)
(* a query, which has one name only (1083-1141), are left out.               *)
(***************************************************************************)
EXTENDS Naturals, Sequences, FiniteSets, SequencesExt

CONSTANTS
    Messages,    \* the messages to read
    Texts,       \* the names to ask for
    MaxName,     \* NS_MAXCDNAME
    TextSize     \* room for a name as text

VARIABLES msg, text
nameVars == <<msg, text>>

Starts(m) == 0..(Len(m) - 1)
Bad == <<256>>   \* no octets and no text
Dot == 46
Escape == 92
Digits == 48..57
Special(c) == c \in {34, 46, 59, 92, 40, 41, 64, 36}
Printable(c) == c > 32 /\ c < 127

At(m, p) == m[p + 1]
IsPointer(n) == n >= 192
IsLabel(n) == n < 64

-----------------------------------------------------------------------------
(* Reading *)

\* Faulty variant: nothing counts what was looked at.
FollowAlways(m, w) ==
  LET target == (At(m, w.at) - 192) * 256 + At(m, w.at + 1)
  IN  IF w.at + 1 >= Len(m) \/ target >= Len(m) THEN [w EXCEPT !.state = "bad"]
      ELSE [w EXCEPT !.at = target, !.len = IF @ = 0 THEN w.at + 2 - w.from ELSE @]
\* One turn of irc_ns_name_unpack, at an indirection: as much as the whole message was
\* looked at, so there is a circle.
Follow(m, w) ==
  LET n == At(m, w.at)
      target == (n - 192) * 256 + At(m, w.at + 1)
  IN  IF w.at + 1 >= Len(m) \/ target >= Len(m) \/ w.checked + 2 >= Len(m)
      THEN [w EXCEPT !.state = "bad"]
      ELSE [w EXCEPT !.at = target, !.checked = @ + 2,
                     !.len = IF @ = 0 THEN w.at + 2 - w.from ELSE @]
\* at a label, which the message has to have whole and something after it
Copy(m, w) ==
  LET n == At(m, w.at)
  IN  IF Len(w.out) + n + 1 >= MaxName \/ w.at + 1 + n >= Len(m)
      THEN [w EXCEPT !.state = "bad"]
      ELSE [w EXCEPT !.at = @ + n + 1, !.checked = @ + n + 1,
                     !.out = @ \o SubSeq(m, w.at + 1, w.at + 1 + n)]
Turn(m, w) ==
  LET n == At(m, w.at)
  IN  CASE w.state # "reading" -> w
        [] w.state = "reading" /\ n = 0 ->
             [w EXCEPT !.state = "read", !.out = Append(@, 0),
                       !.len = IF @ = 0 THEN w.at + 1 - w.from ELSE @]
        [] w.state = "reading" /\ n # 0 /\ IsLabel(n) -> Copy(m, w)
        [] w.state = "reading" /\ IsPointer(n) -> Follow(m, w)
        [] OTHER -> [w EXCEPT !.state = "bad"]

Turns(m) == 2 * Len(m)
Walk(m, src) ==
  LET walk[k \in 0..Turns(m)] ==
        IF k = 0 THEN [from |-> src, at |-> src, checked |-> 0, len |-> 0, out |-> << >>,
                       state |-> "reading"]
        ELSE Turn(m, walk[k - 1])
  IN  walk[Turns(m)]
\* irc_ns_name_unpack: the octets of the name, or Bad
Unpack(m, src) == LET w == Walk(m, src) IN IF w.state = "read" THEN w.out ELSE Bad
Consumed(m, src) == Walk(m, src).len

\* irc_ns_name_skip: where the name ends
Skip(m, src) ==
  LET skip[k \in 0..Len(m)] ==
        IF k = 0 THEN [at |-> src, more |-> TRUE, ok |-> TRUE]
        ELSE LET w == skip[k - 1]
             IN  CASE ~w.more \/ w.at >= Len(m) -> [w EXCEPT !.more = FALSE]
                   [] w.more /\ w.at < Len(m) /\ At(m, w.at) = 0 ->
                        [w EXCEPT !.at = @ + 1, !.more = FALSE]
                   [] w.more /\ w.at < Len(m) /\ At(m, w.at) \in 1..63 ->
                        [w EXCEPT !.at = @ + At(m, w.at) + 1]
                   [] w.more /\ w.at < Len(m) /\ IsPointer(At(m, w.at)) ->
                        [w EXCEPT !.at = @ + 2, !.more = FALSE]
                   [] OTHER -> [w EXCEPT !.ok = FALSE, !.more = FALSE]
      end == skip[Len(m)]
  IN  [at |-> end.at, ok |-> end.ok /\ end.at <= Len(m)]

\* The labels of the octets of a name
Labels(octets) ==
  LET split[k \in 0..Len(octets)] ==
        IF k = 0 THEN [at |-> 1, labels |-> << >>]
        ELSE LET w == split[k - 1]
                 n == octets[w.at]
             IN  IF n = 0 THEN w
                 ELSE [at |-> w.at + n + 1,
                       labels |-> Append(w.labels, SubSeq(octets, w.at + 1, w.at + n))]
  IN  split[Len(octets)].labels

\* irc_ns_name_ntop: a dot that is in a label is not one between labels.
Shown(c) ==
  CASE Special(c) -> <<Escape, c>>
    [] ~Special(c) /\ ~Printable(c) ->
         <<Escape, 48 + (c \div 100), 48 + ((c % 100) \div 10), 48 + (c % 10)>>
    [] OTHER -> <<c>>
ShownLabel(l) == FlattenSeq([i \in 1..Len(l) |-> Shown(l[i])])
Ntop(octets) ==
  LET labels == Labels(octets)
      dotted == FlattenSeq([i \in 1..Len(labels) |->
                  IF i = 1 THEN ShownLabel(labels[i]) ELSE <<Dot>> \o ShownLabel(labels[i])])
      whole == IF labels = << >> THEN <<Dot>> ELSE dotted
  IN  IF Len(whole) + 1 > TextSize THEN Bad ELSE whole
\* irc_dn_expand: the root is no name.
Expand(m, src) ==
  LET octets == Unpack(m, src)
  IN  CASE octets = Bad -> Bad
        [] octets # Bad /\ Ntop(octets) = <<Dot>> -> << >>
        [] OTHER -> Ntop(octets)

-----------------------------------------------------------------------------
(* Asking *)

\* One character of irc_ns_name_pton, or one escape.  w: [at, label, out, state]
Ended(w) ==
  IF Len(w.label) > 63 THEN [w EXCEPT !.state = "bad"]
  ELSE [w EXCEPT !.out = @ \o <<Len(w.label)>> \o w.label, !.label = << >>]
Char(t, w) ==
  LET c == t[w.at]
      code == (t[w.at + 1] - 48) * 100 + (t[w.at + 2] - 48) * 10 + t[w.at + 3] - 48
      byNumber == w.at < Len(t) /\ t[w.at + 1] \in Digits
  IN  CASE c = Escape /\ byNumber ->
             IF \/ w.at + 3 > Len(t) \/ ~{t[w.at + 2], t[w.at + 3]} \subseteq Digits \/ code > 255
             THEN [w EXCEPT !.state = "bad"]
             ELSE [w EXCEPT !.label = Append(@, code), !.at = @ + 4]
        [] c = Escape /\ ~byNumber ->
             IF w.at = Len(t) THEN [w EXCEPT !.at = @ + 1]
             ELSE [w EXCEPT !.label = Append(@, t[w.at + 1]), !.at = @ + 2]
        [] c = Dot ->
             IF w.at # Len(t) /\ (w.label = << >> \/ t[w.at + 1] = Dot)
             THEN [w EXCEPT !.state = "bad"]
             ELSE [Ended(w) EXCEPT !.at = @ + 1]
        [] OTHER -> [w EXCEPT !.label = Append(@, c), !.at = @ + 1]
Pton(t) ==
  LET walk[k \in 0..Len(t)] ==
        IF k = 0 THEN [at |-> 1, label |-> << >>, out |-> << >>, state |-> "reading"]
        ELSE LET w == walk[k - 1]
             IN  IF w.state = "bad" \/ w.at > Len(t) THEN w ELSE Char(t, w)
      last == walk[Len(t)]
      end == IF last.state = "bad" \/ last.label = << >> THEN last ELSE Ended(last)
      octets == Append(end.out, 0)
  IN  IF end.state = "bad" \/ Len(octets) > MaxName THEN Bad
      ELSE IF Len(end.out) > 0 /\ end.out[1] = 0 THEN <<0>> ELSE octets

\* irc_res_mkquery and irc_ns_name_pack: with one name there is nothing to point to.
Pack(octets, room) == IF octets = Bad \/ Len(octets) >= room THEN Bad ELSE octets
Query(t, room) == Pack(Pton(t), room)

-----------------------------------------------------------------------------
Init == \/ msg \in Messages /\ text = <<Dot>>
        \/ msg = <<0>> /\ text \in Texts

\* The name that an answer gives is the next one to ask for (res.c 493-501, 583-587).
Resolve(src) == /\ Expand(msg, src) \notin {Bad, << >>}
                /\ text' = Expand(msg, src) /\ UNCHANGED msg
Next == \E src \in Starts(msg) : Resolve(src)
Spec == Init /\ [][Next]_nameVars

-----------------------------------------------------------------------------
\* Where a name goes from src on, following pointers, as far as a zero or a place that
\* is none of a name
After(m, p) == IF IsPointer(At(m, p)) THEN (At(m, p) - 192) * 256 + At(m, p + 1)
               ELSE p + At(m, p) + 1
Goes(m, p) == CASE p >= Len(m) -> FALSE
                [] p < Len(m) /\ IsPointer(At(m, p)) -> p + 1 < Len(m)
                [] OTHER -> IsLabel(At(m, p))
Way(m, src) ==
  LET way[k \in 0..Len(m)] ==
        IF k = 0 THEN <<src>>
        ELSE LET p == Last(way[k - 1])
             IN  IF Goes(m, p) /\ At(m, p) # 0 THEN Append(way[k - 1], After(m, p)) ELSE way[k - 1]
  IN  way[Len(m)]
\* What the name is: the labels on the way, if it ends in a zero
Meant(m, src) ==
  LET way == Way(m, src)
      labels == SelectSeq(way, LAMBDA p : IsLabel(At(m, p)))
  IN  IF Goes(m, Last(way)) /\ At(m, Last(way)) = 0
      THEN FlattenSeq([i \in 1..Len(labels) |->
             SubSeq(m, labels[i] + 1, labels[i] + 1 + At(m, labels[i]))])
      ELSE Bad
\* Some octets are read twice, as parts of different things.
Overlaps(m, src) ==
  LET way == Way(m, src)
      octets(p) == CASE ~Goes(m, p) -> {}
                     [] Goes(m, p) /\ IsPointer(At(m, p)) -> {p, p + 1}
                     [] OTHER -> p..(p + At(m, p))
  IN  \E i, j \in 1..Len(way) : i < j /\ octets(way[i]) \cap octets(way[j]) # {}

\* A name is read if it is one and fits, is what was meant, and the reading always ends
\* ("Check for loops in the compressed name", reslib.c 362-367).  A name that reads octets
\* twice is refused where it has read as many as the message has.
ReadsNames ==
  \A src \in Starts(msg) :
    LET meant == Meant(msg, src)
    IN  /\ Walk(msg, src).state # "reading"
        /\ \/ Unpack(msg, src) = IF Len(meant) > MaxName THEN Bad ELSE meant
           \/ Unpack(msg, src) = Bad /\ Overlaps(msg, src)

\* Skipping a name and reading it go equally far.
SkipsNames ==
  \A src \in Starts(msg) :
    Unpack(msg, src) # Bad =>
      Skip(msg, src) = [at |-> src + Consumed(msg, src), ok |-> TRUE]

\* A name that an answer gave is asked for as the same name, whatever octets it has.
AsksForNames ==
  \A src \in Starts(msg) :
    LET name == Expand(msg, src)
    IN  name \notin {Bad, << >>} => Pton(name) = Unpack(msg, src)

\* A query that is made has labels of 1 to 63 octets and ends in the root.
WellFormed ==
  LET q == Query(text, 300)
  IN  q # Bad => /\ Len(q) <= MaxName /\ Last(q) = 0
                 /\ FlattenSeq([i \in 1..Len(Labels(q)) |-> <<Len(Labels(q)[i])>> \o Labels(q)[i]])
                    \o <<0>> = q
=============================================================================

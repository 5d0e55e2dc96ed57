------------------------------ MODULE ModeLine ------------------------------
(***************************************************************************)
(* A MODE command of several letters: what it does at the server that gets  *)
(* it, and what the TMODE lines made of it do at the next one, letter by     *)
(* letter and parameter by parameter.                                      *)
(*                                                                         *)
(* A letter comes with its direction and a parameter is one word; the       *)
(* limit on the length of a line is left to the one on its parameters.       *)
(***************************************************************************)
EXTENDS Integers, Sequences, SequencesExt, FiniteSets, TLC

CONSTANTS Members,    \* nicknames of those on the channel
          Strangers,  \* nicknames of those who are not
          Number,     \* parameter -> what atoi makes of it
          Clean,      \* parameter -> what fix_key leaves of it, maybe Empty
          Sources,    \* who sends: [level, local, oper, service]
          Lines,      \* the commands: [letters, params]
          Starts,     \* what the channel is at first, of States
          MaxParams,  \* MAXMODEPARAMS
          MaxBans,    \* ConfigChannel.max_bans
          MaxLines    \* bound on the commands

VARIABLES home, far,  \* the channel at the server of the command, at the next one
          wire,       \* TMODE lines on their way: [from, letters, params]
          given,      \* commands
          blank       \* history: a line had a parameter with nothing in it

vars == <<home, far, wire, given, blank>>

Empty == ""
None == "none"        \* a letter without parameter
TheKey == "the key"   \* chptr->mode.key, read when the line is written
Simples == {"m", "O", "r"}
Ranks == {"o", "h", "v"}

Channel(modes, limit, key, rank, bans) ==
  [modes |-> modes, limit |-> limit, key |-> key, rank |-> rank, bans |-> bans]

States == [modes : SUBSET Simples, limit : Nat, key : STRING,
           rank : [Ranks -> SUBSET Members], bans : SUBSET DOMAIN Number]

TypeOK == /\ home \in States /\ far \in States
          /\ \A i \in DOMAIN wire : wire[i].from \in Sources
          /\ given \in 0..MaxLines /\ blank \in BOOLEAN

Init == /\ home \in Starts /\ far = home
        /\ wire = << >> /\ given = 0 /\ blank = FALSE

-----------------------------------------------------------------------------
(* One letter of a line.  A work record has the channel, the parameters that  *)
(* are left, mode_changes, mode_limit and simple_modes_mask.                *)

NotOn == -1
Peon == 0
Halfop == 1
Chanop == 2
Remote == 3   \* get_channel_access: any client of another server

Work(ch, params) == [ch |-> ch, params |-> params, out |-> << >>, limit |-> 0, done |-> {}]

Noted(w, dir, letter, arg) ==
  [w EXCEPT !.out = Append(@, [dir |-> dir, letter |-> letter, arg |-> arg])]

\* Of several +k or +l the last is announced.
LatterOnly(w, letter) ==
  [w EXCEPT !.out = SelectSeq(@, LAMBDA c : ~(c.letter = letter /\ c.dir = "+"))]

Switched(S, dir, x) == IF dir = "+" THEN S \cup {x} ELSE S \ {x}

\* chm_simple, chm_operonly, chm_registered
May(who, letter) ==
  CASE letter = "m" -> who.level >= Halfop
    [] letter = "O" -> who.level >= Chanop /\ (who.local => who.oper)
    [] letter = "r" -> who.service
Simple(who, w, dir, letter) ==
  IF ~May(who, letter) \/ letter \in w.done THEN w
  ELSE LET done == [w EXCEPT !.done = @ \cup {letter}]
       IN  IF dir = "=" THEN done
           ELSE Noted([done EXCEPT !.ch.modes = Switched(@, dir, letter)], dir, letter, None)

Over(who, w) == who.local /\ w.limit >= MaxParams
Charged(who, w) == IF who.local THEN [w EXCEPT !.limit = @ + 1] ELSE w

\* chm_op, chm_hop and chm_voice: the parameter goes before it is looked at.
Rank(who, w, dir, letter) ==
  IF who.level < (IF letter = "v" THEN Halfop ELSE Chanop) \/ dir = "=" \/ w.params = << >>
    THEN w
  ELSE LET x == Head(w.params)
           took == [w EXCEPT !.params = Tail(@)]
           paid == Charged(who, took)
       IN  IF x \notin Members THEN took
           ELSE IF Over(who, w) \/ (dir = "+" <=> x \in w.ch.rank[letter]) THEN paid
           ELSE Noted([paid EXCEPT !.ch.rank[letter] = Switched(@, dir, x)], dir, letter, x)

\* chm_ban, and chm_except and chm_invex like it
Ban(who, w, dir, letter) ==
  IF dir = "=" \/ w.params = << >> \/ who.level < Halfop THEN w
  ELSE IF Over(who, w) THEN Charged(who, w)
  ELSE LET x == Head(w.params)
           paid == [Charged(who, w) EXCEPT !.params = Tail(@)]
           full == who.local /\ Cardinality(w.ch.bans) >= MaxBans
       IN  IF (dir = "+" <=> x \in w.ch.bans) \/ (dir = "+" /\ full) THEN paid
           ELSE Noted([paid EXCEPT !.ch.bans = Switched(@, dir, x)], dir, letter, x)

Limit(who, w, dir, letter) ==
  IF who.level < Halfop \/ dir = "=" THEN w
  ELSE IF dir = "-"
  THEN IF w.ch.limit = 0 THEN w ELSE Noted([w EXCEPT !.ch.limit = 0], dir, letter, None)
  ELSE IF w.params = << >> THEN w
  ELSE LET x == Head(w.params)
           took == [w EXCEPT !.params = Tail(@)]
       IN  IF Number[x] <= 0 THEN took
           ELSE Noted([LatterOnly(took, letter) EXCEPT !.ch.limit = Number[x]],
                      dir, letter, x)

\* Faulty variant: the parameter of -k is left for the next letter.
KeyLeft(who, w, dir, letter) ==
  IF who.level < Halfop \/ dir = "=" THEN w
  ELSE IF dir = "-"
  THEN IF w.ch.key = Empty THEN w ELSE Noted([w EXCEPT !.ch.key = Empty], dir, letter, "*")
  ELSE IF w.params = << >> THEN w
  ELSE LET key == Clean[Head(w.params)]
           took == [w EXCEPT !.params = Tail(@)]
       IN  IF key = Empty THEN took
           ELSE Noted([LatterOnly(took, letter) EXCEPT !.ch.key = key], dir, letter, TheKey)

\* chm_key
Key(who, w, dir, letter) ==
  IF who.level < Halfop \/ dir = "=" THEN w
  ELSE LET x == IF w.params = << >> THEN Empty ELSE Head(w.params)
           took == IF w.params = << >> THEN w ELSE [w EXCEPT !.params = Tail(@)]
       IN  IF dir = "-"
           THEN IF w.ch.key = Empty THEN took
                ELSE Noted([took EXCEPT !.ch.key = Empty], dir, letter, "*")
           ELSE IF w.params = << >> \/ Clean[x] = Empty THEN took
           ELSE Noted([LatterOnly(took, letter) EXCEPT !.ch.key = Clean[x]],
                      dir, letter, TheKey)

Letter(who, w, l) ==
  CASE l.letter \in Simples -> Simple(who, w, l.dir, l.letter)
    [] l.letter \in Ranks -> Rank(who, w, l.dir, l.letter)
    [] l.letter = "b" -> Ban(who, w, l.dir, l.letter)
    [] l.letter = "l" -> Limit(who, w, l.dir, l.letter)
    [] l.letter = "k" -> Key(who, w, l.dir, l.letter)

\* set_channel_mode
Run(who, ch, letters, params) ==
  FoldLeft(LAMBDA w, l : Letter(who, w, l), Work(ch, params), letters)

-----------------------------------------------------------------------------
(* The lines that come of it *)

NoLine == [letters |-> << >>, args |-> << >>]

\* The parameter as it is written: a key is read from the channel as it is by then.
Written(ch, c) == IF c.arg = TheKey THEN ch.key
                  ELSE IF c.letter = "l" THEN ToString(Number[c.arg]) ELSE c.arg

\* send_mode_changes_server: the next line begins when this one has all its parameters.
Put(ch, ls, c) ==
  LET cur == IF ls = << >> \/ Len(Last(ls).args) = MaxParams THEN NoLine ELSE Last(ls)
      before == IF cur = NoLine THEN ls ELSE Front(ls)
      new == [letters |-> Append(cur.letters, [dir |-> c.dir, letter |-> c.letter]),
              args |-> IF c.arg = None THEN cur.args ELSE Append(cur.args, Written(ch, c))]
  IN  Append(before, new)
Announced(w) == FoldLeft(LAMBDA ls, c : Put(w.ch, ls, c), << >>, w.out)

\* parse at the next server: words with nothing in them are not there.
Words(args) == SelectSeq(args, LAMBDA x : x # Empty)

\* m_mode
Mode(who, line) ==
  LET w == Run(who, home, line.letters, line.params)
      out == Announced(w)
      Made(l) == [from |-> who, letters |-> l.letters, params |-> Words(l.args)]
  IN  /\ given < MaxLines /\ given' = given + 1
      /\ home' = w.ch
      /\ wire' = wire \o [i \in DOMAIN out |-> Made(out[i])]
      /\ blank' = (blank \/ \E i \in DOMAIN out : Empty \in ToSet(out[i].args))
      /\ UNCHANGED far

\* ms_tmode
Tmode ==
  /\ wire # << >> /\ wire' = Tail(wire)
  /\ LET m == Head(wire)
         who == [m.from EXCEPT !.level = Remote, !.local = FALSE]
     IN  far' = Run(who, far, m.letters, m.params).ch
  /\ UNCHANGED <<home, given, blank>>

Next == Tmode \/ \E who \in Sources, line \in Lines : Mode(who, line)

Spec == Init /\ [][Next]_vars

-----------------------------------------------------------------------------
\* The next server makes of the lines what the first made of the command: no letter takes
\* the parameter of another, and no rank, key, limit or ban is different afterwards.
Same == wire = << >> => far = home

\* The same, but for lines in which a parameter has become empty.
SameUnlessBlank == ~blank => Same

\* No line has more parameters than the servers take.
Fits == \A i \in DOMAIN wire : Len(wire[i].params) <= MaxParams
=============================================================================

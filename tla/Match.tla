------------------------------- MODULE Match -------------------------------
(***************************************************************************)
(* Masks (match.c): "*" stands for any characters, "?" for one, and a        *)
(* backslash before a character for that character.                         *)
(***************************************************************************)
EXTENDS Naturals, Sequences, FiniteSets, SequencesExt

CONSTANTS
    Masks,   \* the masks to try
    Tried    \* the names to try them on

VARIABLE mask

Star == 42
One == 63
Escape == 92
End == 0

\* ToLowerTab and ToUpperTab: [ \ ] ^ are the capitals of { | } ~.
ToLower(c) == IF c \in 65..94 THEN c + 32 ELSE c
ToUpper(c) == IF c \in 97..126 THEN c - 32 ELSE c

At(s, i) == IF i <= Len(s) THEN s[i] ELSE End
\* The first place from i on where s has a character of cs, or its end
From(s, i, cs) == LET there == {j \in i..Len(s) : s[j] \in cs}
                  IN  IF there = {} THEN Len(s) + 1 ELSE CHOOSE j \in there : \A k \in there : j <= k

\* irccmp, ircncmp
IrcCmp(a, b) == Len(a) = Len(b) /\ \A i \in 1..Len(a) : ToUpper(a[i]) = ToUpper(b[i])
IrcNCmp(a, b, n) == IrcCmp(SubSeq(a, 1, IF Len(a) < n THEN Len(a) ELSE n),
                           SubSeq(b, 1, IF Len(b) < n THEN Len(b) ELSE n))

\* Faulty variant: a "?" takes a character only when there is one.
WildShort(s, m, name, n) ==
  LET end == From(s, m, {s[j] : j \in m..Len(s)} \ {Star, One})
      singles == Cardinality({j \in m..(end - 1) : s[j] = One})
  IN  [m |-> end, n |-> n + singles, star |-> \E j \in m..(end - 1) : s[j] = Star, enough |-> TRUE]

\* The wildcards at m of the mask, on the name from n: where each ends, whether a "*" was
\* among them, and whether there was a character for each "?".
Wild(s, m, name, n) ==
  LET end == From(s, m, {s[j] : j \in m..Len(s)} \ {Star, One})
      singles == Cardinality({j \in m..(end - 1) : s[j] = One})
  IN  [m |-> end, n |-> n + singles, star |-> \E j \in m..(end - 1) : s[j] = Star,
       enough |-> n + singles <= Len(name) + 1]

\* match: at m of the mask and n of the name; mt and nt are where to go on after the last
\* "*" (mt = 1: there was none).
RECURSIVE Run(_, _, _, _, _, _)
Run(s, name, m, n, mt, nt) ==
  LET back == mt # 1 /\ nt + 1 <= Len(name) /\ Run(s, name, mt, nt + 1, mt, nt + 1)
      same(i, j, mt2, nt2) ==                      \* default:
        IF j > Len(name) THEN i > Len(s)
        ELSE IF ToLower(At(s, i)) = ToLower(name[j]) THEN Run(s, name, i + 1, j + 1, mt2, nt2)
        ELSE mt2 # 1 /\ nt2 + 1 <= Len(name) /\ Run(s, name, mt2, nt2 + 1, mt2, nt2 + 1)
      w == Wild(s, m, name, n)
      esc == At(s, w.m) = Escape
      i == IF esc THEN w.m + 1 ELSE w.m
      want == IF esc THEN {At(s, i)} ELSE {c \in Range(name) : ToLower(c) = ToLower(At(s, i))}
  IN  IF m > Len(s) THEN n > Len(name) \/ back
      ELSE IF s[m] = Escape
      THEN IF At(s, m + 1) = At(name, n) THEN Run(s, name, m + 2, n + 1, mt, nt) ELSE back
      ELSE IF s[m] \notin {Star, One} THEN same(m, n, mt, nt)
      ELSE IF ~w.enough THEN back
      ELSE IF ~w.star THEN same(w.m, w.n, mt, nt)
      ELSE w.m > Len(s) \/ (i <= Len(s) /\ same(i, From(name, w.n, want), i, w.n))

Matches(s, name) == Run(s, name, 1, 1, 1, 1)

\* collapse: from the first "*" with another wildcard after it on, the "?" of a group of
\* wildcards come before its one "*".
RECURSIVE Collapsed(_, _, _)
Collapsed(s, m, star) ==
  LET c == At(s, m)
      pending == IF star /\ c # One THEN <<Star>> ELSE << >>
      still == star /\ c = One
  IN  IF m > Len(s) THEN pending
      ELSE IF c = Star THEN Collapsed(s, m + 1, TRUE)
      ELSE IF c = Escape /\ At(s, m + 1) \in {Star, One}
      THEN pending \o <<c, s[m + 1]>> \o Collapsed(s, m + 2, still)
      ELSE pending \o <<c>> \o Collapsed(s, m + 1, still)

RECURSIVE Collapse(_, _)
Collapse(s, m) ==
  IF m > Len(s) THEN s
  ELSE IF At(s, m + 1) \notin {Star, One} THEN Collapse(s, m + 1)
  ELSE IF s[m] = Star THEN SubSeq(s, 1, m - 1) \o Collapsed(s, m, FALSE)
  ELSE IF s[m] = Escape THEN Collapse(s, m + 2)
  ELSE Collapse(s, m + 1)

-----------------------------------------------------------------------------
Init == mask \in Masks
Next == UNCHANGED mask
Spec == Init /\ [][Next]_mask

\* What a mask means: the characters it has, one after the other
RECURSIVE Means(_, _)
Means(s, name) ==
  IF s = << >> THEN name = << >>
  ELSE
    CASE s[1] = Star -> \E k \in 0..Len(name) : Means(Tail(s), SubSeq(name, k + 1, Len(name)))
      [] s[1] = One -> name # << >> /\ Means(Tail(s), Tail(name))
      [] s[1] = Escape -> /\ Len(s) > 1 /\ name # << >> /\ s[2] = name[1]
                          /\ Means(SubSeq(s, 3, Len(s)), Tail(name))
      [] OTHER -> name # << >> /\ ToLower(s[1]) = ToLower(name[1]) /\ Means(Tail(s), Tail(name))

Escapes(s) == {i \in 1..Len(s) : s[i] = Escape /\ Cardinality({j \in 1..(i - 1) :
                 \A k \in j..(i - 1) : s[k] = Escape}) % 2 = 0}
\* An escape straight after a wildcard is not taken for one, and nothing comes after
\* a last one.
Plain(s) == \A i \in Escapes(s) : /\ i < Len(s)
                                  /\ i > 1 => s[i - 1] \notin {Star, One} \/ i - 1 \in {j + 1 : j \in Escapes(s)}

\* A mask matches what it means, with every way of giving characters to several "*".
MatchesRight == Plain(mask) => \A name \in Tried : Matches(mask, name) <=> Means(mask, name)

\* Collapsing a mask changes nothing of what it means; no "*" is left with a wildcard after it.
CollapseRight ==
  LET c == Collapse(mask, 1)
  IN  /\ \A name \in Tried : Means(c, name) <=> Means(mask, name)
      /\ Len(c) <= Len(mask) /\ Collapse(c, 1) = c

\* Names that compare equal are matched by the same masks, but for escaped letters.
CaseRight ==
  Escapes(mask) = {} =>
    \A a, b \in Tried : IrcCmp(a, b) => Matches(mask, a) = Matches(mask, b)
=============================================================================

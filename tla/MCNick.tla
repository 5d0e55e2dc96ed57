------------------------------- MODULE MCNick -------------------------------
(* NickTS on a pair of servers, and on a hub with two leaves. *)
EXTENDS NickTS, TLC
CONSTANTS a, b, h, u1, u2, u3

\* a -- b.  u1 and u3 are connected to a and b and are the same person.
PairHome == (u1 :> a) @@ (u2 :> b) @@ (u3 :> b)
PairPerson == (u1 :> 1) @@ (u2 :> 2) @@ (u3 :> 1)
PairLinks == {<<a, b>>, <<b, a>>}
PairVia == [s \in {a, b} |-> [t \in {a, b} |-> t]]

\* a -- h -- b, a user on each
LineHome == (u1 :> a) @@ (u2 :> h) @@ (u3 :> b)
LineLinks == {<<a, h>>, <<h, a>>, <<h, b>>, <<b, h>>}
LineBreaks == {<<h, b>>}
LineVia == [s \in {a, b, h} |-> [t \in {a, b, h} |-> IF s = h \/ s = t THEN t ELSE h]]

\* One command less than MaxMoves; all of them while no second has gone by, no link has
\* broken and an oper's KILL is among them
Within == moves' < MaxMoves \/ (clock' = 1 /\ splits' = 0 /\ opered' # {})
LineSpec == Init /\ [][Next /\ Within]_vars /\ Fairness
=============================================================================

------------------------------- MODULE MCPing -------------------------------
(***************************************************************************)
(* The network, in parts that share nothing: of each behaviour one moves.    *)
(*   "ping"  PingCheck, on a link of servers that both check it              *)
(*   "sendq" SendQueue, an operator and a server                             *)
(*   "tree"  ServerTree, three servers that link to each other               *)
(*   "chat"  Delivery, a channel on a line a -- b -- c                       *)
(*   "say"   Delivery, all that is not said on a channel                     *)
(***************************************************************************)
EXTENDS PingCheck, SendQueue, Delivery, ServerTree, TLC
CONSTANTS e1, e2,
          Parts   \* the parts to check

VARIABLE part

Symm == Permutations({e1, e2})
BothPeer == (e1 :> e2) @@ (e2 :> e1)

\* What may connect to what, who is a hub, and how often: a ring in which all three
\* connect at once; a line that breaks and is squit, and grows a loop; hubs and leafs.
Abc == {"a", "b", "c"}
Ring == ("a" :> {"b"}) @@ ("b" :> {"c"}) @@ ("c" :> {"a"})
Line == ("a" :> {"b"}) @@ ("b" :> {"a", "c"}) @@ ("c" :> {})
Allowed(auto, conns, commands, cuts) ==
  [blocks |-> [x \in Abc |-> Abc \ {x}], auto |-> auto, hubs |-> Abc, nohub |-> {},
   leafed |-> {}, conns |-> conns, squits |-> commands, breaks |-> cuts]
Setups ==
  {Allowed(Ring, 3, 0, 0), Allowed(Line, 2, 1, 1), Allowed(Line, 3, 0, 0),
   [Allowed(Line, 2, 1, 1) EXCEPT !.hubs = {"b"}, !.nohub = {<<"c", "b">>}],
   [Allowed(Line, 2, 1, 0) EXCEPT !.leafed = {<<"a", "c">>}]}

\* a -- b -- c
Wires == {<<"a", "b">>, <<"b", "a">>, <<"b", "c">>, <<"c", "b">>}
Toward == [x \in Abc |-> [y \in Abc |-> IF x = "b" \/ x = y THEN y ELSE "b"]]
\* v joins late, x is an operator of the channel.
People == {"u", "v", "w", "x"}
At == ("u" :> "a") @@ ("v" :> "b") @@ ("w" :> "c") @@ ("x" :> "c")
Seats == {[u \in People |-> CASE u = "x" -> "op" [] u = "v" -> "none" [] OTHER -> "plain"]}
\* <<t, u>>: t accepts u.
Friends == {<<"w", "v">>}
Talked == {"chan"}

-----------------------------------------------------------------------------
PingIdle == /\ ping = [e \in Checkers |-> CHOOSE p \in Pings : TRUE]
            /\ idle = [e \in Checkers |-> 0] /\ quiet = idle
            /\ pingSent = [e \in Checkers |-> FALSE] /\ due = {}
            /\ wire = [e \in Ends |-> << >>] /\ hung = {} /\ closed = None
            /\ rehashes = 0 /\ lowered = FALSE

PartsInit ==
  /\ part \in Parts
  /\ IF part = "ping" THEN Init ELSE PingIdle
  /\ SendInit /\ DeliveryInit
  /\ TreeInit /\ (part # "tree" => conf = Allowed(Line, 3, 0, 0))

PartsNext ==
  /\ UNCHANGED part
  /\ \/ /\ part = "ping" /\ Next
        /\ UNCHANGED <<sendVars, treeVars, deliveryVars>>
     \/ /\ part = "sendq" /\ SendNext
        /\ UNCHANGED <<vars, treeVars, deliveryVars>>
     \/ /\ part = "tree" /\ TreeNext
        /\ UNCHANGED <<vars, sendVars, deliveryVars>>
     \/ /\ \/ part = "chat" /\ DeliveryNext(Talked)
           \/ part = "say" /\ DeliveryNext(Kinds \ Talked)
        /\ UNCHANGED <<vars, sendVars, treeVars>>

PartsSpec == PartsInit /\ [][PartsNext]_<<part, vars, sendVars, treeVars, deliveryVars>>

-----------------------------------------------------------------------------
\* When nothing is on its way, every server knows those the links lead to, but for the
\* stale SQUITs that ServerTree names (m_server.c, m_squit.c).
Network == part = "tree" => Agreement
=============================================================================

------------------------------- MODULE Lists -------------------------------
(***************************************************************************)
(* The doubly linked lists that everything in the server is kept in (list.c, *)
(* list.h), pointer by pointer, and a walk along one of them that goes on    *)
(* while its body adds, deletes and moves nodes (DLINK_FOREACH_SAFE).        *)
(*                                                                         *)
(* A node is in one list at most, as the callers keep it; what data a node   *)
(* has is left out, so that dlinkFindDelete is the deletion of what it finds.*)
(***************************************************************************)
EXTENDS Naturals

CONSTANTS Nodes, Heads,   \* structs dlink_node and dlink_list
          Null

ASSUME NullIsNoNode == Null \notin Nodes

VARIABLES
    head, tail, length,   \* of each list
    succ, pred,           \* of each node: next, prev
    order,                \* history: the nodes of each list, as a sequence
    walk                  \* [on, along, to, seen, stayed, cut]

listVars == <<head, tail, length, succ, pred, order, walk>>

In(m, l) == \E i \in 1..length[l] : order[l][i] = m
Loose(m) == \A l \in Heads : ~In(m, l)
At(m, l) == CHOOSE i \in 1..length[l] : order[l][i] = m

\* What the lists should be: sequences.
Inserted(s, n, i, m) == [k \in 1..(n + 1) |-> IF k < i THEN s[k] ELSE IF k = i THEN m ELSE s[k - 1]]
Removed(s, n, i) == [k \in 1..(n - 1) |-> IF k < i THEN s[k] ELSE s[k + 1]]
Joined(s, n, t, p) == [k \in 1..(n + p) |-> IF k <= n THEN s[k] ELSE t[k - n]]

\* The walk: a node it was to come to next is not in its list any more; others go too.
Away(ms) ==
  walk' = [walk EXCEPT !.stayed = @ \ ms, !.cut = @ \/ walk.to \in ms]

-----------------------------------------------------------------------------
ListInit ==
  /\ head = [l \in Heads |-> Null] /\ tail = [l \in Heads |-> Null]
  /\ length = [l \in Heads |-> 0] /\ order = [l \in Heads |-> [k \in 1..0 |-> Null]]
  /\ succ = [m \in Nodes |-> Null] /\ pred = [m \in Nodes |-> Null]
  /\ walk = [on |-> FALSE, along |-> Null, to |-> Null, seen |-> {}, stayed |-> {}, cut |-> FALSE]

Longer(l) == length' = [length EXCEPT ![l] = @ + 1]
Shorter(l) == length' = [length EXCEPT ![l] = @ - 1]

\* dlinkAdd
AddHead(m, l) ==
  /\ pred' = [x \in Nodes |-> IF x = m THEN Null ELSE IF x = head[l] THEN m ELSE pred[x]]
  /\ succ' = [succ EXCEPT ![m] = head[l]]
  /\ tail' = IF head[l] = Null /\ tail[l] = Null THEN [tail EXCEPT ![l] = m] ELSE tail
  /\ head' = [head EXCEPT ![l] = m]
  /\ Longer(l)
  /\ order' = [order EXCEPT ![l] = Inserted(@, length[l], 1, m)]
Add(m, l) == Loose(m) /\ AddHead(m, l) /\ UNCHANGED walk

\* dlinkAddBefore
AddBefore(b, m, l) ==
  /\ Loose(m) /\ In(b, l) /\ UNCHANGED walk
  /\ IF b = head[l] THEN AddHead(m, l)
     ELSE /\ succ' = [x \in Nodes |-> IF x = m THEN b ELSE IF x = pred[b] THEN m ELSE succ[x]]
          /\ pred' = [x \in Nodes |-> IF x = m THEN pred[b] ELSE IF x = b THEN m ELSE pred[x]]
          /\ Longer(l) /\ UNCHANGED <<head, tail>>
          /\ order' = [order EXCEPT ![l] = Inserted(@, length[l], At(b, l), m)]

\* dlinkAddTail
AddTail(m, l) ==
  /\ Loose(m) /\ UNCHANGED walk
  /\ succ' = [x \in Nodes |-> IF x = m THEN Null ELSE IF x = tail[l] THEN m ELSE succ[x]]
  /\ pred' = [pred EXCEPT ![m] = tail[l]]
  /\ head' = IF tail[l] = Null /\ head[l] = Null THEN [head EXCEPT ![l] = m] ELSE head
  /\ tail' = [tail EXCEPT ![l] = m]
  /\ Longer(l)
  /\ order' = [order EXCEPT ![l] = Inserted(@, length[l], length[l] + 1, m)]

\* dlinkDelete; dlinkFindDelete, which finds m first
Delete(m, l) ==
  /\ In(m, l) /\ Away({m})
  /\ pred' = [x \in Nodes |-> IF x = m THEN Null ELSE IF x = succ[m] THEN pred[m] ELSE pred[x]]
  /\ succ' = [x \in Nodes |-> IF x = m THEN Null ELSE IF x = pred[m] THEN succ[m] ELSE succ[x]]
  /\ tail' = IF succ[m] = Null THEN [tail EXCEPT ![l] = pred[m]] ELSE tail
  /\ head' = IF pred[m] = Null THEN [head EXCEPT ![l] = succ[m]] ELSE head
  /\ Shorter(l)
  /\ order' = [order EXCEPT ![l] = Removed(@, length[l], At(m, l))]

\* dlink_move_node: to the head of the other list
MoveNode(m, l, k) ==
  /\ In(m, l) /\ k # l /\ Away({m})
  /\ pred' = [x \in Nodes |-> IF x = m THEN Null ELSE IF x = succ[m] THEN pred[m]
                              ELSE IF x = head[k] THEN m ELSE pred[x]]
  /\ succ' = [x \in Nodes |-> IF x = m THEN head[k] ELSE IF x = pred[m] THEN succ[m] ELSE succ[x]]
  /\ tail' = [h \in Heads |-> IF h = l /\ succ[m] = Null THEN pred[m]
                              ELSE IF h = k /\ head[k] = Null /\ tail[k] = Null THEN m ELSE tail[h]]
  /\ head' = [h \in Heads |-> IF h = k THEN m
                              ELSE IF h = l /\ pred[m] = Null THEN succ[m] ELSE head[h]]
  /\ length' = [length EXCEPT ![k] = @ + 1, ![l] = @ - 1]
  /\ order' = [order EXCEPT ![k] = Inserted(@, length[k], 1, m),
                            ![l] = Removed(@, length[l], At(m, l))]

\* Faulty variant: the list that was in front keeps its head.
MoveListKept(l, k) ==
  /\ k # l /\ head[l] # Null /\ Away({order[l][i] : i \in 1..length[l]})
  /\ succ' = [x \in Nodes |-> IF head[k] # Null /\ x = tail[l] THEN head[k] ELSE succ[x]]
  /\ pred' = [x \in Nodes |-> IF x = head[k] THEN tail[l] ELSE pred[x]]
  /\ head' = [h \in Heads |-> IF h = k /\ head[k] = Null THEN head[l] ELSE IF h = l THEN Null ELSE head[h]]
  /\ tail' = [h \in Heads |-> IF h = l THEN Null
                              ELSE IF h = k /\ head[k] = Null THEN tail[l] ELSE tail[h]]
  /\ length' = [length EXCEPT ![k] = @ + length[l], ![l] = 0]
  /\ order' = [order EXCEPT ![k] = Joined(order[l], length[l], order[k], length[k]),
                            ![l] = [i \in 1..0 |-> Null]]

\* dlinkMoveList: all of l, in front of k
MoveList(l, k) ==
  /\ k # l /\ head[l] # Null /\ Away({order[l][i] : i \in 1..length[l]})
  /\ succ' = [x \in Nodes |-> IF head[k] # Null /\ x = tail[l] THEN head[k] ELSE succ[x]]
  /\ pred' = [x \in Nodes |-> IF x = head[k] THEN tail[l]
                              ELSE IF head[k] # Null /\ x = head[l] THEN pred[head[k]] ELSE pred[x]]
  /\ head' = [h \in Heads |-> IF h = k THEN head[l] ELSE IF h = l THEN Null ELSE head[h]]
  /\ tail' = [h \in Heads |-> IF h = l THEN Null
                              ELSE IF h = k /\ head[k] = Null THEN tail[l] ELSE tail[h]]
  /\ length' = [length EXCEPT ![k] = @ + length[l], ![l] = 0]
  /\ order' = [order EXCEPT ![k] = Joined(order[l], length[l], order[k], length[k]),
                            ![l] = [i \in 1..0 |-> Null]]

\* DLINK_FOREACH_SAFE: which node comes next is read before the body runs.
WalkStart(l) ==
  /\ ~walk.on
  /\ walk' = [on |-> TRUE, along |-> l, to |-> head[l], seen |-> {},
              stayed |-> {order[l][i] : i \in 1..length[l]}, cut |-> FALSE]
  /\ UNCHANGED <<head, tail, length, succ, pred, order>>
WalkNext ==
  /\ walk.on
  /\ walk' = IF walk.to = Null THEN [walk EXCEPT !.on = FALSE]
             ELSE [walk EXCEPT !.to = succ[walk.to], !.seen = @ \cup {walk.to}]
  /\ UNCHANGED <<head, tail, length, succ, pred, order>>

Change ==
  \E m \in Nodes, l \in Heads :
    \/ Add(m, l) \/ AddTail(m, l) \/ Delete(m, l)
    \/ \E b \in Nodes : AddBefore(b, m, l)
    \/ \E k \in Heads : MoveNode(m, l, k) \/ MoveList(l, k)
ListNext == Change \/ WalkNext \/ \E l \in Heads : WalkStart(l)

ListSpec == ListInit /\ [][ListNext]_listVars

-----------------------------------------------------------------------------
\* The pointers say, forward and backward, what the sequence of a list is, and its head,
\* tail and length too: each routine, and the asserts in them, rely on that of the others
\* ("Assumption: If list->tail != NULL, list->head != NULL"; "I think I got that right").
Linked(l) ==
  LET n == length[l]
      s == order[l]
  IN  /\ head[l] = (IF n = 0 THEN Null ELSE s[1])
      /\ tail[l] = (IF n = 0 THEN Null ELSE s[n])
      /\ \A i \in 1..n : /\ succ[s[i]] = IF i = n THEN Null ELSE s[i + 1]
                         /\ pred[s[i]] = IF i = 1 THEN Null ELSE s[i - 1]
AllLinked == \A l \in Heads : Linked(l)

\* A walk comes to each node that stayed in its list from beginning to end, whatever its
\* body does, unless that took away the very node that was to be next.
WalksAll == ~walk.on /\ ~walk.cut => walk.stayed \subseteq walk.seen
=============================================================================

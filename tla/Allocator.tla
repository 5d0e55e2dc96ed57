------------------------------ MODULE Allocator ------------------------------
(***************************************************************************)
(* What mempool.h promises: mp_pool_get returns an item nobody holds, and   *)
(* the memory of an item stays until its holder has released it.            *)
(***************************************************************************)
EXTENDS Naturals

CONSTANT Items
VARIABLES held,     \* how often each item is in use
          memory    \* items whose memory the pool has

Init == held = [i \in Items |-> 0] /\ memory = {}

Get(i) ==
  /\ held[i] = 0 /\ held' = [held EXCEPT ![i] = 1]
  /\ memory \subseteq memory' /\ i \in memory' /\ memory' \subseteq Items

Release(i) ==
  /\ held[i] = 1 /\ held' = [held EXCEPT ![i] = 0]
  /\ memory' = memory

\* The pool may give back what is not held.
Collect ==
  /\ {i \in Items : held[i] > 0} \subseteq memory' /\ memory' \subseteq memory
  /\ held' = held

Next == (\E i \in Items : Get(i) \/ Release(i)) \/ Collect

Spec == Init /\ [][Next]_<<held, memory>>
=============================================================================

--------------------------- MODULE ListPoolProofs ---------------------------
(***************************************************************************)
(* Proofs about MemPool and Lists, the ground the server's data stands on.   *)
(*                                                                         *)
(* MemPool, for every finite set of chunks and every capacity of at least    *)
(* two items: the lists and the counters of a pool are right, and the pool   *)
(* implements Allocator.  The argument: the items in use of a chunk are      *)
(* those carved from it which are not on its freelist, so that neither a     *)
(* freelist nor the memory behind next_mem offers one of them, and a chunk   *)
(* that is counted empty has none.                                          *)
(*                                                                         *)
(* Lists, for any set of nodes and lists: the pointers say a sequence at all *)
(* times, whatever routines are called in whatever order by callers that     *)
(* keep a node in one list.                                                 *)
(***************************************************************************)
EXTENDS MemPool, Lists, FiniteSetTheorems, TLAPS

\* The items of a chunk that somebody has
Out(c) == {i \in 1..Capacity : held[<<c, i>>] > 0}

Carved == \A c \in Chunks : /\ chunk[c].free \subseteq 1..chunk[c].next
                            /\ Out(c) = (1..chunk[c].next) \ chunk[c].free
Once == \A x \in Items : held[x] \in {0, 1}
Apart == /\ used_chunks \cap full_chunks = {} /\ used_chunks \cap empty_chunks = {}
         /\ full_chunks \cap empty_chunks = {}
Unused == \A c \in Chunks \ Mine : chunk[c] = NewChunk
IInv == PoolTypeOK /\ Carved /\ Once /\ Apart /\ Unused /\ ChunksOk

LEMMA OutFinite == \A c : IsFiniteSet(Out(c)) /\ Cardinality(Out(c)) \in 0..Capacity
<1> TAKE c
<1>1. IsFiniteSet(1..Capacity) /\ Cardinality(1..Capacity) = Capacity
    BY TwoFit, FS_Interval
<1>2. Out(c) \subseteq 1..Capacity BY DEF Out
<1>3. IsFiniteSet(Out(c)) /\ Cardinality(Out(c)) <= Cardinality(1..Capacity)
    BY <1>1, <1>2, FS_Subset
<1> QED BY <1>1, <1>3, FS_CardinalityType, TwoFit

LEMMA InitIInv == PoolInit => IInv
<1> SUFFICES ASSUME PoolInit PROVE IInv
    OBVIOUS
<1> USE TwoFit DEF PoolInit
<1>1. PoolTypeOK BY DEF PoolTypeOK, NewChunk, Items
<1>2. Once /\ Apart /\ Unused BY DEF Once, Apart, Unused, Items
<1>3. Carved BY DEF Carved, Out, NewChunk, Items
<1>4. ChunksOk BY FS_EmptySet DEF ChunksOk, Mine
<1> QED BY <1>1, <1>2, <1>3, <1>4 DEF IInv

\* What a chunk serves is nobody's, and the chunk is not full.
LEMMA Served ==
  ASSUME IInv, NEW c \in Chunks, NEW i \in 1..Capacity, c \in Serving, i \in Spare(c)
  PROVE  /\ held[<<c, i>>] = 0 /\ i \notin Out(c)
         /\ chunk[c].n = Cardinality(Out(c)) /\ chunk[c].n \in 0..(Capacity - 1)
         /\ c \notin full_chunks
         /\ c \in empty_chunks => chunk[c].n = 0
         /\ c \notin Mine => chunk[c] = NewChunk
<1> USE TwoFit DEF IInv
<1>1. i \notin Out(c)
  <2>1. CASE chunk[c].free # {} BY <2>1 DEF Spare, Carved
  <2>2. CASE chunk[c].free = {}
    <3>1. chunk[c].next \in Nat BY DEF PoolTypeOK
    <3>2. i = chunk[c].next + 1 BY <2>2 DEF Spare
    <3> QED BY <3>1, <3>2 DEF Carved
  <2> QED BY <2>1, <2>2
<1>2. held[<<c, i>>] = 0 BY <1>1 DEF Out, Once, Items
<1>3. c \in used_chunks \/ c \in empty_chunks \/ c \in Chunks \ Mine BY DEF Serving
<1>4. CASE c \in used_chunks
  <2>1. chunk[c].n = Cardinality(Out(c)) /\ chunk[c].n \in 1..(Capacity - 1)
      BY <1>4 DEF ChunksOk, Mine, Out
  <2> QED BY <1>1, <1>2, <1>4, <2>1 DEF Apart, Mine
<1>5. CASE c \in empty_chunks
  <2>1. chunk[c].n = Cardinality(Out(c)) /\ chunk[c].n = 0
      BY <1>5 DEF ChunksOk, Mine, Out
  <2> QED BY <1>1, <1>2, <1>5, <2>1 DEF Apart, Mine
<1>6. CASE c \in Chunks \ Mine
  <2>1. chunk[c] = NewChunk BY <1>6 DEF Unused
  <2>2. Out(c) = {} BY <2>1 DEF Carved, NewChunk
  <2> QED BY <1>1, <1>2, <1>6, <2>1, <2>2, FS_EmptySet DEF NewChunk, Mine
<1> QED BY <1>3, <1>4, <1>5, <1>6

\* Whoever returns an item got it from a chunk of the pool, which counts it.
LEMMA Returned ==
  ASSUME IInv, NEW c \in Chunks, NEW i \in 1..Capacity, held[<<c, i>>] > 0
  PROVE  /\ held[<<c, i>>] = 1 /\ i \in Out(c)
         /\ c \in used_chunks \cup full_chunks
         /\ chunk[c].n = Cardinality(Out(c)) /\ chunk[c].n \in 1..Capacity
         /\ chunk[c].n = Capacity => c \in full_chunks
         /\ chunk[c].n # Capacity => c \in used_chunks
         /\ chunk[c].n = 1 => Out(c) = {i}
<1> USE TwoFit DEF IInv
<1>1. held[<<c, i>>] = 1 /\ i \in Out(c) BY DEF Once, Items, Out
<1>2. c \in Mine
  <2> SUFFICES ASSUME c \notin Mine PROVE FALSE
      OBVIOUS
  <2>1. chunk[c] = NewChunk BY DEF Unused
  <2>2. Out(c) = {} BY <2>1 DEF Carved, NewChunk
  <2> QED BY <1>1, <2>2
<1>3. chunk[c].n = Cardinality(Out(c)) BY <1>2 DEF ChunksOk, Out
<1>4. Cardinality(Out(c)) # 0 BY <1>1, OutFinite, FS_EmptySet
<1>5. chunk[c].n \in 1..Capacity BY <1>3, <1>4, OutFinite
<1>6. c \notin empty_chunks BY <1>5 DEF ChunksOk
<1>7. c \in used_chunks => chunk[c].n # Capacity BY DEF ChunksOk
<1>8. c \in full_chunks => chunk[c].n = Capacity BY DEF ChunksOk
<1>9. ASSUME chunk[c].n = 1 PROVE Out(c) = {i}
  <2>1. IsFiniteSet(Out(c) \ {i}) /\ Cardinality(Out(c) \ {i}) = Cardinality(Out(c)) - 1
      BY <1>1, OutFinite, FS_RemoveElement
  <2>2. Cardinality(Out(c) \ {i}) = 0 BY <1>3, <1>9, <2>1
  <2>3. Out(c) \ {i} = {} BY <2>1, <2>2, FS_EmptySet
  <2> QED BY <1>1, <2>3
<1> QED BY <1>1, <1>2, <1>3, <1>5, <1>6, <1>7, <1>8, <1>9 DEF Mine

LEMMA GetIInv ==
  ASSUME IInv, NEW c \in Chunks, NEW i \in 1..Capacity, Get(c, i)
  PROVE  IInv'
<1> USE TwoFit DEF IInv
<1>1. /\ held[<<c, i>>] = 0 /\ i \notin Out(c)
      /\ chunk[c].n = Cardinality(Out(c)) /\ chunk[c].n \in 0..(Capacity - 1)
      /\ c \notin full_chunks
      /\ c \in empty_chunks => chunk[c].n = 0
      /\ c \notin Mine => chunk[c] = NewChunk
    BY Served DEF Get
<1>2. held' = [held EXCEPT ![<<c, i>>] = 1] /\ held \in [Items -> Nat] /\ <<c, i>> \in Items
    BY <1>1 DEF Get, PoolTypeOK, Items
<1>3. Once' BY <1>2 DEF Once
<1>4. Out(c)' = Out(c) \cup {i} /\ \A d \in Chunks \ {c} : Out(d)' = Out(d)
    BY <1>2 DEF Out, Items
<1>5. Cardinality(Out(c)') = chunk[c].n + 1
    BY <1>1, <1>4, OutFinite, FS_AddElement, ZenonT(40)
<1>6. /\ chunk'[c].n = chunk[c].n + 1 /\ chunk'[c].free = chunk[c].free \ {i}
      /\ chunk'[c].next = IF i \in chunk[c].free THEN chunk[c].next ELSE i
      /\ \A d \in Chunks \ {c} : chunk'[d] = chunk[d]
      /\ chunk' \in [Chunks -> [n : 0..Capacity, next : 0..Capacity, free : SUBSET (1..Capacity)]]
  <2>1. chunk[c] \in [n : 0..Capacity, next : 0..Capacity, free : SUBSET (1..Capacity)]
      BY DEF PoolTypeOK
  <2>2. chunk[c].n + 1 \in 0..Capacity BY <1>1
  <2>3. /\ DOMAIN chunk' = Chunks
        /\ \A d \in Chunks \ {c} : chunk'[d] = chunk[d]
      BY DEF Get, PoolTypeOK
  <2>4. chunk'[c] = [chunk[c] EXCEPT !.n = @ + 1, !.free = @ \ {i},
                                      !.next = IF i \in chunk[c].free THEN @ ELSE i]
      BY DEF Get, PoolTypeOK
  <2>5. /\ chunk'[c].n = chunk[c].n + 1 /\ chunk'[c].free = chunk[c].free \ {i}
        /\ chunk'[c].next = IF i \in chunk[c].free THEN chunk[c].next ELSE i
        /\ chunk'[c] \in [n : 0..Capacity, next : 0..Capacity, free : SUBSET (1..Capacity)]
    <3>1. /\ chunk'[c].n = chunk[c].n + 1 /\ chunk'[c].free = chunk[c].free \ {i}
          /\ chunk'[c].next = IF i \in chunk[c].free THEN chunk[c].next ELSE i
          /\ chunk'[c] = [n |-> chunk'[c].n, next |-> chunk'[c].next, free |-> chunk'[c].free]
        BY <2>1, <2>4
    <3>2. /\ chunk'[c].n \in 0..Capacity /\ chunk'[c].free \in SUBSET (1..Capacity)
          /\ chunk'[c].next \in 0..Capacity
        BY <2>1, <2>2, <3>1
    <3> QED BY <3>1, <3>2
  <2>6. chunk' = [d \in Chunks |-> chunk'[d]] BY DEF Get, PoolTypeOK
  <2> QED BY <2>3, <2>5, <2>6 DEF PoolTypeOK
<1>7. /\ empty_chunks' = empty_chunks \ {c}
      /\ chunk[c].n + 1 = Capacity =>
           used_chunks' = used_chunks \ {c} /\ full_chunks' = full_chunks \cup {c}
      /\ chunk[c].n + 1 # Capacity =>
           used_chunks' = used_chunks \cup {c} /\ full_chunks' = full_chunks
    BY DEF Get
<1>8. Mine' = Mine \cup {c} BY <1>7 DEF Mine
<1>9. PoolTypeOK' BY <1>2, <1>6, <1>7 DEF Get, PoolTypeOK
<1>10. Apart' BY <1>1, <1>7 DEF Apart
<1>11. Unused' BY <1>6, <1>8 DEF Unused
<1>12. Carved'
  <2>1. chunk[c].free \subseteq 1..chunk[c].next /\ Out(c) = (1..chunk[c].next) \ chunk[c].free
        /\ chunk[c].next \in Nat
      BY DEF Carved, PoolTypeOK
  <2>2. CASE i \in chunk[c].free
      BY <1>4, <1>6, <2>1, <2>2 DEF Carved
  <2>3. CASE i \notin chunk[c].free
    <3>1. chunk[c].free = {} /\ i = chunk[c].next + 1 BY <2>3 DEF Get, Spare
    <3>2. chunk'[c].next = i /\ chunk'[c].free = {} BY <1>6, <2>3, <3>1
    <3>3. 1..i = (1..chunk[c].next) \cup {i} BY <2>1, <3>1
    <3> QED BY <1>4, <1>6, <2>1, <3>1, <3>2, <3>3 DEF Carved
  <2> QED BY <2>2, <2>3
<1>13. /\ \A d \in Mine' : chunk'[d].n = Cardinality(Out(d)')
       /\ \A d \in used_chunks' : chunk'[d].n \in 1..(Capacity - 1)
       /\ \A d \in full_chunks' : chunk'[d].n = Capacity
       /\ \A d \in empty_chunks' : chunk'[d].n = 0
  <2>1. Mine \subseteq Chunks BY DEF Mine, PoolTypeOK
  <2>2. \A d \in Mine : chunk[d].n = Cardinality(Out(d)) BY DEF ChunksOk, Out
  <2>3. \A d \in Mine' : chunk'[d].n = Cardinality(Out(d)')
      BY <1>4, <1>5, <1>6, <1>8, <2>1, <2>2
  <2>4. \A d \in used_chunks' : chunk'[d].n \in 1..(Capacity - 1)
    <3>1. chunk[c].n + 1 # Capacity => chunk[c].n + 1 \in 1..(Capacity - 1) BY <1>1
    <3>2. \A d \in used_chunks' : d # c => d \in used_chunks BY <1>7
    <3>3. c \in used_chunks' => chunk[c].n + 1 # Capacity BY <1>7
    <3>4. \A d \in used_chunks : d \in Chunks /\ chunk[d].n \in 1..(Capacity - 1)
        BY DEF ChunksOk, PoolTypeOK
    <3> QED BY <1>6, <3>1, <3>2, <3>3, <3>4
  <2>5. \A d \in full_chunks' : chunk'[d].n = Capacity
      BY <1>1, <1>6, <1>7 DEF ChunksOk, PoolTypeOK
  <2>6. \A d \in empty_chunks' : chunk'[d].n = 0
      BY <1>6, <1>7 DEF ChunksOk, PoolTypeOK
  <2> QED BY <2>3, <2>4, <2>5, <2>6
<1>14. n_empty_chunks' = Cardinality(empty_chunks') /\ n_empty_chunks' \in Nat
  <2>1. IsFiniteSet(empty_chunks) BY FS_Subset DEF PoolTypeOK
  <2>2. IsFiniteSet(empty_chunks') BY <1>7, <2>1, FS_Subset
  <2>3. CASE c \in empty_chunks
    <3>1. Cardinality(empty_chunks \ {c}) = Cardinality(empty_chunks) - 1
        BY <2>1, <2>3, FS_RemoveElement
    <3> QED BY <1>7, <2>2, <2>3, <3>1, FS_CardinalityType DEF Get, ChunksOk
  <2>4. CASE c \notin empty_chunks
    <3>1. empty_chunks' = empty_chunks BY <1>7, <2>4
    <3> QED BY <2>2, <2>4, <3>1, FS_CardinalityType DEF Get, ChunksOk
  <2> QED BY <2>3, <2>4
<1>15. min_empty_chunks' \in 0..n_empty_chunks'
    BY <1>14 DEF Get, ChunksOk, PoolTypeOK
<1>16. ChunksOk' BY <1>13, <1>14, <1>15 DEF ChunksOk, Out
<1> QED BY <1>3, <1>9, <1>10, <1>11, <1>12, <1>16

LEMMA ReleaseIInv ==
  ASSUME IInv, NEW c \in Chunks, NEW i \in 1..Capacity, Release(c, i)
  PROVE  IInv'
<1> USE TwoFit DEF IInv
<1>1. /\ held[<<c, i>>] = 1 /\ i \in Out(c)
      /\ c \in used_chunks \cup full_chunks
      /\ chunk[c].n = Cardinality(Out(c)) /\ chunk[c].n \in 1..Capacity
      /\ chunk[c].n = Capacity => c \in full_chunks
      /\ chunk[c].n # Capacity => c \in used_chunks
      /\ chunk[c].n = 1 => Out(c) = {i}
    BY Returned DEF Release
<1>2. held' = [held EXCEPT ![<<c, i>>] = 0] /\ held \in [Items -> Nat] /\ <<c, i>> \in Items
    BY <1>1 DEF Release, PoolTypeOK, Items
<1>3. Once' BY <1>2 DEF Once
<1>4. Out(c)' = Out(c) \ {i} /\ \A d \in Chunks \ {c} : Out(d)' = Out(d)
    BY <1>2 DEF Out, Items
<1>5. Cardinality(Out(c)') = chunk[c].n - 1
  <2>1. Cardinality(Out(c) \ {i}) = Cardinality(Out(c)) - 1
      BY <1>1, OutFinite, FS_RemoveElement
  <2> QED BY <1>1, <1>4, <2>1
<1>6. /\ chunk'[c].n = chunk[c].n - 1
      /\ \A d \in Chunks \ {c} : chunk'[d] = chunk[d]
      /\ chunk' \in [Chunks -> [n : 0..Capacity, next : 0..Capacity, free : SUBSET (1..Capacity)]]
    BY <1>1 DEF Release, PoolTypeOK, NewChunk
<1>7. /\ chunk[c].n = Capacity =>
            /\ full_chunks' = full_chunks \ {c} /\ used_chunks' = used_chunks \cup {c}
            /\ empty_chunks' = empty_chunks
      /\ chunk[c].n = 1 =>
            /\ full_chunks' = full_chunks /\ used_chunks' = used_chunks \ {c}
            /\ empty_chunks' = empty_chunks \cup {c}
      /\ chunk[c].n \notin {1, Capacity} =>
            /\ full_chunks' = full_chunks /\ used_chunks' = used_chunks
            /\ empty_chunks' = empty_chunks
    BY DEF Release, chunkLists
<1>8. Mine' = Mine BY <1>1, <1>7 DEF Mine
<1>9. PoolTypeOK' BY <1>2, <1>6, <1>7 DEF Release, PoolTypeOK
<1>10. Apart' BY <1>1, <1>7 DEF Apart
<1>11. Unused' BY <1>1, <1>6, <1>8 DEF Unused, Mine
<1>12. Carved'
  <2>1. chunk[c].free \subseteq 1..chunk[c].next /\ Out(c) = (1..chunk[c].next) \ chunk[c].free
      BY DEF Carved
  <2>2. CASE chunk[c].n = 1
    <3>1. chunk'[c] = NewChunk BY <2>2 DEF Release, PoolTypeOK
    <3>2. Out(c)' = {} BY <1>1, <1>4, <2>2
    <3> QED BY <1>4, <1>6, <3>1, <3>2 DEF Carved, NewChunk
  <2>3. CASE chunk[c].n # 1
    <3>1. chunk'[c].free = chunk[c].free \cup {i} /\ chunk'[c].next = chunk[c].next
        BY <2>3 DEF Release, PoolTypeOK
    <3> QED BY <1>1, <1>4, <1>6, <2>1, <3>1 DEF Carved
  <2> QED BY <2>2, <2>3
<1>13. /\ \A d \in Mine' : chunk'[d].n = Cardinality(Out(d)')
       /\ \A d \in used_chunks' : chunk'[d].n \in 1..(Capacity - 1)
       /\ \A d \in full_chunks' : chunk'[d].n = Capacity
       /\ \A d \in empty_chunks' : chunk'[d].n = 0
  <2>1. Mine \subseteq Chunks BY DEF Mine, PoolTypeOK
  <2>2. \A d \in Mine : chunk[d].n = Cardinality(Out(d)) BY DEF ChunksOk, Out
  <2>3. \A d \in Mine' : chunk'[d].n = Cardinality(Out(d)')
      BY <1>4, <1>5, <1>6, <1>8, <2>1, <2>2
  <2>4. \A d \in used_chunks' : chunk'[d].n \in 1..(Capacity - 1)
      BY <1>1, <1>6, <1>7 DEF ChunksOk, PoolTypeOK
  <2>5. \A d \in full_chunks' : chunk'[d].n = Capacity
      BY <1>1, <1>6, <1>7 DEF ChunksOk, PoolTypeOK, Apart
  <2>6. \A d \in empty_chunks' : chunk'[d].n = 0
      BY <1>1, <1>6, <1>7 DEF ChunksOk, PoolTypeOK, Apart
  <2> QED BY <2>3, <2>4, <2>5, <2>6
<1>14. n_empty_chunks' = Cardinality(empty_chunks') /\ n_empty_chunks' >= n_empty_chunks
  <2>1. IsFiniteSet(empty_chunks) BY FS_Subset DEF PoolTypeOK
  <2>2. c \notin empty_chunks BY <1>1 DEF Apart
  <2>3. Cardinality(empty_chunks \cup {c}) = Cardinality(empty_chunks) + 1
      BY <2>1, <2>2, FS_AddElement
  <2>4. n_empty_chunks = Cardinality(empty_chunks) /\ n_empty_chunks \in Int
      BY DEF ChunksOk, PoolTypeOK
  <2>5. /\ chunk[c].n = 1 /\ Capacity # 1 => n_empty_chunks' = n_empty_chunks + 1
        /\ chunk[c].n # 1 => n_empty_chunks' = n_empty_chunks
      BY DEF Release
  <2>6. chunk[c].n = 1 => empty_chunks' = empty_chunks \cup {c}
      BY <1>7
  <2>7. chunk[c].n # 1 => empty_chunks' = empty_chunks
      BY <1>7
  <2> QED BY <2>3, <2>4, <2>5, <2>6, <2>7
<1>15. min_empty_chunks' \in 0..n_empty_chunks'
  <2>1. min_empty_chunks' = min_empty_chunks BY DEF Release
  <2>2. min_empty_chunks \in 0..n_empty_chunks /\ n_empty_chunks \in Int
      BY DEF ChunksOk, PoolTypeOK
  <2>3. n_empty_chunks' \in Int BY <1>9 DEF PoolTypeOK
  <2> QED BY <1>14, <2>1, <2>2, <2>3
<1>16. ChunksOk' BY <1>13, <1>14, <1>15 DEF ChunksOk, Out
<1> QED BY <1>3, <1>9, <1>10, <1>11, <1>12, <1>16

LEMMA CollectIInv ==
  ASSUME IInv, NEW gone \in SUBSET Chunks, GarbageCollect(gone)
  PROVE  IInv'
<1> USE TwoFit DEF IInv, GarbageCollect
<1>1. /\ gone \subseteq empty_chunks /\ empty_chunks' = empty_chunks \ gone
      /\ UNCHANGED <<used_chunks, full_chunks, held>>
    OBVIOUS
<1>2. \A d \in Chunks : Out(d)' = Out(d) BY <1>1 DEF Out
<1>3. \A d \in gone : Out(d) = {} /\ chunk[d].n = 0
  <2> TAKE d \in gone
  <2>1. chunk[d].n = 0 /\ d \in Mine BY <1>1 DEF ChunksOk, Mine
  <2>2. chunk[d].n = Cardinality(Out(d)) BY <2>1 DEF ChunksOk, Out
  <2> QED BY <2>1, <2>2, OutFinite, FS_EmptySet
<1>4. \A d \in Chunks : chunk'[d] = IF d \in gone THEN NewChunk ELSE chunk[d]
    OBVIOUS
<1>5. IsFiniteSet(empty_chunks) /\ IsFiniteSet(gone) BY <1>1, FS_Subset DEF PoolTypeOK
<1>6. /\ Cardinality(empty_chunks \ gone) = Cardinality(empty_chunks) - Cardinality(gone)
      /\ Cardinality(gone) \in Nat /\ Cardinality(empty_chunks \ gone) \in Nat
  <2>1. empty_chunks \cap gone = gone BY <1>1
  <2> QED BY <1>5, <2>1, FS_Difference, FS_CardinalityType, ZenonT(40)
<1>7. n_empty_chunks' = Cardinality(empty_chunks') /\ n_empty_chunks' \in Nat
    BY <1>1, <1>6 DEF ChunksOk
<1>8. PoolTypeOK' BY <1>1, <1>4, <1>7 DEF PoolTypeOK, NewChunk
<1>9. Once' /\ Apart' BY <1>1 DEF Once, Apart
<1>10. Unused' BY <1>1, <1>4 DEF Unused, Mine
<1>11. Carved' BY <1>2, <1>3, <1>4 DEF Carved, NewChunk
<1>12. ChunksOk'
  <2>1. \A d \in used_chunks \cup full_chunks : d \notin gone BY <1>1 DEF Apart
  <2>2. \A d \in Mine' : d \in Mine /\ d \in Chunks /\ d \notin gone
      BY <1>1, <2>1 DEF Mine, PoolTypeOK
  <2>3. \A d \in Mine' : chunk'[d].n = Cardinality(Out(d)')
      BY <1>2, <1>4, <2>2 DEF ChunksOk, Out
  <2>4. /\ \A d \in used_chunks' : chunk'[d].n \in 1..(Capacity - 1)
        /\ \A d \in full_chunks' : chunk'[d].n = Capacity
        /\ \A d \in empty_chunks' : chunk'[d].n = 0
      BY <1>1, <1>4, <2>2 DEF ChunksOk, Mine
  <2> QED BY <1>7, <2>3, <2>4 DEF ChunksOk, Out
<1> QED BY <1>8, <1>9, <1>10, <1>11, <1>12

LEMMA NextIInv == IInv /\ [PoolNext]_poolVars => IInv'
<1> SUFFICES ASSUME IInv, [PoolNext]_poolVars PROVE IInv'
    OBVIOUS
<1>1. ASSUME NEW c \in Chunks, NEW i \in 1..Capacity, Get(c, i) PROVE IInv'
    BY <1>1, GetIInv
<1>2. ASSUME NEW c \in Chunks, NEW i \in 1..Capacity, Release(c, i) PROVE IInv'
    BY <1>2, ReleaseIInv
<1>3. ASSUME NEW gone \in SUBSET Chunks, GarbageCollect(gone) PROVE IInv'
    BY <1>3, CollectIInv
<1>4. CASE UNCHANGED poolVars
    BY <1>4 DEF poolVars, chunkLists, IInv, PoolTypeOK, Carved, Once, Apart, Unused, ChunksOk,
                Out, Mine
<1> QED BY <1>1, <1>2, <1>3, <1>4 DEF PoolNext

LEMMA Invariant == PoolSpec => []IInv
  BY InitIInv, NextIInv, PTL DEF PoolSpec

\* mp_pool_assert_ok holds at all times: the chunks are on the lists they belong to, and
\* what the pool counts is what is out.
THEOREM PoolOk == PoolSpec => []ChunksOk
<1>1. IInv => ChunksOk BY DEF IInv
<1> QED BY <1>1, Invariant, PTL

-----------------------------------------------------------------------------
(* The refinement *)

LEMMA InitAllocates == PoolInit => Abstract!Init
  BY DEF PoolInit, Abstract!Init, Memory, Mine

LEMMA NextAllocates ==
  IInv /\ [PoolNext]_poolVars => [Abstract!Next]_<<held, Memory>>
<1> SUFFICES ASSUME IInv, [PoolNext]_poolVars
             PROVE  [Abstract!Next]_<<held, Memory>>
    OBVIOUS
<1> USE DEF Memory
<1>1. ASSUME NEW c \in Chunks, NEW i \in 1..Capacity, Get(c, i) PROVE Abstract!Get(<<c, i>>)
  <2>1. held[<<c, i>>] = 0 BY <1>1, Served DEF Get
  <2>2. held' = [held EXCEPT ![<<c, i>>] = 1]
      BY <1>1, <2>1 DEF Get, IInv, PoolTypeOK, Items
  <2>3. Mine' = Mine \cup {c} BY <1>1 DEF Get, Mine
  <2>4. Mine \subseteq Chunks BY DEF IInv, PoolTypeOK, Mine
  <2> QED BY <2>1, <2>2, <2>3, <2>4 DEF Abstract!Get, Items
<1>2. ASSUME NEW c \in Chunks, NEW i \in 1..Capacity, Release(c, i)
      PROVE Abstract!Release(<<c, i>>)
  <2>1. /\ held[<<c, i>>] = 1 /\ c \in used_chunks \cup full_chunks
        /\ chunk[c].n # Capacity => c \in used_chunks
      BY <1>2, Returned DEF Release
  <2>2. held' = [held EXCEPT ![<<c, i>>] = 0]
      BY <1>2, <2>1 DEF Release, IInv, PoolTypeOK, Items
  <2>3. Mine' = Mine BY <1>2, <2>1 DEF Release, Mine, chunkLists
  <2> QED BY <2>1, <2>2, <2>3 DEF Abstract!Release
<1>3. ASSUME NEW gone \in SUBSET Chunks, GarbageCollect(gone) PROVE Abstract!Collect
  <2>1. held' = held /\ Mine' \subseteq Mine BY <1>3 DEF GarbageCollect, Mine
  <2>2. \A c \in Chunks : Out(c) # {} => c \in Mine'
    <3> SUFFICES ASSUME NEW c \in Chunks, Out(c) # {} PROVE c \in Mine'
        OBVIOUS
    <3>1. c \in Mine BY DEF IInv, Unused, Carved, NewChunk
    <3>2. chunk[c].n # 0
        BY <3>1, OutFinite, FS_EmptySet DEF IInv, ChunksOk, Out
    <3>3. c \notin empty_chunks BY <3>2 DEF IInv, ChunksOk
    <3> QED BY <1>3, <3>1, <3>3 DEF GarbageCollect, Mine
  <2>3. {x \in Items : held[x] > 0} \subseteq Memory' BY <2>2 DEF Items, Out
  <2> QED BY <2>1, <2>3 DEF Abstract!Collect
<1>4. CASE UNCHANGED poolVars BY <1>4 DEF poolVars, chunkLists, Mine
<1>5. \A c \in Chunks, i \in 1..Capacity : <<c, i>> \in Items BY DEF Items
<1> QED BY <1>1, <1>2, <1>3, <1>4, <1>5 DEF PoolNext, Abstract!Next

\* A pool does what mempool.h says of it: nobody is given an item that another holds, and
\* no chunk goes back to the system with one in use.
THEOREM Implements == PoolSpec => Allocates
<1>1. IInv /\ [PoolNext]_poolVars => [Abstract!Next]_<<held, Memory>> BY NextAllocates
<1> QED BY <1>1, InitAllocates, Invariant, PTL DEF PoolSpec, Allocates, Abstract!Spec

-----------------------------------------------------------------------------
(* The linked lists *)

Types ==
  /\ head \in [Heads -> Nodes \cup {Null}] /\ tail \in [Heads -> Nodes \cup {Null}]
  /\ length \in [Heads -> Nat]
  /\ succ \in [Nodes -> Nodes \cup {Null}] /\ pred \in [Nodes -> Nodes \cup {Null}]
  /\ DOMAIN order = Heads
  /\ \A l \in Heads : order[l] \in [1..length[l] -> Nodes]
\* A node is in one place.
Single ==
  \A l, k \in Heads : \A i \in 1..length[l], j \in 1..length[k] :
    order[l][i] = order[k][j] => l = k /\ i = j
Chained == Types /\ Single /\ AllLinked

LEMMA InitChained == ListInit => Chained
  BY DEF ListInit, Chained, Types, Single, AllLinked, Linked

\* Where a node that is in a list is
LEMMA Place ==
  ASSUME NEW m, NEW l \in Heads, In(m, l)
  PROVE  At(m, l) \in 1..length[l] /\ order[l][At(m, l)] = m
  BY DEF In, At

\* A list whose nodes are left alone
LEMMA OtherList ==
  ASSUME Chained, NEW h \in Heads,
         order'[h] = order[h], length'[h] = length[h], head'[h] = head[h], tail'[h] = tail[h],
         \A i \in 1..length[h] : /\ succ'[order[h][i]] = succ[order[h][i]]
                                 /\ pred'[order[h][i]] = pred[order[h][i]]
  PROVE  Linked(h)'
  BY DEF Chained, AllLinked, Linked

\* What it is that l, of n nodes, has m in the place p as well
Grown(l, n, p, m) ==
  /\ n \in Nat
  /\ length' \in [Heads -> Nat] /\ length'[l] = n + 1
  /\ DOMAIN order' = Heads
  /\ \A h \in Heads : order'[h] \in [1..length'[h] -> Nodes]
  /\ \A h \in Heads \ {l} : order'[h] = order[h] /\ length'[h] = length[h]
  /\ order'[l][p] = m
  /\ \A i \in 1..(p - 1) : i \in 1..n /\ order'[l][i] = order[l][i]
  /\ \A i \in (p + 1)..(n + 1) : i - 1 \in 1..n /\ order'[l][i] = order[l][i - 1]
  /\ \A h \in Heads : \A i \in 1..length[h] : order[h][i] # m
  /\ Single'

\* Putting a loose node in the place p of a list
LEMMA Insertion ==
  ASSUME Chained, NEW m \in Nodes, NEW l \in Heads, Loose(m),
         NEW n, n = length[l], NEW p \in 1..(n + 1),
         length' = [length EXCEPT ![l] = n + 1],
         order' = [order EXCEPT ![l] = Inserted(order[l], n, p, m)]
  PROVE  Grown(l, n, p, m)
<1>1. n \in Nat BY DEF Chained, Types
<1>2. /\ length' \in [Heads -> Nat] /\ length'[l] = n + 1 /\ DOMAIN order' = Heads
      /\ \A h \in Heads \ {l} : order'[h] = order[h] /\ length'[h] = length[h]
      /\ order'[l] = [k \in 1..(n + 1) |-> IF k < p THEN order[l][k] ELSE IF k = p THEN m
                                           ELSE order[l][k - 1]]
  BY <1>1 DEF Chained, Types, Inserted
<1>3. order'[l][p] = m BY <1>1, <1>2
<1>4. \A i \in 1..(p - 1) : i \in 1..n /\ order'[l][i] = order[l][i] BY <1>1, <1>2
<1>5. \A i \in (p + 1)..(n + 1) : i - 1 \in 1..n /\ order'[l][i] = order[l][i - 1] BY <1>1, <1>2
<1>6. \A h \in Heads : \A i \in 1..length[h] : order[h][i] # m BY DEF Loose, In
<1>7. \A i \in 1..(n + 1) : i \in 1..(p - 1) \/ i = p \/ i \in (p + 1)..(n + 1) BY <1>1
<1>8. ASSUME NEW i \in 1..(n + 1) PROVE order'[l][i] \in Nodes
  <2>1. \A j \in 1..n : order[l][j] \in Nodes BY DEF Chained, Types
  <2>2. CASE i = p BY <1>3, <2>2
  <2>3. CASE i \in 1..(p - 1) BY <1>4, <2>1, <2>3
  <2>4. CASE i \in (p + 1)..(n + 1) BY <1>5, <2>1, <2>4
  <2> QED BY <1>7, <2>2, <2>3, <2>4
<1>9. order'[l] \in [1..(n + 1) -> Nodes] BY <1>2, <1>8
<1>10. \A h \in Heads : order'[h] \in [1..length'[h] -> Nodes]
  BY <1>2, <1>9 DEF Chained, Types
<1>11. ASSUME NEW k \in Heads \ {l}, NEW i \in 1..(n + 1), NEW j \in 1..length[k]
       PROVE  order'[l][i] # order[k][j]
  BY <1>3, <1>4, <1>5, <1>6, <1>7 DEF Chained, Single
<1>12. ASSUME NEW i \in 1..(n + 1), NEW j \in 1..(n + 1), order'[l][i] = order'[l][j]
       PROVE  i = j
  <2>1. CASE i = p \/ j = p BY <1>3, <1>4, <1>5, <1>6, <1>7, <1>12, <2>1
  <2>2. CASE i \in 1..(p - 1) /\ j \in 1..(p - 1) BY <2>2, <1>4, <1>12 DEF Chained, Single
  <2>3. CASE i \in (p + 1)..(n + 1) /\ j \in (p + 1)..(n + 1)
    <3>1. i - 1 = j - 1 BY <2>3, <1>5, <1>12 DEF Chained, Single
    <3> QED BY <3>1
  <2>4. CASE i \in 1..(p - 1) /\ j \in (p + 1)..(n + 1)
    <3>1. i = j - 1 BY <2>4, <1>4, <1>5, <1>12 DEF Chained, Single
    <3> QED BY <3>1, <2>4, <1>1
  <2>5. CASE i \in (p + 1)..(n + 1) /\ j \in 1..(p - 1)
    <3>1. i - 1 = j BY <2>5, <1>4, <1>5, <1>12 DEF Chained, Single
    <3> QED BY <3>1, <2>5, <1>1
  <2> QED BY <1>7, <2>1, <2>2, <2>3, <2>4, <2>5
<1>13. Single'
  <2> SUFFICES ASSUME NEW h \in Heads, NEW k \in Heads,
                      NEW i \in 1..length'[h], NEW j \in 1..length'[k],
                      order'[h][i] = order'[k][j]
               PROVE  h = k /\ i = j
    BY DEF Single
  <2>1. CASE h # l /\ k # l BY <2>1, <1>2 DEF Chained, Single
  <2>2. CASE h = l /\ k # l BY <2>2, <1>2, <1>11
  <2>3. CASE h # l /\ k = l BY <2>3, <1>2, <1>11
  <2>4. CASE h = l /\ k = l BY <2>4, <1>2, <1>12
  <2> QED BY <2>1, <2>2, <2>3, <2>4
<1> QED BY <1>1, <1>2, <1>3, <1>4, <1>5, <1>6, <1>10, <1>13 DEF Grown

\* That much of it is about l only.
Grows(l, n, p, m) ==
  /\ n \in Nat /\ length'[l] = n + 1 /\ order'[l][p] = m
  /\ \A i \in 1..(p - 1) : i \in 1..n /\ order'[l][i] = order[l][i]
  /\ \A i \in (p + 1)..(n + 1) : i - 1 \in 1..n /\ order'[l][i] = order[l][i - 1]

\* The pointers that a new node in the place p takes
LEMMA InsertedLinks ==
  ASSUME Chained, NEW l \in Heads, NEW n, n = length[l], NEW p \in 1..(n + 1), NEW m,
         Grows(l, n, p, m),
         head'[l] = (IF p = 1 THEN m ELSE head[l]),
         tail'[l] = (IF p = n + 1 THEN m ELSE tail[l]),
         succ'[m] = (IF p = n + 1 THEN Null ELSE order[l][p]),
         pred'[m] = (IF p = 1 THEN Null ELSE order[l][p - 1]),
         \A i \in 1..n : /\ succ'[order[l][i]] = IF i = p - 1 THEN m ELSE succ[order[l][i]]
                         /\ pred'[order[l][i]] = IF i = p THEN m ELSE pred[order[l][i]]
  PROVE  Linked(l)'
<1>1. /\ n \in Nat /\ length'[l] = n + 1 /\ order'[l][p] = m
      /\ \A i \in 1..(p - 1) : i \in 1..n /\ order'[l][i] = order[l][i]
      /\ \A i \in (p + 1)..(n + 1) : i - 1 \in 1..n /\ order'[l][i] = order[l][i - 1]
  BY DEF Grows
<1>2. /\ head[l] = IF n = 0 THEN Null ELSE order[l][1]
      /\ tail[l] = IF n = 0 THEN Null ELSE order[l][n]
      /\ \A i \in 1..n : /\ succ[order[l][i]] = IF i = n THEN Null ELSE order[l][i + 1]
                         /\ pred[order[l][i]] = IF i = 1 THEN Null ELSE order[l][i - 1]
  BY DEF Chained, AllLinked, Linked
<1>3. head'[l] = order'[l][1]
  <2>1. CASE p = 1 BY <2>1, <1>1
  <2>2. CASE p # 1
    <3>1. 1 \in 1..(p - 1) /\ n # 0 BY <2>2, <1>1
    <3> QED BY <3>1, <2>2, <1>1, <1>2
  <2> QED BY <2>1, <2>2
<1>4. tail'[l] = order'[l][n + 1]
  <2>1. CASE p = n + 1 BY <2>1, <1>1
  <2>2. CASE p # n + 1
    <3>1. n + 1 \in (p + 1)..(n + 1) /\ n # 0 /\ (n + 1) - 1 = n BY <2>2, <1>1
    <3> QED BY <3>1, <2>2, <1>1, <1>2
  <2> QED BY <2>1, <2>2
<1>5. ASSUME NEW i \in 1..(n + 1)
      PROVE  /\ succ'[order'[l][i]] = IF i = n + 1 THEN Null ELSE order'[l][i + 1]
             /\ pred'[order'[l][i]] = IF i = 1 THEN Null ELSE order'[l][i - 1]
  <2>1. CASE i = p
    <3>1. i # n + 1 => /\ i + 1 \in (p + 1)..(n + 1) /\ (i + 1) - 1 = p BY <2>1, <1>1
    <3>2. i # n + 1 => order'[l][i + 1] = order[l][p] BY <3>1, <1>1
    <3>3. i # 1 => i - 1 \in 1..(p - 1) BY <2>1, <1>1
    <3>4. i # 1 => order'[l][i - 1] = order[l][p - 1] BY <3>3, <2>1, <1>1
    <3> QED BY <2>1, <3>2, <3>4, <1>1
  <2>2. CASE i \in 1..(p - 1)
    <3>1. i \in 1..n /\ order'[l][i] = order[l][i] /\ i # p /\ i # n + 1 BY <2>2, <1>1
    <3>2. succ'[order[l][i]] = order'[l][i + 1]
      <4>1. CASE i = p - 1
        <5>1. i + 1 = p BY <4>1, <1>1
        <5> QED BY <5>1, <4>1, <3>1, <1>1
      <4>2. CASE i # p - 1
        <5>1. i + 1 \in 1..(p - 1) /\ i # n BY <4>2, <2>2, <1>1
        <5>2. order'[l][i + 1] = order[l][i + 1] BY <5>1, <1>1
        <5> QED BY <5>1, <5>2, <4>2, <3>1, <1>2
      <4> QED BY <4>1, <4>2
    <3>3. pred'[order[l][i]] = pred[order[l][i]] BY <3>1
    <3>4. i # 1 => i - 1 \in 1..(p - 1) BY <2>2, <1>1
    <3>5. i # 1 => order'[l][i - 1] = order[l][i - 1] BY <3>4, <1>1
    <3> QED BY <3>1, <3>2, <3>3, <3>5, <1>2
  <2>3. CASE i \in (p + 1)..(n + 1)
    <3> DEFINE j == i - 1
    <3>1. j \in 1..n /\ order'[l][i] = order[l][j] /\ i # 1 /\ j # p - 1 BY <2>3, <1>1
    <3>2. pred'[order[l][j]] = order'[l][j]
      <4>1. CASE j = p BY <4>1, <3>1, <1>1
      <4>2. CASE j # p
        <5>1. j \in (p + 1)..(n + 1) /\ j # 1 BY <4>2, <2>3, <1>1
        <5>2. order'[l][j] = order[l][j - 1] BY <5>1, <1>1
        <5> QED BY <5>1, <5>2, <4>2, <3>1, <1>2
      <4> QED BY <4>1, <4>2
    <3>3. succ'[order[l][j]] = succ[order[l][j]] BY <3>1
    <3>4. (j = n <=> i = n + 1) /\ j + 1 = i BY <2>3, <1>1
    <3>5. i # n + 1 => i + 1 \in (p + 1)..(n + 1) /\ (i + 1) - 1 = i BY <2>3, <1>1
    <3>6. i # n + 1 => order'[l][i + 1] = order[l][i] BY <3>5, <1>1
    <3>7. succ'[order'[l][i]] = IF i = n + 1 THEN Null ELSE order'[l][i + 1]
      BY <3>1, <3>3, <3>4, <3>6, <1>2
    <3> QED BY <3>1, <3>2, <3>7
  <2> QED BY <2>1, <2>2, <2>3, <1>1
<1>6. n + 1 # 0 BY <1>1
<1> QED BY <1>1, <1>3, <1>4, <1>5, <1>6 DEF Linked

LEMMA AddHeadKeeps ==
  ASSUME Chained, NEW m \in Nodes, NEW l \in Heads, Loose(m), AddHead(m, l)
  PROVE  Chained'
<1> USE NullIsNoNode
<1>1. PICK n \in Nat : n = length[l] BY DEF Chained, Types
<1>2. 1 \in 1..(n + 1) BY <1>1
<1>3. /\ length' = [length EXCEPT ![l] = n + 1]
      /\ order' = [order EXCEPT ![l] = Inserted(order[l], n, 1, m)]
  BY <1>1 DEF AddHead, Longer, Chained, Types
<1>4. Grown(l, n, 1, m) BY <1>1, <1>2, <1>3, Insertion
<1>5. Types' BY <1>4 DEF Chained, Types, AddHead, Grown
<1>6. (head[l] = Null /\ tail[l] = Null /\ n = 0) \/ (n # 0 /\ 1 \in 1..n /\ head[l] = order[l][1])
  BY <1>1 DEF Chained, AllLinked, Linked
<1>7. \A h \in Heads : \A i \in 1..length[h] : order[h][i] \in Nodes /\ order[h][i] # m
  BY <1>4 DEF Chained, Types, Grown
<1>8. ASSUME NEW h \in Heads \ {l} PROVE Linked(h)'
  <2>1. /\ head'[h] = head[h] /\ tail'[h] = tail[h]
        /\ order'[h] = order[h] /\ length'[h] = length[h]
    BY <1>4 DEF Chained, Types, AddHead, Grown
  <2>2. ASSUME NEW i \in 1..length[h] PROVE order[h][i] # m /\ order[h][i] # head[l]
    <3>1. CASE head[l] = Null BY <1>7, <3>1
    <3>2. CASE 1 \in 1..n /\ head[l] = order[l][1] BY <1>1, <1>7, <3>2 DEF Chained, Single
    <3> QED BY <3>1, <3>2, <1>6
  <2>3. \A i \in 1..length[h] : /\ succ'[order[h][i]] = succ[order[h][i]]
                                /\ pred'[order[h][i]] = pred[order[h][i]]
    BY <1>7, <2>2 DEF AddHead, Chained, Types
  <2> QED BY <2>1, <2>3, OtherList
<1>9. Linked(l)'
  <2>1. head'[l] = m /\ tail'[l] = IF n = 0 THEN m ELSE tail[l]
    <3>1. n # 0 => head[l] # Null BY <1>1, <1>6, <1>7
    <3> QED BY <1>6, <3>1 DEF AddHead, Chained, Types
  <2>2. succ'[m] = head[l] /\ pred'[m] = Null BY DEF AddHead, Chained, Types
  <2>3. ASSUME NEW i \in 1..n
        PROVE  /\ succ'[order[l][i]] = succ[order[l][i]]
               /\ pred'[order[l][i]] = IF i = 1 THEN m ELSE pred[order[l][i]]
    <3>1. order[l][i] \in Nodes /\ order[l][i] # m BY <1>1, <1>7
    <3>2. order[l][i] = head[l] <=> i = 1 BY <1>1, <1>6 DEF Chained, Single
    <3> QED BY <3>1, <3>2 DEF AddHead, Chained, Types
  <2>4. (n = 0 <=> 1 = n + 1) /\ \A i \in 1..n : i # 1 - 1 BY <1>1
  <2>5. Grows(l, n, 1, m) BY <1>4 DEF Grown, Grows
  <2> QED BY <1>1, <1>2, <1>6, <2>1, <2>2, <2>3, <2>4, <2>5, InsertedLinks
<1> QED BY <1>4, <1>5, <1>8, <1>9 DEF Chained, AllLinked, Grown

LEMMA AddTailKeeps ==
  ASSUME Chained, NEW m \in Nodes, NEW l \in Heads, AddTail(m, l)
  PROVE  Chained'
<1> USE NullIsNoNode
<1>1. PICK n \in Nat : n = length[l] BY DEF Chained, Types
<1>2. n + 1 \in 1..(n + 1) BY <1>1
<1>3. /\ length' = [length EXCEPT ![l] = n + 1]
      /\ order' = [order EXCEPT ![l] = Inserted(order[l], n, n + 1, m)]
  BY <1>1 DEF AddTail, Longer, Chained, Types
<1>4. Grown(l, n, n + 1, m) BY <1>1, <1>2, <1>3, Insertion DEF AddTail
<1>5. Types' BY <1>4 DEF Chained, Types, AddTail, Grown
<1>6. (head[l] = Null /\ tail[l] = Null /\ n = 0) \/ (n # 0 /\ n \in 1..n /\ tail[l] = order[l][n])
  BY <1>1 DEF Chained, AllLinked, Linked
<1>7. \A h \in Heads : \A i \in 1..length[h] : order[h][i] \in Nodes /\ order[h][i] # m
  BY <1>4 DEF Chained, Types, Grown
<1>8. ASSUME NEW h \in Heads \ {l} PROVE Linked(h)'
  <2>1. /\ head'[h] = head[h] /\ tail'[h] = tail[h]
        /\ order'[h] = order[h] /\ length'[h] = length[h]
    BY <1>4 DEF Chained, Types, AddTail, Grown
  <2>2. ASSUME NEW i \in 1..length[h] PROVE order[h][i] # m /\ order[h][i] # tail[l]
    <3>1. CASE tail[l] = Null BY <1>7, <3>1
    <3>2. CASE n \in 1..n /\ tail[l] = order[l][n] BY <1>1, <1>7, <3>2 DEF Chained, Single
    <3> QED BY <3>1, <3>2, <1>6
  <2>3. \A i \in 1..length[h] : /\ succ'[order[h][i]] = succ[order[h][i]]
                                /\ pred'[order[h][i]] = pred[order[h][i]]
    BY <1>7, <2>2 DEF AddTail, Chained, Types
  <2> QED BY <2>1, <2>3, OtherList
<1>9. Linked(l)'
  <2>1. tail'[l] = m /\ head'[l] = IF n = 0 THEN m ELSE head[l]
    <3>1. n # 0 => tail[l] # Null BY <1>1, <1>6, <1>7
    <3> QED BY <1>6, <3>1 DEF AddTail, Chained, Types
  <2>2. succ'[m] = Null /\ pred'[m] = tail[l] BY DEF AddTail, Chained, Types
  <2>3. ASSUME NEW i \in 1..n
        PROVE  /\ succ'[order[l][i]] = IF i = n THEN m ELSE succ[order[l][i]]
               /\ pred'[order[l][i]] = pred[order[l][i]]
    <3>1. order[l][i] \in Nodes /\ order[l][i] # m BY <1>1, <1>7
    <3>2. order[l][i] = tail[l] <=> i = n BY <1>1, <1>6 DEF Chained, Single
    <3> QED BY <3>1, <3>2 DEF AddTail, Chained, Types
  <2>4. (n = 0 <=> n + 1 = 1) /\ (n + 1) - 1 = n /\ \A i \in 1..n : i # n + 1 BY <1>1
  <2>5. Grows(l, n, n + 1, m) BY <1>4 DEF Grown, Grows
  <2>6. /\ head'[l] = IF n + 1 = 1 THEN m ELSE head[l]
        /\ tail'[l] = IF n + 1 = n + 1 THEN m ELSE tail[l]
        /\ succ'[m] = IF n + 1 = n + 1 THEN Null ELSE order[l][n + 1]
        /\ pred'[m] = IF n + 1 = 1 THEN Null ELSE order[l][(n + 1) - 1]
    BY <1>6, <2>1, <2>2, <2>4
  <2>7. \A i \in 1..n :
          /\ succ'[order[l][i]] = IF i = (n + 1) - 1 THEN m ELSE succ[order[l][i]]
          /\ pred'[order[l][i]] = IF i = n + 1 THEN m ELSE pred[order[l][i]]
    BY <2>3, <2>4
  <2> QED BY <1>1, <1>2, <2>5, <2>6, <2>7, InsertedLinks
<1> QED BY <1>4, <1>5, <1>8, <1>9 DEF Chained, AllLinked, Grown

LEMMA AddBeforeKeeps ==
  ASSUME Chained, NEW b \in Nodes, NEW m \in Nodes, NEW l \in Heads, AddBefore(b, m, l)
  PROVE  Chained'
<1> USE NullIsNoNode
<1>a. Loose(m) /\ In(b, l) BY DEF AddBefore
<1>b. CASE b = head[l] BY <1>a, <1>b, AddHeadKeeps DEF AddBefore
<1>c. CASE b # head[l]
  <2>1. PICK n \in Nat : n = length[l] BY DEF Chained, Types
  <2>2. PICK p \in 1..n : p = At(b, l) /\ order[l][p] = b BY <1>a, <2>1, Place
  <2>3. /\ length' = [length EXCEPT ![l] = n + 1]
        /\ order' = [order EXCEPT ![l] = Inserted(order[l], n, p, m)]
        /\ head' = head /\ tail' = tail
        /\ succ' = [x \in Nodes |-> IF x = m THEN b ELSE IF x = pred[b] THEN m ELSE succ[x]]
        /\ pred' = [x \in Nodes |-> IF x = m THEN pred[b] ELSE IF x = b THEN m ELSE pred[x]]
    BY <1>c, <2>1, <2>2 DEF AddBefore, Longer, Chained, Types
  <2>4. p \in 1..(n + 1) /\ p # n + 1 BY <2>1
  <2>5. Grown(l, n, p, m) BY <1>a, <2>1, <2>3, <2>4, Insertion
  <2>6. pred[b] \in Nodes \cup {Null} BY DEF Chained, Types
  <2>7. Types' BY <2>3, <2>5, <2>6 DEF Chained, Types, Grown
  <2>8. p # 1 /\ p - 1 \in 1..n /\ pred[b] = order[l][p - 1]
    BY <1>c, <2>1, <2>2 DEF Chained, AllLinked, Linked
  <2>9. \A h \in Heads : \A i \in 1..length[h] : order[h][i] \in Nodes /\ order[h][i] # m
    BY <2>5 DEF Chained, Types, Grown
  <2>10. ASSUME NEW h \in Heads \ {l} PROVE Linked(h)'
    <3>1. order'[h] = order[h] /\ length'[h] = length[h] /\ head'[h] = head[h] /\ tail'[h] = tail[h]
      BY <2>3, <2>5 DEF Grown
    <3>2. \A i \in 1..length[h] : order[h][i] # b /\ order[h][i] # pred[b]
      BY <2>1, <2>2, <2>8 DEF Chained, Single
    <3>3. \A i \in 1..length[h] : /\ succ'[order[h][i]] = succ[order[h][i]]
                                  /\ pred'[order[h][i]] = pred[order[h][i]]
      BY <2>3, <2>9, <3>2
    <3> QED BY <3>1, <3>3, OtherList
  <2>11. Linked(l)'
    <3>1. succ'[m] = order[l][p] /\ pred'[m] = order[l][p - 1] BY <2>2, <2>3, <2>8
    <3>2. ASSUME NEW i \in 1..n
          PROVE  /\ succ'[order[l][i]] = IF i = p - 1 THEN m ELSE succ[order[l][i]]
                 /\ pred'[order[l][i]] = IF i = p THEN m ELSE pred[order[l][i]]
      <4>1. order[l][i] \in Nodes /\ order[l][i] # m BY <2>1, <2>9
      <4>2. (order[l][i] = b <=> i = p) /\ (order[l][i] = pred[b] <=> i = p - 1)
        BY <2>1, <2>2, <2>8 DEF Chained, Single
      <4> QED BY <2>3, <4>1, <4>2
    <3>3. Grows(l, n, p, m) BY <2>5 DEF Grown, Grows
    <3> QED BY <2>1, <2>3, <2>4, <2>8, <3>1, <3>2, <3>3, InsertedLinks
  <2> QED BY <2>5, <2>7, <2>10, <2>11 DEF Chained, AllLinked, Grown
<1> QED BY <1>b, <1>c

\* What it is that l, of n nodes, does not have the one in the place p any more
Shrunk(l, n, p) ==
  /\ n \in Nat /\ length'[l] = n - 1
  /\ order'[l] \in [1..(n - 1) -> Nodes]
  /\ \A i \in 1..(p - 1) : order'[l][i] = order[l][i]
  /\ \A i \in p..(n - 1) : i + 1 \in 1..n /\ order'[l][i] = order[l][i + 1]

LEMMA Removal ==
  ASSUME Chained, NEW l \in Heads, NEW n, n = length[l], NEW p \in 1..n,
         length'[l] = n - 1, order'[l] = Removed(order[l], n, p)
  PROVE  Shrunk(l, n, p)
<1>1. n \in Nat BY DEF Chained, Types
<1>2. order'[l] = [k \in 1..(n - 1) |-> IF k < p THEN order[l][k] ELSE order[l][k + 1]]
  BY DEF Removed
<1>3. \A i \in 1..(p - 1) : i \in 1..(n - 1) /\ order'[l][i] = order[l][i] BY <1>1, <1>2
<1>4. \A i \in p..(n - 1) : i + 1 \in 1..n /\ order'[l][i] = order[l][i + 1] BY <1>1, <1>2
<1>5. \A i \in 1..(n - 1) : (i \in 1..(p - 1) /\ i \in 1..n) \/ i \in p..(n - 1) BY <1>1
<1>6. \A i \in 1..n : order[l][i] \in Nodes BY DEF Chained, Types
<1>7. \A i \in 1..(n - 1) : order'[l][i] \in Nodes BY <1>3, <1>4, <1>5, <1>6
<1>8. order'[l] \in [1..(n - 1) -> Nodes] BY <1>2, <1>7
<1> QED BY <1>1, <1>3, <1>4, <1>8 DEF Shrunk

\* Where the nodes that remain were
LEMMA Remaining ==
  ASSUME NEW l, NEW n, NEW p \in 1..n, Shrunk(l, n, p), NEW i \in 1..(n - 1)
  PROVE  \E j \in 1..n : /\ j # p /\ order'[l][i] = order[l][j]
                         /\ j = IF i < p THEN i ELSE i + 1
<1>1. n \in Nat BY DEF Shrunk
<1>2. CASE i < p
  <2>1. i \in 1..(p - 1) /\ i \in 1..n /\ i # p BY <1>1, <1>2
  <2> QED BY <1>2, <2>1 DEF Shrunk
<1>3. CASE ~(i < p)
  <2>1. i \in p..(n - 1) /\ i + 1 \in 1..n /\ i + 1 # p BY <1>1, <1>3
  <2> QED BY <1>3, <2>1 DEF Shrunk
<1> QED BY <1>2, <1>3

\* The pointers when the node in the place p goes
LEMMA RemovedLinks ==
  ASSUME Chained, NEW l \in Heads, NEW n, n = length[l], NEW p \in 1..n, Shrunk(l, n, p),
         head'[l] = (IF p = 1 THEN succ[order[l][p]] ELSE head[l]),
         tail'[l] = (IF p = n THEN pred[order[l][p]] ELSE tail[l]),
         \A i \in 1..n : i # p =>
           /\ succ'[order[l][i]] = IF i = p - 1 THEN succ[order[l][p]] ELSE succ[order[l][i]]
           /\ pred'[order[l][i]] = IF i = p + 1 THEN pred[order[l][p]] ELSE pred[order[l][i]]
  PROVE  Linked(l)'
<1>1. /\ n \in Nat /\ length'[l] = n - 1
      /\ \A i \in 1..(p - 1) : order'[l][i] = order[l][i]
      /\ \A i \in p..(n - 1) : i + 1 \in 1..n /\ order'[l][i] = order[l][i + 1]
  BY DEF Shrunk
<1>2. /\ head[l] = order[l][1] /\ tail[l] = order[l][n]
      /\ \A i \in 1..n : /\ succ[order[l][i]] = IF i = n THEN Null ELSE order[l][i + 1]
                         /\ pred[order[l][i]] = IF i = 1 THEN Null ELSE order[l][i - 1]
  BY <1>1 DEF Chained, AllLinked, Linked
<1>3. head'[l] = IF n - 1 = 0 THEN Null ELSE order'[l][1]
  <2>1. CASE p # 1
    <3>1. 1 \in 1..(p - 1) /\ n - 1 # 0 BY <2>1, <1>1
    <3> QED BY <3>1, <2>1, <1>1, <1>2
  <2>2. CASE p = 1
    <3>1. head'[l] = IF n = 1 THEN Null ELSE order[l][2] BY <2>2, <1>1, <1>2
    <3>2. n # 1 => order'[l][1] = order[l][2]
      <4>1. n # 1 => 1 \in p..(n - 1) /\ 1 + 1 = 2 BY <2>2, <1>1
      <4> QED BY <4>1, <1>1
    <3>3. n = 1 <=> n - 1 = 0 BY <1>1
    <3> QED BY <3>1, <3>2, <3>3
  <2> QED BY <2>1, <2>2
<1>4. tail'[l] = IF n - 1 = 0 THEN Null ELSE order'[l][n - 1]
  <2>1. CASE p # n
    <3>1. n - 1 \in p..(n - 1) /\ n - 1 # 0 /\ (n - 1) + 1 = n BY <2>1, <1>1
    <3> QED BY <3>1, <2>1, <1>1, <1>2
  <2>2. CASE p = n
    <3>1. tail'[l] = IF n = 1 THEN Null ELSE order[l][n - 1] BY <2>2, <1>1, <1>2
    <3>2. n # 1 => n - 1 \in 1..(p - 1) BY <2>2, <1>1
    <3>3. n = 1 <=> n - 1 = 0 BY <1>1
    <3> QED BY <3>1, <3>2, <3>3, <1>1
  <2> QED BY <2>1, <2>2
<1>5. ASSUME NEW i \in 1..(n - 1)
      PROVE  /\ succ'[order'[l][i]] = IF i = n - 1 THEN Null ELSE order'[l][i + 1]
             /\ pred'[order'[l][i]] = IF i = 1 THEN Null ELSE order'[l][i - 1]
  <2>1. CASE i \in 1..(p - 1)
    <3>1. i \in 1..n /\ i # p /\ i # n /\ i # p + 1 /\ order'[l][i] = order[l][i] BY <2>1, <1>1
    <3>2. succ'[order[l][i]] = IF i = n - 1 THEN Null ELSE order'[l][i + 1]
      <4>1. CASE i = p - 1
        <5>1. succ'[order[l][i]] = IF p = n THEN Null ELSE order[l][p + 1] BY <4>1, <3>1, <1>2
        <5>2. p # n => p \in p..(n - 1) /\ i + 1 = p BY <4>1, <1>1
        <5>3. p = n <=> i = n - 1 BY <4>1, <1>1
        <5> QED BY <5>1, <5>2, <5>3, <1>1
      <4>2. CASE i # p - 1
        <5>1. i + 1 \in 1..(p - 1) /\ i # n - 1 BY <4>2, <2>1, <1>1
        <5> QED BY <5>1, <4>2, <3>1, <1>1, <1>2
      <4> QED BY <4>1, <4>2
    <3>3. pred'[order[l][i]] = IF i = 1 THEN Null ELSE order'[l][i - 1]
      <4>1. i # 1 => i - 1 \in 1..(p - 1) BY <2>1, <1>1
      <4> QED BY <4>1, <3>1, <1>1, <1>2
    <3> QED BY <3>1, <3>2, <3>3
  <2>2. CASE i \in p..(n - 1)
    <3> DEFINE j == i + 1
    <3>1. j \in 1..n /\ j # p /\ j # p - 1 /\ j # 1 /\ order'[l][i] = order[l][j] BY <2>2, <1>1
    <3>2. succ'[order[l][j]] = IF i = n - 1 THEN Null ELSE order'[l][i + 1]
      <4>1. i # n - 1 => i + 1 \in p..(n - 1) BY <2>2, <1>1
      <4>2. i = n - 1 <=> j = n BY <1>1
      <4> QED BY <4>1, <4>2, <3>1, <1>1, <1>2
    <3>3. pred'[order[l][j]] = IF i = 1 THEN Null ELSE order'[l][i - 1]
      <4>1. CASE i = p
        <5>1. pred'[order[l][j]] = IF p = 1 THEN Null ELSE order[l][p - 1] BY <4>1, <3>1, <1>2
        <5>2. p # 1 => p - 1 \in 1..(p - 1) BY <1>1
        <5> QED BY <5>1, <5>2, <4>1, <1>1
      <4>2. CASE i # p
        <5>1. i - 1 \in p..(n - 1) /\ (i - 1) + 1 = i /\ j # p + 1 /\ j - 1 = i /\ i # 1
          BY <4>2, <2>2, <1>1
        <5>2. order'[l][i - 1] = order[l][i] BY <5>1, <1>1
        <5> QED BY <5>1, <5>2, <3>1, <1>2
      <4> QED BY <4>1, <4>2
    <3> QED BY <3>1, <3>2, <3>3
  <2> QED BY <2>1, <2>2, <1>1
<1> QED BY <1>1, <1>3, <1>4, <1>5 DEF Linked

\* Nodes of a list that lost one are still in one place, and those of two lists apart
LEMMA StillOnce ==
  ASSUME Chained, NEW l \in Heads, NEW n, n = length[l], NEW p \in 1..n, Shrunk(l, n, p)
  PROVE  /\ \A i, j \in 1..(n - 1) : order'[l][i] = order'[l][j] => i = j
         /\ \A i \in 1..(n - 1) : /\ order'[l][i] # order[l][p]
                                  /\ \A k \in Heads \ {l} : \A j \in 1..length[k] :
                                       order'[l][i] # order[k][j]
<1>1. n \in Nat BY DEF Shrunk
<1>2. ASSUME NEW i \in 1..(n - 1), NEW j \in 1..(n - 1), order'[l][i] = order'[l][j]
      PROVE  i = j
  <2>1. PICK a \in 1..n : order'[l][i] = order[l][a] /\ a = IF i < p THEN i ELSE i + 1 BY Remaining
  <2>2. PICK b \in 1..n : order'[l][j] = order[l][b] /\ b = IF j < p THEN j ELSE j + 1 BY Remaining
  <2>3. order[l][a] = order[l][b] BY <1>2, <2>1, <2>2
  <2>4. a = b BY <2>3 DEF Chained, Single
  <2> QED BY <2>1, <2>2, <2>4, <1>1
<1>3. ASSUME NEW i \in 1..(n - 1)
      PROVE  /\ order'[l][i] # order[l][p]
             /\ \A k \in Heads \ {l} : \A j \in 1..length[k] : order'[l][i] # order[k][j]
  <2>1. PICK a \in 1..n : a # p /\ order'[l][i] = order[l][a] BY Remaining
  <2> QED BY <2>1 DEF Chained, Single
<1> QED BY <1>2, <1>3

LEMMA DeleteKeeps ==
  ASSUME Chained, NEW m \in Nodes, NEW l \in Heads, Delete(m, l)
  PROVE  Chained'
<1> USE NullIsNoNode
<1>1. PICK n \in Nat : n = length[l] BY DEF Chained, Types
<1>2. PICK p \in 1..n : p = At(m, l) /\ order[l][p] = m BY <1>1, Place DEF Delete
<1>3. /\ length' = [length EXCEPT ![l] = n - 1]
      /\ order' = [order EXCEPT ![l] = Removed(order[l], n, p)]
  BY <1>1, <1>2 DEF Delete, Shorter, Chained, Types
<1>4. /\ length'[l] = n - 1 /\ order'[l] = Removed(order[l], n, p)
      /\ \A h \in Heads \ {l} : order'[h] = order[h] /\ length'[h] = length[h]
      /\ DOMAIN order' = Heads
  BY <1>3 DEF Chained, Types
<1>5. Shrunk(l, n, p) BY <1>1, <1>4, Removal
<1>6. n - 1 \in Nat BY <1>1, <1>2
<1>7. succ[m] \in Nodes \cup {Null} /\ pred[m] \in Nodes \cup {Null} BY DEF Chained, Types
<1>8. Types'
  <2>1. length' \in [Heads -> Nat] BY <1>3, <1>6 DEF Chained, Types
  <2>2. \A h \in Heads : order'[h] \in [1..length'[h] -> Nodes]
    BY <1>4, <1>5 DEF Shrunk, Chained, Types
  <2>3. /\ succ' \in [Nodes -> Nodes \cup {Null}] /\ pred' \in [Nodes -> Nodes \cup {Null}]
        /\ head' \in [Heads -> Nodes \cup {Null}] /\ tail' \in [Heads -> Nodes \cup {Null}]
    BY <1>7 DEF Delete, Chained, Types
  <2> QED BY <1>4, <2>1, <2>2, <2>3 DEF Types
<1>9. Single'
  <2>1. ASSUME NEW h \in Heads, NEW k \in Heads, NEW i \in 1..length'[h], NEW j \in 1..length'[k],
               order'[h][i] = order'[k][j]
        PROVE  h = k /\ i = j
    <3>1. CASE h = l /\ k = l BY <1>1, <1>4, <1>5, <2>1, <3>1, StillOnce
    <3>2. CASE h = l /\ k # l BY <1>1, <1>4, <1>5, <2>1, <3>2, StillOnce
    <3>3. CASE h # l /\ k = l BY <1>1, <1>4, <1>5, <2>1, <3>3, StillOnce
    <3>4. CASE h # l /\ k # l BY <1>4, <2>1, <3>4 DEF Chained, Single
    <3> QED BY <3>1, <3>2, <3>3, <3>4
  <2> QED BY <2>1 DEF Single
<1>10. succ[m] = (IF p = n THEN Null ELSE order[l][p + 1]) /\ pred[m] = IF p = 1 THEN Null ELSE order[l][p - 1]
  BY <1>1, <1>2 DEF Chained, AllLinked, Linked
<1>11. /\ p # n => p + 1 \in 1..n
       /\ p # 1 => p - 1 \in 1..n
  BY <1>1
<1>12. \A h \in Heads : \A i \in 1..length[h] : order[h][i] \in Nodes BY DEF Chained, Types
<1>13. (succ[m] = Null <=> p = n) /\ (pred[m] = Null <=> p = 1)
  BY <1>1, <1>10, <1>11, <1>12
<1>14. ASSUME NEW h \in Heads \ {l} PROVE Linked(h)'
  <2>1. head'[h] = head[h] /\ tail'[h] = tail[h] BY DEF Delete, Chained, Types
  <2>2. ASSUME NEW i \in 1..length[h]
        PROVE  order[h][i] # m /\ order[h][i] # succ[m] /\ order[h][i] # pred[m]
    BY <1>1, <1>2, <1>10, <1>11, <1>12 DEF Chained, Single
  <2>3. \A i \in 1..length[h] : /\ succ'[order[h][i]] = succ[order[h][i]]
                                /\ pred'[order[h][i]] = pred[order[h][i]]
    BY <1>12, <2>2 DEF Delete
  <2> QED BY <1>4, <2>1, <2>3, OtherList
<1>15. Linked(l)'
  <2>1. /\ head'[l] = IF p = 1 THEN succ[order[l][p]] ELSE head[l]
        /\ tail'[l] = IF p = n THEN pred[order[l][p]] ELSE tail[l]
    BY <1>2, <1>13 DEF Delete, Chained, Types
  <2>2. ASSUME NEW i \in 1..n, i # p
        PROVE  /\ succ'[order[l][i]] = IF i = p - 1 THEN succ[order[l][p]] ELSE succ[order[l][i]]
               /\ pred'[order[l][i]] = IF i = p + 1 THEN pred[order[l][p]] ELSE pred[order[l][i]]
    <3>1. order[l][i] \in Nodes /\ order[l][i] # m BY <1>1, <1>2, <1>12, <2>2 DEF Chained, Single
    <3>2. order[l][i] = succ[m] <=> i = p + 1
      <4>1. CASE p = n BY <4>1, <3>1, <1>10, <1>1
      <4>2. CASE p # n BY <4>2, <1>1, <1>10, <1>11 DEF Chained, Single
      <4> QED BY <4>1, <4>2
    <3>3. order[l][i] = pred[m] <=> i = p - 1
      <4>1. CASE p = 1 BY <4>1, <3>1, <1>10, <1>1
      <4>2. CASE p # 1 BY <4>2, <1>1, <1>10, <1>11 DEF Chained, Single
      <4> QED BY <4>1, <4>2
    <3> QED BY <3>1, <3>2, <3>3, <1>2 DEF Delete
  <2> QED BY <1>1, <1>5, <2>1, <2>2, RemovedLinks
<1> QED BY <1>8, <1>9, <1>14, <1>15 DEF Chained, AllLinked

LEMMA MoveNodeKeeps ==
  ASSUME Chained, NEW m \in Nodes, NEW l \in Heads, NEW k \in Heads, MoveNode(m, l, k)
  PROVE  Chained'
<1> USE NullIsNoNode
<1>1. PICK n \in Nat : n = length[l] BY DEF Chained, Types
<1>2. PICK q \in Nat : q = length[k] BY DEF Chained, Types
<1>3. PICK p \in 1..n : p = At(m, l) /\ order[l][p] = m BY <1>1, Place DEF MoveNode
<1>4. k # l BY DEF MoveNode
<1>5. /\ length'[l] = n - 1 /\ order'[l] = Removed(order[l], n, p)
      /\ length'[k] = q + 1 /\ order'[k] = Inserted(order[k], q, 1, m)
      /\ \A h \in Heads \ {l, k} : order'[h] = order[h] /\ length'[h] = length[h]
      /\ DOMAIN order' = Heads
  BY <1>1, <1>2, <1>3, <1>4 DEF MoveNode, Chained, Types
<1>6. Shrunk(l, n, p) BY <1>1, <1>5, Removal
<1>7. order'[k] = [i \in 1..(q + 1) |-> IF i < 1 THEN order[k][i] ELSE IF i = 1 THEN m
                                        ELSE order[k][i - 1]]
  BY <1>5 DEF Inserted
<1>8. /\ \A i \in 2..(q + 1) : i - 1 \in 1..q /\ order'[k][i] = order[k][i - 1]
      /\ order'[k][1] = m
      /\ \A i \in 1..(q + 1) : i = 1 \/ i \in 2..(q + 1)
  BY <1>2, <1>7
<1>9. \A h \in Heads : \A i \in 1..length[h] : order[h][i] \in Nodes BY DEF Chained, Types
<1>10. order'[k] \in [1..(q + 1) -> Nodes]
  <2>1. \A i \in 1..(q + 1) : order'[k][i] \in Nodes BY <1>2, <1>8, <1>9
  <2> QED BY <2>1, <1>7
<1>11. Types'
  <2>1. n - 1 \in Nat /\ q + 1 \in Nat BY <1>1, <1>3
  <2>2. length' \in [Heads -> Nat] BY <1>1, <1>2, <2>1 DEF MoveNode, Chained, Types
  <2>3. \A h \in Heads : order'[h] \in [1..length'[h] -> Nodes]
    BY <1>5, <1>6, <1>10 DEF Shrunk, Chained, Types
  <2>4. /\ succ' \in [Nodes -> Nodes \cup {Null}] /\ pred' \in [Nodes -> Nodes \cup {Null}]
    BY DEF MoveNode, Chained, Types
  <2>5. head' \in [Heads -> Nodes \cup {Null}] /\ tail' \in [Heads -> Nodes \cup {Null}]
    BY DEF MoveNode, Chained, Types
  <2> QED BY <1>5, <2>2, <2>3, <2>4, <2>5 DEF Types
<1>12. Single'
  <2>1. \A h \in Heads \ {l, k} : \A i \in 1..length[h] : order[h][i] # m
    BY <1>1, <1>3 DEF Chained, Single
  <2>2. ASSUME NEW i \in 1..(q + 1), NEW h \in Heads \ {l, k}, NEW j \in 1..length[h]
        PROVE  order'[k][i] # order[h][j]
    BY <1>2, <1>8, <2>1 DEF Chained, Single
  <2>3. ASSUME NEW i \in 1..(q + 1), NEW j \in 1..(n - 1)
        PROVE  order'[k][i] # order'[l][j]
    BY <1>1, <1>2, <1>3, <1>4, <1>6, <1>8, StillOnce
  <2>4. \A i \in 1..q : order[k][i] # m BY <1>1, <1>2, <1>3, <1>4 DEF Chained, Single
  <2>5. ASSUME NEW i \in 2..(q + 1), NEW j \in 2..(q + 1), order'[k][i] = order'[k][j]
        PROVE  i = j
    <3>1. order[k][i - 1] = order[k][j - 1] BY <1>8, <2>5
    <3>2. i - 1 = j - 1 BY <1>2, <1>8, <3>1 DEF Chained, Single
    <3> QED BY <3>2, <1>2
  <2>6. ASSUME NEW i \in 1..(q + 1), NEW j \in 1..(q + 1), order'[k][i] = order'[k][j]
        PROVE  i = j
    BY <1>8, <2>4, <2>5, <2>6
  <2>7. ASSUME NEW h \in Heads, NEW g \in Heads, NEW i \in 1..length'[h], NEW j \in 1..length'[g],
               order'[h][i] = order'[g][j]
        PROVE  h = g /\ i = j
    <3>1. CASE h = k /\ g = k BY <1>5, <2>6, <2>7, <3>1
    <3>2. CASE h = l /\ g = l
      <4>1. i \in 1..(n - 1) /\ j \in 1..(n - 1) /\ order'[l][i] = order'[l][j]
        BY <1>5, <2>7, <3>2
      <4>2. \A a, b \in 1..(n - 1) : order'[l][a] = order'[l][b] => a = b
        BY <1>1, <1>6, StillOnce, SMTT(30)
      <4> QED BY <3>2, <4>1, <4>2
    <3>3. CASE (h = k /\ g = l) \/ (h = l /\ g = k) BY <1>5, <2>3, <2>7, <3>3
    <3>4. CASE (h = k /\ g \notin {l, k}) \/ (g = k /\ h \notin {l, k})
      BY <1>5, <2>2, <2>7, <3>4
    <3>5. CASE (h = l /\ g \notin {l, k}) \/ (g = l /\ h \notin {l, k})
      BY <1>1, <1>5, <1>6, <2>7, <3>5, StillOnce
    <3>6. CASE h \notin {l, k} /\ g \notin {l, k} BY <1>5, <2>7, <3>6 DEF Chained, Single
    <3> QED BY <3>1, <3>2, <3>3, <3>4, <3>5, <3>6
  <2> QED BY <2>7 DEF Single
<1>13. /\ succ[m] = IF p = n THEN Null ELSE order[l][p + 1]
       /\ pred[m] = IF p = 1 THEN Null ELSE order[l][p - 1]
       /\ p # n => p + 1 \in 1..n
       /\ p # 1 => p - 1 \in 1..n
  BY <1>1, <1>3 DEF Chained, AllLinked, Linked
<1>14. (succ[m] = Null <=> p = n) /\ (pred[m] = Null <=> p = 1) BY <1>1, <1>9, <1>13
<1>15. (head[k] = Null /\ tail[k] = Null /\ q = 0) \/ (q # 0 /\ 1 \in 1..q /\ head[k] = order[k][1])
  BY <1>2 DEF Chained, AllLinked, Linked
<1>16. ASSUME NEW h \in Heads \ {l}, NEW i \in 1..length[h]
       PROVE  order[h][i] # m /\ order[h][i] # succ[m] /\ order[h][i] # pred[m]
  BY <1>1, <1>3, <1>9, <1>13 DEF Chained, Single
<1>17. ASSUME NEW h \in Heads \ {k}, NEW i \in 1..length[h]
       PROVE  order[h][i] # head[k]
  BY <1>2, <1>9, <1>15 DEF Chained, Single
<1>18. ASSUME NEW h \in Heads \ {l, k} PROVE Linked(h)'
  <2>1. head'[h] = head[h] /\ tail'[h] = tail[h] BY DEF MoveNode, Chained, Types
  <2>2. \A i \in 1..length[h] : /\ succ'[order[h][i]] = succ[order[h][i]]
                                /\ pred'[order[h][i]] = pred[order[h][i]]
    BY <1>9, <1>16, <1>17 DEF MoveNode
  <2> QED BY <1>5, <2>1, <2>2, OtherList
<1>19. Linked(k)'
  <2>1. Grows(k, q, 1, m)
    <3>1. \A i \in 1..(1 - 1) : i \in 1..q /\ order'[k][i] = order[k][i] OBVIOUS
    <3>2. 1 + 1 = 2 OBVIOUS
    <3> QED BY <1>5, <1>8, <3>1, <3>2 DEF Grows
  <2>2. q # 0 => head[k] # Null BY <1>2, <1>9, <1>15
  <2>3. head'[k] = m /\ tail'[k] = IF q = 0 THEN m ELSE tail[k]
    BY <1>4, <1>15, <2>2 DEF MoveNode, Chained, Types
  <2>4. succ'[m] = head[k] /\ pred'[m] = Null BY DEF MoveNode, Chained, Types
  <2>5. ASSUME NEW i \in 1..q
        PROVE  /\ succ'[order[k][i]] = succ[order[k][i]]
               /\ pred'[order[k][i]] = IF i = 1 THEN m ELSE pred[order[k][i]]
    <3>1. order[k][i] \in Nodes BY <1>2, <1>9
    <3>2. order[k][i] # m /\ order[k][i] # succ[m] /\ order[k][i] # pred[m] BY <1>2, <1>4, <1>16
    <3>3. order[k][i] = head[k] <=> i = 1 BY <1>2, <1>15 DEF Chained, Single
    <3> QED BY <3>1, <3>2, <3>3 DEF MoveNode
  <2>6. 1 \in 1..(q + 1) /\ (q = 0 <=> 1 = q + 1) /\ \A i \in 1..q : i # 1 - 1 BY <1>2
  <2>7. head[k] = IF 1 = q + 1 THEN Null ELSE order[k][1] BY <1>15, <2>6
  <2> QED BY <1>2, <2>1, <2>3, <2>4, <2>5, <2>6, <2>7, InsertedLinks
<1>20. Linked(l)'
  <2>1. /\ head'[l] = IF p = 1 THEN succ[order[l][p]] ELSE head[l]
        /\ tail'[l] = IF p = n THEN pred[order[l][p]] ELSE tail[l]
    BY <1>3, <1>4, <1>14 DEF MoveNode, Chained, Types
  <2>2. ASSUME NEW i \in 1..n, i # p
        PROVE  /\ succ'[order[l][i]] = IF i = p - 1 THEN succ[order[l][p]] ELSE succ[order[l][i]]
               /\ pred'[order[l][i]] = IF i = p + 1 THEN pred[order[l][p]] ELSE pred[order[l][i]]
    <3>1. order[l][i] \in Nodes /\ order[l][i] # m BY <1>1, <1>3, <1>9, <2>2 DEF Chained, Single
    <3>2. order[l][i] = succ[m] <=> i = p + 1
      <4>1. CASE p = n BY <4>1, <3>1, <1>13, <1>1
      <4>2. CASE p # n BY <4>2, <1>1, <1>13 DEF Chained, Single
      <4> QED BY <4>1, <4>2
    <3>3. order[l][i] = pred[m] <=> i = p - 1
      <4>1. CASE p = 1 BY <4>1, <3>1, <1>13, <1>1
      <4>2. CASE p # 1 BY <4>2, <1>1, <1>13 DEF Chained, Single
      <4> QED BY <4>1, <4>2
    <3>4. order[l][i] # head[k] BY <1>1, <1>4, <1>17
    <3> QED BY <3>1, <3>2, <3>3, <3>4, <1>3 DEF MoveNode
  <2> QED BY <1>1, <1>6, <2>1, <2>2, RemovedLinks
<1> QED BY <1>11, <1>12, <1>18, <1>19, <1>20 DEF Chained, AllLinked

LEMMA MoveListKeeps ==
  ASSUME Chained, NEW l \in Heads, NEW k \in Heads, MoveList(l, k)
  PROVE  Chained'
<1> USE NullIsNoNode
<1>1. PICK n \in Nat : n = length[l] BY DEF Chained, Types
<1>2. PICK q \in Nat : q = length[k] BY DEF Chained, Types
<1>3. k # l /\ n # 0 BY <1>1 DEF MoveList, Chained, AllLinked, Linked
<1>4. /\ length'[l] = 0 /\ order'[l] = [i \in 1..0 |-> Null]
      /\ length'[k] = n + q /\ order'[k] = Joined(order[l], n, order[k], q)
      /\ \A h \in Heads \ {l, k} : order'[h] = order[h] /\ length'[h] = length[h]
      /\ DOMAIN order' = Heads
  BY <1>1, <1>2, <1>3 DEF MoveList, Chained, Types
<1>5. order'[k] = [i \in 1..(n + q) |-> IF i <= n THEN order[l][i] ELSE order[k][i - n]]
  BY <1>4 DEF Joined
<1>6. /\ \A i \in 1..n : i \in 1..(n + q) /\ order'[k][i] = order[l][i]
      /\ \A i \in (n + 1)..(n + q) : i - n \in 1..q /\ order'[k][i] = order[k][i - n]
      /\ \A i \in 1..(n + q) : i \in 1..n \/ i \in (n + 1)..(n + q)
  BY <1>1, <1>2, <1>5, SMTT(30)
<1>7. \A h \in Heads : \A i \in 1..length[h] : order[h][i] \in Nodes BY DEF Chained, Types
<1>8. Types'
  <2>1. length' \in [Heads -> Nat] BY <1>1, <1>2 DEF MoveList, Chained, Types
  <2>2. \A i \in 1..(n + q) : order'[k][i] \in Nodes BY <1>1, <1>2, <1>6, <1>7
  <2>3. order'[k] \in [1..(n + q) -> Nodes] BY <1>5, <2>2
  <2>4. order'[l] \in [1..0 -> Nodes] BY <1>4
  <2>5. \A h \in Heads : order'[h] \in [1..length'[h] -> Nodes]
    BY <1>4, <2>3, <2>4 DEF Chained, Types
  <2>6. /\ succ' \in [Nodes -> Nodes \cup {Null}] /\ pred' \in [Nodes -> Nodes \cup {Null}]
    BY DEF MoveList, Chained, Types
  <2>7. head' \in [Heads -> Nodes \cup {Null}] /\ tail' \in [Heads -> Nodes \cup {Null}]
    BY DEF MoveList, Chained, Types
  <2> QED BY <1>4, <2>1, <2>5, <2>6, <2>7 DEF Types
<1>9. Single'
  <2>1. ASSUME NEW i \in (n + 1)..(n + q), NEW j \in (n + 1)..(n + q), order'[k][i] = order'[k][j]
        PROVE  i = j
    <3>1. order[k][i - n] = order[k][j - n] BY <1>6, <2>1
    <3>2. i - n = j - n BY <1>2, <1>6, <3>1 DEF Chained, Single
    <3> QED BY <3>2, <1>1, <1>2
  <2>2. ASSUME NEW i \in 1..n, NEW j \in 1..n, order'[k][i] = order'[k][j]
        PROVE  i = j
    BY <1>1, <1>6, <2>2 DEF Chained, Single
  <2>3. ASSUME NEW i \in 1..n, NEW j \in (n + 1)..(n + q)
        PROVE  order'[k][i] # order'[k][j]
    BY <1>1, <1>2, <1>3, <1>6 DEF Chained, Single
  <2>4. ASSUME NEW i \in 1..(n + q), NEW j \in 1..(n + q), order'[k][i] = order'[k][j]
        PROVE  i = j
    BY <1>6, <2>1, <2>2, <2>3, <2>4
  <2>5. ASSUME NEW i \in 1..(n + q), NEW h \in Heads \ {l, k}, NEW j \in 1..length[h]
        PROVE  order'[k][i] # order[h][j]
    <3>1. CASE i \in 1..n BY <1>1, <1>6, <3>1 DEF Chained, Single
    <3>2. CASE i \in (n + 1)..(n + q) BY <1>2, <1>6, <3>2 DEF Chained, Single
    <3> QED BY <1>6, <3>1, <3>2
  <2>6. ASSUME NEW h \in Heads, NEW g \in Heads, NEW i \in 1..length'[h], NEW j \in 1..length'[g],
               order'[h][i] = order'[g][j]
        PROVE  h = g /\ i = j
    <3>1. h # l /\ g # l BY <1>4
    <3>2. CASE h = k /\ g = k BY <1>4, <2>4, <2>6, <3>2
    <3>3. CASE (h = k /\ g # k) \/ (g = k /\ h # k) BY <1>4, <2>5, <2>6, <3>1, <3>3
    <3>4. CASE h # k /\ g # k BY <1>4, <2>6, <3>1, <3>4 DEF Chained, Single
    <3> QED BY <3>2, <3>3, <3>4
  <2> QED BY <2>6 DEF Single
<1>10. /\ head[l] = order[l][1] /\ tail[l] = order[l][n] /\ 1 \in 1..n /\ n \in 1..n
       /\ \A i \in 1..n : /\ succ[order[l][i]] = IF i = n THEN Null ELSE order[l][i + 1]
                          /\ pred[order[l][i]] = IF i = 1 THEN Null ELSE order[l][i - 1]
  BY <1>1, <1>3 DEF Chained, AllLinked, Linked
<1>11. /\ head[k] = IF q = 0 THEN Null ELSE order[k][1]
       /\ tail[k] = IF q = 0 THEN Null ELSE order[k][q]
       /\ q # 0 => 1 \in 1..q /\ q \in 1..q
       /\ \A i \in 1..q : /\ succ[order[k][i]] = IF i = q THEN Null ELSE order[k][i + 1]
                          /\ pred[order[k][i]] = IF i = 1 THEN Null ELSE order[k][i - 1]
  BY <1>2 DEF Chained, AllLinked, Linked
<1>12. head[k] = Null <=> q = 0 BY <1>2, <1>7, <1>11
<1>13. ASSUME NEW h \in Heads \ {l, k} PROVE Linked(h)'
  <2>1. head'[h] = head[h] /\ tail'[h] = tail[h] BY DEF MoveList, Chained, Types
  <2>2. ASSUME NEW i \in 1..length[h]
        PROVE  order[h][i] # tail[l] /\ order[h][i] # head[l] /\ order[h][i] # head[k]
    BY <1>1, <1>2, <1>7, <1>10, <1>11 DEF Chained, Single
  <2>3. \A i \in 1..length[h] : /\ succ'[order[h][i]] = succ[order[h][i]]
                                /\ pred'[order[h][i]] = pred[order[h][i]]
    BY <1>7, <2>2 DEF MoveList
  <2> QED BY <1>4, <2>1, <2>3, OtherList
<1>14. Linked(l)'
  <2>1. head'[l] = Null /\ tail'[l] = Null BY <1>3 DEF MoveList, Chained, Types
  <2> QED BY <1>4, <2>1 DEF Linked
<1>15. Linked(k)'
  <2>1. head'[k] = head[l] /\ tail'[k] = IF q = 0 THEN tail[l] ELSE tail[k]
    BY <1>3, <1>12 DEF MoveList, Chained, Types
  <2>2. ASSUME NEW i \in 1..n
        PROVE  /\ succ'[order[l][i]] = IF q # 0 /\ i = n THEN head[k] ELSE succ[order[l][i]]
               /\ pred'[order[l][i]] = pred[order[l][i]]
    <3>1. order[l][i] \in Nodes BY <1>1, <1>7
    <3>2. (order[l][i] = tail[l] <=> i = n) /\ (order[l][i] = head[l] <=> i = 1)
      BY <1>1, <1>10 DEF Chained, Single
    <3>3. order[l][i] # head[k] BY <1>1, <1>2, <1>3, <1>11, <3>1 DEF Chained, Single
    <3>4. q # 0 => pred[head[k]] = Null BY <1>11
    <3>5. pred[head[l]] = Null BY <1>10
    <3> QED BY <1>12, <3>1, <3>2, <3>3, <3>4, <3>5 DEF MoveList
  <2>3. ASSUME NEW i \in 1..q
        PROVE  /\ succ'[order[k][i]] = succ[order[k][i]]
               /\ pred'[order[k][i]] = IF i = 1 THEN tail[l] ELSE pred[order[k][i]]
    <3>1. order[k][i] \in Nodes BY <1>2, <1>7
    <3>2. order[k][i] # tail[l] /\ order[k][i] # head[l]
      BY <1>1, <1>2, <1>3, <1>10 DEF Chained, Single
    <3>3. order[k][i] = head[k] <=> i = 1 BY <1>2, <1>11 DEF Chained, Single
    <3> QED BY <3>1, <3>2, <3>3 DEF MoveList
  <2>4. head'[k] = order'[k][1] BY <2>1, <1>6, <1>10
  <2>5. tail'[k] = order'[k][n + q]
    <3>1. CASE q = 0 BY <3>1, <2>1, <1>1, <1>6, <1>10
    <3>2. CASE q # 0
      <4>1. n + q \in (n + 1)..(n + q) /\ (n + q) - n = q BY <3>2, <1>1, <1>2
      <4> QED BY <4>1, <3>2, <2>1, <1>6, <1>11
    <3> QED BY <3>1, <3>2
  <2>6. ASSUME NEW i \in 1..n
        PROVE  /\ succ'[order'[k][i]] = IF i = n + q THEN Null ELSE order'[k][i + 1]
               /\ pred'[order'[k][i]] = IF i = 1 THEN Null ELSE order'[k][i - 1]
    <3>1. order'[k][i] = order[l][i] BY <1>6
    <3>2. ASSUME i = n, q = 0
          PROVE  succ'[order'[k][i]] = IF i = n + q THEN Null ELSE order'[k][i + 1]
      <4>1. succ'[order'[k][i]] = Null BY <3>1, <3>2, <2>2, <1>10
      <4> QED BY <4>1, <3>2, <1>1
    <3>3. ASSUME i = n, q # 0
          PROVE  succ'[order'[k][i]] = IF i = n + q THEN Null ELSE order'[k][i + 1]
      <4>1. n + 1 \in (n + 1)..(n + q) /\ (n + 1) - n = 1 /\ i # n + q BY <3>3, <1>1, <1>2
      <4>2. order'[k][i + 1] = order[k][1] BY <4>1, <3>3, <1>6
      <4> QED BY <4>1, <4>2, <3>1, <3>3, <2>2, <1>11
    <3>4. ASSUME i # n
          PROVE  succ'[order'[k][i]] = IF i = n + q THEN Null ELSE order'[k][i + 1]
      <4>1. i + 1 \in 1..n /\ i # n + q BY <3>4, <1>1, <1>2
      <4>2. order'[k][i + 1] = order[l][i + 1] BY <4>1, <1>6
      <4>3. succ'[order'[k][i]] = order[l][i + 1] BY <3>1, <3>4, <2>2, <1>10
      <4> QED BY <4>1, <4>2, <4>3
    <3>5. i # 1 => i - 1 \in 1..n BY <1>1
    <3>6. pred'[order'[k][i]] = IF i = 1 THEN Null ELSE order'[k][i - 1]
      BY <3>1, <3>5, <2>2, <1>6, <1>10
    <3>7. succ'[order'[k][i]] = IF i = n + q THEN Null ELSE order'[k][i + 1]
      BY <3>2, <3>3, <3>4
    <3> QED BY <3>6, <3>7
  <2>7. ASSUME NEW i \in (n + 1)..(n + q)
        PROVE  /\ succ'[order'[k][i]] = IF i = n + q THEN Null ELSE order'[k][i + 1]
               /\ pred'[order'[k][i]] = IF i = 1 THEN Null ELSE order'[k][i - 1]
    <3> DEFINE j == i - n
    <3>1. j \in 1..q /\ order'[k][i] = order[k][j] /\ i # 1 /\ (j = q <=> i = n + q)
      BY <1>1, <1>2, <1>3, <1>6
    <3>2. i # n + q => i + 1 \in (n + 1)..(n + q) /\ (i + 1) - n = j + 1 BY <1>1, <1>2
    <3>3. succ'[order'[k][i]] = IF i = n + q THEN Null ELSE order'[k][i + 1]
      BY <3>1, <3>2, <2>3, <1>6, <1>11
    <3>4. ASSUME j = 1 PROVE pred'[order'[k][i]] = order'[k][i - 1]
      <4>1. i - 1 = n BY <3>4, <1>1
      <4>2. pred'[order'[k][i]] = tail[l] BY <3>1, <3>4, <2>3
      <4>3. order'[k][n] = tail[l] BY <1>6, <1>10
      <4> QED BY <4>1, <4>2, <4>3
    <3>5. ASSUME j # 1 PROVE pred'[order'[k][i]] = order'[k][i - 1]
      <4>1. i - 1 \in (n + 1)..(n + q) /\ (i - 1) - n = j - 1 BY <3>1, <3>5, <1>1, <1>2
      <4>2. order'[k][i - 1] = order[k][j - 1] BY <4>1, <1>6
      <4>3. pred'[order'[k][i]] = order[k][j - 1] BY <3>1, <3>5, <2>3, <1>11
      <4> QED BY <4>2, <4>3
    <3>6. pred'[order'[k][i]] = IF i = 1 THEN Null ELSE order'[k][i - 1] BY <3>1, <3>4, <3>5
    <3> QED BY <3>3, <3>6
  <2>8. n + q # 0 BY <1>1, <1>2, <1>3
  <2> QED BY <1>4, <1>6, <2>4, <2>5, <2>6, <2>7, <2>8 DEF Linked
<1> QED BY <1>8, <1>9, <1>13, <1>14, <1>15 DEF Chained, AllLinked

LEMMA NextChained == Chained /\ [ListNext]_listVars => Chained'
<1> SUFFICES ASSUME Chained, [ListNext]_listVars PROVE Chained'
  OBVIOUS
<1>1. CASE UNCHANGED <<head, tail, length, succ, pred, order>>
  BY <1>1 DEF Chained, Types, Single, AllLinked, Linked
<1>2. CASE UNCHANGED listVars BY <1>1, <1>2 DEF listVars
<1>3. CASE WalkNext BY <1>1, <1>3 DEF WalkNext
<1>4. CASE \E l \in Heads : WalkStart(l) BY <1>1, <1>4 DEF WalkStart
<1>5. ASSUME NEW m \in Nodes, NEW l \in Heads, Add(m, l) PROVE Chained'
  BY <1>5, AddHeadKeeps DEF Add
<1>6. ASSUME NEW m \in Nodes, NEW l \in Heads, AddTail(m, l) PROVE Chained'
  BY <1>6, AddTailKeeps
<1>7. ASSUME NEW m \in Nodes, NEW l \in Heads, Delete(m, l) PROVE Chained'
  BY <1>7, DeleteKeeps
<1>8. ASSUME NEW m \in Nodes, NEW l \in Heads, NEW b \in Nodes, AddBefore(b, m, l) PROVE Chained'
  BY <1>8, AddBeforeKeeps
<1>9. ASSUME NEW m \in Nodes, NEW l \in Heads, NEW k \in Heads, MoveNode(m, l, k) PROVE Chained'
  BY <1>9, MoveNodeKeeps
<1>10. ASSUME NEW l \in Heads, NEW k \in Heads, MoveList(l, k) PROVE Chained'
  BY <1>10, MoveListKeeps
<1> QED BY <1>2, <1>3, <1>4, <1>5, <1>6, <1>7, <1>8, <1>9, <1>10 DEF ListNext, Change

\* In every list the pointers forward and backward, the head, the tail and the length agree
\* (list.c, DLINK_FOREACH and its variants in list.h).
THEOREM AlwaysLinked == ListSpec => []AllLinked
<1>1. Chained => AllLinked BY DEF Chained
<1> QED BY <1>1, InitChained, NextChained, PTL DEF ListSpec
=============================================================================

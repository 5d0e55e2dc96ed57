------------------------------- MODULE MemPool -------------------------------
(***************************************************************************)
(* A memory pool: clients, channels, memberships, list nodes, dbuf blocks   *)
(* and ip entries are items of one.  A pool gets memory in chunks and keeps *)
(* each on the list of the used (some items are allocated), the full or the *)
(* empty chunks.                                                           *)
(*                                                                         *)
(* The lists are sets: which chunk of a list serves next decides how full   *)
(* the chunks become, never who gets what.                                 *)
(***************************************************************************)
EXTENDS Integers, FiniteSets

CONSTANTS Chunks,    \* memory for chunks
          Capacity   \* new_chunk_capacity

\* mp_pool_new doubles the chunk until two items fit.
ASSUME TwoFit == Capacity \in Nat /\ Capacity >= 2 /\ IsFiniteSet(Chunks)

VARIABLES used_chunks, full_chunks, empty_chunks,
          chunk,       \* chunk[c]: n_allocated, next_mem in items, the freelist
          n_empty_chunks, min_empty_chunks,
          held         \* how often item <<c, i>> is in use

chunkLists == <<used_chunks, full_chunks, empty_chunks>>
poolVars == <<chunkLists, chunk, n_empty_chunks, min_empty_chunks, held>>

Items == Chunks \X (1..Capacity)
NewChunk == [n |-> 0, next |-> 0, free |-> {}]
Mine == used_chunks \cup full_chunks \cup empty_chunks

PoolTypeOK ==
  /\ used_chunks \subseteq Chunks /\ full_chunks \subseteq Chunks
  /\ empty_chunks \subseteq Chunks
  /\ chunk \in [Chunks -> [n : 0..Capacity, next : 0..Capacity, free : SUBSET (1..Capacity)]]
  /\ n_empty_chunks \in Int /\ min_empty_chunks \in Int
  /\ held \in [Items -> Nat]

PoolInit ==
  /\ used_chunks = {} /\ full_chunks = {} /\ empty_chunks = {}
  /\ chunk = [c \in Chunks |-> NewChunk]
  /\ n_empty_chunks = 0 /\ min_empty_chunks = 0
  /\ held = [x \in Items |-> 0]

-----------------------------------------------------------------------------
(* mp_pool_get *)

\* The first used chunk, else the first empty one, else a new one
Serving ==
  IF used_chunks # {} THEN used_chunks
  ELSE IF empty_chunks # {} THEN empty_chunks ELSE Chunks \ Mine

\* An item of the freelist, else the next that has not been carved yet
Spare(c) == IF chunk[c].free # {} THEN chunk[c].free ELSE {chunk[c].next + 1}

\* Faulty variant: the chunk stays on the used list when its last item goes.
GetKept(c, i) ==
  /\ c \in Serving /\ i \in Spare(c)
  /\ chunk' = [chunk EXCEPT ![c].n = @ + 1, ![c].free = @ \ {i},
                            ![c].next = IF i \in chunk[c].free THEN @ ELSE i]
  /\ empty_chunks' = empty_chunks \ {c}
  /\ used_chunks' = used_chunks \cup {c} /\ UNCHANGED full_chunks
  /\ n_empty_chunks' = Cardinality(empty_chunks')
  /\ min_empty_chunks' = IF n_empty_chunks' < min_empty_chunks
                         THEN n_empty_chunks' ELSE min_empty_chunks
  /\ held' = [held EXCEPT ![<<c, i>>] = @ + 1]

Get(c, i) ==
  /\ c \in Serving /\ i \in Spare(c)
  /\ chunk' = [chunk EXCEPT ![c].n = @ + 1, ![c].free = @ \ {i},
                            ![c].next = IF i \in chunk[c].free THEN @ ELSE i]
  /\ empty_chunks' = empty_chunks \ {c}
  /\ IF chunk[c].n + 1 = Capacity
       THEN used_chunks' = used_chunks \ {c} /\ full_chunks' = full_chunks \cup {c}
       ELSE used_chunks' = used_chunks \cup {c} /\ UNCHANGED full_chunks
  /\ n_empty_chunks' = IF c \in empty_chunks THEN n_empty_chunks - 1 ELSE n_empty_chunks
  /\ min_empty_chunks' = IF n_empty_chunks' < min_empty_chunks
                         THEN n_empty_chunks' ELSE min_empty_chunks
  /\ held' = [held EXCEPT ![<<c, i>>] = @ + 1]

-----------------------------------------------------------------------------
\* Faulty variant: an empty chunk is carved anew, and keeps its freelist.
ReleaseKept(c, i) ==
  /\ held[<<c, i>>] > 0 /\ held' = [held EXCEPT ![<<c, i>>] = @ - 1]
  /\ UNCHANGED min_empty_chunks
  /\ IF chunk[c].n = 1
       THEN /\ chunk' = [chunk EXCEPT ![c].n = 0, ![c].next = 0, ![c].free = @ \cup {i}]
            /\ used_chunks' = used_chunks \ {c} /\ empty_chunks' = empty_chunks \cup {c}
            /\ n_empty_chunks' = n_empty_chunks + 1 /\ UNCHANGED full_chunks
       ELSE /\ chunk' = [chunk EXCEPT ![c].n = @ - 1, ![c].free = @ \cup {i}]
            /\ full_chunks' = full_chunks \ {c} /\ used_chunks' = used_chunks \cup {c}
            /\ UNCHANGED <<empty_chunks, n_empty_chunks>>

\* mp_pool_release: what becomes of the chunk is decided on n_allocated before it.
Release(c, i) ==
  /\ held[<<c, i>>] > 0 /\ held' = [held EXCEPT ![<<c, i>>] = @ - 1]
  /\ UNCHANGED min_empty_chunks
  /\ \/ /\ chunk[c].n = Capacity
        /\ chunk' = [chunk EXCEPT ![c].n = @ - 1, ![c].free = @ \cup {i}]
        /\ full_chunks' = full_chunks \ {c} /\ used_chunks' = used_chunks \cup {c}
        /\ UNCHANGED <<empty_chunks, n_empty_chunks>>
     \/ /\ chunk[c].n # Capacity /\ chunk[c].n = 1
        /\ chunk' = [chunk EXCEPT ![c] = NewChunk]
        /\ used_chunks' = used_chunks \ {c} /\ empty_chunks' = empty_chunks \cup {c}
        /\ n_empty_chunks' = n_empty_chunks + 1
        /\ UNCHANGED full_chunks
     \/ /\ chunk[c].n \notin {Capacity, 1}
        /\ chunk' = [chunk EXCEPT ![c].n = @ - 1, ![c].free = @ \cup {i}]
        /\ UNCHANGED <<chunkLists, n_empty_chunks>>

\* mp_pool_clean from the event: as many empty chunks are kept as have been taken and
\* given back since the last time.
Kept == n_empty_chunks - min_empty_chunks

GarbageCollect(gone) ==
  /\ gone \subseteq empty_chunks
  /\ Cardinality(gone) = IF Cardinality(empty_chunks) > Kept
                         THEN Cardinality(empty_chunks) - Kept ELSE 0
  /\ empty_chunks' = empty_chunks \ gone
  /\ n_empty_chunks' = n_empty_chunks - Cardinality(gone)
  /\ min_empty_chunks' = n_empty_chunks'
  /\ chunk' = [c \in Chunks |-> IF c \in gone THEN NewChunk ELSE chunk[c]]
  /\ UNCHANGED <<used_chunks, full_chunks, held>>

PoolNext ==
  \/ \E c \in Chunks, i \in 1..Capacity : Get(c, i) \/ Release(c, i)
  \/ \E gone \in SUBSET Chunks : GarbageCollect(gone)

PoolSpec == PoolInit /\ [][PoolNext]_poolVars

-----------------------------------------------------------------------------
\* mp_pool_assert_ok: each list holds the chunks it is named for, n_allocated counts the
\* items that are out, and the counters of the empty chunks can be relied on.
ChunksOk ==
  /\ \A c \in Mine : chunk[c].n = Cardinality({i \in 1..Capacity : held[<<c, i>>] > 0})
  /\ \A c \in used_chunks : chunk[c].n \in 1..(Capacity - 1)
  /\ \A c \in full_chunks : chunk[c].n = Capacity
  /\ \A c \in empty_chunks : chunk[c].n = 0
  /\ n_empty_chunks = Cardinality(empty_chunks)
  /\ min_empty_chunks \in 0..n_empty_chunks

\* The pool is an allocator: nobody gets an item that another holds, and no chunk goes
\* back with an item of it in use, however gets, releases and the collection mix.
Memory == Mine \X (1..Capacity)
Abstract == INSTANCE Allocator WITH memory <- Memory
Allocates == Abstract!Spec
=============================================================================

-------------------------------- MODULE Motd --------------------------------
(***************************************************************************)
(* Messages of the day (motd.c, m_motd.c; REHASH in m_rehash.c and           *)
(* conf.c 1204): one for the users of this server, one for those of others, *)
(* and one for each mask of the motd{} blocks.  A file is read when it is    *)
(* needed first and kept in a cache that all with the same path share, until*)
(* the next REHASH, REHASH MOTD or SIGUSR1.                                 *)
(***************************************************************************)
EXTENDS Naturals, Sequences, FiniteSets, SequencesExt

CONSTANTS
    Here, Far,    \* users of this server and of others
    Class,        \* Class[u]: the class of u
    Fits,         \* the pairs of a host or address mask and a user that it matches
    Path,         \* MPATH
    Files,        \* what the file may say: [classes, motds: sequence of <<mask, path>>]
    MaxOps        \* bound: requests, rehashes and changes of the disk

VARIABLES
    disk,         \* path -> the version that is there, 0: none
    motds,        \* the structs: [kind, mask, path, cache]; the first two for Here and Far
    cachelist,    \* path -> [ref, version]
    ops,
    since         \* history: path -> the version at the last recache

motdVars == <<disk, motds, cachelist, ops, since>>

Paths == DOMAIN disk
NoMotd == << >>

-----------------------------------------------------------------------------
\* s: [motds, cachelist]
Now == [motds |-> motds, cachelist |-> cachelist]

\* motd_create
Created(kind, mask, path) == [kind |-> kind, mask |-> mask, path |-> path, cache |-> FALSE]

\* motd_cache: a file that cannot be read leaves no cache.
Cached(s, i) ==
  LET p == s.motds[i].path
  IN  IF s.motds[i].cache THEN s
      ELSE IF p \in DOMAIN s.cachelist
      THEN [s EXCEPT !.motds[i].cache = TRUE, !.cachelist[p].ref = @ + 1]
      ELSE IF disk[p] = 0 THEN s
      ELSE [s EXCEPT !.motds[i].cache = TRUE,
                     !.cachelist = [q \in DOMAIN @ \cup {p} |->
                        IF q = p THEN [ref |-> 1, version |-> disk[p]] ELSE @[q]]]

\* Faulty variant: a cache that nobody refers to stays.
DecachedKept(s, i) ==
  IF ~s.motds[i].cache THEN s
  ELSE [s EXCEPT !.motds[i].cache = FALSE, !.cachelist[s.motds[i].path].ref = @ - 1]

\* motd_decache: the last reference frees the cache.
Decached(s, i) ==
  LET p == s.motds[i].path
  IN  IF ~s.motds[i].cache THEN s
      ELSE [s EXCEPT !.motds[i].cache = FALSE,
              !.cachelist = IF @[p].ref = 1 THEN [q \in DOMAIN @ \ {p} |-> @[q]]
                            ELSE [@ EXCEPT ![p].ref = @ - 1]]

AllDecached(s) == FoldLeft(Decached, s, [i \in 1..Len(s.motds) |-> i])
Both(s) == Cached(Cached(s, 1), 2)

\* motd_recache
Recached(s) == Both(AllDecached(s))
\* motd_clear: the others are destroyed.
Cleared(s) == Both([AllDecached(s) EXCEPT !.motds = SubSeq(@, 1, 2)])

\* motd_add for each mask of each block; each goes to the front.
Kind(mask, classes) == IF mask \in classes THEN "class" ELSE "host"
Added(s, file) ==
  FoldLeft(LAMBDA r, b : [r EXCEPT !.motds = SubSeq(@, 1, 2)
             \o <<Created(Kind(b[1], file.classes), b[1], b[2])>> \o SubSeq(@, 3, Len(@))],
           s, file.motds)

\* motd_lookup
Matches(m, u) == IF m.kind = "class" THEN m.mask = Class[u] ELSE <<m.mask, u>> \in Fits
Lookup(s, u) ==
  LET for == {i \in 3..Len(s.motds) : Matches(s.motds[i], u)}
  IN  CASE u \in Far -> 2
        [] u \in Here /\ for = {} -> 1
        [] OTHER -> CHOOSE i \in for : \A j \in for : i <= j

-----------------------------------------------------------------------------
Become(s) == motds' = s.motds /\ cachelist' = s.cachelist

\* motd_init comes after the file was read (ircd.c 553-558).
Init ==
  /\ disk \in [{b[2] : b \in UNION {ToSet(f.motds) : f \in Files}} \cup {Path} -> {0, 1}]
  /\ \E file \in Files :
       LET s == Both(Added([motds |-> <<Created("local", NoMotd, Path), Created("remote", NoMotd, Path)>>,
                            cachelist |-> << >>], file))
       IN  motds = s.motds /\ cachelist = s.cachelist
  /\ ops = 0 /\ since = disk

Step == ops < MaxOps /\ ops' = ops + 1

\* REHASH, REHASH MOTD or SIGUSR1
Rehash(file) == /\ Step /\ UNCHANGED disk
                /\ Become(Added(Cleared(Now), file)) /\ since' = disk
Recache == /\ Step /\ UNCHANGED disk
           /\ Become(Recached(Now)) /\ since' = disk

\* motd_send and motd_signon: of MOTD, and of a user that comes in
Send(u) ==
  /\ Step /\ UNCHANGED <<disk, since>>
  /\ Become(Cached(Now, Lookup(Now, u)))

\* The file is edited, or taken away.
Edit(p) == /\ Step /\ UNCHANGED <<motds, cachelist, since>>
           /\ \E v \in {0, ops + 2} : v # disk[p] /\ disk' = [disk EXCEPT ![p] = v]

Next == \/ \E file \in Files : Rehash(file)
        \/ Recache
        \/ \E u \in Here \cup Far : Send(u)
        \/ \E p \in Paths : Edit(p)

Spec == Init /\ [][Next]_motdVars

-----------------------------------------------------------------------------
TypeOK ==
  /\ Len(motds) >= 2 /\ DOMAIN cachelist \subseteq Paths
  /\ \A i \in 1..Len(motds) : motds[i].path \in Paths /\ motds[i].cache \in BOOLEAN

\* A cache has as many references as motds that use it, and is gone with the last.
RefsRight ==
  \A p \in Paths :
    LET users == {i \in 1..Len(motds) : motds[i].path = p /\ motds[i].cache}
    IN  IF p \in DOMAIN cachelist THEN cachelist[p].ref = Cardinality(users) /\ users # {}
        ELSE users = {}

\* What the cache has, and so what is shown, is not older than the last rehash, SIGUSR1 or
\* REHASH MOTD.
NotOld == \A p \in DOMAIN cachelist : cachelist[p].version >= since[p]
=============================================================================

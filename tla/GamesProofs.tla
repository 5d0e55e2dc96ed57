----------------------------- MODULE GamesProofs -----------------------------
(***************************************************************************)
(* Proofs about GameRegistry, UserModes and Accounts, for every value of     *)
(* their constants.                                                         *)
(*                                                                         *)
(* GameRegistry: no other request has the EncryptedHost row of a game before *)
(* its Create has inserted it, and a cleaner removes that row before the     *)
(* HostGames row, so only a Close or a Delete, cut short or too early, can    *)
(* leave a listed game without its HostGames row.                            *)
(***************************************************************************)
EXTENDS GameRegistry, UserModes, Accounts, FiniteSetTheorems, SequenceTheorems,
        WellFoundedInduction, TLAPS

\* The inductive invariant: what each worker's GameID is, at each statement.
Private == \A w \in Workers : pc[w] = "insertEnc" =>
             /\ arg[w] \in Ids \ known /\ arg[w] < nextId
             /\ arg[w] \in DOMAIN hosted \cup early
OneCreate == \A v, w \in Workers :
               (pc[v] = "insertEnc" /\ pc[w] = "insertEnc" /\ arg[v] = arg[w]) => v = w
Unlisted == \A w \in Workers : pc[w] = "cleanHost" => arg[w] \in known \ listed
Told == /\ listed \subseteq known
        /\ \A w \in Workers : todo[w] \subseteq known
Issued == \A id \in known \cup DOMAIN hosted : id < nextId
IInv == /\ TypeOK /\ Private /\ OneCreate /\ Unlisted /\ Told /\ Issued
        /\ ListedHasHost

LEMMA InitIInv == Init => IInv
  BY GameBounds DEF Init, IInv, TypeOK, Private, OneCreate, Unlisted, Told,
                    Issued, ListedHasHost, Ids, NoId, Range

LEMMA NextIInv == IInv /\ [Next]_vars => IInv'
<1> SUFFICES ASSUME IInv, [Next]_vars PROVE IInv'
    OBVIOUS
<1> USE GameBounds DEF IInv, TypeOK, Goto, Range, Restrict, Ids, NoId
<1>1. ASSUME NEW w \in Workers, NEW n \in Names, InsertHost(w, n) PROVE IInv'
  <2>1. nextId \in Ids /\ nextId \notin known /\ nextId \notin DOMAIN hosted
      BY <1>1 DEF InsertHost, Issued
  <2>2. TypeOK'
    <3>1. DOMAIN hosted' = DOMAIN hosted \cup {nextId}
          /\ \A id \in DOMAIN hosted' : hosted'[id] \in Names
        BY <1>1, <2>1 DEF InsertHost
    <3>2. DOMAIN hosted' \subseteq Ids /\ Range(hosted') \subseteq Names
        BY <3>1, <2>1
    <3>3. nextId' \in 1..(MaxGames + 1) BY <1>1, <2>1 DEF InsertHost
    <3>4. arg' \in [Workers -> Ids \cup {NoId}] BY <1>1, <2>1 DEF InsertHost
    <3> QED BY <1>1, <3>2, <3>3, <3>4 DEF InsertHost
  <2>3. (Private /\ OneCreate)'
      BY <1>1, <2>1 DEF InsertHost, Private, OneCreate
  <2>4. (Unlisted /\ Told /\ Issued)'
      BY <1>1, <2>1 DEF InsertHost, Unlisted, Told, Issued
  <2>5. ListedHasHost' BY <1>1, <2>1 DEF InsertHost, ListedHasHost
  <2> QED BY <2>2, <2>3, <2>4, <2>5
<1>2. ASSUME NEW w \in Workers, InsertEncrypted(w) PROVE IInv'
  <2>1. /\ arg[w] \in Ids /\ arg[w] \in DOMAIN hosted \cup early
        /\ arg[w] \notin known /\ arg[w] < nextId
      BY <1>2 DEF InsertEncrypted, Private
  <2>2. TypeOK' BY <1>2, <2>1 DEF InsertEncrypted
  <2>3. (Private /\ OneCreate)'
      BY <1>2, <2>1 DEF InsertEncrypted, Private, OneCreate
  <2>4. (Unlisted /\ Told /\ Issued)'
      BY <1>2, <2>1 DEF InsertEncrypted, Unlisted, Told, Issued
  <2>5. ListedHasHost' BY <1>2, <2>1 DEF InsertEncrypted, ListedHasHost
  <2> QED BY <2>2, <2>3, <2>4, <2>5
<1>3. ASSUME NEW w \in Workers, NEW n \in Names, NEW id \in Ids, DeleteHost(w, id, n)
      PROVE IInv'
  <2>1. TypeOK' BY <1>3 DEF DeleteHost
  <2>2. (Private /\ OneCreate)' BY <1>3 DEF DeleteHost, Private, OneCreate
  <2>3. (Unlisted /\ Told /\ Issued)'
      BY <1>3 DEF DeleteHost, Unlisted, Told, Issued
  <2>4. ListedHasHost' BY <1>3 DEF DeleteHost, ListedHasHost
  <2> QED BY <2>1, <2>2, <2>3, <2>4
<1>4. ASSUME NEW w \in Workers, NEW id \in Ids, FailGame(w, id) PROVE IInv'
  <2>1. TypeOK' BY <1>4 DEF FailGame
  <2>2. (Private /\ OneCreate)' BY <1>4 DEF FailGame, Private, OneCreate
  <2>3. (Unlisted /\ Told /\ Issued)'
      BY <1>4 DEF FailGame, Unlisted, Told, Issued
  <2>4. ListedHasHost' BY <1>4 DEF FailGame, ListedHasHost
  <2> QED BY <2>1, <2>2, <2>3, <2>4
<1>5. ASSUME NEW w \in Workers, DeleteEncrypted(w) PROVE IInv'
  <2>1. TypeOK' BY <1>5 DEF DeleteEncrypted
  <2>2. (Private /\ OneCreate)' BY <1>5 DEF DeleteEncrypted, Private, OneCreate
  <2>3. (Unlisted /\ Told /\ Issued)'
      BY <1>5 DEF DeleteEncrypted, Unlisted, Told, Issued
  <2>4. ListedHasHost' BY <1>5 DEF DeleteEncrypted, ListedHasHost
  <2> QED BY <2>1, <2>2, <2>3, <2>4
<1>6. ASSUME NEW w \in Workers, CleanSelect(w) PROVE IInv'
  <2>1. TypeOK' BY <1>6 DEF CleanSelect
  <2>2. (Private /\ OneCreate)' BY <1>6 DEF CleanSelect, Private, OneCreate
  <2>3. (Unlisted /\ Told /\ Issued)'
      BY <1>6 DEF CleanSelect, Unlisted, Told, Issued
  <2>4. ListedHasHost' BY <1>6 DEF CleanSelect, ListedHasHost
  <2> QED BY <2>1, <2>2, <2>3, <2>4
<1>7. ASSUME NEW w \in Workers, NEW id \in Ids, CleanRow(w, id) PROVE IInv'
  <2>1. TypeOK'
    <3>1. CASE Old(id)
      <4>1. listed' \subseteq Ids BY <1>7, <3>1 DEF CleanRow
      <4>2. arg' \in [Workers -> Ids \cup {NoId}] BY <1>7, <3>1 DEF CleanRow
      <4>3. pc' = [pc EXCEPT ![w] = "cleanHost"] BY <1>7, <3>1 DEF CleanRow
      <4>4. todo' = [todo EXCEPT ![w] = @ \ {id}] BY <1>7, <3>1 DEF CleanRow
      <4>5. UNCHANGED <<hosted, nextId, age, known, early, stale, cut, aborts>>
          BY <1>7 DEF CleanRow
      <4>6. pc' \in [Workers -> {"idle", "insertEnc", "deleteEnc", "clean", "cleanHost", "list"}]
          BY <4>3
      <4>7. todo' \in [Workers -> SUBSET Ids] BY <4>4
      <4> QED BY <4>1, <4>2, <4>5, <4>6, <4>7
    <3>2. CASE ~Old(id) BY <1>7, <3>2 DEF CleanRow
    <3> QED BY <3>1, <3>2
  <2>2. (Private /\ OneCreate)'
    <3>1. \A v \in Workers : pc'[v] = "insertEnc" =>
                              pc[v] = "insertEnc" /\ arg'[v] = arg[v]
      <4>1. CASE Old(id) BY <1>7, <4>1 DEF CleanRow
      <4>2. CASE ~Old(id) BY <1>7, <4>2 DEF CleanRow
      <4> QED BY <4>1, <4>2
    <3>2. UNCHANGED <<hosted, known, early, nextId>> BY <1>7 DEF CleanRow
    <3> QED BY <3>1, <3>2 DEF Private, OneCreate
  <2>3. (Unlisted /\ Told /\ Issued)'
      BY <1>7, ZenonT(40) DEF CleanRow, Unlisted, Told, Issued
  <2>4. ListedHasHost' BY <1>7 DEF CleanRow, ListedHasHost
  <2> QED BY <2>1, <2>2, <2>3, <2>4
<1>8. ASSUME NEW w \in Workers, CleanHost(w) PROVE IInv'
  <2>1. TypeOK' BY <1>8 DEF CleanHost
  <2>2. (Private /\ OneCreate)' BY <1>8 DEF CleanHost, Private, OneCreate, Unlisted
  <2>3. (Unlisted /\ Told /\ Issued)'
      BY <1>8 DEF CleanHost, Unlisted, Told, Issued
  <2>4. ListedHasHost' BY <1>8 DEF CleanHost, ListedHasHost, Unlisted
  <2> QED BY <2>1, <2>2, <2>3, <2>4
<1>9. ASSUME NEW w \in Workers, CleanDone(w) \/ ListGames(w) PROVE IInv'
  <2>1. TypeOK' BY <1>9 DEF CleanDone, ListGames
  <2>2. (Private /\ OneCreate)' BY <1>9, ZenonT(40) DEF CleanDone, ListGames, Private, OneCreate
  <2>3. (Unlisted /\ Told /\ Issued)'
      BY <1>9 DEF CleanDone, ListGames, Unlisted, Told, Issued
  <2>4. ListedHasHost' BY <1>9 DEF CleanDone, ListGames, ListedHasHost
  <2> QED BY <2>1, <2>2, <2>3, <2>4
<1>10. ASSUME NEW w \in Workers, Abort(w) PROVE IInv'
  <2>1. TypeOK'
    <3>0. aborts' \in 0..MaxAborts
        BY <1>10 DEF Abort
    <3>a. cut' \subseteq Ids
      <4>1. CASE arg[w] = NoId BY <1>10, <4>1 DEF Abort
      <4>2. CASE arg[w] # NoId
        <5>1. arg[w] \in Ids BY <4>2
        <5> QED BY <1>10, <4>2, <5>1 DEF Abort
      <4> QED BY <4>1, <4>2
    <3>1. aborts' \in 0..MaxAborts /\ cut' \subseteq Ids BY <3>0, <3>a
    <3>2. /\ pc' \in [Workers -> {"idle", "insertEnc", "deleteEnc", "clean",
                                 "cleanHost", "list"}]
          /\ arg' \in [Workers -> Ids \cup {NoId}]
          /\ todo' \in [Workers -> SUBSET Ids] /\ stale' \in [Workers -> SUBSET Ids]
        BY <1>10 DEF Abort
    <3>3. UNCHANGED <<hosted, listed, nextId, age, known, early>> BY <1>10 DEF Abort
    <3> QED BY <3>1, <3>2, <3>3
  <2>2. (Private /\ OneCreate)' BY <1>10 DEF Abort, Private, OneCreate
  <2>3. (Unlisted /\ Told /\ Issued)'
      BY <1>10 DEF Abort, Unlisted, Told, Issued
  <2>4. ListedHasHost'
    <3> SUFFICES ASSUME NEW id \in listed, id \notin DOMAIN hosted, id \notin cut' \cup early
                 PROVE \E v \in Workers : pc'[v] = "deleteEnc" /\ arg'[v] = id
        BY <1>10 DEF Abort, ListedHasHost
    <3>1. id \notin cut BY <1>10 DEF Abort
    <3>2. PICK v \in Workers : pc[v] = "deleteEnc" /\ arg[v] = id
        BY <3>1 DEF ListedHasHost
    <3>3. v # w BY <1>10, <3>2 DEF Abort
    <3> QED BY <1>10, <3>2, <3>3 DEF Abort
  <2> QED BY <2>1, <2>2, <2>3, <2>4
<1>11. CASE Tick
  <2>1. age' \in [Ids -> 0..(Expire + 1)] BY <1>11 DEF Tick
  <2>2. TypeOK' BY <1>11, <2>1 DEF Tick
  <2>3. UNCHANGED <<hosted, listed, nextId, pc, arg, todo, known, early, cut>>
      BY <1>11 DEF Tick
  <2>4. (Private /\ OneCreate /\ Unlisted)'
      BY <2>3 DEF Private, OneCreate, Unlisted
  <2>5. (Told /\ Issued /\ ListedHasHost)'
      BY <2>3 DEF Told, Issued, ListedHasHost
  <2> QED BY <2>2, <2>4, <2>5
<1>12. CASE UNCHANGED vars
  BY <1>12 DEF vars, Private, OneCreate, Unlisted, Told, Issued, ListedHasHost
<1> QED
  BY <1>1, <1>2, <1>3, <1>4, <1>5, <1>6, <1>7, <1>8, <1>9, <1>10, <1>11, <1>12
  DEF Next, Work

\* Every variable keeps its type: in particular no statement ever runs with the
\* GameID of no game (Game.php 103-142, cleanOldGames.php).
THEOREM TypeCorrect == Spec => []TypeOK
<1>1. IInv => TypeOK BY DEF IInv
<1> QED BY InitIInv, NextIInv, <1>1, PTL DEF Spec

\* A listed game has its HostGames row, but for a deletion of that very game that is
\* between its two statements, was cut there, or ran between the two of its Create
\* (Game.php 73-101, 103-142).
THEOREM ListedHosted == Spec => []ListedHasHost
<1>1. IInv => ListedHasHost BY DEF IInv
<1> QED BY InitIInv, NextIInv, <1>1, PTL DEF Spec

-----------------------------------------------------------------------------
(* The cleanup *)

\* What a cleaner found expired stays so, was told to somebody, and is on the list
\* only until the cleaner has come to it.
Cleaning == \A w \in Workers :
  /\ stale[w] \subseteq known
  /\ \A id \in stale[w] : Old(id)
  /\ pc[w] \in {"clean", "cleanHost"} => stale[w] \cap listed \subseteq todo[w]
  /\ pc[w] = "cleanHost" => Old(arg[w])

LEMMA CleaningStep == IInv /\ Cleaning /\ FreshListing /\ [Next]_vars
                      => Cleaning' /\ FreshListing'
<1> SUFFICES ASSUME IInv, Cleaning, FreshListing, [Next]_vars PROVE Cleaning' /\ FreshListing'
    OBVIOUS
<1> USE GameBounds DEF IInv, TypeOK, Goto, Ids, NoId, Cleaning, FreshListing
<1>1. ASSUME NEW w \in Workers, NEW n \in Names, InsertHost(w, n)
      PROVE Cleaning' /\ FreshListing'
    BY <1>1 DEF InsertHost, Old
<1>2. ASSUME NEW w \in Workers, InsertEncrypted(w) PROVE Cleaning' /\ FreshListing'
  <2>1. arg[w] \notin known BY <1>2 DEF InsertEncrypted, Private
  <2>2. \A v \in Workers : arg[w] \notin stale[v] BY <2>1
  <2> QED BY <1>2, <2>2 DEF InsertEncrypted, Old
<1>3. ASSUME NEW w \in Workers, NEW n \in Names, NEW id \in Ids, DeleteHost(w, id, n)
      PROVE Cleaning' /\ FreshListing'
    BY <1>3 DEF DeleteHost, Old
<1>4. ASSUME NEW w \in Workers, NEW id \in Ids, FailGame(w, id) PROVE Cleaning' /\ FreshListing'
    BY <1>4 DEF FailGame, Old
<1>5. ASSUME NEW w \in Workers, DeleteEncrypted(w) PROVE Cleaning' /\ FreshListing'
    BY <1>5 DEF DeleteEncrypted, Old
<1>6. ASSUME NEW w \in Workers, CleanSelect(w) PROVE Cleaning' /\ FreshListing'
    BY <1>6 DEF CleanSelect, Told, Old
<1>7. ASSUME NEW w \in Workers, NEW id \in Ids, CleanRow(w, id) PROVE Cleaning' /\ FreshListing'
  <2>1. CASE Old(id) BY <1>7, <2>1 DEF CleanRow, Old
  <2>2. CASE ~Old(id) BY <1>7, <2>2 DEF CleanRow, Old
  <2> QED BY <2>1, <2>2
<1>8. ASSUME NEW w \in Workers, CleanHost(w) PROVE Cleaning' /\ FreshListing'
    BY <1>8 DEF CleanHost, Old
<1>9. ASSUME NEW w \in Workers, CleanDone(w) PROVE Cleaning' /\ FreshListing'
    BY <1>9 DEF CleanDone, Old
<1>10. ASSUME NEW w \in Workers, ListGames(w) PROVE Cleaning' /\ FreshListing'
    BY <1>10 DEF ListGames, Old
<1>11. ASSUME NEW w \in Workers, Abort(w) PROVE Cleaning' /\ FreshListing'
    BY <1>11 DEF Abort, Old
<1>12. CASE Tick
  <2>1. \A id \in Ids : Old(id) => Old(id)' BY <1>12 DEF Tick, Old
  <2>2. \A w \in Workers : stale[w] \subseteq Ids /\ (pc[w] = "cleanHost" => arg[w] \in Ids)
      BY DEF Unlisted
  <2> QED BY <1>12, <2>1, <2>2 DEF Tick
<1>13. CASE UNCHANGED vars BY <1>13 DEF vars, Old
<1> QED
  BY <1>1, <1>2, <1>3, <1>4, <1>5, <1>6, <1>7, <1>8, <1>9, <1>10, <1>11, <1>12, <1>13
  DEF Next, Work

LEMMA CleaningInvariant == Spec => [](IInv /\ Cleaning /\ FreshListing)
<1>1. Init => Cleaning /\ FreshListing BY DEF Init, Cleaning, FreshListing
<1> QED BY InitIInv, NextIInv, CleaningStep, <1>1, PTL DEF Spec

\* The list a player gets has no game that was expired when its cleanup ran
\* (GameList.php, cleanOldGames.php).
THEOREM AlwaysFresh == Spec => []FreshListing
  BY CleaningInvariant, PTL

\* The cleanup takes the HostGames row of no game younger than the limit
\* (cleanOldGames.php).
THEOREM OnlyOldTaken == Spec => CleanTakesOnlyOld
<1> DEFINE P == \A w \in Workers : \A id \in DOMAIN hosted :
                  (pc[w] = "cleanHost" /\ pc'[w] = "clean" /\ id \notin DOMAIN hosted') => Old(id)
<1>1. ASSUME IInv, Cleaning, [Next]_vars PROVE [P]_vars
  <2> SUFFICES ASSUME NEW w \in Workers, NEW id \in DOMAIN hosted, Next,
                      pc[w] = "cleanHost", pc'[w] = "clean", id \notin DOMAIN hosted'
               PROVE  Old(id)
      BY <1>1
  <2>1. CleanHost(w)
    <3>1. ASSUME NEW v \in Workers, NEW n \in Names, InsertHost(v, n) PROVE FALSE
        BY <3>1 DEF InsertHost, Goto, IInv, TypeOK
    <3>2. ASSUME NEW v \in Workers, NEW n \in Names, NEW i \in Ids, DeleteHost(v, i, n)
          PROVE FALSE
        BY <3>2 DEF DeleteHost, Goto, IInv, TypeOK
    <3>3. ASSUME NEW v \in Workers, \/ CleanSelect(v) \/ Abort(v) \/ CleanDone(v) \/ ListGames(v)
                                     \/ InsertEncrypted(v) \/ DeleteEncrypted(v)
          PROVE FALSE
        BY <3>3 DEF CleanSelect, Abort, CleanDone, ListGames, InsertEncrypted, DeleteEncrypted,
                    Goto, IInv, TypeOK
    <3>4. ASSUME NEW v \in Workers, NEW i \in Ids, FailGame(v, i) \/ CleanRow(v, i) PROVE FALSE
        BY <3>4 DEF FailGame, CleanRow, Goto, IInv, TypeOK
    <3>5. ASSUME NEW v \in Workers, CleanHost(v) PROVE v = w
        BY <3>5 DEF CleanHost, Goto, IInv, TypeOK
    <3>6. ~Tick BY DEF Tick
    <3> QED BY <3>1, <3>2, <3>3, <3>4, <3>5, <3>6 DEF Next, Work
  <2>2. DOMAIN hosted' = DOMAIN hosted \ {arg[w]} BY <2>1 DEF CleanHost, Restrict
  <2> QED BY <1>1, <2>2 DEF Cleaning
<1> QED BY <1>1, CleaningInvariant, PTL DEF Spec, CleanTakesOnlyOld

-----------------------------------------------------------------------------
(***************************************************************************)
(* UserModes, at home, for every set of users, blocks, hosts and modes.  A   *)
(* command of several modes is a recursion over them; what each change keeps *)
(* the command keeps, by induction on their number.  Each action then changes *)
(* one row and the block of that row, so that OpersRight follows from the    *)
(* row alone (OneChanges).                                                   *)
(***************************************************************************)

\* Every set of numbers has a least one; induction.
LEMMA LeastOf ==
  ASSUME NEW S, S \subseteq Nat, S # {}
  PROVE  \E k \in S : \A j \in S : k <= j
<1> DEFINE R == OpToRel(<, Nat)
<1>1. IsWellFoundedOn(R, Nat)
  BY NatLessThanWellFounded
<1>2. \A x, y \in Nat : <<y, x>> \in R <=> y < x
  BY DEF OpToRel
<1>3. \E x \in S : \A y \in S : ~(<<y, x>> \in R)
  <2> HIDE DEF R
  <2> QED BY <1>1, WFMin
<1>4. PICK k \in S : \A j \in S : ~(<<j, k>> \in R)
  BY <1>3
<1>5. ASSUME NEW j \in S PROVE k <= j
  <2>1. k \in Nat /\ j \in Nat /\ ~(<<j, k>> \in R)
    BY <1>4
  <2> HIDE DEF R
  <2>2. ~(j < k)
    BY <1>2, <2>1
  <2> QED BY <2>1, <2>2
<1> QED BY <1>5

LEMMA Induct ==
  ASSUME NEW S, 0 \in S, \A k \in Nat : k \in S => k + 1 \in S
  PROVE  \A k \in Nat : k \in S
<1> SUFFICES ASSUME {k \in Nat : k \notin S} # {} PROVE FALSE
  OBVIOUS
<1>1. PICK k \in {i \in Nat : i \notin S} : \A j \in {i \in Nat : i \notin S} : k <= j
  BY LeastOf
<1>2. k # 0 /\ k - 1 \in Nat /\ k - 1 < k
  BY <1>1
<1>3. k - 1 \in S
  BY <1>1, <1>2
<1> QED BY <1>1, <1>2, <1>3


\* A recursion over the indices of a sequence has a solution.
Iterates(h, r0, F, m) == h = [k \in 0..m |-> IF k = 0 THEN r0 ELSE F[<<h[k - 1], k>>]]
LEMMA IterExists ==
  ASSUME NEW r0, NEW F, NEW m \in Nat
  PROVE  \E h : Iterates(h, r0, F, m)
<1> DEFINE Is(h, n) == h = [k \in 0..n |-> IF k = 0 THEN r0 ELSE F[<<h[k - 1], k>>]]
           T == {n \in Nat : \E h : Is(h, n)}
<1>1. 0 \in T
  <2> DEFINE h == [k \in 0..0 |-> r0]
  <2>1. Is(h, 0) OBVIOUS
  <2> QED BY <2>1
<1>2. ASSUME NEW n \in Nat, n \in T PROVE n + 1 \in T
  <2>1. PICK h : Is(h, n) BY <1>2
  <2> DEFINE g == [k \in 0..(n + 1) |->
                     IF k = 0 THEN r0 ELSE IF k = n + 1 THEN F[<<h[n], k>>] ELSE h[k]]
  <2>2. ASSUME NEW k \in 0..n PROVE g[k] = h[k] BY <2>1
  <2>3. ASSUME NEW k \in 1..n PROVE g[k] = F[<<g[k - 1], k>>]
    <3>1. k \in 0..n /\ k - 1 \in 0..n /\ k # 0 OBVIOUS
    <3>2. h[k] = F[<<h[k - 1], k>>] BY <2>1, <3>1
    <3> HIDE DEF g
    <3> QED BY <2>2, <3>1, <3>2
  <2>4. g[n + 1] = F[<<g[n], n + 1>>]
    <3>1. g[n + 1] = F[<<h[n], n + 1>>] OBVIOUS
    <3>0. n \in 0..n OBVIOUS
    <3>2. g[n] = h[n] BY <2>2, <3>0
    <3> QED BY <3>1, <3>2
  <2>5. g[0] = r0 /\ g = [k \in 0..(n + 1) |-> g[k]] OBVIOUS
  <2> HIDE DEF g
  <2>6. \A k \in 0..(n + 1) : g[k] = IF k = 0 THEN r0 ELSE F[<<g[k - 1], k>>]
    <3> SUFFICES ASSUME NEW k \in 0..(n + 1)
                 PROVE  g[k] = IF k = 0 THEN r0 ELSE F[<<g[k - 1], k>>]
        OBVIOUS
    <3>1. CASE k = 0 BY <2>5, <3>1
    <3>2. CASE k = n + 1 BY <2>4, <3>2
    <3>3. CASE k \in 1..n BY <2>3, <3>3
    <3> QED BY <3>1, <3>2, <3>3
  <2>7. Is(g, n + 1) BY <2>5, <2>6
  <2> QED BY <2>7
<1> HIDE DEF T
<1>3. m \in T BY <1>1, <1>2, Induct
<1> QED BY <1>3 DEF T, Iterates

\* A recursion of that kind stays in a set that its start is in and each step keeps.
LEMMA IterStays ==
  ASSUME NEW m \in Nat, NEW G, NEW h, h[0] \in G,
         \A k \in 1..m : h[k - 1] \in G => h[k] \in G
  PROVE  \A k \in 0..m : h[k] \in G
<1> DEFINE T == {n \in Nat : n <= m => h[n] \in G}
<1>1. 0 \in T OBVIOUS
<1>2. ASSUME NEW n \in Nat, n \in T PROVE n + 1 \in T
  <2> SUFFICES ASSUME n + 1 <= m PROVE h[n + 1] \in G
      OBVIOUS
  <2>1. n + 1 \in 1..m /\ (n + 1) - 1 = n /\ h[n] \in G BY <1>2
  <2> QED BY <2>1
<1> HIDE DEF T
<1>3. \A k \in Nat : k \in T BY <1>1, <1>2, Induct
<1> QED BY <1>3 DEF T

\* What is made of the changes of a MODE stays in a set that each change keeps.
LEMMA OwnStays ==
  ASSUME NEW G, NEW r0 \in G, NEW C, NEW cs \in Seq(C),
         \A r \in G, c \in C : Own(r, c) \in G
  PROVE  OwnAll(r0, cs) \in G
<1> DEFINE m == Len(cs)
           F == [p \in G \X (1..m) |-> Own(p[1], cs[p[2]])]
           Is(h) == h = [k \in 0..Len(cs) |-> IF k = 0 THEN r0 ELSE Own(h[k - 1], cs[k])]
           after == CHOOSE h : Is(h)
<1>1. m \in Nat /\ \A k \in 1..m : cs[k] \in C OBVIOUS
<1>2. \A r \in G, k \in 1..m : F[<<r, k>>] = Own(r, cs[k]) /\ F[<<r, k>>] \in G BY <1>1
<1>3. PICK h : h = [k \in 0..m |-> IF k = 0 THEN r0 ELSE F[<<h[k - 1], k>>]]
  <2>1. \E h : Iterates(h, r0, F, m)
    <3> HIDE DEF F, m
    <3> QED BY <1>1, IterExists
  <2> HIDE DEF F, m
  <2> QED BY <2>1 DEF Iterates
<1>4. \A k \in 0..m : h[k] \in G
  <2> HIDE DEF F, m
  <2>1. h[0] = r0 BY <1>1, <1>3
  <2>2. \A k \in 1..m : h[k] = F[<<h[k - 1], k>>] BY <1>1, <1>3
  <2>3. \A k \in 1..m : h[k - 1] \in G => h[k] \in G BY <1>2, <2>2
  <2> QED BY <1>1, <2>1, <2>3, IterStays
<1>5. Is(h)
  <2>1. \A k \in 1..m : k - 1 \in 0..m BY <1>1
  <2>2. \A k \in 1..m : F[<<h[k - 1], k>>] = Own(h[k - 1], cs[k])
    <3> HIDE DEF F, m
    <3> QED BY <1>2, <1>4, <2>1
  <2> HIDE DEF F
  <2>3. \A k \in 0..m : k # 0 => k \in 1..m BY <1>1
  <2> QED BY <1>3, <2>2, <2>3
<1>6. Is(after)
  <2> HIDE DEF Is
  <2> QED BY <1>5
<1>7. after[0] = r0 /\ \A k \in 1..m : after[k] = Own(after[k - 1], cs[k])
  <2>1. after = [k \in 0..m |-> IF k = 0 THEN r0 ELSE Own(after[k - 1], cs[k])] BY <1>6
  <2> HIDE DEF after, m
  <2> QED BY <1>1, <2>1
<1>8. OwnAll(r0, cs) = after[m] BY DEF OwnAll
<1> HIDE DEF after, m
<1>9. \A k \in 1..m : after[k - 1] \in G => after[k] \in G BY <1>1, <1>7
<1>10. \A k \in 0..m : after[k] \in G BY <1>1, <1>7, <1>9, IterStays
<1> QED BY <1>1, <1>8, <1>10

\* What is made of the changes of an SVSMODE stays in a set that each change keeps.
LEMMA SvsStays ==
  ASSUME NEW G, NEW r0 \in G, NEW C, NEW cs \in Seq(C), NEW host, NEW mine,
         \A r \in G, c \in C : SvsOne(r, c, host, mine) \in G
  PROVE  SvsAll(r0, cs, host, mine) \in G
<1> DEFINE m == Len(cs)
           F == [p \in G \X (1..m) |-> SvsOne(p[1], cs[p[2]], host, mine)]
           Is(h) == h = [k \in 0..Len(cs) |-> IF k = 0 THEN r0 ELSE SvsOne(h[k - 1], cs[k], host, mine)]
           after == CHOOSE h : Is(h)
<1>1. m \in Nat /\ \A k \in 1..m : cs[k] \in C OBVIOUS
<1>2. \A r \in G, k \in 1..m : F[<<r, k>>] = SvsOne(r, cs[k], host, mine) /\ F[<<r, k>>] \in G BY <1>1
<1>3. PICK h : h = [k \in 0..m |-> IF k = 0 THEN r0 ELSE F[<<h[k - 1], k>>]]
  <2>1. \E h : Iterates(h, r0, F, m)
    <3> HIDE DEF F, m
    <3> QED BY <1>1, IterExists
  <2> HIDE DEF F, m
  <2> QED BY <2>1 DEF Iterates
<1>4. \A k \in 0..m : h[k] \in G
  <2> HIDE DEF F, m
  <2>1. h[0] = r0 BY <1>1, <1>3
  <2>2. \A k \in 1..m : h[k] = F[<<h[k - 1], k>>] BY <1>1, <1>3
  <2>3. \A k \in 1..m : h[k - 1] \in G => h[k] \in G BY <1>2, <2>2
  <2> QED BY <1>1, <2>1, <2>3, IterStays
<1>5. Is(h)
  <2>1. \A k \in 1..m : k - 1 \in 0..m BY <1>1
  <2>2. \A k \in 1..m : F[<<h[k - 1], k>>] = SvsOne(h[k - 1], cs[k], host, mine)
    <3> HIDE DEF F, m
    <3> QED BY <1>2, <1>4, <2>1
  <2> HIDE DEF F
  <2>3. \A k \in 0..m : k # 0 => k \in 1..m BY <1>1
  <2> QED BY <1>3, <2>2, <2>3
<1>6. Is(after)
  <2> HIDE DEF Is
  <2> QED BY <1>5
<1>7. after[0] = r0 /\ \A k \in 1..m : after[k] = SvsOne(after[k - 1], cs[k], host, mine)
  <2>1. after = [k \in 0..m |-> IF k = 0 THEN r0 ELSE SvsOne(after[k - 1], cs[k], host, mine)] BY <1>6
  <2> HIDE DEF after, m
  <2> QED BY <1>1, <2>1
<1>8. SvsAll(r0, cs, host, mine) = after[m] BY DEF SvsAll
<1> HIDE DEF after, m
<1>9. \A k \in 1..m : after[k - 1] \in G => after[k] \in G BY <1>1, <1>7
<1>10. \A k \in 0..m : after[k] \in G BY <1>1, <1>7, <1>9, IterStays
<1> QED BY <1>1, <1>8, <1>10


-----------------------------------------------------------------------------
(* What a MODE or an SVSMODE makes of the modes of a user *)

Changes == {"+", "-"} \X Range(Letters)
Results == [modes : SUBSET Range(Letters), host : Hosts \cup {1}, oper : Int, invisi : Int,
            down : BOOLEAN]

LEMMA LettersAre == Range(Letters) = {"a", "i", "l", "o", "w", "x"}
  BY DEF Range, Letters

\* MODE makes nobody an operator, and leaves nothing that only operators have to one who is
\* none any more.
OwnKept(old) ==
  {r \in Results :
     /\ "o" \in r.modes => "o" \in old
     /\ r.down = ("o" \in old /\ "o" \notin r.modes)
     /\ "o" \notin r.modes => OperOnly \cap r.modes \subseteq (IF "o" \in old THEN {} ELSE old)}

LEMMA PutResult ==
  ASSUME NEW r \in Results, NEW c \in Changes
  PROVE  /\ Put(r, c) \in Results /\ Put(r, c).down = r.down
         /\ Put(r, c).modes = IF c[1] = "+" THEN r.modes \cup {c[2]} ELSE r.modes \ {c[2]}
<1>1. c[2] \in Range(Letters) BY DEF Changes
<1> QED BY <1>1 DEF Put, Results

LEMMA DeoppedResult ==
  ASSUME NEW r \in Results, NEW mine \in BOOLEAN
  PROVE  /\ Deopped(r, mine) \in Results /\ Deopped(r, mine).down = mine
         /\ Deopped(r, mine).modes = (r.modes \ {"o", "a"}) \ (IF mine THEN OperOnly ELSE {})
<1> DEFINE new == (r.modes \ {"o", "a"}) \ (IF mine THEN OperOnly ELSE {})
<1>1. Deopped(r, mine) = [r EXCEPT !.modes = new, !.oper = @ - 1, !.down = mine] BY DEF Deopped
<1>2. new \subseteq Range(Letters) /\ r.oper - 1 \in Int BY DEF Results
<1> HIDE DEF new
<1>3. Deopped(r, mine) = [modes |-> new, host |-> r.host, oper |-> r.oper - 1,
                          invisi |-> r.invisi, down |-> mine]
    BY <1>1 DEF Results
<1>4. r.host \in Hosts \cup {1} /\ r.invisi \in Int BY DEF Results
<1>5. Deopped(r, mine) \in Results BY <1>2, <1>3, <1>4 DEF Results
<1>6. Deopped(r, mine).modes = new /\ Deopped(r, mine).down = mine BY <1>3
<1> QED BY <1>5, <1>6 DEF new

LEMMA InvisiResult ==
  ASSUME NEW r \in Results, NEW k \in Int
  PROVE  /\ More(r, k) \in Results
         /\ More(r, k).modes = r.modes
         /\ More(r, k).down = r.down
<1>1. r.invisi + k \in Int BY DEF Results
<1> DEFINE n == r.invisi + k
<1>2. More(r, k) = [r EXCEPT !.invisi = n] BY DEF More
<1> HIDE DEF n
<1>3. n \in Int BY <1>1 DEF n
<1>4. /\ [r EXCEPT !.invisi = n] \in Results /\ [r EXCEPT !.invisi = n].modes = r.modes
      /\ [r EXCEPT !.invisi = n].down = r.down
    BY <1>3 DEF Results
<1> QED BY <1>2, <1>4

LEMMA OwnStep ==
  ASSUME NEW old, NEW r \in OwnKept(old), NEW c \in Changes
  PROVE  Own(r, c) \in OwnKept(old)
<1>1. r \in Results BY DEF OwnKept
<1>2. CASE Own(r, c) = r BY <1>2
<1>3. CASE c = <<"-", "o">> /\ "o" \in r.modes
  <2>1. Own(r, c) = Deopped(r, TRUE) BY <1>3 DEF Own
  <2> QED BY <1>1, <1>3, <2>1, DeoppedResult DEF OwnKept
<1>4. CASE Own(r, c) = Put(r, c) /\ c[2] # "o" /\ (c[2] \in OperOnly => "o" \in r.modes)
  <2> DEFINE p == Put(r, c)
  <2>1. /\ p \in Results /\ p.down = r.down
        /\ p.modes = IF c[1] = "+" THEN r.modes \cup {c[2]} ELSE r.modes \ {c[2]}
      BY <1>1, PutResult
  <2>2. "o" \in p.modes <=> "o" \in r.modes BY <1>4, <2>1
  <2>3. "o" \notin r.modes => OperOnly \cap p.modes \subseteq OperOnly \cap r.modes
      BY <1>4, <2>1
  <2> HIDE DEF p
  <2>4. p \in OwnKept(old) BY <2>1, <2>2, <2>3 DEF OwnKept
  <2> QED BY <1>4, <2>4 DEF p
<1>5. \/ c = <<"-", "o">> /\ "o" \in r.modes
      \/ Own(r, c) = r
      \/ Own(r, c) = Put(r, c) /\ c[2] # "o" /\ (c[2] \in OperOnly => "o" \in r.modes)
    BY DEF Own
<1> QED BY <1>2, <1>3, <1>4, <1>5

LEMMA StartResult ==
  ASSUME NEW old \in SUBSET Range(Letters), NEW host \in Hosts \cup {1}
  PROVE  /\ Start(old, host) \in Results /\ Start(old, host).modes = old
         /\ Start(old, host).down = FALSE /\ Start(old, host).host = host
<1>1. 0 \in Int /\ FALSE \in BOOLEAN OBVIOUS
<1> QED BY <1>1 DEF Start, Results

LEMMA OwnAllKept ==
  ASSUME NEW old \in SUBSET Range(Letters), NEW cs \in Seq(Changes)
  PROVE  OwnAll(Start(old, 1), cs) \in OwnKept(old)
<1>1. Start(old, 1) \in OwnKept(old)
  <2>1. /\ Start(old, 1) \in Results /\ Start(old, 1).modes = old
        /\ Start(old, 1).down = FALSE
      BY StartResult
  <2> HIDE DEF Start
  <2> QED BY <2>1 DEF OwnKept
<1>2. \A r \in OwnKept(old), c \in Changes : Own(r, c) \in OwnKept(old) BY OwnStep
<1> HIDE DEF OwnKept, Start, Changes
<1> QED BY <1>1, <1>2, OwnStays

\* SVSMODE makes nobody an operator either, and gives no more than what it says.
SvsKept(old, gave) ==
  {r \in Results :
     /\ "o" \in r.modes => "o" \in old
     /\ r.down = ("o" \in old /\ "o" \notin r.modes)
     /\ r.modes \subseteq old \cup gave
     /\ r.down => (OperOnly \cup {"a"}) \cap r.modes \subseteq gave}

LEMMA SvsStep ==
  ASSUME NEW old, NEW gave, NEW r \in SvsKept(old, gave), NEW c \in Changes, NEW h \in Hosts,
         c[1] = "+" => c[2] \in gave
  PROVE  SvsOne(r, c, h, TRUE) \in SvsKept(old, gave)
<1> DEFINE s == Svs(r, c, h, TRUE)
<1>1. r \in Results BY DEF SvsKept
<1>2. c[1] \in {"+", "-"} /\ c[2] \in Range(Letters) BY DEF Changes
<1>3. s \in SvsKept(old, gave)
  <2>1. CASE c = <<"-", "o">> /\ "o" \in r.modes
    <3>1. s = Deopped(r, TRUE) BY <2>1 DEF Svs
    <3> QED BY <1>1, <2>1, <3>1, DeoppedResult DEF SvsKept
  <2>2. CASE ~(c = <<"-", "o">> /\ "o" \in r.modes) /\ c[2] = "o"
    <3>1. ~(c[1] = "-" /\ "o" \in r.modes) BY <2>2 DEF Changes
    <3>2. s = r BY <2>2, <3>1 DEF Svs
    <3> QED BY <3>2
  <2>3. CASE c[2] = "x"
    <3>1. s = Masked(r, c[1], h)
      <4>1. c # <<"-", "o">> BY <2>3
      <4> QED BY <2>3, <4>1 DEF Svs
    <3>2. "x" \in Range(Letters) /\ "x" # "o" BY LettersAre
    <3>3. CASE r.host = h BY <3>1, <3>3 DEF Masked
    <3>4. CASE r.host # h
      <4>1. s = [r EXCEPT !.host = h,
                          !.modes = IF c[1] = "+" THEN @ \cup {"x"} ELSE @ \ {"x"}]
          BY <3>1, <3>4 DEF Masked
      <4>2. s \in Results /\ s.down = r.down
            /\ s.modes = IF c[1] = "+" THEN r.modes \cup {"x"} ELSE r.modes \ {"x"}
        <5> DEFINE new == IF c[1] = "+" THEN r.modes \cup {"x"} ELSE r.modes \ {"x"}
        <5>1. new \subseteq Range(Letters) BY <1>1, <3>2 DEF Results
        <5>2. s = [r EXCEPT !.host = h, !.modes = new] BY <4>1
        <5> HIDE DEF new, s
        <5>3. s.modes = new /\ s.down = r.down /\ s \in Results
            BY <1>1, <5>1, <5>2 DEF Results
        <5> QED BY <5>3 DEF new
      <4> HIDE DEF s
      <4> QED BY <2>3, <3>2, <4>2 DEF SvsKept
    <3> QED BY <3>3, <3>4
  <2>4. CASE c[2] \notin {"o", "x"}
    <3> DEFINE p == Put(r, c)
    <3>1. p \in Results /\ p.down = r.down
          /\ p.modes = IF c[1] = "+" THEN r.modes \cup {c[2]} ELSE r.modes \ {c[2]}
        BY <1>1, PutResult
    <3>2. s \in Results /\ s.down = p.down /\ s.modes = p.modes
      <4>1. CASE c[2] # "i"
        <5>1. s = p BY <2>4, <4>1 DEF Svs
        <5> QED BY <3>1, <5>1
      <4>2. CASE c[2] = "i"
        <5> DEFINE z == [r EXCEPT !.invisi = 0]
        <5>1. z \in Results /\ z.down = r.down /\ z.modes = r.modes BY <1>1 DEF Results
        <5>2. Put(z, c) \in Results /\ Put(z, c).down = p.down /\ Put(z, c).modes = p.modes
            BY <3>1, <5>1, PutResult
        <5>3. s = Compared(Put(z, c), r.modes)
          <6>1. c # <<"-", "o">> BY <4>2
          <6> QED BY <4>2, <6>1 DEF Svs
        <5> HIDE DEF s, p, z
        <5> QED BY <5>2, <5>3 DEF Compared, Results, More
      <4> QED BY <4>1, <4>2
    <3> HIDE DEF s, p
    <3> QED BY <2>4, <3>1, <3>2 DEF SvsKept
  <2> QED BY <2>1, <2>2, <2>3, <2>4
<1>4. More(s, r.invisi) \in SvsKept(old, gave)
  <2> HIDE DEF s
  <2>1. s \in Results BY <1>3 DEF SvsKept
  <2>2. r.invisi \in Int BY <1>1 DEF Results
  <2>3. /\ More(s, r.invisi) \in Results
        /\ More(s, r.invisi).modes = s.modes
        /\ More(s, r.invisi).down = s.down
      BY <2>1, <2>2, InvisiResult
  <2> QED BY <1>3, <2>3 DEF SvsKept
<1> QED BY <1>3, <1>4 DEF SvsOne

\* What the changes of an SVSMODE give
Given(cs) == {cs[k][2] : k \in {j \in DOMAIN cs : cs[j][1] = "+"}}

LEMMA SvsAllKept ==
  ASSUME NEW old \in SUBSET Range(Letters), NEW cs \in Seq(Changes), NEW h \in Hosts,
         NEW host \in Hosts \cup {1}
  PROVE  SvsAll(Start(old, host), cs, h, TRUE) \in SvsKept(old, Given(cs))
<1> DEFINE C == {c \in Changes : c[1] = "+" => c[2] \in Given(cs)}
           G == SvsKept(old, Given(cs))
<1>1. Start(old, host) \in G
  <2>1. /\ Start(old, host) \in Results /\ Start(old, host).modes = old
        /\ Start(old, host).down = FALSE
      BY StartResult
  <2> HIDE DEF Start
  <2> QED BY <2>1 DEF SvsKept
<1>2. cs \in Seq(C)
  <2>1. \A k \in 1..Len(cs) : cs[k] \in C BY DEF Given
  <2> HIDE DEF C
  <2> QED BY <2>1
<1>3. \A r \in G, c \in C : SvsOne(r, c, h, TRUE) \in G BY SvsStep
<1> HIDE DEF G, C, Start
<1>4. SvsAll(Start(old, host), cs, h, TRUE) \in G BY <1>1, <1>2, <1>3, SvsStays
<1> QED BY <1>4 DEF G

-----------------------------------------------------------------------------
(* Blocks and those who hold them *)

Holders(us, k) == {u \in Users : us[u].conf = k}
BlocksRight(us, cs) ==
  \A k \in DOMAIN cs : /\ cs[k].ref = Cardinality(Holders(us, k))
                       /\ cs[k].active \/ cs[k].ref > 0
BlocksTyped(cs) == cs \in [DOMAIN cs -> BlockRow] /\ DOMAIN cs \subseteq Blocks \X (0..MaxOps)
ConfsThere(us, cs) == \A u \in Users : us[u].conf \in DOMAIN cs \cup {NoBlock}
FlagsKept(cs, ds) == \A k \in DOMAIN ds \cap DOMAIN cs : ds[k].flags = cs[k].flags

BlocksFine(us, cs) == BlocksTyped(cs) /\ ConfsThere(us, cs) /\ BlocksRight(us, cs)
OthersHold(us, vs, u) == \A w \in Users \ {u} : vs[w].conf = us[w].conf
BlocksFollow(vs, cs, ds) == BlocksFine(vs, ds) /\ FlagsKept(cs, ds) /\ DOMAIN ds \subseteq DOMAIN cs

\* A block is none of NoBlock.
LEMMA NoBlockIsNone ==
  ASSUME NEW cs, BlocksTyped(cs)
  PROVE  NoBlock \notin DOMAIN cs
<1>1. \A k \in Blocks \X (0..MaxOps) : k # NoBlock
  <2> SUFFICES ASSUME NEW b, NEW n PROVE <<b, n>> # << >>
      BY DEF NoBlock
  <2>1. Len(<<b, n>>) = 2 /\ Len(<< >>) = 0 OBVIOUS
  <2> QED BY <2>1
<1> QED BY <1>1 DEF BlocksTyped

LEMMA HoldersFinite ==
  ASSUME NEW us, NEW k
  PROVE  IsFiniteSet(Holders(us, k)) /\ Cardinality(Holders(us, k)) \in Nat
<1>1. IsFiniteSet(Holders(us, k)) BY ModesConstants, FS_Subset DEF Holders
<1> QED BY <1>1, FS_CardinalityType

\* One user more: the block counts it.
LEMMA AttachedRight ==
  ASSUME NEW us, NEW vs, NEW cs, NEW u \in Users, NEW k \in DOMAIN cs,
         BlocksFine(us, cs), us[u].conf = NoBlock, vs[u].conf = k, OthersHold(us, vs, u)
  PROVE  BlocksFollow(vs, cs, Attached(cs, k))
<1> DEFINE ds == Attached(cs, k)
<1>0. /\ BlocksTyped(cs) /\ ConfsThere(us, cs) /\ BlocksRight(us, cs)
      /\ \A w \in Users \ {u} : vs[w].conf = us[w].conf
    BY DEF BlocksFine, OthersHold
<1>1. NoBlock \notin DOMAIN cs BY <1>0, NoBlockIsNone
<1>2. /\ cs[k] \in BlockRow /\ \A j \in DOMAIN cs : cs[j] \in BlockRow
      /\ cs = [j \in DOMAIN cs |-> cs[j]]
    BY <1>0 DEF BlocksTyped
<1> DEFINE row == [cs[k] EXCEPT !.ref = cs[k].ref + 1]
<1>3. row \in BlockRow /\ row.flags = cs[k].flags /\ row.ref = cs[k].ref + 1 /\ row.ref > 0
    BY <1>2 DEF BlockRow
<1>4. ds = [cs EXCEPT ![k] = row] BY DEF Attached
<1> HIDE DEF row, ds
<1>5. /\ DOMAIN ds = DOMAIN cs /\ ds[k] = row /\ \A j \in DOMAIN cs \ {k} : ds[j] = cs[j]
      /\ ds = [j \in DOMAIN cs |-> ds[j]]
    BY <1>2, <1>4
<1>6. Holders(vs, k) = Holders(us, k) \cup {u} /\ u \notin Holders(us, k)
    BY <1>0, <1>1 DEF Holders
<1>7. Cardinality(Holders(vs, k)) = Cardinality(Holders(us, k)) + 1
    BY <1>6, HoldersFinite, FS_AddElement
<1>8. ASSUME NEW j \in DOMAIN cs \ {k} PROVE Holders(vs, j) = Holders(us, j)
    BY <1>0, <1>1 DEF Holders
<1>9. BlocksTyped(ds) BY <1>0, <1>2, <1>3, <1>5 DEF BlocksTyped
<1>10. BlocksRight(vs, ds)
  <2> SUFFICES ASSUME NEW j \in DOMAIN ds
               PROVE  ds[j].ref = Cardinality(Holders(vs, j)) /\ (ds[j].active \/ ds[j].ref > 0)
      BY DEF BlocksRight
  <2>1. CASE j = k
    <3>1. cs[k].ref = Cardinality(Holders(us, k)) BY <1>0 DEF BlocksRight
    <3> QED BY <1>3, <1>5, <1>7, <2>1, <3>1
  <2>2. CASE j # k
    <3>1. j \in DOMAIN cs \ {k} /\ ds[j] = cs[j] BY <1>5, <2>2
    <3> QED BY <1>0, <1>8, <3>1 DEF BlocksRight
  <2> QED BY <2>1, <2>2
<1>11. ConfsThere(vs, ds) BY <1>0, <1>5 DEF ConfsThere
<1>12. FlagsKept(cs, ds) BY <1>3, <1>5 DEF FlagsKept
<1> QED BY <1>5, <1>9, <1>10, <1>11, <1>12 DEF ds, BlocksFine, BlocksFollow

\* One user less: the block counts it no more, or is gone with its last.
LEMMA DetachedRight ==
  ASSUME NEW us, NEW vs, NEW cs, NEW u \in Users,
         BlocksFine(us, cs), vs[u].conf = NoBlock, OthersHold(us, vs, u)
  PROVE  BlocksFollow(vs, cs, Detached(cs, us[u].conf))
<1> DEFINE k == us[u].conf
           ds == Detached(cs, k)
<1>0. /\ BlocksTyped(cs) /\ ConfsThere(us, cs) /\ BlocksRight(us, cs)
      /\ \A w \in Users \ {u} : vs[w].conf = us[w].conf
    BY DEF BlocksFine, OthersHold
<1>1. NoBlock \notin DOMAIN cs BY <1>0, NoBlockIsNone
<1>2. /\ \A j \in DOMAIN cs : cs[j] \in BlockRow
      /\ cs = [j \in DOMAIN cs |-> cs[j]] /\ DOMAIN cs \subseteq Blocks \X (0..MaxOps)
    BY <1>0 DEF BlocksTyped
<1>3. ASSUME NEW j \in DOMAIN cs, j # k PROVE Holders(vs, j) = Holders(us, j)
    BY <1>0, <1>1, <1>3 DEF Holders
<1>4. CASE k = NoBlock
  <2>1. ds = cs BY <1>4 DEF Detached
  <2>2. \A j \in DOMAIN cs : Holders(vs, j) = Holders(us, j) BY <1>1, <1>3, <1>4
  <2>3. BlocksRight(vs, cs) BY <1>0, <2>2 DEF BlocksRight
  <2>4. ConfsThere(vs, cs) BY <1>0, <1>4 DEF ConfsThere
  <2>5. FlagsKept(cs, cs) BY DEF FlagsKept
  <2> QED BY <1>0, <2>1, <2>3, <2>4, <2>5 DEF BlocksFine, BlocksFollow
<1>5. CASE k # NoBlock
  <2>1. k \in DOMAIN cs /\ cs[k] \in BlockRow BY <1>0, <1>2, <1>5 DEF ConfsThere
  <2>2. Holders(vs, k) = Holders(us, k) \ {u} /\ u \in Holders(us, k)
      BY <1>0, <1>5 DEF Holders
  <2>3. Cardinality(Holders(vs, k)) = Cardinality(Holders(us, k)) - 1
    <3>1. IsFiniteSet(Holders(us, k)) BY HoldersFinite
    <3>2. Cardinality(Holders(us, k) \ {u}) = Cardinality(Holders(us, k)) - 1
        BY <2>2, <3>1, FS_RemoveElement
    <3> QED BY <2>2, <3>2
  <2>4. cs[k].ref = Cardinality(Holders(us, k)) /\ (cs[k].active \/ cs[k].ref > 0)
      BY <1>0, <2>1 DEF BlocksRight
  <2>5. Cardinality(Holders(us, k)) \in Nat /\ Cardinality(Holders(vs, k)) \in Nat
      BY HoldersFinite
  <2>6. CASE cs[k].ref = 1 /\ ~cs[k].active
    <3>1. ds = [x \in DOMAIN cs \ {k} |-> cs[x]] BY <1>5, <2>6 DEF Detached
    <3>2. Holders(vs, k) = {}
      <4>1. Cardinality(Holders(vs, k)) = 0 BY <2>3, <2>4, <2>6
      <4> QED BY <4>1, HoldersFinite, FS_EmptySet
    <3> HIDE DEF ds, k
    <3>3. DOMAIN ds = DOMAIN cs \ {k} /\ \A j \in DOMAIN ds : ds[j] = cs[j] BY <3>1
    <3>4. BlocksTyped(ds) BY <1>2, <3>1, <3>3 DEF BlocksTyped
    <3>5. BlocksRight(vs, ds) BY <1>0, <1>3, <3>3 DEF BlocksRight
    <3>6. ConfsThere(vs, ds)
      <4> SUFFICES ASSUME NEW w \in Users PROVE vs[w].conf \in DOMAIN ds \cup {NoBlock}
          BY DEF ConfsThere
      <4>1. vs[w].conf # k BY <3>2 DEF Holders
      <4>2. vs[w].conf \in DOMAIN cs \cup {NoBlock}
          BY <1>0 DEF ConfsThere
      <4> QED BY <3>3, <4>1, <4>2
    <3>7. FlagsKept(cs, ds) BY <3>3 DEF FlagsKept
    <3> QED BY <3>3, <3>4, <3>5, <3>6, <3>7 DEF ds, k, BlocksFine, BlocksFollow
  <2>7. CASE ~(cs[k].ref = 1 /\ ~cs[k].active)
    <3> DEFINE row == [cs[k] EXCEPT !.ref = cs[k].ref - 1]
    <3>1. ds = [cs EXCEPT ![k] = row] BY <1>5, <2>7 DEF Detached
    <3>2. cs[k].ref \in Nat /\ cs[k].ref > 0 BY <2>3, <2>4, <2>5
    <3>3. /\ row \in BlockRow /\ row.flags = cs[k].flags /\ row.ref = cs[k].ref - 1
          /\ row.active = cs[k].active
        BY <2>1, <3>2 DEF BlockRow
    <3> HIDE DEF row, ds, k
    <3>4. /\ DOMAIN ds = DOMAIN cs /\ ds[k] = row /\ \A j \in DOMAIN cs \ {k} : ds[j] = cs[j]
          /\ ds = [j \in DOMAIN cs |-> ds[j]]
        BY <1>2, <2>1, <3>1
    <3>5. BlocksTyped(ds) BY <1>2, <3>3, <3>4 DEF BlocksTyped
    <3>6. BlocksRight(vs, ds)
      <4> SUFFICES ASSUME NEW j \in DOMAIN ds
                   PROVE  ds[j].ref = Cardinality(Holders(vs, j)) /\ (ds[j].active \/ ds[j].ref > 0)
          BY DEF BlocksRight
      <4>1. CASE j = k
        <5>1. ds[k].ref = cs[k].ref - 1 /\ ds[k].active = cs[k].active BY <3>3, <3>4
        <5> QED BY <2>3, <2>4, <2>5, <2>7, <3>2, <4>1, <5>1
      <4>2. CASE j # k
        <5>1. j \in DOMAIN cs /\ ds[j] = cs[j] BY <3>4, <4>2
        <5> QED BY <1>0, <1>3, <4>2, <5>1 DEF BlocksRight
      <4> QED BY <4>1, <4>2
    <3>7. ConfsThere(vs, ds) BY <1>0, <3>4 DEF ConfsThere
    <3>8. FlagsKept(cs, ds) BY <3>3, <3>4 DEF FlagsKept
    <3> QED BY <3>4, <3>5, <3>6, <3>7, <3>8 DEF ds, k, BlocksFine, BlocksFollow
  <2> QED BY <2>6, <2>7
<1> QED BY <1>4, <1>5

LEMMA SameRight ==
  ASSUME NEW us, NEW vs, NEW cs, BlocksFine(us, cs), \A w \in Users : vs[w].conf = us[w].conf
  PROVE  BlocksFollow(vs, cs, cs)
<1>1. \A j \in DOMAIN cs : Holders(vs, j) = Holders(us, j) BY DEF Holders
<1> QED BY <1>1 DEF BlocksRight, ConfsThere, FlagsKept, BlocksFine, BlocksFollow

-----------------------------------------------------------------------------
(* The invariant *)

\* What an operator has and what is left of it to one who is none
RowRight(r, cs) ==
  LET is == "o" \in r.modes
  IN  /\ is <=> r.conf # NoBlock
      /\ is => r.flags = cs[r.conf].flags
      /\ ~is => /\ r.flags = {}
                /\ OperOnly \cap r.modes \subseteq r.given \cup OnConnect
                /\ "a" \in r.modes => "a" \in r.given
\* Who is not there has nothing.
OffGone == \A u \in Users : ~On(u) => user[u] = Gone
\* No block in memory is of a reading to come.
KeysOld == \A k \in DOMAIN confs : k[2] = MaxOps \/ k[2] < ops

OrderRow == [u : Users, id : 1..MaxOps, cs : Orders, host : Hosts, ts : 0..MaxOps]
FarMessages ==
  [type : {"uid"}, u : Users, id : 1..MaxOps, ts : 0..MaxOps, modes : SUBSET Range(Letters),
   host : Hosts \cup {1}]
  \cup [type : {"mode"}, u : Users, id : 0..MaxOps,
        cs : {Diff(x, y) : x \in SUBSET Range(Letters), y \in SUBSET Range(Letters)}]
  \cup [type : {"nick"}, u : Users, id : 0..MaxOps, ts : 0..MaxOps]
  \cup [type : {"quit"}, u : Users, id : 0..MaxOps]
ViewRow(v) == /\ v.id \in 0..MaxOps /\ v.ts \in 0..MaxOps
              /\ v = [id |-> v.id, ts |-> v.ts, modes |-> v.modes, host |-> v.host]
FarTyped == /\ view = [u \in Users |-> view[u]] /\ \A u \in Users : ViewRow(view[u])
            /\ toFar \in Seq(FarMessages)

HomeRight == HomeTypeOK /\ OpersRight /\ OffGone /\ KeysOld
HomeInv == HomeRight /\ FarTyped

\* OpersRight, in parts
LEMMA OpersParts ==
  ASSUME HomeTypeOK
  PROVE  OpersRight <=> /\ \A u \in Users : ("o" \in user[u].modes <=> u \in operList)
                                             /\ RowRight(user[u], confs)
                        /\ BlocksRight(user, confs)
<1> QED BY DEF OpersRight, RowRight, BlocksRight, Holders

\* A step that changes one user, and with it at most the block this one has
Held(old, new) ==
  \/ new.conf = old.conf /\ confs' = confs
  \/ new.conf = NoBlock /\ confs' = Detached(confs, old.conf)
  \/ old.conf = NoBlock /\ new.conf \in DOMAIN confs /\ confs' = Attached(confs, new.conf)

RowGood(row) == row \in UserRow /\ RowRight(row, confs) /\ (row.id # 0 \/ row = Gone)
RowStep(u, row) ==
  /\ user' = [user EXCEPT ![u] = row] /\ Held(user[u], row)
  /\ operList' = IF "o" \in row.modes THEN operList \cup {u} ELSE operList \ {u}
OpsStep == ops' \in 0..MaxOps /\ ops' >= ops /\ toHome' \in Seq(OrderRow)

LEMMA OneChanges ==
  ASSUME ModesConstants, HomeRight, NEW u \in Users, NEW row, RowGood(row), RowStep(u, row), OpsStep
  PROVE  HomeRight'
<1>0. /\ row \in UserRow /\ RowRight(row, confs) /\ (row.id # 0 \/ row = Gone)
      /\ user' = [user EXCEPT ![u] = row] /\ Held(user[u], row)
      /\ operList' = IF "o" \in row.modes THEN operList \cup {u} ELSE operList \ {u}
      /\ ops' \in 0..MaxOps /\ ops' >= ops /\ toHome' \in Seq(OrderRow)
    BY DEF RowGood, RowStep, OpsStep
<1>1. /\ user \in [Users -> UserRow] /\ BlocksTyped(confs) /\ ConfsThere(user, confs)
      /\ ops \in 0..MaxOps /\ operList \subseteq Users
    BY DEF HomeRight, HomeTypeOK, BlocksTyped, ConfsThere
<1>2. /\ \A w \in Users : ("o" \in user[w].modes <=> w \in operList) /\ RowRight(user[w], confs)
      /\ BlocksRight(user, confs)
    BY OpersParts DEF HomeRight
<1>3. /\ user' \in [Users -> UserRow] /\ user'[u] = row
      /\ \A w \in Users \ {u} : user'[w] = user[w]
    BY <1>1, <1>0
<1>4. BlocksFollow(user', confs, confs')
  <2> DEFINE vs == user'
             k == row.conf
  <2>1. BlocksFine(user, confs) BY <1>1, <1>2 DEF BlocksFine
  <2>2. OthersHold(user, vs, u) /\ vs[u].conf = k BY <1>3 DEF OthersHold
  <2>3. CASE k = user[u].conf /\ confs' = confs
    <3>1. \A w \in Users : vs[w].conf = user[w].conf BY <1>3, <2>3
    <3> HIDE DEF vs
    <3>2. BlocksFollow(vs, confs, confs) BY <2>1, <3>1, SameRight
    <3> QED BY <2>3, <3>2 DEF vs
  <2>4. CASE k = NoBlock /\ confs' = Detached(confs, user[u].conf)
    <3> HIDE DEF vs, k
    <3>1. BlocksFollow(vs, confs, Detached(confs, user[u].conf))
        BY <2>1, <2>2, <2>4, DetachedRight
    <3> QED BY <2>4, <3>1 DEF vs
  <2>5. CASE user[u].conf = NoBlock /\ k \in DOMAIN confs /\ confs' = Attached(confs, k)
    <3> HIDE DEF vs, k
    <3>1. BlocksFollow(vs, confs, Attached(confs, k))
        BY <2>1, <2>2, <2>5, AttachedRight
    <3> QED BY <2>5, <3>1 DEF vs
  <2> QED BY <1>0, <2>3, <2>4, <2>5 DEF Held
<1>5. /\ BlocksTyped(confs') /\ BlocksRight(user', confs') /\ ConfsThere(user', confs')
       /\ FlagsKept(confs, confs') /\ DOMAIN confs' \subseteq DOMAIN confs
    BY <1>4 DEF BlocksFollow, BlocksFine
<1>6. HomeTypeOK'
  <2>1. operList' \subseteq Users BY <1>1, <1>0
  <2> QED BY <1>3, <1>5, <1>0, <2>1 DEF HomeTypeOK, BlocksTyped, ConfsThere, OrderRow
<1>7. ASSUME NEW w \in Users
      PROVE  ("o" \in user'[w].modes <=> w \in operList') /\ RowRight(user'[w], confs')
  <2>1. RowRight(user'[w], confs)
    BY <1>2, <1>3, <1>0
  <2>2. user'[w].conf \in DOMAIN confs' \cup {NoBlock} BY <1>5 DEF ConfsThere
  <2>3. RowRight(user'[w], confs')
    <3>1. user'[w].conf # NoBlock => confs'[user'[w].conf].flags = confs[user'[w].conf].flags
        BY <1>5, <2>2 DEF FlagsKept
    <3> QED BY <2>1, <3>1 DEF RowRight
  <2>4. "o" \in user'[w].modes <=> w \in operList'
    BY <1>2, <1>3, <1>0
  <2> QED BY <2>3, <2>4
<1>8. OpersRight'
  <2>1. OpersRight' <=> /\ \A w \in Users : ("o" \in user'[w].modes <=> w \in operList')
                                             /\ RowRight(user'[w], confs')
                        /\ BlocksRight(user', confs')
      BY <1>6 DEF OpersRight, RowRight, BlocksRight, Holders
  <2> QED BY <1>5, <1>7, <2>1
<1>9. OffGone' BY <1>3, <1>0 DEF OffGone, On, HomeRight, Gone
<1>10. KeysOld'
  <2> SUFFICES ASSUME NEW k \in DOMAIN confs' PROVE k[2] = MaxOps \/ k[2] < ops'
      BY DEF KeysOld
  <2>1. k \in DOMAIN confs /\ k[2] \in 0..MaxOps BY <1>1, <1>5 DEF BlocksTyped
  <2>2. k[2] = MaxOps \/ k[2] < ops BY <2>1 DEF HomeRight, KeysOld
  <2> QED BY <1>1, <1>0, <2>1, <2>2, ModesConstants DEF ModesConstants
<1> QED BY <1>6, <1>8, <1>9, <1>10 DEF HomeRight

-----------------------------------------------------------------------------
(* What each action does at home *)

LEMMA HomeParts ==
  ASSUME HomeRight, NEW u \in Users
  PROVE  /\ user \in [Users -> UserRow] /\ user[u] \in UserRow /\ RowRight(user[u], confs)
         /\ ("o" \in user[u].modes <=> u \in operList) /\ operList \subseteq Users
         /\ BlocksTyped(confs) /\ user[u].conf \in DOMAIN confs \cup {NoBlock}
         /\ ops \in 0..MaxOps /\ toHome \in Seq(OrderRow) /\ (~On(u) => user[u] = Gone)
<1>1. HomeTypeOK /\ OpersRight /\ OffGone BY DEF HomeRight
<1>2. RowRight(user[u], confs) /\ ("o" \in user[u].modes <=> u \in operList) BY <1>1, OpersParts
<1> QED BY <1>1, <1>2 DEF HomeTypeOK, BlocksTyped, OrderRow, OffGone

LEMMA TimeGoes ==
  ASSUME ModesConstants, HomeRight, Step, toHome' = toHome
  PROVE  OpsStep /\ ops' = ops + 1 /\ ops + 1 \in 1..MaxOps /\ ops \in 0..MaxOps /\ ops < MaxOps
<1>1. ops \in 0..MaxOps /\ toHome \in Seq(OrderRow)
    BY DEF HomeRight, HomeTypeOK, OrderRow
<1> QED BY <1>1 DEF Step, OpsStep, ModesConstants

\* What of a row its right needs
LEMMA RowSame ==
  ASSUME NEW r, NEW s, NEW cs, RowRight(r, cs), s.conf = r.conf, s.modes = r.modes,
         s.flags = r.flags, s.given = r.given
  PROVE  RowRight(s, cs)
  BY DEF RowRight

LEMMA GoneTyped == ASSUME ModesConstants PROVE Gone \in UserRow
<1>1. 0 \in 0..MaxOps BY DEF ModesConstants
<1> QED BY <1>1 DEF UserRow, Gone

LEMMA RegisterHome ==
  ASSUME ModesConstants, HomeRight, NEW u \in Users, Register(u)
  PROVE  HomeRight'
<1> DEFINE n == ops + 1
           row == [Gone EXCEPT !.id = n, !.ts = n, !.modes = OnConnect]
<1>1. Step /\ ~On(u) /\ user' = [user EXCEPT ![u] = row] /\ confs' = confs
      /\ operList' = operList /\ toHome' = toHome
    BY DEF Register
<1>2. user[u] = Gone /\ ("o" \in user[u].modes <=> u \in operList)
    BY <1>1, HomeParts
<1>3. OpsStep /\ n \in 1..MaxOps BY <1>1, TimeGoes
<1>4. OnConnect \subseteq Range(Letters) /\ "o" \notin OnConnect /\ "a" \notin OnConnect
    BY LettersAre DEF ModesConstants
<1> HIDE DEF n
<1>5. /\ row \in UserRow /\ row.id = n /\ row.modes = OnConnect /\ row.flags = Gone.flags
      /\ row.conf = Gone.conf /\ row.given = Gone.given
  <2>1. n \in 0..MaxOps /\ OnConnect \in SUBSET Range(Letters) BY <1>3, <1>4
  <2>2. Gone \in UserRow BY GoneTyped
  <2> QED BY <2>1, <2>2 DEF UserRow
<1> HIDE DEF row
<1>6. Gone.conf = NoBlock /\ Gone.modes = {} /\ Gone.flags = {} /\ Gone.given = {}
    BY DEF Gone
<1>7. RowRight(row, confs) BY <1>4, <1>5, <1>6 DEF RowRight
<1>8. Held(user[u], row) BY <1>1, <1>2, <1>5, <1>6 DEF Held
<1>9. u \notin operList /\ row.modes = OnConnect BY <1>2, <1>5, <1>6
<1>10. operList' = IF "o" \in row.modes THEN operList \cup {u} ELSE operList \ {u}
    BY <1>1, <1>4, <1>9
<1>11. row.id # 0 BY <1>3, <1>5
<1>12. RowGood(row) BY <1>5, <1>7, <1>11 DEF RowGood
<1>13. RowStep(u, row) BY <1>1, <1>8, <1>10 DEF RowStep
<1> QED BY <1>3, <1>12, <1>13, OneChanges

\* Whatever leaves modes, flags and block of a user alone
LEMMA RowStays ==
  ASSUME ModesConstants, HomeRight, NEW u \in Users, NEW row \in UserRow, Step, On(u),
         user' = [user EXCEPT ![u] = row], confs' = confs, operList' = operList,
         toHome' = toHome, row.conf = user[u].conf, row.modes = user[u].modes,
         row.flags = user[u].flags, row.given = user[u].given, row.id = user[u].id
  PROVE  HomeRight'
<1>1. RowRight(user[u], confs) /\ ("o" \in user[u].modes <=> u \in operList)
    BY HomeParts
<1>2. RowRight(row, confs) BY <1>1, RowSame
<1>3. row.id # 0 BY DEF On
<1>4. RowGood(row) BY <1>2, <1>3 DEF RowGood
<1>5. operList' = IF "o" \in row.modes THEN operList \cup {u} ELSE operList \ {u}
    BY <1>1
<1>6. RowStep(u, row) BY <1>5 DEF RowStep, Held
<1>7. OpsStep BY TimeGoes
<1> QED BY <1>4, <1>6, <1>7, OneChanges

LEMMA ChallengeHome ==
  ASSUME ModesConstants, HomeRight, NEW u \in Users, NEW b \in Blocks, Challenge(u, b)
  PROVE  HomeRight'
<1> DEFINE a == IF Fits(Find(b), u) /\ confs[Find(b)].key THEN b ELSE Nobody
           row == [user[u] EXCEPT !.asked = a]
<1>1. Step /\ On(u) /\ user' = [user EXCEPT ![u].asked = a] /\ confs' = confs
      /\ operList' = operList /\ toHome' = toHome
    BY DEF Challenge
<1>2. a \in Blocks \cup {Nobody} OBVIOUS
<1> HIDE DEF a
<1>3. user[u] \in UserRow BY HomeParts
<1>4. /\ row \in UserRow /\ row.conf = user[u].conf /\ row.modes = user[u].modes
      /\ row.flags = user[u].flags /\ row.given = user[u].given /\ row.id = user[u].id
    BY <1>2, <1>3 DEF UserRow
<1>5. user' = [user EXCEPT ![u] = row] BY <1>1
<1> HIDE DEF row
<1> QED BY <1>1, <1>4, <1>5, RowStays

LEMMA NickHome ==
  ASSUME ModesConstants, HomeRight, NEW u \in Users, Nick(u)
  PROVE  HomeRight'
<1> DEFINE n == ops + 1
           row == [user[u] EXCEPT !.ts = n]
<1>1. Step /\ On(u) /\ user' = [user EXCEPT ![u].ts = n] /\ confs' = confs
      /\ operList' = operList /\ toHome' = toHome
    BY DEF Nick
<1>2. n \in 1..MaxOps BY <1>1, TimeGoes
<1>3. n \in 0..MaxOps BY <1>2
<1> HIDE DEF n
<1>4. user[u] \in UserRow BY HomeParts
<1>5. /\ row \in UserRow /\ row.conf = user[u].conf /\ row.modes = user[u].modes
      /\ row.flags = user[u].flags /\ row.given = user[u].given /\ row.id = user[u].id
    BY <1>3, <1>4 DEF UserRow
<1>6. user' = [user EXCEPT ![u] = row] BY <1>1
<1> HIDE DEF row
<1> QED BY <1>1, <1>5, <1>6, RowStays

LEMMA ExitHome ==
  ASSUME ModesConstants, HomeRight, NEW u \in Users, Exit(u)
  PROVE  HomeRight'
<1>1. /\ Step /\ user' = [user EXCEPT ![u] = Gone] /\ confs' = Detached(confs, user[u].conf)
      /\ operList' = IF "o" \in user[u].modes THEN operList \ {u} ELSE operList
      /\ toHome' = toHome
    BY DEF Exit
<1>2. "o" \in user[u].modes <=> u \in operList BY HomeParts
<1>3. OpsStep BY <1>1, TimeGoes
<1>4. Gone \in UserRow BY GoneTyped
<1>5. RowRight(Gone, confs) BY DEF RowRight, Gone
<1>6. Gone.modes = {} /\ Gone.conf = NoBlock BY DEF Gone
<1>7. operList' = IF "o" \in Gone.modes THEN operList \cup {u} ELSE operList \ {u}
    BY <1>1, <1>2, <1>6
<1>8. RowStep(u, Gone) BY <1>1, <1>6, <1>7 DEF RowStep, Held
<1>9. RowGood(Gone) BY <1>4, <1>5 DEF RowGood
<1> QED BY <1>3, <1>8, <1>9, OneChanges

LEMMA FindThere ==
  ASSUME NEW b, Find(b) # NoBlock
  PROVE  Find(b) \in DOMAIN confs
<1> DEFINE k == {x \in DOMAIN confs : x[1] = b /\ confs[x].active}
<1>1. k # {} BY DEF Find
<1>2. Find(b) = CHOOSE x \in k : TRUE BY <1>1 DEF Find
<1> QED BY <1>1, <1>2

LEMMA OperUpHome ==
  ASSUME ModesConstants, HomeRight, NEW u \in Users, NEW k \in DOMAIN confs,
         NEW asked \in Blocks \cup {Nobody}, Step, On(u), "o" \notin user[u].modes,
         OperUp(u, k, asked), toHome' = toHome
  PROVE  HomeRight'
<1> DEFINE b == confs[k]
           new == user[u].modes \cup {"o"} \cup (IF b.modes # {} THEN b.modes ELSE OperUmodes)
                    \cup (IF Admin \in user[u].flags \cup b.flags THEN {"a"} ELSE {})
           fl == user[u].flags \cup b.flags
           row == [user[u] EXCEPT !.modes = new, !.flags = fl, !.conf = k, !.asked = asked]
<1>1. /\ user' = [user EXCEPT ![u].modes = new, ![u].flags = @ \cup b.flags, ![u].conf = k,
                              ![u].asked = asked]
      /\ operList' = operList \cup {u} /\ confs' = Attached(confs, k)
    BY DEF OperUp
<1>2. /\ user \in [Users -> UserRow] /\ user[u] \in UserRow /\ RowRight(user[u], confs)
      /\ ops \in 0..MaxOps /\ toHome \in Seq(OrderRow) /\ BlocksTyped(confs)
    BY HomeParts
<1>3. OpsStep BY TimeGoes
<1>4. b \in BlockRow /\ k \in Blocks \X (0..MaxOps) BY <1>2 DEF BlocksTyped
<1>5. user[u].flags = {} /\ user[u].conf = NoBlock BY <1>2 DEF RowRight
<1>6. fl = b.flags /\ fl \in SUBSET STRING BY <1>4, <1>5 DEF BlockRow
<1>7. new \in SUBSET Range(Letters) /\ "o" \in new
    BY <1>2, <1>4, LettersAre DEF UserRow, BlockRow, ModesConstants
<1>8. user' = [user EXCEPT ![u] = row] BY <1>1, <1>2
<1> HIDE DEF fl, new
<1>9. /\ row \in UserRow /\ row.conf = k /\ row.modes = new /\ row.flags = fl
      /\ row.id = user[u].id
    BY <1>2, <1>4, <1>6, <1>7 DEF UserRow
<1> HIDE DEF row
<1>10. RowRight(row, confs)
  <2>1. k # NoBlock BY <1>2, NoBlockIsNone
  <2> QED BY <1>6, <1>7, <1>9, <2>1 DEF RowRight
<1>11. Held(user[u], row) BY <1>1, <1>5, <1>9 DEF Held
<1>12. operList' = IF "o" \in row.modes THEN operList \cup {u} ELSE operList \ {u}
    BY <1>1, <1>7, <1>9
<1>13. row.id # 0 BY <1>9 DEF On
<1>14. RowGood(row) BY <1>9, <1>10, <1>13 DEF RowGood
<1>15. RowStep(u, row) BY <1>8, <1>11, <1>12 DEF RowStep
<1> QED BY <1>3, <1>14, <1>15, OneChanges

LEMMA OperHome ==
  ASSUME ModesConstants, HomeRight, NEW u \in Users, NEW b \in Blocks, Oper(u, b)
  PROVE  HomeRight'
<1>1. /\ Step /\ On(u) /\ "o" \notin user[u].modes /\ Fits(Find(b), u)
      /\ OperUp(u, Find(b), user[u].asked) /\ toHome' = toHome
    BY DEF Oper
<1>2. Find(b) \in DOMAIN confs BY <1>1, FindThere DEF Fits
<1>3. user[u].asked \in Blocks \cup {Nobody} BY HomeParts DEF UserRow
<1> QED BY <1>1, <1>2, <1>3, OperUpHome

LEMMA AnswerHome ==
  ASSUME ModesConstants, HomeRight, NEW u \in Users, Answer(u)
  PROVE  HomeRight'
<1> DEFINE k == Find(user[u].asked)
<1>1. /\ Step /\ On(u) /\ "o" \notin user[u].modes /\ Fits(k, u)
      /\ OperUp(u, k, Nobody) /\ toHome' = toHome
    BY DEF Answer
<1>2. k \in DOMAIN confs BY <1>1, FindThere DEF Fits
<1>3. Nobody \in Blocks \cup {Nobody} OBVIOUS
<1> HIDE DEF k
<1> QED BY <1>1, <1>2, <1>3, OperUpHome

LEMMA ModeHome ==
  ASSUME ModesConstants, HomeRight, NEW u \in Users, NEW cs \in Asks, Mode(u, cs)
  PROVE  HomeRight'
<1> DEFINE old == user[u].modes
           r == OwnAll(Start(old, 1), cs)
           flags == IF r.down THEN {} ELSE user[u].flags
           new == IF Admin \in flags THEN r.modes ELSE r.modes \ {"a"}
           conf == IF r.down THEN NoBlock ELSE user[u].conf
           given == user[u].given \cap new
           row == [user[u] EXCEPT !.modes = new, !.flags = flags, !.conf = conf, !.given = given]
<1>1. /\ Step /\ On(u) /\ toHome' = toHome
      /\ user' = [user EXCEPT ![u].modes = new, ![u].flags = flags,
                              ![u].conf = IF r.down THEN NoBlock ELSE @, ![u].given = @ \cap new]
      /\ operList' = IF r.down THEN operList \ {u} ELSE operList
      /\ confs' = IF r.down THEN Detached(confs, user[u].conf) ELSE confs
    BY DEF Mode
<1>2. /\ user \in [Users -> UserRow] /\ user[u] \in UserRow /\ RowRight(user[u], confs)
      /\ ("o" \in user[u].modes <=> u \in operList)
    BY HomeParts
<1>3. OpsStep BY <1>1, TimeGoes
<1>4. /\ old \in SUBSET Range(Letters) /\ user[u].flags \in SUBSET STRING
      /\ user[u].given \in SUBSET Range(Letters)
      /\ user[u].conf \in (Blocks \X (0..MaxOps)) \cup {NoBlock}
    BY <1>2 DEF UserRow
<1>5. r \in OwnKept(old)
  <2>1. cs \in Seq(Changes) BY DEF ModesConstants, Changes
  <2> QED BY <1>4, <2>1, OwnAllKept
<1>6. user' = [user EXCEPT ![u] = row] BY <1>1, <1>2
<1>7. /\ r.modes \in SUBSET Range(Letters) /\ ("o" \in r.modes => "o" \in old)
      /\ r.down = ("o" \in old /\ "o" \notin r.modes)
      /\ "o" \notin r.modes => OperOnly \cap r.modes \subseteq (IF "o" \in old THEN {} ELSE old)
    BY <1>5 DEF OwnKept, Results
<1> HIDE DEF r
<1>8. /\ new \in SUBSET Range(Letters) /\ ("o" \in new <=> "o" \in r.modes) /\ new \subseteq r.modes
      /\ "a" \in new => Admin \in flags
    BY <1>7
<1>9. r.down <=> "o" \in old /\ "o" \notin new BY <1>7, <1>8
<1>10. flags = (IF "o" \in old /\ "o" \notin new THEN {} ELSE user[u].flags)
       /\ conf = (IF "o" \in old /\ "o" \notin new THEN NoBlock ELSE user[u].conf)
    BY <1>9
<1>11. "o" \in new => "o" \in old BY <1>7, <1>8
<1>12. "o" \notin new => OperOnly \cap new \subseteq (IF "o" \in old THEN {} ELSE old)
    BY <1>7, <1>8
<1>13. IF "o" \in old /\ "o" \notin new
       THEN operList' = operList \ {u} /\ confs' = Detached(confs, user[u].conf)
       ELSE operList' = operList /\ confs' = confs
    BY <1>1, <1>9
<1>14. flags \in SUBSET STRING /\ conf \in (Blocks \X (0..MaxOps)) \cup {NoBlock}
       /\ given \in SUBSET Range(Letters) /\ given = user[u].given \cap new
    BY <1>4, <1>8
<1> HIDE DEF new, flags, conf, given
<1>15. /\ row \in UserRow /\ row.modes = new /\ row.flags = flags /\ row.conf = conf
       /\ row.given = given /\ row.id = user[u].id
    BY <1>2, <1>8, <1>14 DEF UserRow
<1> HIDE DEF row
<1>16. /\ ("o" \in old <=> user[u].conf # NoBlock)
       /\ ("o" \in old => user[u].flags = confs[user[u].conf].flags)
       /\ "o" \notin old => /\ user[u].flags = {}
                            /\ OperOnly \cap old \subseteq user[u].given \cup OnConnect
    BY <1>2 DEF RowRight
<1>17. RowRight(row, confs)
  <2>1. CASE "o" \in new
    <3>1. conf = user[u].conf /\ flags = user[u].flags /\ conf # NoBlock
          /\ flags = confs[conf].flags
        BY <1>10, <1>11, <1>16, <2>1
    <3> QED BY <1>15, <2>1, <3>1 DEF RowRight
  <2>2. CASE "o" \notin new
    <3>1. conf = NoBlock /\ flags = {} BY <1>10, <1>16, <2>2
    <3>2. "a" \notin new BY <1>8, <3>1
    <3>3. OperOnly \cap new \subseteq given \cup OnConnect
        BY <1>12, <1>14, <1>16, <2>2
    <3> QED BY <1>15, <2>2, <3>1, <3>2, <3>3 DEF RowRight
  <2> QED BY <2>1, <2>2
<1>18. Held(user[u], row) BY <1>10, <1>13, <1>15 DEF Held
<1>19. operList' = IF "o" \in row.modes THEN operList \cup {u} ELSE operList \ {u}
    BY <1>2, <1>11, <1>13, <1>15
<1>20. RowGood(row) BY <1>1, <1>15, <1>17 DEF RowGood, On
<1>21. RowStep(u, row) BY <1>6, <1>18, <1>19 DEF RowStep
<1> QED BY <1>3, <1>20, <1>21, OneChanges

LEMMA TailIn ==
  ASSUME NEW S, NEW s \in Seq(S), s # << >>
  PROVE  Head(s) \in S /\ Tail(s) \in Seq(S)
  OBVIOUS

\* Nothing changes but what is on its way.
LEMMA HomeStays ==
  ASSUME ModesConstants, HomeRight, user' = user, operList' = operList, confs' = confs, OpsStep
  PROVE  HomeRight'
<1>1. HomeTypeOK' BY DEF HomeRight, HomeTypeOK, OpsStep, OrderRow
<1>2. OpersRight' BY DEF HomeRight, OpersRight
<1>3. OffGone' BY DEF HomeRight, OffGone, On
<1>4. KeysOld'
  <2> SUFFICES ASSUME NEW k \in DOMAIN confs PROVE k[2] = MaxOps \/ k[2] < ops'
      BY DEF KeysOld
  <2>1. k[2] \in 0..MaxOps /\ ops \in 0..MaxOps BY DEF HomeRight, HomeTypeOK
  <2>2. k[2] = MaxOps \/ k[2] < ops BY DEF HomeRight, KeysOld
  <2> QED BY <2>1, <2>2 DEF OpsStep, ModesConstants
<1> QED BY <1>1, <1>2, <1>3, <1>4 DEF HomeRight

LEMMA RecvSvsmodeHome ==
  ASSUME ModesConstants, HomeRight, RecvSvsmode
  PROVE  HomeRight'
<1> DEFINE m == Head(toHome)
           u == m.u
           old == user[u].modes
           r == SvsAll(Start(old, user[u].host), m.cs, m.host, TRUE)
           gave == Given(m.cs)
           conf == IF r.down THEN NoBlock ELSE user[u].conf
           flags == IF r.down THEN {} ELSE user[u].flags
           given == (user[u].given \cup gave) \cap r.modes
           row == [user[u] EXCEPT !.modes = r.modes, !.host = r.host, !.flags = flags,
                                  !.conf = conf, !.given = given]
<1>1. toHome # << >> /\ toHome' = Tail(toHome) /\ ops' = ops BY DEF RecvSvsmode
<1>2. toHome \in Seq(OrderRow) /\ ops \in 0..MaxOps
    BY DEF HomeRight, HomeTypeOK, OrderRow
<1>3. m \in OrderRow /\ toHome' \in Seq(OrderRow) BY <1>1, <1>2, TailIn
<1>4. OpsStep
  <2>1. ops \in Int /\ ops >= ops BY <1>2
  <2> QED BY <1>1, <1>2, <1>3, <2>1 DEF OpsStep
<1>5. u \in Users /\ m.id \in 1..MaxOps /\ m.cs \in Orders /\ m.host \in Hosts
    BY <1>3 DEF OrderRow
<1>6. CASE user[u].id # m.id \/ m.ts \notin {0, user[u].ts}
  <2>1. user' = user /\ operList' = operList /\ confs' = confs BY <1>6 DEF RecvSvsmode
  <2> QED BY <1>4, <2>1, HomeStays
<1>7. CASE ~(user[u].id # m.id \/ m.ts \notin {0, user[u].ts})
  <2>1. /\ user' = [user EXCEPT ![u].modes = r.modes, ![u].host = r.host,
                      ![u].flags = IF r.down THEN {} ELSE @,
                      ![u].conf = IF r.down THEN NoBlock ELSE @,
                      ![u].given = (@ \cup gave) \cap r.modes]
        /\ operList' = IF r.down THEN operList \ {u} ELSE operList
        /\ confs' = IF r.down THEN Detached(confs, user[u].conf) ELSE confs
      BY <1>7 DEF RecvSvsmode, Given
  <2>2. user[u].id # 0 BY <1>5, <1>7
  <2> HIDE DEF m
  <2> HIDE DEF u
  <2>3. /\ user \in [Users -> UserRow] /\ user[u] \in UserRow /\ RowRight(user[u], confs)
        /\ ("o" \in user[u].modes <=> u \in operList)
      BY <1>5, HomeParts
  <2>4. /\ old \in SUBSET Range(Letters) /\ user[u].flags \in SUBSET STRING
        /\ user[u].given \in SUBSET Range(Letters) /\ user[u].host \in Hosts \cup {1}
        /\ user[u].conf \in (Blocks \X (0..MaxOps)) \cup {NoBlock}
      BY <2>3 DEF UserRow
  <2>5. r \in SvsKept(old, gave)
    <3>1. m.cs \in Seq(Changes) BY <1>5 DEF ModesConstants, Changes
    <3> QED BY <1>5, <2>4, <3>1, SvsAllKept
  <2>6. user' = [user EXCEPT ![u] = row] BY <1>5, <2>1, <2>3
  <2>7. /\ r.modes \in SUBSET Range(Letters) /\ r.host \in Hosts \cup {1}
        /\ "o" \in r.modes => "o" \in old
        /\ r.down = ("o" \in old /\ "o" \notin r.modes)
        /\ r.modes \subseteq old \cup gave
        /\ r.down => (OperOnly \cup {"a"}) \cap r.modes \subseteq gave
      BY <2>5 DEF SvsKept, Results
  <2> DEFINE new == r.modes
             host == r.host
             down == r.down
  <2>8. row = [user[u] EXCEPT !.modes = new, !.host = host, !.flags = flags,
                              !.conf = conf, !.given = given]
      OBVIOUS
  <2>9. down <=> "o" \in old /\ "o" \notin new BY <2>7
  <2>10. /\ new \in SUBSET Range(Letters) /\ host \in Hosts \cup {1}
         /\ ("o" \in new => "o" \in old) /\ new \subseteq old \cup gave
         /\ "o" \in old /\ "o" \notin new => (OperOnly \cup {"a"}) \cap new \subseteq gave
      BY <2>7
  <2>11. /\ flags = (IF "o" \in old /\ "o" \notin new THEN {} ELSE user[u].flags)
         /\ conf = (IF "o" \in old /\ "o" \notin new THEN NoBlock ELSE user[u].conf)
         /\ given = (user[u].given \cup gave) \cap new
      BY <2>9
  <2>12. IF "o" \in old /\ "o" \notin new
         THEN operList' = operList \ {u} /\ confs' = Detached(confs, user[u].conf)
         ELSE operList' = operList /\ confs' = confs
      BY <2>1, <2>9
  <2> HIDE DEF row, flags, conf, given, new, host, down, r, gave
  <2>13. flags \in SUBSET STRING /\ conf \in (Blocks \X (0..MaxOps)) \cup {NoBlock}
         /\ given \in SUBSET Range(Letters)
      BY <2>4, <2>10, <2>11
  <2>14. /\ row \in UserRow /\ row.modes = new /\ row.flags = flags /\ row.conf = conf
         /\ row.given = given /\ row.id = user[u].id
      BY <2>3, <2>8, <2>10, <2>13 DEF UserRow
  <2>15. /\ ("o" \in old <=> user[u].conf # NoBlock)
         /\ ("o" \in old => user[u].flags = confs[user[u].conf].flags)
         /\ "o" \notin old => /\ user[u].flags = {}
                              /\ OperOnly \cap old \subseteq user[u].given \cup OnConnect
                              /\ "a" \in old => "a" \in user[u].given
      BY <2>3 DEF RowRight
  <2>16. RowRight(row, confs)
    <3>1. CASE "o" \in new
      <4>1. conf = user[u].conf /\ flags = user[u].flags /\ conf # NoBlock
            /\ flags = confs[conf].flags
          BY <2>10, <2>11, <2>15, <3>1
      <4> QED BY <2>14, <3>1, <4>1 DEF RowRight
    <3>2. CASE "o" \notin new
      <4>1. conf = NoBlock /\ flags = {} BY <2>11, <2>15, <3>2
      <4>2. CASE "o" \in old
        <5>1. (OperOnly \cup {"a"}) \cap new \subseteq given BY <2>10, <2>11, <3>2, <4>2
        <5> QED BY <2>14, <3>2, <4>1, <5>1 DEF RowRight
      <4>3. CASE "o" \notin old
        <5>1. OperOnly \cap new \subseteq given \cup OnConnect
            BY <2>10, <2>11, <2>15, <4>3
        <5>2. "a" \in new => "a" \in given BY <2>10, <2>11, <2>15, <4>3
        <5> QED BY <2>14, <3>2, <4>1, <5>1, <5>2 DEF RowRight
      <4> QED BY <4>2, <4>3
    <3> QED BY <3>1, <3>2
  <2>17. Held(user[u], row) BY <2>11, <2>12, <2>14 DEF Held
  <2>18. operList' = IF "o" \in row.modes THEN operList \cup {u} ELSE operList \ {u}
      BY <2>3, <2>10, <2>12, <2>14
  <2>19. RowGood(row) BY <2>2, <2>14, <2>16 DEF RowGood
  <2>20. RowStep(u, row) BY <2>6, <2>17, <2>18 DEF RowStep
  <2> QED BY <1>4, <1>5, <2>19, <2>20, OneChanges
<1> QED BY <1>6, <1>7

LEMMA RehashHome ==
  ASSUME ModesConstants, HomeRight, NEW f \in Files, Rehash(f)
  PROVE  HomeRight'
<1> DEFINE keep == {x \in DOMAIN confs : confs[x].ref > 0}
           read == {<<b, ops>> : b \in DOMAIN f}
           fresh(k) == [for |-> f[k[1]].for, modes |-> f[k[1]].modes, flags |-> f[k[1]].flags,
                        key |-> f[k[1]].key, ref |-> 0, active |-> TRUE]
           aged(k) == [confs[k] EXCEPT !.active = FALSE]
<1>1. /\ Step /\ user' = user /\ operList' = operList /\ toHome' = toHome
      /\ confs' = [k \in keep \cup read |-> IF k \in DOMAIN confs THEN aged(k) ELSE fresh(k)]
    BY DEF Rehash
<1>2. /\ user \in [Users -> UserRow] /\ BlocksTyped(confs) /\ ConfsThere(user, confs)
      /\ operList \subseteq Users
    BY DEF HomeRight, HomeTypeOK, BlocksTyped, ConfsThere
<1>3. /\ \A w \in Users : ("o" \in user[w].modes <=> w \in operList) /\ RowRight(user[w], confs)
      /\ BlocksRight(user, confs)
    BY OpersParts DEF HomeRight
<1>4. OpsStep /\ ops' = ops + 1 /\ ops \in 0..MaxOps /\ ops < MaxOps BY <1>1, TimeGoes
\* What is read now is of no key in memory.
<1>5. ASSUME NEW k \in read PROVE k \notin DOMAIN confs /\ k[1] \in DOMAIN f /\ k[2] = ops
  <2>1. PICK b \in DOMAIN f : k = <<b, ops>> BY <1>5
  <2>2. k \in DOMAIN confs => k[2] = MaxOps \/ k[2] < ops BY DEF HomeRight, KeysOld
  <2> QED BY <1>4, <2>1, <2>2
<1>6. ASSUME NEW k \in keep
      PROVE  /\ k \in DOMAIN confs /\ aged(k) \in BlockRow /\ aged(k).ref = confs[k].ref
             /\ aged(k).flags = confs[k].flags /\ confs[k].ref > 0
  <2>1. k \in DOMAIN confs /\ confs[k] \in BlockRow BY <1>2, <1>6 DEF BlocksTyped
  <2> QED BY <1>6, <2>1 DEF BlockRow
<1>7. ASSUME NEW k \in read
      PROVE  fresh(k) \in BlockRow /\ fresh(k).ref = 0 /\ fresh(k).active
  <2>1. f[k[1]] \in Written BY <1>5 DEF ModesConstants
  <2> QED BY <2>1 DEF Written, BlockRow
<1>8. /\ DOMAIN confs' = keep \cup read
      /\ \A k \in keep : confs'[k] = aged(k) /\ k \in DOMAIN confs
      /\ \A k \in read : confs'[k] = fresh(k)
      /\ confs' = [k \in DOMAIN confs' |-> confs'[k]]
  <2>1. \A k \in keep : k \in DOMAIN confs OBVIOUS
  <2>2. \A k \in read : k \notin DOMAIN confs BY <1>5
  <2> HIDE DEF keep, read, fresh, aged
  <2> QED BY <1>1, <2>1, <2>2
<1>9. read \subseteq Blocks \X (0..MaxOps) BY <1>4 DEF Blocks
<1>10. keep \subseteq DOMAIN confs OBVIOUS
\* Who has a block keeps it.
<1>11. ASSUME NEW w \in Users, user[w].conf # NoBlock PROVE user[w].conf \in keep
  <2>1. user[w].conf \in DOMAIN confs BY <1>2, <1>11 DEF ConfsThere
  <2>2. w \in Holders(user, user[w].conf) BY DEF Holders
  <2>3. confs[user[w].conf].ref = Cardinality(Holders(user, user[w].conf))
      BY <1>3, <2>1 DEF BlocksRight
  <2>4. Cardinality(Holders(user, user[w].conf)) # 0
    <3>1. Holders(user, user[w].conf) # {} BY <2>2
    <3> QED BY <3>1, HoldersFinite, FS_EmptySet
  <2>5. Cardinality(Holders(user, user[w].conf)) \in Nat BY HoldersFinite
  <2> QED BY <2>1, <2>3, <2>4, <2>5
<1>12. NoBlock \notin read
  <2>1. \A b, n : <<b, n>> # << >>
    <3> SUFFICES ASSUME NEW b, NEW n PROVE <<b, n>> # << >>
        OBVIOUS
    <3>1. Len(<<b, n>>) = 2 /\ Len(<< >>) = 0 OBVIOUS
    <3> QED BY <3>1
  <2> QED BY <2>1 DEF NoBlock
<1> HIDE DEF keep, read, fresh, aged
<1>13. BlocksTyped(confs')
  <2>1. \A k \in DOMAIN confs' : confs'[k] \in BlockRow BY <1>6, <1>7, <1>8
  <2>2. DOMAIN confs' \subseteq Blocks \X (0..MaxOps)
      BY <1>2, <1>8, <1>9, <1>10 DEF BlocksTyped
  <2> QED BY <1>8, <2>1, <2>2 DEF BlocksTyped
<1>14. ConfsThere(user, confs') BY <1>8, <1>11 DEF ConfsThere
<1>15. HomeTypeOK'
    BY <1>1, <1>2, <1>4, <1>13, <1>14
    DEF HomeTypeOK, BlocksTyped, ConfsThere, OpsStep, OrderRow
<1>16. BlocksRight(user, confs')
  <2> SUFFICES ASSUME NEW k \in DOMAIN confs'
               PROVE  /\ confs'[k].ref = Cardinality(Holders(user, k))
                      /\ confs'[k].active \/ confs'[k].ref > 0
      BY DEF BlocksRight
  <2>1. CASE k \in keep
    <3>1. /\ k \in DOMAIN confs /\ confs'[k].ref = confs[k].ref /\ confs[k].ref > 0
        BY <1>6, <1>8, <2>1
    <3> QED BY <1>3, <3>1 DEF BlocksRight
  <2>2. CASE k \in read
    <3>1. confs'[k].ref = 0 /\ confs'[k].active BY <1>7, <1>8, <2>2
    <3>2. k # NoBlock /\ k \notin DOMAIN confs BY <1>5, <1>12, <2>2
    <3>3. Holders(user, k) = {} BY <1>2, <3>2 DEF Holders, ConfsThere
    <3>4. Cardinality(Holders(user, k)) = 0 BY <3>3, FS_EmptySet
    <3> QED BY <3>1, <3>4
  <2> QED BY <1>8, <2>1, <2>2
<1>17. ASSUME NEW w \in Users
       PROVE  ("o" \in user[w].modes <=> w \in operList') /\ RowRight(user[w], confs')
  <2>1. RowRight(user[w], confs) /\ ("o" \in user[w].modes <=> w \in operList) BY <1>3
  <2>2. user[w].conf # NoBlock => confs'[user[w].conf].flags = confs[user[w].conf].flags
      BY <1>6, <1>8, <1>11
  <2> QED BY <1>1, <2>1, <2>2 DEF RowRight
<1>18. OpersRight'
  <2>1. OpersRight' <=> /\ \A w \in Users : ("o" \in user'[w].modes <=> w \in operList')
                                             /\ RowRight(user'[w], confs')
                        /\ BlocksRight(user', confs')
      BY <1>15 DEF OpersRight, RowRight, BlocksRight, Holders
  <2> QED BY <1>1, <1>16, <1>17, <2>1
<1>19. OffGone' BY <1>1 DEF HomeRight, OffGone, On
<1>20. KeysOld'
  <2> SUFFICES ASSUME NEW k \in DOMAIN confs' PROVE k[2] = MaxOps \/ k[2] < ops'
      BY DEF KeysOld
  <2>1. CASE k \in read BY <1>4, <1>5, <2>1
  <2>2. CASE k \in keep
    <3>1. k \in DOMAIN confs /\ k[2] \in 0..MaxOps BY <1>2, <1>10, <2>2 DEF BlocksTyped
    <3>2. k[2] = MaxOps \/ k[2] < ops BY <3>1 DEF HomeRight, KeysOld
    <3> QED BY <1>4, <3>1, <3>2
  <2> QED BY <1>8, <2>1, <2>2
<1> QED BY <1>15, <1>18, <1>19, <1>20 DEF HomeRight

\* Services, the other side and the link: home is as it was.
LEMMA SvsmodeHome ==
  ASSUME ModesConstants, HomeInv, NEW u \in Users, NEW cs \in Orders, NEW h \in Hosts,
         NEW ts \in {0, view[u].ts}, Svsmode(u, cs, h, ts)
  PROVE  HomeRight'
<1> DEFINE m == [u |-> u, id |-> view[u].id, cs |-> cs, host |-> h, ts |-> ts]
<1>1. /\ Step /\ Known(u) /\ user' = user /\ operList' = operList /\ confs' = confs
      /\ toHome' = Append(toHome, m)
    BY DEF Svsmode
<1>2. ops \in 0..MaxOps /\ toHome \in Seq(OrderRow)
    BY DEF HomeInv, HomeRight, HomeTypeOK, OrderRow
<1>3. view[u].id \in 0..MaxOps /\ view[u].id # 0 /\ view[u].ts \in 0..MaxOps
    BY <1>1 DEF HomeInv, FarTyped, ViewRow, Known
<1>4. 0 \in 0..MaxOps /\ view[u].id \in 1..MaxOps BY <1>2, <1>3
<1>5. m \in OrderRow BY <1>3, <1>4 DEF OrderRow
<1> HIDE DEF m
<1>6. toHome' \in Seq(OrderRow) BY <1>1, <1>2, <1>5
<1>7. OpsStep BY <1>1, <1>2, <1>6 DEF OpsStep, Step, ModesConstants
<1> QED BY <1>1, <1>7, HomeStays DEF HomeInv

LEMMA RecvHome ==
  ASSUME ModesConstants, HomeRight, Recv
  PROVE  HomeRight'
<1>1. user' = user /\ operList' = operList /\ confs' = confs /\ toHome' = toHome /\ ops' = ops
    BY DEF Recv
<1>2. ops \in 0..MaxOps /\ toHome \in Seq(OrderRow) /\ ops >= ops
    BY DEF HomeRight, HomeTypeOK, OrderRow, ModesConstants
<1>3. OpsStep BY <1>1, <1>2 DEF OpsStep
<1> QED BY <1>1, <1>3, HomeStays

LEMMA RelinkHome ==
  ASSUME ModesConstants, HomeRight, Relink
  PROVE  HomeRight'
<1>1. user' = user /\ operList' = operList /\ confs' = confs /\ toHome' = << >> /\ Step
    BY DEF Relink
<1>2. ops \in 0..MaxOps /\ << >> \in Seq(OrderRow)
    BY DEF HomeRight, HomeTypeOK
<1>3. OpsStep BY <1>1, <1>2 DEF OpsStep, Step, ModesConstants
<1> QED BY <1>1, <1>3, HomeStays

-----------------------------------------------------------------------------
(* What far knows and what is on its way there *)

LEMMA SetToSeqIs ==
  ASSUME NEW S, IsFiniteSet(S)
  PROVE  SetToSeq(S) \in Seq(S)
<1>1. Cardinality(S) \in Nat /\ ExistsBijection(1..Cardinality(S), S) BY FS_CardinalityType
<1>2. PICK f : f \in [1..Cardinality(S) -> S] /\ IsInjective(f)
    BY <1>1 DEF ExistsBijection, Bijection, Injection
<1>3. SetToSeq(S) \in [1..Cardinality(S) -> S] BY <1>2 DEF SetToSeq
<1> QED BY <1>1, <1>3

LEMMA MessageKinds ==
  ASSUME NEW m \in FarMessages
  PROVE  /\ m.u \in Users /\ m.type \in {"uid", "mode", "nick", "quit"}
         /\ m.type = "uid" => m.id \in 1..MaxOps /\ m.ts \in 0..MaxOps
         /\ m.type = "nick" => m.ts \in 0..MaxOps
<1> DEFINE Uids == [type : {"uid"}, u : Users, id : 1..MaxOps, ts : 0..MaxOps,
                    modes : SUBSET Range(Letters), host : Hosts \cup {1}]
           Changed == [type : {"mode"}, u : Users, id : 0..MaxOps,
                       cs : {Diff(x, y) : x \in SUBSET Range(Letters), y \in SUBSET Range(Letters)}]
           Nicks == [type : {"nick"}, u : Users, id : 0..MaxOps, ts : 0..MaxOps]
           Quits == [type : {"quit"}, u : Users, id : 0..MaxOps]
<1>1. m \in Uids \/ m \in Changed \/ m \in Nicks \/ m \in Quits BY DEF FarMessages
<1>2. CASE m \in Uids BY <1>2
<1>3. CASE m \in Changed
  <2>1. m.type = "mode" /\ m.u \in Users BY <1>3
  <2> HIDE DEF Uids, Changed, Nicks, Quits
  <2> QED BY <2>1
<1>4. CASE m \in Nicks
  <2>1. m.type = "nick" /\ m.u \in Users /\ m.ts \in 0..MaxOps BY <1>4
  <2> HIDE DEF Uids, Changed, Nicks, Quits
  <2> QED BY <2>1
<1>5. CASE m \in Quits
  <2>1. m.type = "quit" /\ m.u \in Users BY <1>5
  <2> HIDE DEF Uids, Changed, Nicks, Quits
  <2> QED BY <2>1
<1> QED BY <1>1, <1>2, <1>3, <1>4, <1>5

\* Home sends something, or nothing.
LEMMA FarSent ==
  ASSUME FarTyped, view' = view, NEW s \in Seq(FarMessages), toFar' = toFar \o s
  PROVE  FarTyped'
  BY DEF FarTyped

LEMMA FarTold ==
  ASSUME FarTyped, view' = view, NEW m \in FarMessages, toFar' = Append(toFar, m)
  PROVE  FarTyped'
  BY DEF FarTyped

LEMMA FarUnchanged ==
  ASSUME FarTyped, view' = view, toFar' = toFar
  PROVE  FarTyped'
  BY DEF FarTyped

\* A row of the view changes.
LEMMA FarSees ==
  ASSUME FarTyped, NEW u \in Users, NEW row, ViewRow(row), view' = [view EXCEPT ![u] = row],
         toFar' \in Seq(FarMessages)
  PROVE  FarTyped'
<1>1. view = [w \in Users |-> view[w]] /\ \A w \in Users : ViewRow(view[w]) BY DEF FarTyped
<1>2. view'[u] = row /\ \A w \in Users \ {u} : view'[w] = view[w] BY <1>1
<1>3. view' = [w \in Users |-> view'[w]] BY <1>1
<1>4. \A w \in Users : ViewRow(view'[w]) BY <1>1, <1>2
<1> QED BY <1>3, <1>4 DEF FarTyped, ViewRow

LEMMA SomeModes ==
  ASSUME ModesConstants, HomeRight, NEW u \in Users, NEW new \in SUBSET Range(Letters)
  PROVE  ModesOf(u, user[u].modes, new) \in Seq(FarMessages)
<1> DEFINE old == user[u].modes
           d == Diff(old, new)
           m == [type |-> "mode", u |-> u, id |-> user[u].id, cs |-> d]
<1>1. user[u].id \in 0..MaxOps /\ old \in SUBSET Range(Letters)
    BY HomeParts DEF UserRow
<1>2. d \in {Diff(x, y) : x \in SUBSET Range(Letters), y \in SUBSET Range(Letters)} BY <1>1
<1> HIDE DEF d
<1>3. m \in [type : {"mode"}, u : Users, id : 0..MaxOps,
             cs : {Diff(x, y) : x \in SUBSET Range(Letters), y \in SUBSET Range(Letters)}]
    BY <1>1, <1>2
<1>4. m \in FarMessages BY <1>3 DEF FarMessages
<1>5. ModesOf(u, old, new) = IF old = new THEN << >> ELSE <<m>> BY DEF ModesOf, d
<1> HIDE DEF m
<1> QED BY <1>4, <1>5

LEMMA RegisterFar ==
  ASSUME ModesConstants, HomeInv, NEW u \in Users, Register(u)
  PROVE  FarTyped'
<1> DEFINE n == ops + 1
           m == [type |-> "uid", u |-> u, id |-> n, ts |-> n, modes |-> OnConnect, host |-> 1]
<1>1. Step /\ view' = view /\ toFar' = Append(toFar, m) /\ toHome' = toHome BY DEF Register
<1>2. n \in 1..MaxOps BY <1>1, TimeGoes DEF HomeInv
<1>3. n \in 0..MaxOps /\ OnConnect \in SUBSET Range(Letters)
    BY <1>2, LettersAre DEF ModesConstants
<1> HIDE DEF n
<1>4. m \in [type : {"uid"}, u : Users, id : 1..MaxOps, ts : 0..MaxOps,
             modes : SUBSET Range(Letters), host : Hosts \cup {1}]
    BY <1>2, <1>3
<1>5. m \in FarMessages BY <1>4 DEF FarMessages
<1> HIDE DEF m
<1> QED BY <1>1, <1>5, FarTold DEF HomeInv

LEMMA NickFar ==
  ASSUME ModesConstants, HomeInv, NEW u \in Users, Nick(u)
  PROVE  FarTyped'
<1> DEFINE n == ops + 1
           m == [type |-> "nick", u |-> u, id |-> user[u].id, ts |-> n]
<1>1. Step /\ view' = view /\ toFar' = Append(toFar, m) /\ toHome' = toHome BY DEF Nick
<1>2. n \in 1..MaxOps BY <1>1, TimeGoes DEF HomeInv
<1>3. n \in 0..MaxOps /\ user[u].id \in 0..MaxOps BY <1>2, HomeParts DEF HomeInv, UserRow
<1> HIDE DEF n
<1>4. m \in [type : {"nick"}, u : Users, id : 0..MaxOps, ts : 0..MaxOps] BY <1>3
<1>5. m \in FarMessages BY <1>4 DEF FarMessages
<1> HIDE DEF m
<1> QED BY <1>1, <1>5, FarTold DEF HomeInv

LEMMA ExitFar ==
  ASSUME ModesConstants, HomeInv, NEW u \in Users, Exit(u)
  PROVE  FarTyped'
<1> DEFINE m == [type |-> "quit", u |-> u, id |-> user[u].id]
<1>1. view' = view /\ toFar' = Append(toFar, m) BY DEF Exit
<1>2. user[u].id \in 0..MaxOps BY HomeParts DEF HomeInv, UserRow
<1>3. m \in [type : {"quit"}, u : Users, id : 0..MaxOps] BY <1>2
<1>4. m \in FarMessages BY <1>3 DEF FarMessages
<1> HIDE DEF m
<1> QED BY <1>1, <1>4, FarTold DEF HomeInv

\* The modes that a MODE or OPER leaves are typed with the user.
LEMMA OperUpFar ==
  ASSUME ModesConstants, HomeInv, HomeRight', NEW u \in Users, NEW k, NEW asked,
         OperUp(u, k, asked), view' = view
  PROVE  FarTyped'
<1> DEFINE b == confs[k]
           new == user[u].modes \cup {"o"} \cup (IF b.modes # {} THEN b.modes ELSE OperUmodes)
                    \cup (IF Admin \in user[u].flags \cup b.flags THEN {"a"} ELSE {})
<1>1. /\ user' = [user EXCEPT ![u].modes = new, ![u].flags = @ \cup b.flags, ![u].conf = k,
                              ![u].asked = asked]
      /\ toFar' = toFar \o ModesOf(u, user[u].modes, new)
    BY DEF OperUp
<1>2. user \in [Users -> UserRow] /\ user[u] \in UserRow BY HomeParts DEF HomeInv
<1>3. user'[u] \in UserRow BY DEF HomeRight, HomeTypeOK
<1> HIDE DEF new
<1>4. user'[u].modes = new BY <1>1, <1>2 DEF UserRow
<1>5. new \in SUBSET Range(Letters) BY <1>3, <1>4 DEF UserRow
<1>6. ModesOf(u, user[u].modes, new) \in Seq(FarMessages) BY <1>5, SomeModes DEF HomeInv
<1> QED BY <1>1, <1>6, FarSent DEF HomeInv

LEMMA ModeFar ==
  ASSUME ModesConstants, HomeInv, HomeRight', NEW u \in Users, NEW cs \in Asks, Mode(u, cs)
  PROVE  FarTyped'
<1> DEFINE old == user[u].modes
           r == OwnAll(Start(old, 1), cs)
           flags == IF r.down THEN {} ELSE user[u].flags
           new == IF Admin \in flags THEN r.modes ELSE r.modes \ {"a"}
           conf == IF r.down THEN NoBlock ELSE user[u].conf
           given == user[u].given \cap new
<1>1. /\ user' = [user EXCEPT ![u].modes = new, ![u].flags = flags,
                              ![u].conf = IF r.down THEN NoBlock ELSE @, ![u].given = @ \cap new]
      /\ toFar' = toFar \o ModesOf(u, old, new) /\ view' = view
    BY DEF Mode
<1>2. user \in [Users -> UserRow] /\ user[u] \in UserRow BY HomeParts DEF HomeInv
<1>3. user'[u] \in UserRow BY DEF HomeRight, HomeTypeOK
<1> HIDE DEF new, flags, r
<1>4. user'[u].modes = new BY <1>1, <1>2 DEF UserRow
<1>5. new \in SUBSET Range(Letters) BY <1>3, <1>4 DEF UserRow
<1>6. ModesOf(u, old, new) \in Seq(FarMessages) BY <1>5, SomeModes DEF HomeInv
<1> QED BY <1>1, <1>6, FarSent DEF HomeInv

LEMMA SvsmodeFar ==
  ASSUME ModesConstants, HomeInv, NEW u \in Users, NEW cs, NEW h, NEW ts, Svsmode(u, cs, h, ts)
  PROVE  FarTyped'
<1> DEFINE r == SvsAll(Start(view[u].modes, view[u].host), cs, h, FALSE)
           new == r.modes
           host == r.host
           row == [view[u] EXCEPT !.modes = new, !.host = host]
<1>1. /\ view' = [view EXCEPT ![u].modes = new, ![u].host = host] /\ toFar' = toFar
    BY DEF Svsmode
<1> HIDE DEF new, host
<1>2. /\ view = [w \in Users |-> view[w]] /\ ViewRow(view[u]) /\ toFar \in Seq(FarMessages)
    BY DEF HomeInv, FarTyped
<1>3. view' = [view EXCEPT ![u] = row] BY <1>1, <1>2
<1>4. ViewRow(row)
  <2> DEFINE i == view[u].id
             t == view[u].ts
             ms == view[u].modes
             hs == view[u].host
  <2>1. i \in 0..MaxOps /\ t \in 0..MaxOps
        /\ view[u] = [id |-> i, ts |-> t, modes |-> ms, host |-> hs]
      BY <1>2 DEF ViewRow
  <2> HIDE DEF i, t, ms, hs
  <2>2. row = [id |-> i, ts |-> t, modes |-> new, host |-> host]
    <3> DEFINE g == [view[u] EXCEPT !.modes = new]
    <3>1. g = [id |-> i, ts |-> t, modes |-> new, host |-> hs] BY <2>1
    <3>2. row = [g EXCEPT !.host = host] OBVIOUS
    <3> HIDE DEF g, row
    <3> QED BY <3>1, <3>2
  <2> HIDE DEF row
  <2> QED BY <2>1, <2>2 DEF ViewRow
<1> HIDE DEF row
<1> QED BY <1>1, <1>2, <1>3, <1>4, FarSees DEF HomeInv

LEMMA RecvFar ==
  ASSUME ModesConstants, HomeInv, Recv
  PROVE  FarTyped'
<1> DEFINE m == Head(toFar)
           u == m.u
           r == Compared(OtherAll(Start(view[u].modes, 1), m.cs), view[u].modes)
           new == r.modes
<1>1. toFar # << >> /\ toFar' = Tail(toFar) BY DEF Recv
<1>2. toFar \in Seq(FarMessages) BY DEF HomeInv, FarTyped
<1>3. m \in FarMessages /\ toFar' \in Seq(FarMessages) BY <1>1, <1>2, TailIn
<1>4. /\ u \in Users /\ m.type \in {"uid", "mode", "nick", "quit"}
      /\ m.type = "uid" => m.id \in 1..MaxOps /\ m.ts \in 0..MaxOps
      /\ m.type = "nick" => m.ts \in 0..MaxOps
    BY <1>3, MessageKinds
<1>5. /\ view = [w \in Users |-> view[w]] /\ ViewRow(view[u]) /\ 0 \in 0..MaxOps
    BY <1>4 DEF HomeInv, FarTyped, ModesConstants
<1>6. /\ m.type = "uid" => Seen(u, m)
      /\ m.type = "mode" => view' = [view EXCEPT ![u].modes = new]
      /\ m.type = "nick" => view' = [view EXCEPT ![u].ts = m.ts]
      /\ m.type = "quit" => Forgotten(u)
    BY <1>4 DEF Recv
<1> DEFINE ts == m.ts
           id == m.id
           i == view[u].id
           t == view[u].ts
           ms == view[u].modes
           hs == view[u].host
<1>7. i \in 0..MaxOps /\ t \in 0..MaxOps
      /\ view[u] = [id |-> i, ts |-> t, modes |-> ms, host |-> hs]
    BY <1>5 DEF ViewRow
<1>8. CASE m.type = "uid"
  <2> DEFINE row == [id |-> id, ts |-> ts, modes |-> m.modes, host |-> m.host]
  <2>1. view' = [view EXCEPT ![u] = row] BY <1>6, <1>8 DEF Seen
  <2>2. id \in 0..MaxOps /\ ts \in 0..MaxOps BY <1>4, <1>8
  <2>3. ViewRow(row) BY <2>2 DEF ViewRow
  <2> HIDE DEF row, m, u
  <2> QED BY <1>3, <1>4, <2>1, <2>3, FarSees DEF HomeInv
<1>9. CASE m.type = "mode"
  <2> DEFINE row == [view[u] EXCEPT !.modes = new]
  <2>1. view' = [view EXCEPT ![u].modes = new] BY <1>6, <1>9
  <2> HIDE DEF new, r, i, t, ms, hs, m, u
  <2>2. view' = [view EXCEPT ![u] = row] BY <2>1
  <2>3. row = [id |-> i, ts |-> t, modes |-> new, host |-> hs] BY <1>7
  <2> HIDE DEF row
  <2>4. ViewRow(row) BY <1>7, <2>3 DEF ViewRow
  <2> QED BY <1>3, <1>4, <2>2, <2>4, FarSees DEF HomeInv
<1>10. CASE m.type = "nick"
  <2> DEFINE row == [view[u] EXCEPT !.ts = ts]
  <2>1. view' = [view EXCEPT ![u].ts = ts] /\ ts \in 0..MaxOps BY <1>4, <1>6, <1>10
  <2> HIDE DEF ts, i, t, ms, hs, m, u
  <2>2. view' = [view EXCEPT ![u] = row] BY <2>1
  <2>3. row = [id |-> i, ts |-> ts, modes |-> ms, host |-> hs] BY <1>7
  <2> HIDE DEF row
  <2>4. ViewRow(row) BY <1>7, <2>1, <2>3 DEF ViewRow
  <2> QED BY <1>3, <1>4, <2>2, <2>4, FarSees DEF HomeInv
<1>11. CASE m.type = "quit"
  <2>1. view' = [view EXCEPT ![u] = Unseen] BY <1>6, <1>11 DEF Forgotten
  <2>2. ViewRow(Unseen) BY <1>5 DEF ViewRow, Unseen
  <2> HIDE DEF m, u
  <2> QED BY <1>3, <1>4, <2>1, <2>2, FarSees DEF HomeInv
<1> QED BY <1>4, <1>8, <1>9, <1>10, <1>11

LEMMA RelinkFar ==
  ASSUME ModesConstants, HomeInv, Relink
  PROVE  FarTyped'
<1> DEFINE S == {u \in Users : On(u)}
           there == SetToSeq(S)
           msg(u) == [type |-> "uid", u |-> u, id |-> user[u].id, ts |-> user[u].ts,
                      modes |-> user[u].modes, host |-> user[u].host]
<1>1. /\ view' = [u \in Users |-> Unseen]
      /\ toFar' = [k \in DOMAIN there |-> msg(there[k])]
    BY DEF Relink
<1>2. there \in Seq(S)
  <2>1. IsFiniteSet(S) BY FS_Subset DEF ModesConstants
  <2> QED BY <2>1, SetToSeqIs
<1>3. ASSUME NEW u \in S PROVE msg(u) \in FarMessages
  <2>1. /\ user[u].id \in 0..MaxOps /\ user[u].ts \in 0..MaxOps /\ user[u].id # 0
        /\ user[u].modes \in SUBSET Range(Letters) /\ user[u].host \in Hosts \cup {1}
      BY HomeParts DEF HomeInv, UserRow, On
  <2>2. user[u].id \in 1..MaxOps BY <2>1 DEF ModesConstants
  <2>3. msg(u) \in [type : {"uid"}, u : Users, id : 1..MaxOps, ts : 0..MaxOps,
                    modes : SUBSET Range(Letters), host : Hosts \cup {1}]
      BY <2>1, <2>2
  <2> HIDE DEF msg
  <2> QED BY <2>3 DEF FarMessages
<1>4. toFar' \in Seq(FarMessages)
  <2> HIDE DEF there, msg, S
  <2>1. DOMAIN there = 1..Len(there) /\ Len(there) \in Nat /\ \A k \in 1..Len(there) : there[k] \in S
      BY <1>2
  <2>2. toFar' \in [1..Len(there) -> FarMessages] BY <1>1, <1>3, <2>1
  <2> QED BY <2>1, <2>2
<1>5. 0 \in 0..MaxOps BY DEF ModesConstants
<1>6. ViewRow(Unseen) BY <1>5 DEF ViewRow, Unseen
<1>7. view' = [u \in Users |-> view'[u]] /\ \A u \in Users : ViewRow(view'[u]) BY <1>1, <1>6
<1> QED BY <1>4, <1>7 DEF FarTyped, ViewRow

-----------------------------------------------------------------------------
(* The theorems *)

LEMMA HomeStart == ASSUME ModesConstants, ModesInit PROVE HomeInv
<1>1. PICK f \in Files :
        confs = [k \in {<<b, MaxOps>> : b \in DOMAIN f} |->
                  [for |-> f[k[1]].for, modes |-> f[k[1]].modes, flags |-> f[k[1]].flags,
                   key |-> f[k[1]].key, ref |-> 0, active |-> TRUE]]
    BY DEF ModesInit
<1>2. /\ user = [u \in Users |-> Gone] /\ view = [u \in Users |-> Unseen] /\ operList = {}
      /\ toFar = << >> /\ toHome = << >> /\ ops = 0
    BY DEF ModesInit
<1>3. 0 \in 0..MaxOps /\ MaxOps \in 0..MaxOps BY DEF ModesConstants
<1> DEFINE read == {<<b, MaxOps>> : b \in DOMAIN f}
           fresh(k) == [for |-> f[k[1]].for, modes |-> f[k[1]].modes, flags |-> f[k[1]].flags,
                        key |-> f[k[1]].key, ref |-> 0, active |-> TRUE]
<1>4. ASSUME NEW k \in read PROVE k \in Blocks \X (0..MaxOps) /\ k[1] \in DOMAIN f /\ k[2] = MaxOps
    BY <1>3 DEF Blocks
<1>5. ASSUME NEW k \in read
      PROVE  fresh(k) \in BlockRow /\ fresh(k).ref = 0 /\ fresh(k).active
  <2>1. f[k[1]] \in Written BY <1>4 DEF ModesConstants
  <2> QED BY <2>1 DEF Written, BlockRow
<1>6. confs = [k \in read |-> fresh(k)] BY <1>1
<1> HIDE DEF read, fresh
<1>7. BlocksTyped(confs) BY <1>4, <1>5, <1>6 DEF BlocksTyped
<1>8. Gone \in UserRow /\ Gone.conf = NoBlock /\ Gone.modes = {} BY GoneTyped DEF Gone
<1>9. HomeTypeOK
  <2>1. << >> \in Seq(OrderRow) OBVIOUS
  <2> QED BY <1>2, <1>3, <1>7, <1>8, <2>1 DEF HomeTypeOK, BlocksTyped, OrderRow
<1>10. BlocksRight(user, confs)
  <2> SUFFICES ASSUME NEW k \in DOMAIN confs
               PROVE  /\ confs[k].ref = Cardinality(Holders(user, k))
                      /\ confs[k].active \/ confs[k].ref > 0
      BY DEF BlocksRight
  <2>1. confs[k].ref = 0 /\ confs[k].active BY <1>5, <1>6
  <2>2. k # NoBlock BY <1>7, NoBlockIsNone
  <2>3. Holders(user, k) = {} BY <1>2, <1>8, <2>2 DEF Holders
  <2> QED BY <2>1, <2>3, FS_EmptySet
<1>11. \A u \in Users : ("o" \in user[u].modes <=> u \in operList) /\ RowRight(user[u], confs)
  <2>1. RowRight(Gone, confs) BY DEF RowRight, Gone
  <2> QED BY <1>2, <1>8, <2>1
<1>12. OpersRight BY <1>9, <1>10, <1>11, OpersParts
<1>13. OffGone BY <1>2 DEF OffGone
<1>14. KeysOld BY <1>4, <1>6 DEF KeysOld
<1>15. FarTyped
  <2>1. ViewRow(Unseen) BY <1>3 DEF ViewRow, Unseen
  <2> QED BY <1>2, <2>1 DEF FarTyped
<1> QED BY <1>9, <1>12, <1>13, <1>14, <1>15 DEF HomeInv, HomeRight

LEMMA HomeStep == ASSUME ModesConstants, HomeInv, ModesNext PROVE HomeInv'
<1> USE DEF HomeInv
<1>1. ASSUME NEW u \in Users, Register(u) PROVE HomeInv'
    BY <1>1, RegisterHome, RegisterFar
<1>2. ASSUME NEW u \in Users, Nick(u) PROVE HomeInv'
    BY <1>2, NickHome, NickFar
<1>3. ASSUME NEW u \in Users, Exit(u) PROVE HomeInv'
    BY <1>3, ExitHome, ExitFar
<1>4. ASSUME NEW u \in Users, Answer(u) PROVE HomeInv'
  <2>1. HomeRight' BY <1>4, AnswerHome
  <2>2. OperUp(u, Find(user[u].asked), Nobody) /\ view' = view BY <1>4 DEF Answer
  <2> QED BY <2>1, <2>2, OperUpFar
<1>5. ASSUME NEW u \in Users, NEW b \in Blocks, Oper(u, b) PROVE HomeInv'
  <2>1. HomeRight' BY <1>5, OperHome
  <2>2. OperUp(u, Find(b), user[u].asked) /\ view' = view BY <1>5 DEF Oper
  <2> QED BY <2>1, <2>2, OperUpFar
<1>6. ASSUME NEW u \in Users, NEW b \in Blocks, Challenge(u, b) PROVE HomeInv'
  <2>1. HomeRight' BY <1>6, ChallengeHome
  <2>2. view' = view /\ toFar' = toFar BY <1>6 DEF Challenge
  <2> QED BY <2>1, <2>2, FarUnchanged
<1>7. ASSUME NEW u \in Users, NEW cs \in Asks, Mode(u, cs) PROVE HomeInv'
  <2>1. HomeRight' BY <1>7, ModeHome
  <2> QED BY <1>7, <2>1, ModeFar
<1>8. ASSUME NEW u \in Users, NEW cs \in Orders, NEW h \in Hosts, NEW ts \in {0, view[u].ts},
             Svsmode(u, cs, h, ts)
      PROVE  HomeInv'
    BY <1>8, SvsmodeHome, SvsmodeFar
<1>9. ASSUME NEW f \in Files, Rehash(f) PROVE HomeInv'
  <2>1. HomeRight' BY <1>9, RehashHome
  <2>2. view' = view /\ toFar' = toFar BY <1>9 DEF Rehash
  <2> QED BY <2>1, <2>2, FarUnchanged
<1>10. ASSUME RecvSvsmode PROVE HomeInv'
  <2>1. HomeRight' BY <1>10, RecvSvsmodeHome
  <2>2. view' = view /\ toFar' = toFar BY <1>10 DEF RecvSvsmode
  <2> QED BY <2>1, <2>2, FarUnchanged
<1>11. ASSUME Recv PROVE HomeInv'
    BY <1>11, RecvHome, RecvFar
<1>12. ASSUME Relink PROVE HomeInv'
    BY <1>12, RelinkHome, RelinkFar
<1> QED BY <1>1, <1>2, <1>3, <1>4, <1>5, <1>6, <1>7, <1>8, <1>9, <1>10, <1>11, <1>12 DEF ModesNext

LEMMA HomeStutters == ASSUME HomeInv, UNCHANGED modeVars PROVE HomeInv'
<1>1. /\ user' = user /\ view' = view /\ operList' = operList /\ confs' = confs
      /\ toFar' = toFar /\ toHome' = toHome /\ ops' = ops
    BY DEF modeVars
<1>2. FarTyped' BY <1>1, FarUnchanged DEF HomeInv
<1>3. HomeTypeOK' BY <1>1 DEF HomeInv, HomeRight, HomeTypeOK
<1>4. OpersRight' BY <1>1 DEF HomeInv, HomeRight, OpersRight
<1>5. OffGone' /\ KeysOld' BY <1>1 DEF HomeInv, HomeRight, OffGone, On, KeysOld
<1> QED BY <1>2, <1>3, <1>4, <1>5 DEF HomeInv, HomeRight

LEMMA HomeAlways == ModesSpec => []HomeInv
<1>1. ModesInit => HomeInv BY HomeStart, ModesConstants
<1>2. HomeInv /\ [ModesNext]_modeVars => HomeInv' BY HomeStep, HomeStutters, ModesConstants
<1> QED BY <1>1, <1>2, PTL DEF ModesSpec

\* What home knows of its users, its oper{} blocks and its list of operators, and every
\* SVSMODE on its way to it, is of its kind, and a user's block is in memory (m_oper.c,
\* m_svsmode.c, conf.c detach_conf).
THEOREM OpersTyped == ModesSpec => []HomeTypeOK
<1>1. HomeInv => HomeTypeOK BY DEF HomeInv, HomeRight
<1> QED BY <1>1, HomeAlways, PTL

\* Whatever OPER, CHALLENGE, MODE, SVSMODE, rehashes and exits do in whatever order: who is an
\* operator has a block in memory, its flags and a place in oper_list; who is one no longer has
\* no flag, none of the modes that only operators have, +a included, but what services gave;
\* and a block counts those who have it and is freed with its last (m_oper.c oper_up,
\* m_mode.c set_user_mode, m_svsmode.c:64, conf.c detach_conf).
THEOREM OpersAlwaysRight == ModesSpec => []OpersRight
<1>1. HomeInv => OpersRight BY DEF HomeInv, HomeRight
<1> QED BY <1>1, HomeAlways, PTL

-----------------------------------------------------------------------------
(***************************************************************************)
(* Accounts, for every set of requests, names and passwords.  The keys of    *)
(* the table keep names and addresses apart; a name that was told stays in   *)
(* the row that was made for it, as nobody but an admin changes names.       *)
(***************************************************************************)

\* The row made for a name that was told is still there, as it was made.
RowKept == \A t \in told : t[1] \notin touched =>
             \E id \in DOMAIN users : users[id].name = t[1] /\ users[id].pass = Html[t[2]]
AccountsInv == AccountsTypeOK /\ Unique /\ MainAdmin /\ RowKept

LEMMA InitAccounts == AccountsInit => AccountsInv
<1> SUFFICES ASSUME AccountsInit PROVE AccountsInv
    OBVIOUS
<1>1. PICK name \in Usernames, mail \in Mails, pass \in Passwords :
        users = [id \in {1} |-> [name |-> name, pass |-> pass, mail |-> mail,
                                 banned |-> FALSE, access |-> TRUE, addr |-> ""]]
    BY DEF AccountsInit
<1>2. DOMAIN users = {1} /\ users[1] \in Row /\ users[1].access /\ ~users[1].banned
    BY <1>1 DEF Row
<1>3. users \in [DOMAIN users -> Row] BY <1>1, <1>2
<1>4. AccountsTypeOK
  <2>1. nextUser = 2 /\ edits = 0 /\ told = {} BY DEF AccountsInit
  <2>2. at = [w \in Requests |-> "idle"] /\ sent = [w \in Requests |-> NoSession]
      BY DEF AccountsInit, NoneRuns
  <2>3. DOMAIN users \subseteq 1..(nextUser - 1) /\ nextUser \in 2..(MaxUsers + 1)
      BY <1>2, <2>1, AccountsConstants
  <2>4. edits \in 0..MaxEdits /\ told \subseteq Usernames \X Passwords
      BY <2>1, AccountsConstants
  <2> QED BY <1>3, <2>2, <2>3, <2>4 DEF AccountsTypeOK
<1>5. Unique /\ MainAdmin /\ RowKept
    BY <1>2 DEF AccountsInit, Unique, MainAdmin, RowKept
<1> QED BY <1>4, <1>5 DEF AccountsInv

LEMMA EditsBounded ==
  edits \in 0..MaxEdits /\ edits < MaxEdits /\ edits' = edits + 1 => edits' \in 0..MaxEdits
  BY AccountsConstants

\* What a request goes on with is what it read or was sent.
LEMMA CreateSelectKeeps ==
  ASSUME AccountsInv, NEW w \in Requests, NEW name \in Usernames, NEW pass \in Passwords,
         NEW mail \in Mails, CreateSelect(w, name, pass, mail)
  PROVE  AccountsInv'
<1>1. AccountsTypeOK' BY DEF CreateSelect, GoesTo, AccountsInv, AccountsTypeOK, Row
<1>2. (Unique /\ MainAdmin /\ RowKept)'
    BY DEF CreateSelect, AccountsInv, Unique, MainAdmin, RowKept
<1> QED BY <1>1, <1>2 DEF AccountsInv

LEMMA LoginSelectKeeps ==
  ASSUME AccountsInv, NEW w \in Requests, NEW p \in Players, NEW name \in Usernames,
         NEW pass \in Passwords, LoginSelect(w, p, name, pass)
  PROVE  AccountsInv'
<1>1. PICK id \in Matching(name, pass) :
        sent' = [sent EXCEPT ![w] = [name |-> name, pass |-> pass, player |-> p,
                                     banned |-> users[id].banned]]
    BY DEF LoginSelect
<1>2. users[id].banned \in BOOLEAN
    BY DEF Matching, AccountsInv, AccountsTypeOK, Row
<1>3. AccountsTypeOK'
    BY <1>1, <1>2 DEF LoginSelect, GoesTo, AccountsInv, AccountsTypeOK, Row
<1>4. (Unique /\ MainAdmin /\ RowKept)'
    BY DEF LoginSelect, AccountsInv, Unique, MainAdmin, RowKept
<1> QED BY <1>3, <1>4 DEF AccountsInv

LEMMA CreateInsertKeeps ==
  ASSUME AccountsInv, NEW w \in Requests, CreateInsert(w)
  PROVE  AccountsInv'
<1> USE DEF AccountsInv
<1>1. CASE Clash(0, sent[w].name, sent[w].mail)
  <2>1. UNCHANGED <<users, nextUser, told, touched, session, edits>>
      BY <1>1 DEF CreateInsert
  <2>2. AccountsTypeOK' BY <2>1 DEF CreateInsert, Ends, GoesTo, AccountsTypeOK, Row
  <2>3. (Unique /\ MainAdmin /\ RowKept)' BY <2>1 DEF Unique, MainAdmin, RowKept
  <2> QED BY <2>2, <2>3
<1>2. CASE ~Clash(0, sent[w].name, sent[w].mail)
  <2> DEFINE a == sent[w]
             row == [name |-> a.name, pass |-> Html[a.pass], mail |-> a.mail, banned |-> FALSE,
                     access |-> FALSE, addr |-> ""]
  <2>1. /\ nextUser <= MaxUsers /\ nextUser' = nextUser + 1
        /\ users' = [id \in DOMAIN users \cup {nextUser} |->
                       IF id = nextUser THEN row ELSE users[id]]
        /\ told' = {t \in told : t[1] # a.name} \cup {<<a.name, a.pass>>}
        /\ touched' = touched \ {a.name}
        /\ UNCHANGED edits
      BY <1>2 DEF CreateInsert, Entered
  <2>2. a.name \in Usernames /\ a.pass \in Passwords /\ a.mail \in Mails
      BY DEF CreateInsert, AccountsTypeOK
  <2>3. row \in Row BY <2>2 DEF Row
  <2>4. nextUser \in Nat /\ nextUser >= 2 /\ nextUser \notin DOMAIN users /\ 0 \notin DOMAIN users
      BY AccountsConstants DEF AccountsTypeOK
  <2>5. \A i \in DOMAIN users : users[i].name # a.name /\ users[i].mail # a.mail
      BY <1>2, <2>4 DEF Clash
  <2>6. /\ DOMAIN users' = DOMAIN users \cup {nextUser}
        /\ users'[nextUser] = row
        /\ \A i \in DOMAIN users : users'[i] = users[i]
      BY <2>1, <2>4
  <2>7. AccountsTypeOK'
    <3>1. users' \in [DOMAIN users' -> Row] BY <2>1, <2>3, <2>6 DEF AccountsTypeOK
    <3>2. told' \subseteq Usernames \X Passwords
      <4>1. <<a.name, a.pass>> \in Usernames \X Passwords BY <2>2
      <4>2. told \subseteq Usernames \X Passwords BY DEF AccountsTypeOK
      <4>3. told' \subseteq told \cup {<<a.name, a.pass>>} BY <2>1
      <4> QED BY <4>1, <4>2, <4>3
    <3>3. DOMAIN users' \subseteq 1..(nextUser' - 1) /\ nextUser' \in 2..(MaxUsers + 1)
      <4>1. DOMAIN users \subseteq 1..(nextUser - 1) /\ MaxUsers \in Nat
          BY AccountsConstants DEF AccountsTypeOK
      <4>2. nextUser' = nextUser + 1 /\ nextUser <= MaxUsers BY <2>1
      <4>3. DOMAIN users' = DOMAIN users \cup {nextUser} BY <2>6
      <4> HIDE DEF a, row, AccountsInv
      <4> QED BY <2>4, <4>1, <4>2, <4>3
    <3>4. /\ DOMAIN at' = Requests /\ DOMAIN sent' = Requests
          /\ at'[w] = "idle"
          /\ \A x \in Requests \ {w} : at'[x] = at[x] /\ sent'[x] = sent[x]
        BY DEF CreateInsert, Ends, GoesTo, AccountsTypeOK
    <3> HIDE DEF row
    <3> QED BY <2>1, <3>1, <3>2, <3>3, <3>4 DEF AccountsTypeOK
  <2>8. Unique'
    <3> SUFFICES ASSUME NEW i \in DOMAIN users', NEW j \in DOMAIN users', i # j
                 PROVE  users'[i].name # users'[j].name /\ users'[i].mail # users'[j].mail
        BY DEF Unique
    <3>1. users'[nextUser].name = a.name /\ users'[nextUser].mail = a.mail
      <4>1. row.name = a.name /\ row.mail = a.mail OBVIOUS
      <4> HIDE DEF row, a
      <4> QED BY <2>6, <4>1
    <3>2. CASE i = nextUser BY <2>5, <2>6, <3>1, <3>2
    <3>3. CASE j = nextUser BY <2>5, <2>6, <3>1, <3>3
    <3>4. CASE i # nextUser /\ j # nextUser
      <4>1. i \in DOMAIN users /\ j \in DOMAIN users BY <2>6, <3>4
      <4>2. users[i].name # users[j].name /\ users[i].mail # users[j].mail
          BY <4>1 DEF Unique
      <4> QED BY <2>6, <4>1, <4>2
    <3> QED BY <3>2, <3>3, <3>4
  <2>9. MainAdmin' BY <2>4, <2>6 DEF MainAdmin
  <2>10. RowKept'
    <3> SUFFICES ASSUME NEW t \in told', t[1] \notin touched'
                 PROVE  \E id \in DOMAIN users' :
                          users'[id].name = t[1] /\ users'[id].pass = Html[t[2]]
        BY <2>1 DEF RowKept
    <3>1. CASE t = <<a.name, a.pass>>
      <4>1. t[1] = a.name /\ t[2] = a.pass BY <3>1
      <4>2. row.name = a.name /\ row.pass = Html[a.pass] OBVIOUS
      <4> HIDE DEF row, a
      <4>3. nextUser \in DOMAIN users' /\ users'[nextUser] = row BY <2>6
      <4> QED BY <4>1, <4>2, <4>3
    <3>2. CASE t \in told /\ t[1] # a.name
      <4>1. t[1] \notin touched BY <2>1, <3>2
      <4>2. PICK id \in DOMAIN users : users[id].name = t[1] /\ users[id].pass = Html[t[2]]
          BY <3>2, <4>1 DEF RowKept
      <4> QED BY <4>2, <2>6
    <3> QED BY <2>1, <3>1, <3>2
  <2> QED BY <2>7, <2>8, <2>9, <2>10
<1> QED BY <1>1, <1>2

LEMMA LoginUpdateKeeps ==
  ASSUME AccountsInv, NEW w \in Requests, LoginUpdate(w)
  PROVE  AccountsInv'
<1> USE DEF AccountsInv
<1>1. sent[w].player \in Players /\ UNCHANGED <<nextUser, edits, told, touched>>
    BY DEF LoginUpdate, AccountsTypeOK
<1>2. users' = [id \in DOMAIN users |->
                  IF users[id].name = sent[w].name THEN [users[id] EXCEPT !.addr = sent[w].player]
                  ELSE users[id]]
    BY DEF LoginUpdate
<1>3. \A i \in DOMAIN users :
        /\ users[i] \in Row /\ users'[i] \in Row
        /\ users'[i].name = users[i].name /\ users'[i].mail = users[i].mail
        /\ users'[i].pass = users[i].pass /\ users'[i].access = users[i].access
        /\ users'[i].banned = users[i].banned
  <2> SUFFICES ASSUME NEW i \in DOMAIN users
               PROVE  /\ users[i] \in Row /\ users'[i] \in Row
                      /\ users'[i].name = users[i].name /\ users'[i].mail = users[i].mail
                      /\ users'[i].pass = users[i].pass /\ users'[i].access = users[i].access
                      /\ users'[i].banned = users[i].banned
      OBVIOUS
  <2>1. users[i] \in Row BY DEF AccountsTypeOK
  <2>2. CASE users'[i] = users[i] BY <2>1, <2>2
  <2>3. CASE users'[i] = [users[i] EXCEPT !.addr = sent[w].player]
      BY <1>1, <2>1, <2>3 DEF Row
  <2> QED BY <1>2, <2>2, <2>3
<1>4. DOMAIN users' = DOMAIN users BY <1>2
<1>5. AccountsTypeOK'
  <2>1. users' \in [DOMAIN users' -> Row] BY <1>2, <1>3, <1>4
  <2>2. /\ DOMAIN at' = Requests /\ DOMAIN sent' = Requests
        /\ at'[w] = "idle"
        /\ \A x \in Requests \ {w} : at'[x] = at[x] /\ sent'[x] = sent[x]
      BY DEF LoginUpdate, Ends, GoesTo, AccountsTypeOK
  <2> QED BY <1>1, <1>4, <2>1, <2>2 DEF AccountsTypeOK
<1>6. (Unique /\ MainAdmin /\ RowKept)'
    BY <1>1, <1>3, <1>4 DEF Unique, MainAdmin, RowKept
<1> QED BY <1>5, <1>6

\* An admin keeps the keys, and touches the names of a row that changes.
LEMMA UpdateUserKeeps ==
  ASSUME AccountsInv, NEW id \in 1..MaxUsers, NEW name \in Usernames,
         NEW pass \in Passwords \cup {""}, NEW mail \in Mails, NEW banned \in BOOLEAN,
         NEW access \in BOOLEAN, UpdateUser(id, name, pass, mail, banned, access)
  PROVE  AccountsInv'
<1> USE DEF AccountsInv
<1>1. /\ id \in DOMAIN users /\ edits < MaxEdits /\ edits' = edits + 1
      /\ UNCHANGED <<nextUser, at, sent, session, told>>
      /\ touched' = touched \cup {name, users[id].name}
    BY DEF UpdateUser, AdminEdit
<1>2. \A i \in DOMAIN users \ {id} : users[i].name # name /\ users[i].mail # mail
    BY DEF UpdateUser, Clash
<1>3. users[id] \in Row BY <1>1 DEF AccountsTypeOK
<1>4. /\ DOMAIN users' = DOMAIN users
      /\ \A i \in DOMAIN users \ {id} : users'[i] = users[i]
      /\ users'[id].name = name /\ users'[id].mail = mail
      /\ users'[id].banned = (banned /\ id # 1) /\ users'[id].access = (access \/ id = 1)
      /\ users'[id] \in Row
  <2> DEFINE new == [users[id] EXCEPT !.name = name, !.mail = mail,
                                      !.pass = IF pass = "" THEN @ ELSE pass,
                                      !.banned = banned /\ id # 1, !.access = access \/ id = 1]
  <2>1. users' = [users EXCEPT ![id] = new] BY <1>1 DEF UpdateUser, AccountsTypeOK
  <2>2. new \in Row /\ new.name = name /\ new.mail = mail
        /\ new.banned = (banned /\ id # 1) /\ new.access = (access \/ id = 1)
      BY <1>3 DEF Row
  <2> HIDE DEF new
  <2> QED BY <1>1, <2>1, <2>2 DEF AccountsTypeOK
<1>5. AccountsTypeOK'
  <2>1. users' \in [DOMAIN users -> Row]
    <3>1. users' = [i \in DOMAIN users' |-> users'[i]] BY DEF UpdateUser, AccountsTypeOK
    <3> QED BY <1>4, <3>1 DEF AccountsTypeOK
  <2>2. edits' \in 0..MaxEdits
    <3>1. edits \in 0..MaxEdits BY DEF AccountsTypeOK
    <3>2. edits < MaxEdits /\ edits' = edits + 1 BY <1>1
    <3> QED BY <3>1, <3>2, EditsBounded
  <2> QED BY <1>1, <1>4, <2>1, <2>2 DEF AccountsTypeOK
<1>6. Unique'
  <2> SUFFICES ASSUME NEW i \in DOMAIN users', NEW j \in DOMAIN users', i # j
               PROVE  users'[i].name # users'[j].name /\ users'[i].mail # users'[j].mail
      BY DEF Unique
  <2>1. CASE i = id BY <1>2, <1>4, <2>1
  <2>2. CASE j = id BY <1>2, <1>4, <2>2
  <2>3. CASE i # id /\ j # id BY <1>4, <2>3 DEF Unique
  <2> QED BY <2>1, <2>2, <2>3
<1>7. MainAdmin' BY <1>1, <1>4 DEF MainAdmin
<1>8. RowKept'
  <2> SUFFICES ASSUME NEW t \in told, t[1] \notin touched'
               PROVE  \E i \in DOMAIN users' :
                        users'[i].name = t[1] /\ users'[i].pass = Html[t[2]]
      BY <1>1 DEF RowKept
  <2>1. PICK i \in DOMAIN users : users[i].name = t[1] /\ users[i].pass = Html[t[2]]
      BY <1>1 DEF RowKept
  <2>2. i # id BY <1>1, <2>1
  <2> QED BY <1>4, <2>1, <2>2
<1> QED BY <1>5, <1>6, <1>7, <1>8

LEMMA DeleteUserKeeps ==
  ASSUME AccountsInv, NEW id \in 1..MaxUsers, DeleteUser(id)
  PROVE  AccountsInv'
<1> USE DEF AccountsInv
<1>1. /\ id \in DOMAIN users /\ id # 1 /\ edits < MaxEdits /\ edits' = edits + 1
      /\ UNCHANGED <<nextUser, at, sent, session, told>>
      /\ touched' = touched \cup {users[id].name}
      /\ users' = [i \in DOMAIN users \ {id} |-> users[i]]
    BY DEF DeleteUser, AdminEdit
<1>2. DOMAIN users' = DOMAIN users \ {id} /\ \A i \in DOMAIN users' : users'[i] = users[i]
    BY <1>1
<1>3. AccountsTypeOK'
  <2>1. users' \in [DOMAIN users' -> Row] BY <1>1, <1>2 DEF AccountsTypeOK
  <2>2. edits' \in 0..MaxEdits
    <3>1. edits \in 0..MaxEdits BY DEF AccountsTypeOK
    <3>2. edits < MaxEdits /\ edits' = edits + 1 BY <1>1
    <3> QED BY <3>1, <3>2, EditsBounded
  <2> QED BY <1>1, <1>2, <2>1, <2>2 DEF AccountsTypeOK
<1>4. (Unique /\ MainAdmin)' BY <1>1, <1>2 DEF Unique, MainAdmin
<1>5. RowKept'
  <2> SUFFICES ASSUME NEW t \in told, t[1] \notin touched'
               PROVE  \E i \in DOMAIN users' :
                        users'[i].name = t[1] /\ users'[i].pass = Html[t[2]]
      BY <1>1 DEF RowKept
  <2>1. PICK i \in DOMAIN users : users[i].name = t[1] /\ users[i].pass = Html[t[2]]
      BY <1>1 DEF RowKept
  <2>2. i # id BY <1>1, <2>1
  <2> QED BY <1>2, <2>1, <2>2
<1> QED BY <1>3, <1>4, <1>5

LEMMA NextAccounts == AccountsInv /\ [AccountsNext]_accountVars => AccountsInv'
<1> SUFFICES ASSUME AccountsInv, [AccountsNext]_accountVars PROVE AccountsInv'
    OBVIOUS
<1>1. CASE UNCHANGED accountVars
    BY <1>1 DEF accountVars, AccountsInv, AccountsTypeOK, Unique, MainAdmin, RowKept
<1>2. CASE AccountsNext
    BY <1>2, CreateSelectKeeps, LoginSelectKeeps, CreateInsertKeeps, LoginUpdateKeeps,
       UpdateUserKeeps, DeleteUserKeeps DEF AccountsNext
<1> QED BY <1>1, <1>2

\* One row has a name, and the row made for it the password that was told.
LEMMA RowLogsIn == AccountsInv => AccountsRight
<1> SUFFICES ASSUME AccountsInv, NEW t \in told, t[1] \notin touched, Html[t[2]] = t[2]
             PROVE  Cardinality(Matching(t[1], t[2])) = 1
    BY DEF AccountsInv, AccountsRight, CanLogIn
<1>1. PICK id \in DOMAIN users : users[id].name = t[1] /\ users[id].pass = Html[t[2]]
    BY DEF AccountsInv, RowKept
<1>2. Matching(t[1], t[2]) = {id} BY <1>1 DEF Matching, AccountsInv, Unique
<1> QED BY <1>2, FS_Singleton

\* The rows, and what each request goes on with, keep their types (Login.php,
\* CreateUserAccount.php, userSettings.php).
THEOREM AccountsTyped == AccountsSpec => []AccountsTypeOK
<1>1. AccountsInv => AccountsTypeOK BY DEF AccountsInv
<1> QED BY InitAccounts, NextAccounts, <1>1, PTL DEF AccountsSpec

\* However requests interleave, names and addresses are unique, whoever was told "User
\* created" can log in, and the first account stays an admin (CreateUserAccount.php 24,
\* userSettings.php 274).
THEOREM AccountsAlwaysRight == AccountsSpec => []AccountsRight
  BY InitAccounts, NextAccounts, RowLogsIn, PTL DEF AccountsSpec
=============================================================================

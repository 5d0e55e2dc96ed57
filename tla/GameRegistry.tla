---------------------------- MODULE GameRegistry ----------------------------
(***************************************************************************)
(* The hosted-game list of the WWP web server: Game.php, GameList.php and   *)
(* cleanOldGames.php over the tables HostGames and EncryptedHost.           *)
(*                                                                         *)
(* Every request runs in a PHP worker.  The tables are MyISAM (install.php  *)
(* 65-94): a statement is atomic, a request is not, so each action below is *)
(* one statement and the statements of two requests interleave.  A SELECT   *)
(* that only guards the DELETE after it is one step with it: removing a row *)
(* that is already gone changes nothing.  Requests that userAuth or the     *)
(* session-address test refuse change nothing and are left out.             *)
(***************************************************************************)
EXTENDS Integers, FiniteSets, Functions

CONSTANTS Workers,     \* PHP workers, each serving one request at a time
          Names,       \* game names a client can send
          MaxGames,    \* bound on the games ever created (auto_increment)
          Expire,      \* the 300 seconds of cleanOldGames.php, in ticks
          MaxAborts    \* bound on requests cut short by die($con->error)

ASSUME GameBounds == /\ MaxGames \in Nat \ {0}
                     /\ Expire \in Nat
                     /\ MaxAborts \in Nat

Ids == 1..MaxGames
NoId == 0

VARIABLES hosted,     \* HostGames: GameID -> Name
          listed,     \* EncryptedHost: the GameIDs that have a row
          nextId,     \* AUTO_INCREMENT of HostGames; MyISAM never reuses one
          age,        \* ticks since time() was read for the game, capped
          pc,         \* what each worker does next
          arg,        \* GameID the worker is about
          todo,       \* rows of the cleaner's result set not yet fetched
          known,      \* history: GameIDs a host was told (SetGameId header)
          early,      \* history: games closed before that, between their INSERTs
          stale,      \* history: expired rows when the worker's SELECT ran
          cut,        \* history: games whose deletion was cut short
          aborts      \* requests cut short so far

vars == <<hosted, listed, nextId, age, pc, arg, todo, known, early, stale, cut, aborts>>

\* Faulty variant: the limit is compared with = instead of >.
OldOnce(id) == age[id] = Expire - 1

Old(id) == age[id] > Expire

TypeOK ==
  /\ DOMAIN hosted \subseteq Ids /\ Range(hosted) \subseteq Names
  /\ listed \subseteq Ids /\ known \subseteq Ids
  /\ early \subseteq Ids /\ cut \subseteq Ids
  /\ nextId \in 1..(MaxGames + 1)
  /\ age \in [Ids -> 0..(Expire + 1)]
  /\ pc \in [Workers -> {"idle", "insertEnc", "deleteEnc", "clean",
                         "cleanHost", "list"}]
  /\ arg \in [Workers -> Ids \cup {NoId}]
  /\ todo \in [Workers -> SUBSET Ids] /\ stale \in [Workers -> SUBSET Ids]
  /\ aborts \in 0..MaxAborts

Init ==
  /\ hosted = <<>> /\ listed = {} /\ known = {} /\ early = {} /\ cut = {}
  /\ nextId = 1 /\ aborts = 0
  /\ age = [id \in Ids |-> 0]
  /\ pc = [w \in Workers |-> "idle"]
  /\ arg = [w \in Workers |-> NoId]
  /\ todo = [w \in Workers |-> {}] /\ stale = [w \in Workers |-> {}]

Goto(w, l) == pc' = [pc EXCEPT ![w] = l]

-----------------------------------------------------------------------------
(* Game.php, Cmd=Create: addGameToTable *)

\* Faulty variant: insert_id is not read back.
InsertHostNoId(w, n) ==
  /\ pc[w] = "idle" /\ nextId <= MaxGames
  /\ hosted' = [id \in DOMAIN hosted \cup {nextId} |->
                  IF id = nextId THEN n ELSE hosted[id]]
  /\ nextId' = nextId + 1
  /\ Goto(w, "insertEnc")
  /\ UNCHANGED <<listed, age, arg, todo, known, early, stale, cut, aborts>>

InsertHost(w, n) ==
  /\ pc[w] = "idle" /\ nextId <= MaxGames
  /\ hosted' = [id \in DOMAIN hosted \cup {nextId} |->
                  IF id = nextId THEN n ELSE hosted[id]]
  /\ nextId' = nextId + 1
  /\ arg' = [arg EXCEPT ![w] = nextId]
  /\ Goto(w, "insertEnc")
  /\ UNCHANGED <<listed, age, todo, known, early, stale, cut, aborts>>

InsertEncrypted(w) ==
  /\ pc[w] = "insertEnc"
  /\ listed' = listed \cup {arg[w]}
  /\ known' = known \cup {arg[w]}
  /\ arg' = [arg EXCEPT ![w] = NoId]
  /\ Goto(w, "idle")
  /\ UNCHANGED <<hosted, nextId, age, todo, early, stale, cut, aborts>>

-----------------------------------------------------------------------------
(* Game.php, Cmd=Close, Delete and Failed: deleteGame *)

\* Close and Delete: the HostGames row goes only when the name matches too.  The
\* GameID is the client's: nothing says that a host was ever told it.
DeleteHost(w, id, n) ==
  /\ pc[w] = "idle"
  /\ hosted' = Restrict(hosted, {i \in DOMAIN hosted : ~(i = id /\ hosted[i] = n)})
  /\ early' = early \cup (DOMAIN hosted \ (DOMAIN hosted' \cup known))
  /\ arg' = [arg EXCEPT ![w] = id]
  /\ Goto(w, "deleteEnc")
  /\ UNCHANGED <<listed, nextId, age, todo, known, stale, cut, aborts>>

\* Failed skips the HostGames statements.
FailGame(w, id) ==
  /\ pc[w] = "idle"
  /\ arg' = [arg EXCEPT ![w] = id]
  /\ Goto(w, "deleteEnc")
  /\ UNCHANGED <<hosted, listed, nextId, age, todo, known, early, stale, cut, aborts>>

DeleteEncrypted(w) ==
  /\ pc[w] = "deleteEnc"
  /\ listed' = listed \ {arg[w]}
  /\ arg' = [arg EXCEPT ![w] = NoId]
  /\ Goto(w, "idle")
  /\ UNCHANGED <<hosted, nextId, age, todo, known, early, stale, cut, aborts>>

-----------------------------------------------------------------------------
(* GameList.php: cleanOldGames.php and then the listing itself *)

CleanSelect(w) ==
  /\ pc[w] = "idle"
  /\ todo' = [todo EXCEPT ![w] = listed]
  /\ stale' = [stale EXCEPT ![w] = {id \in listed : Old(id)}]
  /\ Goto(w, "clean")
  /\ UNCHANGED <<hosted, listed, nextId, age, arg, known, early, cut, aborts>>

\* Faulty variant: the HostGames row is deleted first.
CleanRowHostFirst(w, id) ==
  /\ pc[w] = "clean" /\ id \in todo[w]
  /\ todo' = [todo EXCEPT ![w] = @ \ {id}]
  /\ IF Old(id)
       THEN /\ hosted' = Restrict(hosted, DOMAIN hosted \ {id})
            /\ arg' = [arg EXCEPT ![w] = id]
            /\ Goto(w, "cleanHost")
       ELSE UNCHANGED <<hosted, arg, pc>>
  /\ UNCHANGED <<listed, nextId, age, known, early, stale, cut, aborts>>

\* Faulty variant: every row of the snapshot is deleted, whatever its age.
CleanRowAnyAge(w, id) ==
  /\ pc[w] = "clean" /\ id \in todo[w]
  /\ todo' = [todo EXCEPT ![w] = @ \ {id}]
  /\ listed' = listed \ {id}
  /\ arg' = [arg EXCEPT ![w] = id]
  /\ Goto(w, "cleanHost")
  /\ UNCHANGED <<hosted, nextId, age, known, early, stale, cut, aborts>>

\* time() is read again for every fetched row.
CleanRow(w, id) ==
  /\ pc[w] = "clean" /\ id \in todo[w]
  /\ todo' = [todo EXCEPT ![w] = @ \ {id}]
  /\ IF Old(id)
       THEN /\ listed' = listed \ {id}
            /\ arg' = [arg EXCEPT ![w] = id]
            /\ Goto(w, "cleanHost")
       ELSE UNCHANGED <<listed, arg, pc>>
  /\ UNCHANGED <<hosted, nextId, age, known, early, stale, cut, aborts>>

CleanHost(w) ==
  /\ pc[w] = "cleanHost"
  /\ hosted' = Restrict(hosted, DOMAIN hosted \ {arg[w]})
  /\ arg' = [arg EXCEPT ![w] = NoId]
  /\ Goto(w, "clean")
  /\ UNCHANGED <<listed, nextId, age, todo, known, early, stale, cut, aborts>>

\* Faulty variant: only the first row is looked at (if instead of while).
CleanDoneEarly(w) ==
  /\ pc[w] = "clean"
  /\ Goto(w, "list")
  /\ UNCHANGED <<hosted, listed, nextId, age, arg, todo, known, early, stale, cut, aborts>>

CleanDone(w) ==
  /\ pc[w] = "clean" /\ todo[w] = {}
  /\ Goto(w, "list")
  /\ UNCHANGED <<hosted, listed, nextId, age, arg, todo, known, early, stale, cut, aborts>>

\* The reply is the set listed of this step.
ListGames(w) ==
  /\ pc[w] = "list"
  /\ stale' = [stale EXCEPT ![w] = {}]
  /\ Goto(w, "idle")
  /\ UNCHANGED <<hosted, listed, nextId, age, arg, todo, known, early, cut, aborts>>

-----------------------------------------------------------------------------
\* query() ... or die(): the request ends where it is, nothing is rolled back.
Abort(w) ==
  /\ pc[w] # "idle" /\ aborts < MaxAborts
  /\ aborts' = aborts + 1
  /\ cut' = IF arg[w] # NoId THEN cut \cup {arg[w]} ELSE cut
  /\ arg' = [arg EXCEPT ![w] = NoId]
  /\ todo' = [todo EXCEPT ![w] = {}] /\ stale' = [stale EXCEPT ![w] = {}]
  /\ Goto(w, "idle")
  /\ UNCHANGED <<hosted, listed, nextId, age, known, early>>

Tick ==
  /\ \E id \in Ids : id < nextId /\ age[id] <= Expire
  /\ age' = [id \in Ids |-> IF id < nextId /\ age[id] <= Expire
                              THEN age[id] + 1 ELSE age[id]]
  /\ UNCHANGED <<hosted, listed, nextId, pc, arg, todo, known, early, stale, cut, aborts>>

Work(w) == \/ InsertEncrypted(w)
           \/ DeleteEncrypted(w)
           \/ \E id \in Ids : CleanRow(w, id)
           \/ CleanHost(w)
           \/ CleanDone(w)
           \/ ListGames(w)

Next ==
  \/ \E w \in Workers :
       \/ \E n \in Names : InsertHost(w, n)
       \/ \E n \in Names, id \in Ids : DeleteHost(w, id, n)
       \/ \E id \in Ids : FailGame(w, id)
       \/ CleanSelect(w)
       \/ Work(w)
       \/ Abort(w)
  \/ Tick

Spec == Init /\ [][Next]_vars

\* A worker that serves a request goes on with it, time passes, and players
\* keep asking for the list (the lobby polls GameList.php): requests wait for a
\* worker in the order they come, so theirs is served however busy the others are.
FairSpec == /\ Spec
            /\ WF_vars(Tick)
            /\ \A w \in Workers : WF_vars(Work(w))
            /\ SF_vars(\E w \in Workers : CleanSelect(w))

-----------------------------------------------------------------------------
\* A game players can still see has its HostGames row, unless a Close or a Delete
\* of that very game is between its two statements or died there, or took the row
\* before the game's Create had come to its second INSERT (Game.php 73-101, 103-142
\* and cleanOldGames.php order their statements differently, and any interleave).
ListedHasHost ==
  \A id \in listed :
    \/ id \in DOMAIN hosted
    \/ id \in cut \cup early
    \/ \E w \in Workers : pc[w] = "deleteEnc" /\ arg[w] = id

\* The list GameList.php sends has no game that was already expired when its
\* cleanup ran, whatever other requests did between the two.
FreshListing ==
  \A w \in Workers : pc[w] = "list" => stale[w] \cap listed = {}

\* The cleanup of a stale snapshot never takes the HostGames row of a game
\* younger than the limit: only the owner's Close or Delete does.
CleanTakesOnlyOld ==
  [][\A w \in Workers : \A id \in DOMAIN hosted :
       (pc[w] = "cleanHost" /\ pc'[w] = "clean" /\ id \notin DOMAIN hosted')
         => Old(id)]_vars

\* While players poll the list no game stays on it for ever.
ListedExpires == \A id \in Ids : (id \in listed) ~> (id \notin listed)

\* cleanOldGames.php 3: "This code clean the old games on our database".
HostedExpires ==
  \A id \in Ids : (id \in DOMAIN hosted) ~> (id \notin DOMAIN hosted)
=============================================================================

---------------------------- MODULE ClientProofs ----------------------------
(***************************************************************************)
(* Proofs about the clients of a server, for any finite sets of connections  *)
(* and of remote users: ClientLife first, then Access.                      *)
(*                                                                         *)
(* ClientLife.  The invariant says of every struct what its status and its   *)
(* two flags mean for the lists: closing and dead_list go together, so       *)
(* exit_client is idempotent, and a struct on the abort list is dead, so it  *)
(* gets there once.                                                         *)
(*                                                                         *)
(* Access.  For any number of addresses, classes and rehashes, of whoever    *)
(* becomes a user every step was done, and what he counts for is counted     *)
(* once until he leaves.  What carries them: how far a connection is says    *)
(* what it counts for (Fit); and a rehash finds a struct that nobody uses    *)
(* for its auth{} block (Spare), so that the block and the class a user was  *)
(* attached to stay what they were for him.  The subnets of a class count    *)
(* its users, each once (SubnetsInv), while every file limits them by masks  *)
(* of one length.                                                          *)
(***************************************************************************)
EXTENDS ClientLife, Access, FiniteSetTheorems, SequenceTheorems, TLAPS

\* TypeOK without the counters, which are natural because of Counted.
Types ==
  /\ status \in [All -> Unregistered \cup {"free", "client", "server"}]
  /\ dead \subseteq All /\ closing \subseteq Conns /\ finished \subseteq Conns
  /\ auth_pending_list \subseteq Conns /\ unknown_list \subseteq Conns
  /\ local_client_list \subseteq Conns /\ local_server_list \subseteq Conns
  /\ behind \in [Conns -> SUBSET Remotes] /\ hash \subseteq All
  /\ abort_list \in [Conns -> Nat] /\ dead_list \in [All -> Nat]
  /\ turn \in {"handlers", "abort"}

ConnLists(c) ==
  /\ c \in unknown_list <=> status[c] \in Unregistered /\ c \notin closing
  /\ c \in local_client_list <=> status[c] = "client" /\ c \notin closing
  /\ c \in local_server_list <=> status[c] = "server" /\ c \notin closing
  /\ c \in auth_pending_list => c \in unknown_list /\ status[c] = "unknown"
  /\ c \in auth_pending_list => c \notin finished
  /\ behind[c] # {} => c \in local_server_list

ConnFlags(c) ==
  /\ status[c] = "free" => c \notin dead \cup finished \cup hash /\ abort_list[c] = 0
  /\ c \in closing => status[c] # "free" /\ c \in dead /\ c \notin hash
  /\ dead_list[c] = IF c \in closing THEN 1 ELSE 0
  /\ abort_list[c] \in {0, 1} /\ (abort_list[c] = 1 => c \in dead)

RemoteOK(r) ==
  /\ status[r] \in {"free", "client"}
  /\ r \in dead => status[r] = "client"
  /\ dead_list[r] = IF r \in dead THEN 1 ELSE 0
  /\ r \in hash <=> status[r] = "client" /\ r \notin dead
  /\ r \in hash <=> \E s \in Conns : r \in behind[s]
  /\ \A s, t \in Conns : r \in behind[s] /\ r \in behind[t] => s = t

SInv == /\ Types
        /\ \A c \in Conns : ConnLists(c) /\ ConnFlags(c)
        /\ \A r \in Remotes : RemoteOK(r)

Known == UNION {behind[s] : s \in Conns}

IInv == SInv /\ Counted /\ Limits

USE Structs

-----------------------------------------------------------------------------
LEMMA InitInv == Init => IInv
<1> SUFFICES ASSUME Init PROVE IInv OBVIOUS
<1>1. Types BY DEF Init, Types
<1>2. \A c \in Conns : ConnLists(c) /\ ConnFlags(c)
  BY DEF Init, ConnLists, ConnFlags, Unregistered, All
<1>3. \A r \in Remotes : RemoteOK(r) BY DEF Init, RemoteOK, All
<1>4. Counted /\ Limits
  <2>1. UNION {behind[s] : s \in Conns} = {} BY DEF Init
  <2> QED BY <2>1, FS_EmptySet DEF Init, Counted, Limits
<1> QED BY <1>1, <1>2, <1>3, <1>4 DEF IInv, SInv

\* A connection that is exited, from whatever handler, and taken from the abort
\* list or not.
LEMMA ExitConnInv ==
  ASSUME SInv, NEW c \in Conns, status[c] # "free", ExitConn(c),
         status' = status, finished' = finished, turn' \in {"handlers", "abort"},
         abort_list' \in {abort_list, [abort_list EXCEPT ![c] = @ - 1]},
         abort_list'[c] # abort_list[c] => abort_list[c] > 0
  PROVE SInv'
<1> USE DEF SInv
<1>0. abort_list' \in [Conns -> Nat] /\ \A d \in Conns : abort_list'[d] = abort_list[d] \/
           (d = c /\ abort_list[d] = 1 /\ abort_list'[d] = 0)
  <2>1. CASE abort_list' = abort_list BY <2>1 DEF Types
  <2>2. CASE abort_list' = [abort_list EXCEPT ![c] = @ - 1]
    <3>1. abort_list[c] \in Nat /\ abort_list'[c] = abort_list[c] - 1
      BY <2>2 DEF Types
    <3>2. abort_list[c] = 1 BY <3>1 DEF ConnFlags
    <3> QED BY <2>2, <3>1, <3>2 DEF Types
  <2> QED BY <2>1, <2>2
<1>1. CASE c \in closing
  <2>1. UNCHANGED <<dead, closing, lists, counts, dead_list>> BY <1>1 DEF ExitConn
  <2>2. Types' BY <1>0, <2>1 DEF Types, lists
  <2>3. \A d \in Conns : ConnLists(d)' /\ ConnFlags(d)'
    BY <1>0, <2>1 DEF ConnLists, ConnFlags, lists
  <2>4. \A r \in Remotes : RemoteOK(r)' BY <2>1 DEF RemoteOK, lists
  <2> QED BY <2>2, <2>3, <2>4
<1>2. CASE c \notin closing
  <2> DEFINE gone == IF status[c] = "server" THEN behind[c] ELSE {}
  <2>1. /\ closing' = closing \cup {c}
        /\ auth_pending_list' = auth_pending_list \ {c}
        /\ unknown_list' = unknown_list \ {c}
        /\ local_client_list' = local_client_list \ {c}
        /\ local_server_list' = local_server_list \ {c}
        /\ behind' = [behind EXCEPT ![c] = {}]
    BY <1>2 DEF ExitConn, ConnLists, Unregistered
  <2>2. /\ dead' = dead \cup {c} \cup gone
        /\ dead_list' = [x \in All |-> IF x \in {c} \cup gone THEN dead_list[x] + 1
                                       ELSE dead_list[x]]
        /\ hash' = hash \ ({c} \cup gone)
    BY <1>2 DEF ExitConn, Buried
  <2>3. gone = behind[c] /\ gone \subseteq Remotes
    BY DEF ConnLists, Types
  <2>4. Types' BY <1>0, <2>1, <2>2, <2>3 DEF Types, All
  <2>5. ASSUME NEW d \in Conns PROVE ConnLists(d)' /\ ConnFlags(d)'
    <3>1. d \notin gone BY <2>3
    <3>2. ConnLists(d)' BY <2>1, <3>1 DEF ConnLists, Types
    <3>3. dead_list'[d] = IF d = c THEN dead_list[d] + 1 ELSE dead_list[d]
      BY <2>2, <3>1 DEF All
    <3>4. ConnFlags(d)' BY <1>0, <1>2, <2>1, <2>2, <3>1, <3>3 DEF ConnFlags
    <3> QED BY <3>2, <3>4
  <2>6. ASSUME NEW r \in Remotes PROVE RemoteOK(r)'
    <3>1. r # c OBVIOUS
    <3>2. dead_list'[r] = IF r \in gone THEN dead_list[r] + 1 ELSE dead_list[r]
      BY <2>2, <3>1 DEF All
    <3>3. r \in gone => r \in hash /\ r \notin dead BY <2>3 DEF RemoteOK
    <3>4. \A s \in Conns : r \in behind'[s] <=> r \in behind[s] /\ s # c
      BY <2>1 DEF Types
    <3>5. r \in gone <=> r \in behind[c] BY <2>3
    <3>6. r \in hash' <=> r \in hash /\ r \notin gone BY <2>2, <3>1
    <3>7. r \in dead' <=> r \in dead \/ r \in gone BY <2>2, <3>1
    <3>8. /\ status'[r] \in {"free", "client"}
          /\ r \in dead' => status'[r] = "client"
          /\ dead_list'[r] = IF r \in dead' THEN 1 ELSE 0
          /\ r \in hash' <=> status'[r] = "client" /\ r \notin dead'
      BY <3>2, <3>3, <3>6, <3>7 DEF RemoteOK
    <3>9. /\ r \in hash' <=> \E s \in Conns : r \in behind'[s]
          /\ \A s, t \in Conns : r \in behind'[s] /\ r \in behind'[t] => s = t
      BY <3>4, <3>5, <3>6 DEF RemoteOK
    <3> QED BY <3>8, <3>9 DEF RemoteOK
  <2> QED BY <2>4, <2>5, <2>6
<1> QED BY <1>1, <1>2

\* A user of another server that is killed or quits.
LEMMA ExitRemoteInv ==
  ASSUME SInv, NEW x \in Remotes, x \in hash, ExitRemote(x),
         UNCHANGED <<status, finished, abort_list, turn>>
  PROVE SInv'
<1> USE DEF SInv
<1>1. /\ dead' = dead \cup {x}
      /\ dead_list' = [y \in All |-> IF y \in {x} THEN dead_list[y] + 1 ELSE dead_list[y]]
      /\ hash' = hash \ {x}
      /\ behind' = [s \in Conns |-> behind[s] \ {x}]
      /\ UNCHANGED <<closing, auth_pending_list, unknown_list, local_client_list,
                     local_server_list>>
  BY DEF ExitRemote, Buried
<1>2. Types' BY <1>1 DEF Types, All
<1>3. \A d \in Conns : ConnLists(d)' /\ ConnFlags(d)'
  BY <1>1 DEF ConnLists, ConnFlags, All
<1>4. ASSUME NEW r \in Remotes PROVE RemoteOK(r)'
  <2>1. dead_list'[r] = IF r = x THEN dead_list[r] + 1 ELSE dead_list[r]
    BY <1>1 DEF All
  <2>2. \A s \in Conns : r \in behind'[s] <=> r \in behind[s] /\ r # x
    BY <1>1
  <2>3. x \notin dead BY DEF RemoteOK
  <2> QED BY <1>1, <2>1, <2>2, <2>3 DEF RemoteOK
<1> QED BY <1>2, <1>3, <1>4

\* Every exit of a connection from a handler.
LEMMA ExitsInv ==
  ASSUME SInv, NEW c \in Conns, ExitConn(c), status[c] # "free",
         UNCHANGED <<status, finished, abort_list, turn>>
  PROVE SInv'
<1>1. turn' \in {"handlers", "abort"} BY DEF SInv, Types
<1> QED BY <1>1, ExitConnInv

\* A client in a list, and one that can be found, has not been freed.
LEMMA ListedNotFree ==
  ASSUME SInv, NEW c \in Conns,
         c \in unknown_list \cup local_client_list \cup local_server_list \cup hash
  PROVE status[c] # "free"
  BY DEF SInv, ConnLists, ConnFlags, Unregistered

LEMMA HandlerInv == ASSUME SInv, NEW c \in Conns, Handler(c) PROVE SInv'
<1> USE DEF SInv
<1>u. \A r \in Remotes : r # c OBVIOUS
<1>1. CASE Accept(c)
  <2>1. Types' BY <1>1 DEF Accept, Types, flags, counts, All, Unregistered
  <2>2. \A d \in Conns : ConnLists(d)' /\ ConnFlags(d)'
    BY <1>1 DEF Accept, Types, flags, counts, All, Unregistered, ConnLists, ConnFlags
  <2>3. \A r \in Remotes : RemoteOK(r)'
    BY <1>1, <1>u DEF Accept, Types, flags, counts, All, RemoteOK
  <2> QED BY <2>1, <2>2, <2>3
<1>2. CASE ServConnect(c)
  <2>1. Types' BY <1>2 DEF ServConnect, Types, flags, counts, All, Unregistered
  <2>2. \A d \in Conns : ConnLists(d)' /\ ConnFlags(d)'
    BY <1>2 DEF ServConnect, Types, flags, counts, All, Unregistered, ConnLists, ConnFlags
  <2>3. \A r \in Remotes : RemoteOK(r)'
    BY <1>2, <1>u DEF ServConnect, Types, flags, counts, All, RemoteOK
  <2> QED BY <2>1, <2>2, <2>3
<1>3. CASE Connected(c)
  <2>1. Types' BY <1>3 DEF Connected, Types, flags, lists, counts, All, Unregistered
  <2>2. \A d \in Conns : ConnLists(d)' /\ ConnFlags(d)'
    BY <1>3 DEF Connected, Types, flags, lists, counts, All, Unregistered, ConnLists,
                ConnFlags
  <2>3. \A r \in Remotes : RemoteOK(r)'
    BY <1>3, <1>u DEF Connected, Types, flags, lists, counts, All, RemoteOK
  <2> QED BY <2>1, <2>2, <2>3
<1>4. CASE Overflow(c)
  <2>1. Types' BY <1>4 DEF Overflow, Types, lists, counts, All
  <2>2. \A d \in Conns : ConnLists(d)' /\ ConnFlags(d)'
    BY <1>4 DEF Overflow, Types, lists, Defunct, ConnLists, ConnFlags
  <2>3. \A r \in Remotes : RemoteOK(r)'
    BY <1>4, <1>u DEF Overflow, lists, RemoteOK
  <2> QED BY <2>1, <2>2, <2>3
<1>5. CASE ConnectFailed(c) BY <1>4, <1>5 DEF ConnectFailed
<1>6. CASE AuthDone(c)
  <2>1. Types' BY <1>6 DEF AuthDone, Types
  <2>2. \A d \in Conns : ConnLists(d)' /\ ConnFlags(d)'
    BY <1>6 DEF AuthDone, Types, Unregistered, ConnLists, ConnFlags
  <2>3. \A r \in Remotes : RemoteOK(r)' BY <1>6 DEF AuthDone, RemoteOK
  <2> QED BY <2>1, <2>2, <2>3
<1>7. CASE Nick(c)
  <2>1. Types' BY <1>7 DEF Nick, Types, flags, counts, All
  <2>2. \A d \in Conns : ConnLists(d)' /\ ConnFlags(d)'
    BY <1>7 DEF Nick, flags, Defunct, Unregistered, ConnLists, ConnFlags
  <2>3. \A r \in Remotes : RemoteOK(r)' BY <1>7, <1>u DEF Nick, flags, RemoteOK
  <2> QED BY <2>1, <2>2, <2>3
<1>8. ASSUME NEW exempt \in BOOLEAN, Register(c, exempt) PROVE SInv'
  <2>1. CASE /\ status' = [status EXCEPT ![c] = "client"]
             /\ unknown_list' = unknown_list \ {c}
             /\ local_client_list' = local_client_list \cup {c}
             /\ UNCHANGED <<flags, auth_pending_list, local_server_list, behind, hash,
                            abort_list, dead_list, turn>>
    <3>1. Types' BY <2>1 DEF Types, flags, All
    <3>2. \A d \in Conns : ConnLists(d)' /\ ConnFlags(d)'
      BY <1>8, <2>1 DEF Register, Types, flags, Defunct, All, Unregistered, ConnLists,
                        ConnFlags
    <3>3. \A r \in Remotes : RemoteOK(r)' BY <2>1, <1>u DEF Types, flags, All, RemoteOK
    <3> QED BY <3>1, <3>2, <3>3
  <2>2. CASE ExitConn(c) /\ UNCHANGED <<status, finished, abort_list, turn>>
    BY <1>8, <2>2, ExitsInv, ListedNotFree DEF Register
  <2> QED BY <1>8, <2>1, <2>2 DEF Register
<1>9. CASE ServerEstab(c)
  <2>1. CASE /\ status' = [status EXCEPT ![c] = "server"]
             /\ unknown_list' = unknown_list \ {c}
             /\ local_server_list' = local_server_list \cup {c}
             /\ hash' = hash \cup {c}
             /\ UNCHANGED <<flags, auth_pending_list, local_client_list, behind,
                            abort_list, dead_list, turn>>
    <3>1. Types' BY <2>1 DEF Types, flags, All
    <3>2. \A d \in Conns : ConnLists(d)' /\ ConnFlags(d)'
      BY <1>9, <2>1 DEF ServerEstab, Types, flags, Defunct, All, Unregistered, ConnLists,
                        ConnFlags
    <3>3. \A r \in Remotes : RemoteOK(r)' BY <2>1, <1>u DEF Types, flags, All, RemoteOK
    <3> QED BY <3>1, <3>2, <3>3
  <2>2. CASE ExitConn(c) /\ UNCHANGED <<status, finished, abort_list, turn>>
    BY <1>9, <2>2, ExitsInv, ListedNotFree DEF ServerEstab
  <2> QED BY <1>9, <2>1, <2>2 DEF ServerEstab
<1>10. ASSUME NEW x \in Remotes, Introduce(c, x) PROVE SInv'
  <2>1. Types' BY <1>10 DEF Introduce, Types, flags, All
  <2>2. \A d \in Conns : ConnLists(d)' /\ ConnFlags(d)'
    BY <1>10 DEF Introduce, Types, flags, All, ConnLists, ConnFlags
  <2>3. ASSUME NEW r \in Remotes PROVE RemoteOK(r)'
    <3>1. \A s \in Conns : r \in behind'[s] <=> r \in behind[s] \/ (s = c /\ r = x)
      BY <1>10 DEF Introduce, Types
    <3>2. status'[r] = IF r = x THEN "client" ELSE status[r]
      BY <1>10 DEF Introduce, Types, All
    <3>3. r \in hash' <=> r \in hash \/ r = x BY <1>10 DEF Introduce
    <3>4. dead' = dead /\ dead_list' = dead_list BY <1>10 DEF Introduce, flags
    <3>5. status[x] = "free" /\ x \notin dead /\ \A s \in Conns : x \notin behind[s]
      BY <1>10 DEF Introduce, RemoteOK
    <3> QED BY <3>1, <3>2, <3>3, <3>4, <3>5 DEF RemoteOK
  <2> QED BY <2>1, <2>2, <2>3
<1>11. CASE Quit(c) BY <1>11, ExitsInv DEF Quit
<1>12. CASE PingTimeout(c) BY <1>12, ExitsInv, ListedNotFree DEF PingTimeout
<1>13. CASE CheckUnknowns(c) BY <1>13, ExitsInv, ListedNotFree DEF CheckUnknowns
<1>14. CASE CloseUnknown(c) BY <1>14, ExitsInv, ListedNotFree DEF CloseUnknown
<1> QED BY <1>1, <1>2, <1>3, <1>5, <1>6, <1>7, <1>8, <1>9, <1>10, <1>11, <1>12, <1>13,
           <1>14 DEF Handler

\* The structs of the dead list, and no others, become free.
LEMMA FreeDeadInv == ASSUME SInv, FreeExited PROVE SInv'
<1> USE DEF SInv
<1>1. Types' BY DEF FreeExited, FreeDead, Types, lists, All
<1>2. ASSUME NEW d \in Conns PROVE ConnLists(d)' /\ ConnFlags(d)'
  <2>1. dead_list[d] > 0 <=> d \in closing BY DEF ConnFlags
  <2>2. /\ status'[d] = IF d \in closing THEN "free" ELSE status[d]
        /\ dead_list'[d] = 0
        /\ d \in dead' <=> d \in dead /\ d \notin closing
        /\ d \notin closing'
        /\ d \in finished' <=> d \in finished /\ d \notin closing
    BY <2>1 DEF FreeExited, FreeDead, All, Types
  <2>3. abort_list[d] = 0 /\ abort_list' = abort_list /\ lists' = lists
    BY DEF FreeExited, FreeDead
  <2>4. ConnLists(d)' BY <2>2, <2>3 DEF ConnLists, lists, Unregistered
  <2>5. ConnFlags(d)' BY <2>2, <2>3 DEF ConnFlags, lists
  <2> QED BY <2>4, <2>5
<1>3. ASSUME NEW r \in Remotes PROVE RemoteOK(r)'
  <2>1. dead_list[r] > 0 <=> r \in dead BY DEF RemoteOK
  <2>2. /\ status'[r] = IF r \in dead THEN "free" ELSE status[r]
        /\ dead_list'[r] = 0 /\ r \notin dead'
    BY <2>1 DEF FreeExited, FreeDead, All, Types
  <2>3. lists' = lists BY DEF FreeExited, FreeDead
  <2> QED BY <2>2, <2>3 DEF RemoteOK, lists
<1> QED BY <1>1, <1>2, <1>3

LEMMA NextInv == SInv /\ [Next]_vars => SInv'
<1> SUFFICES ASSUME SInv, [Next]_vars PROVE SInv' OBVIOUS
<1>1. ASSUME NEW c \in Conns, Handler(c) PROVE SInv' BY <1>1, HandlerInv
<1>2. ASSUME NEW c \in Conns, Overflow(c) PROVE SInv'
  <2> USE DEF SInv
  <2>1. Types' BY <1>2 DEF Overflow, Types, lists, counts, All
  <2>2. \A d \in Conns : ConnLists(d)' /\ ConnFlags(d)'
    BY <1>2 DEF Overflow, Types, lists, Defunct, ConnLists, ConnFlags
  <2>3. \A r \in Remotes : r # c /\ RemoteOK(r)'
    BY <1>2 DEF Overflow, lists, RemoteOK
  <2> QED BY <2>1, <2>2, <2>3
<1>3. ASSUME NEW c \in Conns, ExitAborted(c) PROVE SInv'
  <2>1. status[c] # "free" BY <1>3 DEF ExitAborted, SInv, ConnFlags
  <2>2. turn' \in {"handlers", "abort"} BY <1>3 DEF ExitAborted
  <2> QED BY <1>3, <2>1, <2>2, ExitConnInv DEF ExitAborted
<1>4. ASSUME NEW x \in All, Removed(x) PROVE SInv'
  <2>1. CASE x \in Conns BY <1>4, <2>1, ExitsInv, ListedNotFree DEF Removed
  <2>2. CASE x \notin Conns BY <1>4, <2>2, ExitRemoteInv DEF Removed, All
  <2> QED BY <2>1, <2>2
<1>5. CASE HandlersDone
  <2>1. Types' BY <1>5 DEF HandlersDone, SInv, Types, flags, lists
  <2>2. \A d \in Conns : ConnLists(d)' /\ ConnFlags(d)'
    BY <1>5 DEF HandlersDone, SInv, flags, lists, ConnLists, ConnFlags
  <2>3. \A r \in Remotes : RemoteOK(r)'
    BY <1>5 DEF HandlersDone, SInv, flags, lists, RemoteOK
  <2> QED BY <2>1, <2>2, <2>3 DEF SInv
<1>6. CASE FreeExited BY <1>6, FreeDeadInv
<1>7. CASE UNCHANGED vars
  <2>1. Types' BY <1>7 DEF vars, SInv, Types, flags, lists
  <2>2. \A d \in Conns : ConnLists(d)' /\ ConnFlags(d)'
    BY <1>7 DEF vars, SInv, flags, lists, ConnLists, ConnFlags
  <2>3. \A r \in Remotes : RemoteOK(r)' BY <1>7 DEF vars, SInv, flags, lists, RemoteOK
  <2> QED BY <2>1, <2>2, <2>3 DEF SInv
<1> QED BY <1>1, <1>2, <1>3, <1>4, <1>5, <1>6, <1>7 DEF Next

-----------------------------------------------------------------------------
(* The counters *)

LEMMA Sizes ==
  ASSUME SInv
  PROVE /\ IsFiniteSet(local_client_list) /\ IsFiniteSet(local_server_list)
        /\ IsFiniteSet(Known)
        /\ Cardinality(local_client_list) \in Nat
        /\ Cardinality(local_server_list) \in Nat /\ Cardinality(Known) \in Nat
<1>1. local_client_list \subseteq Conns /\ local_server_list \subseteq Conns
  BY DEF SInv, Types
<1>2. Known \subseteq Remotes BY DEF SInv, Types, Known
<1>3. /\ IsFiniteSet(local_client_list) /\ IsFiniteSet(local_server_list)
      /\ IsFiniteSet(Known)
  BY <1>1, <1>2, FS_Subset
<1> QED BY <1>3, FS_CardinalityType

Totals == Counted /\ Limits

\* What is left of a counter when the lists do not change.
LEMMA SameTotals ==
  ASSUME Totals, UNCHANGED <<local_client_list, local_server_list, behind, counts>>
  PROVE Totals'
  BY DEF Totals, Counted, Limits, counts

LEMMA ExitConnTotals ==
  ASSUME SInv, Totals, NEW c \in Conns, ExitConn(c) PROVE Totals'
<1>1. CASE c \in closing
  BY <1>1, SameTotals DEF ExitConn, lists
<1>2. CASE c \notin closing
  <2> DEFINE gone == IF status[c] = "server" THEN behind[c] ELSE {}
  <2>1. /\ local_client_list' = local_client_list \ {c}
        /\ local_server_list' = local_server_list \ {c}
        /\ behind' = [behind EXCEPT ![c] = {}]
        /\ c \in local_client_list <=> status[c] = "client"
        /\ c \in local_server_list <=> status[c] = "server"
    BY <1>2 DEF ExitConn, SInv, ConnLists, Unregistered
  <2>2. /\ local' = IF status[c] = "client" THEN local - 1 ELSE local
        /\ myserver' = IF status[c] = "server" THEN myserver - 1 ELSE myserver
        /\ total' = (IF status[c] = "client" THEN total - 1 ELSE total) - Cardinality(gone)
    BY <1>2 DEF ExitConn
  <2>3. gone = behind[c] /\ gone \subseteq Known BY DEF SInv, ConnLists, Known
  <2>4. Known' = Known \ gone
    <3>1. \A s \in Conns : s # c => behind[s] \cap behind[c] = {}
      BY DEF SInv, Types, RemoteOK
    <3>2. \A s \in Conns : behind'[s] = IF s = c THEN {} ELSE behind[s]
      BY <2>1 DEF SInv, Types
    <3> QED BY <2>3, <3>1, <3>2 DEF Known
  <2>5. Cardinality(Known') = Cardinality(Known) - Cardinality(gone)
    <3>1. IsFiniteSet(gone) BY <2>3, Sizes, FS_Subset
    <3>2. Known \cap gone = gone BY <2>3
    <3> QED BY <2>4, <3>1, <3>2, Sizes, FS_Difference, ZenonT(40)
  <2>6. Cardinality(local_client_list') =
          IF status[c] = "client" THEN Cardinality(local_client_list) - 1
          ELSE Cardinality(local_client_list)
    BY <2>1, Sizes, FS_RemoveElement
  <2>7. Cardinality(local_server_list') =
          IF status[c] = "server" THEN Cardinality(local_server_list) - 1
          ELSE Cardinality(local_server_list)
    BY <2>1, Sizes, FS_RemoveElement
  <2>8. Cardinality(gone) \in Nat BY <2>3, Sizes, FS_Subset, FS_CardinalityType
  <2>9. Counted'
    BY <2>2, <2>5, <2>6, <2>7, <2>8, Sizes DEF Totals, Counted, Known
  <2>10. Limits' BY <2>6, <2>7, Sizes DEF Totals, Limits
  <2> QED BY <2>9, <2>10 DEF Totals
<1> QED BY <1>1, <1>2

LEMMA NextTotals == SInv /\ Totals /\ [Next]_vars => Totals'
<1> SUFFICES ASSUME SInv, Totals, [Next]_vars PROVE Totals' OBVIOUS
<1>1. ASSUME NEW c \in Conns, NEW exempt \in BOOLEAN, Register(c, exempt) PROVE Totals'
  <2>1. CASE ExitConn(c) BY <2>1, ExitConnTotals
  <2>2. CASE ~ExitConn(c)
    <3>1. /\ local < MaxClients + MaxBuffer
          /\ local_client_list' = local_client_list \cup {c}
          /\ local' = local + 1 /\ total' = total + 1
          /\ UNCHANGED <<local_server_list, behind, myserver>>
      <4>1. local \in Nat BY Sizes DEF Totals, Counted
      <4> QED BY <1>1, <2>2, <4>1 DEF Register
    <3>2. c \notin local_client_list
      BY <1>1 DEF Register, SInv, ConnLists, Unregistered
    <3>3. Cardinality(local_client_list') = Cardinality(local_client_list) + 1
      BY <3>1, <3>2, Sizes, FS_AddElement
    <3> QED BY <3>1, <3>3, Sizes DEF Totals, Counted, Limits, Known
  <2> QED BY <2>1, <2>2
<1>2. ASSUME NEW c \in Conns, ServerEstab(c) PROVE Totals'
  <2>1. CASE ExitConn(c) BY <2>1, ExitConnTotals
  <2>2. CASE ~ExitConn(c)
    <3>1. /\ Hub \/ local_server_list = {}
          /\ local_server_list' = local_server_list \cup {c}
          /\ myserver' = myserver + 1
          /\ UNCHANGED <<local_client_list, behind, local, total>>
      BY <1>2, <2>2 DEF ServerEstab
    <3>2. c \notin local_server_list
      BY <1>2 DEF ServerEstab, SInv, ConnLists, Unregistered
    <3>3. Cardinality(local_server_list') = Cardinality(local_server_list) + 1
      BY <3>1, <3>2, Sizes, FS_AddElement
    <3>4. ~Hub => Cardinality(local_server_list) = 0 BY <3>1, FS_EmptySet
    <3> QED BY <3>1, <3>3, <3>4, Sizes DEF Totals, Counted, Limits
  <2> QED BY <2>1, <2>2
<1>3. ASSUME NEW c \in Conns, NEW r \in Remotes, Introduce(c, r) PROVE Totals'
  <2>1. Known' = Known \cup {r} BY <1>3 DEF Introduce, SInv, Types, Known
  <2>2. r \notin Known BY <1>3 DEF Introduce, SInv, RemoteOK, Known
  <2>3. Cardinality(Known') = Cardinality(Known) + 1
    BY <2>1, <2>2, Sizes, FS_AddElement
  <2>4. total' = total + 1 /\ UNCHANGED <<local_client_list, local_server_list, local, myserver>>
    BY <1>3 DEF Introduce
  <2> QED BY <2>3, <2>4, Sizes DEF Totals, Counted, Limits, Known
<1>4. ASSUME NEW x \in All, Removed(x) PROVE Totals'
  <2>1. CASE x \in Conns BY <1>4, <2>1, ExitConnTotals DEF Removed
  <2>2. CASE x \notin Conns
    <3>1. x \in Remotes /\ x \in hash /\ ExitRemote(x) BY <1>4, <2>2 DEF Removed, All
    <3>2. Known' = Known \ {x} BY <3>1 DEF ExitRemote, Known
    <3>3. x \in Known BY <3>1 DEF SInv, RemoteOK, Known
    <3>4. Cardinality(Known') = Cardinality(Known) - 1
      BY <3>2, <3>3, Sizes, FS_RemoveElement
    <3>5. total' = total - 1
          /\ UNCHANGED <<local_client_list, local_server_list, local, myserver>>
      BY <3>1 DEF ExitRemote
    <3> QED BY <3>4, <3>5, Sizes DEF Totals, Counted, Limits, Known
  <2> QED BY <2>1, <2>2
<1>5. ASSUME NEW c \in Conns,
             Quit(c) \/ PingTimeout(c) \/ CheckUnknowns(c) \/ CloseUnknown(c)
               \/ ExitAborted(c)
      PROVE Totals'
  BY <1>5, ExitConnTotals DEF Quit, PingTimeout, CheckUnknowns, CloseUnknown, ExitAborted
<1>6. ASSUME NEW c \in Conns,
             Accept(c) \/ ServConnect(c) \/ Connected(c) \/ ConnectFailed(c)
               \/ AuthDone(c) \/ Nick(c) \/ Overflow(c)
      PROVE Totals'
  BY <1>6, SameTotals DEF Accept, ServConnect, Connected, ConnectFailed, AuthDone, Nick,
                          Overflow, lists, counts
<1>7. CASE HandlersDone \/ FreeExited \/ UNCHANGED vars
  BY <1>7, SameTotals DEF HandlersDone, FreeExited, FreeDead, vars, lists
<1> QED BY <1>1, <1>2, <1>3, <1>4, <1>5, <1>6, <1>7 DEF Next, Handler

-----------------------------------------------------------------------------
(* Theorems *)

LEMMA Invariance == Spec => [](SInv /\ Totals)
<1>1. Init => SInv /\ Totals BY InitInv DEF IInv, Totals
<1>2. SInv /\ Totals /\ [Next]_vars => (SInv /\ Totals)' BY NextInv, NextTotals
<1> QED BY <1>1, <1>2, PTL DEF Spec

\* Every variable keeps its type; in particular no counter of the server goes below
\* zero, which exit_client asserts (client.c 453, 747, 776).
THEOREM TypeCorrect == Spec => []TypeOK
<1>1. SInv /\ Totals => TypeOK
  BY Sizes, FS_CardinalityType DEF SInv, Types, Totals, Counted, Known, TypeOK
<1> QED BY <1>1, Invariance, PTL

\* A connection is on the list that goes with its status until it is exited, and then
\* on none: the assertions of exit_client (client.c 739, 755, 780, 853) hold.
THEOREM AlwaysListed == Spec => []Listed
<1>1. SInv => Listed BY DEF SInv, ConnLists, Listed
<1> QED BY <1>1, Invariance, PTL

\* The counters of /LUSERS and of the client limit are the sizes of the lists.
THEOREM AlwaysCounted == Spec => []Counted
<1>1. SInv /\ Totals => Counted BY DEF Totals
<1> QED BY <1>1, Invariance, PTL

\* No list and no name leads to a freed struct.
THEOREM NeverDangling == Spec => []NoDangling
<1>1. SInv => NoDangling
  <2> SUFFICES ASSUME SInv PROVE NoDangling OBVIOUS
  <2>1. ASSUME NEW c \in Conns, status[c] = "free"
        PROVE /\ dead_list[c] = 0 /\ abort_list[c] = 0 /\ ~Defunct(c)
              /\ c \notin hash \cup unknown_list \cup local_client_list \cup local_server_list
              /\ c \notin auth_pending_list /\ \A s \in Conns : c \notin behind[s]
    BY <2>1 DEF SInv, Types, ConnLists, ConnFlags, Defunct, Unregistered
  <2>2. ASSUME NEW r \in Remotes, status[r] = "free"
        PROVE /\ dead_list[r] = 0
              /\ r \notin hash \cup unknown_list \cup local_client_list \cup local_server_list
              /\ r \notin auth_pending_list /\ \A s \in Conns : r \notin behind[s]
    BY <2>2 DEF SInv, Types, RemoteOK
  <2> QED BY <2>1, <2>2 DEF NoDangling, All
<1> QED BY <1>1, Invariance, PTL

\* Nothing is on the dead list or the abort list twice, however often exit_client is
\* called for it in one turn (client.c 659, 876).
THEOREM AlwaysFreedOnce == Spec => []FreedOnce
<1>1. SInv => FreedOnce
  <2> SUFFICES ASSUME SInv PROVE FreedOnce OBVIOUS
  <2>1. ASSUME NEW c \in Conns
        PROVE /\ dead_list[c] \in {0, 1} /\ (dead_list[c] = 1 => c \in dead \ hash)
              /\ abort_list[c] \in {0, 1} /\ (dead_list[c] = 1 => c \in closing)
    BY DEF SInv, ConnFlags
  <2>2. ASSUME NEW r \in Remotes
        PROVE dead_list[r] \in {0, 1} /\ (dead_list[r] = 1 => r \in dead \ hash)
    BY DEF SInv, RemoteOK
  <2>3. \A x \in All : dead_list[x] \in {0, 1} /\ (dead_list[x] = 1 => x \in dead \ hash)
    BY <2>1, <2>2 DEF All
  <2> QED BY <2>1, <2>3 DEF FreedOnce
<1> QED BY <1>1, Invariance, PTL

\* The limit on clients and the single uplink of a leaf hold for the lists.
THEOREM WithinLimits == Spec => []Limits
<1>1. SInv /\ Totals => Limits BY DEF Totals
<1> QED BY <1>1, Invariance, PTL

-----------------------------------------------------------------------------
(* Access *)

Kinds == {"dns", "ident"}
ConnRec == [stage : {"free", "unknown", "client"}, ip : 0..3, asked : SUBSET Kinds,
            finished : BOOLEAN, releases : Nat, need : SUBSET {"NICK", "USER", "CAP"},
            pings : Nat, authed : BOOLEAN, iphash : BOOLEAN, conf : ConfIds \cup {None}]
EntryRec == [held : BOOLEAN, count : Nat, tries : Nat, age : Nat]
ConfRec == [held : BOOLEAN, active : BOOLEAN, class : ClassNames, refs : Nat]
PortRec == [held : BOOLEAN, open : BOOLEAN, refs : Nat]
\* The limits and subnets of a class may be anything.
IsClass(k) ==
  /\ k = [held |-> k.held, active |-> k.active, refs |-> k.refs,
          max |-> k.max, per |-> k.per, bits |-> k.bits, cidr |-> k.cidr]
  /\ k.held \in BOOLEAN /\ k.active \in BOOLEAN /\ k.refs \in Nat

\* How far a connection is says what was done of it and what it counts for.
Fit(x) ==
  /\ x \in ConnRec
  /\ x.stage = "free" => x = NoConn
  /\ x.stage = "unknown" => x.conf = None /\ ~x.iphash
  /\ x.stage = "client" => /\ x.conf # None /\ x.iphash
                           /\ x.finished /\ x.authed /\ x.need = {}
  /\ x.stage # "free" => x.ip \in Ips
  /\ x.finished <=> x.stage # "free" /\ x.asked = {}
  /\ x.releases = IF x.finished THEN 1 ELSE 0

Fits == conn \in [Callers -> ConnRec] /\ \A c \in Callers : Fit(conn[c])
Queried == /\ queries \subseteq Callers \X Kinds
           /\ \A q \in queries : conn[q[1]].stage = "unknown" /\ q[2] \in conn[q[1]].asked
\* The classes that may be given to a user, Default among them, are configured.
Configured == /\ class[Default].active
              /\ \A i \in ConfIds : conf[i].active => class[conf[i].class].active
Stores == /\ ipcache \in [Ips -> EntryRec]
          /\ class = [k \in ClassNames |-> class[k]] /\ \A k \in ClassNames : IsClass(class[k])
          /\ conf \in [ConfIds -> ConfRec]
          /\ listener \in PortRec
          /\ Configured

AccessInv == AccessBounds /\ Fits /\ Queried /\ Stores /\ Accounted

-----------------------------------------------------------------------------
(* Counting *)

LEMMA CountOne ==
  ASSUME AccessBounds, NEW S, S \subseteq Callers, NEW c \in Callers
  PROVE  /\ IsFiniteSet(S) /\ Cardinality(S) \in Nat
         /\ c \notin S => Cardinality(S \cup {c}) = Cardinality(S) + 1
         /\ c \in S => Cardinality(S \ {c}) = Cardinality(S) - 1 /\ Cardinality(S) > 0
         /\ Cardinality(S) > 0 <=> S # {}
<1>1. IsFiniteSet(S)
  BY FS_Subset DEF AccessBounds
<1>2. Cardinality(S) \in Nat /\ (Cardinality(S) = 0 <=> S = {})
  BY <1>1, FS_CardinalityType, FS_EmptySet
<1>3. c \notin S => Cardinality(S \cup {c}) = Cardinality(S) + 1
  BY <1>1, FS_AddElement
<1>4. c \in S => Cardinality(S \ {c}) = Cardinality(S) - 1
  BY <1>1, FS_RemoveElement
<1> QED BY <1>1, <1>2, <1>3, <1>4

\* S and T differ in c at most.
But(S, T, c) == S \subseteq Callers /\ T \subseteq Callers /\ \A d \in Callers \ {c} : d \in S <=> d \in T

LEMMA ButCounts ==
  ASSUME AccessBounds, NEW S, NEW T, NEW c \in Callers, But(S, T, c)
  PROVE  Cardinality(T) =
           IF c \in T THEN IF c \in S THEN Cardinality(S) ELSE Cardinality(S) + 1
           ELSE IF c \in S THEN Cardinality(S) - 1 ELSE Cardinality(S)
<1>0. S \subseteq Callers /\ T \subseteq Callers /\ \A d \in Callers \ {c} : d \in S <=> d \in T
  BY DEF But
<1>1. CASE c \in T /\ c \in S
  <2>1. T = S
    BY <1>0, <1>1
  <2> QED BY <1>1, <2>1
<1>2. CASE c \in T /\ c \notin S
  <2>1. T = S \cup {c}
    BY <1>0, <1>2
  <2> QED BY <1>0, <1>2, <2>1, CountOne
<1>3. CASE c \notin T /\ c \in S
  <2>1. T = S \ {c}
    BY <1>0, <1>3
  <2> QED BY <1>0, <1>3, <2>1, CountOne
<1>4. CASE c \notin T /\ c \notin S
  <2>1. T = S
    BY <1>0, <1>4
  <2> QED BY <1>4, <2>1
<1> QED BY <1>1, <1>2, <1>3, <1>4

\* Who counts for what, after one connection has changed
LEMMA Counters ==
  ASSUME AccessInv, NEW c \in Callers, NEW x \in ConnRec, conn' = [conn EXCEPT ![c] = x]
  PROVE  /\ \A a \in Ips : /\ But(OnAddress(a), OnAddress(a)', c)
                           /\ c \in OnAddress(a)' <=> x.iphash /\ x.ip = a
         /\ \A i \in ConfIds : /\ But(OnBlock(i), OnBlock(i)', c)
                               /\ c \in OnBlock(i)' <=> x.conf = i
         /\ But(OnPort, OnPort', c) /\ (c \in OnPort' <=> x.stage # "free")
<1>1. \A d \in Callers : conn'[d] = IF d = c THEN x ELSE conn[d]
  BY DEF AccessInv, Fits
<1> QED BY <1>1 DEF OnAddress, OnBlock, OnPort, But

\* The blocks in use keep their class.
Steady(x, c) == \A j \in ConfIds :
  x.conf = j \/ OnBlock(j) \ {c} # {} => conf'[j].class = conf[j].class

LEMMA Members ==
  ASSUME AccessInv, NEW c \in Callers, NEW x \in ConnRec, conn' = [conn EXCEPT ![c] = x], Steady(x, c)
  PROVE  \A k \in ClassNames : /\ But(OnClass(k), OnClass(k)', c)
                               /\ c \in OnClass(k)' <=> x.conf # None /\ conf[x.conf].class = k
<1>1. \A d \in Callers : conn'[d] = IF d = c THEN x ELSE conn[d]
  BY DEF AccessInv, Fits
<1>2. \A d \in Callers : conn[d].conf # None => conn[d].conf \in ConfIds /\ d \in OnBlock(conn[d].conf)
  BY DEF AccessInv, Fits, ConnRec, OnBlock
<1>3. x.conf # None => x.conf \in ConfIds
  BY DEF ConnRec
<1> SUFFICES ASSUME NEW k \in ClassNames
             PROVE  /\ \A d \in Callers \ {c} : d \in OnClass(k) <=> d \in OnClass(k)'
                    /\ c \in OnClass(k)' <=> x.conf # None /\ conf[x.conf].class = k
  BY DEF OnClass, But
<1>4. c \in OnClass(k)' <=> x.conf # None /\ conf[x.conf].class = k
  BY <1>1, <1>3 DEF OnClass, Steady
<1>5. ASSUME NEW d \in Callers \ {c} PROVE d \in OnClass(k) <=> d \in OnClass(k)'
  BY <1>1, <1>2 DEF OnClass, Steady
<1> QED BY <1>4, <1>5

LEMMA OneFits ==
  ASSUME AccessInv, NEW c \in Callers, NEW x, Fit(x), conn' = [conn EXCEPT ![c] = x]
  PROVE  Fits'
<1>1. x \in ConnRec /\ conn \in [Callers -> ConnRec] /\ \A d \in Callers : Fit(conn[d])
  BY DEF AccessInv, Fits, Fit
<1>2. \A d \in Callers : conn'[d] = IF d = c THEN x ELSE conn[d]
  BY <1>1
<1>3. conn' \in [Callers -> ConnRec]
  BY <1>1
<1>4. \A d \in Callers : Fit(conn'[d])
  BY <1>1, <1>2
<1> QED BY <1>3, <1>4 DEF Fits, Fit, ConnRec, NoConn

\* Nothing it counts for changes: a query answered, a command, a challenge.
LEMMA StepKeeps ==
  ASSUME AccessInv, NEW c \in Callers, NEW x, Fit(x), conn' = [conn EXCEPT ![c] = x],
         x.stage = conn[c].stage, x.conf = conn[c].conf, x.iphash = conn[c].iphash,
         x.iphash => x.ip = conn[c].ip, Queried',
         UNCHANGED <<ipcache, class, conf, listener>>
  PROVE  AccessInv'
<1>0. x \in ConnRec /\ conn \in [Callers -> ConnRec]
  BY DEF Fit, AccessInv, Fits
<1>1. Fits'
  BY OneFits
<1>2. \A d \in Callers : /\ conn'[d].stage = conn[d].stage /\ conn'[d].conf = conn[d].conf
                         /\ conn'[d].iphash = conn[d].iphash
                         /\ conn'[d].iphash => conn'[d].ip = conn[d].ip
  BY <1>0
<1>3. \A a : OnAddress(a)' = OnAddress(a)
  BY <1>2 DEF OnAddress
<1>4. \A i : OnBlock(i)' = OnBlock(i)
  BY <1>2 DEF OnBlock
<1>5. \A k : OnClass(k)' = OnClass(k)
  BY <1>2 DEF OnClass
<1>6. OnPort' = OnPort
  BY <1>2 DEF OnPort
<1>7. Accounted'
  BY <1>3, <1>4, <1>5, <1>6
     DEF AccessInv, Accounted, AddressesCounted, BlocksCounted, ClassesCounted, PortCounted
<1>8. AccessBounds' /\ Stores'
  BY DEF AccessInv, Stores, Configured, IsClass, AccessBounds
<1> QED BY <1>1, <1>7, <1>8 DEF AccessInv

\* What is held of an address
LEMMA FoundEntry ==
  ASSUME AccessInv, NEW a \in Ips
  PROVE  /\ Found(ipcache, a) \in [Ips -> EntryRec]
         /\ Found(ipcache, a)[a].held /\ Found(ipcache, a)[a].count = ipcache[a].count
         /\ \A b \in Ips \ {a} : Found(ipcache, a)[b] = ipcache[b]
<1>1. /\ ipcache \in [Ips -> EntryRec] /\ NoEntry \in EntryRec
      /\ [NoEntry EXCEPT !.held = TRUE] \in EntryRec
      /\ [NoEntry EXCEPT !.held = TRUE].held /\ [NoEntry EXCEPT !.held = TRUE].count = 0
  BY DEF AccessInv, Stores, EntryRec, NoEntry, AccessBounds
<1>2. ipcache[a].count \in Nat /\ (~ipcache[a].held => ipcache[a].count = 0)
  BY <1>1 DEF AccessInv, Accounted, AddressesCounted, EntryRec
<1> QED BY <1>1, <1>2 DEF Found

LEMMA CountedEntry ==
  ASSUME AccessInv, NEW a \in Ips
  PROVE  /\ CountedIn(a) \in [Ips -> EntryRec]
         /\ CountedIn(a)[a].held /\ CountedIn(a)[a].count = ipcache[a].count + 1
         /\ \A b \in Ips \ {a} : CountedIn(a)[b] = ipcache[b]
<1>1. Found(ipcache, a)[a] \in EntryRec /\ ipcache[a].count \in Nat
  BY FoundEntry DEF AccessInv, Stores, EntryRec
<1>2. [Found(ipcache, a)[a] EXCEPT !.count = @ + 1] \in EntryRec
  BY <1>1 DEF EntryRec
<1> QED BY <1>1, <1>2, FoundEntry DEF CountedIn, EntryRec

LEMMA DroppedEntry ==
  ASSUME AccessBounds, NEW cache \in [Ips -> EntryRec], NEW a \in Ips,
         cache[a].count > 0, cache[a].held
  PROVE  /\ Dropped(cache, a) \in [Ips -> EntryRec]
         /\ Dropped(cache, a)[a].count = cache[a].count - 1
         /\ Dropped(cache, a)[a].count > 0 => Dropped(cache, a)[a].held
         /\ \A b \in Ips \ {a} : Dropped(cache, a)[b] = cache[b]
<1> DEFINE e == [cache[a] EXCEPT !.count = @ - 1]
<1>1. cache[a] \in EntryRec /\ cache[a].count - 1 \in Nat
  BY DEF EntryRec
<1>2. e \in EntryRec /\ e.count = cache[a].count - 1 /\ e.held
  BY <1>1 DEF EntryRec
<1>3. NoEntry \in EntryRec /\ NoEntry.count = 0
  BY DEF NoEntry, EntryRec, AccessBounds
<1>4. Dropped(cache, a) = [cache EXCEPT ![a] = IF e.count = 0 /\ e.age >= Throttle
                                               THEN NoEntry ELSE e]
  BY DEF Dropped
<1> HIDE DEF e
<1> QED BY <1>2, <1>3, <1>4

-----------------------------------------------------------------------------
(* Queries and the steps to registration *)

LEMMA Releasing ==
  ASSUME NEW m \in ConnRec, m.releases = 0, ~m.finished, NEW s \in SUBSET Kinds
  PROVE  /\ ReleaseAuth(m, s) \in ConnRec /\ ReleaseAuth(m, s).stage = m.stage
         /\ ReleaseAuth(m, s).conf = m.conf /\ ReleaseAuth(m, s).ip = m.ip
         /\ ReleaseAuth(m, s).iphash = m.iphash /\ ReleaseAuth(m, s).asked = s
         /\ ReleaseAuth(m, s).finished <=> s = {}
         /\ ReleaseAuth(m, s).releases = IF ReleaseAuth(m, s).finished THEN 1 ELSE 0
<1>1. CASE s # {}
  <2>1. ReleaseAuth(m, s) = [m EXCEPT !.asked = s]
    BY <1>1 DEF ReleaseAuth
  <2> QED BY <1>1, <2>1 DEF ConnRec
<1>2. CASE s = {}
  <2>1. m.releases < 2 /\ m.releases + 1 = 1
    OBVIOUS
  <2>2. ReleaseAuth(m, s) = [m EXCEPT !.asked = {}, !.finished = TRUE, !.releases = 1]
    BY <1>2, <2>1 DEF ReleaseAuth
  <2> DEFINE n == [m EXCEPT !.asked = {}]
             o == [n EXCEPT !.finished = TRUE]
             p == [o EXCEPT !.releases = 1]
  <2>3. /\ n \in ConnRec /\ n.stage = m.stage /\ n.conf = m.conf /\ n.ip = m.ip
        /\ n.iphash = m.iphash /\ n.asked = {}
    BY DEF ConnRec
  <2> HIDE DEF n
  <2>4. /\ o \in ConnRec /\ o.stage = n.stage /\ o.conf = n.conf /\ o.ip = n.ip
        /\ o.iphash = n.iphash /\ o.asked = n.asked /\ o.finished
    BY <2>3 DEF ConnRec
  <2> HIDE DEF o
  <2>5. /\ p \in ConnRec /\ p.stage = o.stage /\ p.conf = o.conf /\ p.ip = o.ip
        /\ p.iphash = o.iphash /\ p.asked = o.asked /\ p.finished = o.finished /\ p.releases = 1
    BY <2>4 DEF ConnRec
  <2>6. ReleaseAuth(m, s) = p
    BY <2>2 DEF n, o, p
  <2> HIDE DEF p
  <2> QED BY <1>2, <2>3, <2>4, <2>5, <2>6
<1> QED BY <1>1, <1>2

LEMMA AnswerOK == ASSUME AccessInv, NEW c \in Callers, NEW kind \in Kinds, Answer(c, kind) PROVE AccessInv'
<1> DEFINE x == ReleaseAuth(conn[c], conn[c].asked \ {kind})
<1>1. /\ conn' = [conn EXCEPT ![c] = x] /\ <<c, kind>> \in queries
      /\ queries' = queries \ {<<c, kind>>} /\ UNCHANGED <<ipcache, class, conf, listener>>
  BY DEF Answer, AccessInv, Fits
<1>2. Fit(conn[c]) /\ conn[c].stage = "unknown" /\ kind \in conn[c].asked
  BY <1>1 DEF AccessInv, Fits, Queried
<1>3. ~conn[c].finished /\ conn[c].releases = 0 /\ conn[c] \in ConnRec
  BY <1>2 DEF Fit
<1>4. /\ x \in ConnRec /\ x.stage = conn[c].stage /\ x.conf = conn[c].conf /\ x.ip = conn[c].ip
      /\ x.iphash = conn[c].iphash /\ x.asked = conn[c].asked \ {kind}
      /\ x.finished <=> x.asked = {}
      /\ x.releases = IF x.finished THEN 1 ELSE 0
  <2>1. conn[c].asked \ {kind} \in SUBSET Kinds
    BY <1>3 DEF ConnRec
  <2> QED BY <1>3, <2>1, Releasing
<1> HIDE DEF x
<1>5. Fit(x)
  BY <1>2, <1>4 DEF Fit
<1>6. \A d \in Callers : conn'[d] = IF d = c THEN x ELSE conn[d]
  BY <1>1 DEF AccessInv, Fits
<1>7. Queried'
  <2>1. queries' \subseteq Callers \X Kinds
    BY <1>1 DEF AccessInv, Queried
  <2>2. ASSUME NEW r \in queries'
        PROVE  conn'[r[1]].stage = "unknown" /\ r[2] \in conn'[r[1]].asked
    <3>1. r \in queries /\ r # <<c, kind>> /\ r \in Callers \X Kinds
      BY <1>1, <2>1, <2>2
    <3>2. conn[r[1]].stage = "unknown" /\ r[2] \in conn[r[1]].asked
      BY <3>1 DEF AccessInv, Queried
    <3>3. CASE r[1] = c
      <4>1. r[2] # kind
        BY <3>1, <3>3
      <4> QED BY <1>4, <1>6, <3>1, <3>2, <3>3, <4>1
    <3>4. CASE r[1] # c
      BY <1>6, <3>1, <3>2, <3>4
    <3> QED BY <3>3, <3>4
  <2> QED BY <2>1, <2>2 DEF Queried
<1> QED BY <1>1, <1>4, <1>5, <1>7, StepKeeps

LEMMA TimeoutOK == ASSUME AccessInv, NEW c \in Callers, TimeoutAuth(c) PROVE AccessInv'
<1> DEFINE x == ReleaseAuth(conn[c], {})
<1>1. /\ conn' = [conn EXCEPT ![c] = x] /\ conn[c].stage = "unknown" /\ ~conn[c].finished
      /\ queries' = {r \in queries : r[1] # c} /\ UNCHANGED <<ipcache, class, conf, listener>>
  BY DEF TimeoutAuth, AccessInv, Fits
<1>2. Fit(conn[c])
  BY DEF AccessInv, Fits
<1>3. conn[c].releases = 0 /\ conn[c] \in ConnRec
  BY <1>1, <1>2 DEF Fit
<1>4. /\ x \in ConnRec /\ x.stage = conn[c].stage /\ x.conf = conn[c].conf /\ x.ip = conn[c].ip
      /\ x.iphash = conn[c].iphash /\ x.asked = {} /\ x.finished /\ x.releases = 1
  BY <1>1, <1>3, Releasing
<1> HIDE DEF x
<1>5. Fit(x)
  BY <1>1, <1>2, <1>4 DEF Fit
<1>6. Queried'
  BY <1>1 DEF AccessInv, Fits, Queried
<1> QED BY <1>1, <1>4, <1>5, <1>6, StepKeeps

LEMMA StillQueried ==
  ASSUME AccessInv, NEW c \in Callers, NEW x, conn' = [conn EXCEPT ![c] = x],
         x.stage = conn[c].stage, x.asked = conn[c].asked, UNCHANGED queries
  PROVE  Queried'
<1>1. \A d \in Callers : conn'[d].stage = conn[d].stage /\ conn'[d].asked = conn[d].asked
  BY DEF AccessInv, Fits
<1> QED BY <1>1 DEF AccessInv, Queried

LEMMA WebIrcOK == ASSUME AccessInv, NEW c \in Callers, NEW a \in Ips, WebIrc(c, a) PROVE AccessInv'
<1> DEFINE x == [conn[c] EXCEPT !.ip = a]
<1>1. /\ conn' = [conn EXCEPT ![c] = x] /\ conn[c].stage = "unknown"
      /\ UNCHANGED <<queries, ipcache, class, conf, listener>>
  BY DEF WebIrc, Reads, AccessInv, Fits
<1>2. Fit(conn[c]) /\ conn[c] \in ConnRec
  BY DEF AccessInv, Fits, Fit
<1>3. /\ x \in ConnRec /\ x.stage = conn[c].stage /\ x.conf = conn[c].conf /\ x.ip = a
      /\ x.iphash = conn[c].iphash /\ x.asked = conn[c].asked
      /\ x.finished = conn[c].finished /\ x.releases = conn[c].releases
  BY <1>2 DEF ConnRec, AccessInv, AccessBounds
<1> HIDE DEF x
<1>4. Fit(x) /\ ~x.iphash
  BY <1>1, <1>2, <1>3 DEF Fit
<1>5. Queried'
  BY <1>1, <1>3, StillQueried
<1> QED BY <1>1, <1>3, <1>4, <1>5, StepKeeps

\* What a command that is read makes of the connection before it goes on.
Ready(c, x) == /\ Fit(x) /\ x.stage = "unknown" /\ x.finished
               /\ x.ip = conn[c].ip /\ x.asked = conn[c].asked

LEMMA ReadyOK ==
  ASSUME AccessInv, NEW c \in Callers, Reads(c), NEW x, Ready(c, x), conn' = [conn EXCEPT ![c] = x],
         UNCHANGED <<queries, ipcache, class, conf, listener>>
  PROVE  AccessInv'
<1>1. Fit(conn[c]) /\ conn[c].stage = "unknown"
  BY DEF AccessInv, Fits, Reads
<1>2. x.conf = conn[c].conf /\ ~x.iphash /\ ~conn[c].iphash
  BY <1>1 DEF Ready, Fit
<1>3. x.iphash = conn[c].iphash
  BY <1>1, <1>2 DEF Fit, Ready, ConnRec
<1>4. Queried'
  BY <1>1, StillQueried DEF Ready
<1> QED BY <1>1, <1>2, <1>3, <1>4, StepKeeps DEF Ready

LEMMA ReadyNeeds ==
  ASSUME AccessInv, NEW c \in Callers, Reads(c), NEW need \in SUBSET {"NICK", "USER", "CAP"}
  PROVE  Ready(c, [conn[c] EXCEPT !.need = need])
<1> DEFINE x == [conn[c] EXCEPT !.need = need]
<1>1. Fit(conn[c]) /\ conn[c] \in ConnRec /\ conn[c].stage = "unknown" /\ conn[c].finished
  BY DEF AccessInv, Fits, Reads, Fit
<1>2. /\ x \in ConnRec /\ x.stage = conn[c].stage /\ x.conf = conn[c].conf /\ x.ip = conn[c].ip
      /\ x.iphash = conn[c].iphash /\ x.asked = conn[c].asked
      /\ x.finished = conn[c].finished /\ x.releases = conn[c].releases
  BY <1>1 DEF ConnRec
<1> HIDE DEF x
<1>3. Ready(c, x)
  BY <1>1, <1>2 DEF Fit, Ready
<1> QED BY <1>3 DEF x

LEMMA ReadyPongs ==
  ASSUME AccessInv, NEW c \in Callers, NEW m, Ready(c, m), NEW n \in Nat, NEW b \in BOOLEAN
  PROVE  Ready(c, [m EXCEPT !.pings = n]) /\ Ready(c, [m EXCEPT !.authed = b, !.pings = n])
<1> DEFINE x == [m EXCEPT !.pings = n]
           y == [m EXCEPT !.authed = b, !.pings = n]
<1>1. Fit(m) /\ m \in ConnRec /\ m.stage = "unknown"
  BY DEF Ready, Fit
<1>2. /\ x \in ConnRec /\ x.stage = m.stage /\ x.conf = m.conf /\ x.ip = m.ip
      /\ x.iphash = m.iphash /\ x.asked = m.asked
      /\ x.finished = m.finished /\ x.releases = m.releases
  BY <1>1 DEF ConnRec
<1>3. /\ y \in ConnRec /\ y.stage = m.stage /\ y.conf = m.conf /\ y.ip = m.ip
      /\ y.iphash = m.iphash /\ y.asked = m.asked
      /\ y.finished = m.finished /\ y.releases = m.releases
  BY <1>1 DEF ConnRec
<1> HIDE DEF x, y
<1>4. Ready(c, x) /\ Ready(c, y)
  BY <1>1, <1>2, <1>3 DEF Fit, Ready
<1> QED BY <1>4 DEF x, y

-----------------------------------------------------------------------------
(* The address cache *)

LEMMA EntriesKeep ==
  ASSUME AccessInv, UNCHANGED <<conn, queries, class, conf, listener>>,
         ipcache' \in [Ips -> EntryRec],
         \A a \in Ips : /\ ipcache'[a].count = ipcache[a].count
                        /\ ipcache'[a].count > 0 => ipcache'[a].held
  PROVE  AccessInv'
<1>1. /\ \A a : OnAddress(a)' = OnAddress(a)
      /\ \A i : OnBlock(i)' = OnBlock(i)
      /\ \A k : OnClass(k)' = OnClass(k)
      /\ OnPort' = OnPort
  BY DEF OnAddress, OnBlock, OnClass, OnPort
<1>2. Accounted'
  BY <1>1 DEF AccessInv, Accounted, AddressesCounted, BlocksCounted, ClassesCounted, PortCounted
<1>3. AccessBounds' /\ Stores' /\ Fits' /\ Queried'
  BY DEF AccessInv, Stores, Configured, IsClass, AccessBounds, Fits, Fit, ConnRec, NoConn, Queried
<1> QED BY <1>2, <1>3 DEF AccessInv

LEMMA EntryHeld ==
  ASSUME AccessInv, NEW a \in Ips
  PROVE  ipcache[a] \in EntryRec /\ (ipcache[a].count > 0 => ipcache[a].held)
  BY DEF AccessInv, Stores, Accounted, AddressesCounted

LEMMA RefuseOK == ASSUME AccessInv, NEW a \in Ips, Refuse(a) PROVE AccessInv'
<1>1. ipcache' = Found(ipcache, a) /\ UNCHANGED <<conn, queries, class, conf, listener>>
  BY DEF Refuse
<1>2. \A b \in Ips : /\ ipcache'[b].count = ipcache[b].count
                     /\ ipcache'[b].count > 0 => ipcache'[b].held
  BY <1>1, FoundEntry, EntryHeld
<1> QED BY <1>1, <1>2, FoundEntry, EntriesKeep

LEMMA ExpireOK == ASSUME AccessInv, ExpireEntries PROVE AccessInv'
<1>1. /\ UNCHANGED <<conn, queries, class, conf, listener>>
      /\ ipcache' = [a \in Ips |-> IF ipcache[a].count = 0 /\ ipcache[a].age >= Throttle
                                   THEN NoEntry ELSE ipcache[a]]
  BY DEF ExpireEntries
<1>2. NoEntry \in EntryRec /\ NoEntry.count = 0
  BY DEF NoEntry, EntryRec, AccessInv, AccessBounds
<1>3. ipcache' \in [Ips -> EntryRec]
  BY <1>1, <1>2, EntryHeld
<1>4. \A a \in Ips : /\ ipcache'[a].count = ipcache[a].count
                     /\ ipcache'[a].count > 0 => ipcache'[a].held
  BY <1>1, <1>2, EntryHeld
<1> QED BY <1>1, <1>3, <1>4, EntriesKeep

LEMMA TickOK == ASSUME AccessInv, Tick PROVE AccessInv'
<1>1. /\ UNCHANGED <<conn, queries, class, conf, listener>>
      /\ ipcache' = [a \in Ips |-> IF ipcache[a].held /\ ipcache[a].age < Throttle
                                   THEN [ipcache[a] EXCEPT !.age = @ + 1] ELSE ipcache[a]]
  BY DEF Tick
<1>2. ASSUME NEW a \in Ips
      PROVE  /\ [ipcache[a] EXCEPT !.age = @ + 1] \in EntryRec
             /\ [ipcache[a] EXCEPT !.age = @ + 1].count = ipcache[a].count
             /\ [ipcache[a] EXCEPT !.age = @ + 1].held = ipcache[a].held
  <2>1. ipcache[a] \in EntryRec /\ ipcache[a].age + 1 \in Nat
    BY EntryHeld DEF EntryRec
  <2> QED BY <2>1 DEF EntryRec
<1>3. ipcache' \in [Ips -> EntryRec]
  BY <1>1, <1>2, EntryHeld
<1>4. \A a \in Ips : /\ ipcache'[a].count = ipcache[a].count
                     /\ ipcache'[a].count > 0 => ipcache'[a].held
  BY <1>1, <1>2, EntryHeld
<1> QED BY <1>1, <1>3, <1>4, EntriesKeep

\* The count of each address follows who counts for it.
LEMMA AddressesAfter ==
  ASSUME AccessInv, NEW c \in Callers, NEW x, Fit(x), conn' = [conn EXCEPT ![c] = x],
         ipcache' \in [Ips -> EntryRec],
         \A a \in Ips :
           /\ ipcache'[a].count =
                IF x.iphash /\ x.ip = a
                THEN IF c \in OnAddress(a) THEN ipcache[a].count ELSE ipcache[a].count + 1
                ELSE IF c \in OnAddress(a) THEN ipcache[a].count - 1 ELSE ipcache[a].count
           /\ ipcache'[a].count > 0 => ipcache'[a].held
  PROVE  AddressesCounted'
<1> SUFFICES ASSUME NEW a \in Ips PROVE ipcache'[a].count = Cardinality(OnAddress(a)')
  BY DEF AddressesCounted
<1>1. But(OnAddress(a), OnAddress(a)', c) /\ (c \in OnAddress(a)' <=> x.iphash /\ x.ip = a)
  BY Counters DEF Fit
<1>2. ipcache[a].count = Cardinality(OnAddress(a))
  BY DEF AccessInv, Accounted, AddressesCounted
<1>3. Cardinality(OnAddress(a)') =
        IF c \in OnAddress(a)'
        THEN IF c \in OnAddress(a) THEN ipcache[a].count ELSE ipcache[a].count + 1
        ELSE IF c \in OnAddress(a) THEN ipcache[a].count - 1 ELSE ipcache[a].count
  BY <1>1, <1>2, ButCounts DEF AccessInv
<1> QED BY <1>1, <1>3

-----------------------------------------------------------------------------
(* Classes and blocks *)

SameCounts(k, l) == k.held = l.held /\ k.active = l.active /\ k.refs = l.refs

LEMMA ClassSubnets ==
  ASSUME NEW k, IsClass(k), NEW l
  PROVE  IsClass([k EXCEPT !.cidr = l]) /\ SameCounts([k EXCEPT !.cidr = l], k)
<1>1. k = [held |-> k.held, active |-> k.active, refs |-> k.refs,
           max |-> k.max, per |-> k.per, bits |-> k.bits, cidr |-> k.cidr]
  BY DEF IsClass
<1>2. [k EXCEPT !.cidr = l] = [held |-> k.held, active |-> k.active, refs |-> k.refs,
                               max |-> k.max, per |-> k.per, bits |-> k.bits, cidr |-> l]
  BY <1>1
<1> QED BY <1>2 DEF IsClass, SameCounts

LEMMA ClassRefs ==
  ASSUME NEW k, IsClass(k), NEW n \in Nat
  PROVE  /\ IsClass([k EXCEPT !.refs = n]) /\ [k EXCEPT !.refs = n].refs = n
         /\ [k EXCEPT !.refs = n].held = k.held /\ [k EXCEPT !.refs = n].active = k.active
<1>1. k = [held |-> k.held, active |-> k.active, refs |-> k.refs,
           max |-> k.max, per |-> k.per, bits |-> k.bits, cidr |-> k.cidr]
  BY DEF IsClass
<1>2. [k EXCEPT !.refs = n] = [held |-> k.held, active |-> k.active, refs |-> n,
                               max |-> k.max, per |-> k.per, bits |-> k.bits, cidr |-> k.cidr]
  BY <1>1
<1> QED BY <1>2 DEF IsClass

LEMMA SubnetAdded ==
  ASSUME NEW k, IsClass(k), NEW a
  PROVE  IsClass(CidrAdd(a, k)) /\ SameCounts(CidrAdd(a, k), k)
<1>1. PICK l : CidrAdd(a, k) \in {k, [k EXCEPT !.cidr = l]}
  BY DEF CidrAdd
<1>2. CASE CidrAdd(a, k) = k
  BY <1>2 DEF SameCounts
<1>3. CASE CidrAdd(a, k) = [k EXCEPT !.cidr = l]
  BY <1>3, ClassSubnets
<1> QED BY <1>1, <1>2, <1>3

LEMMA SubnetRemoved ==
  ASSUME NEW k, IsClass(k), NEW a
  PROVE  IsClass(CidrRemove(a, k)) /\ SameCounts(CidrRemove(a, k), k)
<1>1. PICK l : CidrRemove(a, k) \in {k, [k EXCEPT !.cidr = l]}
  BY DEF CidrRemove
<1>2. CASE CidrRemove(a, k) = k
  BY <1>2 DEF SameCounts
<1>3. CASE CidrRemove(a, k) = [k EXCEPT !.cidr = l]
  BY <1>3, ClassSubnets
<1> QED BY <1>1, <1>2, <1>3

LEMMA SubnetsRebuilt ==
  ASSUME NEW k, IsClass(class[k])
  PROVE  IsClass(Rebuilt(k)) /\ SameCounts(Rebuilt(k), class[k])
<1>1. \E l : Rebuilt(k) = [class[k] EXCEPT !.cidr = l]
  BY DEF Rebuilt
<1> QED BY <1>1, ClassSubnets

LEMMA ClassFreed ==
  ASSUME NEW k, IsClass(k), k.held \/ (k.refs = 0 /\ ~k.active)
  PROVE  /\ IsClass(FreeClass(k)) /\ FreeClass(k).refs = k.refs
         /\ FreeClass(k).held <=> FreeClass(k).active \/ FreeClass(k).refs > 0
         /\ FreeClass(k).active <=> k.active
<1>1. /\ IsClass(NoClass) /\ NoClass.refs = 0 /\ ~NoClass.held /\ ~NoClass.active
  BY DEF NoClass, IsClass
<1>2. k.refs \in Nat /\ k.active \in BOOLEAN /\ k.held \in BOOLEAN
  BY DEF IsClass
<1>3. CASE k.refs = 0 /\ ~k.active
  <2>1. FreeClass(k) = NoClass
    BY <1>3 DEF FreeClass
  <2> QED BY <1>1, <1>2, <1>3, <2>1
<1>4. CASE ~(k.refs = 0 /\ ~k.active)
  <2>1. FreeClass(k) = k
    BY <1>4 DEF FreeClass
  <2> QED BY <1>2, <1>4, <2>1
<1> QED BY <1>3, <1>4

LEMMA BlockFreed ==
  ASSUME NEW i \in ConfRec, i.held \/ (i.refs = 0 /\ ~i.active)
  PROVE  /\ FreeConf(i) \in ConfRec /\ FreeConf(i).refs = i.refs
         /\ FreeConf(i).held <=> FreeConf(i).active \/ FreeConf(i).refs > 0
         /\ i.refs > 0 \/ i.active => FreeConf(i) = i
         /\ FreeConf(i).active <=> i.active
<1>1. NoConf \in ConfRec /\ NoConf.refs = 0 /\ ~NoConf.held /\ ~NoConf.active
  BY DEF NoConf, ConfRec, ClassNames
<1>2. i.refs \in Nat /\ i.active \in BOOLEAN /\ i.held \in BOOLEAN
  BY DEF ConfRec
<1>3. CASE i.refs = 0 /\ ~i.active
  <2>1. FreeConf(i) = NoConf
    BY <1>3 DEF FreeConf
  <2> QED BY <1>1, <1>2, <1>3, <2>1
<1>4. CASE ~(i.refs = 0 /\ ~i.active)
  <2>1. FreeConf(i) = i
    BY <1>4 DEF FreeConf
  <2> QED BY <1>2, <1>4, <2>1
<1> QED BY <1>3, <1>4

\* The references of each block and class follow who is attached to it.
LEMMA RefsAfter ==
  ASSUME AccessInv, NEW c \in Callers, NEW x, Fit(x), conn' = [conn EXCEPT ![c] = x], Steady(x, c),
         \A i \in ConfIds :
           /\ conf'[i].refs =
                IF x.conf = i
                THEN IF c \in OnBlock(i) THEN conf[i].refs ELSE conf[i].refs + 1
                ELSE IF c \in OnBlock(i) THEN conf[i].refs - 1 ELSE conf[i].refs
           /\ conf'[i].held <=> conf'[i].active \/ conf'[i].refs > 0,
         \A k \in ClassNames :
           /\ class'[k].refs =
                IF x.conf # None /\ conf[x.conf].class = k
                THEN IF c \in OnClass(k) THEN class[k].refs ELSE class[k].refs + 1
                ELSE IF c \in OnClass(k) THEN class[k].refs - 1 ELSE class[k].refs
           /\ class'[k].held <=> class'[k].active \/ class'[k].refs > 0
  PROVE  BlocksCounted' /\ ClassesCounted'
<1>1. ASSUME NEW i \in ConfIds PROVE conf'[i].refs = Cardinality(OnBlock(i)')
  <2>1. But(OnBlock(i), OnBlock(i)', c) /\ (c \in OnBlock(i)' <=> x.conf = i)
    BY Counters DEF Fit
  <2>2. conf[i].refs = Cardinality(OnBlock(i))
    BY DEF AccessInv, Accounted, BlocksCounted
  <2>3. Cardinality(OnBlock(i)') =
          IF c \in OnBlock(i)'
          THEN IF c \in OnBlock(i) THEN conf[i].refs ELSE conf[i].refs + 1
          ELSE IF c \in OnBlock(i) THEN conf[i].refs - 1 ELSE conf[i].refs
    BY <2>1, <2>2, ButCounts DEF AccessInv
  <2> QED BY <2>1, <2>3
<1>2. ASSUME NEW k \in ClassNames PROVE class'[k].refs = Cardinality(OnClass(k)')
  <2>1. /\ But(OnClass(k), OnClass(k)', c)
        /\ c \in OnClass(k)' <=> x.conf # None /\ conf[x.conf].class = k
    BY Members DEF Fit
  <2>2. class[k].refs = Cardinality(OnClass(k))
    BY DEF AccessInv, Accounted, ClassesCounted
  <2>3. Cardinality(OnClass(k)') =
          IF c \in OnClass(k)'
          THEN IF c \in OnClass(k) THEN class[k].refs ELSE class[k].refs + 1
          ELSE IF c \in OnClass(k) THEN class[k].refs - 1 ELSE class[k].refs
    BY <2>1, <2>2, ButCounts DEF AccessInv
  <2> QED BY <2>1, <2>3
<1> QED BY <1>1, <1>2 DEF BlocksCounted, ClassesCounted

LEMMA RefsStay ==
  ASSUME AccessInv, NEW c \in Callers, NEW x, Fit(x), conn' = [conn EXCEPT ![c] = x],
         x.conf = conn[c].conf, UNCHANGED <<class, conf>>
  PROVE  BlocksCounted' /\ ClassesCounted'
<1>1. Steady(x, c)
  BY DEF Steady
<1>2. \A i \in ConfIds : /\ c \in OnBlock(i) <=> x.conf = i
                         /\ conf[i].held <=> conf[i].active \/ conf[i].refs > 0
  BY DEF OnBlock, AccessInv, Accounted, BlocksCounted
<1>3. \A k \in ClassNames : /\ c \in OnClass(k) <=> x.conf # None /\ conf[x.conf].class = k
                            /\ class[k].held <=> class[k].active \/ class[k].refs > 0
  BY DEF OnClass, AccessInv, Accounted, ClassesCounted
<1> QED BY <1>1, <1>2, <1>3, RefsAfter

-----------------------------------------------------------------------------
(* Leaving *)

LEMMA NoConnFits == AccessBounds => Fit(NoConn)
  BY DEF AccessBounds, Fit, NoConn, ConnRec, Kinds

\* What is free of a connection that goes, whatever it counted for
LEMMA Gone ==
  ASSUME AccessInv, NEW c \in Callers, conn[c].stage # "free", conn' = [conn EXCEPT ![c] = NoConn],
         queries' = {r \in queries : r[1] # c}, Released
  PROVE  /\ Fits' /\ Queried' /\ PortCounted' /\ listener' \in PortRec
         /\ Fit(NoConn) /\ NoConn.stage = "free" /\ NoConn.conf = None /\ ~NoConn.iphash
<1>1. Fit(NoConn) /\ NoConn.stage = "free" /\ NoConn.conf = None /\ ~NoConn.iphash
  BY NoConnFits DEF AccessInv, NoConn
<1>2. Fits'
  BY <1>1, OneFits
<1>3. Queried'
  BY DEF AccessInv, Fits, Queried
<1>4. But(OnPort, OnPort', c) /\ c \notin OnPort' /\ c \in OnPort
  BY <1>1, Counters DEF Fit, OnPort
<1>5. /\ listener.refs = Cardinality(OnPort) /\ listener \in PortRec
      /\ listener.held <=> listener.open \/ listener.refs > 0
  BY DEF AccessInv, Stores, Accounted, PortCounted
<1>6. Cardinality(OnPort') = listener.refs - 1 /\ listener.refs > 0
  <2>1. Cardinality(OnPort') = Cardinality(OnPort) - 1
    BY <1>4, ButCounts DEF AccessInv
  <2>2. Cardinality(OnPort) > 0
    BY <1>4, CountOne DEF AccessInv, OnPort
  <2> QED BY <1>5, <2>1, <2>2
<1>7. listener' \in PortRec /\ listener'.refs = listener.refs - 1
      /\ (listener'.held <=> listener'.open \/ listener'.refs > 0)
  <2>1. CASE listener.refs = 1 /\ ~listener.open
    <3>1. listener' = [held |-> FALSE, open |-> FALSE, refs |-> 0]
      BY <2>1 DEF Released
    <3> QED BY <2>1, <3>1 DEF PortRec
  <2>2. CASE ~(listener.refs = 1 /\ ~listener.open)
    <3>1. listener' = [listener EXCEPT !.refs = @ - 1] /\ listener.refs - 1 \in Nat
      BY <1>5, <1>6, <2>2 DEF Released, PortRec
    <3>2. /\ listener' \in PortRec /\ listener'.refs = listener.refs - 1
          /\ listener'.held = listener.held /\ listener'.open = listener.open
      BY <1>5, <3>1 DEF PortRec
    <3> QED BY <1>5, <1>6, <2>2, <3>2 DEF PortRec
  <2> QED BY <2>1, <2>2
<1> QED BY <1>1, <1>2, <1>3, <1>6, <1>7 DEF PortCounted

LEMMA TurnAwayOK ==
  ASSUME AccessInv, NEW c \in Callers, conn[c].stage = "unknown", NEW i, TurnAway(c, i)
  PROVE  AccessInv'
<1>1. /\ conn' = [conn EXCEPT ![c] = NoConn] /\ queries' = {r \in queries : r[1] # c}
      /\ Released /\ UNCHANGED <<class, conf>>
      /\ ipcache' = IF i = None THEN ipcache ELSE Dropped(CountedIn(conn[c].ip), conn[c].ip)
  BY DEF TurnAway
<1>2. /\ Fits' /\ Queried' /\ PortCounted' /\ listener' \in PortRec
      /\ Fit(NoConn) /\ NoConn.stage = "free" /\ NoConn.conf = None /\ ~NoConn.iphash
  BY <1>1, Gone
<1>3. Fit(conn[c]) /\ conn[c].conf = None /\ ~conn[c].iphash /\ conn[c].ip \in Ips
  BY DEF AccessInv, Fits, Fit
<1>4. BlocksCounted' /\ ClassesCounted'
  BY <1>1, <1>2, <1>3, RefsStay
<1>5. /\ ipcache' \in [Ips -> EntryRec]
      /\ \A a \in Ips : /\ ipcache'[a].count = ipcache[a].count
                        /\ ipcache'[a].count > 0 => ipcache'[a].held
  <2>1. CASE i = None
    BY <1>1, <2>1, EntryHeld DEF AccessInv, Stores
  <2>2. CASE i # None
    <3> DEFINE b == conn[c].ip
    <3>1. /\ CountedIn(b) \in [Ips -> EntryRec] /\ CountedIn(b)[b].held
          /\ CountedIn(b)[b].count = ipcache[b].count + 1 /\ ipcache[b].count \in Nat
          /\ \A a \in Ips \ {b} : CountedIn(b)[a] = ipcache[a]
      BY <1>3, CountedEntry, EntryHeld DEF EntryRec
    <3>2. ipcache' = Dropped(CountedIn(b), b) /\ CountedIn(b)[b].count > 0
      BY <1>1, <2>2, <3>1
    <3>3. /\ ipcache' \in [Ips -> EntryRec]
          /\ ipcache'[b].count = CountedIn(b)[b].count - 1
          /\ ipcache'[b].count > 0 => ipcache'[b].held
          /\ \A a \in Ips \ {b} : ipcache'[a] = CountedIn(b)[a]
      BY <1>3, <3>1, <3>2, DroppedEntry DEF AccessInv
    <3> HIDE DEF b
    <3> QED BY <3>1, <3>3, EntryHeld
  <2> QED BY <2>1, <2>2
<1>6. \A a \in Ips : c \notin OnAddress(a) /\ ipcache[a].count \in Nat
  BY <1>3, EntryHeld DEF OnAddress, EntryRec
<1>7. AddressesCounted'
  BY <1>1, <1>2, <1>5, <1>6, AddressesAfter
<1>8. AccessBounds' /\ Stores'
  BY <1>1, <1>2, <1>5 DEF AccessInv, Stores, Configured, IsClass, AccessBounds
<1> QED BY <1>2, <1>4, <1>7, <1>8 DEF AccessInv, Accounted

LEMMA DetachedOK ==
  ASSUME AccessInv, NEW c \in Callers, conn' = [conn EXCEPT ![c] = NoConn], Detached(c)
  PROVE  /\ BlocksCounted' /\ ClassesCounted'
         /\ class' = [k \in ClassNames |-> class'[k]] /\ \A k \in ClassNames : IsClass(class'[k])
         /\ conf' \in [ConfIds -> ConfRec]
         /\ Configured' /\ Steady(NoConn, c)
<1>0. Fit(NoConn) /\ NoConn.conf = None
  BY NoConnFits DEF AccessInv, NoConn
<1>1. CASE conn[c].conf = None
  BY <1>0, <1>1, RefsStay DEF Detached, AccessInv, Stores, Configured, IsClass, Steady
<1>2. CASE conn[c].conf # None
  <2> DEFINE i == conn[c].conf
             k == conf[i].class
             less == OneLess(conf[i])
             fewer == OneLess(CidrRemove(conn[c].ip, class[k]))
  <2>0. /\ class = [n \in ClassNames |-> class[n]] /\ \A n \in ClassNames : IsClass(class[n])
        /\ conf \in [ConfIds -> ConfRec]
    BY DEF AccessInv, Stores
  <2>1. i \in ConfIds /\ k \in ClassNames /\ conf[i] \in ConfRec /\ IsClass(class[k])
    BY <1>2, <2>0 DEF AccessInv, Fits, ConnRec, ConfRec
  <2>2. /\ conf[i].refs = Cardinality(OnBlock(i)) /\ c \in OnBlock(i) /\ OnBlock(i) \subseteq Callers
        /\ conf[i].held <=> conf[i].active \/ conf[i].refs > 0
    BY <2>1 DEF AccessInv, Accounted, BlocksCounted, OnBlock
  <2>3. /\ class[k].refs = Cardinality(OnClass(k)) /\ c \in OnClass(k) /\ OnClass(k) \subseteq Callers
        /\ class[k].held <=> class[k].active \/ class[k].refs > 0
    BY <1>2, <2>1 DEF AccessInv, Accounted, ClassesCounted, OnClass
  <2>4. conf[i].refs > 0 /\ conf[i].held /\ class[k].refs > 0 /\ class[k].held
    <3>1. Cardinality(OnBlock(i)) > 0
      BY <2>2, CountOne DEF AccessInv
    <3>2. Cardinality(OnClass(k)) > 0
      BY <2>3, CountOne DEF AccessInv
    <3> QED BY <2>2, <2>3, <3>1, <3>2
  <2>5. /\ less \in ConfRec /\ less.refs = conf[i].refs - 1 /\ less.held
        /\ less.class = conf[i].class /\ less.active = conf[i].active
    <3>1. conf[i].refs - 1 \in Nat
      BY <2>1, <2>4 DEF ConfRec
    <3> QED BY <2>1, <2>4, <3>1 DEF ConfRec, OneLess
  <2>6. IsClass(fewer) /\ fewer.refs = class[k].refs - 1 /\ fewer.held
        /\ fewer.active = class[k].active
    <3>1. /\ IsClass(CidrRemove(conn[c].ip, class[k]))
          /\ SameCounts(CidrRemove(conn[c].ip, class[k]), class[k])
      BY <2>1, SubnetRemoved
    <3> DEFINE r == CidrRemove(conn[c].ip, class[k])
    <3>2. fewer = [r EXCEPT !.refs = r.refs - 1] /\ IsClass(r) /\ SameCounts(r, class[k])
      BY <3>1 DEF OneLess
    <3> HIDE DEF r, fewer
    <3>3. PICK n \in Nat : n = r.refs - 1
      <4>1. r.refs \in Nat /\ r.refs > 0
        <5>1. r.refs = class[k].refs
          BY <3>2 DEF SameCounts
        <5>2. r.refs \in Nat
          BY <3>2 DEF IsClass
        <5> QED BY <2>4, <5>1, <5>2
      <4> QED BY <4>1
    <3>4. /\ IsClass([r EXCEPT !.refs = n]) /\ [r EXCEPT !.refs = n].refs = n
          /\ [r EXCEPT !.refs = n].held = r.held /\ [r EXCEPT !.refs = n].active = r.active
      BY <3>2, ClassRefs
    <3> QED BY <2>4, <3>2, <3>3, <3>4 DEF SameCounts
  <2>7. /\ class' = [class EXCEPT ![k] = FreeClass(fewer)]
        /\ conf' = [conf EXCEPT ![i] = FreeConf(less)]
    BY <1>2 DEF Detached
  <2>8. \A j \in ConfIds : conf'[j] = IF j = i THEN FreeConf(less) ELSE conf[j]
    BY <2>0, <2>7
  <2>9. \A n \in ClassNames : class'[n] = IF n = k THEN FreeClass(fewer) ELSE class[n]
    BY <2>0, <2>7
  <2>10. /\ FreeConf(less) \in ConfRec /\ FreeConf(less).refs = conf[i].refs - 1
         /\ FreeConf(less).held <=> FreeConf(less).active \/ FreeConf(less).refs > 0
         /\ less.refs > 0 \/ less.active => FreeConf(less) = less
         /\ FreeConf(less).active <=> less.active
    BY <2>5, BlockFreed
  <2>11. /\ IsClass(FreeClass(fewer)) /\ FreeClass(fewer).refs = class[k].refs - 1
         /\ FreeClass(fewer).held <=> FreeClass(fewer).active \/ FreeClass(fewer).refs > 0
         /\ FreeClass(fewer).active <=> fewer.active
    BY <2>6, ClassFreed
  <2>12. conf' \in [ConfIds -> ConfRec]
    BY <2>0, <2>7, <2>10
  <2>13. class' = [n \in ClassNames |-> class'[n]] /\ \A n \in ClassNames : IsClass(class'[n])
    BY <2>0, <2>7, <2>9, <2>11
  <2>14. \A j \in ConfIds \ {i} : c \notin OnBlock(j)
    BY DEF OnBlock
  <2>15. \A n \in ClassNames \ {k} : c \notin OnClass(n)
    BY DEF OnClass
  <2> HIDE DEF i, k, less, fewer
  <2>16. Steady(NoConn, c)
    <3>1. OnBlock(i) \ {c} # {} => less.refs > 0
      <4>1. Cardinality(OnBlock(i) \ {c}) = less.refs
        BY <2>2, <2>5, CountOne DEF AccessInv
      <4>2. OnBlock(i) \ {c} \subseteq Callers
        BY <2>2
      <4> QED BY <4>1, <4>2, CountOne DEF AccessInv
    <3> QED BY <1>0, <2>1, <2>5, <2>8, <2>10, <3>1 DEF Steady, AccessInv, AccessBounds
  <2>17. ASSUME NEW j \in ConfIds
         PROVE /\ conf'[j].refs = IF c \in OnBlock(j) THEN conf[j].refs - 1 ELSE conf[j].refs
               /\ conf'[j].held <=> conf'[j].active \/ conf'[j].refs > 0
               /\ NoConn.conf # j
    BY <1>0, <2>2, <2>8, <2>10, <2>14 DEF AccessInv, Accounted, BlocksCounted, AccessBounds
  <2>18. ASSUME NEW n \in ClassNames
         PROVE /\ class'[n].refs = IF c \in OnClass(n) THEN class[n].refs - 1 ELSE class[n].refs
               /\ class'[n].held <=> class'[n].active \/ class'[n].refs > 0
    BY <2>3, <2>9, <2>11, <2>15 DEF AccessInv, Accounted, ClassesCounted
  <2>19. BlocksCounted' /\ ClassesCounted'
    BY <1>0, <2>16, <2>17, <2>18, RefsAfter
  <2>20. Configured'
    <3>1. \A n \in ClassNames : class'[n].active <=> class[n].active
      BY <2>6, <2>9, <2>11
    <3>2. \A j \in ConfIds : conf'[j].active =>
            conf[j].active /\ conf'[j].class = conf[j].class /\ conf[j].class \in ClassNames
      BY <2>0, <2>5, <2>8, <2>10 DEF ConfRec
    <3> QED BY <3>1, <3>2 DEF AccessInv, Stores, Configured, ClassNames
  <2> QED BY <2>12, <2>13, <2>16, <2>19, <2>20
<1> QED BY <1>1, <1>2

LEMMA ExitOK == ASSUME AccessInv, NEW c \in Callers, conn[c].stage # "free", Exit(c) PROVE AccessInv'
<1>1. /\ conn' = [conn EXCEPT ![c] = NoConn] /\ queries' = {r \in queries : r[1] # c}
      /\ Released /\ Detached(c)
      /\ ipcache' = IF conn[c].iphash THEN Dropped(ipcache, conn[c].ip) ELSE ipcache
  BY DEF Exit
<1>2. /\ Fits' /\ Queried' /\ PortCounted' /\ listener' \in PortRec
      /\ Fit(NoConn) /\ NoConn.stage = "free" /\ NoConn.conf = None /\ ~NoConn.iphash
  BY <1>1, Gone
<1>3. Fit(conn[c]) /\ conn[c].ip \in Ips /\ conn[c].iphash \in BOOLEAN
  BY DEF AccessInv, Fits, Fit, ConnRec
<1>4. AddressesCounted' /\ ipcache' \in [Ips -> EntryRec]
  <2>0. ipcache \in [Ips -> EntryRec] /\ \A a \in Ips : ipcache[a].count \in Nat
    BY DEF AccessInv, Stores, EntryRec
  <2>1. CASE ~conn[c].iphash
    <3>1. \A a \in Ips : c \notin OnAddress(a)
      BY <2>1 DEF OnAddress
    <3> QED BY <1>1, <1>2, <2>0, <2>1, <3>1, EntryHeld, AddressesAfter
  <2>2. CASE conn[c].iphash
    <3> DEFINE b == conn[c].ip
    <3>1. \A a \in Ips : c \in OnAddress(a) <=> a = b
      BY <2>2 DEF OnAddress
    <3>2. /\ ipcache[b].count = Cardinality(OnAddress(b)) /\ OnAddress(b) \subseteq Callers
          /\ c \in OnAddress(b) /\ b \in Ips
      BY <1>3, <3>1 DEF AccessInv, Accounted, AddressesCounted, OnAddress
    <3>3. ipcache[b].count > 0 /\ ipcache[b].held
      BY <3>2, CountOne, EntryHeld DEF AccessInv
    <3>4. ipcache' = Dropped(ipcache, b)
      BY <1>1, <2>2
    <3>5. /\ ipcache' \in [Ips -> EntryRec]
          /\ ipcache'[b].count = ipcache[b].count - 1
          /\ ipcache'[b].count > 0 => ipcache'[b].held
          /\ \A a \in Ips \ {b} : ipcache'[a] = ipcache[a]
      BY <2>0, <3>2, <3>3, <3>4, DroppedEntry DEF AccessInv
    <3> HIDE DEF b
    <3>6. ASSUME NEW a \in Ips
          PROVE  /\ ipcache'[a].count =
                      IF c \in OnAddress(a) THEN ipcache[a].count - 1 ELSE ipcache[a].count
                 /\ ipcache'[a].count > 0 => ipcache'[a].held
      BY <3>1, <3>5, EntryHeld
    <3> QED BY <1>1, <1>2, <3>5, <3>6, AddressesAfter
  <2> QED BY <1>3, <2>1, <2>2
<1>5. /\ BlocksCounted' /\ ClassesCounted'
      /\ class' = [k \in ClassNames |-> class'[k]] /\ \A k \in ClassNames : IsClass(class'[k])
      /\ conf' \in [ConfIds -> ConfRec] /\ Configured'
  BY <1>1, DetachedOK
<1>6. AccessBounds'
  BY DEF AccessInv, AccessBounds
<1>7. Stores'
  BY <1>2, <1>4, <1>5 DEF Stores, IsClass
<1> QED BY <1>2, <1>4, <1>5, <1>6, <1>7 DEF AccessInv, Accounted

-----------------------------------------------------------------------------
(* Coming, and becoming a user *)

LEMMA AcceptOK ==
  ASSUME AccessInv, NEW c \in Callers, NEW a \in Ips, NEW ident, AcceptConn(c, a, ident)
  PROVE  AccessInv'
<1> DEFINE x == [NoConn EXCEPT !.stage = "unknown", !.ip = a,
                               !.need = {"NICK", "USER"}, !.asked = Asked(ident)]
<1>1. /\ conn' = [conn EXCEPT ![c] = x] /\ conn[c].stage = "free" /\ listener.open
      /\ ipcache' = Attempt(a) /\ listener' = [listener EXCEPT !.refs = @ + 1]
      /\ queries' = queries \cup {c} \X Sent(ident) /\ UNCHANGED <<class, conf>>
  BY DEF AcceptConn
<1>2. /\ Asked(ident) \subseteq Kinds /\ Asked(ident) # {}
      /\ Sent(ident) \subseteq Asked(ident)
  BY DEF Asked, Sent, Kinds
<1>3. /\ x \in ConnRec /\ x.stage = "unknown" /\ x.ip = a /\ x.asked = Asked(ident)
      /\ ~x.finished /\ x.releases = 0 /\ ~x.iphash /\ x.conf = None
  <2> DEFINE u == [NoConn EXCEPT !.stage = "unknown"]
             v == [u EXCEPT !.ip = a]
             w == [v EXCEPT !.need = {"NICK", "USER"}]
             z == [w EXCEPT !.asked = Asked(ident)]
  <2>1. /\ NoConn \in ConnRec /\ ~NoConn.finished /\ NoConn.releases = 0
        /\ ~NoConn.iphash /\ NoConn.conf = None
    BY NoConnFits DEF AccessInv, Fit, NoConn
  <2>2. /\ u \in ConnRec /\ u.stage = "unknown" /\ ~u.finished /\ u.releases = 0
        /\ ~u.iphash /\ u.conf = None
    BY <2>1 DEF ConnRec
  <2> HIDE DEF u
  <2>3. a \in 0..3
    BY DEF AccessInv, AccessBounds
  <2>4. /\ v \in ConnRec /\ v.stage = "unknown" /\ v.ip = a /\ ~v.finished /\ v.releases = 0
        /\ ~v.iphash /\ v.conf = None
    BY <2>2, <2>3 DEF ConnRec
  <2> HIDE DEF v
  <2>5. /\ w \in ConnRec /\ w.stage = "unknown" /\ w.ip = a /\ ~w.finished /\ w.releases = 0
        /\ ~w.iphash /\ w.conf = None
    BY <2>4 DEF ConnRec
  <2> HIDE DEF w
  <2>6. /\ z \in ConnRec /\ z.stage = "unknown" /\ z.ip = a /\ z.asked = Asked(ident)
        /\ ~z.finished /\ z.releases = 0 /\ ~z.iphash /\ z.conf = None
    BY <1>2, <2>5 DEF ConnRec
  <2>7. x = z
    BY DEF NoConn, u, v, w
  <2> QED BY <2>6, <2>7
<1> HIDE DEF x
<1>4. Fit(x)
  BY <1>2, <1>3 DEF Fit
<1>5. conn[c] = NoConn /\ NoConn.conf = None /\ ~NoConn.iphash
  BY <1>1 DEF AccessInv, Fits, Fit, NoConn
<1>6. Fits'
  BY <1>1, <1>4, OneFits
<1>7. Queried'
  <2>1. \A d \in Callers : conn'[d] = IF d = c THEN x ELSE conn[d]
    BY <1>1 DEF AccessInv, Fits
  <2>2. queries' \subseteq Callers \X Kinds
    BY <1>1, <1>2 DEF AccessInv, Queried
  <2>3. ASSUME NEW r \in queries'
        PROVE  conn'[r[1]].stage = "unknown" /\ r[2] \in conn'[r[1]].asked
    <3>1. CASE r \in queries
      <4>1. conn[r[1]].stage = "unknown" /\ r[2] \in conn[r[1]].asked /\ r[1] \in Callers
        BY <3>1 DEF AccessInv, Queried
      <4> QED BY <1>1, <2>1, <4>1
    <3>2. CASE r \in {c} \X Sent(ident)
      BY <1>2, <1>3, <1>4, <2>1, <3>2
    <3> QED BY <1>1, <3>1, <3>2
  <2> QED BY <2>2, <2>3 DEF Queried
<1>8. /\ ipcache' \in [Ips -> EntryRec]
      /\ \A b \in Ips : /\ ipcache'[b].count = ipcache[b].count
                        /\ ipcache'[b].count > 0 => ipcache'[b].held
  <2> DEFINE e == Found(ipcache, a)[a]
             n == IF ipcache[a].age < Throttle THEN e.tries + 1 ELSE 1
             g == [e EXCEPT !.tries = n, !.age = 0]
  <2>1. /\ e \in EntryRec /\ e.held /\ e.count = ipcache[a].count
        /\ Found(ipcache, a) \in [Ips -> EntryRec]
        /\ \A b \in Ips \ {a} : Found(ipcache, a)[b] = ipcache[b]
    BY FoundEntry
  <2>2. ipcache' = [Found(ipcache, a) EXCEPT ![a] = g]
    BY <1>1 DEF Attempt
  <2> HIDE DEF e
  <2>3. n \in Nat
    BY <2>1 DEF EntryRec
  <2> HIDE DEF n
  <2>4. g \in EntryRec /\ g.held = e.held /\ g.count = e.count
    BY <2>1, <2>3 DEF EntryRec
  <2> HIDE DEF g
  <2> QED BY <2>1, <2>2, <2>4, EntryHeld
<1>9. AddressesCounted'
  <2>1. \A b \in Ips : c \notin OnAddress(b)
    BY <1>5 DEF OnAddress
  <2> QED BY <1>1, <1>3, <1>4, <1>8, <2>1, AddressesAfter
<1>10. BlocksCounted' /\ ClassesCounted'
  BY <1>1, <1>3, <1>4, <1>5, RefsStay
<1>11. PortCounted' /\ listener' \in PortRec
  <2>1. But(OnPort, OnPort', c) /\ c \in OnPort' /\ c \notin OnPort
    BY <1>1, <1>3, <1>4, Counters DEF Fit, OnPort
  <2>2. /\ listener.refs = Cardinality(OnPort) /\ listener \in PortRec
        /\ listener.held <=> listener.open \/ listener.refs > 0
    BY DEF AccessInv, Stores, Accounted, PortCounted
  <2>3. Cardinality(OnPort') = Cardinality(OnPort) + 1
    BY <2>1, ButCounts DEF AccessInv
  <2>4. /\ listener' \in PortRec /\ listener'.refs = listener.refs + 1
        /\ listener'.held = listener.held /\ listener'.open = listener.open
    <3>1. listener.refs + 1 \in Nat
      BY <2>2 DEF PortRec
    <3> QED BY <1>1, <2>2, <3>1 DEF PortRec
  <2> QED BY <1>1, <2>2, <2>3, <2>4 DEF PortCounted, PortRec
<1>12. AccessBounds' /\ Stores'
  BY <1>1, <1>8, <1>11 DEF AccessInv, Stores, Configured, IsClass, AccessBounds
<1> QED BY <1>6, <1>7, <1>9, <1>10, <1>11, <1>12 DEF AccessInv, Accounted

LEMMA AdmitOK ==
  ASSUME AccessInv, NEW c \in Callers, Reads(c), NEW me, Ready(c, me), me.authed, me.need = {},
         NEW i \in ConfIds, conf[i].active, Admit(c, me, i)
  PROVE  AccessInv'
<1> DEFINE x == [me EXCEPT !.stage = "client", !.iphash = TRUE, !.conf = i]
           k == conf[i].class
           more == OneMore(CidrAdd(me.ip, class[k]))
           used == OneMore(conf[i])
<1>0. /\ class = [n \in ClassNames |-> class[n]] /\ \A n \in ClassNames : IsClass(class[n])
      /\ conf \in [ConfIds -> ConfRec] /\ i # None /\ ipcache \in [Ips -> EntryRec]
  BY DEF AccessInv, Stores, AccessBounds
<1>1. /\ conn' = [conn EXCEPT ![c] = x] /\ ipcache' = CountedIn(me.ip)
      /\ class' = [class EXCEPT ![k] = more]
      /\ conf' = [conf EXCEPT ![i].refs = @ + 1] /\ UNCHANGED <<queries, listener>>
  BY DEF Admit
<1>2. /\ Fit(me) /\ me \in ConnRec /\ me.stage = "unknown" /\ me.finished /\ me.ip \in Ips
      /\ me.asked = {} /\ me.asked = conn[c].asked
  BY DEF Ready, Fit
<1>3. /\ x \in ConnRec /\ x.stage = "client" /\ x.conf = i /\ x.ip = me.ip /\ x.iphash
      /\ x.asked = me.asked /\ x.finished = me.finished /\ x.releases = me.releases
      /\ x.authed = me.authed /\ x.need = me.need
  BY <1>2 DEF ConnRec
<1>4. conf[i] \in ConfRec /\ k \in ClassNames /\ IsClass(class[k])
  BY <1>0 DEF ConfRec
<1>5. /\ used \in ConfRec /\ used.refs = conf[i].refs + 1 /\ used.held
      /\ used.class = conf[i].class /\ used.active = conf[i].active
      /\ conf' = [conf EXCEPT ![i] = used]
  <2>0. conf[i].held
    BY DEF AccessInv, Accounted, BlocksCounted
  <2>1. conf[i].refs + 1 \in Nat
    BY <1>4 DEF ConfRec
  <2>2. conf' = [conf EXCEPT ![i] = used]
    BY <1>0, <1>1 DEF OneMore
  <2>3. used \in ConfRec /\ used.refs = conf[i].refs + 1 /\ used.class = conf[i].class
        /\ used.held = conf[i].held /\ used.active = conf[i].active
    BY <1>4, <2>1 DEF ConfRec, OneMore
  <2> HIDE DEF used
  <2> QED BY <2>0, <2>2, <2>3
<1>6. IsClass(more) /\ more.refs = class[k].refs + 1 /\ more.held /\ more.active
  <2>0. class[k].active /\ class[k].held
    BY <1>4 DEF AccessInv, Stores, Configured, Accounted, ClassesCounted
  <2> DEFINE r == CidrAdd(me.ip, class[k])
  <2>1. IsClass(r) /\ SameCounts(r, class[k]) /\ more = [r EXCEPT !.refs = r.refs + 1]
    BY <1>4, SubnetAdded DEF OneMore
  <2> HIDE DEF r, more
  <2>2. PICK n \in Nat : n = r.refs + 1
    BY <2>1 DEF IsClass
  <2>3. /\ IsClass([r EXCEPT !.refs = n]) /\ [r EXCEPT !.refs = n].refs = n
        /\ [r EXCEPT !.refs = n].held = r.held /\ [r EXCEPT !.refs = n].active = r.active
    BY <2>1, ClassRefs
  <2> QED BY <2>0, <2>1, <2>2, <2>3 DEF SameCounts
<1> HIDE DEF x, more, used
<1>7. Fit(x)
  BY <1>0, <1>2, <1>3 DEF Fit
<1>8. Fits'
  BY <1>1, <1>7, OneFits
<1>9. \A d \in Callers : conn'[d] = IF d = c THEN x ELSE conn[d]
  BY <1>1 DEF AccessInv, Fits
<1>10. Fit(conn[c]) /\ conn[c].stage = "unknown" /\ conn[c].conf = None /\ ~conn[c].iphash
  BY DEF AccessInv, Fits, Fit, Reads
<1>11. Queried'
  <2>1. \A r \in queries : r[1] # c
    BY <1>2 DEF AccessInv, Queried
  <2> QED BY <1>1, <1>9, <2>1 DEF AccessInv, Queried
<1>12. ipcache' \in [Ips -> EntryRec] /\ AddressesCounted'
  <2> DEFINE b == me.ip
  <2>1. /\ ipcache' \in [Ips -> EntryRec] /\ ipcache'[b].held
        /\ ipcache'[b].count = ipcache[b].count + 1
        /\ \A a \in Ips \ {b} : ipcache'[a] = ipcache[a]
    BY <1>1, <1>2, CountedEntry
  <2>2. \A a \in Ips : c \notin OnAddress(a)
    BY <1>10 DEF OnAddress
  <2>3. ASSUME NEW a \in Ips
        PROVE  /\ ipcache'[a].count = IF x.iphash /\ x.ip = a THEN ipcache[a].count + 1
                                      ELSE ipcache[a].count
               /\ ipcache'[a].count > 0 => ipcache'[a].held
    BY <1>3, <2>1, EntryHeld
  <2> QED BY <1>1, <1>7, <2>1, <2>2, <2>3, AddressesAfter
<1>13. conf' \in [ConfIds -> ConfRec] /\ \A j \in ConfIds : conf'[j] = IF j = i THEN used ELSE conf[j]
  BY <1>0, <1>5
<1>14. /\ class' = [n \in ClassNames |-> class'[n]] /\ \A n \in ClassNames : IsClass(class'[n])
       /\ \A n \in ClassNames : class'[n] = IF n = k THEN more ELSE class[n]
  BY <1>0, <1>1, <1>6
<1> HIDE DEF k
<1>15. Steady(x, c)
  BY <1>5, <1>13 DEF Steady
<1>16. ASSUME NEW j \in ConfIds
       PROVE /\ conf'[j].refs = IF x.conf = j THEN conf[j].refs + 1 ELSE conf[j].refs
             /\ conf'[j].held <=> conf'[j].active \/ conf'[j].refs > 0
             /\ c \notin OnBlock(j)
  <2>1. c \notin OnBlock(j)
    BY <1>10 DEF OnBlock, AccessInv, AccessBounds
  <2>2. /\ conf[j].held <=> conf[j].active \/ conf[j].refs > 0
        /\ conf[j].refs \in Nat
    BY <1>0 DEF AccessInv, Accounted, BlocksCounted, ConfRec
  <2> QED BY <1>3, <1>5, <1>13, <2>1, <2>2
<1>17. ASSUME NEW n \in ClassNames
       PROVE /\ class'[n].refs = IF x.conf # None /\ conf[x.conf].class = n
                                 THEN class[n].refs + 1 ELSE class[n].refs
             /\ class'[n].held <=> class'[n].active \/ class'[n].refs > 0
             /\ c \notin OnClass(n)
  <2>1. c \notin OnClass(n)
    BY <1>10 DEF OnClass
  <2>2. /\ class[n].held <=> class[n].active \/ class[n].refs > 0
        /\ class[n].refs \in Nat
    BY <1>0 DEF AccessInv, Accounted, ClassesCounted, IsClass
  <2>3. conf[x.conf].class = k /\ x.conf # None
    BY <1>0, <1>3 DEF k
  <2>4. CASE n = k
    BY <1>6, <1>14, <2>1, <2>2, <2>3, <2>4
  <2>5. CASE n # k
    BY <1>14, <2>1, <2>2, <2>3, <2>5
  <2> QED BY <2>4, <2>5
<1>18. ASSUME NEW j \in ConfIds
       PROVE /\ conf'[j].refs =
                  IF x.conf = j
                  THEN IF c \in OnBlock(j) THEN conf[j].refs ELSE conf[j].refs + 1
                  ELSE IF c \in OnBlock(j) THEN conf[j].refs - 1 ELSE conf[j].refs
             /\ conf'[j].held <=> conf'[j].active \/ conf'[j].refs > 0
  BY <1>16
<1>21. ASSUME NEW n \in ClassNames
       PROVE /\ class'[n].refs =
                  IF x.conf # None /\ conf[x.conf].class = n
                  THEN IF c \in OnClass(n) THEN class[n].refs ELSE class[n].refs + 1
                  ELSE IF c \in OnClass(n) THEN class[n].refs - 1 ELSE class[n].refs
             /\ class'[n].held <=> class'[n].active \/ class'[n].refs > 0
  BY <1>17
<1>22. BlocksCounted' /\ ClassesCounted'
  BY <1>1, <1>7, <1>15, <1>18, <1>21, RefsAfter
<1>19. PortCounted'
  <2>1. OnPort' = OnPort
    BY <1>3, <1>9, <1>10 DEF OnPort
  <2> QED BY <1>1, <2>1 DEF AccessInv, Accounted, PortCounted
<1>20. Configured'
  <2>1. \A n \in ClassNames : class[n].active => class'[n].active
    BY <1>6, <1>14
  <2>2. \A j \in ConfIds : /\ conf'[j].active => conf[j].active
                           /\ conf'[j].class = conf[j].class /\ conf[j].class \in ClassNames
    BY <1>0, <1>5, <1>13 DEF ConfRec
  <2> QED BY <2>1, <2>2 DEF AccessInv, Stores, Configured, ClassNames
<1>23. AccessBounds' /\ Stores'
  BY <1>1, <1>12, <1>13, <1>14, <1>20 DEF AccessInv, Stores, IsClass, AccessBounds
<1> QED BY <1>8, <1>11, <1>12, <1>19, <1>22, <1>23 DEF AccessInv, Accounted

-----------------------------------------------------------------------------
(* Registration *)

LEMMA RegisterOK ==
  ASSUME AccessInv, NEW c \in Callers, Reads(c), NEW me, Ready(c, me), me.need = {}, RegisterUser(c, me)
  PROVE  AccessInv'
<1>1. CASE ~me.authed
  <2>1. me.pings + 1 \in Nat
    BY DEF Ready, Fit, ConnRec
  <2> DEFINE x == [me EXCEPT !.pings = me.pings + 1]
  <2>2. /\ conn' = [conn EXCEPT ![c] = x]
        /\ UNCHANGED <<queries, ipcache, class, conf, listener>>
    BY <1>1 DEF RegisterUser
  <2>3. Ready(c, x)
    <3>1. PICK n \in Nat : n = me.pings + 1
      BY <2>1
    <3>2. Ready(c, [me EXCEPT !.pings = n])
      BY ReadyPongs
    <3> QED BY <3>1, <3>2
  <2> HIDE DEF x
  <2> QED BY <2>2, <2>3, ReadyOK
<1>2. CASE me.authed
  <2>1. PICK i \in Blocks : \/ TurnAway(c, i)
                            \/ i # None /\ ~Full(c, i) /\ Admit(c, me, i)
    BY <1>2 DEF RegisterUser
  <2>2. CASE TurnAway(c, i)
    BY <2>2, TurnAwayOK DEF Reads
  <2>3. CASE i # None /\ ~Full(c, i) /\ Admit(c, me, i)
    <3>1. i \in ConfIds /\ conf[i].active
      BY <2>3 DEF Blocks
    <3> QED BY <1>2, <2>3, <3>1, AdmitOK
  <2> QED BY <2>1, <2>2, <2>3
<1> QED BY <1>1, <1>2

LEMMA ContinueOK ==
  ASSUME AccessInv, NEW c \in Callers, Reads(c), NEW me, Ready(c, me), Continue(c, me)
  PROVE  AccessInv'
<1>1. CASE me.need = {}
  BY <1>1, RegisterOK DEF Continue
<1>2. CASE me.need # {}
  BY <1>2, ReadyOK DEF Continue
<1> QED BY <1>1, <1>2

LEMMA CommandOK ==
  ASSUME AccessInv, NEW c \in Callers, MrNick(c) \/ MrUser(c) \/ CapAsk(c) \/ CapEnd(c)
  PROVE  AccessInv'
<1>0. Reads(c) /\ conn[c].need \subseteq {"NICK", "USER", "CAP"}
  BY DEF MrNick, MrUser, CapAsk, CapEnd, AccessInv, Fits, ConnRec
<1>1. ASSUME NEW word \in {"NICK", "USER", "CAP"},
             Continue(c, [conn[c] EXCEPT !.need = conn[c].need \ {word}])
      PROVE  AccessInv'
  <2>1. conn[c].need \ {word} \in SUBSET {"NICK", "USER", "CAP"}
    BY <1>0
  <2>2. Ready(c, [conn[c] EXCEPT !.need = conn[c].need \ {word}])
    BY <1>0, <2>1, ReadyNeeds
  <2> QED BY <1>0, <1>1, <2>2, ContinueOK
<1>2. CASE MrNick(c)
  BY <1>1, <1>2 DEF MrNick
<1>3. CASE MrUser(c)
  BY <1>1, <1>3 DEF MrUser
<1>4. CASE CapEnd(c)
  BY <1>1, <1>4 DEF CapEnd
<1>5. CASE CapAsk(c)
  <2> DEFINE x == [conn[c] EXCEPT !.need = conn[c].need \cup {"CAP"}]
  <2>1. conn[c].need \cup {"CAP"} \in SUBSET {"NICK", "USER", "CAP"}
    BY <1>0
  <2>2. Ready(c, x)
    BY <1>0, <2>1, ReadyNeeds
  <2>3. conn' = [conn EXCEPT ![c] = x] /\ UNCHANGED <<queries, ipcache, class, conf, listener>>
    BY <1>5 DEF CapAsk, AccessInv, Fits
  <2> HIDE DEF x
  <2> QED BY <1>0, <2>2, <2>3, ReadyOK
<1> QED BY <1>2, <1>3, <1>4, <1>5

LEMMA AuthPongOK ==
  ASSUME AccessInv, NEW c \in Callers, NEW same \in BOOLEAN, AuthPong(c, same)
  PROVE  AccessInv'
<1> DEFINE me == [conn[c] EXCEPT !.authed = TRUE, !.pings = conn[c].pings - 1]
<1>1. Reads(c) /\ conn[c].pings > 0 /\ (Continue(c, me) \/ Exit(c))
  BY DEF AuthPong
<1>2. conn[c].pings \in Nat /\ Fit(conn[c]) /\ conn[c].stage = "unknown" /\ conn[c].finished
  BY <1>1 DEF AccessInv, Fits, ConnRec, Reads
<1>3. Ready(c, me)
  <2>1. PICK n \in Nat : n = conn[c].pings - 1
    BY <1>1, <1>2
  <2>2. Ready(c, [conn[c] EXCEPT !.authed = TRUE, !.pings = n])
    <3>1. Ready(c, conn[c])
      BY <1>2 DEF Ready
    <3> QED BY <3>1, ReadyPongs
  <2> QED BY <2>1, <2>2
<1> HIDE DEF me
<1>4. CASE Continue(c, me)
  BY <1>1, <1>3, <1>4, ContinueOK
<1>5. CASE Exit(c)
  BY <1>2, <1>5, ExitOK
<1> QED BY <1>1, <1>4, <1>5

-----------------------------------------------------------------------------
(* Rehash *)

\* A block in use is one with a reference.
LEMMA BlockInUse ==
  ASSUME AccessInv, NEW i \in ConfIds
  PROVE  conf[i].refs > 0 <=> OnBlock(i) # {}
<1>1. conf[i].refs = Cardinality(OnBlock(i)) /\ OnBlock(i) \subseteq Callers
  BY DEF AccessInv, Accounted, BlocksCounted, OnBlock
<1>2. IsFiniteSet(OnBlock(i))
  BY <1>1, FS_Subset DEF AccessInv, AccessBounds
<1>3. Cardinality(OnBlock(i)) \in Nat /\ (Cardinality(OnBlock(i)) = 0 <=> OnBlock(i) = {})
  BY <1>2, FS_CardinalityType, FS_EmptySet
<1> QED BY <1>1, <1>3

\* There are more blocks than connections, so one of them nobody uses.
LEMMA Spare ==
  ASSUME AccessInv
  PROVE  NewConf \in ConfIds /\ conf[NewConf].refs = 0
<1>1. \E i \in ConfIds : conf[i].refs = 0
  <2> SUFFICES ASSUME \A i \in ConfIds : conf[i].refs # 0 PROVE FALSE
    OBVIOUS
  <2>1. \A i \in ConfIds : conf[i].refs \in Nat
    BY DEF AccessInv, Stores, ConfRec
  <2>2. \A i \in ConfIds : \E c \in Callers : conn[c].conf = i
    BY <2>1, BlockInUse DEF OnBlock
  <2> DEFINE f == [i \in ConfIds |-> CHOOSE c \in Callers : conn[c].conf = i]
  <2>3. f \in [ConfIds -> Callers] /\ \A i \in ConfIds : conn[f[i]].conf = i
    BY <2>2
  <2> HIDE DEF f
  <2>4. /\ IsFiniteSet(Callers) /\ IsFiniteSet(ConfIds)
        /\ Cardinality(Callers) < Cardinality(ConfIds)
    <3>1. IsFiniteSet(Callers) /\ IsFiniteSet(ConfIds) /\ Cardinality(ConfIds) > Cardinality(Callers)
      BY DEF AccessInv, AccessBounds
    <3>2. Cardinality(Callers) \in Nat /\ Cardinality(ConfIds) \in Nat
      BY <3>1, FS_CardinalityType
    <3> QED BY <3>1, <3>2
  <2>5. \E i, j \in ConfIds : i # j /\ f[i] = f[j]
    BY <2>3, <2>4, FS_PigeonHole
  <2> QED BY <2>3, <2>5
<1> QED BY <1>1 DEF NewConf

\* What the file gives a class leaves its references alone.
LEMMA ClassHeld ==
  ASSUME NEW k, IsClass(k), NEW held \in BOOLEAN
  PROVE  LET m == [k EXCEPT !.held = held]
         IN  IsClass(m) /\ m.refs = k.refs /\ m.held = held /\ m.active = k.active
<1>1. k = [held |-> k.held, active |-> k.active, refs |-> k.refs,
           max |-> k.max, per |-> k.per, bits |-> k.bits, cidr |-> k.cidr]
  BY DEF IsClass
<1>2. [k EXCEPT !.held = held] =
        [held |-> held, active |-> k.active, refs |-> k.refs,
         max |-> k.max, per |-> k.per, bits |-> k.bits, cidr |-> k.cidr]
  BY <1>1
<1> QED BY <1>2 DEF IsClass

LEMMA ClassActive ==
  ASSUME NEW k, IsClass(k), NEW active \in BOOLEAN
  PROVE  LET m == [k EXCEPT !.active = active]
         IN  IsClass(m) /\ m.refs = k.refs /\ m.held = k.held /\ m.active = active
<1>1. k = [held |-> k.held, active |-> k.active, refs |-> k.refs,
           max |-> k.max, per |-> k.per, bits |-> k.bits, cidr |-> k.cidr]
  BY DEF IsClass
<1>2. [k EXCEPT !.active = active] =
        [held |-> k.held, active |-> active, refs |-> k.refs,
         max |-> k.max, per |-> k.per, bits |-> k.bits, cidr |-> k.cidr]
  BY <1>1
<1> QED BY <1>2 DEF IsClass

LEMMA ClassLimits ==
  ASSUME NEW k, IsClass(k), NEW l
  PROVE  /\ IsClass([k EXCEPT !.max = l]) /\ SameCounts([k EXCEPT !.max = l], k)
         /\ IsClass([k EXCEPT !.per = l]) /\ SameCounts([k EXCEPT !.per = l], k)
         /\ IsClass([k EXCEPT !.bits = l]) /\ SameCounts([k EXCEPT !.bits = l], k)
<1>1. k = [held |-> k.held, active |-> k.active, refs |-> k.refs,
           max |-> k.max, per |-> k.per, bits |-> k.bits, cidr |-> k.cidr]
  BY DEF IsClass
<1>2. [k EXCEPT !.max = l] = [held |-> k.held, active |-> k.active, refs |-> k.refs,
                              max |-> l, per |-> k.per, bits |-> k.bits, cidr |-> k.cidr]
  BY <1>1
<1>3. [k EXCEPT !.per = l] = [held |-> k.held, active |-> k.active, refs |-> k.refs,
                              max |-> k.max, per |-> l, bits |-> k.bits, cidr |-> k.cidr]
  BY <1>1
<1>4. [k EXCEPT !.bits = l] = [held |-> k.held, active |-> k.active, refs |-> k.refs,
                               max |-> k.max, per |-> k.per, bits |-> l, cidr |-> k.cidr]
  BY <1>1
<1>5. IsClass([k EXCEPT !.max = l]) /\ SameCounts([k EXCEPT !.max = l], k)
  BY <1>2 DEF IsClass, SameCounts
<1>6. IsClass([k EXCEPT !.per = l]) /\ SameCounts([k EXCEPT !.per = l], k)
  BY <1>3 DEF IsClass, SameCounts
<1>7. IsClass([k EXCEPT !.bits = l]) /\ SameCounts([k EXCEPT !.bits = l], k)
  BY <1>4 DEF IsClass, SameCounts
<1> QED BY <1>5, <1>6, <1>7

LEMMA ClassGiven ==
  ASSUME NEW k, IsClass(k), NEW held \in BOOLEAN, NEW active \in BOOLEAN,
         NEW max, NEW per, NEW bits
  PROVE  LET m == [k EXCEPT !.held = held, !.active = active, !.max = max,
                            !.per = per, !.bits = bits]
         IN  IsClass(m) /\ m.refs = k.refs /\ m.held = held /\ m.active = active
<1> DEFINE m == [k EXCEPT !.held = held, !.active = active, !.max = max,
                          !.per = per, !.bits = bits]
           u == [k EXCEPT !.held = held]
           v == [u EXCEPT !.active = active]
           w == [v EXCEPT !.max = max]
           y == [w EXCEPT !.per = per]
           z == [y EXCEPT !.bits = bits]
<1>1. IsClass(u) /\ u.refs = k.refs /\ u.held = held
  BY ClassHeld
<1>2. m = z
  OBVIOUS
<1> HIDE DEF u
<1>3. IsClass(v) /\ v.refs = u.refs /\ v.held = u.held /\ v.active = active
  BY <1>1, ClassActive
<1> HIDE DEF v
<1>4. IsClass(w) /\ SameCounts(w, v)
  BY <1>3, ClassLimits
<1> HIDE DEF w
<1>5. IsClass(y) /\ SameCounts(y, w)
  BY <1>4, ClassLimits
<1> HIDE DEF y
<1>6. IsClass(z) /\ SameCounts(z, y)
  BY <1>5, ClassLimits
<1> HIDE DEF m, z
<1>7. IsClass(m) /\ m.refs = k.refs /\ m.held = held /\ m.active = active
  BY <1>1, <1>2, <1>3, <1>4, <1>5, <1>6 DEF SameCounts
<1> QED BY <1>7 DEF m

LEMMA ClassConfigured ==
  ASSUME NEW k, IsClass(k), NEW max, NEW per, NEW bits
  PROVE  LET m == [k EXCEPT !.held = TRUE, !.active = TRUE, !.max = max,
                            !.per = per, !.bits = bits]
         IN  IsClass(m) /\ m.refs = k.refs /\ m.held /\ m.active
<1> DEFINE m == [k EXCEPT !.held = TRUE, !.active = TRUE, !.max = max,
                          !.per = per, !.bits = bits]
<1>1. TRUE \in BOOLEAN
  OBVIOUS
<1>2. IsClass(m) /\ m.refs = k.refs /\ m.held = TRUE /\ m.active = TRUE
  BY <1>1, ClassGiven, Zenon
<1> QED BY <1>2

LEMMA ClassParsed ==
  ASSUME AccessInv, NEW n \in ClassNames, NEW s
  PROVE  /\ IsClass(FromFile(n, s)) /\ FromFile(n, s).refs = class[n].refs
         /\ FromFile(n, s).held /\ FromFile(n, s).active
<1>1. /\ IsClass(class[n]) /\ class[n].refs \in Nat
      /\ class[n].held <=> class[n].active \/ class[n].refs > 0
  BY DEF AccessInv, Stores, Accounted, ClassesCounted, IsClass
<1>2. PICK old : /\ (old = NoClass /\ ~class[n].held) \/ old = Rebuilt(n) \/ old = class[n]
                 /\ FromFile(n, s) = [old EXCEPT !.held = TRUE, !.active = TRUE, !.max = s[1],
                                                 !.per = s[2], !.bits = s[3]]
  BY DEF FromFile
<1>3. IsClass(old) /\ old.refs = class[n].refs
  <2>1. CASE old = NoClass /\ ~class[n].held
    <3>1. IsClass(NoClass) /\ NoClass.refs = 0
      BY DEF IsClass, NoClass
    <3> QED BY <1>1, <2>1, <3>1
  <2>2. CASE old = Rebuilt(n)
    BY <1>1, <2>2, SubnetsRebuilt DEF SameCounts
  <2>3. CASE old = class[n]
    BY <1>1, <2>3
  <2> QED BY <1>2, <2>1, <2>2, <2>3
<1> DEFINE m == [old EXCEPT !.held = TRUE, !.active = TRUE, !.max = s[1],
                            !.per = s[2], !.bits = s[3]]
<1>4. IsClass(m) /\ m.refs = old.refs /\ m.held /\ m.active
  BY <1>3, ClassConfigured, Zenon
<1>5. FromFile(n, s) = m
  BY <1>2
<1> HIDE DEF m
<1> QED BY <1>3, <1>4, <1>5

LEMMA ClassMarked ==
  ASSUME NEW k, IsClass(k)
  PROVE  LET m == [k EXCEPT !.active = FALSE]
         IN  IsClass(m) /\ m.refs = k.refs /\ m.held = k.held /\ ~m.active
<1> DEFINE m == [k EXCEPT !.active = FALSE]
<1>1. FALSE \in BOOLEAN
  OBVIOUS
<1>2. IsClass(m) /\ m.refs = k.refs /\ m.held = k.held /\ m.active = FALSE
  BY <1>1, ClassActive, Zenon
<1> QED BY <1>2

LEMMA ClassSwept ==
  ASSUME AccessInv, NEW S, S \subseteq Classes, NEW s, NEW n \in ClassNames
  PROVE  LET m == Swept(S, s)[n]
         IN  /\ IsClass(m) /\ m.refs = class[n].refs
             /\ m.held <=> m.active \/ m.refs > 0
             /\ n = Default \/ n \in S => m.active
<1> DEFINE m == Swept(S, s)[n]
<1>1. /\ IsClass(class[n]) /\ class[n].refs \in Nat
      /\ class[n].held <=> class[n].active \/ class[n].refs > 0
  BY DEF AccessInv, Stores, Accounted, ClassesCounted, IsClass
<1>2. m = IF n = Default THEN class[n]
          ELSE IF n \in S THEN FromFile(n, s) ELSE FreeClass([class[n] EXCEPT !.active = FALSE])
  BY DEF Swept
<1> HIDE DEF m
<1>3. CASE n = Default
  BY <1>1, <1>2, <1>3 DEF AccessInv, Stores, Configured, m
<1>4. CASE n # Default /\ n \in S
  <2>1. m = FromFile(n, s)
    BY <1>2, <1>4
  <2> QED BY <2>1, ClassParsed DEF m
<1>5. CASE n # Default /\ n \notin S
  <2> DEFINE o == [class[n] EXCEPT !.active = FALSE]
  <2>1. m = FreeClass(o)
    BY <1>2, <1>5
  <2>2. IsClass(o) /\ o.refs = class[n].refs /\ o.held = class[n].held /\ ~o.active
    BY <1>1, ClassMarked
  <2> HIDE DEF o
  <2>3. o.held \/ (o.refs = 0 /\ ~o.active)
    BY <1>1, <2>2
  <2>4. IsClass(m) /\ m.refs = o.refs /\ (m.held <=> m.active \/ m.refs > 0)
    BY <2>1, <2>2, <2>3, ClassFreed
  <2> QED BY <1>5, <2>2, <2>4 DEF m
<1> QED BY <1>3, <1>4, <1>5

LEMMA BlockCleared ==
  ASSUME AccessInv, NEW i \in ConfIds
  PROVE  /\ Cleared[i] \in ConfRec /\ Cleared[i].refs = conf[i].refs /\ ~Cleared[i].active
         /\ Cleared[i].held <=> Cleared[i].active \/ Cleared[i].refs > 0
         /\ conf[i].refs > 0 => Cleared[i].class = conf[i].class
<1> DEFINE n == [conf[i] EXCEPT !.active = FALSE]
<1>1. /\ conf[i] \in ConfRec /\ conf[i].refs \in Nat
      /\ conf[i].held <=> conf[i].active \/ conf[i].refs > 0
  BY DEF AccessInv, Stores, Accounted, BlocksCounted, ConfRec
<1>2. /\ n \in ConfRec /\ n.refs = conf[i].refs /\ n.class = conf[i].class
      /\ n.held = conf[i].held /\ ~n.active
  BY <1>1 DEF ConfRec
<1>3. Cleared[i] = FreeConf(n)
  BY DEF Cleared
<1> HIDE DEF n
<1>4. n.held \/ (n.refs = 0 /\ ~n.active)
  BY <1>1, <1>2
<1> QED BY <1>2, <1>3, <1>4, BlockFreed

LEMMA RehashOK ==
  ASSUME AccessInv, NEW S \in SUBSET Classes, NEW s \in Settings, NEW k \in ClassNames,
         NEW listen \in BOOLEAN, Rehash(S, s, k, listen)
  PROVE  AccessInv'
<1> DEFINE new == [held |-> TRUE, active |-> TRUE, class |-> Named(k, S), refs |-> 0]
           j == NewConf
<1>1. /\ class' = Swept(S, s) /\ conf' = [Cleared EXCEPT ![j] = new]
      /\ listener' = Listening(listen) /\ UNCHANGED <<conn, queries, ipcache>>
  BY DEF Rehash
<1>2. j \in ConfIds /\ conf[j].refs = 0
  BY Spare
<1>3. /\ Named(k, S) \in ClassNames /\ (Named(k, S) = Default \/ Named(k, S) \in S)
      /\ new \in ConfRec /\ new.held /\ new.active /\ new.refs = 0 /\ new.class = Named(k, S)
  BY DEF Named, ClassNames, ConfRec
<1> HIDE DEF new, j
<1>4. /\ conf' \in [ConfIds -> ConfRec]
      /\ \A i \in ConfIds : conf'[i] = IF i = j THEN new ELSE Cleared[i]
  <2>1. Cleared \in [ConfIds -> ConfRec]
    <3>1. Cleared = [i \in ConfIds |-> Cleared[i]]
      BY DEF Cleared
    <3> QED BY <3>1, BlockCleared
  <2> QED BY <1>1, <1>3, <2>1
<1>5. \A i \in ConfIds : /\ conf'[i].refs = conf[i].refs
                         /\ conf'[i].held <=> conf'[i].active \/ conf'[i].refs > 0
                         /\ conf[i].refs > 0 => conf'[i].class = conf[i].class
                         /\ conf'[i].active => i = j
  BY <1>2, <1>3, <1>4, BlockCleared
<1>6. /\ class' = [n \in ClassNames |-> class'[n]]
      /\ \A n \in ClassNames : /\ IsClass(class'[n]) /\ class'[n].refs = class[n].refs
                               /\ class'[n].held <=> class'[n].active \/ class'[n].refs > 0
                               /\ n = Default \/ n \in S => class'[n].active
  <2>1. class' = [n \in ClassNames |-> class'[n]]
    BY <1>1 DEF Swept
  <2> QED BY <1>1, <2>1, ClassSwept
<1>7. /\ \A a : OnAddress(a)' = OnAddress(a) /\ OnBlock(a)' = OnBlock(a)
      /\ OnPort' = OnPort
  BY <1>1 DEF OnAddress, OnBlock, OnPort
<1>8. \A n : OnClass(n)' = OnClass(n)
  <2>1. \A c \in Callers : conn[c].conf # None =>
          conn[c].conf \in ConfIds /\ conf'[conn[c].conf].class = conf[conn[c].conf].class
    <3> SUFFICES ASSUME NEW c \in Callers, conn[c].conf # None
                 PROVE  /\ conn[c].conf \in ConfIds
                        /\ conf'[conn[c].conf].class = conf[conn[c].conf].class
      OBVIOUS
    <3>1. conn[c].conf \in ConfIds
      BY DEF AccessInv, Fits, ConnRec
    <3>2. OnBlock(conn[c].conf) # {}
      BY DEF OnBlock
    <3> QED BY <1>5, <3>1, <3>2, BlockInUse
  <2> QED BY <1>1, <2>1 DEF OnClass
<1>9. AddressesCounted' /\ BlocksCounted' /\ ClassesCounted'
  BY <1>1, <1>5, <1>6, <1>7, <1>8
     DEF AccessInv, Accounted, AddressesCounted, BlocksCounted, ClassesCounted
<1>10. PortCounted' /\ listener' \in PortRec
  <2>1. listener.refs \in Nat /\ listener.refs = Cardinality(OnPort)
    BY DEF AccessInv, Stores, PortRec, Accounted, PortCounted
  <2>2. listener' = [held |-> listen \/ listener.refs > 0, open |-> listen, refs |-> listener.refs]
    BY <1>1 DEF Listening
  <2>3. /\ listener'.refs = listener.refs /\ (listener'.open <=> listen)
        /\ (listener'.held <=> listen \/ listener.refs > 0)
    BY <2>2
  <2>4. listener' \in PortRec
    BY <2>1, <2>2 DEF PortRec
  <2> QED BY <1>7, <2>1, <2>3, <2>4 DEF PortCounted
<1>11. Configured'
  <2>1. class'[Default].active
    BY <1>6 DEF ClassNames
  <2>2. ASSUME NEW i \in ConfIds, conf'[i].active PROVE class'[conf'[i].class].active
    <3>1. i = j
      BY <1>5, <2>2
    <3>2. conf'[i].class = Named(k, S)
      BY <1>3, <1>4, <3>1
    <3> QED BY <1>3, <1>6, <3>2
  <2> QED BY <2>1, <2>2 DEF Configured
<1>12. Fits' /\ Queried' /\ AccessBounds'
  BY <1>1 DEF AccessInv, Fits, Fit, ConnRec, NoConn, Queried, AccessBounds
<1>13. ipcache' \in [Ips -> EntryRec]
  BY <1>1 DEF AccessInv, Stores
<1>14. Stores'
  BY <1>4, <1>6, <1>10, <1>11, <1>13 DEF Stores
<1> QED BY <1>9, <1>10, <1>12, <1>14 DEF AccessInv, Accounted

-----------------------------------------------------------------------------
(* The theorem *)

LEMMA InitAccessInv == ASSUME AccessBounds, AccessInit PROVE AccessInv
<1>1. conn = [c \in Callers |-> NoConn] /\ queries = {} /\ ipcache = [a \in Ips |-> NoEntry]
      /\ listener = [held |-> TRUE, open |-> TRUE, refs |-> 0]
  BY DEF AccessInit
<1>2. Fit(NoConn) /\ NoConn \in ConnRec /\ NoConn.stage = "free" /\ NoConn.conf = None
      /\ ~NoConn.iphash
  BY NoConnFits DEF Fit, NoConn
<1>3. Fits /\ Queried
  <2>1. conn \in [Callers -> ConnRec] /\ \A c \in Callers : Fit(conn[c])
    BY <1>1, <1>2
  <2> QED BY <1>1, <2>1 DEF Fits, Queried
<1>4. /\ \A a : OnAddress(a) = {}
      /\ \A i \in ConfIds : OnBlock(i) = {}
      /\ \A k : OnClass(k) = {}
      /\ OnPort = {}
  BY <1>1, <1>2 DEF OnAddress, OnBlock, OnClass, OnPort, AccessBounds
<1>5. Cardinality({}) = 0
  BY FS_EmptySet
<1>6. NoEntry \in EntryRec /\ NoEntry.count = 0
  BY DEF NoEntry, EntryRec, AccessBounds
<1>7. ipcache \in [Ips -> EntryRec] /\ AddressesCounted
  BY <1>1, <1>4, <1>5, <1>6 DEF AddressesCounted
<1>8. listener \in PortRec /\ PortCounted
  BY <1>1, <1>4, <1>5 DEF PortRec, PortCounted
<1>9. /\ class = [k \in ClassNames |-> class[k]]
      /\ \A k \in ClassNames : /\ IsClass(class[k]) /\ class[k].refs = 0
                               /\ class[k].held /\ class[k].active
  <2>1. PICK s \in Settings : class = [k \in ClassNames |->
          IF k = Default THEN [NoClass EXCEPT !.held = TRUE, !.active = TRUE]
          ELSE [NoClass EXCEPT !.held = TRUE, !.active = TRUE, !.max = s[1],
                               !.per = s[2], !.bits = s[3]]]
    BY DEF AccessInit
  <2>2. IsClass(NoClass) /\ NoClass.refs = 0
    BY DEF NoClass, IsClass
  <2> DEFINE m == [NoClass EXCEPT !.held = TRUE, !.active = TRUE]
             n == [NoClass EXCEPT !.held = TRUE, !.active = TRUE, !.max = s[1],
                                  !.per = s[2], !.bits = s[3]]
  <2>3. IsClass(m) /\ m.refs = NoClass.refs /\ m.held /\ m.active
    <3> DEFINE u == [NoClass EXCEPT !.held = TRUE]
               v == [u EXCEPT !.active = TRUE]
    <3>1. TRUE \in BOOLEAN
      OBVIOUS
    <3>2. IsClass(u) /\ u.refs = NoClass.refs /\ u.held = TRUE
      BY <2>2, <3>1, ClassHeld, Zenon
    <3>3. m = v
      OBVIOUS
    <3> HIDE DEF u
    <3>4. IsClass(v) /\ v.refs = u.refs /\ v.held = u.held /\ v.active = TRUE
      BY <3>1, <3>2, ClassActive, Zenon
    <3> HIDE DEF v, m
    <3>5. IsClass(m) /\ m.refs = NoClass.refs /\ m.held /\ m.active
      BY <3>2, <3>3, <3>4
    <3> QED BY <3>5 DEF m
  <2>4. IsClass(n) /\ n.refs = NoClass.refs /\ n.held /\ n.active
    BY <2>2, ClassConfigured, Zenon
  <2>5. class = [k \in ClassNames |-> IF k = Default THEN m ELSE n]
    BY <2>1
  <2> HIDE DEF m, n
  <2> QED BY <2>2, <2>3, <2>4, <2>5
<1>10. ClassesCounted
  BY <1>4, <1>5, <1>9 DEF ClassesCounted
<1>11. /\ conf \in [ConfIds -> ConfRec]
       /\ \A i \in ConfIds : conf[i].refs = 0 /\ (conf[i].held <=> conf[i].active)
  <2>1. PICK k \in ClassNames : conf = [[j \in ConfIds |-> NoConf] EXCEPT
                                    ![1] = [held |-> TRUE, active |-> TRUE, class |-> k, refs |-> 0]]
    BY DEF AccessInit
  <2> DEFINE m == [held |-> TRUE, active |-> TRUE, class |-> k, refs |-> 0]
  <2>2. m \in ConfRec /\ m.refs = 0 /\ m.held /\ m.active
    BY DEF ConfRec
  <2>3. NoConf \in ConfRec /\ NoConf.refs = 0 /\ ~NoConf.held /\ ~NoConf.active
    BY DEF NoConf, ConfRec, ClassNames
  <2>4. conf = [[j \in ConfIds |-> NoConf] EXCEPT ![1] = m]
    BY <2>1
  <2> HIDE DEF m
  <2> QED BY <2>2, <2>3, <2>4
<1>12. BlocksCounted
  BY <1>4, <1>5, <1>11 DEF BlocksCounted
<1>13. Configured
  <2>1. \A i \in ConfIds : conf[i].class \in ClassNames
    BY <1>11 DEF ConfRec
  <2> QED BY <1>9, <2>1 DEF Configured, ClassNames
<1> QED BY <1>3, <1>7, <1>8, <1>9, <1>10, <1>11, <1>12, <1>13 DEF AccessInv, Stores, Accounted

LEMMA StutterOK == ASSUME AccessInv, UNCHANGED accessVars PROVE AccessInv'
<1>1. UNCHANGED <<conn, queries, ipcache, class, conf, listener>>
  BY DEF accessVars
<1>2. \A a \in Ips : ipcache[a].count > 0 => ipcache[a].held
  BY EntryHeld
<1> QED BY <1>1, <1>2, EntriesKeep DEF AccessInv, Stores

LEMMA NextIInv == ASSUME AccessInv, [AccessNext]_accessVars PROVE AccessInv'
<1>1. ASSUME NEW c \in Callers, NEW a \in Ips, NEW ident \in {"off", "open", "failed"},
             AcceptConn(c, a, ident)
      PROVE  AccessInv'
  BY <1>1, AcceptOK
<1>2. ASSUME NEW c \in Callers, DnsAnswer(c) \/ IdentAnswer(c) PROVE AccessInv'
  BY <1>2, AnswerOK DEF DnsAnswer, IdentAnswer, Kinds
<1>3. ASSUME NEW c \in Callers, NEW a \in Ips, WebIrc(c, a) PROVE AccessInv'
  BY <1>3, WebIrcOK
<1>4. ASSUME NEW c \in Callers, MrNick(c) \/ MrUser(c) \/ CapAsk(c) \/ CapEnd(c) PROVE AccessInv'
  BY <1>4, CommandOK
<1>5. ASSUME NEW c \in Callers, NEW same \in BOOLEAN, AuthPong(c, same) PROVE AccessInv'
  BY <1>5, AuthPongOK
<1>6. ASSUME NEW c \in Callers, TimeoutAuth(c) PROVE AccessInv'
  BY <1>6, TimeoutOK
<1>7. ASSUME NEW c \in Callers, Leave(c) PROVE AccessInv'
  BY <1>7, ExitOK DEF Leave
<1>8. ASSUME NEW a \in Ips, Refuse(a) PROVE AccessInv'
  BY <1>8, RefuseOK
<1>9. CASE ExpireEntries
  BY <1>9, ExpireOK
<1>10. CASE Tick
  BY <1>10, TickOK
<1>11. ASSUME NEW S \in SUBSET Classes, NEW s \in Settings, NEW k \in ClassNames,
              NEW listen \in BOOLEAN, Rehash(S, s, k, listen)
       PROVE  AccessInv'
  BY <1>11, RehashOK
<1>12. CASE UNCHANGED accessVars
  BY <1>12, StutterOK
<1> QED BY <1>1, <1>2, <1>3, <1>4, <1>5, <1>6, <1>7, <1>8, <1>9, <1>10, <1>11, <1>12 DEF AccessNext

LEMMA IInvEntered == ASSUME AccessInv PROVE Entered
<1>1. \A c \in Callers : Fit(conn[c])
  BY DEF AccessInv, Fits
<1>2. Admitted
  BY <1>1 DEF AccessInv, Queried, Admitted, Fit
<1> QED BY <1>2 DEF AccessInv, Entered

\* Whatever the connections, addresses, blocks and classes are, and however often they are
\* rehashed: of every user DNS and ident are over, NICK, USER and CAP done and the challenge
\* answered; no answer finds its connection gone; and the class, the auth{} block, the port
\* and the address count exactly those who count for them, and are kept as long as they do
\* (user.c 399-613, conf.c 241-494, auth.c, conf_class.c, ipcache.c, listener.c).
THEOREM AlwaysEntered == AccessSpec => []Entered
<1>1. AccessInit => AccessInv
  BY AccessConstants, InitAccessInv
<1>2. AccessInv /\ [AccessNext]_accessVars => AccessInv'
  BY NextIInv
<1>3. AccessInv => Entered
  BY IInvEntered
<1> QED BY <1>1, <1>2, <1>3, PTL DEF AccessSpec
-----------------------------------------------------------------------------
(* The subnets of a class *)

\* Every file limits subnets, and by masks of one length.
SteadySubnets == \E b \in 1..2 : Settings \subseteq Nat \X (Nat \ {0}) \X {b}
Bits == CHOOSE b \in 1..2 : Settings \subseteq Nat \X (Nat \ {0}) \X {b}

\* A list has each subnet once, with the number f gives its addresses, and all that have one.
Item == [mask : 0..3, n : Nat \ {0}]
Same(a, b) == Mask(a, Bits) = Mask(b, Bits)
Lists(l, f) ==
  /\ l \in Seq(Item)
  /\ \A i, j \in DOMAIN l : Same(l[i].mask, l[j].mask) => i = j
  /\ \A a \in 0..3 : \A i \in DOMAIN l : Same(a, l[i].mask) => l[i].n = f[a]
  /\ \A a \in 0..3 : f[a] # 0 => \E i \in DOMAIN l : Same(a, l[i].mask)

\* A class that limits its subnets to f
Fine(k, f) == IsClass(k) /\ k.per \in Nat \ {0} /\ k.bits = Bits /\ Lists(k.cidr, f)

LEMMA BitsIs == SteadySubnets => Bits \in 1..2 /\ Settings \subseteq Nat \X (Nat \ {0}) \X {Bits}
  BY DEF SteadySubnets, Bits

LEMMA MaskIs ==
  ASSUME SteadySubnets, NEW a \in 0..3
  PROVE  Mask(a, Bits) \in 0..3 /\ Same(Mask(a, Bits), a)
<1>1. Bits = 1 \/ Bits = 2 BY BitsIs
<1>2. 2 ^ 0 = 1 /\ 2 ^ 1 = 2 OBVIOUS
<1>3. CASE Bits = 1
  <2>1. \A x : Mask(x, Bits) = (x \div 2) * 2 BY <1>2, <1>3 DEF Mask
  <2>2. (a \div 2) * 2 \in 0..3 /\ (((a \div 2) * 2) \div 2) * 2 = (a \div 2) * 2 OBVIOUS
  <2> QED BY <2>1, <2>2 DEF Same
<1>4. CASE Bits = 2
  <2>1. \A x : Mask(x, Bits) = (x \div 1) * 1 BY <1>2, <1>4 DEF Mask
  <2>2. (a \div 1) * 1 = a OBVIOUS
  <2> QED BY <2>1, <2>2 DEF Same
<1> QED BY <1>1, <1>3, <1>4

\* What is found of an address
LEMMA HitIs ==
  ASSUME SteadySubnets, NEW k, NEW f, Fine(k, f), NEW a \in 0..3
  PROVE  /\ Hits(a, k) = {i \in DOMAIN k.cidr : Same(a, k.cidr[i].mask)}
         /\ Hits(a, k) = {} => f[a] = 0
         /\ Hits(a, k) # {} => LET i == First(Hits(a, k)) IN
              i \in DOMAIN k.cidr /\ Hits(a, k) = {i} /\ k.cidr[i] \in Item /\ k.cidr[i].n = f[a]
<1>0. k.bits = Bits /\ Lists(k.cidr, f)
  BY DEF Fine
<1>1. /\ DOMAIN k.cidr = 1..Len(k.cidr) /\ Len(k.cidr) \in Nat
      /\ \A i \in DOMAIN k.cidr : k.cidr[i] \in Item
  BY <1>0 DEF Lists
<1>2. Hits(a, k) = {i \in DOMAIN k.cidr : Same(a, k.cidr[i].mask)}
  BY <1>0, <1>1 DEF Hits, Matches, Same
<1>3. Hits(a, k) = {} => f[a] = 0
  BY <1>0, <1>2 DEF Lists
<1>4. ASSUME Hits(a, k) # {}
      PROVE  LET i == First(Hits(a, k)) IN
             i \in DOMAIN k.cidr /\ Hits(a, k) = {i} /\ k.cidr[i] \in Item /\ k.cidr[i].n = f[a]
  <2>1. PICK i \in DOMAIN k.cidr : Same(a, k.cidr[i].mask) BY <1>2, <1>4
  <2>2. \A j \in DOMAIN k.cidr : Same(a, k.cidr[j].mask) => j = i
    BY <1>0, <2>1 DEF Lists, Same
  <2>3. Hits(a, k) = {i} BY <1>2, <2>1, <2>2
  <2>4. First({i}) = i BY <1>1 DEF First
  <2>5. k.cidr[i].n = f[a] BY <1>0, <2>1 DEF Lists
  <2> QED BY <1>1, <2>3, <2>4, <2>5
<1> QED BY <1>2, <1>3, <1>4

\* One more, or one less, in the subnet of a
Shifts(f, g, a, d) == \A x \in 0..3 : f[x] \in Nat /\ g[x] = IF Same(x, a) THEN f[x] + d ELSE f[x]

LEMMA SameItem ==
  ASSUME NEW m \in Item, NEW n \in Nat \ {0}
  PROVE  [m EXCEPT !.n = n] \in Item /\ [m EXCEPT !.n = n].mask = m.mask
         /\ [m EXCEPT !.n = n].n = n
  BY DEF Item

\* A list of which one item says another number
LEMMA OneRevised ==
  ASSUME SteadySubnets, NEW l, NEW f, NEW g, Lists(l, f), NEW a \in 0..3, NEW d \in Int,
         Shifts(f, g, a, d), NEW i \in DOMAIN l, Same(a, l[i].mask), NEW n \in Nat \ {0}, n = l[i].n + d
  PROVE  Lists([l EXCEPT ![i].n = n], g)
<1> DEFINE m == [l EXCEPT ![i].n = n]
           e == [l[i] EXCEPT !.n = n]
<1>0. l \in Seq(Item) /\ l[i] \in Item BY DEF Lists
<1>1. e \in Item /\ e.mask = l[i].mask /\ e.n = n BY <1>0, SameItem
<1>2. m = [l EXCEPT ![i] = e] OBVIOUS
<1> HIDE DEF e, m
<1>3. m \in Seq(Item) /\ DOMAIN m = DOMAIN l BY <1>0, <1>1, <1>2
<1>4. \A j \in DOMAIN l : m[j] = IF j = i THEN e ELSE l[j] BY <1>0, <1>2
<1>5. \A j \in DOMAIN l : m[j].mask = l[j].mask BY <1>1, <1>4
<1>6. \A j, h \in DOMAIN m : Same(m[j].mask, m[h].mask) => j = h BY <1>3, <1>5 DEF Lists
<1>7. ASSUME NEW x \in 0..3, NEW j \in DOMAIN m, Same(x, m[j].mask) PROVE m[j].n = g[x]
  <2>1. Same(x, l[j].mask) /\ l[j].n = f[x] /\ j \in DOMAIN l BY <1>3, <1>5, <1>7 DEF Lists
  <2>2. CASE j = i
    <3>1. Same(x, a) BY <2>1, <2>2 DEF Same
    <3> QED BY <1>1, <1>4, <2>1, <2>2, <3>1 DEF Shifts
  <2>3. CASE j # i
    <3>1. ~Same(x, a) BY <2>1, <2>3 DEF Same, Lists
    <3>2. m[j] = l[j] BY <1>4, <2>1, <2>3
    <3> QED BY <2>1, <3>1, <3>2 DEF Shifts
  <2> QED BY <2>2, <2>3
<1>8. ASSUME NEW x \in 0..3, g[x] # 0 PROVE \E j \in DOMAIN m : Same(x, m[j].mask)
  <2>1. CASE Same(x, a)
    <3>1. Same(x, m[i].mask) BY <1>5, <2>1 DEF Same
    <3> QED BY <1>3, <3>1
  <2>2. CASE ~Same(x, a)
    <3>1. f[x] # 0 BY <1>8, <2>2 DEF Shifts
    <3>2. PICK j \in DOMAIN l : Same(x, l[j].mask) BY <3>1 DEF Lists
    <3> QED BY <1>3, <1>5, <3>2
  <2> QED BY <2>1, <2>2
<1>9. Lists(m, g) BY <1>3, <1>6, <1>7, <1>8 DEF Lists
<1> QED BY <1>9 DEF m

LEMMA FineSubnets ==
  ASSUME NEW k, IsClass(k), k.per \in Nat \ {0}, k.bits = Bits, NEW l, NEW f, Lists(l, f)
  PROVE  Fine([k EXCEPT !.cidr = l], f)
<1>1. k = [held |-> k.held, active |-> k.active, refs |-> k.refs,
           max |-> k.max, per |-> k.per, bits |-> k.bits, cidr |-> k.cidr]
  BY DEF IsClass
<1>2. [k EXCEPT !.cidr = l] = [held |-> k.held, active |-> k.active, refs |-> k.refs,
                               max |-> k.max, per |-> k.per, bits |-> k.bits, cidr |-> l]
  BY <1>1
<1> DEFINE m == [k EXCEPT !.cidr = l]
<1>3. m.per = k.per /\ m.bits = k.bits /\ m.cidr = l BY <1>2
<1>4. IsClass(m) BY ClassSubnets
<1> HIDE DEF m
<1>5. Fine(m, f) BY <1>3, <1>4 DEF Fine
<1> QED BY <1>5 DEF m

LEMMA FineRefs ==
  ASSUME NEW k, NEW f, Fine(k, f), NEW n \in Nat
  PROVE  Fine([k EXCEPT !.refs = n], f)
<1>0. IsClass(k) BY DEF Fine
<1>1. k = [held |-> k.held, active |-> k.active, refs |-> k.refs,
           max |-> k.max, per |-> k.per, bits |-> k.bits, cidr |-> k.cidr]
  BY <1>0 DEF IsClass
<1>2. [k EXCEPT !.refs = n] = [held |-> k.held, active |-> k.active, refs |-> n,
                               max |-> k.max, per |-> k.per, bits |-> k.bits, cidr |-> k.cidr]
  BY <1>1
<1> DEFINE m == [k EXCEPT !.refs = n]
<1>3. m.per = k.per /\ m.bits = k.bits /\ m.cidr = k.cidr BY <1>2
<1>4. IsClass(m) BY <1>0, ClassRefs
<1> HIDE DEF m
<1>5. Fine(m, f) BY <1>3, <1>4 DEF Fine
<1> QED BY <1>5 DEF m

\* The subnet of a new user is counted.
LEMMA AddLists ==
  ASSUME SteadySubnets, NEW k, NEW f, Fine(k, f), NEW a \in 0..3, NEW g, Shifts(f, g, a, 1)
  PROVE  Fine(CidrAdd(a, k), g)
<1>0. /\ IsClass(k) /\ k.per \in Nat \ {0} /\ k.bits = Bits /\ Lists(k.cidr, f)
      /\ Subnetted(k) /\ Bits \in 1..2
  BY BitsIs DEF Fine, Subnetted
<1>1. CASE Hits(a, k) = {}
  <2> DEFINE item == [mask |-> Mask(a, Bits), n |-> 1]
             l == k.cidr
             m == <<item>> \o l
  <2>1. item \in Item /\ Same(item.mask, a) /\ item.n = 1 BY MaskIs DEF Item
  <2>2. CidrAdd(a, k) = [k EXCEPT !.cidr = m] BY <1>0, <1>1 DEF CidrAdd
  <2>3. /\ f[a] = 0 /\ \A i \in DOMAIN l : ~Same(a, l[i].mask) BY <1>1, HitIs
  <2>4. l \in Seq(Item) /\ Len(l) \in Nat /\ DOMAIN l = 1..Len(l) BY <1>0 DEF Lists
  <2>5. Lists(l, f) BY <1>0
  <2> HIDE DEF item, l, m
  <2>6. /\ m \in Seq(Item) /\ DOMAIN m = 1..(Len(l) + 1) /\ m[1] = item
        /\ \A i \in DOMAIN l : i + 1 \in DOMAIN m /\ m[i + 1] = l[i]
        /\ \A i \in DOMAIN m : i = 1 \/ (i - 1 \in DOMAIN l /\ m[i] = l[i - 1])
    BY <2>1, <2>4 DEF m
  <2>7. ASSUME NEW i \in DOMAIN m, NEW j \in DOMAIN m, Same(m[i].mask, m[j].mask) PROVE i = j
    <3>1. CASE i = 1 /\ j # 1
      <4>1. j - 1 \in DOMAIN l /\ m[j] = l[j - 1] BY <2>6, <3>1
      <4>2. Same(a, l[j - 1].mask) BY <2>1, <2>6, <2>7, <3>1, <4>1 DEF Same
      <4> QED BY <2>3, <4>1, <4>2
    <3>2. CASE i # 1 /\ j = 1
      <4>1. i - 1 \in DOMAIN l /\ m[i] = l[i - 1] BY <2>6, <3>2
      <4>2. Same(a, l[i - 1].mask) BY <2>1, <2>6, <2>7, <3>2, <4>1 DEF Same
      <4> QED BY <2>3, <4>1, <4>2
    <3>3. CASE i # 1 /\ j # 1
      <4>1. i - 1 \in DOMAIN l /\ m[i] = l[i - 1] /\ j - 1 \in DOMAIN l /\ m[j] = l[j - 1]
        BY <2>6, <3>3
      <4>2. i - 1 = j - 1 BY <2>5, <2>7, <4>1 DEF Lists
      <4>3. i \in Int /\ j \in Int BY <2>4, <2>6
      <4> QED BY <4>2, <4>3
    <3> QED BY <3>1, <3>2, <3>3
  <2>8. ASSUME NEW x \in 0..3, NEW i \in DOMAIN m, Same(x, m[i].mask) PROVE m[i].n = g[x]
    <3>1. CASE i = 1
      <4>1. Same(x, a) BY <2>1, <2>6, <2>8, <3>1 DEF Same
      <4>2. f[x] = 0
        <5>1. \A j \in DOMAIN l : ~Same(x, l[j].mask) BY <2>3, <4>1 DEF Same
        <5> QED BY <2>5, <5>1 DEF Lists
      <4>3. g[x] = 1 BY <4>1, <4>2 DEF Shifts
      <4> QED BY <2>1, <2>6, <3>1, <4>3
    <3>2. CASE i # 1
      <4>1. i - 1 \in DOMAIN l /\ m[i] = l[i - 1] BY <2>6, <3>2
      <4>2. l[i - 1].n = f[x] BY <2>5, <2>8, <4>1 DEF Lists
      <4>3. ~Same(x, a) BY <2>3, <2>8, <4>1 DEF Same
      <4> QED BY <4>1, <4>2, <4>3 DEF Shifts
    <3> QED BY <3>1, <3>2
  <2>9. ASSUME NEW x \in 0..3, g[x] # 0 PROVE \E i \in DOMAIN m : Same(x, m[i].mask)
    <3>1. CASE Same(x, a)
      <4>1. Same(x, m[1].mask) /\ 1 \in DOMAIN m BY <2>1, <2>4, <2>6, <3>1 DEF Same
      <4> QED BY <4>1
    <3>2. CASE ~Same(x, a)
      <4>1. f[x] # 0 BY <2>9, <3>2 DEF Shifts
      <4>2. PICK i \in DOMAIN l : Same(x, l[i].mask) BY <2>5, <4>1 DEF Lists
      <4> QED BY <2>6, <4>2
    <3> QED BY <3>1, <3>2
  <2>10. Lists(m, g) BY <2>6, <2>7, <2>8, <2>9 DEF Lists
  <2> QED BY <1>0, <2>2, <2>10, FineSubnets
<1>2. CASE Hits(a, k) # {}
  <2>1. PICK i : /\ i \in DOMAIN k.cidr /\ Hits(a, k) = {i} /\ First(Hits(a, k)) = i
                 /\ k.cidr[i] \in Item /\ k.cidr[i].n = f[a]
    BY <1>2, HitIs
  <2>2. Same(a, k.cidr[i].mask) BY <2>1, HitIs
  <2>3. PICK n \in Nat \ {0} : n = k.cidr[i].n + 1 BY <2>1 DEF Item
  <2> DEFINE m == [k.cidr EXCEPT ![i].n = n]
  <2>4. Lists(m, g)
    <3> DEFINE l == k.cidr
    <3>1. Lists(l, f) /\ i \in DOMAIN l /\ Same(a, l[i].mask) /\ n = l[i].n + 1 /\ 1 \in Int
      BY <1>0, <2>1, <2>2, <2>3
    <3> HIDE DEF l
    <3>2. Lists([l EXCEPT ![i].n = n], g) BY <3>1, OneRevised
    <3> QED BY <3>2 DEF l
  <2>5. CidrAdd(a, k) = [k EXCEPT !.cidr = m]
    <3>1. CidrAdd(a, k) = [k EXCEPT !.cidr[i].n = @ + 1] BY <1>0, <1>2, <2>1 DEF CidrAdd
    <3>2. [k EXCEPT !.cidr[i].n = @ + 1] = [k EXCEPT !.cidr = [k.cidr EXCEPT ![i].n = k.cidr[i].n + 1]]
      OBVIOUS
    <3> QED BY <2>3, <3>1, <3>2
  <2> HIDE DEF m
  <2> QED BY <1>0, <2>4, <2>5, FineSubnets
<1> QED BY <1>1, <1>2

\* Whoever the subnet has room for makes no more than number_per_cidr.
LEMMA FullLists ==
  ASSUME SteadySubnets, NEW k, NEW f, Fine(k, f), NEW a \in 0..3, ~CidrFull(a, k), f[a] \in Nat
  PROVE  f[a] + 1 <= k.per
<1>0. /\ k.per \in Nat \ {0} /\ k.bits = Bits /\ Lists(k.cidr, f)
      /\ Subnetted(k) /\ Bits \in 1..2
  BY BitsIs DEF Fine, Subnetted
<1>1. CASE Hits(a, k) = {}
  <2>1. f[a] = 0 BY <1>1, HitIs
  <2> QED BY <1>0, <2>1
<1>2. CASE Hits(a, k) # {}
  <2>1. PICK i \in DOMAIN k.cidr : First(Hits(a, k)) = i /\ k.cidr[i].n = f[a]
    BY <1>2, HitIs
  <2>2. ~(f[a] >= k.per) BY <1>0, <1>2, <2>1 DEF CidrFull
  <2> QED BY <1>0, <2>2
<1> QED BY <1>1, <1>2

\* A part of a sequence, and two that are joined
LEMMA Part ==
  ASSUME NEW S, NEW s, NEW a \in Int, NEW b \in Int, a <= b + 1, \A j \in a..b : s[j] \in S
  PROVE  /\ SubSeq(s, a, b) \in Seq(S) /\ Len(SubSeq(s, a, b)) = b - a + 1
         /\ \A j \in 1..(b - a + 1) : SubSeq(s, a, b)[j] = s[a + j - 1]
<1>1. SubSeq(s, a, b) \in Seq(S)
  BY SubSeqProperties
<1>2. Len(SubSeq(s, a, b)) = IF a <= b THEN b - a + 1 ELSE 0
  BY SubSeqProperties
<1>3. \A j \in 1..(b - a + 1) : SubSeq(s, a, b)[j] = s[a + j - 1]
  BY SubSeqProperties
<1> QED BY <1>1, <1>2, <1>3

LEMMA Joined ==
  ASSUME NEW S, NEW p \in Seq(S), NEW q \in Seq(S)
  PROVE  /\ p \o q \in Seq(S) /\ Len(p \o q) = Len(p) + Len(q)
         /\ DOMAIN (p \o q) = 1..(Len(p) + Len(q))
         /\ \A j \in 1..Len(p) : (p \o q)[j] = p[j]
         /\ \A j \in 1..Len(q) : (p \o q)[Len(p) + j] = q[j]
  OBVIOUS

\* m is l but for one item.
Spared(l, m, i) == m = [j \in DOMAIN l |-> m[j]] /\ \A j \in DOMAIN l \ {i} : m[j] = l[j]

\* The last of a subnet takes its item along.
LEMMA OneTaken ==
  ASSUME SteadySubnets, NEW l, NEW f, NEW g, Lists(l, f), NEW a \in 0..3, Shifts(f, g, a, -1), f[a] = 1,
         NEW i \in DOMAIN l, Same(a, l[i].mask),
         NEW m, Spared(l, m, i)
  PROVE  Lists(RemoveAt(m, i), g)
<1> DEFINE r == RemoveAt(m, i)
<1>1. /\ l \in Seq(Item) /\ Len(l) \in Nat /\ DOMAIN l = 1..Len(l)
      /\ i \in 1..Len(l) /\ \A j \in 1..Len(l) : l[j] \in Item
      /\ m = [j \in DOMAIN l |-> m[j]] /\ \A j \in DOMAIN l : j # i => m[j] = l[j]
  BY DEF Lists, Spared
<1>2. Len(m) = Len(l) /\ \A j \in 1..Len(l) : j # i => m[j] \in Item
  <2>1. m \in [1..Len(l) -> {m[j] : j \in DOMAIN l}]
    BY <1>1
  <2>2. Len(m) = Len(l)
    BY <1>1, <2>1
  <2> QED BY <1>1, <2>2
<1> DEFINE p == SubSeq(m, 1, i - 1)
           q == SubSeq(m, i + 1, Len(m))
<1>3. r = p \o q BY DEF RemoveAt
<1>6. p \in Seq(Item) /\ Len(p) = i - 1 /\ \A j \in 1..(i - 1) : p[j] = l[j]
  <2>1. 1 \in Int /\ i - 1 \in Int /\ 1 <= (i - 1) + 1 /\ \A j \in 1..(i - 1) : m[j] \in Item
    BY <1>1, <1>2
  <2>2. /\ p \in Seq(Item) /\ Len(p) = (i - 1) - 1 + 1
        /\ \A j \in 1..((i - 1) - 1 + 1) : p[j] = m[1 + j - 1]
    BY <2>1, Part
  <2> HIDE DEF p
  <2>3. (i - 1) - 1 + 1 = i - 1 BY <2>1
  <2>4. \A j \in 1..(i - 1) : j \in DOMAIN l /\ j # i /\ 1 + j - 1 = j BY <1>1
  <2> QED BY <1>1, <2>2, <2>3, <2>4
<1>7. q \in Seq(Item) /\ Len(q) = Len(l) - i /\ \A j \in 1..(Len(l) - i) : q[j] = l[i + j]
  <2>1. /\ i + 1 \in Int /\ Len(m) \in Int /\ i + 1 <= Len(m) + 1
        /\ \A j \in (i + 1)..Len(m) : m[j] \in Item
    BY <1>1, <1>2
  <2>2. /\ q \in Seq(Item) /\ Len(q) = Len(m) - (i + 1) + 1
        /\ \A j \in 1..(Len(m) - (i + 1) + 1) : q[j] = m[i + 1 + j - 1]
    BY <2>1, Part
  <2> HIDE DEF q
  <2>3. Len(m) - (i + 1) + 1 = Len(l) - i BY <1>1, <1>2
  <2>4. \A j \in 1..(Len(l) - i) : i + j \in DOMAIN l /\ i + j # i /\ i + 1 + j - 1 = i + j BY <1>1
  <2> QED BY <1>1, <2>2, <2>3, <2>4
<1> HIDE DEF r, p, q
<1>5. /\ r \in Seq(Item) /\ Len(r) = Len(l) - 1 /\ DOMAIN r = 1..(Len(l) - 1)
      /\ \A j \in 1..(i - 1) : r[j] = l[j]
      /\ \A j \in 1..(Len(l) - i) : r[(i - 1) + j] = l[i + j]
  <2>1. /\ p \o q \in Seq(Item) /\ Len(p \o q) = Len(p) + Len(q)
        /\ DOMAIN (p \o q) = 1..(Len(p) + Len(q))
        /\ \A j \in 1..Len(p) : (p \o q)[j] = p[j]
        /\ \A j \in 1..Len(q) : (p \o q)[Len(p) + j] = q[j]
    <3>1. p \in Seq(Item) /\ q \in Seq(Item) BY <1>6, <1>7
    <3> QED BY <3>1, Joined
  <2>2. Len(p) + Len(q) = Len(l) - 1
    BY <1>1, <1>6, <1>7
  <2> QED BY <1>3, <1>6, <1>7, <2>1, <2>2
<1>4. \A j \in DOMAIN r : r[j] = IF j < i THEN l[j] ELSE l[j + 1]
  <2> SUFFICES ASSUME NEW j \in DOMAIN r PROVE r[j] = IF j < i THEN l[j] ELSE l[j + 1]
    OBVIOUS
  <2>1. CASE j < i
    BY <1>1, <1>5, <2>1
  <2>2. CASE ~(j < i)
    <3>1. PICK h \in 1..(Len(l) - i) : j = (i - 1) + h
      <4>1. j - (i - 1) \in 1..(Len(l) - i) /\ j = (i - 1) + (j - (i - 1))
        BY <1>1, <1>5, <2>2
      <4> QED BY <4>1
    <3>2. i + h = j + 1
      BY <1>1, <3>1
    <3> QED BY <1>5, <2>2, <3>1, <3>2
  <2> QED BY <2>1, <2>2
\* Where an item of r was in l, and where one of l is in r
<1> DEFINE At(j) == IF j < i THEN j ELSE j + 1
<1>8. \A j \in DOMAIN r : At(j) \in DOMAIN l /\ At(j) # i /\ r[j] = l[At(j)]
  BY <1>1, <1>5, <1>4
<1>9. \A j, h \in DOMAIN r : At(j) = At(h) => j = h
  BY <1>1, <1>5
<1>10. \A j \in DOMAIN l : j # i => \E h \in DOMAIN r : At(h) = j
  <2> SUFFICES ASSUME NEW j \in DOMAIN l, j # i PROVE \E h \in DOMAIN r : At(h) = j
    OBVIOUS
  <2>1. CASE j < i BY <1>1, <1>5, <2>1
  <2>2. CASE j > i
    <3>1. j - 1 \in DOMAIN r /\ At(j - 1) = j BY <1>1, <1>5, <2>2
    <3> QED BY <3>1
  <2> QED BY <1>1, <2>1, <2>2
<1> HIDE DEF At
<1>11. \A j, h \in DOMAIN r : Same(r[j].mask, r[h].mask) => j = h
  BY <1>8, <1>9 DEF Lists
<1>12. ASSUME NEW x \in 0..3, NEW j \in DOMAIN r, Same(x, r[j].mask) PROVE r[j].n = g[x]
  <2>1. At(j) \in DOMAIN l /\ Same(x, l[At(j)].mask) /\ l[At(j)].n = f[x] /\ At(j) # i
    BY <1>8, <1>12 DEF Lists
  <2>2. ~Same(x, a)
    BY <2>1 DEF Same, Lists
  <2> QED BY <1>8, <2>1, <2>2 DEF Shifts
<1>13. ASSUME NEW x \in 0..3, g[x] # 0 PROVE \E j \in DOMAIN r : Same(x, r[j].mask)
  <2>0. Same(x, a) => f[x] = 1
    <3>1. l[i].n = 1 BY DEF Lists
    <3>2. Same(x, a) => Same(x, l[i].mask) BY DEF Same
    <3> QED BY <3>1, <3>2 DEF Lists
  <2>1. ~Same(x, a) /\ f[x] # 0
    BY <1>13, <2>0 DEF Shifts
  <2>2. PICK j \in DOMAIN l : Same(x, l[j].mask) BY <2>1 DEF Lists
  <2>3. j # i BY <2>1, <2>2 DEF Same
  <2>4. PICK h \in DOMAIN r : At(h) = j BY <1>10, <2>3
  <2> QED BY <1>8, <2>2, <2>4
<1>14. Lists(r, g) BY <1>5, <1>11, <1>12, <1>13 DEF Lists
<1> QED BY <1>14 DEF r

\* The subnet of a user who goes counts him no more.
LEMMA RemoveLists ==
  ASSUME SteadySubnets, NEW k, NEW f, Fine(k, f), NEW a \in 0..3, NEW g, Shifts(f, g, a, -1), f[a] # 0
  PROVE  Fine(CidrRemove(a, k), g)
<1>0. /\ IsClass(k) /\ k.per \in Nat \ {0} /\ k.bits = Bits /\ Lists(k.cidr, f)
      /\ Subnetted(k) /\ Bits \in 1..2
  BY BitsIs DEF Fine, Subnetted
<1>1. Hits(a, k) # {} BY HitIs
<1>2. PICK i : /\ i \in DOMAIN k.cidr /\ Hits(a, k) = {i} /\ First(Hits(a, k)) = i
               /\ k.cidr[i] \in Item /\ k.cidr[i].n = f[a]
  BY <1>1, HitIs
<1>3. Same(a, k.cidr[i].mask)
  <2>1. Hits(a, k) = {h \in DOMAIN k.cidr : Same(a, k.cidr[h].mask)} BY HitIs
  <2> QED BY <1>2, <2>1
<1> DEFINE l == k.cidr
           out == {h \in Hits(a, k) : l[h].n = 1}
           last == IF out = {} THEN Len(l) ELSE First(out)
           less == [h \in DOMAIN l |-> IF h \in Hits(a, k) /\ h <= last
                      THEN [l[h] EXCEPT !.n = @ - 1] ELSE l[h]]
<1>4. CidrRemove(a, k) = [k EXCEPT !.cidr = IF out = {} THEN less ELSE RemoveAt(less, last)]
  BY <1>0 DEF CidrRemove
<1>5. /\ Lists(l, f) /\ i \in DOMAIN l /\ Hits(a, k) = {i} /\ First(Hits(a, k)) = i
      /\ l[i] \in Item /\ l[i].n = f[a] /\ Same(a, l[i].mask)
      /\ l \in Seq(Item) /\ DOMAIN l = 1..Len(l) /\ Len(l) \in Nat
  BY <1>0, <1>2, <1>3 DEF Lists
<1>6. CASE f[a] = 1
  <2>1. out = {i} /\ last = i BY <1>5, <1>6
  <2> HIDE DEF l, out, last
  <2>2. Spared(l, less, i) BY <1>5 DEF Spared
  <2> HIDE DEF less
  <2>4. Lists(RemoveAt(less, i), g)
    <3>1. Lists(l, f) /\ i \in DOMAIN l /\ Same(a, l[i].mask) BY <1>5
    <3> QED BY <1>6, <2>2, <3>1, OneTaken
  <2>5. CidrRemove(a, k) = [k EXCEPT !.cidr = RemoveAt(less, i)] BY <1>4, <2>1
  <2> DEFINE r == RemoveAt(less, i)
  <2> HIDE DEF r
  <2>6. Lists(r, g) /\ CidrRemove(a, k) = [k EXCEPT !.cidr = r] BY <2>4, <2>5 DEF r
  <2> QED BY <1>0, <2>6, FineSubnets
<1>7. CASE f[a] # 1
  <2>1. out = {} /\ last = Len(l) BY <1>5, <1>7
  <2> HIDE DEF l, out, last
  <2>2. PICK n \in Nat \ {0} : n = l[i].n + -1 BY <1>5, <1>7 DEF Item
  <2>3. n = l[i].n - 1 BY <1>5, <2>2 DEF Item
  <2> DEFINE m == [l EXCEPT ![i].n = n]
  <2>4. Lists(m, g)
    <3>1. -1 \in Int OBVIOUS
    <3> QED BY <1>5, <2>2, <3>1, OneRevised
  <2>5. less = m
    <3>1. less = [h \in DOMAIN l |-> IF h = i THEN [l[h] EXCEPT !.n = l[h].n - 1] ELSE l[h]]
      BY <1>5, <2>1
    <3>2. m = [h \in DOMAIN l |-> IF h = i THEN [l[h] EXCEPT !.n = n] ELSE l[h]]
      BY <1>5
    <3> QED BY <2>3, <3>1, <3>2
  <2> HIDE DEF m, less
  <2>6. CidrRemove(a, k) = [k EXCEPT !.cidr = m] BY <1>4, <2>1, <2>5
  <2> QED BY <1>0, <2>4, <2>6, FineSubnets
<1> QED BY <1>6, <1>7

-----------------------------------------------------------------------------
(* Who is counted in a subnet *)

Near(k, a) == {c \in OnClass(k) : Same(conn[c].ip, a)}
Users(k) == [a \in 0..3 |-> Cardinality(Near(k, a))]

\* What the subnets of each class count: the users of the class that are near.
SubnetFine(k) ==
  IF k = Default THEN class[k].per = 0
  ELSE class[k].held => Fine(class[k], Users(k))
SubnetsInv == \A k \in ClassNames : SubnetFine(k)

LEMMA UsersAre ==
  ASSUME AccessInv, NEW k
  PROVE  /\ \A a \in 0..3 : Users(k)[a] = Cardinality(Near(k, a)) /\ Users(k)[a] \in Nat
         /\ \A a : Near(k, a) \subseteq Callers
<1>1. \A a : Near(k, a) \subseteq Callers /\ IsFiniteSet(Near(k, a))
  BY FS_Subset DEF Near, OnClass, AccessInv, AccessBounds
<1> QED BY <1>1, FS_CardinalityType DEF Users

\* Nobody is counted for a class that nobody has.
LEMMA NobodyNear ==
  ASSUME AccessInv, NEW k, OnClass(k) = {}
  PROVE  Lists(<< >>, Users(k))
<1>1. \A a \in 0..3 : Near(k, a) = {} BY DEF Near
<1>2. \A a \in 0..3 : Users(k)[a] = 0 BY <1>1, FS_EmptySet DEF Users
<1>3. << >> \in Seq(Item) /\ DOMAIN << >> = {} OBVIOUS
<1> QED BY <1>2, <1>3 DEF Lists

LEMMA NoneOnClass ==
  ASSUME AccessInv, NEW k \in ClassNames, class[k].refs = 0
  PROVE  OnClass(k) = {}
<1>1. Cardinality(OnClass(k)) = 0 BY DEF AccessInv, Accounted, ClassesCounted
<1>2. IsFiniteSet(OnClass(k)) BY FS_Subset DEF OnClass, AccessInv, AccessBounds
<1> QED BY <1>1, <1>2, FS_EmptySet

\* After one connection has changed
LEMMA NearAfter ==
  ASSUME AccessInv, NEW c \in Callers, NEW x \in ConnRec, conn' = [conn EXCEPT ![c] = x], Steady(x, c),
         NEW k \in ClassNames, NEW a
  PROVE  /\ But(Near(k, a), Near(k, a)', c)
         /\ c \in Near(k, a)' <=> x.conf # None /\ conf[x.conf].class = k /\ Same(x.ip, a)
         /\ c \in Near(k, a) <=> c \in OnClass(k) /\ Same(conn[c].ip, a)
<1>1. But(OnClass(k), OnClass(k)', c) /\ (c \in OnClass(k)' <=> x.conf # None /\ conf[x.conf].class = k)
  BY Members
<1>2. \A d \in Callers : conn'[d] = IF d = c THEN x ELSE conn[d]
  BY DEF AccessInv, Fits
<1>3. Near(k, a)' = {d \in OnClass(k)' : Same(conn'[d].ip, a)}
  BY DEF Near, Same, Mask
<1> QED BY <1>1, <1>2, <1>3 DEF Near, But

\* Each subnet of the class has one more or one less when c is counted or was.
LEMMA UsersAfter ==
  ASSUME AccessInv, NEW c \in Callers, NEW x \in ConnRec, conn' = [conn EXCEPT ![c] = x], Steady(x, c),
         x.ip \in 0..3, NEW k \in ClassNames
  PROVE  /\ c \notin OnClass(k) /\ ~(x.conf # None /\ conf[x.conf].class = k) => Users(k)' = Users(k)
         /\ c \notin OnClass(k) /\ x.conf # None /\ conf[x.conf].class = k
              => Shifts(Users(k), Users(k)', x.ip, 1)
         /\ c \in OnClass(k) /\ ~(x.conf # None /\ conf[x.conf].class = k)
              => Shifts(Users(k), Users(k)', conn[c].ip, -1)
<1>1. ASSUME NEW a \in 0..3
      PROVE  /\ Users(k)[a] = Cardinality(Near(k, a)) /\ Users(k)[a] \in Nat
             /\ Users(k)'[a] = Cardinality(Near(k, a)')
             /\ Cardinality(Near(k, a)') =
                  IF c \in Near(k, a)'
                  THEN IF c \in Near(k, a) THEN Users(k)[a] ELSE Users(k)[a] + 1
                  ELSE IF c \in Near(k, a) THEN Users(k)[a] - 1 ELSE Users(k)[a]
             /\ c \in Near(k, a)' <=> x.conf # None /\ conf[x.conf].class = k /\ Same(x.ip, a)
             /\ c \in Near(k, a) <=> c \in OnClass(k) /\ Same(conn[c].ip, a)
  <2>1. /\ But(Near(k, a), Near(k, a)', c)
        /\ c \in Near(k, a)' <=> x.conf # None /\ conf[x.conf].class = k /\ Same(x.ip, a)
        /\ c \in Near(k, a) <=> c \in OnClass(k) /\ Same(conn[c].ip, a)
    BY NearAfter
  <2>2. Users(k)[a] = Cardinality(Near(k, a)) /\ Users(k)[a] \in Nat
    BY UsersAre
  <2>3. Users(k)'[a] = Cardinality(Near(k, a)')
    BY DEF Users
  <2> DEFINE S == Near(k, a)
             T == Near(k, a)'
  <2>4. But(S, T, c) BY <2>1
  <2> HIDE DEF S, T
  <2>5. Cardinality(T) = IF c \in T THEN IF c \in S THEN Cardinality(S) ELSE Cardinality(S) + 1
                         ELSE IF c \in S THEN Cardinality(S) - 1 ELSE Cardinality(S)
    BY <2>4, ButCounts DEF AccessInv
  <2> QED BY <2>1, <2>2, <2>3, <2>5 DEF S, T
<1>2. \A a, b : Same(a, b) <=> Same(b, a) BY DEF Same
<1>3. CASE c \notin OnClass(k) /\ ~(x.conf # None /\ conf[x.conf].class = k)
  <2>1. \A a \in 0..3 : Users(k)'[a] = Users(k)[a] BY <1>1, <1>3
  <2>2. Users(k)' = [a \in 0..3 |-> Users(k)'[a]] /\ Users(k) = [a \in 0..3 |-> Users(k)[a]]
    BY DEF Users
  <2> DEFINE f == Users(k)
             g == Users(k)'
  <2> HIDE DEF f, g
  <2>3. g = f BY <2>1, <2>2 DEF f, g
  <2> QED BY <1>3, <2>3 DEF f, g
<1>4. CASE c \notin OnClass(k) /\ x.conf # None /\ conf[x.conf].class = k
  BY <1>1, <1>2, <1>4 DEF Shifts
<1>5. CASE c \in OnClass(k) /\ ~(x.conf # None /\ conf[x.conf].class = k)
  BY <1>1, <1>2, <1>5 DEF Shifts
<1>6. CASE c \in OnClass(k) /\ x.conf # None /\ conf[x.conf].class = k
  BY <1>6
<1> QED BY <1>3, <1>4, <1>5, <1>6

-----------------------------------------------------------------------------
(* Every step keeps the subnets *)

\* The action of SubnetLimit
Within == \A c \in Callers : conn[c].stage # "client" /\ conn'[c].stage = "client" =>
  LET k == class[conf[conn'[c].conf].class] IN
  Subnetted(k) =>
    Cardinality({d \in Callers : /\ conn'[d].stage = "client"
                                 /\ conf[conn'[d].conf].class = conf[conn'[c].conf].class
                                 /\ Mask(conn'[d].ip, k.bits) = Mask(conn'[c].ip, k.bits)})
      <= k.per

\* Nobody becomes a user or is one no more.
Stays == /\ \A d \in Callers : conn'[d] = conn[d] \/ (conn[d].stage # "client" /\ conn'[d].stage # "client")
         /\ UNCHANGED <<class, conf>>

LEMMA OnlyUsersCount ==
  ASSUME AccessInv
  PROVE  \A d \in Callers : conn[d].conf # None <=> conn[d].stage = "client"
<1>1. \A d \in Callers : Fit(conn[d]) /\ conn[d].stage \in {"free", "unknown", "client"}
  BY DEF AccessInv, Fits, ConnRec
<1> QED BY <1>1 DEF Fit, NoConn

LEMMA NextOnlyUsersCount ==
  ASSUME AccessInv'
  PROVE  \A d \in Callers : conn'[d].conf # None <=> conn'[d].stage = "client"
<1>1. \A d \in Callers : Fit(conn'[d]) /\ conn'[d].stage \in {"free", "unknown", "client"}
  BY DEF AccessInv, Fits, Fit, ConnRec, NoConn
<1> QED BY <1>1 DEF Fit, NoConn

LEMMA StaysFine ==
  ASSUME AccessInv, AccessInv', SubnetsInv, Stays
  PROVE  SubnetsInv' /\ Within
<1>1. \A d \in Callers : /\ conn'[d].conf = conn[d].conf
                         /\ conn[d].conf # None => conn'[d].ip = conn[d].ip
                         /\ conn'[d].stage = "client" => conn[d].stage = "client"
  BY OnlyUsersCount, NextOnlyUsersCount DEF Stays
<1>2. \A k, a : Near(k, a)' = Near(k, a)
  BY <1>1 DEF Near, OnClass, Same, Mask, Stays
<1>3. \A k : Users(k)' = Users(k)
  BY <1>2 DEF Users
<1>4. SubnetsInv'
  <2> SUFFICES ASSUME NEW k \in ClassNames PROVE SubnetFine(k)'
    BY DEF SubnetsInv, ClassNames
  <2>1. SubnetFine(k) /\ class' = class /\ Users(k)' = Users(k)
    BY <1>3 DEF SubnetsInv, Stays
  <2> QED BY <2>1 DEF SubnetFine
<1> QED BY <1>1, <1>4 DEF Within

\* What is left of a class
LEMMA FreedFine ==
  ASSUME NEW k, NEW f, Fine(k, f), FreeClass(k).held
  PROVE  Fine(FreeClass(k), f)
<1>1. ~NoClass.held BY DEF NoClass
<1> QED BY <1>1 DEF FreeClass

LEMMA FewerFine ==
  ASSUME NEW k, NEW f, Fine(k, f), k.refs > 0
  PROVE  Fine(OneLess(k), f)
<1>1. k.refs \in Nat BY DEF Fine, IsClass
<1>2. PICK n \in Nat : n = k.refs - 1 BY <1>1
<1> QED BY <1>2, FineRefs DEF OneLess

LEMMA MoreFine ==
  ASSUME NEW k, NEW f, Fine(k, f)
  PROVE  Fine(OneMore(k), f)
<1>1. k.refs \in Nat BY DEF Fine, IsClass
<1>2. PICK n \in Nat : n = k.refs + 1 BY <1>1
<1> QED BY <1>2, FineRefs DEF OneMore

\* The default class limits no subnets.
LEMMA RefsPer ==
  ASSUME NEW k, IsClass(k), k.per = 0, NEW n
  PROVE  [k EXCEPT !.refs = n].per = 0
<1>1. k = [held |-> k.held, active |-> k.active, refs |-> k.refs,
           max |-> k.max, per |-> k.per, bits |-> k.bits, cidr |-> k.cidr]
  BY DEF IsClass
<1> QED BY <1>1

LEMMA DefaultFree ==
  ASSUME NEW k, IsClass(k), k.per = 0, NEW a
  PROVE  FreeClass(OneLess(CidrRemove(a, k))).per = 0 /\ OneMore(CidrAdd(a, k)).per = 0
<1>1. CidrRemove(a, k) = k /\ CidrAdd(a, k) = k BY DEF CidrRemove, CidrAdd, Subnetted
<1>2. OneLess(k).per = 0 /\ OneMore(k).per = 0 BY RefsPer DEF OneLess, OneMore
<1>3. NoClass.per = 0 BY DEF NoClass
<1> QED BY <1>1, <1>2, <1>3 DEF FreeClass

\* Of who goes
LEMMA UsersGone ==
  ASSUME AccessInv, NEW c \in Callers, conn' = [conn EXCEPT ![c] = NoConn], Steady(NoConn, c),
         NEW k \in ClassNames
  PROVE  /\ c \notin OnClass(k) => Users(k)' = Users(k)
         /\ c \in OnClass(k) => Shifts(Users(k), Users(k)', conn[c].ip, -1)
<1>1. PICK x : x = NoConn OBVIOUS
<1>2. x \in ConnRec /\ x.conf = None /\ x.ip \in 0..3
  BY <1>1, NoConnFits DEF AccessInv, NoConn, Fit
<1>3. conn' = [conn EXCEPT ![c] = x] /\ Steady(x, c) BY <1>1
<1>4. x \in ConnRec /\ x.ip \in 0..3 /\ ~(x.conf # None /\ conf[x.conf].class = k) BY <1>2
<1> QED BY <1>3, <1>4, UsersAfter

LEMMA ExitFine ==
  ASSUME SteadySubnets, AccessInv, AccessInv', SubnetsInv, NEW c \in Callers, Exit(c)
  PROVE  SubnetsInv' /\ Within
<1>0. /\ conn' = [conn EXCEPT ![c] = NoConn] /\ Detached(c) /\ Steady(NoConn, c)
      /\ NoConn \in ConnRec /\ NoConn.conf = None /\ NoConn.stage = "free" /\ NoConn.ip = 0
  BY DetachedOK, NoConnFits DEF Exit, AccessInv, NoConn, Fit
<1>1. \A d \in Callers : conn'[d] = IF d = c THEN NoConn ELSE conn[d]
  BY <1>0 DEF AccessInv, Fits
<1>2. CASE conn[c].conf = None
  <2>1. UNCHANGED <<class, conf>> BY <1>0, <1>2 DEF Detached
  <2>2. conn[c].stage # "client" BY <1>2, OnlyUsersCount
  <2>3. \A d \in Callers : conn'[d] = conn[d] \/ (conn[d].stage # "client" /\ conn'[d].stage # "client")
    BY <1>0, <1>1, <2>2
  <2>4. Stays BY <2>1, <2>3 DEF Stays
  <2> QED BY <2>4, StaysFine
<1>3. CASE conn[c].conf # None
  <2> PICK i, k, a : i = conn[c].conf /\ k = conf[i].class /\ a = conn[c].ip OBVIOUS
  <2> DEFINE r == CidrRemove(a, class[k])
  <2>0. /\ class = [n \in ClassNames |-> class[n]] /\ \A n \in ClassNames : IsClass(class[n])
        /\ conf \in [ConfIds -> ConfRec] /\ conn[c] \in ConnRec
    BY DEF AccessInv, Stores, Fits
  <2>1. i \in ConfIds /\ k \in ClassNames /\ IsClass(class[k]) /\ a \in 0..3
    BY <1>3, <2>0 DEF ConnRec, ConfRec
  <2>2. class' = [class EXCEPT ![k] = FreeClass(OneLess(r))]
    BY <1>3, <1>0 DEF Detached
  <2>3. \A n \in ClassNames : class'[n] = IF n = k THEN FreeClass(OneLess(r)) ELSE class[n]
    BY <2>0, <2>2
  <2>4. \A n \in ClassNames : c \in OnClass(n) <=> n = k
    BY <1>3 DEF OnClass
  <2>5. SubnetsInv'
    <3> SUFFICES ASSUME NEW n \in ClassNames PROVE SubnetFine(n)'
      BY DEF SubnetsInv, ClassNames
    <3>0. SubnetFine(n) BY DEF SubnetsInv
    <3>1. CASE n # k
      <4>1. Users(n)' = Users(n) BY <1>0, <2>4, <3>1, UsersGone
      <4>2. class'[n] = class[n] BY <2>3, <3>1
      <4> QED BY <3>0, <4>1, <4>2 DEF SubnetFine
    <3>2. CASE n = k /\ k = Default
      <4>1. class[k].per = 0 BY <3>0, <3>2 DEF SubnetFine
      <4>2. class'[n].per = 0 BY <2>1, <2>3, <3>2, <4>1, DefaultFree
      <4> QED BY <3>2, <4>2 DEF SubnetFine
    <3>3. CASE n = k /\ k # Default
      <4>1. class[k].refs = Cardinality(OnClass(k)) /\ c \in OnClass(k) /\ OnClass(k) \subseteq Callers
            /\ (class[k].held <=> class[k].active \/ class[k].refs > 0)
        BY <2>1, <2>4 DEF AccessInv, Accounted, ClassesCounted, OnClass
      <4>2. Cardinality(OnClass(k)) > 0 BY <4>1, CountOne DEF AccessInv
      <4>3. class[k].refs > 0 /\ Fine(class[k], Users(k))
        BY <3>0, <3>3, <4>1, <4>2 DEF SubnetFine
      <4>4. Shifts(Users(k), Users(k)', a, -1)
        BY <1>0, <2>1, <2>4, UsersGone
      <4>5. Users(k)[a] # 0
        <5>1. c \in Near(k, a) BY <4>1 DEF Near, Same
        <5>2. Cardinality(Near(k, a)) > 0
          <6>1. Near(k, a) \subseteq Callers BY UsersAre
          <6> DEFINE S == Near(k, a)
          <6>2. S \subseteq Callers /\ c \in S BY <5>1, <6>1
          <6> HIDE DEF S
          <6>3. Cardinality(S) > 0 BY <6>2, CountOne DEF AccessInv
          <6> QED BY <6>3 DEF S
        <5> QED BY <2>1, <5>2, UsersAre
      <4>6. Fine(r, Users(k)') BY <2>1, <4>3, <4>4, <4>5, RemoveLists
      <4>7. r.refs > 0 BY <2>1, <4>3, SubnetRemoved DEF SameCounts
      <4> DEFINE g == Users(k)'
                 o == OneLess(r)
      <4>8. Fine(o, g) BY <4>6, <4>7, FewerFine
      <4>9. class'[n] = FreeClass(o) BY <2>3, <3>3
      <4> HIDE DEF g, o
      <4>10. class'[n].held => Fine(class'[n], g) BY <4>8, <4>9, FreedFine
      <4>11. g = Users(n)' BY <3>3 DEF g
      <4> QED BY <3>3, <4>10, <4>11 DEF SubnetFine
    <3> QED BY <3>1, <3>2, <3>3
  <2> QED BY <1>0, <1>1, <2>5 DEF Within
<1> QED BY <1>2, <1>3

LEMMA AdmitFine ==
  ASSUME SteadySubnets, AccessInv, AccessInv', SubnetsInv, NEW c \in Callers, Reads(c),
         NEW me, Ready(c, me), NEW i \in ConfIds, conf[i].active, ~Full(c, i), Admit(c, me, i)
  PROVE  SubnetsInv' /\ Within
<1> PICK k, a, x : /\ k = conf[i].class /\ a = me.ip
                   /\ x = [me EXCEPT !.stage = "client", !.iphash = TRUE, !.conf = i]
  OBVIOUS
<1>0. /\ class = [n \in ClassNames |-> class[n]] /\ \A n \in ClassNames : IsClass(class[n])
      /\ conf \in [ConfIds -> ConfRec] /\ i # None
  BY DEF AccessInv, Stores, AccessBounds
<1>1. /\ me \in ConnRec /\ a \in 0..3 /\ a = conn[c].ip /\ conn[c].conf = None /\ conn[c].stage = "unknown"
      /\ k \in ClassNames /\ IsClass(class[k])
  BY <1>0 DEF Ready, Fit, AccessInv, Fits, Reads, ConnRec, ConfRec
<1>2. x \in ConnRec /\ x.stage = "client" /\ x.conf = i /\ x.ip = a
  BY <1>1 DEF ConnRec
<1>3. /\ conn' = [conn EXCEPT ![c] = x]
      /\ class' = [class EXCEPT ![k] = OneMore(CidrAdd(a, class[k]))]
      /\ conf' = [conf EXCEPT ![i] = [conf[i] EXCEPT !.refs = conf[i].refs + 1]]
  BY <1>0 DEF Admit
<1>4. \A j \in ConfIds : conf'[j].class = conf[j].class
  <2> DEFINE o == [conf[i] EXCEPT !.refs = conf[i].refs + 1]
  <2>1. o.class = conf[i].class BY <1>0 DEF ConfRec
  <2> HIDE DEF o
  <2> QED BY <1>0, <1>3, <2>1 DEF o
<1>5. Steady(x, c) BY <1>4 DEF Steady
<1>6. \A d \in Callers : conn'[d] = IF d = c THEN x ELSE conn[d]
  BY <1>3 DEF AccessInv, Fits
<1>7. \A n \in ClassNames : class'[n] = IF n = k THEN OneMore(CidrAdd(a, class[k])) ELSE class[n]
  BY <1>0, <1>3
<1>8. \A n : c \notin OnClass(n)
  BY <1>1 DEF OnClass
<1>9. \A n \in ClassNames : IF n = k THEN Shifts(Users(n), Users(n)', a, 1) ELSE Users(n)' = Users(n)
  <2> SUFFICES ASSUME NEW n \in ClassNames
               PROVE  IF n = k THEN Shifts(Users(n), Users(n)', a, 1) ELSE Users(n)' = Users(n)
    OBVIOUS
  <2>1. conf[x.conf].class = k /\ x.conf # None BY <1>0, <1>2
  <2>2. /\ ~(x.conf # None /\ conf[x.conf].class = n) => Users(n)' = Users(n)
        /\ x.conf # None /\ conf[x.conf].class = n => Shifts(Users(n), Users(n)', x.ip, 1)
    BY <1>1, <1>2, <1>3, <1>5, <1>8, UsersAfter
  <2> QED BY <1>2, <2>1, <2>2
<1>10. SubnetsInv'
  <2> SUFFICES ASSUME NEW n \in ClassNames PROVE SubnetFine(n)'
    BY DEF SubnetsInv, ClassNames
  <2>0. SubnetFine(n) BY DEF SubnetsInv
  <2>1. CASE n # k
    <3>1. Users(n)' = Users(n) /\ class'[n] = class[n] BY <1>7, <1>9, <2>1
    <3> QED BY <2>0, <3>1 DEF SubnetFine
  <2>2. CASE n = k /\ k = Default
    <3>1. class[k].per = 0 BY <2>0, <2>2 DEF SubnetFine
    <3>2. class'[n].per = 0 BY <1>1, <1>7, <2>2, <3>1, DefaultFree
    <3> QED BY <2>2, <3>2 DEF SubnetFine
  <2>3. CASE n = k /\ k # Default
    <3> DEFINE g == Users(n)'
    <3>1. class'[n] = OneMore(CidrAdd(a, class[n])) BY <1>7, <2>3
    <3>2. class'[n].held => class[n].held
      <4>1. OneMore(CidrAdd(a, class[n])).held = class[n].held
        <5>1. IsClass(CidrAdd(a, class[n])) /\ SameCounts(CidrAdd(a, class[n]), class[n])
          BY <1>1, <2>3, SubnetAdded
        <5>2. CidrAdd(a, class[n]).refs \in Nat BY <5>1 DEF IsClass
        <5>3. PICK m \in Nat : m = CidrAdd(a, class[n]).refs + 1 BY <5>2
        <5> QED BY <5>1, <5>3, ClassRefs DEF OneMore, SameCounts
      <4> QED BY <3>1, <4>1
    <3>3. Shifts(Users(n), g, a, 1) BY <1>9, <2>3
    <3> HIDE DEF g
    <3>4. class[n].held => Fine(class'[n], g)
      <4> SUFFICES ASSUME class[n].held PROVE Fine(class'[n], g) OBVIOUS
      <4>1. Fine(class[n], Users(n)) BY <2>0, <2>3 DEF SubnetFine
      <4>2. Fine(CidrAdd(a, class[n]), g) BY <1>1, <3>3, <4>1, AddLists
      <4> QED BY <3>1, <4>2, MoreFine
    <3>5. class'[n].held => Fine(class'[n], g) BY <3>2, <3>4
    <3> QED BY <2>3, <3>5 DEF SubnetFine, g
  <2> QED BY <2>1, <2>2, <2>3
<1>11. Within
  <2> DEFINE near == {d \in Callers : /\ conn'[d].stage = "client" /\ conf[conn'[d].conf].class = k
                                      /\ Mask(conn'[d].ip, class[k].bits) = Mask(a, class[k].bits)}
  <2>1. Subnetted(class[k]) => Cardinality(near) <= class[k].per
    <3> SUFFICES ASSUME Subnetted(class[k]) PROVE Cardinality(near) <= class[k].per
      OBVIOUS
    <3>0. SubnetFine(k) BY <1>1 DEF SubnetsInv
    <3>1. k # Default BY <3>0 DEF SubnetFine, Subnetted
    <3>2. class[k].held
      <4>1. class[k].active BY <1>1 DEF AccessInv, Stores, Configured
      <4> QED BY <1>1, <4>1 DEF AccessInv, Accounted, ClassesCounted
    <3>3. Fine(class[k], Users(k)) /\ class[k].bits = Bits BY <3>0, <3>1, <3>2 DEF SubnetFine, Fine
    <3>4. ~CidrFull(a, class[k]) BY <1>1 DEF Full
    <3>5. Users(k)[a] \in Nat BY <1>1, UsersAre
    <3>6. Users(k)[a] + 1 <= class[k].per BY <1>1, <3>3, <3>4, <3>5, FullLists
    <3>7. near \subseteq Near(k, a) \cup {c}
      <4> SUFFICES ASSUME NEW d \in near, d # c PROVE d \in Near(k, a)
        OBVIOUS
      <4>1. d \in Callers /\ conn'[d] = conn[d] BY <1>6
      <4>2. conn[d].stage = "client" /\ conf[conn[d].conf].class = k /\ Same(conn[d].ip, a)
        BY <3>3, <4>1 DEF Same
      <4>3. conn[d].conf # None BY <4>1, <4>2, OnlyUsersCount
      <4> QED BY <4>1, <4>2, <4>3 DEF Near, OnClass
    <3> DEFINE S == Near(k, a)
    <3>8. S \subseteq Callers /\ c \notin S /\ Cardinality(S) = Users(k)[a]
      BY <1>1, <1>8, UsersAre DEF Near
    <3> HIDE DEF S
    <3>9. Cardinality(S \cup {c}) = Users(k)[a] + 1 /\ IsFiniteSet(S \cup {c})
      <4>1. IsFiniteSet(S) /\ Cardinality(S \cup {c}) = Cardinality(S) + 1 BY <3>8, CountOne DEF AccessInv
      <4> QED BY <3>8, <4>1, FS_AddElement
    <3> HIDE DEF near
    <3>10. near \subseteq S \cup {c} BY <3>7 DEF S
    <3>11. Cardinality(near) <= Cardinality(S \cup {c}) /\ Cardinality(near) \in Nat
      <4>1. IsFiniteSet(near) BY <3>9, <3>10, FS_Subset
      <4> QED BY <3>9, <3>10, <4>1, FS_Subset, FS_CardinalityType
    <3>12. class[k].per \in Nat BY <3>3 DEF Fine
    <3> QED BY <3>5, <3>6, <3>9, <3>11, <3>12
  <2>2. conf[x.conf].class = k /\ conn'[c] = x BY <1>2, <1>6
  <2>3. \A d \in Callers : d # c => ~(conn[d].stage # "client" /\ conn'[d].stage = "client")
    BY <1>6
  <2>4. conf[conn'[c].conf].class = k /\ conn'[c].ip = a BY <1>2, <2>2
  <2> SUFFICES ASSUME Subnetted(class[k])
               PROVE  Cardinality({d \in Callers :
                        /\ conn'[d].stage = "client"
                        /\ conf[conn'[d].conf].class = conf[conn'[c].conf].class
                        /\ Mask(conn'[d].ip, class[k].bits) = Mask(conn'[c].ip, class[k].bits)})
                      <= class[k].per
    BY <2>3, <2>4 DEF Within
  <2> QED BY <2>1, <2>4
<1> QED BY <1>10, <1>11

\* The class of the file
Given(k, max, per) == [k EXCEPT !.held = TRUE, !.active = TRUE, !.max = max, !.per = per, !.bits = Bits]

LEMMA LimitsGiven ==
  ASSUME NEW k, IsClass(k), NEW held \in BOOLEAN, NEW active \in BOOLEAN, NEW max, NEW per, NEW bits
  PROVE  LET m == [k EXCEPT !.held = held, !.active = active, !.max = max, !.per = per, !.bits = bits]
         IN  m.per = per /\ m.bits = bits /\ m.cidr = k.cidr
<1> DEFINE m == [k EXCEPT !.held = held, !.active = active, !.max = max, !.per = per, !.bits = bits]
           u == [k EXCEPT !.held = held]
           v == [u EXCEPT !.active = active]
           w == [v EXCEPT !.max = max]
           y == [w EXCEPT !.per = per]
           z == [y EXCEPT !.bits = bits]
           Is(r) == r = [held |-> r.held, active |-> r.active, refs |-> r.refs,
                         max |-> r.max, per |-> r.per, bits |-> r.bits, cidr |-> r.cidr]
<1>0. Is(k) BY DEF IsClass
<1>1. m = z OBVIOUS
<1>2. Is(u) /\ u.cidr = k.cidr BY <1>0
<1> HIDE DEF u
<1>3. Is(v) /\ v.cidr = u.cidr BY <1>2
<1> HIDE DEF v
<1>4. Is(w) /\ w.cidr = v.cidr BY <1>3
<1> HIDE DEF w
<1>5. Is(y) /\ y.cidr = w.cidr /\ y.per = per BY <1>4
<1> HIDE DEF y
<1>6. z.cidr = y.cidr /\ z.per = y.per /\ z.bits = bits BY <1>5
<1> HIDE DEF m, z
<1>7. m.per = per /\ m.bits = bits /\ m.cidr = k.cidr BY <1>1, <1>2, <1>3, <1>4, <1>5, <1>6
<1> QED BY <1>7 DEF m

LEMMA GivenFine ==
  ASSUME NEW k, IsClass(k), NEW max, NEW per \in Nat \ {0}, NEW f, Lists(k.cidr, f)
  PROVE  Fine(Given(k, max, per), f)
<1>1. PICK t \in BOOLEAN : t = TRUE OBVIOUS
<1> DEFINE m == [k EXCEPT !.held = t, !.active = t, !.max = max, !.per = per, !.bits = Bits]
<1>2. m.per = per /\ m.bits = Bits /\ m.cidr = k.cidr BY LimitsGiven
<1>3. IsClass(m) BY ClassGiven
<1>4. Given(k, max, per) = m BY <1>1 DEF Given
<1> HIDE DEF m
<1> QED BY <1>2, <1>3, <1>4 DEF Fine

LEMMA MarkKeeps ==
  ASSUME NEW k, IsClass(k), NEW active \in BOOLEAN
  PROVE  LET m == [k EXCEPT !.active = active]
         IN  m.per = k.per /\ m.bits = k.bits /\ m.cidr = k.cidr
<1>1. k = [held |-> k.held, active |-> k.active, refs |-> k.refs,
           max |-> k.max, per |-> k.per, bits |-> k.bits, cidr |-> k.cidr]
  BY DEF IsClass
<1>2. [k EXCEPT !.active = active] =
        [held |-> k.held, active |-> active, refs |-> k.refs,
         max |-> k.max, per |-> k.per, bits |-> k.bits, cidr |-> k.cidr]
  BY <1>1
<1> QED BY <1>2

LEMMA MarkedFine ==
  ASSUME NEW k, NEW f, Fine(k, f)
  PROVE  Fine([k EXCEPT !.active = FALSE], f)
<1> DEFINE m == [k EXCEPT !.active = FALSE]
<1>1. FALSE \in BOOLEAN /\ IsClass(k) BY DEF Fine
<1>2. m.per = k.per /\ m.bits = k.bits /\ m.cidr = k.cidr BY <1>1, MarkKeeps, Zenon
<1>3. IsClass(m) BY <1>1, ClassMarked
<1> HIDE DEF m
<1>4. Fine(m, f) BY <1>2, <1>3 DEF Fine
<1> QED BY <1>4 DEF m

LEMMA ParsedFine ==
  ASSUME SteadySubnets, AccessInv, NEW n \in ClassNames, n # Default, SubnetFine(n), NEW s \in Settings
  PROVE  Fine(FromFile(n, s), Users(n))
<1>0. /\ s[2] \in Nat \ {0} /\ s[3] = Bits /\ Bits \in 1..2 BY BitsIs
<1>1. IsClass(class[n]) /\ (class[n].held <=> class[n].active \/ class[n].refs > 0) /\ class[n].refs \in Nat
  BY DEF AccessInv, Stores, Accounted, ClassesCounted, IsClass
<1>2. CASE class[n].held
  <2>1. Fine(class[n], Users(n)) /\ class[n].bits = Bits BY <1>2 DEF SubnetFine, Fine
  <2>2. FromFile(n, s) = Given(class[n], s[1], s[2])
    BY <1>0, <1>2, <2>1 DEF FromFile, Given
  <2>3. Lists(class[n].cidr, Users(n)) BY <2>1 DEF Fine
  <2> QED BY <1>0, <1>1, <2>2, <2>3, GivenFine
<1>3. CASE ~class[n].held
  <2>1. class[n].refs = 0 BY <1>1, <1>3
  <2>2. Lists(<< >>, Users(n)) BY <2>1, NoneOnClass, NobodyNear
  <2>3. IsClass(NoClass) /\ NoClass.cidr = << >> BY DEF NoClass, IsClass
  <2>4. FromFile(n, s) = Given(NoClass, s[1], s[2])
    BY <1>0, <1>3 DEF FromFile, Given
  <2> QED BY <1>0, <2>2, <2>3, <2>4, GivenFine
<1> QED BY <1>2, <1>3

LEMMA RehashFine ==
  ASSUME SteadySubnets, AccessInv, SubnetsInv, NEW S \in SUBSET Classes, NEW s \in Settings,
         NEW k \in ClassNames, NEW listen \in BOOLEAN, Rehash(S, s, k, listen)
  PROVE  SubnetsInv' /\ Within
<1>1. /\ class' = Swept(S, s) /\ UNCHANGED conn
      /\ conf' = [Cleared EXCEPT ![NewConf] =
                   [held |-> TRUE, active |-> TRUE, class |-> Named(k, S), refs |-> 0]]
  BY DEF Rehash
<1>2. \A n : OnClass(n)' = OnClass(n)
  <2>1. \A c \in Callers : conn[c].conf # None =>
          conf'[conn[c].conf].class = conf[conn[c].conf].class
    <3> SUFFICES ASSUME NEW c \in Callers, conn[c].conf # None
                 PROVE  conf'[conn[c].conf].class = conf[conn[c].conf].class
      OBVIOUS
    <3>1. conn[c].conf \in ConfIds BY DEF AccessInv, Fits, ConnRec
    <3>2. OnBlock(conn[c].conf) # {} BY DEF OnBlock
    <3>3. conf[conn[c].conf].refs > 0 BY <3>1, <3>2, BlockInUse
    <3>4. conn[c].conf # NewConf BY <3>3, Spare
    <3>5. conf'[conn[c].conf] = Cleared[conn[c].conf] BY <1>1, <3>1, <3>4 DEF Cleared
    <3> QED BY <3>1, <3>3, <3>5, BlockCleared
  <2> QED BY <1>1, <2>1 DEF OnClass
<1>3. \A n : Users(n)' = Users(n)
  <2>1. \A n, a : Near(n, a)' = Near(n, a) BY <1>1, <1>2 DEF Near, Same, Mask
  <2> QED BY <2>1 DEF Users
<1>4. SubnetsInv'
  <2> SUFFICES ASSUME NEW n \in ClassNames PROVE SubnetFine(n)'
    BY DEF SubnetsInv, ClassNames
  <2>0. SubnetFine(n) BY DEF SubnetsInv
  <2>1. class'[n] = IF n = Default THEN class[n] ELSE IF n \in S THEN FromFile(n, s)
                    ELSE FreeClass([class[n] EXCEPT !.active = FALSE])
    BY <1>1 DEF Swept
  <2>2. CASE n = Default
    BY <2>0, <2>1, <2>2 DEF SubnetFine
  <2>3. CASE n # Default /\ n \in S
    <3>1. Fine(class'[n], Users(n)) BY <2>0, <2>1, <2>3, ParsedFine
    <3> QED BY <1>3, <2>3, <3>1 DEF SubnetFine
  <2>4. CASE n # Default /\ n \notin S
    <3> DEFINE m == [class[n] EXCEPT !.active = FALSE]
    <3>1. class'[n] = FreeClass(m) BY <2>1, <2>4
    <3>2. IsClass(class[n]) BY DEF AccessInv, Stores
    <3>3. m.held = class[n].held BY <3>2, ClassMarked
    <3>4. class[n].held => Fine(m, Users(n)) BY <2>0, <2>4, MarkedFine DEF SubnetFine
    <3> HIDE DEF m
    <3>5. class'[n].held => Fine(class'[n], Users(n))
      <4>1. CASE m.held BY <3>1, <3>3, <3>4, <4>1, FreedFine
      <4>2. CASE ~m.held
        <5>1. ~NoClass.held BY DEF NoClass
        <5> QED BY <3>1, <4>2, <5>1 DEF FreeClass
      <4> QED BY <4>1, <4>2
    <3> QED BY <1>3, <2>4, <3>5 DEF SubnetFine
  <2> QED BY <2>2, <2>3, <2>4
<1> QED BY <1>1, <1>4 DEF Within

LEMMA InitFine == ASSUME SteadySubnets, AccessInv, AccessInit PROVE SubnetsInv
<1>1. PICK s \in Settings : class = [k \in ClassNames |->
        IF k = Default THEN [NoClass EXCEPT !.held = TRUE, !.active = TRUE]
        ELSE [NoClass EXCEPT !.held = TRUE, !.active = TRUE, !.max = s[1], !.per = s[2], !.bits = s[3]]]
  BY DEF AccessInit
<1>2. \A k : OnClass(k) = {} BY DEF AccessInit, NoConn, OnClass
<1> SUFFICES ASSUME NEW k \in ClassNames PROVE SubnetFine(k) BY DEF SubnetsInv
<1>3. CASE k = Default
  <2>1. class[k] = [NoClass EXCEPT !.held = TRUE, !.active = TRUE] BY <1>1, <1>3
  <2>2. class[k].per = 0 BY <2>1 DEF NoClass
  <2> QED BY <1>3, <2>2 DEF SubnetFine
<1>4. CASE k # Default
  <2>1. IsClass(NoClass) /\ NoClass.cidr = << >> BY DEF NoClass, IsClass
  <2>2. s[2] \in Nat \ {0} /\ s[3] = Bits BY BitsIs
  <2>3. class[k] = Given(NoClass, s[1], s[2])
    BY <1>1, <1>4, <2>2 DEF Given
  <2>4. Lists(<< >>, Users(k)) BY <1>2, NobodyNear
  <2>5. Fine(class[k], Users(k)) BY <2>1, <2>2, <2>3, <2>4, GivenFine
  <2> QED BY <1>4, <2>5 DEF SubnetFine
<1> QED BY <1>3, <1>4

\* A command that does not make a user
LEMMA ReadyStays ==
  ASSUME AccessInv, NEW c \in Callers, conn[c].stage # "client", NEW x, x.stage # "client",
         conn' = [conn EXCEPT ![c] = x], UNCHANGED <<class, conf>>
  PROVE  Stays
<1>1. \A d \in Callers : conn'[d] = IF d = c THEN x ELSE conn[d]
  BY DEF AccessInv, Fits
<1>2. \A d \in Callers : conn'[d] = conn[d] \/ (conn[d].stage # "client" /\ conn'[d].stage # "client")
  BY <1>1
<1> QED BY <1>2 DEF Stays

LEMMA ContinueFine ==
  ASSUME SteadySubnets, AccessInv, AccessInv', SubnetsInv, NEW c \in Callers, Reads(c),
         NEW me, Ready(c, me), Continue(c, me)
  PROVE  SubnetsInv' /\ Within
<1>1. conn[c].stage # "client" /\ me.stage = "unknown" /\ me \in ConnRec
  BY DEF Reads, Ready, Fit
<1>2. CASE me.need # {}
  <2>1. Stays BY <1>1, <1>2, ReadyStays DEF Continue
  <2> QED BY <2>1, StaysFine
<1>3. CASE me.need = {} /\ ~me.authed
  <2> PICK x : x = [me EXCEPT !.pings = me.pings + 1] OBVIOUS
  <2>1. x.stage = "unknown" BY <1>1 DEF ConnRec
  <2>2. conn' = [conn EXCEPT ![c] = x] /\ UNCHANGED <<class, conf>>
    BY <1>3 DEF Continue, RegisterUser
  <2>3. Stays BY <1>1, <2>1, <2>2, ReadyStays
  <2> QED BY <2>3, StaysFine
<1>4. CASE me.need = {} /\ me.authed
  <2>1. PICK i \in Blocks : \/ TurnAway(c, i)
                            \/ i # None /\ ~Full(c, i) /\ Admit(c, me, i)
    BY <1>4 DEF Continue, RegisterUser
  <2>2. CASE TurnAway(c, i)
    <3>1. NoConn.stage # "client" BY DEF NoConn
    <3>2. Stays BY <1>1, <2>2, <3>1, ReadyStays DEF TurnAway
    <3> QED BY <3>2, StaysFine
  <2>3. CASE i # None /\ ~Full(c, i) /\ Admit(c, me, i)
    <3>1. i \in ConfIds /\ conf[i].active BY <2>3 DEF Blocks
    <3> QED BY <2>3, <3>1, AdmitFine
  <2> QED BY <2>1, <2>2, <2>3
<1> QED BY <1>2, <1>3, <1>4

LEMMA CommandFine ==
  ASSUME SteadySubnets, AccessInv, AccessInv', SubnetsInv, NEW c \in Callers,
         MrNick(c) \/ MrUser(c) \/ CapAsk(c) \/ CapEnd(c)
  PROVE  SubnetsInv' /\ Within
<1>0. Reads(c) /\ conn[c].need \subseteq {"NICK", "USER", "CAP"} /\ conn[c].stage # "client"
      /\ conn[c] \in ConnRec
  BY DEF MrNick, MrUser, CapAsk, CapEnd, AccessInv, Fits, ConnRec, Reads
<1>1. ASSUME NEW word \in {"NICK", "USER", "CAP"},
             Continue(c, [conn[c] EXCEPT !.need = conn[c].need \ {word}])
      PROVE  SubnetsInv' /\ Within
  <2>1. conn[c].need \ {word} \in SUBSET {"NICK", "USER", "CAP"} BY <1>0
  <2>2. Ready(c, [conn[c] EXCEPT !.need = conn[c].need \ {word}]) BY <1>0, <2>1, ReadyNeeds
  <2> QED BY <1>0, <1>1, <2>2, ContinueFine
<1>2. CASE MrNick(c)
  BY <1>1, <1>2 DEF MrNick
<1>3. CASE MrUser(c)
  BY <1>1, <1>3 DEF MrUser
<1>4. CASE CapEnd(c)
  BY <1>1, <1>4 DEF CapEnd
<1>5. CASE CapAsk(c)
  <2> PICK x : x = [conn[c] EXCEPT !.need = conn[c].need \cup {"CAP"}] OBVIOUS
  <2>1. x.stage # "client" BY <1>0 DEF ConnRec
  <2>2. conn' = [conn EXCEPT ![c] = x] /\ UNCHANGED <<class, conf>>
    BY <1>5 DEF CapAsk, AccessInv, Fits
  <2>3. Stays BY <1>0, <2>1, <2>2, ReadyStays
  <2> QED BY <2>3, StaysFine
<1> QED BY <1>2, <1>3, <1>4, <1>5

LEMMA AuthPongFine ==
  ASSUME SteadySubnets, AccessInv, AccessInv', SubnetsInv, NEW c \in Callers, NEW same \in BOOLEAN,
         AuthPong(c, same)
  PROVE  SubnetsInv' /\ Within
<1> DEFINE me == [conn[c] EXCEPT !.authed = TRUE, !.pings = conn[c].pings - 1]
<1>1. Reads(c) /\ conn[c].pings > 0 /\ (Continue(c, me) \/ Exit(c))
  BY DEF AuthPong
<1>2. conn[c].pings \in Nat /\ Fit(conn[c]) /\ conn[c].stage = "unknown" /\ conn[c].finished
  BY <1>1 DEF AccessInv, Fits, ConnRec, Reads
<1>3. Ready(c, me)
  <2>1. PICK n \in Nat : n = conn[c].pings - 1
    BY <1>1, <1>2
  <2>2. Ready(c, [conn[c] EXCEPT !.authed = TRUE, !.pings = n])
    <3>1. Ready(c, conn[c])
      BY <1>2 DEF Ready
    <3> QED BY <3>1, ReadyPongs
  <2> QED BY <2>1, <2>2
<1> HIDE DEF me
<1>4. CASE Continue(c, me)
  BY <1>1, <1>3, <1>4, ContinueFine
<1>5. CASE Exit(c)
  BY <1>5, ExitFine
<1> QED BY <1>1, <1>4, <1>5

LEMMA ReleaseStays ==
  ASSUME NEW m \in ConnRec, m.stage = "unknown", NEW s
  PROVE  ReleaseAuth(m, s).stage = "unknown"
<1>1. CASE s # {}
  BY <1>1 DEF ReleaseAuth, ConnRec
<1>2. CASE s = {}
  <2>1. PICK n : n = IF m.releases < 2 THEN m.releases + 1 ELSE m.releases OBVIOUS
  <2>2. ReleaseAuth(m, s) = [m EXCEPT !.asked = {}, !.finished = TRUE, !.releases = n]
    BY <1>2, <2>1 DEF ReleaseAuth
  <2> QED BY <2>2 DEF ConnRec
<1> QED BY <1>1, <1>2

\* The queries, the gateway and a new connection
LEMMA QueryStays ==
  ASSUME AccessInv, NEW c \in Callers,
         DnsAnswer(c) \/ IdentAnswer(c) \/ TimeoutAuth(c) \/ (\E a \in Ips : WebIrc(c, a))
         \/ \E a \in Ips, ident \in {"off", "open", "failed"} : AcceptConn(c, a, ident)
  PROVE  Stays
<1>0. conn \in [Callers -> ConnRec] /\ conn[c] \in ConnRec BY DEF AccessInv, Fits
<1>1. ASSUME NEW kind \in Kinds, Answer(c, kind) PROVE Stays
  <2> PICK x : x = ReleaseAuth(conn[c], conn[c].asked \ {kind}) OBVIOUS
  <2>1. /\ conn' = [conn EXCEPT ![c] = x] /\ UNCHANGED <<class, conf>> /\ <<c, kind>> \in queries
    BY <1>0, <1>1 DEF Answer
  <2>2. conn[c].stage = "unknown" BY <2>1 DEF AccessInv, Queried
  <2>3. x.stage = "unknown" BY <1>0, <2>2, ReleaseStays
  <2> QED BY <2>1, <2>2, <2>3, ReadyStays
<1>2. CASE TimeoutAuth(c)
  <2> PICK x : x = ReleaseAuth(conn[c], {}) OBVIOUS
  <2>1. /\ conn' = [conn EXCEPT ![c] = x] /\ UNCHANGED <<class, conf>> /\ conn[c].stage = "unknown"
    BY <1>0, <1>2 DEF TimeoutAuth
  <2>2. x.stage = "unknown" BY <1>0, <2>1, ReleaseStays
  <2> QED BY <2>1, <2>2, ReadyStays
<1>3. ASSUME NEW a \in Ips, WebIrc(c, a) PROVE Stays
  <2> PICK x : x = [conn[c] EXCEPT !.ip = a] OBVIOUS
  <2>1. /\ conn' = [conn EXCEPT ![c] = x] /\ UNCHANGED <<class, conf>> /\ conn[c].stage = "unknown"
    BY <1>0, <1>3 DEF WebIrc, Reads
  <2>2. x.stage = "unknown" BY <1>0, <2>1 DEF ConnRec
  <2> QED BY <2>1, <2>2, ReadyStays
<1>4. ASSUME NEW a \in Ips, NEW ident \in {"off", "open", "failed"}, AcceptConn(c, a, ident) PROVE Stays
  <2> PICK x : x = [NoConn EXCEPT !.stage = "unknown", !.ip = a,
                                  !.need = {"NICK", "USER"}, !.asked = Asked(ident)] OBVIOUS
  <2>1. /\ conn' = [conn EXCEPT ![c] = x] /\ UNCHANGED <<class, conf>> /\ conn[c].stage = "free"
    BY <1>4 DEF AcceptConn
  <2>2. x.stage = "unknown" BY DEF NoConn
  <2> QED BY <2>1, <2>2, ReadyStays
<1> QED BY <1>1, <1>2, <1>3, <1>4 DEF DnsAnswer, IdentAnswer, Kinds

LEMMA NextFine ==
  ASSUME SteadySubnets, AccessInv, AccessInv', SubnetsInv, [AccessNext]_accessVars
  PROVE  SubnetsInv' /\ Within
<1>1. ASSUME NEW c \in Callers,
             DnsAnswer(c) \/ IdentAnswer(c) \/ TimeoutAuth(c) \/ (\E a \in Ips : WebIrc(c, a))
             \/ \E a \in Ips, ident \in {"off", "open", "failed"} : AcceptConn(c, a, ident)
      PROVE  SubnetsInv' /\ Within
  <2>1. Stays BY <1>1, QueryStays
  <2> QED BY <2>1, StaysFine
<1>2. ASSUME NEW c \in Callers, MrNick(c) \/ MrUser(c) \/ CapAsk(c) \/ CapEnd(c)
      PROVE  SubnetsInv' /\ Within
  BY <1>2, CommandFine
<1>3. ASSUME NEW c \in Callers, NEW same \in BOOLEAN, AuthPong(c, same) PROVE SubnetsInv' /\ Within
  BY <1>3, AuthPongFine
<1>4. ASSUME NEW c \in Callers, Leave(c) PROVE SubnetsInv' /\ Within
  BY <1>4, ExitFine DEF Leave
<1>5. CASE (\E a \in Ips : Refuse(a)) \/ ExpireEntries \/ Tick \/ UNCHANGED accessVars
  <2>1. UNCHANGED <<conn, class, conf>>
    BY <1>5 DEF Refuse, ExpireEntries, Tick, accessVars
  <2>2. Stays BY <2>1 DEF Stays
  <2> QED BY <2>2, StaysFine
<1>6. ASSUME NEW S \in SUBSET Classes, NEW s \in Settings, NEW k \in ClassNames,
             NEW listen \in BOOLEAN, Rehash(S, s, k, listen)
      PROVE  SubnetsInv' /\ Within
  BY <1>6, RehashFine
<1> QED BY <1>1, <1>2, <1>3, <1>4, <1>5, <1>6 DEF AccessNext

\* As long as every file limits the subnets, by masks of one length: whatever the connections,
\* addresses, blocks and classes are, nobody becomes a user of a class who makes it more than
\* number_per_cidr from his subnet, however many rehashes have lowered or raised that number
\* (reference.conf 233, conf.c 241-281 and 434-494, conf_class.c 233-387, conf_parser.y 1506-1515).
THEOREM SubnetsLimited == SteadySubnets => (AccessSpec => SubnetLimit)
<1> SUFFICES ASSUME SteadySubnets PROVE AccessSpec => SubnetLimit
  OBVIOUS
<1>1. AccessInit => AccessInv /\ SubnetsInv
  BY AccessConstants, InitAccessInv, InitFine
<1>2. (AccessInv /\ SubnetsInv) /\ [AccessNext]_accessVars => (AccessInv /\ SubnetsInv)'
  BY NextIInv, NextFine
<1>3. (AccessInv /\ SubnetsInv) /\ [AccessNext]_accessVars => [Within]_accessVars
  BY NextIInv, NextFine
<1>4. AccessSpec => [][Within]_accessVars
  BY <1>1, <1>2, <1>3, PTL DEF AccessSpec
<1> QED BY <1>4, PTL DEF SubnetLimit, Within
=============================================================================

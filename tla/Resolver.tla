------------------------------ MODULE Resolver ------------------------------
(***************************************************************************)
(* The resolver (res.c), as those that ask see it: the auth{} of a client    *)
(* asks for the name of an address, which is then asked for its address in  *)
(* turn; a conf and an outgoing connection ask for the address of a name.   *)
(* Queries go to the nameservers by UDP, so that they and the answers may be *)
(* lost, doubled, late, and out of order; the socket may be opened anew      *)
(* (REHASH, REHASH DNS); and whoever asked may be gone and its struct used   *)
(* for another (auth.c 305-312, 511-514, conf.c 182-187, fdlist.c 126).      *)
(*                                                                         *)
(* The octets of a packet are DnsNames'.  Packets from other addresses than  *)
(* those of the nameservers (res_ourserver) are as good as lost.            *)
(***************************************************************************)
EXTENDS Naturals, Sequences, FiniteSets

CONSTANTS
    Asking,      \* the structs that ask
    Ptr,         \* address -> its name, or None
    Addr,        \* name -> its address, or None
    None,
    Ids,         \* of queries
    MaxAsks      \* bound: asks, cancellations and restarts

VARIABLES
    ctx,         \* whoever asks: [want, pending, got]
    requests,    \* request_list
    wire,        \* queries that have left: [id, type, key]
    open,        \* ResolverFileDescriptor.flags.open
    asks,
    reused       \* history: an id was drawn again while a query with it was out

dnsVars == <<ctx, requests, wire, open, asks, reused>>

Idle == [want |-> None, pending |-> FALSE, got |-> None]
Failed == <<None, None>>
IdsOf(rs) == {r.id : r \in rs}
AddrType(a) == IF a \in DOMAIN Ptr THEN "PTR" ELSE "A"

-----------------------------------------------------------------------------
\* query_name: the id is one that no request has.
QueryName(rest, r, id) ==
  LET q == [id |-> id, type |-> r.type, key |-> r.key]
  IN  /\ id \notin IdsOf(rest \cup {r})
      /\ requests' = rest \cup {[r EXCEPT !.id = id]}
      /\ wire' = IF open THEN wire \cup {q} ELSE wire
      /\ reused' = (reused \/ \E w \in wire : w.id = id /\ w # q)

\* make_request
MakeRequest(c, key) == [id |-> 0, ctx |-> c, type |-> AddrType(key), key |-> key, retries |-> 2]

\* rem_request after the callback of whoever asked
Callback(r, result) ==
  /\ requests' = requests \ {r}
  /\ ctx' = [ctx EXCEPT ![r.ctx] = [@ EXCEPT !.pending = FALSE, !.got = result]]
  /\ UNCHANGED <<wire, reused>>

\* proc_answer: CNAMEs are passed over, and what comes first after them must be what was
\* asked for.
ProcAnswer(r, records) ==
  LET rest == SelectSeq(records, LAMBDA x : x.type # "CNAME")
  IN  IF rest = << >> \/ rest[1].type # r.type THEN None ELSE rest[1].data

-----------------------------------------------------------------------------
Init == /\ ctx = [c \in Asking |-> Idle] /\ requests = {} /\ wire = {} /\ open = TRUE
        /\ asks = 0 /\ reused = FALSE

Step == asks < MaxAsks /\ asks' = asks + 1

\* gethost_byaddr, gethost_byname_type
Ask(c, key) ==
  /\ Step /\ ctx[c] = Idle /\ UNCHANGED open
  /\ ctx' = [ctx EXCEPT ![c] = [want |-> key, pending |-> TRUE, got |-> None]]
  /\ \E id \in Ids : QueryName(requests, MakeRequest(c, key), id)

\* Faulty variant: the query of one who goes stays.
LeaveAsked(c) ==
  /\ Step /\ ctx[c] # Idle /\ ctx' = [ctx EXCEPT ![c] = Idle]
  /\ UNCHANGED <<requests, wire, open, reused>>
\* Whoever asked goes: delete_resolver_queries, if the answer is still to come.
Leave(c) ==
  /\ Step /\ ctx[c] # Idle /\ ctx' = [ctx EXCEPT ![c] = Idle]
  /\ requests' = IF ctx[c].pending THEN {r \in requests : r.ctx # c} ELSE requests
  /\ UNCHANGED <<wire, open, reused>>

\* What a nameserver says to w: the truth, after the names that it is an alias of, or
\* that it does not know.
Says(w) ==
  LET data == IF w.type = "PTR" THEN Ptr[w.key] ELSE Addr[w.key]
  IN  {<< >>} \cup (IF data = None THEN {}
                   ELSE {<<[type |-> "CNAME", data |-> None], [type |-> w.type, data |-> data]>>})

\* res_readreply.  The datagram may come again: w stays.
ReadReply(w) ==
  \E r \in requests, records \in Says(w) :
    /\ open /\ r.id = w.id
    /\ LET answer == ProcAnswer(r, records)
       IN  CASE answer = None -> Callback(r, Failed)
             [] answer # None /\ r.type = "PTR" ->
                  \* the name's own address is asked for; then rem_request
                  /\ \E id \in Ids : /\ id # r.id
                                     /\ QueryName(requests \ {r}, MakeRequest(r.ctx, answer), id)
                  /\ UNCHANGED ctx
             [] OTHER -> Callback(r, <<r.key, answer>>)
    /\ UNCHANGED <<open, asks>>

\* timeout_query_list, for a request whose time has come
TimeoutQuery(r) ==
  /\ UNCHANGED <<open, asks>>
  /\ IF r.retries = 1 THEN Callback(r, Failed)
     ELSE /\ \E id \in Ids : QueryName(requests \ {r}, [r EXCEPT !.retries = @ - 1], id)
          /\ UNCHANGED ctx
Timeout(c) == \E r \in requests : r.ctx = c /\ TimeoutQuery(r)

\* restart_resolver: the new socket may fail to open, and gets nothing that was for the
\* old one.
Restart == /\ Step /\ wire' = {} /\ open' \in BOOLEAN /\ UNCHANGED <<ctx, requests, reused>>

Next == \/ \E c \in Asking : \/ Leave(c) \/ Timeout(c)
                             \/ \E key \in DOMAIN Ptr \cup DOMAIN Addr : Ask(c, key)
        \/ \E w \in wire : ReadReply(w)
        \/ Restart

Spec == Init /\ [][Next]_dnsVars

-----------------------------------------------------------------------------
TypeOK ==
  /\ \A c \in Asking : ctx[c].pending \in BOOLEAN
  /\ \A r \in requests : r.ctx \in Asking /\ r.id \in Ids /\ r.retries \in 1..2
  /\ IdsOf(wire) \subseteq Ids /\ open \in BOOLEAN /\ reused \in BOOLEAN

\* Whoever waits has one query out, under an id of its own; no query is that of one who
\* has been answered or is gone, whoever its struct is now.
Waits ==
  /\ \A r \in requests : ctx[r.ctx].pending
  /\ \A c \in Asking : Cardinality({r \in requests : r.ctx = c}) = IF ctx[c].pending THEN 1 ELSE 0
  /\ Cardinality(IdsOf(requests)) = Cardinality(requests)

\* An answer is to what was asked: the name of that very address, and the address of that
\* very name, whatever comes late, twice or out of order; but for an id that is drawn
\* again while the query that had it is still out ("Generate an unique id", res.c 293).
Right ==
  \A c \in Asking :
    LET want == ctx[c].want
        got == ctx[c].got
    IN  \/ got \in {None, Failed} \/ reused
        \/ /\ Addr[got[1]] = got[2]
           /\ got[1] = IF want \in DOMAIN Ptr THEN Ptr[want] ELSE want

\* Whoever asks is answered.
Answered == \A c \in Asking : ctx[c].pending ~> ~ctx[c].pending
=============================================================================

------------------------------- MODULE Events -------------------------------
(***************************************************************************)
(* Timed events (event.c) in the loop of the server (ircd.c 189-260,        *)
(* s_bsd_epoll.c 124-173): a list in the order of the times they are due.   *)
(* A handler may add and delete events while the list is run, and the clock  *)
(* may be set forward or back.                                              *)
(***************************************************************************)
EXTENDS Integers, Sequences, FiniteSets, SequencesExt

CONSTANTS
    Timers,      \* the struct events
    Period,      \* Period[e]: when, as it is declared: at least a second
    Does,        \* Does[e]: the sequences of <<"add" or "delete", event>> its handler may do
    MaxTime,     \* bound: the clock
    MaxOps       \* bound: adds, deletes and steps of the clock

VARIABLES
    events,      \* the list
    next, when, enabled,   \* of each event
    now,         \* CurrentTime
    last,        \* of event_run
    pc,          \* the loop: "run", "running", "poll", "io"
    left,        \* of event_run: len
    ops,
    ran          \* history: how often each ran in this run

eventVars == <<events, next, when, enabled, now, last, pc, left, ops, ran>>

-----------------------------------------------------------------------------
(* s: [events, next, enabled] *)

Now == [events |-> events, next |-> next, enabled |-> enabled]
Become(s) == events' = s.events /\ next' = s.next /\ enabled' = s.enabled

\* event_delete
Delete(s, e) ==
  IF e \notin s.enabled THEN s
  ELSE [s EXCEPT !.events = SelectSeq(@, LAMBDA f : f # e), !.enabled = @ \ {e}]

\* Faulty variant: an event that is in the list already is put there again.
AddTwice(s, e, period) ==
  LET due == now + period
      later == {i \in 1..Len(s.events) : s.next[s.events[i]] > due}
      at == IF later = {} THEN Len(s.events) + 1 ELSE CHOOSE i \in later : \A j \in later : i <= j
  IN  [events |-> InsertAt(s.events, at, e), next |-> [s.next EXCEPT ![e] = due],
       enabled |-> s.enabled \cup {e}]

\* event_add: before the first that is due later
Add(s, e, period) ==
  LET rest == Delete(s, e).events
      due == now + period
      later == {i \in 1..Len(rest) : s.next[rest[i]] > due}
      at == IF later = {} THEN Len(rest) + 1 ELSE CHOOSE i \in later : \A j \in later : i <= j
  IN  [events |-> InsertAt(rest, at, e), next |-> [s.next EXCEPT ![e] = due],
       enabled |-> s.enabled \cup {e}]

\* event_addish: the period itself is drawn anew, and stays.
Ish(p) == LET third == (2 * p) \div 3
          IN  IF p < 3 THEN {p} ELSE {third + (r * third) \div 1000 : r \in {0, 500, 999}}

Handled(s, acts) ==
  FoldLeft(LAMBDA r, a : IF a[1] = "add" THEN Add(r, a[2], when[a[2]]) ELSE Delete(r, a[2]),
           s, acts)

-----------------------------------------------------------------------------
Init ==
  /\ events = << >> /\ next = [e \in Timers |-> 0] /\ enabled = {}
  /\ when \in [Timers -> UNION {Ish(Period[e]) : e \in Timers}]
  /\ \A e \in Timers : when[e] \in Ish(Period[e])
  /\ now = 1 /\ last = 0 /\ pc = "run" /\ left = 0 /\ ops = 0
  /\ ran = [e \in Timers |-> 0]

\* The entry of event_run: at most once in a second
Run ==
  /\ pc = "run"
  /\ IF last = now THEN pc' = "poll" /\ UNCHANGED <<last, left, ran>>
     ELSE /\ pc' = "running" /\ last' = now /\ left' = Len(events)
          /\ ran' = [e \in Timers |-> 0]
  /\ UNCHANGED <<events, next, when, enabled, now, ops>>

\* One turn of its loop, the handler with it; then the event is put back, though it may
\* have deleted itself.
Due == left > 0 /\ events # << >> /\ next[Head(events)] <= now
RunOne ==
  /\ pc = "running" /\ Due /\ left' = left - 1
  /\ LET e == Head(events)
     IN  /\ \E acts \in Does[e] : Become(Add(Handled(Delete(Now, e), acts), e, when[e]))
         /\ ran' = [ran EXCEPT ![e] = @ + 1]
  /\ UNCHANGED <<when, now, last, pc, ops>>
Ran == pc = "running" /\ ~Due /\ pc' = "poll"
       /\ UNCHANGED <<events, next, when, enabled, now, last, left, ops, ran>>

\* set_time; set_back_events when the clock runs backwards
SetTime(t) ==
  /\ pc = "poll" /\ pc' = "io" /\ now' = t
  /\ ops' = IF t \in {now, now + 1} THEN ops ELSE ops + 1
  /\ ops' <= MaxOps
  /\ next' = [e \in Timers |-> IF t < now /\ e \in enabled THEN next[e] - (now - t) ELSE next[e]]
  /\ UNCHANGED <<events, when, enabled, last, left, ran>>

\* What commands and files do, when input is read
Command == pc = "io" /\ ops < MaxOps /\ ops' = ops + 1
           /\ UNCHANGED <<now, last, pc, left, ran>>
AddEvent(e) == Command /\ Become(Add(Now, e, when[e])) /\ UNCHANGED when
\* A new period is set before (conf_parser.y 3123, ircd.c 649).
AddIsh(e) == Command /\ \E p \in Ish(Period[e]) : /\ when' = [when EXCEPT ![e] = p]
                                                  /\ Become(Add(Now, e, p))
DeleteEvent(e) == Command /\ Become(Delete(Now, e)) /\ UNCHANGED when
Loop == pc = "io" /\ pc' = "run"
        /\ UNCHANGED <<events, next, when, enabled, now, last, left, ops, ran>>

Next ==
  \/ Run \/ RunOne \/ Ran \/ Loop
  \/ \E t \in 1..MaxTime : SetTime(t)
  \/ \E e \in Timers : AddEvent(e) \/ AddIsh(e) \/ DeleteEvent(e)

Spec == Init /\ [][Next]_eventVars

-----------------------------------------------------------------------------
TypeOK == /\ pc \in {"run", "running", "poll", "io"} /\ enabled \subseteq Timers
          /\ now \in 1..MaxTime /\ last \in 0..MaxTime /\ left \in 0..Cardinality(Timers)

\* The list has each event that is on once, in the order they are due, however handlers
\* and commands add and delete them and the clock is set; the loop looks only at its head.
InOrder ==
  /\ IsInjective(events) /\ ToSet(events) = enabled
  /\ \A i, j \in 1..Len(events) : i < j => next[events[i]] <= next[events[j]]

\* When a run is over nothing that is due waits, and nothing ran twice in it: a handler
\* that adds or deletes others makes the loop, which counts by the length the list had,
\* neither stop short nor go round.
NoneLate == pc = "poll" => \A e \in enabled : next[e] > now
OncePerRun == \A e \in Timers : ran[e] <= 1

\* No event is further off than its period, whatever the clock did.
NoneFar == \A e \in enabled : next[e] <= now + when[e]
=============================================================================

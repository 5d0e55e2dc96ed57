------------------------------ MODULE TopicTS ------------------------------
(***************************************************************************)
(* The topic of a channel on several servers: set by TOPIC, carried to a   *)
(* server that links by TBURST, and lost with the timestamp of the channel *)
(* (m_topic.c, m_tburst.c, m_sjoin.c, send_tb() of m_server.c).            *)
(***************************************************************************)
EXTENDS Integers, Sequences

CONSTANTS Holders,              \* the servers, which all have the channel
          Wires,                \* ordered pairs of neighbours, both ways
          Topics,               \* texts of a topic; Unset is the empty one
          Unset,
          Born,                 \* the timestamps the channel may be made with
          MaxTime, MaxCuts, MaxSets     \* bounds

ASSUME TopicLinks ==
    /\ Wires \subseteq Holders \X Holders
    /\ \A l \in Wires : l[1] # l[2] /\ <<l[2], l[1]>> \in Wires
ASSUME TopicBounds ==
    Born \subseteq Nat /\ MaxTime \in Nat \ {0} /\ MaxCuts \in Nat /\ MaxSets \in Nat

VARIABLES ts,       \* server -> creationtime of the channel
          topic,    \* server -> text of the topic
          at,       \* server -> topic_time
          tq,       \* link, one way -> messages on it
          up,       \* links that are established, both ways
          now, cuts, sets,
          met,      \* history: a topic met a burst or another one, or was set in the
                    \* second of another
          dropped   \* history: a channel lost its TS with an unset topic

topicVars == <<ts, topic, at, tq, up, now, cuts, sets, met, dropped>>

Back(w) == <<w[2], w[1]>>
Out(s, from) == {w \in up : w[1] = s /\ w[2] # from}
Still == \A w \in Wires : tq[w] = <<>>
Spreading == \E w \in Wires : \E i \in DOMAIN tq[w] : tq[w][i].op = "TOPIC"

TopicInit ==
    /\ ts \in [Holders -> Born]
    /\ topic = [s \in Holders |-> Unset]
    /\ at = [s \in Holders |-> 0]
    /\ tq = [w \in Wires |-> <<>>]
    /\ up = {}
    /\ now = 1 /\ cuts = 0 /\ sets = 0
    /\ met = FALSE /\ dropped = FALSE

TopicMessage ==
    [op : {"TOPIC"}, text : Topics \cup {Unset}]
        \cup [op : {"SJOIN"}, ts : Born]
        \cup [op : {"TBURST"}, ts : Born, at : 1..MaxTime, text : Topics \cup {Unset}]

TopicTypeOK ==
    /\ ts \in [Holders -> Born]
    /\ topic \in [Holders -> Topics \cup {Unset}]
    /\ at \in [Holders -> 0..MaxTime]
    /\ tq \in [Wires -> Seq(TopicMessage)]
    /\ up \subseteq Wires
    /\ now \in 1..MaxTime /\ cuts \in 0..MaxCuts /\ sets \in 0..MaxSets
    /\ {met, dropped} \subseteq BOOLEAN

\* queues with m put on each way of ws.
Put(queues, ws, m) ==
    [w \in Wires |-> IF w \in ws THEN Append(queues[w], m) ELSE queues[w]]

Second ==
    /\ now < MaxTime /\ now' = now + 1
    /\ UNCHANGED <<ts, topic, at, tq, up, cuts, sets, met, dropped>>

\* TOPIC of a client of s.
SetTopic(s, t) ==
    /\ sets < MaxSets /\ sets' = sets + 1
    /\ topic' = [topic EXCEPT ![s] = t]
    /\ at' = [at EXCEPT ![s] = now]
    /\ tq' = Put(tq, Out(s, s), [op |-> "TOPIC", text |-> t])
    /\ met' = (met \/ ~Still \/ \E r \in Holders : at[r] = now)
    /\ UNCHANGED <<ts, up, now, cuts, dropped>>

Tburst(s) == [op |-> "TBURST", ts |-> ts[s], at |-> at[s], text |-> topic[s]]

\* Faulty variant: a topic that was unset is not sent.
BurstSet(s) ==
    <<[op |-> "SJOIN", ts |-> ts[s]]>>
        \o (IF topic[s] # Unset THEN <<Tburst(s)>> ELSE <<>>)

\* burst_all(): the channel, then its topic if it ever had one.
TopicBurst(s) ==
    <<[op |-> "SJOIN", ts |-> ts[s]]>>
        \o (IF at[s] > 0 THEN <<Tburst(s)>> ELSE <<>>)

Establish(l) ==
    /\ l \notin up
    /\ up' = up \cup {l, Back(l)}
    /\ tq' = [w \in Wires |-> IF w \in {l, Back(l)} THEN TopicBurst(w[1]) ELSE tq[w]]
    /\ met' = (met \/ Spreading)
    /\ UNCHANGED <<ts, topic, at, now, cuts, sets, dropped>>

\* What is under way is lost.
Cut(l) ==
    /\ l \in up /\ cuts < MaxCuts
    /\ up' = up \ {l, Back(l)}
    /\ cuts' = cuts + 1
    /\ tq' = [w \in Wires |-> IF w \in {l, Back(l)} THEN <<>> ELSE tq[w]]
    /\ UNCHANGED <<ts, topic, at, now, sets, met, dropped>>

Rest(w) == [tq EXCEPT ![w] = Tail(@)]

\* A TOPIC is taken whenever it comes, with the time of this server.
RecvTopic(w) ==
    \E m \in {Head(tq[w])} :
        /\ m.op = "TOPIC"
        /\ topic' = [topic EXCEPT ![w[2]] = m.text]
        /\ at' = [at EXCEPT ![w[2]] = now]
        /\ tq' = Put(Rest(w), Out(w[2], w[1]), m)
        /\ UNCHANGED <<ts, dropped>>

\* An older channel takes the topic of this one away, if there is one.
RecvTopicSJoin(w) ==
    LET s == w[2] IN
    \E m \in {Head(tq[w])} :
        /\ m.op = "SJOIN"
        /\ LET older == m.ts < ts[s]
               clears == older /\ topic[s] # Unset
           IN  /\ ts' = [ts EXCEPT ![s] = IF older THEN m.ts ELSE @]
               /\ topic' = [topic EXCEPT ![s] = IF clears THEN Unset ELSE @]
               /\ at' = [at EXCEPT ![s] = IF clears THEN 0 ELSE @]
               /\ dropped' = (dropped \/ (older /\ ~clears /\ at[s] > 0))
               /\ tq' = Put(Rest(w), Out(s, w[1]),
                            [m EXCEPT !.ts = IF older THEN @ ELSE ts[s]])

\* Faulty variant: the topic of a newer channel is taken if it is newer.
AcceptsNewer(s, m) == m.ts < ts[s] \/ m.at > at[s]
Accepts(s, m) == m.ts < ts[s] \/ (m.ts = ts[s] /\ m.at > at[s])

RecvTburst(w) ==
    LET s == w[2] IN
    \E m \in {Head(tq[w])} :
        /\ m.op = "TBURST"
        /\ IF Accepts(s, m)
           THEN /\ topic' = [topic EXCEPT ![s] = m.text]
                /\ at' = [at EXCEPT ![s] = m.at]
                /\ tq' = Put(Rest(w), Out(s, w[1]), m)
           ELSE /\ tq' = Rest(w)
                /\ UNCHANGED <<topic, at>>
        /\ UNCHANGED <<ts, dropped>>

Recv(w) ==
    /\ tq[w] # <<>>
    /\ RecvTopic(w) \/ RecvTopicSJoin(w) \/ RecvTburst(w)
    /\ UNCHANGED <<up, now, cuts, sets, met>>

TopicNext ==
    \/ Second
    \/ \E s \in Holders, t \in Topics \cup {Unset} : SetTopic(s, t)
    \/ \E l \in Wires : Establish(l) \/ Cut(l)
    \/ \E w \in Wires : Recv(w)

TopicSpec == TopicInit /\ [][TopicNext]_topicVars

-----------------------------------------------------------------------------
(***************************************************************************)
(* Properties.                                                             *)
(***************************************************************************)

Agree == \A l \in up : topic[l[1]] = topic[l[2]]

\* When everything sent has arrived, linked servers show one topic, however bursts cross
\* and links break, unless one was set while something was under way or in the second of
\* another, or a link was made while one was spreading (a TOPIC has no timestamps), or a
\* channel that lost its TS kept the time of a topic that was unset, and refused the older
\* topic of the one that won (ms_tburst(), ms_sjoin()).
TopicsAgree == Still /\ ~met /\ ~dropped => Agree
=============================================================================

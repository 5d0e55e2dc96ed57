--------------------------- MODULE ChannelProofs ---------------------------
(***************************************************************************)
(* Proofs about Bans, for any addresses, masks, files, exemptions and times; *)
(* from TOPIC on, about TopicTS, for any network, even one with cycles; and, *)
(* at the end, about ChannelRules, for any clients, channels and limits.     *)
(*                                                                         *)
(* NoBannedUser alone is not inductive: a client at an exempt address could  *)
(* be under a G-line, and a rehash that takes the exemption back and turns   *)
(* glines off sweeps no G-lines.  Sound says more: registration and votes    *)
(* let no client under a G-line stay whose auth{} block does not exempt it,  *)
(* whatever its address, and no file has G-lines.                           *)
(* What a restart loads is the whole of the disk, as a finite set has a      *)
(* listing of its size (ListingAll).  What a step leaves of the list is read *)
(* off Those, a recursive function, by induction from the least              *)
(* counterexample (ThoseIs).                                                *)
(*                                                                         *)
(* TopicsAgree speaks of the end, when nothing is under way.  Before it, a   *)
(* server will have the best of what it has and of what is on its way there, *)
(* an older channel counting for more, and in it a later topic; a message    *)
(* that is read and passed on changes that for neither end of a link, so the *)
(* two ends come to the same (Level).  Times do not order the topics that a  *)
(* TOPIC carries, which each server dates itself: f numbers them, a          *)
(* function of the second, the same for all servers.                         *)
(*                                                                         *)
(* RulesRight needs, besides itself, that members are on line and that a     *)
(* channel is there when it has members: it ends with the last of them, and  *)
(* its invitations with it.                                                *)
(***************************************************************************)
EXTENDS Bans, TopicTS, ChannelRules, FiniteSetTheorems, SequenceTheorems, WellFoundedInduction,
        TLAPS

\* Every set of numbers has a least one; induction.
LEMMA LeastOf ==
  ASSUME NEW S, S \subseteq Nat, S # {}
  PROVE  \E k \in S : \A j \in S : k <= j
<1> DEFINE R == OpToRel(<, Nat)
<1>1. IsWellFoundedOn(R, Nat)
  BY NatLessThanWellFounded
<1>2. \A x, y \in Nat : <<y, x>> \in R <=> y < x
  BY DEF OpToRel
<1>3. \E x \in S : \A y \in S : ~(<<y, x>> \in R)
  <2> HIDE DEF R
  <2> QED BY <1>1, WFMin
<1>4. PICK k \in S : \A j \in S : ~(<<j, k>> \in R)
  BY <1>3
<1>5. ASSUME NEW j \in S PROVE k <= j
  <2>1. k \in Nat /\ j \in Nat /\ ~(<<j, k>> \in R)
    BY <1>4
  <2> HIDE DEF R
  <2>2. ~(j < k)
    BY <1>2, <2>1
  <2> QED BY <2>1, <2>2
<1> QED BY <1>5

LEMMA Induct ==
  ASSUME NEW S, 0 \in S, \A k \in Nat : k \in S => k + 1 \in S
  PROVE  \A k \in Nat : k \in S
<1> SUFFICES ASSUME {k \in Nat : k \notin S} # {} PROVE FALSE
  OBVIOUS
<1>1. PICK k \in {i \in Nat : i \notin S} : \A j \in {i \in Nat : i \notin S} : k <= j
  BY LeastOf
<1>2. k # 0 /\ k - 1 \in Nat /\ k - 1 < k
  BY <1>1
<1>3. k - 1 \in S
  BY <1>1, <1>2
<1> QED BY <1>1, <1>2, <1>3

-----------------------------------------------------------------------------
(* The bans at some places of a list *)

\* x is what of bs is at the places up to n that are in is.
Taken(x, bs, is, n) ==
  /\ \A j \in DOMAIN x : \E i \in DOMAIN bs : i \in is /\ i <= n /\ x[j] = bs[i]
  /\ \A i \in DOMAIN bs : i \in is /\ i <= n => \E j \in DOMAIN x : x[j] = bs[i]

LEMMA TakenNone ==
  ASSUME NEW S, NEW bs \in Seq(S), NEW is
  PROVE  << >> \in Seq(S) /\ Taken(<< >>, bs, is, 0)
<1>1. << >> \in Seq(S) /\ DOMAIN << >> = {}
  BY EmptySeq
<1>2. \A i \in DOMAIN bs : ~(i <= 0)
  OBVIOUS
<1> QED BY <1>1, <1>2 DEF Taken

LEMMA TakenOne ==
  ASSUME NEW S, NEW bs \in Seq(S), NEW is, NEW x \in Seq(S), NEW n \in 1..Len(bs),
         Taken(x, bs, is, n - 1)
  PROVE  LET y == IF n \in is THEN Append(x, bs[n]) ELSE x
         IN  y \in Seq(S) /\ Taken(y, bs, is, n)
<1>1. n \in DOMAIN bs /\ bs[n] \in S
  OBVIOUS
<1>2. \A i \in DOMAIN bs : i <= n <=> i <= n - 1 \/ i = n
  OBVIOUS
<1>3. CASE n \notin is
  BY <1>2, <1>3 DEF Taken
<1>4. CASE n \in is
  <2>1. PICK y : y = Append(x, bs[n])
    OBVIOUS
  <2>2. y \in Seq(S) /\ \A j \in DOMAIN y : (j \in DOMAIN x /\ y[j] = x[j]) \/ y[j] = bs[n]
    BY <1>1, <2>1
  <2>3. (\A j \in DOMAIN x : j \in DOMAIN y /\ y[j] = x[j]) /\ \E j \in DOMAIN y : y[j] = bs[n]
    <3>1. Len(x) + 1 \in DOMAIN y /\ y[Len(x) + 1] = bs[n]
      BY <1>1, <2>1
    <3>2. \A j \in DOMAIN x : j \in DOMAIN y /\ y[j] = x[j]
      BY <1>1, <2>1
    <3> QED BY <3>1, <3>2
  <2>4. \A j \in DOMAIN y : \E i \in DOMAIN bs : i \in is /\ i <= n /\ y[j] = bs[i]
    <3> SUFFICES ASSUME NEW j \in DOMAIN y
                 PROVE  \E i \in DOMAIN bs : i \in is /\ i <= n /\ y[j] = bs[i]
      OBVIOUS
    <3>1. CASE j \in DOMAIN x /\ y[j] = x[j]
      BY <1>2, <3>1 DEF Taken
    <3>2. CASE y[j] = bs[n]
      BY <1>1, <1>2, <1>4, <3>2
    <3> QED BY <2>2, <3>1, <3>2
  <2>5. \A i \in DOMAIN bs : i \in is /\ i <= n => \E j \in DOMAIN y : y[j] = bs[i]
    <3> SUFFICES ASSUME NEW i \in DOMAIN bs, i \in is, i <= n
                 PROVE  \E j \in DOMAIN y : y[j] = bs[i]
      OBVIOUS
    <3>1. CASE i = n
      BY <2>3, <3>1
    <3>2. CASE i <= n - 1
      <4>1. PICK j \in DOMAIN x : x[j] = bs[i]
        BY <3>2 DEF Taken
      <4> QED BY <2>3, <4>1
    <3> QED BY <1>2, <3>1, <3>2
  <2> QED BY <1>4, <2>1, <2>2, <2>4, <2>5 DEF Taken
<1> QED BY <1>3, <1>4

\* Those is a recursive function: it is there (First), and it is the only one.
LEMMA ThoseIs ==
  ASSUME NEW S, NEW bs \in Seq(S), NEW is
  PROVE  Those(bs, is) \in Seq(S) /\ Taken(Those(bs, is), bs, is, Len(bs))
<1> DEFINE Next1(x, n) == IF n \in is THEN Append(x, bs[n]) ELSE x
           First(n, f) == /\ f \in [0..n -> Seq(S)] /\ f[0] = << >>
                          /\ \A k \in 1..n : f[k] = Next1(f[k - 1], k)
           T == {n \in Nat : n <= Len(bs) => \E f : First(n, f)}
<1>0. Len(bs) \in Nat /\ << >> \in Seq(S)
  OBVIOUS
<1>1. 0 \in T
  <2>1. First(0, [k \in 0..0 |-> << >>])
    BY <1>0
  <2> QED BY <2>1
<1>2. ASSUME NEW n \in Nat, n \in T PROVE n + 1 \in T
  <2> HIDE DEF First
  <2> SUFFICES ASSUME n + 1 <= Len(bs) PROVE \E f : First(n + 1, f)
    OBVIOUS
  <2>0. PICK f : First(n, f)
    BY <1>2
  <2> USE DEF First
  <2>1. f \in [0..n -> Seq(S)] /\ f[0] = << >> /\ \A k \in 1..n : f[k] = Next1(f[k - 1], k)
    BY <2>0
  <2> HIDE DEF First
  <2>2. PICK e \in Seq(S) : e = Next1(f[n], n + 1)
    <3>1. f[n] \in Seq(S) /\ bs[n + 1] \in S
      BY <2>1
    <3>2. Append(f[n], bs[n + 1]) \in Seq(S)
      BY <3>1
    <3>3. CASE n + 1 \in is
      BY <3>2, <3>3
    <3>4. CASE n + 1 \notin is
      BY <3>1, <3>4
    <3> QED BY <3>3, <3>4
  <2> HIDE DEF Next1
  <2> DEFINE g == [k \in 0..(n + 1) |-> IF k = n + 1 THEN e ELSE f[k]]
  <2>4. g \in [0..(n + 1) -> Seq(S)] /\ g[0] = << >>
    BY <2>1
  <2>5. ASSUME NEW k \in 1..(n + 1) PROVE g[k] = Next1(g[k - 1], k)
    <3>1. CASE k = n + 1
      <4>1. g[k] = e /\ g[k - 1] = f[n]
        BY <3>1
      <4> HIDE DEF g
      <4> QED BY <2>2, <3>1, <4>1
    <3>2. CASE k # n + 1
      <4>1. k \in 1..n /\ g[k] = f[k] /\ g[k - 1] = f[k - 1]
        BY <3>2
      <4> HIDE DEF g
      <4> QED BY <2>1, <4>1
    <3> QED BY <3>1, <3>2
  <2> HIDE DEF g
  <2> QED BY <2>4, <2>5 DEF First
<1> HIDE DEF T
<1>3. \A n \in Nat : n \in T
  BY <1>1, <1>2, Induct
<1> HIDE DEF First
<1>4. PICK f : First(Len(bs), f)
  BY <1>0, <1>3 DEF T
<1> DEFINE Eq(h) == h = [k \in 0..Len(bs) |-> IF k = 0 THEN << >>
                                              ELSE IF k \in is THEN Append(h[k - 1], bs[k])
                                              ELSE h[k - 1]]
           acc == CHOOSE h : Eq(h)
<1>5. Eq(f)
  <2>1. f \in [0..Len(bs) -> Seq(S)] /\ f[0] = << >>
        /\ \A k \in 1..Len(bs) : f[k] = Next1(f[k - 1], k)
    BY <1>4 DEF First
  <2>2. \A k \in 0..Len(bs) : f[k] = IF k = 0 THEN << >>
                                     ELSE IF k \in is THEN Append(f[k - 1], bs[k])
                                     ELSE f[k - 1]
    <3> SUFFICES ASSUME NEW k \in 0..Len(bs)
                 PROVE  f[k] = IF k = 0 THEN << >> ELSE Next1(f[k - 1], k)
      OBVIOUS
    <3> HIDE DEF Next1
    <3>1. k = 0 \/ (k \in 1..Len(bs) /\ k # 0)
      BY <1>0
    <3> QED BY <2>1, <3>1
  <2> QED BY <2>1, <2>2
<1>6. Eq(acc)
  BY <1>5
<1>7. Those(bs, is) = acc[Len(bs)]
  BY DEF Those
<1> HIDE DEF acc
<1>8. acc[0] = << >> /\ \A k \in 1..Len(bs) : acc[k] = Next1(acc[k - 1], k)
  <2>1. \A k \in 0..Len(bs) : acc[k] = IF k = 0 THEN << >> ELSE Next1(acc[k - 1], k)
    BY <1>6
  <2> HIDE DEF Next1
  <2>2. 0 \in 0..Len(bs) /\ \A k \in 1..Len(bs) : k \in 0..Len(bs) /\ k # 0
    BY <1>0
  <2> QED BY <2>1, <2>2
<1> DEFINE U == {n \in Nat : n <= Len(bs) => acc[n] \in Seq(S) /\ Taken(acc[n], bs, is, n)}
<1>9. 0 \in U
  BY <1>8, TakenNone
<1>10. ASSUME NEW n \in Nat, n \in U PROVE n + 1 \in U
  <2> SUFFICES ASSUME n + 1 <= Len(bs)
               PROVE  acc[n + 1] \in Seq(S) /\ Taken(acc[n + 1], bs, is, n + 1)
    OBVIOUS
  <2>1. n + 1 \in 1..Len(bs) /\ (n + 1) - 1 = n
    BY <1>0
  <2>2. acc[n] \in Seq(S) /\ Taken(acc[n], bs, is, (n + 1) - 1)
    BY <1>0, <1>10, <2>1
  <2>3. acc[n + 1] = Next1(acc[n], n + 1)
    BY <1>8, <2>1
  <2> QED BY <2>1, <2>2, <2>3, TakenOne
<1> HIDE DEF U
<1>11. \A n \in Nat : n \in U
  BY <1>9, <1>10, Induct
<1> QED BY <1>0, <1>7, <1>11 DEF U

-----------------------------------------------------------------------------
(* Finite sets *)

LEMMA ImageFinite ==
  ASSUME NEW S, IsFiniteSet(S), NEW f
  PROVE  IsFiniteSet({f[x] : x \in S})
<1> DEFINE T == {f[x] : x \in S}
           g == [x \in S |-> f[x]]
<1>1. g \in Surjection(S, T)
  BY DEF Surjection
<1> HIDE DEF g, T
<1>2. IsFiniteSet(T)
  BY <1>1, FS_Surjection
<1> QED BY <1>2 DEF T

\* A listing of a finite set has all of it.
LEMMA ListingAll ==
  ASSUME NEW S, IsFiniteSet(S), NEW s \in SetToSeqs(S)
  PROVE  s \in Seq(S) /\ \A x \in S : \E i \in DOMAIN s : s[i] = x
<1> DEFINE n == Cardinality(S)
           D == 1..n
<1>1. n \in Nat
  BY FS_CardinalityType
<1>2. s \in [D -> S] /\ \A i, j \in D : i # j => s[i] # s[j]
  BY DEF SetToSeqs
<1>3. s \in Injection(D, S)
  BY <1>2 DEF Injection, IsInjective
<1>4. IsFiniteSet(D) /\ Cardinality(D) = n
  <2>1. 1 \in Int /\ n \in Int
    BY <1>1
  <2>2. IsFiniteSet(1..n) /\ Cardinality(1..n) = IF 1 > n THEN 0 ELSE n - 1 + 1
    BY <2>1, FS_Interval
  <2> QED BY <1>1, <2>2
<1>5. s \in Surjection(D, S)
  <2> HIDE DEF D
  <2> QED BY <1>3, <1>4, FS_Injection
<1>6. s \in Seq(S)
  BY <1>1, <1>2
<1> QED BY <1>2, <1>5, <1>6 DEF Surjection

-----------------------------------------------------------------------------
(* Types *)

BanSet == {b \in [type : Types, mask : Nets \cup Names, ttl : Perm..Life, db : BOOLEAN] :
             b.mask \in IF b.type \in Lines THEN Nets ELSE Names}
RecordSet == {r \in [type : Types, mask : Nets \cup Names, ttl : Perm..Life] :
                r.mask \in IF r.type \in Lines THEN Nets ELSE Names}
Polls == {v \in [votes : Seq(Opers), age : Nat] : Len(v.votes) <= 2}
ClientSet == [stage : {"free", "unknown", "client"}, ip : Ips \cup {0},
              name : Names \cup {0}, exempt : Exemptions \cup {{}}]

Tables == bans \in Seq(BanSet) /\ conf \in Files
          /\ pending \in [Kinds -> [Nets -> Polls]]
Stored == disk \subseteq RecordSet /\ IsFiniteSet(disk) /\ gone \subseteq RecordSet
Seen == client \in [Clients -> ClientSet]

\* What a ban is, however old it is
Within(x, y) ==
  \A i \in DOMAIN x : \E j \in DOMAIN y : x[i].type = y[j].type /\ x[i].mask = y[j].mask

\* No ban of bs hits d that d is not exempt from; of G-lines the exempt addresses of a
\* file spare nobody.
Sound(bs, f, d) ==
  d.stage # "free" =>
    /\ ~Exempt(f, d.ip) => ~Hit(bs, d, "D")
    /\ d.stage = "client" /\ d.exempt = {} =>
         /\ ~Hit(bs, d, "G")
         /\ ~Exempt(f, d.ip) => ~Hit(bs, d, "K") /\ ~Hit(bs, d, "X")
AllSound == \A c \in Clients : Sound(bans, conf, client[c])

\* A ban of bs with what the file of the database says
Holds(bs, r) == \E i \in DOMAIN bs : bs[i].db /\ Record(bs[i]) = r

BansInv == Tables /\ Stored /\ Seen /\ AllSound /\ LinesKept

LEMMA HitWithin ==
  ASSUME NEW x, NEW y, NEW d, NEW t, Within(x, y), Hit(x, d, t)
  PROVE  Hit(y, d, t)
BY DEF Within, Hit

LEMMA SoundWithin ==
  ASSUME NEW x, NEW y, NEW f, NEW d, Within(x, y), Sound(y, f, d)
  PROVE  Sound(x, f, d)
BY HitWithin DEF Sound

LEMMA NoClientSound ==
  ASSUME NEW bs, NEW f PROVE Sound(bs, f, NoClient)
BY DEF Sound, NoClient

LEMMA HoldsAre ==
  ASSUME NEW b \in BanSet
  PROVE  /\ Record(b) \in RecordSet /\ Record(b).type = b.type
         /\ Record(b) = [type |-> b.type, mask |-> b.mask, ttl |-> b.ttl]
BY DEF BanSet, RecordSet, Record

LEMMA BanIs ==
  ASSUME NEW t \in Types, NEW m, m \in IF t \in Lines THEN Nets ELSE Names,
         NEW n \in Perm..Life, NEW b \in BOOLEAN
  PROVE  Ban(t, m, n, b) \in BanSet
BY DEF BanSet, Ban

LEMMA PermIs == Perm \in Perm..Life /\ Life \in Perm..Life /\ Lives \subseteq Perm..Life
BY BansConstants DEF Perm

LEMMA Kept1 ==
  LinesKept <=> \A r \in disk : r.type \in Lines => Holds(bans, r) \/ r \in gone
BY DEF LinesKept, KeptIn, Holds

LEMMA FiledIs ==
  ASSUME NEW f \in Files
  PROVE  /\ Filed(f) \in Seq(BanSet)
         /\ \A i \in DOMAIN Filed(f) : Filed(f)[i].type # "G"
<1>1. PICK S : S = ({"K", "D"} \X Nets) \cup ({"X", "R"} \X Names)
  OBVIOUS
<1>2. f.bans \in Seq(S)
  BY <1>1, BansConstants
<1>3. ASSUME NEW i \in DOMAIN f.bans
      PROVE  /\ Ban(f.bans[i][1], f.bans[i][2], Perm, FALSE) \in BanSet
             /\ Ban(f.bans[i][1], f.bans[i][2], Perm, FALSE).type # "G"
  <2>1. PICK p \in S : p = f.bans[i]
    BY <1>2, <1>3
  <2>2. /\ p[1] \in Types /\ p[1] # "G"
        /\ p[2] \in IF p[1] \in Lines THEN Nets ELSE Names
    BY <1>1, <2>1 DEF Types, Lines
  <2>3. Ban(p[1], p[2], Perm, FALSE) \in BanSet
    BY <2>2, PermIs, BanIs
  <2> QED BY <2>1, <2>2, <2>3 DEF Ban
<1>4. Filed(f) = [i \in 1..Len(f.bans) |-> Ban(f.bans[i][1], f.bans[i][2], Perm, FALSE)]
  BY <1>2 DEF Filed
<1>5. Len(f.bans) \in Nat /\ DOMAIN f.bans = 1..Len(f.bans)
  BY <1>2
<1>6. Filed(f) \in [1..Len(f.bans) -> BanSet]
  BY <1>3, <1>4, <1>5
<1>7. Filed(f) \in Seq(BanSet)
  BY <1>5, <1>6, SeqDef
<1> QED BY <1>3, <1>4, <1>5, <1>7

LEMMA InitBans == BansInit => BansInv
<1> SUFFICES ASSUME BansInit PROVE BansInv
  OBVIOUS
<1>1. Seen /\ AllSound
  <2>1. NoClient \in ClientSet
    BY DEF NoClient, ClientSet
  <2>2. client = [c \in Clients |-> NoClient]
    BY DEF BansInit
  <2> QED BY <2>1, <2>2, NoClientSound DEF Seen, AllSound
<1>2. Tables
  <2>1. NoVotes \in Polls
    BY DEF NoVotes, Polls
  <2> QED BY <2>1, FiledIs DEF Tables, BansInit
<1>3. Stored /\ LinesKept
  BY FS_EmptySet DEF BansInit, Stored, LinesKept, KeptIn
<1> QED BY <1>1, <1>2, <1>3 DEF BansInv

-----------------------------------------------------------------------------
(* Clients *)

LEMMA OneClient ==
  ASSUME BansInv, UNCHANGED <<bans, pending, conf, disk, gone>>, NEW c \in Clients,
         NEW d \in ClientSet, client' = [client EXCEPT ![c] = d], Sound(bans, conf, d)
  PROVE  BansInv'
<1>1. Tables' /\ Stored' /\ LinesKept'
  BY DEF BansInv, Tables, Stored, LinesKept, KeptIn
<1>2. Seen'
  BY DEF BansInv, Seen
<1>3. \A e \in Clients : client'[e] = IF e = c THEN d ELSE client[e]
  BY DEF BansInv, Seen
<1>4. AllSound'
  BY <1>3 DEF BansInv, AllSound
<1> QED BY <1>1, <1>2, <1>4 DEF BansInv

LEMMA AcceptInv ==
  ASSUME BansInv, NEW c \in Clients, NEW a \in Ips, Accept(c, a)
  PROVE  BansInv'
<1>1. PICK d : d = [NoClient EXCEPT !.stage = "unknown", !.ip = a]
  OBVIOUS
<1>2. d \in ClientSet /\ d.stage = "unknown" /\ d.ip = a
  BY <1>1 DEF NoClient, ClientSet
<1>3. client' = [client EXCEPT ![c] = d] /\ UNCHANGED <<bans, pending, conf, disk, gone>>
      /\ (Exempt(conf, a) \/ Found("D", a) = {})
  BY <1>1 DEF Accept
<1>4. Sound(bans, conf, d)
  BY <1>2, <1>3 DEF Sound, Hit, Found
<1> QED BY <1>2, <1>3, <1>4, OneClient

LEMMA RegisterInv ==
  ASSUME BansInv, NEW c \in Clients, NEW n \in Names, NEW ex \in Exemptions,
         Register(c, n, ex)
  PROVE  BansInv'
<1>1. PICK me : me = [client[c] EXCEPT !.stage = "client", !.name = n, !.exempt = ex]
  OBVIOUS
<1>2. client[c] \in ClientSet /\ Sound(bans, conf, client[c])
  BY DEF BansInv, Seen, AllSound
<1>3. me \in ClientSet /\ me.stage = "client" /\ me.exempt = ex /\ me.ip = client[c].ip
  BY <1>1, <1>2 DEF ClientSet
<1>4. PICK d : /\ client' = [client EXCEPT ![c] = d]
               /\ d = IF \/ Hit(bans, me, "X")
                         \/ Hit(bans, me, "K") /\ "K" \notin ex
                         \/ Hit(bans, me, "G") /\ ex = {}
                      THEN NoClient ELSE me
  BY <1>1 DEF Register
<1>5. client[c].stage = "unknown" /\ UNCHANGED <<bans, pending, conf, disk, gone>>
  BY DEF Register
<1>6. d \in ClientSet
  BY <1>3, <1>4 DEF NoClient, ClientSet
<1>7. Sound(bans, conf, d)
  <2>1. CASE d = NoClient
    BY <2>1, NoClientSound
  <2>2. CASE d = me /\ ~Hit(bans, me, "X") /\ ~(Hit(bans, me, "K") /\ "K" \notin ex)
             /\ ~(Hit(bans, me, "G") /\ ex = {})
    <3>1. ~Exempt(conf, me.ip) => ~Hit(bans, me, "D")
      BY <1>2, <1>3, <1>5 DEF Sound, Hit
    <3> QED BY <1>3, <2>2, <3>1 DEF Sound
  <2> QED BY <1>4, <2>1, <2>2
<1> QED BY <1>4, <1>5, <1>6, <1>7, OneClient

LEMMA LeaveInv ==
  ASSUME BansInv, NEW c \in Clients, Leave(c)
  PROVE  BansInv'
<1>1. NoClient \in ClientSet
  BY DEF NoClient, ClientSet
<1> QED BY <1>1, NoClientSound, OneClient DEF Leave

-----------------------------------------------------------------------------
(* Bans placed *)

LEMMA AppendBan ==
  ASSUME NEW bs \in Seq(BanSet), NEW b \in BanSet
  PROVE  /\ Append(bs, b) \in Seq(BanSet)
         /\ \A d, t : Hit(Append(bs, b), d, t) => Hit(bs, d, t) \/ (b.type = t /\ Hit(<<b>>, d, t))
         /\ \A r : Holds(bs, r) => Holds(Append(bs, b), r)
<1>1. PICK x : x = Append(bs, b)
  OBVIOUS
<1>2. x \in Seq(BanSet) /\ (\A i \in DOMAIN x : x[i] = b \/ (i \in DOMAIN bs /\ x[i] = bs[i]))
      /\ \A i \in DOMAIN bs : i \in DOMAIN x /\ x[i] = bs[i]
  BY <1>1
<1>3. 1 \in DOMAIN <<b>> /\ <<b>>[1] = b
  OBVIOUS
<1>4. ASSUME NEW d, NEW t, Hit(x, d, t)
      PROVE  Hit(bs, d, t) \/ (b.type = t /\ Hit(<<b>>, d, t))
  <2>1. PICK i \in DOMAIN x : /\ x[i].type = t
                              /\ IF t = "X" THEN x[i].mask = d.name ELSE Covers(x[i].mask, d.ip)
    BY <1>4 DEF Hit
  <2>2. CASE i \in DOMAIN bs /\ x[i] = bs[i]
    BY <2>1, <2>2 DEF Hit
  <2>3. CASE x[i] = b
    BY <1>3, <2>1, <2>3 DEF Hit
  <2> QED BY <1>2, <2>2, <2>3
<1>5. \A r : Holds(bs, r) => Holds(x, r)
  BY <1>2 DEF Holds
<1> QED BY <1>1, <1>2, <1>4, <1>5

\* Whoever a new ban hits leaves, but for who is spared.
LEMMA AddInv ==
  ASSUME BansInv, NEW b \in BanSet, Add(b), UNCHANGED <<conf, disk, gone>>,
         pending' \in [Kinds -> [Nets -> Polls]]
  PROVE  BansInv'
<1>1. bans' = Append(bans, b) /\ client' = Struck(b) /\ bans \in Seq(BanSet)
  BY DEF Add, BansInv, Tables
<1>2. Tables' /\ Stored'
  BY <1>1, AppendBan DEF BansInv, Tables, Stored
<1>3. LinesKept'
  <2>1. \A r \in disk : r.type \in Lines => Holds(bans, r) \/ r \in gone
    BY Kept1 DEF BansInv
  <2>2. \A r \in disk : r.type \in Lines => Holds(bans', r) \/ r \in gone
    BY <1>1, <2>1, AppendBan
  <2> QED BY <2>2 DEF LinesKept, KeptIn, Holds
<1>4. ASSUME NEW c \in Clients
      PROVE  /\ client'[c] \in ClientSet
             /\ \/ client'[c] = NoClient
                \/ /\ client'[c] = client[c] /\ Sound(bans, conf, client[c])
                   /\ client[c] \in ClientSet
                   /\ ~(/\ Sees(b.type, client[c]) /\ Hit(<<b>>, client[c], b.type)
                        /\ ~Spared(conf, client[c], b.type))
  <2>1. NoClient \in ClientSet
    BY DEF NoClient, ClientSet
  <2> QED BY <1>1, <2>1 DEF Struck, BansInv, Seen, AllSound
<1>5. Seen'
  <2>1. DOMAIN client' = Clients /\ client' = [c \in Clients |-> client'[c]]
    BY <1>1 DEF Struck
  <2> QED BY <1>4, <2>1 DEF Seen
<1>6. ASSUME NEW c \in Clients PROVE Sound(bans', conf', client'[c])
  <2>1. CASE client'[c] = NoClient
    BY <2>1, NoClientSound
  <2>2. CASE client'[c] = client[c] /\ client'[c] # NoClient
    <3>1. PICK d : d = client[c]
      OBVIOUS
    <3>2. /\ Sound(bans, conf, d) /\ d \in ClientSet
          /\ ~(Sees(b.type, d) /\ Hit(<<b>>, d, b.type) /\ ~Spared(conf, d, b.type))
      BY <1>4, <2>2, <3>1
    <3>3. \A t : Hit(bans', d, t) => Hit(bans, d, t) \/ (b.type = t /\ Hit(<<b>>, d, t))
      BY <1>1, AppendBan
    <3>4. ASSUME d.stage # "free", ~Exempt(conf, d.ip) PROVE ~Hit(bans', d, "D")
      <4>1. ~Hit(bans, d, "D") /\ d.stage \in {"client", "unknown"}
        BY <3>2, <3>4 DEF Sound, ClientSet
      <4>2. Sees("D", d) /\ ~Spared(conf, d, "D")
        BY <3>4, <4>1 DEF Sees, Spared
      <4> QED BY <3>2, <3>3, <4>1, <4>2
    <3>5. ASSUME d.stage = "client", d.exempt = {} PROVE ~Hit(bans', d, "G")
      <4>1. ~Hit(bans, d, "G")
        BY <3>2, <3>5 DEF Sound
      <4>2. Sees("G", d) /\ ~Spared(conf, d, "G")
        BY <3>5 DEF Sees, Spared
      <4> QED BY <3>2, <3>3, <4>1, <4>2
    <3>6. ASSUME d.stage = "client", d.exempt = {}, ~Exempt(conf, d.ip), NEW t \in {"K", "X"}
          PROVE  ~Hit(bans', d, t)
      <4>1. ~Hit(bans, d, t)
        BY <3>2, <3>6 DEF Sound
      <4>2. Sees(t, d) /\ ~Spared(conf, d, t)
        BY <3>6 DEF Sees, Spared
      <4> QED BY <3>2, <3>3, <4>1, <4>2
    <3>7. Sound(bans', conf, d)
      BY <3>4, <3>5, <3>6 DEF Sound
    <3> QED BY <2>2, <3>1, <3>7
  <2> QED BY <1>4, <2>1, <2>2
<1>7. AllSound'
  BY <1>6 DEF AllSound
<1> QED BY <1>2, <1>3, <1>5, <1>7 DEF BansInv

LEMMA KlineInv ==
  ASSUME BansInv, NEW m \in Nets, NEW ttl \in Lives, Kline(m, ttl)
  PROVE  BansInv'
<1>1. Ban("K", m, ttl, TRUE) \in BanSet
  BY PermIs, BanIs DEF Types, Lines
<1> QED BY <1>1, AddInv DEF Kline, BansInv, Tables

LEMMA DlineInv ==
  ASSUME BansInv, NEW m \in Nets, NEW ttl \in Lives, Dline(m, ttl)
  PROVE  BansInv'
<1>1. Ban("D", m, ttl, TRUE) \in BanSet
  BY PermIs, BanIs DEF Types, Lines
<1> QED BY <1>1, AddInv DEF Dline, BansInv, Tables

LEMMA XlineInv ==
  ASSUME BansInv, NEW n \in Names, NEW ttl \in Lives, NEW remote \in BOOLEAN,
         Xline(n, ttl, remote)
  PROVE  BansInv'
<1>1. PICK l \in Perm..Life : l = IF remote THEN Perm ELSE ttl
  BY PermIs
<1>2. Ban("X", n, l, TRUE) \in BanSet
  BY BanIs DEF Types, Lines
<1> QED BY <1>1, <1>2, AddInv DEF Xline, BansInv, Tables

\* A RESV hits no client.
LEMMA ResvInv ==
  ASSUME BansInv, NEW n \in Names, NEW ttl \in Lives, Resv(n, ttl)
  PROVE  BansInv'
<1>1. PICK b \in BanSet : b = Ban("R", n, ttl, TRUE)
  BY PermIs, BanIs DEF Types, Lines
<1>2. bans' = Append(bans, b) /\ bans \in Seq(BanSet) /\ b.type = "R"
      /\ UNCHANGED <<client, pending, conf, disk, gone>>
  BY <1>1 DEF Resv, BansInv, Tables, Ban
<1>3. Tables' /\ Stored' /\ Seen'
  BY <1>2, AppendBan DEF BansInv, Tables, Stored, Seen
<1>4. LinesKept'
  <2>1. \A r \in disk : r.type \in Lines => Holds(bans', r) \/ r \in gone
    BY <1>2, AppendBan, Kept1 DEF BansInv
  <2> QED BY <1>2, <2>1 DEF LinesKept, KeptIn, Holds
<1>5. \A d : \A t \in {"D", "G", "K", "X"} : Hit(bans', d, t) => Hit(bans, d, t)
  BY <1>2, AppendBan
<1>6. AllSound'
  BY <1>2, <1>5 DEF BansInv, AllSound, Sound
<1> QED BY <1>3, <1>4, <1>6 DEF BansInv

-----------------------------------------------------------------------------
(* Bans taken back *)

LEMMA ThoseWithin ==
  ASSUME NEW bs \in Seq(BanSet), NEW is
  PROVE  /\ Those(bs, is) \in Seq(BanSet) /\ Within(Those(bs, is), bs)
         /\ \A i \in DOMAIN bs : i \in is => \E j \in DOMAIN Those(bs, is) : Those(bs, is)[j] = bs[i]
<1>1. PICK x : x = Those(bs, is)
  OBVIOUS
<1>2. x \in Seq(BanSet) /\ Taken(x, bs, is, Len(bs))
  BY <1>1, ThoseIs
<1>3. \A i \in DOMAIN bs : i <= Len(bs)
  OBVIOUS
<1> QED BY <1>1, <1>2, <1>3 DEF Taken, Within

\* What of the disk goes is gone.
LEMMA FewerInv ==
  ASSUME BansInv, NEW is, bans' = Those(bans, is), UNCHANGED <<client, conf, disk>>,
         pending' \in [Kinds -> [Nets -> Polls]], gone \subseteq gone', gone' \subseteq RecordSet,
         \A i \in DOMAIN bans \ is : Record(bans[i]) \in disk => Record(bans[i]) \in gone'
  PROVE  BansInv'
<1>1. /\ bans' \in Seq(BanSet) /\ Within(bans', bans)
      /\ \A i \in DOMAIN bans : i \in is => \E j \in DOMAIN bans' : bans'[j] = bans[i]
  BY ThoseWithin DEF BansInv, Tables
<1>2. Tables' /\ Stored' /\ Seen'
  BY <1>1 DEF BansInv, Tables, Stored, Seen
<1>3. AllSound'
  BY <1>1, SoundWithin DEF BansInv, AllSound
<1>4. ASSUME NEW r \in disk, r.type \in Lines PROVE Holds(bans', r) \/ r \in gone'
  <2>1. CASE r \in gone
    BY <2>1
  <2>2. CASE Holds(bans, r)
    <3>1. PICK i \in DOMAIN bans : bans[i].db /\ Record(bans[i]) = r
      BY <2>2 DEF Holds
    <3>2. CASE i \in is
      <4>1. PICK j \in DOMAIN bans' : bans'[j] = bans[i]
        BY <1>1, <3>2
      <4>2. bans'[j].db /\ Record(bans'[j]) = r
        BY <3>1, <4>1
      <4>3. Holds(bans', r)
        BY <4>2 DEF Holds
      <4> QED BY <4>3
    <3>3. CASE i \notin is
      BY <3>1, <3>3
    <3> QED BY <3>2, <3>3
  <2> QED BY <1>4, <2>1, <2>2, Kept1 DEF BansInv
<1>5. LinesKept'
  BY <1>4 DEF LinesKept, KeptIn, Holds
<1> QED BY <1>2, <1>3, <1>5 DEF BansInv

LEMMA LiftInv ==
  ASSUME BansInv, NEW i \in DOMAIN bans, Lift(i), UNCHANGED <<client, conf, disk>>,
         pending' \in [Kinds -> [Nets -> Polls]]
  PROVE  BansInv'
<1>1. Record(bans[i]) \in RecordSet
  BY HoldsAre DEF BansInv, Tables
<1>2. gone \subseteq gone' /\ gone' \subseteq RecordSet
  BY <1>1 DEF Lift, BansInv, Stored
<1>3. \A j \in DOMAIN bans \ (DOMAIN bans \ {i}) :
        Record(bans[j]) \in disk => Record(bans[j]) \in gone'
  BY DEF Lift
<1>4. bans' = Those(bans, DOMAIN bans \ {i})
  BY DEF Lift
<1> QED BY <1>2, <1>3, <1>4, FewerInv

LEMMA PendingInv ==
  ASSUME BansInv, UNCHANGED <<client, bans, conf, disk, gone>>,
         pending' \in [Kinds -> [Nets -> Polls]]
  PROVE  BansInv'
BY DEF BansInv, Tables, Stored, Seen, AllSound, LinesKept, KeptIn

LEMMA LeastIs ==
  ASSUME NEW is \in SUBSET Nat, is # {}
  PROVE  Best(is) \in is /\ \A j \in is : Best(is) <= j
BY LeastOf DEF Best

LEMMA UnlineInv ==
  ASSUME BansInv, NEW t, NEW m, Unline(t, m), UNCHANGED <<client, conf, disk>>,
         pending' \in [Kinds -> [Nets -> Polls]]
  PROVE  BansInv'
<1>1. PICK i : i = Best(Found(t, m[1]))
  OBVIOUS
<1>2. CASE Found(t, m[1]) # {} /\ bans[i].db /\ Chain(bans[i].mask) = Chain(m)
  <2>1. Found(t, m[1]) \subseteq DOMAIN bans /\ DOMAIN bans \subseteq Nat
    BY DEF Found, BansInv, Tables
  <2>2. i \in DOMAIN bans
    BY <1>1, <1>2, <2>1, LeastIs
  <2>3. Lift(i)
    BY <1>1, <1>2 DEF Unline
  <2> QED BY <2>2, <2>3, LiftInv
<1>3. CASE ~(Found(t, m[1]) # {} /\ bans[i].db /\ Chain(bans[i].mask) = Chain(m))
  <2>1. UNCHANGED <<bans, gone>>
    BY <1>1, <1>3 DEF Unline
  <2> QED BY <2>1, PendingInv
<1> QED BY <1>2, <1>3

LEMMA UnnameInv ==
  ASSUME BansInv, NEW n, UnXline(n) \/ UnResv(n)
  PROVE  BansInv'
<1>1. PICK i : i \in DOMAIN bans /\ Lift(i) /\ UNCHANGED <<client, pending, conf, disk>>
  BY DEF UnXline, UnResv, Named
<1>2. pending' \in [Kinds -> [Nets -> Polls]]
  BY <1>1 DEF BansInv, Tables
<1> QED BY <1>1, <1>2, LiftInv

-----------------------------------------------------------------------------
(* Votes *)

LEMMA CurrentIs ==
  ASSUME NEW p \in [Kinds -> [Nets -> Polls]]
  PROVE  Current(p) \in [Kinds -> [Nets -> Polls]]
<1>1. NoVotes \in Polls
  BY DEF NoVotes, Polls
<1> QED BY <1>1 DEF Current

LEMMA VoteInv ==
  ASSUME BansInv, NEW kind \in Kinds, NEW m \in Nets, NEW o \in Opers, Vote(kind, m, o)
  PROVE  BansInv'
<1>1. PICK p : p = Current(pending)
  OBVIOUS
<1>2. PICK v : v = p[kind][m].votes
  OBVIOUS
<1>3. p \in [Kinds -> [Nets -> Polls]] /\ UNCHANGED <<conf, disk>>
  BY <1>1, CurrentIs DEF BansInv, Tables, Vote
<1>4. v \in Seq(Opers) /\ NoVotes \in Polls
  BY <1>2, <1>3 DEF NoVotes, Polls
<1>5. \A w \in Polls : [p EXCEPT ![kind][m] = w] \in [Kinds -> [Nets -> Polls]]
  BY <1>3
<1>6. \/ pending' = p /\ UNCHANGED <<client, bans, gone>>
      \/ /\ Len(v) < 2 /\ pending' = [p EXCEPT ![kind][m] = [votes |-> Append(v, o), age |-> 0]]
         /\ UNCHANGED <<client, bans, gone>>
      \/ /\ pending' = [p EXCEPT ![kind][m] = NoVotes]
         /\ Add(Ban("G", m, Life, TRUE)) /\ UNCHANGED gone
      \/ /\ pending' = [p EXCEPT ![kind][m] = NoVotes]
         /\ Unline("G", m) /\ UNCHANGED client
  BY <1>1, <1>2 DEF Vote
<1>7. CASE pending' = p /\ UNCHANGED <<client, bans, gone>>
  BY <1>3, <1>7, PendingInv
<1>8. CASE /\ Len(v) < 2 /\ pending' = [p EXCEPT ![kind][m] = [votes |-> Append(v, o), age |-> 0]]
           /\ UNCHANGED <<client, bans, gone>>
  <2>1. PICK u \in Seq(Opers) : u = Append(v, o) /\ Len(u) <= 2
    <3>1. Append(v, o) \in Seq(Opers) /\ Len(Append(v, o)) = Len(v) + 1 /\ Len(v) \in Nat
      BY <1>4
    <3>2. Len(Append(v, o)) <= 2
      BY <1>8, <3>1
    <3> QED BY <3>1, <3>2
  <2>2. [votes |-> u, age |-> 0] \in Polls
    BY <2>1 DEF Polls
  <2>3. pending' \in [Kinds -> [Nets -> Polls]]
    BY <1>5, <1>8, <2>1, <2>2
  <2> QED BY <1>3, <1>8, <2>3, PendingInv
<1>9. CASE /\ pending' = [p EXCEPT ![kind][m] = NoVotes]
           /\ Add(Ban("G", m, Life, TRUE)) /\ UNCHANGED gone
  <2>1. Ban("G", m, Life, TRUE) \in BanSet
    BY PermIs, BanIs DEF Types, Lines
  <2> QED BY <1>3, <1>4, <1>5, <1>9, <2>1, AddInv
<1>10. CASE /\ pending' = [p EXCEPT ![kind][m] = NoVotes]
            /\ Unline("G", m) /\ UNCHANGED client
  BY <1>3, <1>4, <1>5, <1>10, UnlineInv
<1> QED BY <1>6, <1>7, <1>8, <1>9, <1>10

-----------------------------------------------------------------------------
(* Time *)

LEMMA OlderIs ==
  ASSUME NEW b \in BanSet
  PROVE  /\ Older(b) \in BanSet /\ Older(b).type = b.type /\ Older(b).mask = b.mask
         /\ Older(b).db = b.db /\ Record(Older(b)) = Older(Record(b))
<1>1. PICK n : n = IF b.ttl > 0 THEN b.ttl - 1 ELSE b.ttl
  OBVIOUS
<1>2. n \in Perm..Life
  BY <1>1, BansConstants DEF BanSet, Perm
<1>3. Older(b) = [b EXCEPT !.ttl = n]
  BY <1>1 DEF Older
<1>4. Record(b) = [type |-> b.type, mask |-> b.mask, ttl |-> b.ttl]
  BY HoldsAre
<1>5. Older(Record(b)) = [type |-> b.type, mask |-> b.mask, ttl |-> n]
  BY <1>1, <1>4 DEF Older
<1>6. Older(b) \in BanSet /\ Older(b).ttl = n /\ Older(b).type = b.type
      /\ Older(b).mask = b.mask /\ Older(b).db = b.db
  BY <1>2, <1>3 DEF BanSet
<1> QED BY <1>5, <1>6, HoldsAre

LEMMA OlderRecord ==
  ASSUME NEW r \in RecordSet
  PROVE  Older(r) \in RecordSet /\ Older(r).type = r.type
<1>1. PICK n : n = IF r.ttl > 0 THEN r.ttl - 1 ELSE r.ttl
  OBVIOUS
<1>2. n \in Perm..Life
  BY <1>1, BansConstants DEF RecordSet, Perm
<1>3. Older(r) = [r EXCEPT !.ttl = n]
  BY <1>1 DEF Older
<1> QED BY <1>2, <1>3 DEF RecordSet

LEMMA TickInv == ASSUME BansInv, Tick PROVE BansInv'
<1>1. /\ bans' = [i \in DOMAIN bans |-> Older(bans[i])] /\ bans \in Seq(BanSet)
      /\ disk' = {Older(r) : r \in disk} /\ gone' = {Older(r) : r \in gone}
      /\ UNCHANGED <<client, conf>>
  BY DEF Tick, BansInv, Tables
<1>2. bans' \in Seq(BanSet)
  <2>1. \A i \in 1..Len(bans) : Older(bans[i]) \in BanSet
    BY <1>1, OlderIs
  <2>2. bans' = [i \in 1..Len(bans) |-> Older(bans[i])] /\ Len(bans) \in Nat
    BY <1>1
  <2> QED BY <2>1, <2>2
<1>3. Tables'
  <2>1. pending' \in [Kinds -> [Nets -> Polls]]
    <3>1. ASSUME NEW k \in Kinds, NEW m \in Nets
          PROVE  (IF pending[k][m].votes # << >> /\ pending[k][m].age < Request
                  THEN [pending[k][m] EXCEPT !.age = @ + 1] ELSE pending[k][m]) \in Polls
      <4>1. pending[k][m] \in Polls
        BY DEF BansInv, Tables
      <4>2. [pending[k][m] EXCEPT !.age = @ + 1] \in Polls
        BY <4>1 DEF Polls
      <4> QED BY <4>1, <4>2
    <3> QED BY <3>1 DEF Tick
  <2> QED BY <1>1, <1>2, <2>1 DEF BansInv, Tables
<1>4. Stored'
  <2>1. disk \subseteq RecordSet /\ IsFiniteSet(disk) /\ gone \subseteq RecordSet
    BY DEF BansInv, Stored
  <2>2. disk' \subseteq RecordSet /\ gone' \subseteq RecordSet
    BY <1>1, <2>1, OlderRecord
  <2> DEFINE f == [r \in disk |-> Older(r)]
  <2>3. disk' = {f[r] : r \in disk}
    BY <1>1
  <2> HIDE DEF f
  <2>4. IsFiniteSet(disk')
    BY <2>1, <2>3, ImageFinite
  <2> QED BY <2>2, <2>4 DEF Stored
<1>5. AllSound'
  <2>1. Within(bans', bans)
    <3>1. \A i \in DOMAIN bans : bans[i] \in BanSet
      BY <1>1
    <3>2. \A i \in DOMAIN bans : Older(bans[i]).type = bans[i].type
                                 /\ Older(bans[i]).mask = bans[i].mask
      BY <3>1, OlderIs
    <3> QED BY <1>1, <3>2 DEF Within
  <2> QED BY <1>1, <2>1, SoundWithin DEF BansInv, AllSound
<1>6. ASSUME NEW s \in disk', s.type \in Lines PROVE Holds(bans', s) \/ s \in gone'
  <2>1. PICK r \in disk : s = Older(r)
    BY <1>1
  <2>2. r.type \in Lines
    BY <1>6, <2>1, OlderRecord DEF BansInv, Stored
  <2>3. CASE r \in gone
    BY <1>1, <2>1, <2>3
  <2>4. CASE Holds(bans, r)
    <3>1. PICK i \in DOMAIN bans : bans[i].db /\ Record(bans[i]) = r
      BY <2>4 DEF Holds
    <3>2. bans[i] \in BanSet /\ i \in DOMAIN bans' /\ bans'[i] = Older(bans[i])
      BY <1>1, <3>1
    <3>3. bans'[i].db /\ Record(bans'[i]) = s
      BY <2>1, <3>1, <3>2, OlderIs
    <3>4. Holds(bans', s)
      BY <3>2, <3>3 DEF Holds
    <3> QED BY <3>4
  <2> QED BY <2>2, <2>3, <2>4, Kept1 DEF BansInv
<1>7. LinesKept'
  BY <1>6 DEF LinesKept, KeptIn, Holds
<1> QED BY <1>1, <1>3, <1>4, <1>5, <1>7 DEF BansInv, Seen

LEMMA CleanTklinesInv == ASSUME BansInv, CleanTklines PROVE BansInv'
<1>1. PICK is : is = {i \in DOMAIN bans : Live(bans[i])}
  OBVIOUS
<1>2. bans' = Those(bans, is) /\ UNCHANGED <<client, pending, conf, disk>>
      /\ gone' = gone \cup ({Record(bans[i]) : i \in {j \in DOMAIN bans : ~Live(bans[j])}} \cap disk)
  BY <1>1 DEF CleanTklines
<1>3. \A i \in DOMAIN bans \ is : Record(bans[i]) \in disk => Record(bans[i]) \in gone'
  BY <1>1, <1>2
<1>4. gone \subseteq gone' /\ gone' \subseteq RecordSet
  BY <1>2 DEF BansInv, Stored
<1>5. pending' \in [Kinds -> [Nets -> Polls]]
  BY <1>2 DEF BansInv, Tables
<1> QED BY <1>2, <1>3, <1>4, <1>5, FewerInv

LEMMA CleanGlinesInv == ASSUME BansInv, CleanGlines PROVE BansInv'
<1>1. pending' \in [Kinds -> [Nets -> Polls]]
  BY CurrentIs DEF CleanGlines, BansInv, Tables
<1> QED BY <1>1, PendingInv DEF CleanGlines

-----------------------------------------------------------------------------
(* Files *)

LEMMA JoinedBans ==
  ASSUME NEW x \in Seq(BanSet), NEW y \in Seq(BanSet)
  PROVE  /\ x \o y \in Seq(BanSet)
         /\ \A i \in DOMAIN (x \o y) : \/ \E j \in DOMAIN x : (x \o y)[i] = x[j]
                                       \/ \E j \in DOMAIN y : (x \o y)[i] = y[j]
         /\ \A j \in DOMAIN x : \E i \in DOMAIN (x \o y) : (x \o y)[i] = x[j]
         /\ \A j \in DOMAIN y : \E i \in DOMAIN (x \o y) : (x \o y)[i] = y[j]
<1>1. PICK z : z = x \o y
  OBVIOUS
<1>2. /\ z \in Seq(BanSet) /\ Len(x) \in Nat /\ Len(y) \in Nat /\ Len(z) = Len(x) + Len(y)
      /\ \A i \in 1..Len(x) : z[i] = x[i]
      /\ \A i \in (Len(x) + 1)..(Len(x) + Len(y)) : z[i] = y[i - Len(x)]
  BY <1>1
<1>3. ASSUME NEW i \in DOMAIN z
      PROVE  (\E j \in DOMAIN x : z[i] = x[j]) \/ (\E j \in DOMAIN y : z[i] = y[j])
  <2>1. CASE i <= Len(x)
    BY <1>2, <2>1
  <2>2. CASE ~(i <= Len(x))
    <3>1. i \in (Len(x) + 1)..(Len(x) + Len(y)) /\ i - Len(x) \in DOMAIN y
      BY <1>2, <2>2
    <3> QED BY <1>2, <3>1
  <2> QED BY <2>1, <2>2
<1>4. ASSUME NEW j \in DOMAIN x PROVE \E i \in DOMAIN z : z[i] = x[j]
  <2>1. j \in DOMAIN z
    BY <1>2
  <2> QED BY <1>2, <2>1
<1>5. ASSUME NEW j \in DOMAIN y PROVE \E i \in DOMAIN z : z[i] = y[j]
  <2>1. j + Len(x) \in DOMAIN z /\ j + Len(x) \in (Len(x) + 1)..(Len(x) + Len(y))
        /\ (j + Len(x)) - Len(x) = j
    BY <1>2
  <2> QED BY <1>2, <2>1
<1> QED BY <1>1, <1>2, <1>3, <1>4, <1>5

\* Whoever is still here after a rehash is under none of the new bans.
LEMMA SweptSound ==
  ASSUME NEW bs, NEW f, NEW d \in ClientSet,
         NEW tried, tried = {i \in 1..4 : Hit(bs, d, Order[i]) /\ (Order[i] = "G" => f.glines)},
         NEW first, first = Order[Best(tried)],
         ~(d.stage = "client" /\ tried # {} /\ ~Spared(f, d, first)),
         ~(d.stage = "unknown" /\ Hit(bs, d, "D") /\ ~Spared(f, d, "D")),
         d.stage = "client" /\ d.exempt = {} => ~Hit(bs, d, "G")
  PROVE  Sound(bs, f, d)
<1>1. 1 \in 1..4 /\ 3 \in 1..4 /\ 4 \in 1..4
      /\ Order[1] = "D" /\ Order[3] = "K" /\ Order[4] = "X"
  BY DEF Order
<1>2. ASSUME d.stage # "free", ~Exempt(f, d.ip), Hit(bs, d, "D") PROVE FALSE
  <2>1. ~Spared(f, d, "D")
    BY <1>2 DEF Spared
  <2>2. d.stage = "client" /\ 1 \in tried
    BY <1>1, <1>2, <2>1 DEF ClientSet
  <2>3. Best(tried) = 1
    <3>1. tried \in SUBSET Nat /\ \A i \in tried : 1 <= i
      OBVIOUS
    <3>2. Best(tried) \in tried /\ Best(tried) <= 1
      BY <2>2, <3>1, LeastIs
    <3> QED BY <3>1, <3>2
  <2>4. first = "D"
    BY <1>1, <2>3
  <2> QED BY <2>1, <2>2, <2>4
<1>3. ASSUME d.stage = "client", d.exempt = {}, ~Exempt(f, d.ip),
             Hit(bs, d, "K") \/ Hit(bs, d, "X")
      PROVE  FALSE
  <2>1. 3 \in tried \/ 4 \in tried
    BY <1>1, <1>3
  <2>2. ~Spared(f, d, first)
    BY <1>3 DEF Spared
  <2> QED BY <1>3, <2>1, <2>2
<1> QED BY <1>2, <1>3 DEF Sound

LEMMA RehashInv == ASSUME BansInv, NEW f \in Files, Rehash(f) PROVE BansInv'
<1>1. PICK is : is = {i \in DOMAIN bans : Kept(bans[i])}
  OBVIOUS
<1>2. PICK x : x = Those(bans, is)
  OBVIOUS
<1>3. PICK y : y = Filed(f)
  OBVIOUS
<1>4. /\ conf' = f /\ bans' = x \o y /\ client' = Swept(bans', f) /\ bans \in Seq(BanSet)
      /\ UNCHANGED <<pending, disk, gone>>
  BY <1>1, <1>2, <1>3 DEF Rehash, BansInv, Tables
<1>5. /\ x \in Seq(BanSet) /\ Within(x, bans)
      /\ \A i \in DOMAIN bans : i \in is => \E j \in DOMAIN x : x[j] = bans[i]
  BY <1>2, <1>4, ThoseWithin
<1>6. y \in Seq(BanSet) /\ \A i \in DOMAIN y : y[i].type # "G"
  BY <1>3, FiledIs
<1>7. /\ bans' \in Seq(BanSet)
      /\ \A i \in DOMAIN bans' : \/ \E j \in DOMAIN x : bans'[i] = x[j]
                                 \/ \E j \in DOMAIN y : bans'[i] = y[j]
      /\ \A j \in DOMAIN x : \E i \in DOMAIN bans' : bans'[i] = x[j]
  <2>1. x \in Seq(BanSet) /\ y \in Seq(BanSet)
    BY <1>5, <1>6
  <2>2. /\ x \o y \in Seq(BanSet)
        /\ \A i \in DOMAIN (x \o y) : \/ \E j \in DOMAIN x : (x \o y)[i] = x[j]
                                      \/ \E j \in DOMAIN y : (x \o y)[i] = y[j]
        /\ \A j \in DOMAIN x : \E i \in DOMAIN (x \o y) : (x \o y)[i] = x[j]
    BY <2>1, JoinedBans
  <2>3. bans' = x \o y
    BY <1>4
  <2> QED BY <2>2, <2>3
<1>8. Tables' /\ Stored'
  BY <1>4, <1>7 DEF BansInv, Tables, Stored
<1>9. ASSUME NEW d, Hit(bans', d, "G") PROVE Hit(bans, d, "G")
  <2>1. PICK i \in DOMAIN bans' : bans'[i].type = "G" /\ Covers(bans'[i].mask, d.ip)
    BY <1>9 DEF Hit
  <2>2. PICK j \in DOMAIN x : bans'[i] = x[j]
    BY <1>6, <1>7, <2>1
  <2>3. Hit(x, d, "G")
    BY <2>1, <2>2 DEF Hit
  <2> QED BY <1>5, <2>3, HitWithin
<1>10. ASSUME NEW c \in Clients
       PROVE  client'[c] \in ClientSet /\ Sound(bans', f, client'[c])
  <2>1. PICK d : d = client[c]
    OBVIOUS
  <2>2. PICK tried : tried = {i \in 1..4 : Hit(bans', d, Order[i]) /\ (Order[i] = "G" => f.glines)}
    OBVIOUS
  <2>3. PICK first : first = Order[Best(tried)]
    OBVIOUS
  <2>4. client'[c] = IF \/ d.stage = "client" /\ tried # {} /\ ~Spared(f, d, first)
                        \/ d.stage = "unknown" /\ Hit(bans', d, "D") /\ ~Spared(f, d, "D")
                     THEN NoClient ELSE d
    BY <1>4, <2>1, <2>2, <2>3 DEF Swept
  <2>5. d \in ClientSet /\ Sound(bans, conf, d)
    BY <2>1 DEF BansInv, Seen, AllSound
  <2>6. d.stage = "client" /\ d.exempt = {} => ~Hit(bans', d, "G")
    BY <1>9, <2>5 DEF Sound
  <2>7. NoClient \in ClientSet
    BY DEF NoClient, ClientSet
  <2>8. CASE client'[c] = NoClient
    BY <2>7, <2>8, NoClientSound
  <2>9. CASE /\ client'[c] = d
             /\ ~(d.stage = "client" /\ tried # {} /\ ~Spared(f, d, first))
             /\ ~(d.stage = "unknown" /\ Hit(bans', d, "D") /\ ~Spared(f, d, "D"))
    <3>1. Sound(bans', f, d)
      BY <2>2, <2>3, <2>5, <2>6, <2>9, SweptSound
    <3> QED BY <2>5, <2>9, <3>1
  <2> QED BY <2>4, <2>8, <2>9
<1>11. Seen' /\ AllSound'
  <2>1. client' = [c \in Clients |-> client'[c]]
    BY <1>4 DEF Swept
  <2> QED BY <1>4, <1>10, <2>1 DEF Seen, AllSound
<1>12. ASSUME NEW r \in disk, r.type \in Lines PROVE Holds(bans', r) \/ r \in gone
  <2>1. CASE Holds(bans, r)
    <3>1. PICK i \in DOMAIN bans : bans[i].db /\ Record(bans[i]) = r
      BY <2>1 DEF Holds
    <3>2. bans[i].type = r.type
      BY <1>4, <3>1, HoldsAre
    <3>3. i \in is
      BY <1>1, <1>12, <3>1, <3>2 DEF Kept
    <3>4. PICK j \in DOMAIN x : x[j] = bans[i]
      BY <1>5, <3>3
    <3>5. PICK k \in DOMAIN bans' : bans'[k] = x[j]
      BY <1>7
    <3>6. bans'[k].db /\ Record(bans'[k]) = r
      BY <3>1, <3>4, <3>5
    <3>7. Holds(bans', r)
      BY <3>6 DEF Holds
    <3> QED BY <3>7
  <2> QED BY <1>12, <2>1, Kept1 DEF BansInv
<1>13. LinesKept'
  BY <1>4, <1>12 DEF LinesKept, KeptIn, Holds
<1> QED BY <1>8, <1>11, <1>13 DEF BansInv

LEMMA SaveInv ==
  ASSUME BansInv, NEW S \in {Types, Lines}, Save(S)
  PROVE  BansInv'
<1>1. PICK J : J = {j \in DOMAIN bans : bans[j].db /\ bans[j].type \in S}
  OBVIOUS
<1>2. PICK B : B = {bans[j] : j \in J}
  OBVIOUS
<1>3. /\ disk' = {r \in disk : r.type \notin S} \cup {Record(b) : b \in B}
      /\ gone' = {r \in gone : r.type \notin S}
      /\ UNCHANGED <<client, bans, pending, conf>> /\ bans \in Seq(BanSet)
  BY <1>1, <1>2 DEF Save, BansInv, Tables
<1>4. B \subseteq BanSet
  BY <1>1, <1>2, <1>3
<1>5. Tables' /\ Seen' /\ AllSound'
  BY <1>3 DEF BansInv, Tables, Seen, AllSound
<1>6. disk' \subseteq RecordSet /\ gone' \subseteq RecordSet
  BY <1>3, <1>4, HoldsAre DEF BansInv, Stored
<1>7. IsFiniteSet(disk')
  <2>1. IsFiniteSet(J)
    <3>1. Len(bans) \in Nat /\ J \in SUBSET (1..Len(bans))
      BY <1>1, <1>3
    <3>2. IsFiniteSet(1..Len(bans))
      <4>1. 1 \in Int /\ Len(bans) \in Int
        BY <3>1
      <4> QED BY <4>1, FS_Interval
    <3> QED BY <3>1, <3>2, FS_Subset
  <2>2. IsFiniteSet(B)
    BY <1>2, <2>1, ImageFinite
  <2>3. IsFiniteSet({Record(b) : b \in B})
    <3> DEFINE f == [b \in B |-> Record(b)]
    <3>1. {Record(b) : b \in B} = {f[b] : b \in B}
      OBVIOUS
    <3> HIDE DEF f
    <3> QED BY <2>2, <3>1, ImageFinite
  <2>4. IsFiniteSet({r \in disk : r.type \notin S})
    <3>1. IsFiniteSet(disk) /\ {r \in disk : r.type \notin S} \in SUBSET disk
      BY DEF BansInv, Stored
    <3> QED BY <3>1, FS_Subset
  <2> QED BY <1>3, <2>3, <2>4, FS_Union
<1>8. ASSUME NEW r \in disk', r.type \in Lines PROVE Holds(bans', r) \/ r \in gone'
  <2>1. r.type \in S
    BY <1>8 DEF Types, Lines
  <2>2. PICK b \in B : r = Record(b)
    BY <1>3, <2>1
  <2>3. PICK j \in J : b = bans[j]
    BY <1>2, <2>2
  <2>4. j \in DOMAIN bans' /\ bans'[j].db /\ Record(bans'[j]) = r
    BY <1>1, <1>3, <2>2, <2>3
  <2>5. Holds(bans', r)
    BY <2>4 DEF Holds
  <2> QED BY <2>5
<1>9. LinesKept'
  BY <1>8 DEF LinesKept, KeptIn, Holds
<1> QED BY <1>5, <1>6, <1>7, <1>9 DEF BansInv, Stored

LEMMA RestartInv == ASSUME BansInv, Restart PROVE BansInv'
<1>1. PICK new : new = {r \in disk : r.type = "R" => \A i \in DOMAIN conf.bans :
                                                       conf.bans[i] # <<"R", r.mask>>}
  OBVIOUS
<1>2. PICK S : S = {Ban(r.type, r.mask, r.ttl, TRUE) : r \in new}
  OBVIOUS
<1>3. PICK loaded \in SetToSeqs(S) : bans' = Filed(conf) \o loaded
  BY <1>1, <1>2 DEF Restart
<1>4. /\ client' = [c \in Clients |-> NoClient]
      /\ pending' = [k \in Kinds |-> [m \in Nets |-> NoVotes]]
      /\ gone' = {r \in disk : r \notin new} /\ UNCHANGED <<conf, disk>>
  BY <1>1 DEF Restart
<1>5. new \subseteq disk /\ disk \subseteq RecordSet /\ IsFiniteSet(disk) /\ conf \in Files
  BY <1>1 DEF BansInv, Stored, Tables
<1>6. ASSUME NEW r \in new
      PROVE  /\ Ban(r.type, r.mask, r.ttl, TRUE) \in BanSet
             /\ Ban(r.type, r.mask, r.ttl, TRUE).db
             /\ Record(Ban(r.type, r.mask, r.ttl, TRUE)) = r
  <2>1. r \in RecordSet
    BY <1>5
  <2>2. Ban(r.type, r.mask, r.ttl, TRUE) \in BanSet
    BY <2>1, BanIs DEF RecordSet
  <2>3. r = [type |-> r.type, mask |-> r.mask, ttl |-> r.ttl]
    BY <2>1 DEF RecordSet
  <2> QED BY <2>2, <2>3 DEF Ban, Record
<1>7. S \subseteq BanSet
  BY <1>2, <1>6
<1>8. IsFiniteSet(S)
  <2> DEFINE f == [r \in new |-> Ban(r.type, r.mask, r.ttl, TRUE)]
  <2>1. S = {f[r] : r \in new}
    BY <1>2
  <2>2. IsFiniteSet(new)
    BY <1>5, FS_Subset
  <2> HIDE DEF f
  <2> QED BY <2>1, <2>2, ImageFinite
<1>9. loaded \in Seq(S) /\ \A x \in S : \E i \in DOMAIN loaded : loaded[i] = x
  BY <1>8, ListingAll
<1>10. loaded \in Seq(BanSet) /\ Filed(conf) \in Seq(BanSet)
  BY <1>5, <1>7, <1>9, FiledIs
<1>11. /\ bans' \in Seq(BanSet)
       /\ \A j \in DOMAIN loaded : \E i \in DOMAIN bans' : bans'[i] = loaded[j]
  <2>1. /\ Filed(conf) \o loaded \in Seq(BanSet)
        /\ \A j \in DOMAIN loaded : \E i \in DOMAIN (Filed(conf) \o loaded) :
                                       (Filed(conf) \o loaded)[i] = loaded[j]
    BY <1>10, JoinedBans
  <2> QED BY <1>3, <2>1
<1>12. Tables' /\ Stored'
  <2>1. NoVotes \in Polls
    BY DEF NoVotes, Polls
  <2> QED BY <1>4, <1>5, <1>11, <2>1 DEF Tables, Stored
<1>13. Seen' /\ AllSound'
  <2>1. NoClient \in ClientSet
    BY DEF NoClient, ClientSet
  <2> QED BY <1>4, <2>1, NoClientSound DEF Seen, AllSound
<1>14. ASSUME NEW r \in disk, r.type \in Lines PROVE Holds(bans', r) \/ r \in gone'
  <2>1. CASE r \notin new
    BY <1>4, <2>1
  <2>2. CASE r \in new
    <3>1. PICK b \in S : b.db /\ Record(b) = r
      BY <1>2, <1>6, <2>2
    <3>2. PICK j \in DOMAIN loaded : loaded[j] = b
      BY <1>9
    <3>3. PICK i \in DOMAIN bans' : bans'[i] = loaded[j]
      BY <1>11
    <3>4. bans'[i].db /\ Record(bans'[i]) = r
      BY <3>1, <3>2, <3>3
    <3>5. Holds(bans', r)
      BY <3>4 DEF Holds
    <3> QED BY <3>5
  <2> QED BY <2>1, <2>2
<1>15. LinesKept'
  BY <1>4, <1>14 DEF LinesKept, KeptIn, Holds
<1> QED BY <1>12, <1>13, <1>15 DEF BansInv

-----------------------------------------------------------------------------
(* Every step *)

LEMMA BansStep == ASSUME BansInv, [BansNext(Placed)]_banVars PROVE BansInv'
<1>1. CASE UNCHANGED banVars
  BY <1>1 DEF banVars, BansInv, Tables, Stored, Seen, AllSound, LinesKept, KeptIn
<1>2. CASE \E c \in Clients : \/ \E a \in Ips : Accept(c, a)
                              \/ \E n \in Names, ex \in Exemptions : Register(c, n, ex)
                              \/ Leave(c)
  BY <1>2, AcceptInv, RegisterInv, LeaveInv
<1>3. CASE \E m \in Nets :
             \/ <<"K", m>> \in Placed /\ (UnKline(m) \/ \E ttl \in Lives : Kline(m, ttl))
             \/ <<"D", m>> \in Placed /\ (UnDline(m) \/ \E ttl \in Lives : Dline(m, ttl))
             \/ <<"G", m>> \in Placed /\ \E k \in Kinds, o \in Opers : Vote(k, m, o)
  <2>1. PICK m \in Nets : \/ UnKline(m) \/ \E ttl \in Lives : Kline(m, ttl)
                          \/ UnDline(m) \/ \E ttl \in Lives : Dline(m, ttl)
                          \/ \E k \in Kinds, o \in Opers : Vote(k, m, o)
    BY <1>3
  <2>2. pending \in [Kinds -> [Nets -> Polls]]
    BY DEF BansInv, Tables
  <2>3. CASE UnKline(m)
    BY <2>2, <2>3, UnlineInv DEF UnKline
  <2>4. CASE UnDline(m)
    BY <2>2, <2>4, UnlineInv DEF UnDline
  <2> QED BY <2>1, <2>3, <2>4, KlineInv, DlineInv, VoteInv
<1>4. CASE \E n \in Names, ttl \in Lives :
             \/ <<"X", n>> \in Placed /\ (UnXline(n) \/ \E remote \in BOOLEAN : Xline(n, ttl, remote))
             \/ <<"R", n>> \in Placed /\ (UnResv(n) \/ Resv(n, ttl))
  BY <1>4, UnnameInv, XlineInv, ResvInv
<1>5. CASE Tick \/ CleanTklines \/ CleanGlines
  BY <1>5, TickInv, CleanTklinesInv, CleanGlinesInv
<1>6. CASE \E f \in Files : Rehash(f)
  BY <1>6, RehashInv
<1>7. CASE \E S \in {Types, Lines} : Save(S)
  BY <1>7, SaveInv
<1>8. CASE Restart
  BY <1>8, RestartInv
<1> QED BY <1>1, <1>2, <1>3, <1>4, <1>5, <1>6, <1>7, <1>8 DEF BansNext

LEMMA BansAlways == BansSpec => []BansInv
<1>1. BansInv /\ [BansNext(Placed)]_banVars => BansInv'
  BY BansStep
<1> QED BY <1>1, InitBans, PTL DEF BansSpec

\* The types of the tables, of what is on disk and of the connections.
THEOREM BansTyped == BansSpec => []BansTypeOK
<1>1. BansInv => BansTypeOK
  <2> SUFFICES ASSUME BansInv PROVE BansTypeOK
    OBVIOUS
  <2>1. \A c \in Clients : client[c].stage \in {"free", "unknown", "client"}
    BY DEF BansInv, Seen, ClientSet
  <2>2. \A i \in DOMAIN bans : bans[i] \in BanSet
    BY DEF BansInv, Tables
  <2>3. \A i \in DOMAIN bans :
          /\ bans[i].type \in Types /\ bans[i].ttl \in Perm..Life
          /\ bans[i].mask \in IF bans[i].type \in Lines THEN Nets ELSE Names
    BY <2>2 DEF BanSet
  <2>4. \A k \in Kinds, m \in Nets : pending[k][m] \in Polls
    BY DEF BansInv, Tables
  <2>5. \A k \in Kinds, m \in Nets : pending[k][m].votes \in Seq(Opers)
                                     /\ Len(pending[k][m].votes) <= 2
    BY <2>4 DEF Polls
  <2>6. conf \in Files /\ \A r \in disk \cup gone : r.type \in Types /\ r.ttl \in Perm..Life
    BY DEF BansInv, Tables, Stored, RecordSet
  <2> QED BY <2>1, <2>3, <2>5, <2>6 DEF BansTypeOK
<1> QED BY <1>1, BansAlways, PTL

\* Nobody who is not exempt stays under a ban (check_kline, check_conf_klines), and what
\* is on disk is in force until an operator, a vote or its time ends it.
THEOREM BansAlwaysHold == BansSpec => []BansHold
<1>1. BansInv => BansHold
  <2> SUFFICES ASSUME BansInv PROVE NoBannedUser
    BY DEF BansHold, BansInv
  <2>1. \A c \in Clients : Sound(bans, conf, client[c])
    BY DEF BansInv, AllSound
  <2> QED BY <2>1 DEF NoBannedUser, Sound
<1> QED BY <1>1, BansAlways, PTL

-----------------------------------------------------------------------------
(* TOPIC.  What a server will have: the channel's TS and the number of its topic *)

\* An older channel is worth more, and in it a later topic.
Below(p, r) == r[1] < p[1] \/ (r[1] = p[1] /\ p[2] <= r[2])
Under(A, B) == \A p \in A : \E r \in B : Below(p, r)

\* f says of each second the topic last set then: its number and its text.
Told == [no : Nat, text : Topics \cup {Unset}]
Times == 0..MaxTime
Story(f) ==
  /\ f[0] = [no |-> 0, text |-> Unset]
  /\ \A u, v \in Times : u <= v => f[u].no <= f[v].no
  /\ \A u, v \in Times : f[u].no = f[v].no => f[u] = f[v]
  /\ \A v \in Times : now <= v => f[v] = f[now]

\* What a message is worth to a server whose channel is of t, n being the last topic
Worth(f, t, n, m) == CASE m.op = "SJOIN" -> <<m.ts, 0>>
                       [] m.op = "TBURST" -> <<m.ts, f[m.at].no>>
                       [] OTHER -> <<t, n>>
Worths(f, t, n, s) == {Worth(f, t, n, s[i]) : i \in DOMAIN s}
Of(f, s) == <<ts[s], f[at[s]].no>>
Gets(f, w) == {Of(f, w[2])} \cup Worths(f, ts[w[2]], f[now].no, tq[w])

\* The ends of a link come to the same.
Level(f) == \A w \in up : Under(Gets(f, w), Gets(f, Back(w)))

\* The texts are those of f.
SaidIn(f, m) == CASE m.op = "TBURST" -> m.text = f[m.at].text
                  [] m.op = "TOPIC" -> m.text = f[now].text
                  [] OTHER -> TRUE
Said(f) == /\ \A s \in Holders : topic[s] = f[at[s]].text
           /\ \A w \in Wires : \A i \in DOMAIN tq[w] : SaidIn(f, tq[w][i])

Timely == /\ \A s \in Holders : at[s] <= now
          /\ \A w \in Wires : \A i \in DOMAIN tq[w] :
               tq[w][i].op = "TBURST" => tq[w][i].at <= now

\* A topic that spreads meets no burst.
Calm == Spreading => \A w \in Wires : \A i \in DOMAIN tq[w] : tq[w][i].op = "TOPIC"

\* No TBURST comes before the SJOIN it belongs to.
Led(t, s) == \A i \in DOMAIN s : s[i].op = "TBURST" =>
               \/ t <= s[i].ts
               \/ \E j \in DOMAIN s : j < i /\ s[j].op = "SJOIN" /\ s[j].ts <= s[i].ts
Leading == \A w \in up : Led(ts[w[2]], tq[w])

BothWays == /\ \A w \in up : Back(w) \in up
            /\ \A w \in Wires : w \notin up => tq[w] = <<>>

Frame == TopicTypeOK /\ BothWays /\ Timely
Core(f) == Calm /\ Leading /\ Story(f) /\ Said(f) /\ Level(f)
TopicInv == Frame /\ (~met /\ ~dropped => \E f \in [Times -> Told] : Core(f))

-----------------------------------------------------------------------------
(* Orders, links, queues *)

Pairs == Nat \X Nat

LEMMA BelowSelf == \A p \in Pairs : Below(p, p)
  BY DEF Below, Pairs

LEMMA BelowChain ==
  ASSUME NEW p \in Pairs, NEW r \in Pairs, NEW u \in Pairs, Below(p, r), Below(r, u)
  PROVE  Below(p, u)
<1>1. /\ p[1] \in Nat /\ p[2] \in Nat /\ r[1] \in Nat /\ r[2] \in Nat
      /\ u[1] \in Nat /\ u[2] \in Nat
  BY DEF Pairs
<1> QED BY <1>1 DEF Below

LEMMA WireEnds ==
  ASSUME NEW w \in Wires
  PROVE  /\ w = <<w[1], w[2]>> /\ w[1] \in Holders /\ w[2] \in Holders /\ w[1] # w[2]
         /\ Back(w) \in Wires /\ Back(w) = <<w[2], w[1]>> /\ Back(Back(w)) = w
         /\ Back(w) # w
  BY TopicLinks DEF Back

\* The ends of a link when one of them changes from o to p, and sends on what makes it so.
LEMMA Meet ==
  ASSUME NEW A, NEW B, NEW C, NEW D, NEW o, NEW p,
         A \subseteq Pairs, B \subseteq Pairs, C \subseteq Pairs, D \subseteq Pairs,
         p \in Pairs, Under(A, B), Under(B, A),
         Under(C, A \cup {p}), Under(A, C), Below(p, o) \/ \E r \in C : Below(p, r),
         o \in B, Below(o, p), p \in D, D \subseteq B \cup {p}, B \ {o} \subseteq D
  PROVE  Under(C, D) /\ Under(D, C)
<1>1. ASSUME NEW a \in A PROVE \E d \in D : Below(a, d)
  <2>1. PICK b \in B : Below(a, b)
    BY DEF Under
  <2>2. CASE b = o
    BY <2>1, <2>2, BelowChain
  <2>3. CASE b # o
    BY <2>1, <2>3
  <2> QED BY <2>2, <2>3
<1>2. ASSUME NEW c \in C PROVE \E d \in D : Below(c, d)
  <2>1. PICK a \in A \cup {p} : Below(c, a)
    BY DEF Under
  <2>2. CASE a = p
    BY <2>1, <2>2
  <2>3. CASE a \in A
    <3>1. PICK d \in D : Below(a, d)
      BY <1>1, <2>3
    <3> QED BY <2>1, <2>3, <3>1, BelowChain
  <2> QED BY <2>2, <2>3
<1>3. ASSUME NEW b \in B PROVE \E c \in C : Below(b, c)
  <2>1. PICK a \in A : Below(b, a)
    BY DEF Under
  <2>2. PICK c \in C : Below(a, c)
    BY DEF Under
  <2> QED BY <2>1, <2>2, BelowChain
<1>4. \E c \in C : Below(p, c)
  <2>1. CASE Below(p, o)
    <3>1. PICK c \in C : Below(o, c)
      BY <1>3
    <3> QED BY <2>1, <3>1, BelowChain
  <2> QED BY <2>1
<1> QED BY <1>2, <1>3, <1>4 DEF Under

LEMMA WorthsAppend ==
  ASSUME NEW S, NEW s \in Seq(S), NEW m, NEW f, NEW t, NEW n
  PROVE  Worths(f, t, n, Append(s, m)) = Worths(f, t, n, s) \cup {Worth(f, t, n, m)}
<1> DEFINE x == Append(s, m)
<1>1. /\ DOMAIN x = DOMAIN s \cup {Len(s) + 1} /\ x[Len(s) + 1] = m
      /\ \A i \in DOMAIN s : x[i] = s[i]
  OBVIOUS
<1> HIDE DEF x
<1>2. Worths(f, t, n, x) = {Worth(f, t, n, x[i]) : i \in DOMAIN s}
                             \cup {Worth(f, t, n, x[Len(s) + 1])}
  BY <1>1 DEF Worths
<1>3. {Worth(f, t, n, x[i]) : i \in DOMAIN s} = Worths(f, t, n, s)
  BY <1>1 DEF Worths
<1> QED BY <1>1, <1>2, <1>3 DEF x

LEMMA TailIs ==
  ASSUME NEW S, NEW s \in Seq(S), s # << >>
  PROVE  /\ Head(s) = s[1] /\ Head(s) \in S /\ 1 \in DOMAIN s /\ Tail(s) \in Seq(S)
         /\ \A i \in DOMAIN Tail(s) : i \in Nat \ {0} /\ i + 1 \in DOMAIN s
                                      /\ Tail(s)[i] = s[i + 1]
         /\ \A i \in DOMAIN s : i \in Nat \ {0}
                                /\ (i # 1 => i - 1 \in DOMAIN Tail(s)
                                             /\ Tail(s)[i - 1] = s[i])
<1>1. Len(s) \in Nat \ {0} /\ DOMAIN s = 1..Len(s) /\ s[1] \in S
  OBVIOUS
<1>2. Tail(s) \in Seq(S) /\ Len(Tail(s)) = Len(s) - 1 /\ Head(s) = s[1]
  OBVIOUS
<1>3. DOMAIN Tail(s) = 1..(Len(s) - 1)
  BY <1>2, <1>1
<1>4. \A i \in 1..(Len(s) - 1) : Tail(s)[i] = s[i + 1]
  OBVIOUS
<1>5. \A i \in 1..Len(s) : i # 1 => i - 1 \in 1..(Len(s) - 1) /\ (i - 1) + 1 = i
  BY <1>1
<1> QED BY <1>1, <1>2, <1>3, <1>4, <1>5

LEMMA WorthsHead ==
  ASSUME NEW S, NEW s \in Seq(S), s # << >>, NEW f, NEW t, NEW n
  PROVE  Worths(f, t, n, s) = {Worth(f, t, n, Head(s))} \cup Worths(f, t, n, Tail(s))
<1>1. ASSUME NEW x \in Worths(f, t, n, s)
      PROVE  x \in {Worth(f, t, n, Head(s))} \cup Worths(f, t, n, Tail(s))
  <2>1. PICK i \in DOMAIN s : x = Worth(f, t, n, s[i])
    BY DEF Worths
  <2>2. CASE i = 1
    <3>1. s[i] = Head(s)
      BY <2>2, TailIs
    <3> QED BY <2>1, <3>1
  <2>3. CASE i # 1
    <3>1. i - 1 \in DOMAIN Tail(s) /\ Tail(s)[i - 1] = s[i]
      BY <2>1, <2>3, TailIs
    <3> QED BY <2>1, <3>1 DEF Worths
  <2> QED BY <2>2, <2>3
<1>2. ASSUME NEW x \in Worths(f, t, n, Tail(s)) PROVE x \in Worths(f, t, n, s)
  <2>1. PICK i \in DOMAIN Tail(s) : x = Worth(f, t, n, Tail(s)[i])
    BY DEF Worths
  <2> QED BY <2>1, TailIs DEF Worths
<1>3. Worth(f, t, n, Head(s)) \in Worths(f, t, n, s)
  BY TailIs DEF Worths
<1> QED BY <1>1, <1>2, <1>3

LEMMA MessageIs ==
  ASSUME NEW m \in TopicMessage
  PROVE  /\ m.op \in {"TOPIC", "SJOIN", "TBURST"}
         /\ m.op = "SJOIN" => m.ts \in Born /\ m.ts \in Nat
         /\ m.op = "TBURST" => /\ m.ts \in Born /\ m.ts \in Nat /\ m.at \in Times /\ m.at > 0
                               /\ m.text \in Topics \cup {Unset}
         /\ m.op = "TOPIC" => m.text \in Topics \cup {Unset}
<1>1. CASE m \in [op : {"TOPIC"}, text : Topics \cup {Unset}]
  BY <1>1
<1>2. CASE m \in [op : {"SJOIN"}, ts : Born]
  BY <1>2, TopicBounds
<1>3. CASE m \in [op : {"TBURST"}, ts : Born, at : 1..MaxTime, text : Topics \cup {Unset}]
  <2>1. /\ m.op = "TBURST" /\ m.ts \in Born /\ m.at \in 1..MaxTime
        /\ m.text \in Topics \cup {Unset}
    BY <1>3
  <2>2. \A k \in 1..MaxTime : k \in Times /\ k > 0
    BY TopicBounds DEF Times
  <2>3. m.at \in Times /\ m.at > 0 /\ m.ts \in Nat
    BY <2>1, <2>2, TopicBounds
  <2> QED BY <2>1, <2>3
<1> QED BY <1>1, <1>2, <1>3 DEF TopicMessage

\* A message without TOPIC is worth the same whoever reads it.
LEMMA WorthsSame ==
  ASSUME NEW f, NEW t, NEW u, NEW n, NEW s,
         \A i \in DOMAIN s : s[i].op \in {"SJOIN", "TBURST"}
  PROVE  Worths(f, t, n, s) = Worths(f, u, n, s)
<1>1. \A i \in DOMAIN s : Worth(f, t, n, s[i]) = Worth(f, u, n, s[i])
  BY DEF Worth
<1> QED BY <1>1 DEF Worths

LEMMA WorthPair ==
  ASSUME NEW f \in [Times -> Told], NEW t \in Nat, NEW n \in Nat, NEW m \in TopicMessage
  PROVE  Worth(f, t, n, m) \in Pairs
<1>1. \A v \in Times : f[v].no \in Nat
  BY DEF Told
<1> QED BY <1>1, MessageIs DEF Worth, Pairs

LEMMA GetsPairs ==
  ASSUME TopicTypeOK, NEW f \in [Times -> Told], NEW w \in Wires
  PROVE  /\ Gets(f, w) \subseteq Pairs /\ Of(f, w[2]) \in Gets(f, w) /\ Of(f, w[2]) \in Pairs
         /\ f[now].no \in Nat /\ ts[w[2]] \in Nat
<1>1. /\ \A v \in Times : f[v].no \in Nat /\ now \in Times
      /\ ts[w[2]] \in Nat /\ at[w[2]] \in Times /\ tq[w] \in Seq(TopicMessage)
  BY WireEnds, TopicBounds DEF TopicTypeOK, Told, Times
<1>2. \A i \in DOMAIN tq[w] : Worth(f, ts[w[2]], f[now].no, tq[w][i]) \in Pairs
  <2>1. f[now].no \in Nat /\ \A i \in DOMAIN tq[w] : tq[w][i] \in TopicMessage
    BY <1>1
  <2> QED BY <1>1, <2>1, WorthPair
<1>3. Of(f, w[2]) \in Pairs
  BY <1>1 DEF Of, Pairs
<1> QED BY <1>1, <1>2, <1>3 DEF Gets, Worths

-----------------------------------------------------------------------------
(* A server reads a message *)

\* What reading leaves of the queues when m goes on
LEMMA PassedOn ==
  ASSUME TopicTypeOK, BothWays, NEW w \in up, tq[w] # << >>, NEW m \in TopicMessage,
         tq' = Put(Rest(w), Out(w[2], w[1]), m)
  PROVE  /\ tq' \in [Wires -> Seq(TopicMessage)]
         /\ tq'[w] = Tail(tq[w])
         /\ \A v \in Out(w[2], w[1]) : tq'[v] = Append(tq[v], m)
         /\ \A v \in Wires : v # w /\ v \notin Out(w[2], w[1]) => tq'[v] = tq[v]
<1>1. w \in Wires /\ w[1] # w[2] /\ tq[w] \in Seq(TopicMessage)
  BY WireEnds DEF TopicTypeOK
<1>2. Tail(tq[w]) \in Seq(TopicMessage)
  BY <1>1, TailIs
<1>3. /\ Rest(w) \in [Wires -> Seq(TopicMessage)] /\ Rest(w)[w] = Tail(tq[w])
      /\ \A v \in Wires : v # w => Rest(w)[v] = tq[v]
  BY <1>1, <1>2 DEF Rest, TopicTypeOK
<1>4. w \notin Out(w[2], w[1]) /\ Out(w[2], w[1]) \subseteq Wires
  BY <1>1 DEF Out, TopicTypeOK
<1>5. \A v \in Wires : tq'[v] = IF v \in Out(w[2], w[1]) THEN Append(Rest(w)[v], m)
                                ELSE Rest(w)[v]
  BY DEF Put
<1>6. \A v \in Wires : Append(Rest(w)[v], m) \in Seq(TopicMessage)
  BY <1>3
<1>7. tq' \in [Wires -> Seq(TopicMessage)]
  BY <1>3, <1>6 DEF Put
<1> QED BY <1>1, <1>3, <1>4, <1>5, <1>7

LEMMA NotPassedOn ==
  ASSUME TopicTypeOK, NEW w \in up, tq[w] # << >>, tq' = Rest(w)
  PROVE  /\ tq' \in [Wires -> Seq(TopicMessage)]
         /\ tq'[w] = Tail(tq[w])
         /\ \A v \in Wires : v # w => tq'[v] = tq[v]
<1>1. w \in Wires /\ tq[w] \in Seq(TopicMessage)
  BY DEF TopicTypeOK
<1>2. Tail(tq[w]) \in Seq(TopicMessage)
  BY <1>1, TailIs
<1> QED BY <1>1, <1>2 DEF Rest, TopicTypeOK

\* A server reads what makes o of it p, and sends on m to the others, or need not: the
\* ends of links still come to the same.
LEMMA Relayed ==
  ASSUME TopicTypeOK, TopicTypeOK', BothWays, up' = up, now' = now,
         NEW f \in [Times -> Told], Level(f),
         NEW w \in up, tq[w] # << >>,
         NEW t \in Nat, NEW a \in Times,
         ts' = [ts EXCEPT ![w[2]] = t], at' = [at EXCEPT ![w[2]] = a],
         NEW o, o = Of(f, w[2]), NEW p, p = <<t, f[a].no>>,
         NEW h, h = Worth(f, ts[w[2]], f[now].no, Head(tq[w])),
         Below(o, p), Below(h, p), Below(p, o) \/ Below(p, h),
         t = ts[w[2]] \/ ~Spreading,
         \/ tq' = Rest(w) /\ Below(p, o)
         \/ \E m \in TopicMessage :
              /\ tq' = Put(Rest(w), Out(w[2], w[1]), m)
              /\ \A v \in Out(w[2], w[1]) :
                   LET e == Worth(f, ts[v[2]], f[now].no, m) IN
                   Below(e, p) /\ (Below(p, o) \/ Below(p, e))
  PROVE  Level(f)'
<1> DEFINE y == w[2]
           n == f[now].no
<1>1. /\ w \in Wires /\ y \in Holders /\ w[1] \in Holders /\ w[1] # y
      /\ Back(w) \in Wires /\ Back(w) \in up /\ Back(w) = <<y, w[1]>>
      /\ up \subseteq Wires
  BY WireEnds DEF BothWays, TopicTypeOK
<1>2. ts'[y] = t /\ at'[y] = a /\ \A s \in Holders \ {y} : ts'[s] = ts[s] /\ at'[s] = at[s]
  BY <1>1 DEF TopicTypeOK
<1>3. /\ \A s \in Holders \ {y} : Of(f, s)' = Of(f, s)
      /\ Of(f, y)' = p
  BY <1>1, <1>2 DEF Of
<1>4. /\ tq' \in [Wires -> Seq(TopicMessage)] /\ tq'[w] = Tail(tq[w])
      /\ \A v \in Wires : v # w /\ v \notin Out(y, w[1]) => tq'[v] = tq[v]
  BY PassedOn, NotPassedOn, <1>1
<1>5. \A v \in Wires : Gets(f, v)' = {Of(f, v[2])'} \cup Worths(f, ts'[v[2]], n, tq'[v])
  BY DEF Gets
<1>6. \A v \in Wires : tq[v] \in Seq(TopicMessage) /\ tq'[v] \in Seq(TopicMessage)
  BY DEF TopicTypeOK
<1>7. \A v \in Wires : /\ Gets(f, v) \subseteq Pairs /\ Gets(f, v)' \subseteq Pairs
                       /\ Of(f, v[2]) \in Gets(f, v) /\ Of(f, v[2]) \in Pairs
  <2>1. \A v \in Wires : /\ Gets(f, v) \subseteq Pairs
                         /\ Of(f, v[2]) \in Gets(f, v) /\ Of(f, v[2]) \in Pairs
    BY GetsPairs
  <2>2. \A v \in Wires : Gets(f, v)' \subseteq Pairs
    <3>1. ASSUME NEW v \in Wires PROVE Gets(f, v)' \subseteq Pairs
      <4>1. \A u \in Times : f[u].no \in Nat
        BY DEF Told
      <4>2. /\ now \in Times /\ ts'[v[2]] \in Nat /\ at'[v[2]] \in Times
        <5>1. /\ v[2] \in Holders /\ ts' \in [Holders -> Born]
              /\ at' \in [Holders -> 0..MaxTime] /\ now \in 1..MaxTime
          BY WireEnds DEF TopicTypeOK
        <5>2. now \in Times /\ 0..MaxTime = Times
          BY <5>1, TopicBounds DEF Times
        <5>3. ts'[v[2]] \in Nat
          BY <5>1, TopicBounds
        <5> HIDE DEF Times
        <5>4. at'[v[2]] \in Times
          BY <5>1, <5>2
        <5> QED BY <5>2, <5>3, <5>4
      <4>3. Of(f, v[2])' \in Pairs
        BY <4>1, <4>2 DEF Of, Pairs
      <4>4. \A i \in DOMAIN tq'[v] : tq'[v][i] \in TopicMessage
        BY <1>6
      <4>5. \A i \in DOMAIN tq'[v] : Worth(f, ts'[v[2]], n, tq'[v][i]) \in Pairs
        BY <4>1, <4>2, <4>4, WorthPair
      <4> QED BY <1>5, <4>3, <4>5 DEF Worths
    <3> QED BY <3>1
  <2> QED BY <2>1, <2>2
<1>8. p \in Pairs /\ o \in Pairs
  <2>1. f[a].no \in Nat
    BY DEF Told
  <2> QED BY <1>1, <1>7, <2>1 DEF Pairs
<1>9. \A v \in Wires : Worths(f, t, n, tq[v]) = Worths(f, ts[y], n, tq[v])
                       /\ Worths(f, t, n, tq'[w]) = Worths(f, ts[y], n, tq'[w])
  <2>1. CASE t = ts[y]
    BY <2>1
  <2>2. CASE ~Spreading
    <3>1. \A v \in Wires : \A i \in DOMAIN tq[v] : tq[v][i].op \in {"SJOIN", "TBURST"}
      <4>1. \A v \in Wires : \A i \in DOMAIN tq[v] : tq[v][i] \in TopicMessage
        BY <1>6
      <4> QED BY <2>2, <4>1, MessageIs DEF Spreading
    <3>2. \A i \in DOMAIN tq'[w] : tq'[w][i].op \in {"SJOIN", "TBURST"}
      BY <1>1, <1>4, <1>6, <3>1, TailIs
    <3> QED BY <3>1, <3>2, WorthsSame
  <2> QED BY <2>1, <2>2
\* the end that reads
<1>10. Under(Gets(f, w)', Gets(f, Back(w))') /\ Under(Gets(f, Back(w))', Gets(f, w)')
  <2>1. Gets(f, Back(w))' = Gets(f, Back(w))
    <3>1. Back(w) # w /\ Back(w) \notin Out(y, w[1]) /\ Back(w)[2] = w[1]
      BY <1>1 DEF Out
    <3>2. tq'[Back(w)] = tq[Back(w)]
      BY <1>1, <1>4, <3>1
    <3> QED BY <1>1, <1>2, <1>3, <1>5, <3>1, <3>2 DEF Gets
  <2>2. Gets(f, w)' = {p} \cup Worths(f, ts[y], n, tq'[w])
    BY <1>1, <1>2, <1>3, <1>5, <1>9
  <2>3. Gets(f, w) = {o, h} \cup Worths(f, ts[y], n, tq'[w])
    <3>1. Worths(f, ts[y], n, tq[w]) = {h} \cup Worths(f, ts[y], n, Tail(tq[w]))
      BY <1>1, <1>6, WorthsHead
    <3> QED BY <1>4, <3>1 DEF Gets
  <2>4. Under(Gets(f, w)', Gets(f, w))
    <3>1. ASSUME NEW c \in Gets(f, w)' PROVE \E d \in Gets(f, w) : Below(c, d)
      <4>1. CASE c = p
        BY <2>3, <4>1
      <4>2. CASE c # p
        BY <1>1, <1>7, <2>2, <2>3, <4>2, BelowSelf
      <4> QED BY <4>1, <4>2
    <3> QED BY <3>1 DEF Under
  <2>5. Under(Gets(f, w), Gets(f, w)')
    <3>1. ASSUME NEW c \in Gets(f, w) PROVE \E d \in Gets(f, w)' : Below(c, d)
      <4>1. CASE c \in {o, h}
        BY <2>2, <4>1
      <4>2. CASE c \notin {o, h}
        BY <1>1, <1>7, <2>2, <2>3, <4>2, BelowSelf
      <4> QED BY <4>1, <4>2
    <3> QED BY <3>1 DEF Under
  <2>6. Under(Gets(f, w), Gets(f, Back(w))) /\ Under(Gets(f, Back(w)), Gets(f, w))
    BY <1>1, WireEnds DEF Level
  <2> DEFINE A == Gets(f, w)
             B == Gets(f, Back(w))
             C == Gets(f, w)'
  <2>7. A \subseteq Pairs /\ B \subseteq Pairs /\ C \subseteq Pairs
    BY <1>1, <1>7
  <2>8. Under(C, A) /\ Under(A, C) /\ Under(A, B) /\ Under(B, A)
    BY <2>4, <2>5, <2>6
  <2> HIDE DEF A, B, C
  <2>9. Under(C, B) /\ Under(B, C)
    <3>1. ASSUME NEW X, NEW Y, NEW Z, X \subseteq Pairs, Y \subseteq Pairs, Z \subseteq Pairs,
                 Under(X, Y), Under(Y, Z)
          PROVE  Under(X, Z)
      BY <3>1, BelowChain DEF Under
    <3> QED BY <2>7, <2>8, <3>1
  <2> QED BY <2>1, <2>9 DEF B, C
\* the ends of another link of the same server
<1>11. ASSUME NEW v \in up, v[1] = y, v[2] # w[1]
       PROVE  Under(Gets(f, v)', Gets(f, Back(v))') /\ Under(Gets(f, Back(v))', Gets(f, v)')
  <2>1. /\ v \in Wires /\ Back(v) \in Wires /\ Back(v) \in up /\ v[2] # y /\ v # w /\ Back(v) # w
        /\ Back(v)[2] = y /\ v \in Out(y, w[1]) /\ Back(v) \notin Out(y, w[1])
        /\ v[2] \in Holders
    BY <1>1, <1>11, WireEnds DEF Out, BothWays
  <2> DEFINE A == Gets(f, v)
             B == Gets(f, Back(v))
             C == Gets(f, v)'
             D == Gets(f, Back(v))'
  <2>2. A \subseteq Pairs /\ B \subseteq Pairs /\ C \subseteq Pairs /\ D \subseteq Pairs
    BY <1>7, <2>1
  <2>3. Under(A, B) /\ Under(B, A)
    BY <1>11, <2>1, WireEnds DEF Level
  <2>4. tq'[Back(v)] = tq[Back(v)]
    BY <1>4, <2>1
  <2>5. D = {p} \cup Worths(f, ts[y], n, tq[Back(v)])
    BY <1>2, <1>3, <1>5, <1>9, <2>1, <2>4
  <2>6. B = {o} \cup Worths(f, ts[y], n, tq[Back(v)])
    BY <2>1 DEF Gets
  <2>7. C = {Of(f, v[2])} \cup Worths(f, ts[v[2]], n, tq'[v])
    BY <1>2, <1>3, <1>5, <2>1
  <2>8. A = {Of(f, v[2])} \cup Worths(f, ts[v[2]], n, tq[v])
    BY DEF Gets
  <2>9. /\ Under(C, A \cup {p}) /\ Under(A, C)
        /\ Below(p, o) \/ \E r \in C : Below(p, r)
    <3>1. CASE tq' = Rest(w) /\ Below(p, o)
      <4>1. tq'[v] = tq[v]
        BY <1>1, <2>1, <3>1, NotPassedOn
      <4>2. A = C
        BY <2>7, <2>8, <4>1
      <4> HIDE DEF A, C
      <4> QED BY <2>2, <3>1, <4>2, BelowSelf DEF Under
    <3>2. CASE \E m \in TopicMessage :
                 /\ tq' = Put(Rest(w), Out(w[2], w[1]), m)
                 /\ \A u \in Out(w[2], w[1]) :
                      LET e == Worth(f, ts[u[2]], f[now].no, m) IN
                      Below(e, p) /\ (Below(p, o) \/ Below(p, e))
      <4>1. PICK m \in TopicMessage :
                 /\ tq' = Put(Rest(w), Out(w[2], w[1]), m)
                 /\ \A u \in Out(w[2], w[1]) :
                      LET e == Worth(f, ts[u[2]], f[now].no, m) IN
                      Below(e, p) /\ (Below(p, o) \/ Below(p, e))
        BY <3>2
      <4> DEFINE e == Worth(f, ts[v[2]], n, m)
      <4>2. tq'[v] = Append(tq[v], m)
        BY <2>1, <4>1, PassedOn
      <4>3. Worths(f, ts[v[2]], n, tq'[v]) = Worths(f, ts[v[2]], n, tq[v]) \cup {e}
        BY <1>6, <2>1, <4>2, WorthsAppend
      <4>4. C = A \cup {e}
        BY <2>7, <2>8, <4>3
      <4>5. Below(e, p) /\ (Below(p, o) \/ Below(p, e))
        BY <2>1, <4>1
      <4> HIDE DEF A, C, e
      <4> QED BY <2>2, <4>4, <4>5, BelowSelf DEF Under
    <3> QED BY <3>1, <3>2
  <2>10. p \in D /\ D \subseteq B \cup {p} /\ B \ {o} \subseteq D /\ o \in B
    BY <2>5, <2>6
  <2> HIDE DEF A, B, C, D
  <2>11. Under(C, D) /\ Under(D, C)
    BY <1>8, <2>2, <2>3, <2>9, <2>10, Meet
  <2> QED BY <2>11 DEF C, D
\* the others
<1>12. ASSUME NEW v \in up, v[1] # y, v[2] # y
       PROVE  Under(Gets(f, v)', Gets(f, Back(v))')
  <2>1. /\ v \in Wires /\ Back(v) \in Wires /\ v # w /\ Back(v) # w
        /\ v \notin Out(y, w[1]) /\ Back(v) \notin Out(y, w[1])
        /\ v[2] \in Holders /\ Back(v)[2] \in Holders /\ Back(v)[2] # y
    BY <1>1, <1>12, WireEnds DEF Out
  <2>2. tq'[v] = tq[v] /\ tq'[Back(v)] = tq[Back(v)]
    BY <1>4, <2>1
  <2>3. Gets(f, v)' = Gets(f, v) /\ Gets(f, Back(v))' = Gets(f, Back(v))
    BY <1>2, <1>3, <1>5, <1>12, <2>1, <2>2 DEF Gets
  <2> QED BY <2>3 DEF Level
<1>13. ASSUME NEW v \in up PROVE Under(Gets(f, v)', Gets(f, Back(v))')
  <2>1. /\ v \in Wires /\ v = <<v[1], v[2]>> /\ Back(v) = <<v[2], v[1]>> /\ Back(v) \in up
        /\ Back(Back(v)) = v /\ v[1] # v[2]
    BY <1>1, WireEnds DEF BothWays
  <2>2. CASE v = w \/ v = Back(w)
    BY <1>1, <1>10, <2>2, WireEnds
  <2>3. CASE v[1] = y /\ v[2] # w[1]
    BY <1>11, <2>3
  <2>4. CASE v[2] = y /\ v[1] # w[1]
    <3>1. Back(v)[1] = y /\ Back(v)[2] # w[1]
      BY <2>1, <2>4
    <3> QED BY <1>11, <2>1, <3>1
  <2>5. CASE v[1] # y /\ v[2] # y
    BY <1>12, <2>5
  <2>6. w = <<w[1], y>>
    BY <1>1, WireEnds
  <2> QED BY <1>1, <2>1, <2>2, <2>3, <2>4, <2>5, <2>6
<1> QED BY <1>13 DEF Level

\* The messages there are after one is read
LEMMA Messages ==
  ASSUME TopicTypeOK, BothWays, NEW w \in up, tq[w] # << >>,
         NEW m \in TopicMessage,
         tq' = Rest(w) \/ tq' = Put(Rest(w), Out(w[2], w[1]), m)
  PROVE  \A v \in Wires : \A i \in DOMAIN tq'[v] :
           tq'[v][i] = m \/ \E j \in DOMAIN tq[v] : tq'[v][i] = tq[v][j]
<1> TAKE v \in Wires
<1> TAKE i \in DOMAIN tq'[v]
<1>1. w \in Wires /\ tq[v] \in Seq(TopicMessage) /\ tq[w] \in Seq(TopicMessage)
  BY DEF TopicTypeOK
<1>2. CASE v = w
  <2>1. tq'[w] = Tail(tq[w])
    BY PassedOn, NotPassedOn
  <2> QED BY <1>1, <1>2, <2>1, TailIs
<1>3. CASE v # w /\ tq'[v] = tq[v]
  BY <1>3
<1>4. CASE tq'[v] = Append(tq[v], m)
  BY <1>1, <1>4
<1> QED BY <1>2, <1>3, <1>4, PassedOn, NotPassedOn

\* A topic that spreads goes on spreading alone.
LEMMA CalmKept ==
  ASSUME TopicTypeOK, BothWays, Calm, NEW w \in up, tq[w] # << >>,
         NEW m \in TopicMessage, m.op = Head(tq[w]).op,
         tq' = Rest(w) \/ tq' = Put(Rest(w), Out(w[2], w[1]), m)
  PROVE  Calm'
<1>1. w \in Wires /\ tq[w] \in Seq(TopicMessage)
  BY DEF TopicTypeOK
<1>2. 1 \in DOMAIN tq[w] /\ m.op = tq[w][1].op
  BY <1>1, TailIs
<1>3. \A v \in Wires : \A i \in DOMAIN tq'[v] :
        \E u \in Wires : \E j \in DOMAIN tq[u] : tq'[v][i].op = tq[u][j].op
  <2> TAKE v \in Wires
  <2> TAKE i \in DOMAIN tq'[v]
  <2>1. tq'[v][i] = m \/ \E j \in DOMAIN tq[v] : tq'[v][i] = tq[v][j]
    BY Messages
  <2> QED BY <1>1, <1>2, <2>1
<1>4. Spreading' => Spreading
  BY <1>3 DEF Spreading
<1>5. Spreading => \A v \in Wires : \A i \in DOMAIN tq'[v] : tq'[v][i].op = "TOPIC"
  BY <1>3 DEF Calm
<1> QED BY <1>4, <1>5 DEF Calm

\* What comes before a TBURST is still before it when an older channel is read.
LEMMA LedTail ==
  ASSUME NEW t \in Nat, NEW u \in Nat, u <= t,
         NEW s \in Seq(TopicMessage), s # << >>, Led(t, s),
         Head(s).op = "SJOIN" => u <= Head(s).ts
  PROVE  Led(u, Tail(s))
<1> SUFFICES ASSUME NEW i \in DOMAIN Tail(s), Tail(s)[i].op = "TBURST"
             PROVE  \/ u <= Tail(s)[i].ts
                    \/ \E j \in DOMAIN Tail(s) :
                         j < i /\ Tail(s)[j].op = "SJOIN" /\ Tail(s)[j].ts <= Tail(s)[i].ts
  BY DEF Led
<1>1. i \in Nat \ {0} /\ i + 1 \in DOMAIN s /\ Tail(s)[i] = s[i + 1]
  BY TailIs
<1>2. \/ t <= s[i + 1].ts
      \/ \E j \in DOMAIN s : j < i + 1 /\ s[j].op = "SJOIN" /\ s[j].ts <= s[i + 1].ts
  BY <1>1 DEF Led
<1>3. s[i + 1] \in TopicMessage /\ s[i + 1].ts \in Nat
  <2>1. s[i + 1] \in TopicMessage
    BY <1>1
  <2> QED BY <1>1, <2>1, MessageIs
<1>4. CASE t <= s[i + 1].ts
  BY <1>1, <1>3, <1>4
<1>5. CASE \E j \in DOMAIN s : j < i + 1 /\ s[j].op = "SJOIN" /\ s[j].ts <= s[i + 1].ts
  <2>1. PICK j \in DOMAIN s : j < i + 1 /\ s[j].op = "SJOIN" /\ s[j].ts <= s[i + 1].ts
    BY <1>5
  <2>2. s[j] \in TopicMessage
    OBVIOUS
  <2>3. s[j].ts \in Nat
    BY <2>1, <2>2, MessageIs
  <2>4. CASE j = 1
    <3>1. Head(s) = s[1]
      BY TailIs
    <3>2. u <= s[1].ts
      BY <2>1, <2>4, <3>1
    <3> QED BY <1>1, <1>3, <2>1, <2>3, <2>4, <3>2
  <2>5. CASE j # 1
    <3>1. j \in Nat /\ j - 1 \in DOMAIN Tail(s) /\ Tail(s)[j - 1] = s[j]
      BY <2>5, TailIs
    <3>2. j - 1 < i
      BY <1>1, <2>1, <3>1
    <3> QED BY <1>1, <2>1, <3>1, <3>2
  <2> QED BY <2>4, <2>5
<1> QED BY <1>2, <1>4, <1>5

LEMMA LedBy ==
  ASSUME NEW t \in Nat, NEW u \in Nat, u <= t, NEW s \in Seq(TopicMessage), Led(t, s)
  PROVE  Led(u, s)
<1> SUFFICES ASSUME NEW i \in DOMAIN s, s[i].op = "TBURST", t <= s[i].ts PROVE u <= s[i].ts
  BY DEF Led
<1>1. s[i] \in TopicMessage
  OBVIOUS
<1>2. s[i].ts \in Nat
  BY <1>1, MessageIs
<1> QED BY <1>2

LEMMA LedAppend ==
  ASSUME NEW t \in Nat, NEW s \in Seq(TopicMessage), Led(t, s), NEW m \in TopicMessage,
         m.op = "TBURST" => \/ t <= m.ts
                            \/ \E j \in DOMAIN s : s[j].op = "SJOIN" /\ s[j].ts <= m.ts
  PROVE  Led(t, Append(s, m))
<1> DEFINE x == Append(s, m)
<1>1. /\ DOMAIN x = DOMAIN s \cup {Len(s) + 1} /\ x[Len(s) + 1] = m
      /\ \A i \in DOMAIN s : x[i] = s[i] /\ i < Len(s) + 1
  OBVIOUS
<1> HIDE DEF x
<1>2. Led(t, x)
  <2>1. ASSUME NEW i \in DOMAIN x, x[i].op = "TBURST"
        PROVE  \/ t <= x[i].ts
               \/ \E j \in DOMAIN x : j < i /\ x[j].op = "SJOIN" /\ x[j].ts <= x[i].ts
    <3>1. CASE i \in DOMAIN s
      BY <1>1, <2>1, <3>1 DEF Led
    <3>2. CASE i = Len(s) + 1
      BY <1>1, <2>1, <3>2
    <3> QED BY <1>1, <3>1, <3>2
  <2> QED BY <2>1 DEF Led
<1> QED BY <1>2 DEF x

\* What a server has is known beyond its links, or on its way there, an SJOIN before it.
LEMMA Beneath ==
  ASSUME TopicTypeOK, BothWays, Leading, NEW f \in [Times -> Told], Level(f), NEW v \in up
  PROVE  \/ ts[v[2]] <= ts[v[1]]
         \/ \E j \in DOMAIN tq[v] : tq[v][j].op = "SJOIN" /\ tq[v][j].ts <= ts[v[1]]
<1>1. /\ v \in Wires /\ Back(v) \in Wires /\ Back(v) \in up /\ Back(Back(v)) = v
      /\ Back(v)[2] = v[1] /\ tq[v] \in Seq(TopicMessage)
      /\ v[1] \in Holders /\ v[2] \in Holders
  BY WireEnds DEF BothWays, TopicTypeOK
<1>2. ts[v[1]] \in Nat /\ ts[v[2]] \in Nat
  BY <1>1, TopicBounds DEF TopicTypeOK
<1>3. Of(f, v[1]) \in Gets(f, Back(v))
  BY <1>1 DEF Gets
<1>4. PICK r \in Gets(f, v) : Below(Of(f, v[1]), r)
  BY <1>1, <1>3 DEF Level, Under
<1>5. r[1] <= ts[v[1]]
  <2>1. r \in Pairs
    BY <1>1, GetsPairs
  <2> QED BY <1>2, <1>4, <2>1 DEF Below, Of, Pairs
<1>6. CASE r = Of(f, v[2])
  BY <1>5, <1>6 DEF Of
<1>7. CASE r \in Worths(f, ts[v[2]], f[now].no, tq[v])
  <2>1. PICK i \in DOMAIN tq[v] : r = Worth(f, ts[v[2]], f[now].no, tq[v][i])
    BY <1>7 DEF Worths
  <2>2. tq[v][i] \in TopicMessage
    BY <1>1
  <2>3. CASE tq[v][i].op = "SJOIN"
    BY <1>5, <2>1, <2>3 DEF Worth
  <2>4. CASE tq[v][i].op = "TOPIC"
    BY <1>5, <2>1, <2>4 DEF Worth
  <2>5. CASE tq[v][i].op = "TBURST"
    <3>1. tq[v][i].ts <= ts[v[1]] /\ tq[v][i].ts \in Nat
      BY <1>5, <2>1, <2>2, <2>5, MessageIs DEF Worth
    <3>2. \/ ts[v[2]] <= tq[v][i].ts
          \/ \E j \in DOMAIN tq[v] : tq[v][j].op = "SJOIN" /\ tq[v][j].ts <= tq[v][i].ts
      BY <2>5 DEF Leading, Led
    <3>3. \A j \in DOMAIN tq[v] : tq[v][j].op = "SJOIN" => tq[v][j].ts \in Nat
      <4>1. \A j \in DOMAIN tq[v] : tq[v][j] \in TopicMessage
        BY <1>1
      <4> QED BY <4>1, MessageIs
    <3>4. CASE ts[v[2]] <= tq[v][i].ts
      BY <1>2, <3>1, <3>4
    <3>5. CASE \E j \in DOMAIN tq[v] : tq[v][j].op = "SJOIN" /\ tq[v][j].ts <= tq[v][i].ts
      <4>1. PICK j \in DOMAIN tq[v] : tq[v][j].op = "SJOIN" /\ tq[v][j].ts <= tq[v][i].ts
        BY <3>5
      <4>2. tq[v][j].ts <= ts[v[1]]
        BY <1>2, <3>1, <3>3, <4>1
      <4> QED BY <4>1, <4>2
    <3> QED BY <3>2, <3>4, <3>5
  <2> QED BY <2>2, <2>3, <2>4, <2>5, MessageIs
<1> QED BY <1>6, <1>7 DEF Gets

LEMMA LeadingKept ==
  ASSUME TopicTypeOK, BothWays, Leading, up' = up,
         NEW f \in [Times -> Told], Level(f),
         NEW w \in up, tq[w] # << >>, NEW t \in Nat, t <= ts[w[2]],
         ts' = [ts EXCEPT ![w[2]] = t],
         Head(tq[w]).op = "SJOIN" => t <= Head(tq[w]).ts,
         NEW m \in TopicMessage, m.op = "TBURST" => m.ts = ts[w[2]],
         tq' = Rest(w) \/ tq' = Put(Rest(w), Out(w[2], w[1]), m)
  PROVE  Leading'
<1>1. /\ w \in Wires /\ up \subseteq Wires /\ w[2] \in Holders /\ w[1] # w[2]
      /\ \A v \in Wires : tq[v] \in Seq(TopicMessage)
  BY WireEnds DEF TopicTypeOK
<1>2. \A v \in Wires : v[2] \in Holders /\ ts[v[2]] \in Nat
  <2>1. \A v \in Wires : v[2] \in Holders
    BY WireEnds
  <2> QED BY <2>1, TopicBounds DEF TopicTypeOK
<1>3. \A v \in Wires : ts'[v[2]] = IF v[2] = w[2] THEN t ELSE ts[v[2]]
  BY <1>2 DEF TopicTypeOK
<1>4. ASSUME NEW v \in up PROVE Led(ts'[v[2]], tq'[v])
  <2>1. v \in Wires /\ ts'[v[2]] \in Nat /\ ts'[v[2]] <= ts[v[2]] /\ tq[v] \in Seq(TopicMessage)
    BY <1>1, <1>2, <1>3
  <2>2. Led(ts[v[2]], tq[v])
    BY DEF Leading
  <2>3. CASE v = w
    <3>1. tq'[w] = Tail(tq[w])
      BY PassedOn, NotPassedOn
    <3>2. Led(t, Tail(tq[w]))
      BY <1>1, <1>2, <2>2, <2>3, LedTail
    <3> QED BY <1>1, <1>3, <2>3, <3>1, <3>2
  <2>4. CASE v # w /\ tq'[v] = tq[v]
    BY <1>2, <2>1, <2>2, <2>4, LedBy
  <2>5. CASE v \in Out(w[2], w[1]) /\ tq'[v] = Append(tq[v], m)
    <3>1. v[1] = w[2] /\ v[2] # w[2]
      BY <2>1, <2>5, WireEnds DEF Out
    <3>2. ts'[v[2]] = ts[v[2]]
      BY <1>3, <2>1, <3>1
    <3>3. \/ ts[v[2]] <= ts[w[2]]
          \/ \E j \in DOMAIN tq[v] : tq[v][j].op = "SJOIN" /\ tq[v][j].ts <= ts[w[2]]
      BY <3>1, Beneath
    <3>4. Led(ts[v[2]], Append(tq[v], m))
      BY <1>2, <2>1, <2>2, <3>3, LedAppend
    <3> QED BY <2>5, <3>2, <3>4
  <2> QED BY <2>1, <2>3, <2>4, <2>5, PassedOn, NotPassedOn
<1> QED BY <1>4 DEF Leading

\* Everyone linked has the same TS while a topic spreads.
LEMMA SameBorn ==
  ASSUME TopicTypeOK, BothWays, Leading, Calm, Spreading \/ Still,
         NEW f \in [Times -> Told], Level(f), NEW v \in up
  PROVE  ts[v[1]] = ts[v[2]]
<1>1. /\ v \in Wires /\ Back(v) \in Wires /\ Back(v) \in up
      /\ Back(v)[1] = v[2] /\ Back(v)[2] = v[1] /\ v[1] \in Holders /\ v[2] \in Holders
  BY WireEnds DEF BothWays, TopicTypeOK
<1>2. \A u \in Wires : \A i \in DOMAIN tq[u] : tq[u][i].op = "TOPIC"
  BY DEF Calm, Still
<1>3. ts[v[2]] <= ts[v[1]]
  BY <1>1, <1>2, Beneath
<1>4. ts[v[1]] <= ts[v[2]]
  BY <1>1, <1>2, Beneath
<1>5. ts[v[1]] \in Nat /\ ts[v[2]] \in Nat
  BY <1>1, TopicBounds DEF TopicTypeOK
<1> QED BY <1>3, <1>4, <1>5

-----------------------------------------------------------------------------
(* Types, and what needs no more *)

LEMMA ConcatOne ==
  ASSUME NEW S, NEW j \in S, NEW b \in S
  PROVE  <<j>> \o <<b>> = <<j, b>>
<1> DEFINE x == <<j>> \o <<b>>
           y == <<j, b>>
<1>1. x \in Seq(S) /\ Len(x) = 2 /\ x[1] = j /\ x[2] = b
  OBVIOUS
<1>2. y \in Seq(S) /\ Len(y) = 2 /\ y[1] = j /\ y[2] = b
  OBVIOUS
<1> HIDE DEF x, y
<1>3. \A i \in 1..Len(x) : x[i] = y[i]
  <2>1. \A i \in 1..2 : i = 1 \/ i = 2
    OBVIOUS
  <2> QED BY <1>1, <1>2, <2>1
<1>4. x = y
  BY <1>1, <1>2, <1>3, SeqEqual
<1> QED BY <1>4 DEF x, y

LEMMA BurstIs ==
  ASSUME TopicTypeOK, NEW s \in Holders
  PROVE  /\ TopicBurst(s) \in Seq(TopicMessage)
         /\ 1 \in DOMAIN TopicBurst(s) /\ TopicBurst(s)[1] = [op |-> "SJOIN", ts |-> ts[s]]
         /\ at[s] > 0 => 2 \in DOMAIN TopicBurst(s) /\ TopicBurst(s)[2] = Tburst(s)
         /\ \A i \in DOMAIN TopicBurst(s) :
              i = 1 \/ (i = 2 /\ at[s] > 0)
<1>1. /\ ts[s] \in Born /\ at[s] \in 0..MaxTime /\ topic[s] \in Topics \cup {Unset}
      /\ MaxTime \in Nat
  BY TopicBounds DEF TopicTypeOK
<1>2. [op |-> "SJOIN", ts |-> ts[s]] \in TopicMessage
  BY <1>1 DEF TopicMessage
<1>3. CASE at[s] > 0
  <2>1. at[s] \in 1..MaxTime
    BY <1>1, <1>3
  <2>2. Tburst(s) \in TopicMessage
    BY <1>1, <2>1 DEF Tburst, TopicMessage
  <2> HIDE DEF Tburst
  <2> DEFINE j == [op |-> "SJOIN", ts |-> ts[s]]
             b == Tburst(s)
  <2>3. TopicBurst(s) = <<j>> \o <<b>>
    BY <1>3 DEF TopicBurst
  <2>4. j \in TopicMessage /\ b \in TopicMessage
    BY <1>2, <2>2
  <2> HIDE DEF j, b
  <2>5. <<j>> \o <<b>> = <<j, b>>
    BY <2>4, ConcatOne
  <2>6. <<j, b>> \in Seq(TopicMessage) /\ DOMAIN <<j, b>> = {1, 2}
        /\ <<j, b>>[1] = j /\ <<j, b>>[2] = b
    BY <2>4
  <2> QED BY <1>3, <2>3, <2>5, <2>6 DEF j, b
<1>4. CASE ~(at[s] > 0)
  <2> DEFINE j == [op |-> "SJOIN", ts |-> ts[s]]
  <2>1. TopicBurst(s) = <<j>> \o << >>
    BY <1>4 DEF TopicBurst
  <2>2. j \in TopicMessage
    BY <1>2
  <2> HIDE DEF j
  <2>3. <<j>> \o << >> = <<j>>
    OBVIOUS
  <2>4. <<j>> \in Seq(TopicMessage) /\ DOMAIN <<j>> = {1} /\ <<j>>[1] = j
    BY <2>2
  <2> QED BY <1>4, <2>1, <2>3, <2>4 DEF j
<1> QED BY <1>3, <1>4

LEMMA FrameInit == TopicInit => Frame
<1> SUFFICES ASSUME TopicInit PROVE Frame
  OBVIOUS
<1>1. 1 \in 1..MaxTime /\ 0 \in 0..MaxTime /\ 0 \in 0..MaxCuts /\ 0 \in 0..MaxSets /\ 0 <= 1
  BY TopicBounds
<1>2. << >> \in Seq(TopicMessage) /\ DOMAIN << >> = {}
  BY EmptySeq
<1>3. TopicTypeOK
  <2>1. at \in [Holders -> 0..MaxTime] /\ now \in 1..MaxTime
    BY <1>1 DEF TopicInit
  <2>2. tq \in [Wires -> Seq(TopicMessage)]
    BY <1>2 DEF TopicInit
  <2>3. topic \in [Holders -> Topics \cup {Unset}] /\ ts \in [Holders -> Born] /\ up \subseteq Wires
    BY DEF TopicInit
  <2>4. cuts \in 0..MaxCuts /\ sets \in 0..MaxSets /\ {met, dropped} \subseteq BOOLEAN
    BY <1>1 DEF TopicInit
  <2> QED BY <2>1, <2>2, <2>3, <2>4 DEF TopicTypeOK
<1>4. BothWays
  BY DEF TopicInit, BothWays
<1>5. Timely
  BY <1>1, <1>2 DEF TopicInit, Timely
<1> QED BY <1>3, <1>4, <1>5 DEF Frame

LEMMA FrameSecond == ASSUME Frame, Second PROVE Frame'
<1>1. now' \in 1..MaxTime /\ now <= now' /\ now \in Nat /\ now' \in Nat
  BY TopicBounds DEF Frame, TopicTypeOK, Second
<1>2. TopicTypeOK'
  BY <1>1 DEF Frame, TopicTypeOK, Second
<1>3. BothWays'
  BY DEF Frame, BothWays, Second
<1>4. Timely'
  <2>1. \A s \in Holders : at[s] \in Nat
    BY TopicBounds DEF Frame, TopicTypeOK
  <2>2. \A w \in Wires : \A i \in DOMAIN tq[w] : tq[w][i].op = "TBURST" => tq[w][i].at \in Nat
    <3>1. \A w \in Wires : \A i \in DOMAIN tq[w] : tq[w][i] \in TopicMessage
      BY DEF Frame, TopicTypeOK
    <3>2. \A v \in Times : v \in Nat
      BY TopicBounds DEF Times
    <3> QED BY <3>1, <3>2, MessageIs
  <2>3. \A s \in Holders : at[s] <= now'
    BY <1>1, <2>1 DEF Frame, Timely
  <2>4. \A w \in Wires : \A i \in DOMAIN tq[w] : tq[w][i].op = "TBURST" => tq[w][i].at <= now'
    BY <1>1, <2>2 DEF Frame, Timely
  <2> QED BY <2>3, <2>4 DEF Timely, Second
<1> QED BY <1>2, <1>3, <1>4 DEF Frame

LEMMA FrameSet ==
  ASSUME Frame, NEW s \in Holders, NEW t \in Topics \cup {Unset}, SetTopic(s, t)
  PROVE  Frame'
<1> DEFINE m == [op |-> "TOPIC", text |-> t]
<1>1. m \in TopicMessage /\ m.op = "TOPIC"
  BY DEF TopicMessage
<1>2. /\ now \in 1..MaxTime /\ now \in 0..MaxTime /\ now <= now /\ now \in Nat
      /\ sets' \in 0..MaxSets
  BY TopicBounds DEF Frame, TopicTypeOK, SetTopic
<1> HIDE DEF m
<1>3. \A w \in Wires : tq'[w] = IF w \in Out(s, s) THEN Append(tq[w], m) ELSE tq[w]
  BY DEF SetTopic, Put, m
<1>4. Out(s, s) \subseteq up /\ up' = up /\ up \subseteq Wires
  BY DEF Out, SetTopic, Frame, TopicTypeOK
<1>5. tq' \in [Wires -> Seq(TopicMessage)]
  <2>1. \A w \in Wires : Append(tq[w], m) \in Seq(TopicMessage) /\ tq[w] \in Seq(TopicMessage)
    BY <1>1 DEF Frame, TopicTypeOK
  <2> QED BY <2>1 DEF SetTopic, Put, m
<1>6. TopicTypeOK'
  <2>1. topic' \in [Holders -> Topics \cup {Unset}] /\ ts' \in [Holders -> Born]
    BY DEF SetTopic, Frame, TopicTypeOK
  <2>2. at' \in [Holders -> 0..MaxTime]
    BY <1>2 DEF SetTopic, Frame, TopicTypeOK
  <2>3. up' \subseteq Wires /\ now' \in 1..MaxTime /\ cuts' \in 0..MaxCuts
    BY <1>2, <1>4 DEF SetTopic, Frame, TopicTypeOK
  <2>4. {met', dropped'} \subseteq BOOLEAN
    BY DEF SetTopic, Frame, TopicTypeOK
  <2> QED BY <1>2, <1>5, <2>1, <2>2, <2>3, <2>4 DEF TopicTypeOK
<1>7. BothWays'
  BY <1>3, <1>4 DEF Frame, BothWays
<1>8. Timely'
  <2>1. \A r \in Holders : at'[r] <= now'
    BY <1>2 DEF SetTopic, Frame, Timely, TopicTypeOK
  <2>2. \A w \in Wires : \A i \in DOMAIN tq'[w] : tq'[w][i].op = "TBURST" =>
          \E j \in DOMAIN tq[w] : tq'[w][i] = tq[w][j]
    <3>1. ASSUME NEW w \in Wires, NEW i \in DOMAIN tq'[w], tq'[w][i].op = "TBURST"
          PROVE  \E j \in DOMAIN tq[w] : tq'[w][i] = tq[w][j]
      <4>1. tq[w] \in Seq(TopicMessage)
        BY <3>1 DEF Frame, TopicTypeOK
      <4>2. CASE tq'[w] = tq[w]
        BY <3>1, <4>2
      <4>3. CASE tq'[w] = Append(tq[w], m)
        <5>1. i = Len(tq[w]) + 1 \/ (i \in DOMAIN tq[w] /\ tq'[w][i] = tq[w][i])
          BY <3>1, <4>1, <4>3
        <5>2. tq'[w][Len(tq[w]) + 1] = m
          BY <4>1, <4>3
        <5> QED BY <1>1, <3>1, <5>1, <5>2
      <4> QED BY <1>3, <3>1, <4>2, <4>3
    <3> QED BY <3>1
  <2> QED BY <2>1, <2>2 DEF SetTopic, Frame, Timely
<1> QED BY <1>6, <1>7, <1>8 DEF Frame

LEMMA FrameEstablish ==
  ASSUME Frame, NEW l \in Wires, Establish(l)
  PROVE  Frame'
<1>1. /\ Back(l) \in Wires /\ Back(Back(l)) = l /\ up \subseteq Wires
      /\ \A w \in Wires : w[1] \in Holders /\ Back(Back(w)) = w
  BY WireEnds DEF Frame, TopicTypeOK
<1>2. \A w \in Wires : tq'[w] = IF w \in {l, Back(l)} THEN TopicBurst(w[1]) ELSE tq[w]
  BY DEF Establish
<1>3. TopicTypeOK'
  <2>1. tq' \in [Wires -> Seq(TopicMessage)]
    <3>1. \A w \in Wires : TopicBurst(w[1]) \in Seq(TopicMessage) /\ tq[w] \in Seq(TopicMessage)
      BY <1>1, BurstIs DEF Frame, TopicTypeOK
    <3> QED BY <3>1 DEF Establish
  <2> QED BY <1>1, <2>1 DEF Frame, TopicTypeOK, Establish
<1>4. BothWays'
  BY <1>1, <1>2 DEF Frame, BothWays, Establish
<1>5. Timely'
  <2>1. \A s \in Holders : at'[s] <= now'
    BY DEF Frame, Timely, Establish
  <2>2. ASSUME NEW w \in Wires, NEW i \in DOMAIN tq'[w], tq'[w][i].op = "TBURST"
        PROVE  tq'[w][i].at <= now
    <3>1. CASE w \notin {l, Back(l)}
      BY <1>2, <2>2, <3>1 DEF Frame, Timely
    <3>2. CASE w \in {l, Back(l)}
      <4>1. tq'[w] = TopicBurst(w[1])
        BY <1>2, <3>2
      <4>2. i = 2 /\ tq'[w][i] = Tburst(w[1])
        <5>1. TopicBurst(w[1])[1] = [op |-> "SJOIN", ts |-> ts[w[1]]]
          BY <1>1, <2>2, BurstIs DEF Frame
        <5>2. TopicBurst(w[1])[1].op = "SJOIN"
          BY <5>1
        <5>3. i # 1
          BY <2>2, <4>1, <5>2
        <5> QED BY <1>1, <2>2, <4>1, <5>3, BurstIs DEF Frame
      <4>3. tq'[w][i].at = at[w[1]]
        BY <4>2 DEF Tburst
      <4> QED BY <1>1, <4>3 DEF Frame, Timely
    <3> QED BY <3>1, <3>2
  <2> QED BY <2>1, <2>2 DEF Timely, Establish
<1> QED BY <1>3, <1>4, <1>5 DEF Frame

LEMMA FrameCut ==
  ASSUME Frame, NEW l \in Wires, Cut(l)
  PROVE  Frame'
<1>1. \A w \in Wires : Back(Back(w)) = w
  BY WireEnds
<1>2. \A w \in Wires : tq'[w] = IF w \in {l, Back(l)} THEN << >> ELSE tq[w]
  BY DEF Cut
<1>3. << >> \in Seq(TopicMessage) /\ DOMAIN << >> = {}
  BY EmptySeq
<1>4. TopicTypeOK'
  <2>1. tq' \in [Wires -> Seq(TopicMessage)]
    BY <1>3 DEF Cut, Frame, TopicTypeOK
  <2>2. cuts' \in 0..MaxCuts
    BY TopicBounds DEF Cut, Frame, TopicTypeOK
  <2> QED BY <2>1, <2>2 DEF Frame, TopicTypeOK, Cut
<1>5. BothWays'
  BY <1>1, <1>2 DEF Frame, BothWays, Cut, TopicTypeOK
<1>6. Timely'
  BY <1>2, <1>3 DEF Frame, Timely, Cut
<1> QED BY <1>4, <1>5, <1>6 DEF Frame

\* What is read, and by whom
LEMMA Reading ==
  ASSUME Frame, NEW w \in Wires, Recv(w)
  PROVE  /\ w \in up /\ tq[w] # << >> /\ Head(tq[w]) \in TopicMessage
         /\ 1 \in DOMAIN tq[w] /\ Head(tq[w]) = tq[w][1] /\ tq[w] \in Seq(TopicMessage)
         /\ w[2] \in Holders /\ w[1] \in Holders
<1>1. tq[w] # << >> /\ tq[w] \in Seq(TopicMessage)
  BY DEF Recv, Frame, TopicTypeOK
<1>2. w \in up
  BY <1>1 DEF Frame, BothWays
<1> QED BY <1>1, <1>2, TailIs, WireEnds

\* The frame, when the reader's channel, topic and time change to what they may be.
LEMMA FrameRead ==
  ASSUME Frame, NEW w \in Wires, Recv(w),
         NEW t \in Born, NEW x \in Topics \cup {Unset}, NEW a \in 0..MaxTime, a <= now,
         ts' = [ts EXCEPT ![w[2]] = t], topic' = [topic EXCEPT ![w[2]] = x],
         at' = [at EXCEPT ![w[2]] = a], dropped' \in BOOLEAN,
         NEW m \in TopicMessage, m.op = "TBURST" => m.at <= now,
         tq' = Rest(w) \/ tq' = Put(Rest(w), Out(w[2], w[1]), m)
  PROVE  Frame'
<1>1. /\ w \in up /\ tq[w] # << >> /\ w[2] \in Holders
      /\ UNCHANGED <<up, now, cuts, sets, met>>
  BY Reading DEF Recv
<1>2. tq' \in [Wires -> Seq(TopicMessage)]
  BY <1>1, PassedOn, NotPassedOn DEF Frame
<1>3. TopicTypeOK'
  BY <1>1, <1>2 DEF Frame, TopicTypeOK
<1>4. BothWays'
  <2>1. ASSUME NEW v \in Wires, v \notin up PROVE tq'[v] = << >>
    <3>1. v # w /\ v \notin Out(w[2], w[1])
      BY <1>1, <2>1 DEF Out
    <3>2. tq'[v] = tq[v]
      BY <1>1, <3>1, PassedOn, NotPassedOn DEF Frame
    <3> QED BY <2>1, <3>2 DEF Frame, BothWays
  <2> QED BY <1>1, <2>1 DEF Frame, BothWays
<1>5. Timely'
  <2>1. \A s \in Holders : at'[s] <= now
    BY <1>1 DEF Frame, Timely, TopicTypeOK
  <2>2. \A v \in Wires : \A i \in DOMAIN tq'[v] :
           tq'[v][i] = m \/ \E j \in DOMAIN tq[v] : tq'[v][i] = tq[v][j]
    BY <1>1, Messages DEF Frame
  <2> QED BY <1>1, <2>1, <2>2 DEF Frame, Timely
<1> QED BY <1>3, <1>4, <1>5 DEF Frame

LEMMA FrameTopic ==
  ASSUME Frame, NEW w \in Wires, Recv(w), RecvTopic(w)
  PROVE  Frame'
<1> DEFINE m == Head(tq[w])
<1>1. /\ w \in up /\ tq[w] # << >> /\ m \in TopicMessage /\ w[2] \in Holders
  BY Reading
<1>2. /\ m.op = "TOPIC" /\ topic' = [topic EXCEPT ![w[2]] = m.text]
      /\ at' = [at EXCEPT ![w[2]] = now] /\ tq' = Put(Rest(w), Out(w[2], w[1]), m)
      /\ ts' = ts /\ dropped' = dropped
  BY DEF RecvTopic
<1>3. m.text \in Topics \cup {Unset}
  BY <1>1, <1>2, MessageIs
<1>4. ts' = [ts EXCEPT ![w[2]] = ts[w[2]]] /\ ts[w[2]] \in Born
  BY <1>1, <1>2 DEF Frame, TopicTypeOK
<1>5. now \in 0..MaxTime /\ now <= now /\ dropped' \in BOOLEAN
  BY <1>2, TopicBounds DEF Frame, TopicTypeOK
<1> HIDE DEF m
<1> QED BY <1>1, <1>2, <1>3, <1>4, <1>5, FrameRead

LEMMA FrameSJoin ==
  ASSUME Frame, NEW w \in Wires, Recv(w), RecvTopicSJoin(w)
  PROVE  Frame'
<1> DEFINE m == Head(tq[w])
           y == w[2]
           older == m.ts < ts[y]
           clears == older /\ topic[y] # Unset
           t == IF older THEN m.ts ELSE ts[y]
           a == IF clears THEN 0 ELSE at[y]
           x == IF clears THEN Unset ELSE topic[y]
           k == [m EXCEPT !.ts = IF older THEN @ ELSE ts[y]]
<1>1. w \in up /\ tq[w] # << >> /\ m \in TopicMessage /\ y \in Holders
  BY Reading
<1>2. /\ m.op = "SJOIN" /\ ts' = [ts EXCEPT ![y] = t] /\ topic' = [topic EXCEPT ![y] = x]
      /\ at' = [at EXCEPT ![y] = a] /\ tq' = Put(Rest(w), Out(y, w[1]), k)
      /\ dropped' = (dropped \/ (older /\ ~clears /\ at[y] > 0))
  BY <1>1 DEF RecvTopicSJoin, Frame, TopicTypeOK
<1>3. /\ at[y] \in 0..MaxTime /\ at[y] <= now /\ now \in Nat /\ 0 \in 0..MaxTime
  BY <1>1, TopicBounds DEF Frame, TopicTypeOK, Timely
<1>4. m.ts \in Born /\ m.ts \in Nat /\ ts[y] \in Born /\ topic[y] \in Topics \cup {Unset}
  BY <1>1, <1>2, MessageIs DEF Frame, TopicTypeOK
<1>5. t \in Born /\ a \in 0..MaxTime /\ a <= now /\ x \in Topics \cup {Unset}
  BY <1>3, <1>4
<1>6. k \in TopicMessage /\ k.op = "SJOIN"
  <2>1. m \in [op : {"SJOIN"}, ts : Born]
    BY <1>1, <1>2 DEF TopicMessage
  <2>2. k = [op |-> "SJOIN", ts |-> t]
    BY <2>1
  <2> QED BY <1>5, <2>2 DEF TopicMessage
<1>7. dropped' \in BOOLEAN
  BY <1>2 DEF Frame, TopicTypeOK
<1> HIDE DEF m, y, t, a, x, k
<1> QED BY <1>1, <1>2, <1>5, <1>6, <1>7, FrameRead DEF y

LEMMA FrameTburst ==
  ASSUME Frame, NEW w \in Wires, Recv(w), RecvTburst(w)
  PROVE  Frame'
<1> DEFINE m == Head(tq[w])
           y == w[2]
<1>1. /\ w \in up /\ tq[w] # << >> /\ m \in TopicMessage /\ y \in Holders
      /\ 1 \in DOMAIN tq[w] /\ m = tq[w][1]
  BY Reading
<1>2. m.op = "TBURST" /\ ts' = ts /\ dropped' = dropped
  BY DEF RecvTburst
<1>3. m.at \in Times /\ m.text \in Topics \cup {Unset} /\ m.at <= now
  BY <1>1, <1>2, MessageIs DEF Frame, Timely
<1>4. /\ ts' = [ts EXCEPT ![y] = ts[y]] /\ ts[y] \in Born /\ dropped' \in BOOLEAN
      /\ at[y] \in 0..MaxTime /\ at[y] <= now /\ topic[y] \in Topics \cup {Unset}
      /\ topic = [topic EXCEPT ![y] = topic[y]] /\ at = [at EXCEPT ![y] = at[y]]
  BY <1>1, <1>2 DEF Frame, TopicTypeOK, Timely
<1>5. CASE Accepts(y, m)
  <2>1. /\ topic' = [topic EXCEPT ![y] = m.text] /\ at' = [at EXCEPT ![y] = m.at]
        /\ tq' = Put(Rest(w), Out(y, w[1]), m)
    BY <1>5 DEF RecvTburst
  <2>2. m.at \in 0..MaxTime
    BY <1>3 DEF Times
  <2> HIDE DEF m
  <2> QED BY <1>1, <1>2, <1>3, <1>4, <2>1, <2>2, FrameRead
<1>6. CASE ~Accepts(y, m)
  <2>1. topic' = topic /\ at' = at /\ tq' = Rest(w)
    BY <1>6 DEF RecvTburst
  <2>2. m.op = "TBURST" => m.at <= now
    BY <1>3
  <2> HIDE DEF m
  <2> QED BY <1>1, <1>4, <2>1, <2>2, FrameRead
<1> QED BY <1>5, <1>6

-----------------------------------------------------------------------------
(* The actions *)

LEMMA StoryIs ==
  ASSUME Frame, NEW f \in [Times -> Told], Story(f)
  PROVE  /\ now \in Times /\ \A v \in Times : f[v].no \in Nat /\ v \in Nat
         /\ \A v \in Times : v <= now => f[v].no <= f[now].no
         /\ \A s \in Holders : at[s] \in Times /\ at[s] <= now /\ f[at[s]].no <= f[now].no
         /\ \A s \in Holders : ts[s] \in Nat
<1>1. 1..MaxTime \subseteq Times /\ 0..MaxTime = Times /\ \A v \in Times : v \in Nat
  BY TopicBounds DEF Times
<1>2. now \in Times /\ \A s \in Holders : at[s] \in Times /\ at[s] <= now
  BY <1>1 DEF Frame, TopicTypeOK, Timely
<1>3. \A v \in Times : f[v].no \in Nat
  BY DEF Told
<1>4. \A s \in Holders : ts[s] \in Nat
  BY TopicBounds DEF Frame, TopicTypeOK
<1> QED BY <1>1, <1>2, <1>3, <1>4 DEF Story

\* The texts, when a message is read.
LEMMA SaidRead ==
  ASSUME Frame, NEW f \in [Times -> Told], Said(f), NEW w \in Wires, Recv(w),
         NEW x, NEW a \in Times, x = f[a].text,
         topic' = [topic EXCEPT ![w[2]] = x], at' = [at EXCEPT ![w[2]] = a],
         NEW m \in TopicMessage, SaidIn(f, m),
         tq' = Rest(w) \/ tq' = Put(Rest(w), Out(w[2], w[1]), m)
  PROVE  Said(f)'
<1>1. now' = now /\ w \in up /\ tq[w] # << >> /\ w[2] \in Holders
  BY Reading DEF Recv
<1>2. \A s \in Holders : topic'[s] = f[at'[s]].text
  BY <1>1 DEF Said, Frame, TopicTypeOK
<1>3. \A v \in Wires : \A i \in DOMAIN tq'[v] : SaidIn(f, tq'[v][i])
  <2>1. \A v \in Wires : \A i \in DOMAIN tq'[v] :
           tq'[v][i] = m \/ \E j \in DOMAIN tq[v] : tq'[v][i] = tq[v][j]
    BY <1>1, Messages DEF Frame
  <2> QED BY <2>1 DEF Said
<1>4. \A u : SaidIn(f, u)' <=> SaidIn(f, u)
  BY <1>1 DEF SaidIn
<1> QED BY <1>2, <1>3, <1>4 DEF Said

LEMMA RecvTopicCore ==
  ASSUME Frame, NEW f \in [Times -> Told], Core(f), NEW w \in Wires, Recv(w), RecvTopic(w)
  PROVE  Frame' /\ Core(f)'
<1> DEFINE m == Head(tq[w])
           y == w[2]
<1>1. /\ w \in up /\ tq[w] # << >> /\ m \in TopicMessage /\ 1 \in DOMAIN tq[w]
      /\ m = tq[w][1] /\ y \in Holders /\ UNCHANGED <<up, now, cuts, sets, met>>
  BY Reading DEF Recv
<1>2. /\ m.op = "TOPIC" /\ topic' = [topic EXCEPT ![y] = m.text] /\ at' = [at EXCEPT ![y] = now]
      /\ tq' = Put(Rest(w), Out(y, w[1]), m) /\ ts' = ts /\ dropped' = dropped
  BY DEF RecvTopic
<1>3. m.text = f[now].text /\ m.text \in Topics \cup {Unset} /\ SaidIn(f, m)
  BY <1>1, <1>2, MessageIs DEF Core, Said, SaidIn
<1>4. Spreading
  BY <1>1, <1>2 DEF Spreading
<1>5. /\ now \in Times /\ \A v \in Times : f[v].no \in Nat
      /\ at[y] \in Times /\ f[at[y]].no <= f[now].no /\ ts[y] \in Nat
  BY <1>1, StoryIs DEF Core
<1>6. ts' = [ts EXCEPT ![y] = ts[y]] /\ ts[y] \in Born /\ ts[y] <= ts[y]
  BY <1>1, <1>2, <1>5 DEF Frame, TopicTypeOK
<1>7. now \in 0..MaxTime /\ now <= now /\ dropped' \in BOOLEAN
  BY <1>2, TopicBounds DEF Frame, TopicTypeOK
<1> HIDE DEF m, y
<1>8. Frame'
  BY <1>1, <1>2, <1>3, <1>6, <1>7, FrameRead DEF y
<1>9. Calm'
  BY <1>1, <1>2, CalmKept DEF Frame, Core, y, m
<1>10. Leading'
  BY <1>1, <1>2, <1>5, <1>6, LeadingKept DEF Frame, Core, y, m
<1>11. Story(f)'
  BY <1>1 DEF Story, Core
<1>12. Said(f)'
  BY <1>1, <1>2, <1>3, <1>5, SaidRead DEF Core, y
<1>13. Level(f)'
  <2> DEFINE o == Of(f, y)
             p == <<ts[y], f[now].no>>
             h == Worth(f, ts[y], f[now].no, Head(tq[w]))
  <2>1. h = p /\ \A v \in Wires : Worth(f, ts[v[2]], f[now].no, m) = <<ts[v[2]], f[now].no>>
    BY <1>2 DEF Worth, m
  <2>2. Below(o, p) /\ Below(p, p)
    BY <1>5 DEF Below, Of
  <2>3. \A v \in Out(y, w[1]) : Worth(f, ts[v[2]], f[now].no, m) = p
    <3>1. ASSUME NEW v \in Out(y, w[1]) PROVE Worth(f, ts[v[2]], f[now].no, m) = p
      <4>1. v \in up /\ v[1] = y /\ v \in Wires
        BY <3>1 DEF Out, Frame, TopicTypeOK
      <4>2. ts[v[1]] = ts[v[2]]
        BY <1>4, <4>1, SameBorn DEF Frame, Core
      <4> QED BY <2>1, <4>1, <4>2
    <3> QED BY <3>1
  <2>4. \E k \in TopicMessage :
              /\ tq' = Put(Rest(w), Out(y, w[1]), k)
              /\ \A v \in Out(y, w[1]) :
                   LET e == Worth(f, ts[v[2]], f[now].no, k) IN
                   Below(e, p) /\ (Below(p, o) \/ Below(p, e))
    BY <1>1, <1>2, <2>2, <2>3
  <2>5. /\ o = Of(f, w[2]) /\ p = <<ts[y], f[now].no>> /\ p = <<ts[w[2]], f[now].no>>
        /\ h = Worth(f, ts[w[2]], f[now].no, Head(tq[w]))
        /\ Below(o, p) /\ Below(h, p) /\ (Below(p, o) \/ Below(p, h))
    BY <2>1, <2>2 DEF y
  <2> HIDE DEF o, p, h
  <2>6. TopicTypeOK /\ TopicTypeOK' /\ BothWays /\ Level(f) /\ up' = up /\ now' = now
    BY <1>1, <1>8 DEF Frame, Core
  <2>7. /\ w \in up /\ tq[w] # << >> /\ ts[y] \in Nat /\ now \in Times
        /\ ts' = [ts EXCEPT ![w[2]] = ts[y]] /\ at' = [at EXCEPT ![w[2]] = now]
        /\ ts[y] = ts[w[2]]
    BY <1>1, <1>2, <1>5, <1>6 DEF y
  <2>8. \E k \in TopicMessage :
              /\ tq' = Put(Rest(w), Out(w[2], w[1]), k)
              /\ \A v \in Out(w[2], w[1]) :
                   LET e == Worth(f, ts[v[2]], f[now].no, k) IN
                   Below(e, p) /\ (Below(p, o) \/ Below(p, e))
    BY <2>4 DEF y
  <2> HIDE DEF y
  <2> QED BY <2>5, <2>6, <2>7, <2>8, Relayed
<1> QED BY <1>8, <1>9, <1>10, <1>11, <1>12, <1>13 DEF Core

LEMMA RecvSJoinCore ==
  ASSUME Frame, NEW f \in [Times -> Told], Core(f), NEW w \in Wires, Recv(w),
         RecvTopicSJoin(w)
  PROVE  Frame' /\ (~dropped' => Core(f)')
<1> DEFINE m == Head(tq[w])
           y == w[2]
           older == m.ts < ts[y]
           clears == older /\ topic[y] # Unset
           t == IF older THEN m.ts ELSE ts[y]
           a == IF clears THEN 0 ELSE at[y]
           x == IF clears THEN Unset ELSE topic[y]
           k == [m EXCEPT !.ts = IF older THEN @ ELSE ts[y]]
<1>1. /\ w \in up /\ tq[w] # << >> /\ m \in TopicMessage /\ 1 \in DOMAIN tq[w]
      /\ m = tq[w][1] /\ y \in Holders /\ UNCHANGED <<up, now, cuts, sets, met>>
  BY Reading DEF Recv
<1>2. /\ m.op = "SJOIN" /\ ts' = [ts EXCEPT ![y] = t] /\ topic' = [topic EXCEPT ![y] = x]
      /\ at' = [at EXCEPT ![y] = a] /\ tq' = Put(Rest(w), Out(y, w[1]), k)
      /\ dropped' = (dropped \/ (older /\ ~clears /\ at[y] > 0))
  BY <1>1 DEF RecvTopicSJoin, Frame, TopicTypeOK
<1>3. /\ now \in Times /\ \A v \in Times : f[v].no \in Nat
      /\ at[y] \in Times /\ at[y] \in Nat /\ at[y] <= now /\ ts[y] \in Nat /\ now \in Nat
  BY <1>1, StoryIs DEF Core
<1>4. m.ts \in Born /\ m.ts \in Nat /\ ts[y] \in Born /\ topic[y] \in Topics \cup {Unset}
  BY <1>1, <1>2, MessageIs DEF Frame, TopicTypeOK
<1>5. 0 \in Times /\ Times = 0..MaxTime /\ 0 <= now
  BY <1>3, TopicBounds DEF Times
<1>6. /\ t \in Born /\ t \in Nat /\ t <= ts[y] /\ t <= m.ts
      /\ a \in Times /\ a <= now /\ x \in Topics \cup {Unset}
  BY <1>3, <1>4, <1>5
<1>7. k \in TopicMessage /\ k.op = "SJOIN" /\ k.ts = t
  <2>1. m \in [op : {"SJOIN"}, ts : Born]
    BY <1>1, <1>2 DEF TopicMessage
  <2>2. k = [op |-> "SJOIN", ts |-> t]
    BY <2>1
  <2> QED BY <1>6, <2>2 DEF TopicMessage
<1>8. dropped' \in BOOLEAN
  BY <1>2 DEF Frame, TopicTypeOK
<1> HIDE DEF m, y, t, a, x, k
<1>9. Frame'
  BY <1>1, <1>2, <1>5, <1>6, <1>7, <1>8, FrameRead DEF y
<1> SUFFICES ASSUME ~dropped' PROVE Core(f)'
  BY <1>9
<1>10. Calm'
  BY <1>1, <1>2, <1>7, CalmKept DEF Frame, Core, y, m
<1>11. Leading'
  BY <1>1, <1>2, <1>6, <1>7, LeadingKept DEF Frame, Core, y, m
<1>12. Story(f)'
  BY <1>1 DEF Story, Core
<1>13. f[0].no = 0 /\ f[0].text = Unset
  BY DEF Core, Story
<1>14. x = f[a].text
  BY <1>1, <1>13 DEF Core, Said, x, a
<1>15. Said(f)'
  <2>1. SaidIn(f, k)
    BY <1>7 DEF SaidIn
  <2> QED BY <1>1, <1>2, <1>6, <1>7, <1>14, <2>1, SaidRead DEF Core, y
<1>16. Level(f)'
  <2> DEFINE o == Of(f, y)
             p == <<t, f[a].no>>
             h == Worth(f, ts[y], f[now].no, Head(tq[w]))
  <2>1. h = <<m.ts, 0>> /\ \A v \in Wires : Worth(f, ts[v[2]], f[now].no, k) = <<t, 0>>
    BY <1>2, <1>7 DEF Worth, m
  <2>2. o = <<ts[y], f[at[y]].no>> /\ f[at[y]].no \in Nat
    BY <1>3 DEF Of
  <2>3. /\ Below(o, p) /\ Below(h, p) /\ (Below(p, o) \/ Below(p, h))
        /\ Below(<<t, 0>>, p) /\ (Below(p, o) \/ Below(p, <<t, 0>>))
    <3>1. CASE m.ts < ts[y]
      <4>1. t = m.ts /\ a = 0
        <5>1. t = m.ts
          BY <3>1 DEF t
        <5>2. CASE topic[y] # Unset
          BY <3>1, <5>1, <5>2 DEF a
        <5>3. CASE topic[y] = Unset
          <6>1. ~(at[y] > 0) /\ a = at[y]
            BY <1>2, <3>1, <5>3 DEF a
          <6> QED BY <1>3, <5>1, <6>1
        <5> QED BY <5>2, <5>3
      <4>2. p = <<m.ts, 0>>
        BY <1>13, <4>1
      <4> QED BY <1>3, <1>4, <2>1, <2>2, <3>1, <4>1, <4>2 DEF Below
    <3>2. CASE ~(m.ts < ts[y])
      <4>1. t = ts[y] /\ a = at[y]
        BY <3>2 DEF t, a
      <4>2. p = o
        BY <2>2, <4>1
      <4>3. Below(o, o) /\ Below(<<ts[y], 0>>, o) /\ Below(<<m.ts, 0>>, o)
        BY <1>3, <1>4, <2>2, <3>2 DEF Below
      <4> QED BY <2>1, <4>1, <4>2, <4>3
    <3> QED BY <3>1, <3>2
  <2>4. \A v \in Out(y, w[1]) : Worth(f, ts[v[2]], f[now].no, k) = <<t, 0>>
    BY <2>1 DEF Out, Frame, TopicTypeOK
  <2>5. ~Spreading
    <3>1. w \in Wires /\ 1 \in DOMAIN tq[w] /\ tq[w][1].op # "TOPIC"
      BY <1>1, <1>2
    <3> QED BY <3>1 DEF Core, Calm
  <2>6. TopicTypeOK /\ TopicTypeOK' /\ BothWays /\ Level(f) /\ up' = up /\ now' = now
    BY <1>1, <1>9 DEF Frame, Core
  <2>7. /\ w \in up /\ tq[w] # << >> /\ t \in Nat /\ a \in Times
        /\ ts' = [ts EXCEPT ![w[2]] = t] /\ at' = [at EXCEPT ![w[2]] = a]
        /\ (t = ts[w[2]] \/ ~Spreading)
    BY <1>1, <1>2, <1>6, <2>5 DEF y
  <2>8. \E g \in TopicMessage :
              /\ tq' = Put(Rest(w), Out(w[2], w[1]), g)
              /\ \A v \in Out(w[2], w[1]) :
                   LET e == Worth(f, ts[v[2]], f[now].no, g) IN
                   Below(e, p) /\ (Below(p, o) \/ Below(p, e))
    BY <1>2, <1>7, <2>3, <2>4 DEF y
  <2>9. /\ o = Of(f, w[2]) /\ p = <<t, f[a].no>>
        /\ h = Worth(f, ts[w[2]], f[now].no, Head(tq[w]))
        /\ Below(o, p) /\ Below(h, p) /\ (Below(p, o) \/ Below(p, h))
    BY <2>3 DEF y
  <2> HIDE DEF o, p, h, y
  <2> QED BY <2>6, <2>7, <2>8, <2>9, Relayed
<1> QED BY <1>10, <1>11, <1>12, <1>15, <1>16 DEF Core

LEMMA RecvTburstCore ==
  ASSUME Frame, NEW f \in [Times -> Told], Core(f), NEW w \in Wires, Recv(w), RecvTburst(w)
  PROVE  Frame' /\ Core(f)'
<1> DEFINE m == Head(tq[w])
           y == w[2]
           a == IF Accepts(y, m) THEN m.at ELSE at[y]
           x == IF Accepts(y, m) THEN m.text ELSE topic[y]
<1>1. /\ w \in up /\ tq[w] # << >> /\ m \in TopicMessage /\ 1 \in DOMAIN tq[w]
      /\ m = tq[w][1] /\ y \in Holders /\ UNCHANGED <<up, now, cuts, sets, met>>
      /\ tq[w] \in Seq(TopicMessage)
  BY Reading DEF Recv
<1>2. /\ m.op = "TBURST" /\ ts' = ts /\ topic' = [topic EXCEPT ![y] = x]
      /\ at' = [at EXCEPT ![y] = a] /\ dropped' = dropped
      /\ tq' = IF Accepts(y, m) THEN Put(Rest(w), Out(y, w[1]), m) ELSE Rest(w)
  <2>1. m.op = "TBURST" /\ ts' = ts /\ dropped' = dropped
    BY DEF RecvTburst
  <2>2. CASE Accepts(y, m)
    BY <2>1, <2>2 DEF RecvTburst
  <2>3. CASE ~Accepts(y, m)
    <3>1. tq' = Rest(w) /\ topic' = topic /\ at' = at
      BY <2>3 DEF RecvTburst
    <3>2. x = topic[y] /\ a = at[y]
      BY <2>3
    <3> QED BY <1>1, <2>1, <2>3, <3>1, <3>2 DEF Frame, TopicTypeOK
  <2> QED BY <2>2, <2>3
<1>3. /\ now \in Times /\ \A v \in Times : f[v].no \in Nat /\ v \in Nat
      /\ at[y] \in Times /\ at[y] <= now /\ ts[y] \in Nat
  BY <1>1, StoryIs DEF Core
<1>4. /\ m.ts \in Nat /\ m.at \in Times /\ m.text \in Topics \cup {Unset} /\ m.at <= now
      /\ m.text = f[m.at].text
  <2>1. m.at <= now
    BY <1>1, <1>2 DEF Frame, Timely
  <2>2. m.text = f[m.at].text
    <3>1. SaidIn(f, m)
      BY <1>1 DEF Core, Said
    <3> QED BY <1>2, <3>1 DEF SaidIn
  <2> QED BY <1>1, <1>2, <2>1, <2>2, MessageIs
<1>5. ts[y] <= m.ts
  <2>1. Led(ts[y], tq[w])
    BY <1>1 DEF Core, Leading
  <2>2. \A j \in DOMAIN tq[w] : ~(j < 1)
    BY <1>1
  <2> QED BY <1>1, <1>2, <2>1, <2>2 DEF Led
<1>6. Accepts(y, m) <=> m.ts = ts[y] /\ m.at > at[y]
  BY <1>3, <1>4, <1>5 DEF Accepts
<1>7. /\ a \in Times /\ a <= now /\ x \in Topics \cup {Unset} /\ x = f[a].text
      /\ ts[y] \in Born /\ Times = 0..MaxTime
  <2>1. topic[y] \in Topics \cup {Unset} /\ topic[y] = f[at[y]].text /\ ts[y] \in Born
    BY <1>1 DEF Frame, TopicTypeOK, Core, Said
  <2> QED BY <1>3, <1>4, <2>1 DEF Times
<1>8. dropped' \in BOOLEAN /\ ts' = [ts EXCEPT ![y] = ts[y]] /\ ts[y] <= ts[y]
  BY <1>1, <1>2, <1>3 DEF Frame, TopicTypeOK
<1> HIDE DEF a, x, y, m
<1>9. Frame'
  <2>1. tq' = Rest(w) \/ tq' = Put(Rest(w), Out(w[2], w[1]), m)
    BY <1>2 DEF y
  <2>2. m.op = "TBURST" => m.at <= now
    BY <1>4
  <2>3. /\ ts' = [ts EXCEPT ![w[2]] = ts[y]] /\ topic' = [topic EXCEPT ![w[2]] = x]
        /\ at' = [at EXCEPT ![w[2]] = a]
    BY <1>2, <1>8 DEF y
  <2> QED BY <1>1, <1>7, <1>8, <2>1, <2>2, <2>3, FrameRead
<1>10. Calm'
  <2>1. tq' = Rest(w) \/ tq' = Put(Rest(w), Out(w[2], w[1]), m)
    BY <1>2 DEF y
  <2>2. m.op = Head(tq[w]).op
    BY DEF m
  <2> QED BY <1>1, <2>1, <2>2, CalmKept DEF Frame, Core
<1>11. Story(f)'
  BY <1>1 DEF Story, Core
<1>12. Said(f)'
  <2>1. tq' = Rest(w) \/ tq' = Put(Rest(w), Out(w[2], w[1]), m)
    BY <1>2 DEF y
  <2>2. SaidIn(f, m)
    BY <1>1 DEF Core, Said
  <2>3. topic' = [topic EXCEPT ![w[2]] = x] /\ at' = [at EXCEPT ![w[2]] = a]
    BY <1>2 DEF y
  <2> QED BY <1>1, <1>7, <2>1, <2>2, <2>3, SaidRead DEF Core
<1>13. Leading'
  <2>1. CASE Accepts(y, m)
    <3>1. m.op = "TBURST" => m.ts = ts[w[2]]
      BY <1>6, <2>1 DEF y
    <3>2. tq' = Put(Rest(w), Out(w[2], w[1]), m)
      BY <1>2, <2>1 DEF y
    <3>3. /\ ts' = [ts EXCEPT ![w[2]] = ts[y]] /\ ts[y] <= ts[w[2]] /\ ts[y] \in Nat
          /\ Head(tq[w]).op = "SJOIN" => ts[y] <= Head(tq[w]).ts
      BY <1>2, <1>3, <1>8 DEF y, m
    <3> QED BY <1>1, <3>1, <3>2, <3>3, LeadingKept DEF Frame, Core
  <2>2. CASE ~Accepts(y, m)
    <3> DEFINE g == [op |-> "TOPIC", text |-> Unset]
    <3>1. g \in TopicMessage /\ (g.op = "TBURST" => g.ts = ts[w[2]])
      BY DEF TopicMessage
    <3>2. tq' = Rest(w)
      BY <1>2, <2>2
    <3>3. /\ ts' = [ts EXCEPT ![w[2]] = ts[y]] /\ ts[y] <= ts[w[2]] /\ ts[y] \in Nat
          /\ Head(tq[w]).op = "SJOIN" => ts[y] <= Head(tq[w]).ts
      BY <1>2, <1>3, <1>8 DEF y, m
    <3> HIDE DEF g
    <3> QED BY <1>1, <3>1, <3>2, <3>3, LeadingKept DEF Frame, Core
  <2> QED BY <2>1, <2>2
<1>14. Level(f)'
  <2> DEFINE o == Of(f, y)
             p == <<ts[y], f[a].no>>
             h == Worth(f, ts[y], f[now].no, Head(tq[w]))
  <2>1. /\ h = <<m.ts, f[m.at].no>>
        /\ \A v \in Wires : Worth(f, ts[v[2]], f[now].no, m) = <<m.ts, f[m.at].no>>
    BY <1>2 DEF Worth, m
  <2>2. /\ o = <<ts[y], f[at[y]].no>> /\ f[at[y]].no \in Nat /\ f[m.at].no \in Nat
        /\ m.at \in Nat /\ at[y] \in Nat
    BY <1>3, <1>4 DEF Of
  <2>3. \A u, v \in Times : u <= v => f[u].no <= f[v].no
    BY DEF Core, Story
  <2>4. /\ Below(o, p) /\ Below(h, p) /\ (Below(p, o) \/ Below(p, h))
        /\ Accepts(y, m) => p = h
        /\ ~Accepts(y, m) => Below(p, o)
        /\ Below(p, p)
    <3>1. CASE Accepts(y, m)
      <4>1. p = h
        BY <1>6, <2>1, <3>1 DEF a
      <4>2. f[at[y]].no <= f[m.at].no
        BY <1>3, <1>4, <1>6, <2>2, <2>3, <3>1
      <4>3. Below(o, h) /\ Below(h, h)
        BY <1>3, <1>4, <1>6, <2>1, <2>2, <3>1, <4>2 DEF Below
      <4> QED BY <3>1, <4>1, <4>3
    <3>2. CASE ~Accepts(y, m)
      <4>1. p = o
        BY <2>2, <3>2 DEF a
      <4>2. m.ts = ts[y] => f[m.at].no <= f[at[y]].no
        BY <1>3, <1>4, <1>6, <2>2, <2>3, <3>2
      <4>3. Below(h, o) /\ Below(o, o)
        BY <1>3, <1>4, <1>5, <2>1, <2>2, <4>2 DEF Below
      <4> QED BY <3>2, <4>1, <4>3
    <3> QED BY <3>1, <3>2
  <2>5. TopicTypeOK /\ TopicTypeOK' /\ BothWays /\ Level(f) /\ up' = up /\ now' = now
    BY <1>1, <1>9 DEF Frame, Core
  <2>6. /\ w \in up /\ tq[w] # << >> /\ ts[y] \in Nat /\ a \in Times
        /\ ts' = [ts EXCEPT ![w[2]] = ts[y]] /\ at' = [at EXCEPT ![w[2]] = a]
        /\ ts[y] = ts[w[2]]
    BY <1>1, <1>2, <1>3, <1>7, <1>8 DEF y
  <2>7. \A v \in Out(y, w[1]) : Worth(f, ts[v[2]], f[now].no, m) = h
    BY <2>1 DEF Out, Frame, TopicTypeOK
  <2> HIDE DEF o, p, h
  <2>8. \/ tq' = Rest(w) /\ Below(p, o)
        \/ \E g \in TopicMessage :
              /\ tq' = Put(Rest(w), Out(w[2], w[1]), g)
              /\ \A v \in Out(w[2], w[1]) :
                   LET e == Worth(f, ts[v[2]], f[now].no, g) IN
                   Below(e, p) /\ (Below(p, o) \/ Below(p, e))
    BY <1>1, <1>2, <2>4, <2>7 DEF y
  <2>9. /\ o = Of(f, w[2]) /\ p = <<ts[y], f[a].no>>
        /\ h = Worth(f, ts[w[2]], f[now].no, Head(tq[w]))
        /\ Below(o, p) /\ Below(h, p) /\ (Below(p, o) \/ Below(p, h))
    BY <2>4 DEF y, o, p, h
  <2> HIDE DEF y
  <2> QED BY <2>5, <2>6, <2>8, <2>9, Relayed
<1> QED BY <1>9, <1>10, <1>11, <1>12, <1>13, <1>14 DEF Core

LEMMA SecondCore ==
  ASSUME Frame, NEW f \in [Times -> Told], Core(f), Second
  PROVE  Core(f)'
<1>1. /\ now' = now + 1 /\ now \in Times /\ now' \in Times /\ now \in Nat
      /\ UNCHANGED <<ts, topic, at, tq, up>>
  <2>1. \A k \in 1..MaxTime : k < MaxTime => k \in Times /\ k + 1 \in Times /\ k \in Nat
    BY TopicBounds DEF Times
  <2> QED BY <2>1 DEF Second, Frame, TopicTypeOK
<1>2. f[now'] = f[now] /\ \A v \in Times : now' <= v => now <= v
  <2>1. \A v \in Times : now <= v => f[v] = f[now]
    BY DEF Core, Story
  <2>2. now <= now' /\ \A v \in Times : v \in Nat
    BY <1>1, TopicBounds DEF Times
  <2> QED BY <1>1, <2>1, <2>2
<1>3. Story(f)'
  BY <1>1, <1>2 DEF Core, Story
<1>4. Said(f)'
  <2>1. \A m : SaidIn(f, m)' <=> SaidIn(f, m)
    BY <1>2 DEF SaidIn
  <2> QED BY <1>1, <2>1 DEF Core, Said
<1>5. Level(f)'
  <2>1. \A w : Gets(f, w)' = Gets(f, w)
    BY <1>1, <1>2 DEF Gets, Of
  <2> QED BY <1>1, <2>1 DEF Core, Level
<1>6. Calm' /\ Leading'
  BY <1>1 DEF Core, Calm, Spreading, Leading
<1> QED BY <1>3, <1>4, <1>5, <1>6 DEF Core

\* A new topic is the last of a new story.
LEMMA SetCore ==
  ASSUME Frame, NEW f \in [Times -> Told], Core(f),
         NEW s \in Holders, NEW t \in Topics \cup {Unset}, SetTopic(s, t), ~met'
  PROVE  \E g \in [Times -> Told] : Core(g)'
<1> DEFINE m == [op |-> "TOPIC", text |-> t]
<1>1. /\ Still /\ \A r \in Holders : at[r] # now
      /\ topic' = [topic EXCEPT ![s] = t] /\ at' = [at EXCEPT ![s] = now]
      /\ UNCHANGED <<ts, up, now>>
  BY DEF SetTopic
<1>2. \A w \in Wires : tq[w] = << >> /\ tq'[w] = IF w \in Out(s, s) THEN <<m>> ELSE << >>
  <2>1. Append(<< >>, m) = <<m>>
    OBVIOUS
  <2> QED BY <1>1, <2>1 DEF Still, SetTopic, Put
<1>3. m \in TopicMessage /\ m.op = "TOPIC" /\ m.text = t
  BY DEF TopicMessage
<1>4. \A w \in Wires : \A i \in DOMAIN tq'[w] : tq'[w][i] = m
  <2>1. DOMAIN <<m>> = {1} /\ <<m>>[1] = m /\ DOMAIN << >> = {}
    BY EmptySeq
  <2> HIDE DEF m
  <2> QED BY <1>2, <2>1
<1> HIDE DEF m
<1>5. /\ now \in Times /\ now \in Nat /\ now > 0 /\ 0 \in Times
      /\ \A v \in Times : f[v].no \in Nat /\ v \in Nat
      /\ \A r \in Holders : at[r] \in Times /\ at[r] < now /\ f[at[r]].no <= f[now].no
      /\ \A r \in Holders : ts[r] \in Nat
  <2>1. now > 0 /\ now \in Nat /\ 0 \in Times
    BY TopicBounds DEF Frame, TopicTypeOK, Times
  <2>2. /\ now \in Times /\ \A v \in Times : f[v].no \in Nat /\ v \in Nat
        /\ \A r \in Holders : at[r] \in Times /\ at[r] <= now /\ f[at[r]].no <= f[now].no
        /\ \A r \in Holders : ts[r] \in Nat
    BY StoryIs DEF Core
  <2>3. \A r \in Holders : at[r] < now
    <3> TAKE r \in Holders
    <3>1. at[r] \in Nat /\ at[r] <= now /\ at[r] # now
      BY <1>1, <2>2
    <3> QED BY <2>1, <3>1
  <2> QED BY <2>1, <2>2, <2>3
<1>6. /\ \A u, v \in Times : u <= v => f[u].no <= f[v].no
      /\ \A u, v \in Times : f[u].no = f[v].no => f[u] = f[v]
      /\ f[0] = [no |-> 0, text |-> Unset]
  BY DEF Core, Story
<1>20. PICK N \in Nat : N = f[now].no + 1
  BY <1>5
<1>7. N \in Nat /\ [no |-> N, text |-> t] \in Told /\ [no |-> N, text |-> t].no = N
      /\ [no |-> N, text |-> t].text = t
  BY <1>5 DEF Told
<1>8. \E g \in [Times -> Told] :
        /\ \A v \in Times : v < now => g[v] = f[v]
        /\ \A v \in Times : ~(v < now) => g[v] = [no |-> N, text |-> t]
  <2> DEFINE G == [v \in Times |-> IF v < now THEN f[v] ELSE [no |-> N, text |-> t]]
  <2>1. G \in [Times -> Told]
    BY <1>7
  <2>2. /\ \A v \in Times : v < now => G[v] = f[v]
        /\ \A v \in Times : ~(v < now) => G[v] = [no |-> N, text |-> t]
    OBVIOUS
  <2> HIDE DEF G
  <2> QED BY <2>1, <2>2
<1>9. PICK g \in [Times -> Told] :
        /\ \A v \in Times : v < now => g[v] = f[v]
        /\ \A v \in Times : ~(v < now) => g[v] = [no |-> N, text |-> t]
  BY <1>8
<1>10. \A v \in Times : v < now => f[v].no < N
  <2> TAKE v \in Times
  <2> HAVE v < now
  <2>1. f[v].no <= f[now].no /\ f[v].no \in Nat /\ f[now].no \in Nat
    BY <1>5, <1>6
  <2> QED BY <1>20, <2>1
<1>11. \A v \in Times : ~(v < now) => g[v].no = N /\ g[v].text = t
  BY <1>7, <1>9
<1>12. Story(g)'
  <2>1. g[0] = [no |-> 0, text |-> Unset]
    BY <1>5, <1>6, <1>9
  <2>2. ASSUME NEW u \in Times, NEW v \in Times, u <= v PROVE g[u].no <= g[v].no
    <3>1. CASE v < now
      BY <1>5, <1>6, <1>9, <2>2, <3>1
    <3>2. CASE ~(v < now) /\ u < now
      BY <1>5, <1>7, <1>9, <1>10, <1>11, <3>2
    <3>3. CASE ~(v < now) /\ ~(u < now)
      BY <1>7, <1>11, <3>3
    <3> QED BY <3>1, <3>2, <3>3
  <2>3. ASSUME NEW u \in Times, NEW v \in Times, g[u].no = g[v].no PROVE g[u] = g[v]
    <3>1. CASE u < now /\ v < now
      BY <1>6, <1>9, <2>3, <3>1
    <3>2. CASE ~(u < now) /\ ~(v < now)
      BY <1>9, <3>2
    <3>3. CASE u < now /\ ~(v < now)
      BY <1>5, <1>7, <1>9, <1>10, <1>11, <2>3, <3>3
    <3>4. CASE ~(u < now) /\ v < now
      BY <1>5, <1>7, <1>9, <1>10, <1>11, <2>3, <3>4
    <3> QED BY <3>1, <3>2, <3>3, <3>4
  <2>4. ASSUME NEW v \in Times, now <= v PROVE g[v] = g[now]
    <3>1. v \in Nat /\ now \in Nat /\ now \in Times
      BY <1>5
    <3>2. ~(v < now) /\ ~(now < now)
      BY <2>4, <3>1
    <3> QED BY <1>9, <3>1, <3>2
  <2> QED BY <1>1, <2>1, <2>2, <2>3, <2>4 DEF Story
<1>13. g[now].no = N /\ g[now].text = t
  BY <1>5, <1>11
<1>14. \A r \in Holders : g[at[r]] = f[at[r]]
  BY <1>5, <1>9
<1>15. at'[s] = now /\ topic'[s] = t /\ \A r \in Holders \ {s} : at'[r] = at[r] /\ topic'[r] = topic[r]
  BY <1>1 DEF Frame, TopicTypeOK
<1>16. Said(g)'
  <2>1. \A r \in Holders : topic'[r] = g[at'[r]].text
    BY <1>13, <1>14, <1>15 DEF Core, Said
  <2>2. SaidIn(g, m)'
    BY <1>1, <1>3, <1>13 DEF SaidIn
  <2> QED BY <1>4, <2>1, <2>2 DEF Said
<1>17. Calm'
  BY <1>3, <1>4 DEF Calm
<1>18. Leading'
  <2>1. up' = up /\ up \subseteq Wires
    BY <1>1 DEF Frame, TopicTypeOK
  <2> QED BY <1>3, <1>4, <2>1 DEF Leading, Led
<1>19. Level(g)'
  <2>1. ASSUME NEW v \in up PROVE Under(Gets(g, v)', Gets(g, Back(v))')
    <3>1. /\ v \in Wires /\ Back(v) \in Wires /\ Back(v) \in up /\ v[1] # v[2]
          /\ Back(v)[1] = v[2] /\ Back(v)[2] = v[1] /\ v[1] \in Holders /\ v[2] \in Holders
      BY WireEnds DEF Frame, BothWays, TopicTypeOK
    <3>2. ts[v[1]] = ts[v[2]]
      BY <1>1, SameBorn DEF Frame, Core
    <3>3. Gets(f, v) = {Of(f, v[2])} /\ Gets(f, Back(v)) = {Of(f, v[1])}
      <4>1. tq[v] = << >> /\ tq[Back(v)] = << >>
        BY <1>1, <3>1 DEF Still
      <4>2. DOMAIN << >> = {}
        OBVIOUS
      <4> QED BY <3>1, <4>1, <4>2 DEF Gets, Worths
    <3>4. Below(Of(f, v[2]), Of(f, v[1]))
      BY <3>1, <3>3 DEF Core, Level, Under
    <3>5. \A r \in Holders : Of(g, r)' = IF r = s THEN <<ts[s], N>> ELSE Of(f, r)
      BY <1>1, <1>13, <1>14, <1>15 DEF Of
    <3>6. \A r \in Holders : /\ Below(Of(f, r), <<ts[r], N>>) /\ Below(Of(f, r), Of(f, r))
                             /\ Below(<<ts[r], N>>, <<ts[r], N>>)
      <4>1. TAKE r \in Holders
      <4>2. /\ ts[r] \in Nat /\ f[at[r]].no \in Nat /\ f[at[r]].no <= f[now].no
            /\ f[now].no \in Nat
        BY <1>5
      <4>3. f[at[r]].no <= N
        BY <1>20, <4>2
      <4> QED BY <4>2, <4>3 DEF Below, Of
    <3>7. \A c \in Gets(g, v)' : c = Of(g, v[2])' \/ (c = <<ts[v[2]], N>> /\ v[1] = s)
      <4>1. TAKE c \in Gets(g, v)'
      <4>2. CASE c \in Worths(g, ts'[v[2]], g[now'].no, tq'[v])
        <5>1. PICK i \in DOMAIN tq'[v] : c = Worth(g, ts'[v[2]], g[now'].no, tq'[v][i])
          BY <4>2 DEF Worths
        <5>2. tq'[v][i] = m /\ tq'[v] # << >>
          BY <1>4, <3>1, <5>1
        <5>3. v[1] = s
          BY <1>2, <3>1, <5>2 DEF Out
        <5> QED BY <1>1, <1>3, <1>13, <5>1, <5>2, <5>3 DEF Worth
      <4> QED BY <4>2 DEF Gets
    <3>8. Of(g, v[1])' \in Gets(g, Back(v))'
      BY <3>1 DEF Gets
    <3>9. v[2] = s => <<ts[v[1]], N>> \in Gets(g, Back(v))'
      <4>1. SUFFICES ASSUME v[2] = s PROVE <<ts[v[1]], N>> \in Gets(g, Back(v))'
        OBVIOUS
      <4>2. Back(v) \in Out(s, s)
        BY <3>1, <4>1 DEF Out
      <4>3. tq'[Back(v)] = <<m>> /\ 1 \in DOMAIN <<m>> /\ <<m>>[1] = m
        BY <1>2, <3>1, <4>2
      <4>4. Worth(g, ts'[v[1]], g[now'].no, m) = <<ts[v[1]], N>>
        BY <1>1, <1>3, <1>13 DEF Worth
      <4> QED BY <3>1, <4>3, <4>4 DEF Gets, Worths
    <3>10. \A c \in Gets(g, v)' : \E d \in Gets(g, Back(v))' : Below(c, d)
      <4>1. CASE v[1] = s
        <5>1. Of(g, v[1])' = <<ts[s], N>> /\ Of(g, v[2])' = Of(f, v[2])
          BY <3>1, <3>5, <4>1
        <5>2. Below(Of(f, v[2]), <<ts[s], N>>) /\ Below(<<ts[v[2]], N>>, <<ts[s], N>>)
          BY <3>1, <3>2, <3>6, <4>1
        <5> QED BY <3>7, <3>8, <5>1, <5>2
      <4>2. CASE v[2] = s
        <5>1. Of(g, v[2])' = <<ts[v[1]], N>>
          BY <3>1, <3>2, <3>5, <4>2
        <5> QED BY <3>1, <3>6, <3>7, <3>9, <4>2, <5>1
      <4>3. CASE v[1] # s /\ v[2] # s
        <5>1. Of(g, v[2])' = Of(f, v[2]) /\ Of(g, v[1])' = Of(f, v[1])
          BY <3>1, <3>5, <4>3
        <5> QED BY <3>4, <3>7, <3>8, <4>3, <5>1
      <4> QED BY <4>1, <4>2, <4>3
    <3> QED BY <3>10 DEF Under
  <2> QED BY <1>1, <2>1 DEF Level
<1> QED BY <1>9, <1>12, <1>16, <1>17, <1>18, <1>19 DEF Core

\* A link is made: each end is sent what the other has.
LEMMA EstablishCore ==
  ASSUME Frame, NEW f \in [Times -> Told], Core(f), NEW l \in Wires, Establish(l), ~met'
  PROVE  Core(f)'
<1>1. /\ l \notin up /\ up' = up \cup {l, Back(l)} /\ ~Spreading
      /\ UNCHANGED <<ts, topic, at, now>>
  BY DEF Establish
<1>2. /\ Back(l) \in Wires /\ Back(Back(l)) = l /\ up \subseteq Wires
      /\ \A w \in Wires : w[1] \in Holders /\ w[2] \in Holders
                          /\ Back(Back(w)) = w /\ Back(w)[1] = w[2] /\ Back(w)[2] = w[1]
      /\ \A w \in up : Back(w) \in up
  BY WireEnds DEF Frame, TopicTypeOK, BothWays
<1>3. /\ \A w \in {l, Back(l)} : w \in Wires /\ tq'[w] = TopicBurst(w[1])
      /\ \A w \in Wires \ {l, Back(l)} : tq'[w] = tq[w]
  BY <1>2 DEF Establish
\* what a burst is
<1>4. ASSUME NEW w \in {l, Back(l)}, NEW i \in DOMAIN tq'[w]
      PROVE  \/ i = 1 /\ tq'[w][i] = [op |-> "SJOIN", ts |-> ts[w[1]]]
             \/ i = 2 /\ 1 \in DOMAIN tq'[w] /\ tq'[w][1] = [op |-> "SJOIN", ts |-> ts[w[1]]]
                /\ at[w[1]] > 0 /\ tq'[w][i] = Tburst(w[1])
  BY <1>2, <1>3, <1>4, BurstIs DEF Frame
<1>5. Story(f)'
  BY <1>1 DEF Core, Story
<1>6. ASSUME NEW w \in {l, Back(l)}, NEW i \in DOMAIN tq'[w]
      PROVE  tq'[w][i].op # "TOPIC" /\ SaidIn(f, tq'[w][i])
  <2>1. CASE tq'[w][i] = [op |-> "SJOIN", ts |-> ts[w[1]]]
    BY <2>1 DEF SaidIn
  <2>2. CASE tq'[w][i] = Tburst(w[1])
    <3>1. topic[w[1]] = f[at[w[1]]].text
      BY <1>2, <1>3, <1>6 DEF Core, Said
    <3>2. /\ tq'[w][i].op = "TBURST" /\ tq'[w][i].at = at[w[1]]
          /\ tq'[w][i].text = topic[w[1]]
      BY <2>2 DEF Tburst
    <3> QED BY <3>1, <3>2 DEF SaidIn
  <2> QED BY <1>4, <1>6, <2>1, <2>2
<1>7. Said(f)'
  <2>1. \A m : SaidIn(f, m)' <=> SaidIn(f, m)
    BY <1>1 DEF SaidIn
  <2>2. \A w \in Wires : \A i \in DOMAIN tq'[w] : SaidIn(f, tq'[w][i])
    <3>1. TAKE w \in Wires
    <3>2. CASE w \in {l, Back(l)}
      BY <1>6, <3>2
    <3>3. CASE w \notin {l, Back(l)}
      BY <1>3, <3>3 DEF Core, Said
    <3> QED BY <3>2, <3>3
  <2> QED BY <1>1, <2>1, <2>2 DEF Core, Said
<1>8. Calm'
  <2>1. ~Spreading'
    <3>1. ASSUME NEW w \in Wires, NEW i \in DOMAIN tq'[w] PROVE tq'[w][i].op # "TOPIC"
      <4>1. CASE w \in {l, Back(l)}
        BY <1>6, <3>1, <4>1
      <4>2. CASE w \notin {l, Back(l)}
        BY <1>1, <1>3, <3>1, <4>2 DEF Spreading
      <4> QED BY <4>1, <4>2
    <3> QED BY <3>1 DEF Spreading
  <2> QED BY <2>1 DEF Calm
<1>9. Leading'
  <2>1. ASSUME NEW w \in up' PROVE Led(ts'[w[2]], tq'[w])
    <3>1. CASE w \in {l, Back(l)}
      <4>1. ASSUME NEW i \in DOMAIN tq'[w], tq'[w][i].op = "TBURST"
            PROVE  \E j \in DOMAIN tq'[w] :
                     j < i /\ tq'[w][j].op = "SJOIN" /\ tq'[w][j].ts <= tq'[w][i].ts
        <5>1. \/ i = 1 /\ tq'[w][i] = [op |-> "SJOIN", ts |-> ts[w[1]]]
              \/ i = 2 /\ 1 \in DOMAIN tq'[w] /\ tq'[w][1] = [op |-> "SJOIN", ts |-> ts[w[1]]]
                 /\ tq'[w][i] = Tburst(w[1])
          BY <1>4, <3>1, <4>1
        <5>2. [op |-> "SJOIN", ts |-> ts[w[1]]].op # "TBURST"
          OBVIOUS
        <5>3. i = 2 /\ 1 \in DOMAIN tq'[w] /\ tq'[w][1].op = "SJOIN"
              /\ tq'[w][1].ts = ts[w[1]] /\ tq'[w][i].ts = ts[w[1]]
          BY <4>1, <5>1, <5>2 DEF Tburst
        <5>4. ts[w[1]] \in Nat
          BY <1>2, <1>3, <3>1, TopicBounds DEF Frame, TopicTypeOK
        <5> QED BY <5>3, <5>4
      <4> QED BY <4>1 DEF Led
    <3>2. CASE w \notin {l, Back(l)}
      <4>1. w \in up /\ w \in Wires
        BY <1>1, <1>2, <2>1, <3>2
      <4>2. tq'[w] = tq[w] /\ ts' = ts
        BY <1>1, <1>3, <3>2, <4>1
      <4> QED BY <4>1, <4>2 DEF Core, Leading
    <3> QED BY <3>1, <3>2
  <2> QED BY <2>1 DEF Leading
<1>10. Level(f)'
  <2>1. ASSUME NEW w \in {l, Back(l)}
        PROVE  /\ Of(f, w[1]) \in Gets(f, w)' /\ Of(f, w[2]) \in Gets(f, w)'
               /\ \A c \in Gets(f, w)' : Below(c, Of(f, w[1])) \/ Below(c, Of(f, w[2]))
    <3> DEFINE s == w[1]
    <3>1. w \in Wires /\ s \in Holders /\ w[2] \in Holders /\ tq'[w] = TopicBurst(s)
      BY <1>2, <1>3, <2>1
    <3>2. \A r \in Holders : Of(f, r)' = Of(f, r)
      BY <1>1 DEF Of
    <3>3. Gets(f, w)' = {Of(f, w[2])} \cup Worths(f, ts[w[2]], f[now].no, tq'[w])
      BY <1>1, <3>1, <3>2 DEF Gets
    <3>4. /\ \A r \in Holders : /\ ts[r] \in Nat /\ at[r] \in Nat /\ at[r] \in Times
                                /\ f[at[r]].no \in Nat
          /\ f[0].no = 0
      <4>1. f[0].no = 0
        BY DEF Core, Story
      <4> QED BY <4>1, StoryIs DEF Core
    <3>5. /\ Below(<<ts[s], 0>>, Of(f, s)) /\ Below(Of(f, s), Of(f, s))
          /\ Below(Of(f, w[2]), Of(f, w[2]))
      BY <3>1, <3>4 DEF Below, Of
    <3>6. Worth(f, ts[w[2]], f[now].no, [op |-> "SJOIN", ts |-> ts[s]]) = <<ts[s], 0>>
      BY DEF Worth
    <3>7. Worth(f, ts[w[2]], f[now].no, Tburst(s)) = Of(f, s)
      BY DEF Worth, Tburst, Of
    <3>8. \A c \in Worths(f, ts[w[2]], f[now].no, tq'[w]) : Below(c, Of(f, s))
      <4>1. TAKE c \in Worths(f, ts[w[2]], f[now].no, tq'[w])
      <4>2. PICK i \in DOMAIN tq'[w] : c = Worth(f, ts[w[2]], f[now].no, tq'[w][i])
        BY DEF Worths
      <4>3. \/ tq'[w][i] = [op |-> "SJOIN", ts |-> ts[s]] \/ tq'[w][i] = Tburst(s)
        BY <1>4, <2>1, <4>2
      <4> QED BY <3>5, <3>6, <3>7, <4>2, <4>3
    <3>9. Of(f, s) \in Worths(f, ts[w[2]], f[now].no, tq'[w])
      <4>1. CASE at[s] > 0
        <5>1. 2 \in DOMAIN tq'[w] /\ tq'[w][2] = Tburst(s)
          BY <3>1, <4>1, BurstIs DEF Frame
        <5> QED BY <3>7, <5>1 DEF Worths
      <4>2. CASE ~(at[s] > 0)
        <5>1. at[s] = 0
          BY <3>1, <3>4, <4>2
        <5>2. Of(f, s) = <<ts[s], 0>>
          BY <3>4, <5>1 DEF Of
        <5>3. 1 \in DOMAIN tq'[w] /\ tq'[w][1] = [op |-> "SJOIN", ts |-> ts[s]]
          BY <3>1, BurstIs DEF Frame
        <5> QED BY <3>6, <5>2, <5>3 DEF Worths
      <4> QED BY <4>1, <4>2
    <3> QED BY <3>3, <3>5, <3>8, <3>9
  <2>2. ASSUME NEW w \in {l, Back(l)} PROVE Under(Gets(f, w)', Gets(f, Back(w))')
    <3>1. Back(w) \in {l, Back(l)} /\ Back(w)[1] = w[2] /\ Back(w)[2] = w[1]
      BY <1>2, <2>2
    <3>2. Of(f, w[1]) \in Gets(f, Back(w))' /\ Of(f, w[2]) \in Gets(f, Back(w))'
      BY <2>1, <3>1
    <3>3. \A c \in Gets(f, w)' : Below(c, Of(f, w[1])) \/ Below(c, Of(f, w[2]))
      BY <2>1, <2>2
    <3> QED BY <3>2, <3>3 DEF Under
  <2>3. ASSUME NEW w \in up' \ {l, Back(l)} PROVE Under(Gets(f, w)', Gets(f, Back(w))')
    <3>1. w \in up /\ w \in Wires /\ Back(w) \in Wires /\ Back(w) \notin {l, Back(l)}
      BY <1>1, <1>2, <2>3
    <3>2. tq'[w] = tq[w] /\ tq'[Back(w)] = tq[Back(w)]
      BY <1>3, <2>3, <3>1
    <3>3. Gets(f, w)' = Gets(f, w) /\ Gets(f, Back(w))' = Gets(f, Back(w))
      BY <1>1, <3>2 DEF Gets, Of
    <3> QED BY <3>1, <3>3 DEF Core, Level
  <2> QED BY <2>2, <2>3 DEF Level
<1> QED BY <1>5, <1>7, <1>8, <1>9, <1>10 DEF Core

LEMMA CutCore ==
  ASSUME Frame, NEW f \in [Times -> Told], Core(f), NEW l \in Wires, Cut(l)
  PROVE  Core(f)'
<1>1. /\ up' = up \ {l, Back(l)} /\ UNCHANGED <<ts, topic, at, now>>
      /\ \A w \in Wires : tq'[w] = IF w \in {l, Back(l)} THEN << >> ELSE tq[w]
  BY DEF Cut
<1>2. /\ \A w \in Wires : Back(Back(w)) = w
      /\ \A w \in up : w \in Wires /\ Back(w) \in Wires /\ Back(w) \in up
  BY WireEnds DEF Frame, TopicTypeOK, BothWays
<1>3. DOMAIN << >> = {}
  OBVIOUS
<1>4. ASSUME NEW w \in Wires, NEW i \in DOMAIN tq'[w]
      PROVE  i \in DOMAIN tq[w] /\ tq'[w][i] = tq[w][i]
  BY <1>1, <1>3, <1>4
<1>5. Story(f)'
  BY <1>1 DEF Core, Story
<1>6. Said(f)'
  <2>1. \A m : SaidIn(f, m)' <=> SaidIn(f, m)
    BY <1>1 DEF SaidIn
  <2> QED BY <1>1, <1>4, <2>1 DEF Core, Said
<1>7. Calm'
  BY <1>4 DEF Core, Calm, Spreading
<1>8. ASSUME NEW w \in up' PROVE tq'[w] = tq[w] /\ tq'[Back(w)] = tq[Back(w)] /\ w \in up
  BY <1>1, <1>2, <1>8
<1>9. Leading'
  BY <1>1, <1>8 DEF Core, Leading
<1>10. Level(f)'
  <2>1. ASSUME NEW w \in up' PROVE Under(Gets(f, w)', Gets(f, Back(w))')
    <3>1. Gets(f, w)' = Gets(f, w) /\ Gets(f, Back(w))' = Gets(f, Back(w))
      BY <1>1, <1>8, <2>1 DEF Gets, Of
    <3> QED BY <1>8, <2>1, <3>1 DEF Core, Level
  <2> QED BY <2>1 DEF Level
<1> QED BY <1>5, <1>6, <1>7, <1>9, <1>10 DEF Core

-----------------------------------------------------------------------------
(* The specification *)

LEMMA TopicInvInit == TopicInit => TopicInv
<1> SUFFICES ASSUME TopicInit PROVE TopicInv
  OBVIOUS
<1>1. Frame
  BY FrameInit
<1>2. PICK f \in [Times -> Told] : \A v \in Times : f[v] = [no |-> 0, text |-> Unset]
  <2> DEFINE F == [v \in Times |-> [no |-> 0, text |-> Unset]]
  <2>1. F \in [Times -> Told] /\ \A v \in Times : F[v] = [no |-> 0, text |-> Unset]
    BY DEF Told
  <2> HIDE DEF F
  <2> QED BY <2>1
<1>3. \A w \in Wires : tq[w] = << >> /\ DOMAIN tq[w] = {}
  <2>1. DOMAIN << >> = {}
    OBVIOUS
  <2> QED BY <2>1 DEF TopicInit
<1>4. 0 \in Times /\ now \in Times
  BY TopicBounds DEF TopicInit, Times
<1>5. Story(f)
  <2>1. \A v \in Times : f[v].no = 0
    BY <1>2
  <2>2. 0 <= 0
    OBVIOUS
  <2> QED BY <1>2, <1>4, <2>1, <2>2 DEF Story
<1>6. Said(f)
  <2>1. f[0].text = Unset
    BY <1>2, <1>4
  <2> QED BY <1>3, <2>1 DEF Said, TopicInit
<1>7. Calm /\ Leading /\ Level(f)
  BY <1>3 DEF Calm, Spreading, Leading, Level, TopicInit
<1> QED BY <1>1, <1>5, <1>6, <1>7 DEF TopicInv, Core

LEMMA TopicInvStep == TopicInv /\ [TopicNext]_topicVars => TopicInv'
<1> SUFFICES ASSUME TopicInv, [TopicNext]_topicVars PROVE TopicInv'
  OBVIOUS
<1>1. Frame /\ (~met /\ ~dropped => \E f \in [Times -> Told] : Core(f))
  BY DEF TopicInv
<1>2. CASE Second
  <2>1. Frame' /\ (~met' /\ ~dropped' => ~met /\ ~dropped)
    BY <1>1, <1>2, FrameSecond DEF Second
  <2> QED BY <1>1, <1>2, <2>1, SecondCore DEF TopicInv
<1>3. ASSUME NEW s \in Holders, NEW t \in Topics \cup {Unset}, SetTopic(s, t) PROVE TopicInv'
  <2>1. Frame' /\ (~met' /\ ~dropped' => ~met /\ ~dropped)
    BY <1>1, <1>3, FrameSet DEF SetTopic
  <2> QED BY <1>1, <1>3, <2>1, SetCore DEF TopicInv
<1>4. ASSUME NEW l \in Wires, Establish(l) PROVE TopicInv'
  <2>1. Frame' /\ (~met' /\ ~dropped' => ~met /\ ~dropped)
    BY <1>1, <1>4, FrameEstablish DEF Establish
  <2> QED BY <1>1, <1>4, <2>1, EstablishCore DEF TopicInv
<1>5. ASSUME NEW l \in Wires, Cut(l) PROVE TopicInv'
  <2>1. Frame' /\ (~met' /\ ~dropped' => ~met /\ ~dropped)
    BY <1>1, <1>5, FrameCut DEF Cut
  <2> QED BY <1>1, <1>5, <2>1, CutCore DEF TopicInv
<1>6. ASSUME NEW w \in Wires, Recv(w) PROVE TopicInv'
  <2>1. ~met' /\ ~dropped' => ~met /\ ~dropped
    BY <1>6 DEF Recv, RecvTopic, RecvTopicSJoin, RecvTburst
  <2>2. RecvTopic(w) \/ RecvTopicSJoin(w) \/ RecvTburst(w)
    BY <1>6 DEF Recv
  <2>3. Frame'
    BY <1>1, <1>6, <2>2, FrameTopic, FrameSJoin, FrameTburst
  <2>4. ASSUME ~met', ~dropped' PROVE \E f \in [Times -> Told] : Core(f)'
    <3>1. PICK f \in [Times -> Told] : Core(f)
      BY <1>1, <2>1, <2>4
    <3>2. Core(f)'
      BY <1>1, <1>6, <2>2, <2>4, <3>1, RecvTopicCore, RecvSJoinCore, RecvTburstCore
    <3> QED BY <3>2
  <2> QED BY <2>3, <2>4 DEF TopicInv
<1>7. CASE UNCHANGED topicVars
  <2> USE <1>7 DEF topicVars
  <2>1. Frame'
    BY <1>1 DEF Frame, TopicTypeOK, BothWays, Timely
  <2>2. ASSUME NEW f PROVE Core(f) => Core(f)'
    <3>1. \A m : SaidIn(f, m)' <=> SaidIn(f, m)
      BY DEF SaidIn
    <3>2. \A w : Gets(f, w)' = Gets(f, w)
      BY DEF Gets, Of
    <3> QED BY <3>1, <3>2 DEF Core, Calm, Spreading, Leading, Story, Said, Level
  <2> QED BY <1>1, <2>1, <2>2 DEF TopicInv
<1> QED BY <1>2, <1>3, <1>4, <1>5, <1>6, <1>7 DEF TopicNext

LEMMA TopicAlways == TopicSpec => []TopicInv
  BY TopicInvInit, TopicInvStep, PTL DEF TopicSpec

\* Timestamps, texts, times and messages keep their types, whatever is said, made and
\* broken (struct Channel, m_topic.c, m_tburst.c).
THEOREM TopicTyped == TopicSpec => []TopicTypeOK
<1>1. TopicInv => TopicTypeOK
  BY DEF TopicInv, Frame
<1> QED BY <1>1, TopicAlways, PTL

\* Linked servers show one topic when nothing is under way, on any network, with any
\* number of topics, seconds, links made and broken, however bursts cross, save for
\* a topic that met a burst or another and a channel that kept the time of an unset
\* topic (ms_tburst, ms_sjoin, m_topic.c).
THEOREM TopicsAlwaysAgree == TopicSpec => []TopicsAgree
<1>1. TopicInv => TopicsAgree
  <2> SUFFICES ASSUME TopicInv, Still, ~met, ~dropped, NEW l \in up
               PROVE  topic[l[1]] = topic[l[2]]
    BY DEF TopicsAgree, Agree
  <2>1. PICK f \in [Times -> Told] : Frame /\ Core(f)
    BY DEF TopicInv
  <2>2. /\ l \in Wires /\ Back(l) \in Wires /\ Back(l) \in up /\ Back(l)[2] = l[1]
        /\ Back(Back(l)) = l /\ l[1] \in Holders /\ l[2] \in Holders
    BY <2>1, WireEnds DEF Frame, BothWays, TopicTypeOK
  <2>3. Gets(f, l) = {Of(f, l[2])} /\ Gets(f, Back(l)) = {Of(f, l[1])}
    <3>1. tq[l] = << >> /\ tq[Back(l)] = << >> /\ DOMAIN << >> = {}
      BY <2>2 DEF Still
    <3> QED BY <2>2, <3>1 DEF Gets, Worths
  <2>4. Below(Of(f, l[1]), Of(f, l[2])) /\ Below(Of(f, l[2]), Of(f, l[1]))
    BY <2>1, <2>2, <2>3 DEF Core, Level, Under
  <2>5. /\ \A s \in Holders : /\ ts[s] \in Nat /\ f[at[s]].no \in Nat /\ at[s] \in Times
                              /\ topic[s] = f[at[s]].text
    BY <2>1, StoryIs DEF Core, Said
  <2>6. f[at[l[1]]].no = f[at[l[2]]].no
    BY <2>2, <2>4, <2>5 DEF Below, Of
  <2>7. f[at[l[1]]] = f[at[l[2]]]
    BY <2>1, <2>2, <2>5, <2>6 DEF Core, Story
  <2> QED BY <2>2, <2>5, <2>7
<1> QED BY <1>1, TopicAlways, PTL
-----------------------------------------------------------------------------
(* ChannelRules: what is left of a list *)

\* From z, g leads from one value to the next, n times.
Run(f, S, z, g, n) ==
  f \in [0..n -> S] /\ f[0] = z /\ \A k \in 1..n : f[k] = g[<<f[k - 1], k>>]

LEMMA RunIs ==
  ASSUME NEW S, NEW z \in S, NEW N \in Nat, NEW g \in [S \X (1..N) -> S]
  PROVE  \E f : Run(f, S, z, g, N)
<1> DEFINE T == {n \in Nat : n <= N => \E f : Run(f, S, z, g, n)}
<1>1. 0 \in T
  <2>1. Run([k \in 0..0 |-> z], S, z, g, 0)
    BY DEF Run
  <2> QED BY <2>1
<1>2. ASSUME NEW n \in Nat, n \in T PROVE n + 1 \in T
  <2> SUFFICES ASSUME n + 1 <= N PROVE \E f : Run(f, S, z, g, n + 1)
    OBVIOUS
  <2>1. PICK f : Run(f, S, z, g, n)
    BY <1>2
  <2>2. PICK e \in S : e = g[<<f[n], n + 1>>]
    <3>1. <<f[n], n + 1>> \in S \X (1..N)
      BY <2>1 DEF Run
    <3> QED BY <3>1
  <2> DEFINE h == [k \in 0..(n + 1) |-> IF k = n + 1 THEN e ELSE f[k]]
  <2>3. h \in [0..(n + 1) -> S] /\ h[0] = z
    BY <2>1 DEF Run
  <2>4. ASSUME NEW k \in 1..(n + 1) PROVE h[k] = g[<<h[k - 1], k>>]
    <3>1. CASE k = n + 1
      <4>1. h[k] = e /\ h[k - 1] = f[n]
        BY <3>1
      <4> HIDE DEF h
      <4> QED BY <2>2, <3>1, <4>1
    <3>2. CASE k # n + 1
      <4>1. k \in 1..n /\ h[k] = f[k] /\ h[k - 1] = f[k - 1]
        BY <3>2
      <4> HIDE DEF h
      <4> QED BY <2>1, <4>1 DEF Run
    <3> QED BY <3>1, <3>2
  <2> HIDE DEF h
  <2> QED BY <2>3, <2>4 DEF Run
<1> HIDE DEF T
<1>3. N \in T
  BY <1>1, <1>2, Induct
<1> QED BY <1>3 DEF T

\* W is what of L is at the places up to k and not of cs, in its order.
Picked(W, L, cs, k) ==
  /\ \A j \in DOMAIN W : \E n \in 1..k : W[j] = L[n] /\ L[n] \notin cs
  /\ \A n \in 1..k : L[n] \notin cs => \E j \in DOMAIN W : W[j] = L[n]
  /\ \A i, j \in DOMAIN W : i < j => \E m, n \in 1..k : m < n /\ W[i] = L[m] /\ W[j] = L[n]
  /\ Len(W) <= k /\ ((\E n \in 1..k : L[n] \in cs) => Len(W) < k)

LEMMA PickedOne ==
  ASSUME NEW S, NEW L \in Seq(S), NEW cs, NEW k \in 1..Len(L), NEW W \in Seq(S),
         Picked(W, L, cs, k - 1)
  PROVE  LET V == IF L[k] \in cs THEN W ELSE Append(W, L[k])
         IN  V \in Seq(S) /\ Picked(V, L, cs, k)
<1>1. k \in Nat /\ k - 1 \in Nat /\ k \in 1..k /\ \A n \in 1..k : n \in 1..k - 1 \/ n = k
  OBVIOUS
<1>2. \A n \in 1..k - 1 : n \in 1..k /\ n < k
  OBVIOUS
<1>3. Len(W) \in Nat /\ Len(W) <= k - 1
  BY DEF Picked
<1>4. CASE L[k] \in cs
  <2>1. Picked(W, L, cs, k)
    <3>1. ASSUME NEW i \in DOMAIN W, NEW j \in DOMAIN W, i < j
          PROVE  \E m, n \in 1..k : m < n /\ W[i] = L[m] /\ W[j] = L[n]
      <4>1. PICK m \in 1..k - 1, n \in 1..k - 1 : m < n /\ W[i] = L[m] /\ W[j] = L[n]
        BY <3>1 DEF Picked
      <4> QED BY <1>2, <4>1
    <3>2. \A j \in DOMAIN W : \E n \in 1..k : W[j] = L[n] /\ L[n] \notin cs
      BY <1>2 DEF Picked
    <3>3. \A n \in 1..k : L[n] \notin cs => \E j \in DOMAIN W : W[j] = L[n]
      BY <1>1, <1>4 DEF Picked
    <3>4. Len(W) <= k /\ Len(W) < k
      BY <1>1, <1>3
    <3> QED BY <3>1, <3>2, <3>3, <3>4 DEF Picked
  <2> QED BY <1>4, <2>1
<1>5. CASE L[k] \notin cs
  <2>1. PICK V : V = Append(W, L[k])
    OBVIOUS
  <2>2. L[k] \in S
    OBVIOUS
  <2>3. /\ V \in Seq(S) /\ DOMAIN W = 1..Len(W) /\ Len(V) = Len(W) + 1
        /\ DOMAIN V = 1..Len(W) + 1 /\ V[Len(W) + 1] = L[k]
        /\ \A j \in DOMAIN W : V[j] = W[j]
    BY <2>1, <2>2
  <2>4. \A j \in DOMAIN V : (j \in DOMAIN W /\ j < Len(W) + 1) \/ j = Len(W) + 1
    BY <1>3, <2>3
  <2>5. \A j \in DOMAIN W : j \in DOMAIN V
    BY <1>3, <2>3
  <2>6. \A j \in DOMAIN V : \E n \in 1..k : V[j] = L[n] /\ L[n] \notin cs
    <3> TAKE j \in DOMAIN V
    <3>1. CASE j \in DOMAIN W
      <4>1. PICK n \in 1..k - 1 : W[j] = L[n] /\ L[n] \notin cs
        BY <3>1 DEF Picked
      <4> QED BY <1>2, <2>3, <3>1, <4>1
    <3>2. CASE j = Len(W) + 1
      BY <1>1, <1>5, <2>3, <3>2
    <3> QED BY <2>4, <3>1, <3>2
  <2>7. \A n \in 1..k : L[n] \notin cs => \E j \in DOMAIN V : V[j] = L[n]
    <3> SUFFICES ASSUME NEW n \in 1..k, L[n] \notin cs PROVE \E j \in DOMAIN V : V[j] = L[n]
      OBVIOUS
    <3>1. CASE n = k
      <4>1. Len(W) + 1 \in DOMAIN V
        BY <1>3, <2>3
      <4> QED BY <2>3, <3>1, <4>1
    <3>2. CASE n \in 1..k - 1
      <4>1. PICK j \in DOMAIN W : W[j] = L[n]
        BY <3>2 DEF Picked
      <4> QED BY <2>3, <2>5, <4>1
    <3> QED BY <1>1, <3>1, <3>2
  <2>8. ASSUME NEW i \in DOMAIN V, NEW j \in DOMAIN V, i < j
        PROVE  \E m, n \in 1..k : m < n /\ V[i] = L[m] /\ V[j] = L[n]
    <3>1. i \in DOMAIN W
      BY <1>3, <2>3, <2>8
    <3>2. CASE j \in DOMAIN W
      <4>1. PICK m \in 1..k - 1, n \in 1..k - 1 : m < n /\ W[i] = L[m] /\ W[j] = L[n]
        BY <2>8, <3>1, <3>2 DEF Picked
      <4> QED BY <1>2, <2>3, <3>1, <3>2, <4>1
    <3>3. CASE j = Len(W) + 1
      <4>1. PICK m \in 1..k - 1 : W[i] = L[m]
        BY <3>1 DEF Picked
      <4> QED BY <1>1, <1>2, <2>3, <3>1, <3>3, <4>1
    <3> QED BY <2>4, <3>2, <3>3
  <2>9. Len(V) <= k /\ ((\E n \in 1..k : L[n] \in cs) => Len(V) < k)
    <3>1. (\E n \in 1..k : L[n] \in cs) => \E n \in 1..k - 1 : L[n] \in cs
      BY <1>1, <1>5
    <3>2. (\E n \in 1..k - 1 : L[n] \in cs) => Len(W) < k - 1
      BY DEF Picked
    <3> QED BY <1>1, <1>3, <2>3, <3>1, <3>2
  <2>10. Picked(V, L, cs, k)
    BY <2>6, <2>7, <2>8, <2>9 DEF Picked
  <2> QED BY <1>5, <2>1, <2>3, <2>10
<1> QED BY <1>4, <1>5

\* Dropping is a recursive function: it is there (RunIs), and it is the only one.
LEMMA DroppingIs ==
  ASSUME NEW S0, NEW L \in Seq(S0), NEW cs
  PROVE  Dropping(L, cs) \in Seq(S0) /\ Picked(Dropping(L, cs), L, cs, Len(L))
<1> DEFINE N == Len(L)
           S == Seq(S0)
           Next1(W, n) == IF L[n] \in cs THEN W ELSE Append(W, L[n])
           g == [p \in S \X (1..N) |-> Next1(p[1], p[2])]
<1>1. N \in Nat /\ << >> \in S
  OBVIOUS
<1>2. ASSUME NEW W \in S, NEW n \in 1..N PROVE Next1(W, n) \in S
  <2>1. L[n] \in S0
    OBVIOUS
  <2>2. Append(W, L[n]) \in S
    BY <2>1
  <2> QED BY <2>2
<1>3. g \in [S \X (1..N) -> S] /\ \A W \in S, n \in 1..N : g[<<W, n>>] = Next1(W, n)
  <2> HIDE DEF Next1, S, N
  <2>1. \A p \in S \X (1..N) : Next1(p[1], p[2]) \in S
    BY <1>2
  <2> QED BY <2>1
<1> HIDE DEF g, S
<1>4. PICK f : Run(f, S, << >>, g, N)
  BY <1>1, <1>3, RunIs
<1>5. /\ f \in [0..N -> S] /\ f[0] = << >>
      /\ \A k \in 1..N : f[k] = Next1(f[k - 1], k)
  <2>1. \A k \in 1..N : k - 1 \in 0..N
    BY <1>1
  <2> HIDE DEF Next1
  <2> QED BY <1>3, <1>4, <2>1 DEF Run
<1> DEFINE Eq(h) == h = [n \in 0..Len(L) |->
                           IF n = 0 THEN << >>
                           ELSE IF L[n] \in cs THEN h[n - 1] ELSE Append(h[n - 1], L[n])]
           acc == CHOOSE h : Eq(h)
<1>6. Eq(f)
  <2>1. \A n \in 0..N : n # 0 => n \in 1..N
    BY <1>1
  <2>2. \A n \in 0..N : f[n] = IF n = 0 THEN << >> ELSE Next1(f[n - 1], n)
    <3> HIDE DEF Next1
    <3> QED BY <1>5, <2>1
  <2> QED BY <1>5, <2>2
<1>7. Eq(acc)
  BY <1>6
<1>8. Dropping(L, cs) = acc[N]
  BY DEF Dropping
<1> HIDE DEF acc
<1>9. acc[0] = << >> /\ \A k \in 1..N : acc[k] = Next1(acc[k - 1], k)
  <2>1. \A k \in 0..N : acc[k] = IF k = 0 THEN << >> ELSE Next1(acc[k - 1], k)
    BY <1>7
  <2> HIDE DEF Next1
  <2>2. 0 \in 0..N /\ \A k \in 1..N : k \in 0..N /\ k # 0
    BY <1>1
  <2> QED BY <2>1, <2>2
<1> DEFINE U == {k \in Nat : k <= N => acc[k] \in S /\ Picked(acc[k], L, cs, k)}
<1>10. 0 \in U
  <2>1. DOMAIN << >> = {} /\ Len(<< >>) = 0 /\ ~\E n \in 1..0 : TRUE
    BY EmptySeq
  <2>2. Picked(<< >>, L, cs, 0)
    BY <2>1 DEF Picked
  <2> QED BY <1>1, <1>9, <2>2
<1>11. ASSUME NEW k \in Nat, k \in U PROVE k + 1 \in U
  <2> SUFFICES ASSUME k + 1 <= N PROVE acc[k + 1] \in S /\ Picked(acc[k + 1], L, cs, k + 1)
    OBVIOUS
  <2>1. acc[k] \in S /\ Picked(acc[k], L, cs, k) /\ k + 1 \in 1..N /\ (k + 1) - 1 = k
    BY <1>1, <1>11
  <2>2. acc[k + 1] = Next1(acc[k], k + 1)
    <3> HIDE DEF Next1
    <3> QED BY <1>9, <2>1
  <2> HIDE DEF Next1
  <2>3. Next1(acc[k], k + 1) \in S /\ Picked(Next1(acc[k], k + 1), L, cs, k + 1)
    BY <2>1, PickedOne DEF S, Next1
  <2> QED BY <2>2, <2>3
<1> HIDE DEF U
<1>12. N \in U
  BY <1>1, <1>10, <1>11, Induct
<1> QED BY <1>1, <1>8, <1>12 DEF U, S

Members(L) == {L[n] : n \in DOMAIN L}
Once(L) == \A m, n \in DOMAIN L : L[m] = L[n] => m = n

LEMMA DroppingKeeps ==
  ASSUME NEW S, NEW L \in Seq(S), NEW cs, Once(L)
  PROVE  LET W == Dropping(L, cs)
         IN  /\ W \in Seq(S) /\ Once(W) /\ Members(W) = Members(L) \ cs
             /\ Len(W) <= Len(L) /\ (Members(L) \cap cs # {} => Len(W) < Len(L))
<1>1. PICK W : W = Dropping(L, cs)
  OBVIOUS
<1>2. W \in Seq(S) /\ Picked(W, L, cs, Len(L)) /\ Len(L) \in Nat /\ DOMAIN L = 1..Len(L)
  BY <1>1, DroppingIs
<1>3. Members(W) = Members(L) \ cs
  <2>1. \A j \in DOMAIN W : W[j] \in Members(L) \ cs
    BY <1>2 DEF Picked, Members
  <2>2. \A n \in DOMAIN L : L[n] \notin cs => L[n] \in Members(W)
    BY <1>2 DEF Picked, Members
  <2> QED BY <2>1, <2>2 DEF Members
<1>4. ASSUME NEW i \in DOMAIN W, NEW j \in DOMAIN W, i < j, W[i] = W[j] PROVE FALSE
  <2>1. PICK m \in 1..Len(L), n \in 1..Len(L) : m < n /\ W[i] = L[m] /\ W[j] = L[n]
    BY <1>2, <1>4 DEF Picked
  <2>2. m # n
    BY <2>1
  <2> QED BY <1>2, <1>4, <2>1, <2>2 DEF Once
<1>5. Once(W)
  <2>1. \A i, j \in DOMAIN W : i < j \/ j < i \/ i = j
    BY <1>2
  <2> QED BY <1>4, <2>1 DEF Once
<1>6. Len(W) <= Len(L) /\ (Members(L) \cap cs # {} => Len(W) < Len(L))
  <2>1. Members(L) \cap cs # {} => \E n \in 1..Len(L) : L[n] \in cs
    BY <1>2 DEF Members
  <2> QED BY <1>2, <2>1 DEF Picked
<1> QED BY <1>1, <1>2, <1>3, <1>5, <1>6

-----------------------------------------------------------------------------
(* ChannelRules: invitations *)

\* f, g and a are invites, invited and asked, and R the channels there are.
Linked(f, g, a, R) ==
  /\ f \in [Channels -> SUBSET Locals] /\ g \in [Locals -> Seq(Channels)]
  /\ a \subseteq Channels \X Locals
  /\ \A c \in Channels, u \in Locals :
       /\ u \in f[c] <=> c \in Members(g[u])
       /\ u \in f[c] => <<c, u>> \in a /\ c \in R
  /\ \A u \in Locals : Len(g[u]) <= MaxChannels /\ Once(g[u])

LEMMA LinkedNone ==
  ASSUME NEW R
  PROVE  Linked([c \in Channels |-> {}], [u \in Locals |-> << >>], {}, R)
<1>1. << >> \in Seq(Channels) /\ DOMAIN << >> = {} /\ Len(<< >>) = 0
  BY EmptySeq
<1>2. Members(<< >>) = {} /\ Once(<< >>) /\ 0 <= MaxChannels
  BY <1>1, RulesConstants DEF Members, Once
<1> QED BY <1>1, <1>2 DEF Linked

LEMMA LinkedClear ==
  ASSUME NEW R, NEW R2, NEW freed, Linked(invites, invited, asked, R), ClearInvites(freed),
         R \ freed \subseteq R2
  PROVE  Linked(invites', invited', asked', R2)
<1>1. /\ invites' = [c \in Channels |-> IF c \in freed THEN {} ELSE invites[c]]
      /\ invited' = [u \in Locals |-> Dropping(invited[u], freed)]
      /\ asked' = {a \in asked : a[1] \notin freed}
  BY DEF ClearInvites
<1>2. ASSUME NEW u \in Locals
      PROVE  /\ invited'[u] \in Seq(Channels) /\ Once(invited'[u])
             /\ Members(invited'[u]) = Members(invited[u]) \ freed
             /\ Len(invited'[u]) <= MaxChannels
  <2>1. invited[u] \in Seq(Channels) /\ Once(invited[u]) /\ Len(invited[u]) <= MaxChannels
    BY DEF Linked
  <2>2. PICK W : W = Dropping(invited[u], freed)
    OBVIOUS
  <2>3. /\ W \in Seq(Channels) /\ Once(W) /\ Members(W) = Members(invited[u]) \ freed
        /\ Len(W) <= Len(invited[u])
    BY <2>1, <2>2, DroppingKeeps
  <2>4. Len(W) <= MaxChannels
    BY <2>1, <2>3, RulesConstants
  <2>5. invited'[u] = W
    BY <1>1, <2>2
  <2> QED BY <2>3, <2>4, <2>5
<1>3. invites' \in [Channels -> SUBSET Locals] /\ asked' \subseteq Channels \X Locals
  BY <1>1 DEF Linked
<1>4. invited' \in [Locals -> Seq(Channels)]
  BY <1>1, <1>2
<1>5. ASSUME NEW c \in Channels, NEW u \in Locals
      PROVE  /\ u \in invites'[c] <=> c \in Members(invited'[u])
             /\ u \in invites'[c] => <<c, u>> \in asked' /\ c \in R2
  <2>1. /\ u \in invites[c] <=> c \in Members(invited[u])
        /\ u \in invites[c] => <<c, u>> \in asked /\ c \in R
    BY DEF Linked
  <2>2. u \in invites'[c] <=> c \notin freed /\ u \in invites[c]
    BY <1>1
  <2> QED BY <1>1, <1>2, <2>1, <2>2
<1> QED BY <1>2, <1>3, <1>4, <1>5 DEF Linked

LEMMA LinkedDel ==
  ASSUME NEW R, NEW R2, NEW c0 \in Channels, NEW u0 \in Locals,
         Linked(invites, invited, asked, R), DelInvite(c0, u0),
         asked' = asked \ {<<c0, u0>>}, R \subseteq R2
  PROVE  Linked(invites', invited', asked', R2)
<1>1. PICK W : W = Dropping(invited[u0], {c0})
  OBVIOUS
<1>2. invited[u0] \in Seq(Channels) /\ Once(invited[u0]) /\ Len(invited[u0]) <= MaxChannels
  BY DEF Linked
<1>3. /\ W \in Seq(Channels) /\ Once(W) /\ Members(W) = Members(invited[u0]) \ {c0}
      /\ Len(W) <= Len(invited[u0])
  BY <1>1, <1>2, DroppingKeeps
<1>4. Len(W) <= MaxChannels
  BY <1>2, <1>3, RulesConstants
<1>5. /\ invites' = [invites EXCEPT ![c0] = invites[c0] \ {u0}]
      /\ invited' = [invited EXCEPT ![u0] = W]
  BY <1>1 DEF DelInvite
<1>6. /\ invites \in [Channels -> SUBSET Locals] /\ invited \in [Locals -> Seq(Channels)]
      /\ asked \subseteq Channels \X Locals
  BY DEF Linked
<1>7. /\ invites' \in [Channels -> SUBSET Locals] /\ asked' \subseteq Channels \X Locals
      /\ invited' \in [Locals -> Seq(Channels)]
  BY <1>3, <1>5, <1>6
<1>8. \A u \in Locals : Len(invited'[u]) <= MaxChannels /\ Once(invited'[u])
  <2> TAKE u \in Locals
  <2>1. CASE u = u0
    BY <1>3, <1>4, <1>5, <1>6, <2>1
  <2>2. CASE u # u0
    <3>1. invited'[u] = invited[u]
      BY <1>5, <1>6, <2>2
    <3> QED BY <3>1 DEF Linked
  <2> QED BY <2>1, <2>2
<1>9. ASSUME NEW c \in Channels, NEW u \in Locals
      PROVE  /\ u \in invites'[c] <=> c \in Members(invited'[u])
             /\ u \in invites'[c] => <<c, u>> \in asked' /\ c \in R2
  <2>1. /\ u \in invites[c] <=> c \in Members(invited[u])
        /\ u \in invites[c] => <<c, u>> \in asked /\ c \in R
    BY DEF Linked
  <2>2. u \in invites'[c] <=> u \in invites[c] /\ ~(c = c0 /\ u = u0)
    BY <1>5, <1>6
  <2>3. c \in Members(invited'[u]) <=> c \in Members(invited[u]) /\ ~(c = c0 /\ u = u0)
    <3>1. CASE u = u0
      <4>1. invited'[u] = W
        BY <1>5, <1>6, <3>1
      <4> QED BY <1>3, <3>1, <4>1
    <3>2. CASE u # u0
      <4>1. invited'[u] = invited[u]
        BY <1>5, <1>6, <3>2
      <4> QED BY <3>2, <4>1
    <3> QED BY <3>1, <3>2
  <2> QED BY <2>1, <2>2, <2>3
<1> QED BY <1>7, <1>8, <1>9 DEF Linked

\* The list of a client is full at most before it loses its oldest.
LEMMA LinkedAdd ==
  ASSUME NEW R, NEW c0 \in Channels, NEW u0 \in Locals,
         Linked(invites, invited, asked, R), AddInvite(c0, u0), c0 \in R
  PROVE  Linked(invites', invited', asked', R)
<1>1. PICK L : L = Dropping(invited[u0], {c0})
  OBVIOUS
<1>2. invited[u0] \in Seq(Channels) /\ Once(invited[u0]) /\ Len(invited[u0]) <= MaxChannels
  BY DEF Linked
<1>3. /\ L \in Seq(Channels) /\ Once(L) /\ Members(L) = Members(invited[u0]) \ {c0}
      /\ Len(L) <= Len(invited[u0])
  BY <1>1, <1>2, DroppingKeeps
<1>4. PICK freed : freed = IF Len(L) >= MaxChannels THEN {L[Len(L)]} ELSE {}
  OBVIOUS
<1>5. PICK W : W = Dropping(L, freed)
  OBVIOUS
<1>6. /\ W \in Seq(Channels) /\ Once(W) /\ Members(W) = Members(L) \ freed
      /\ Len(W) <= Len(L) /\ (Members(L) \cap freed # {} => Len(W) < Len(L))
  BY <1>3, <1>5, DroppingKeeps
<1>7. Len(W) + 1 <= MaxChannels
  <2>1. /\ Len(L) \in Nat /\ Len(W) \in Nat /\ Len(invited[u0]) \in Nat
        /\ Len(L) <= MaxChannels /\ MaxChannels \in Nat /\ MaxChannels > 0
    BY <1>2, <1>3, <1>6, RulesConstants
  <2>2. CASE Len(L) >= MaxChannels
    <3>1. Len(L) \in DOMAIN L
      BY <1>3, <2>1, <2>2
    <3>2. L[Len(L)] \in Members(L) \cap freed
      BY <1>4, <2>2, <3>1 DEF Members
    <3> QED BY <1>6, <2>1, <3>2
  <2>3. CASE ~(Len(L) >= MaxChannels)
    BY <1>6, <2>1, <2>3
  <2> QED BY <2>2, <2>3
<1>8. PICK V : V = <<c0>> \o W
  OBVIOUS
<1>9. /\ V \in Seq(Channels) /\ Len(V) = Len(W) + 1 /\ V[1] = c0 /\ Len(W) \in Nat
      /\ DOMAIN V = 1..Len(W) + 1 /\ DOMAIN W = 1..Len(W)
      /\ \A n \in DOMAIN W : V[n + 1] = W[n]
  BY <1>6, <1>8
<1>10. \A n \in DOMAIN V : n = 1 \/ (n - 1 \in DOMAIN W /\ V[n] = W[n - 1])
  <2> SUFFICES ASSUME NEW n \in DOMAIN V, n # 1 PROVE n - 1 \in DOMAIN W /\ V[n] = W[n - 1]
    OBVIOUS
  <2>1. n - 1 \in DOMAIN W /\ (n - 1) + 1 = n
    BY <1>9
  <2> QED BY <1>9, <2>1
<1>11. Members(V) = {c0} \cup Members(W) /\ c0 \notin Members(W)
  <2>1. \A n \in DOMAIN V : V[n] \in {c0} \cup Members(W)
    BY <1>9, <1>10 DEF Members
  <2>2. \A n \in DOMAIN W : n + 1 \in DOMAIN V /\ V[n + 1] = W[n]
    BY <1>9
  <2>3. 1 \in DOMAIN V
    BY <1>9
  <2>4. \A x : x \in Members(V) <=> \E n \in DOMAIN V : x = V[n]
    BY DEF Members
  <2>5. \A x : x \in Members(W) <=> \E n \in DOMAIN W : x = W[n]
    BY DEF Members
  <2>6. \A x : x \in Members(V) <=> x = c0 \/ x \in Members(W)
    BY <1>9, <2>1, <2>2, <2>3, <2>4, <2>5
  <2> QED BY <1>3, <1>6, <2>6
<1>12. Once(V)
  <2> SUFFICES ASSUME NEW m \in DOMAIN V, NEW n \in DOMAIN V, V[m] = V[n] PROVE m = n
    BY DEF Once
  <2>1. \A k \in DOMAIN V : k # 1 => V[k] # c0
    <3> SUFFICES ASSUME NEW k \in DOMAIN V, k # 1 PROVE V[k] # c0
      OBVIOUS
    <3>1. V[k] \in Members(W)
      BY <1>10 DEF Members
    <3> QED BY <1>11, <3>1
  <2>2. CASE m # 1 /\ n # 1
    <3>1. m - 1 \in DOMAIN W /\ n - 1 \in DOMAIN W /\ W[m - 1] = W[n - 1]
      BY <1>10, <2>2
    <3>2. m - 1 = n - 1
      BY <1>6, <3>1 DEF Once
    <3> QED BY <1>9, <3>2
  <2> QED BY <1>9, <2>1, <2>2
<1>13. /\ invited' = [invited EXCEPT ![u0] = V]
       /\ invites' = [d \in Channels |-> IF d = c0 THEN invites[d] \cup {u0}
                                         ELSE IF d \in freed THEN invites[d] \ {u0}
                                         ELSE invites[d]]
       /\ asked' = asked \cup {<<c0, u0>>}
  BY <1>1, <1>4, <1>5, <1>8 DEF AddInvite
<1>14. /\ invites \in [Channels -> SUBSET Locals] /\ invited \in [Locals -> Seq(Channels)]
       /\ asked \subseteq Channels \X Locals
  BY DEF Linked
<1>15. /\ invites' \in [Channels -> SUBSET Locals] /\ asked' \subseteq Channels \X Locals
       /\ invited' \in [Locals -> Seq(Channels)]
  BY <1>9, <1>13, <1>14
<1>16. \A u \in Locals : Len(invited'[u]) <= MaxChannels /\ Once(invited'[u])
  <2> TAKE u \in Locals
  <2>1. CASE u = u0
    BY <1>7, <1>9, <1>12, <1>13, <1>14, <2>1
  <2>2. CASE u # u0
    <3>1. invited'[u] = invited[u]
      BY <1>13, <1>14, <2>2
    <3> QED BY <3>1 DEF Linked
  <2> QED BY <2>1, <2>2
<1>17. ASSUME NEW c \in Channels, NEW u \in Locals
       PROVE  /\ u \in invites'[c] <=> c \in Members(invited'[u])
              /\ u \in invites'[c] => <<c, u>> \in asked' /\ c \in R
  <2>1. /\ u \in invites[c] <=> c \in Members(invited[u])
        /\ u \in invites[c] => <<c, u>> \in asked /\ c \in R
    BY DEF Linked
  <2>2. CASE u # u0
    <3>1. u \in invites'[c] <=> u \in invites[c]
      BY <1>13, <2>2
    <3>2. invited'[u] = invited[u]
      BY <1>13, <1>14, <2>2
    <3> QED BY <1>13, <2>1, <3>1, <3>2
  <2>3. CASE u = u0
    <3>1. invited'[u] = V
      BY <1>13, <1>14, <2>3
    <3>2. c \in Members(V) <=> c = c0 \/ (c \in Members(invited[u]) /\ c \notin freed)
      BY <1>3, <1>6, <1>11, <2>3
    <3>3. u \in invites'[c] <=> c = c0 \/ (u \in invites[c] /\ c \notin freed)
      BY <1>13, <2>3
    <3> QED BY <1>13, <2>1, <2>3, <3>1, <3>2, <3>3
  <2> QED BY <2>2, <2>3
<1> QED BY <1>15, <1>16, <1>17 DEF Linked

\* A client that exits: the channels of freed end with it.
LEMMA LinkedQuit ==
  ASSUME NEW R, NEW R2, NEW freed, NEW u0, Linked(invites, invited, asked, R),
         invites' = [c \in Channels |-> IF c \in freed THEN {} ELSE invites[c] \ {u0}],
         invited' = [v \in Locals |-> IF v = u0 THEN << >> ELSE Dropping(invited[v], freed)],
         asked' = {a \in asked : a[1] \notin freed /\ a[2] # u0}, R \ freed \subseteq R2
  PROVE  Linked(invites', invited', asked', R2)
<1>1. /\ invites \in [Channels -> SUBSET Locals] /\ asked \subseteq Channels \X Locals
      /\ MaxChannels \in Nat
  BY RulesConstants DEF Linked
<1>2. invites' \in [Channels -> SUBSET Locals] /\ asked' \subseteq Channels \X Locals
  BY <1>1
<1>3. ASSUME NEW u \in Locals
      PROVE  /\ invited'[u] \in Seq(Channels) /\ Once(invited'[u])
             /\ Members(invited'[u]) = IF u = u0 THEN {} ELSE Members(invited[u]) \ freed
             /\ Len(invited'[u]) <= MaxChannels
  <2>1. CASE u = u0
    <3>1. invited'[u] = << >>
      BY <2>1
    <3>2. << >> \in Seq(Channels) /\ DOMAIN << >> = {} /\ Len(<< >>) = 0
      BY EmptySeq
    <3>3. Members(<< >>) = {} /\ Once(<< >>)
      BY <3>2 DEF Members, Once
    <3> QED BY <1>1, <2>1, <3>1, <3>2, <3>3
  <2>2. CASE u # u0
    <3>1. invited[u] \in Seq(Channels) /\ Once(invited[u]) /\ Len(invited[u]) <= MaxChannels
      BY DEF Linked
    <3>2. PICK W : W = Dropping(invited[u], freed)
      OBVIOUS
    <3>3. /\ W \in Seq(Channels) /\ Once(W) /\ Members(W) = Members(invited[u]) \ freed
          /\ Len(W) <= Len(invited[u])
      BY <3>1, <3>2, DroppingKeeps
    <3>4. Len(W) <= MaxChannels
      BY <1>1, <3>1, <3>3
    <3>5. invited'[u] = W
      BY <2>2, <3>2
    <3> QED BY <2>2, <3>3, <3>4, <3>5
  <2> QED BY <2>1, <2>2
<1>4. invited' \in [Locals -> Seq(Channels)]
  <2>1. invited' = [v \in Locals |-> invited'[v]]
    OBVIOUS
  <2> QED BY <1>3, <2>1
<1>5. ASSUME NEW c \in Channels, NEW u \in Locals
      PROVE  /\ u \in invites'[c] <=> c \in Members(invited'[u])
             /\ u \in invites'[c] => <<c, u>> \in asked' /\ c \in R2
  <2>1. /\ u \in invites[c] <=> c \in Members(invited[u])
        /\ u \in invites[c] => <<c, u>> \in asked /\ c \in R
    BY DEF Linked
  <2>2. u \in invites'[c] <=> c \notin freed /\ u \in invites[c] /\ u # u0
    OBVIOUS
  <2> QED BY <1>3, <2>1, <2>2
<1> QED BY <1>2, <1>3, <1>4, <1>5 DEF Linked

-----------------------------------------------------------------------------
(* ChannelRules: channels and their members *)

\* r and ms are a channel and its members, w the names: those who are there are on line,
\* and what is cached for those of this server is what the lists say.
Proper(r, ms, w) ==
  /\ r \in Rooms /\ ms \in Memberships /\ (r.ts = 0 <=> ms = Empty)
  /\ \A v \in DOMAIN ms : w[v] # Offline
  /\ \A v \in DOMAIN ms \cap Locals :
       /\ ms[v].cache = "silenced" => w[v] \in r.list["b"] \ r.list["e"]
       /\ ms[v].cache = "clear" => w[v] \notin r.list["b"] \ r.list["e"]

Records == [op : BOOLEAN, cache : {"unknown", "clear", "silenced"}]

LEMMA MembershipIs ==
  \A ms : ms \in Memberships <=> /\ DOMAIN ms \subseteq Everyone
                                 /\ ms = [v \in DOMAIN ms |-> ms[v]]
                                 /\ \A v \in DOMAIN ms : ms[v] \in Records
<1> SUFFICES ASSUME NEW ms
             PROVE  ms \in Memberships <=> /\ DOMAIN ms \subseteq Everyone
                                           /\ ms = [v \in DOMAIN ms |-> ms[v]]
                                           /\ \A v \in DOMAIN ms : ms[v] \in Records
  OBVIOUS
<1>1. ms \in Memberships <=> \E S \in SUBSET Everyone : ms \in [S -> Records]
  BY DEF Memberships, Records
<1>2. ASSUME NEW S \in SUBSET Everyone, ms \in [S -> Records]
      PROVE  /\ DOMAIN ms \subseteq Everyone /\ ms = [v \in DOMAIN ms |-> ms[v]]
             /\ \A v \in DOMAIN ms : ms[v] \in Records
  BY <1>2
<1>3. ASSUME DOMAIN ms \subseteq Everyone, ms = [v \in DOMAIN ms |-> ms[v]],
             \A v \in DOMAIN ms : ms[v] \in Records
      PROVE  \E S \in SUBSET Everyone : ms \in [S -> Records]
  BY <1>3
<1> QED BY <1>1, <1>2, <1>3

LEMMA EmptyIs ==
  ASSUME NEW ms \in Memberships
  PROVE  ms = Empty <=> DOMAIN ms = {}
<1>1. ms = [v \in DOMAIN ms |-> ms[v]]
  BY MembershipIs
<1>2. ASSUME DOMAIN ms = {} PROVE ms = Empty
  BY <1>1, <1>2 DEF Empty
<1>3. DOMAIN Empty = {}
  BY DEF Empty
<1> QED BY <1>2, <1>3

LEMMA MemberIs ==
  ASSUME NEW op \in BOOLEAN
  PROVE  Member(op) \in Records /\ Member(op).cache = "unknown"
  BY DEF Member, Records

\* A new member: nothing is cached for it.
LEMMA ProperAdded ==
  ASSUME NEW r, NEW ms, NEW w, Proper(r, ms, w), NEW r2 \in Rooms, r2.ts # 0,
         r2.list = r.list, NEW u \in Everyone, w[u] # Offline, NEW op \in BOOLEAN
  PROVE  Proper(r2, Added(ms, u, op), w)
<1>1. PICK M : M = Added(ms, u, op)
  OBVIOUS
<1>2. DOMAIN M = DOMAIN ms \cup {u} /\ \A v \in DOMAIN M : M[v] = IF v = u THEN Member(op) ELSE ms[v]
  BY <1>1 DEF Added
<1>3. ms \in Memberships
  BY DEF Proper
<1>4. DOMAIN ms \subseteq Everyone /\ \A v \in DOMAIN ms : ms[v] \in Records
  BY <1>3, MembershipIs
<1>5. M = [v \in DOMAIN M |-> M[v]]
  BY <1>1 DEF Added
<1>6. \A v \in DOMAIN M : M[v] \in Records
  BY <1>2, <1>4, MemberIs
<1>7. DOMAIN M \subseteq Everyone
  BY <1>2, <1>4
<1>8. M \in Memberships
  BY <1>5, <1>6, <1>7, MembershipIs
<1>9. M # Empty
  BY <1>2, <1>8, EmptyIs
<1>10. \A v \in DOMAIN M : w[v] # Offline
  BY <1>2 DEF Proper
<1>11. ASSUME NEW v \in DOMAIN M \cap Locals
       PROVE  /\ M[v].cache = "silenced" => w[v] \in r2.list["b"] \ r2.list["e"]
              /\ M[v].cache = "clear" => w[v] \notin r2.list["b"] \ r2.list["e"]
  <2>1. CASE v = u
    <3>1. M[v].cache = "unknown"
      BY <1>2, <2>1, MemberIs
    <3> QED BY <3>1
  <2>2. CASE v # u
    <3>1. v \in DOMAIN ms \cap Locals /\ M[v] = ms[v]
      BY <1>2, <2>2
    <3> QED BY <3>1 DEF Proper
  <2> QED BY <2>1, <2>2
<1>12. Proper(r2, M, w)
  BY <1>8, <1>9, <1>10, <1>11 DEF Proper
<1> QED BY <1>1, <1>12

\* A member that is there already stays as it is.
LEMMA ProperArriving ==
  ASSUME NEW r, NEW ms, NEW w, Proper(r, ms, w), NEW r2 \in Rooms, r2.ts # 0,
         r2.list = r.list, NEW u \in Everyone, w[u] # Offline, NEW op \in BOOLEAN
  PROVE  Proper(r2, Arriving(ms, u, op), w)
<1>1. CASE u \notin DOMAIN ms
  <2>1. Arriving(ms, u, op) = Added(ms, u, op)
    BY <1>1, Zenon DEF Arriving
  <2> QED BY <2>1, ProperAdded
<1>2. CASE u \in DOMAIN ms
  <2>1. Arriving(ms, u, op) = ms
    BY <1>2, Zenon DEF Arriving
  <2>2. ms \in Memberships
    BY DEF Proper
  <2>3. ms # Empty
    BY <1>2, <2>2, EmptyIs
  <2>4. Proper(r2, ms, w)
    BY <2>3 DEF Proper
  <2> QED BY <2>1, <2>4
<1> QED BY <1>1, <1>2

\* Members that lose their ops keep what is cached for them.
LEMMA ProperDeopped ==
  ASSUME NEW r, NEW ms, NEW w, Proper(r, ms, w)
  PROVE  Proper(r, Deopped(ms), w)
<1>1. PICK M : M = Deopped(ms)
  OBVIOUS
<1>2. ms \in Memberships
  BY DEF Proper
<1>3. DOMAIN ms \subseteq Everyone /\ \A v \in DOMAIN ms : ms[v] \in Records
  BY <1>2, MembershipIs
<1>4. DOMAIN M = DOMAIN ms /\ M = [v \in DOMAIN M |-> M[v]]
  BY <1>1 DEF Deopped
<1>5. \A v \in DOMAIN M : M[v] \in Records /\ M[v].cache = ms[v].cache
  BY <1>1, <1>3, <1>4 DEF Deopped, Records
<1>6. M \in Memberships
  BY <1>3, <1>4, <1>5, MembershipIs
<1>7. M = Empty <=> ms = Empty
  BY <1>2, <1>4, <1>6, EmptyIs
<1>8. Proper(r, M, w)
  BY <1>4, <1>5, <1>6, <1>7 DEF Proper
<1> QED BY <1>1, <1>8

\* A member less: with the last one the channel ends.  The members ms without u, and
\* what becomes of the channel r
LessOne(ms, u) == [v \in DOMAIN ms \ {u} |-> ms[v]]
RoomLess(r, ms, u) == IF DOMAIN ms = {u} THEN NoChannel ELSE r
SameBut(ms, u, w, w2) == \A v \in DOMAIN ms \ {u} : w2[v] = w[v]

LEMMA ProperLess ==
  ASSUME NEW r, NEW ms, NEW w, Proper(r, ms, w), NEW u, NEW w2, SameBut(ms, u, w, w2)
  PROVE  Proper(RoomLess(r, ms, u), LessOne(ms, u), w2)
<1>1. PICK M : M = [v \in DOMAIN ms \ {u} |-> ms[v]]
  OBVIOUS
<1>2. DOMAIN M = DOMAIN ms \ {u} /\ \A v \in DOMAIN M : M[v] = ms[v]
  BY <1>1
<1>3. ms \in Memberships
  BY DEF Proper
<1>4. DOMAIN ms \subseteq Everyone /\ \A v \in DOMAIN ms : ms[v] \in Records
  BY <1>3, MembershipIs
<1>5. M = [v \in DOMAIN M |-> M[v]]
  BY <1>1
<1>6. M \in Memberships
  BY <1>2, <1>4, <1>5, MembershipIs
<1>7. PICK r2 : r2 = IF DOMAIN ms = {u} THEN NoChannel ELSE r
  OBVIOUS
<1>8. r2 \in Rooms /\ (r2.ts = 0 <=> M = Empty)
  <2>1. CASE DOMAIN ms = {u}
    <3>1. M = Empty
      BY <1>2, <1>6, <2>1, EmptyIs
    <3>2. r2 = NoChannel
      BY <1>7, <2>1
    <3>3. NoChannel \in Rooms /\ NoChannel.ts = 0
      BY RulesConstants DEF NoChannel, NoLists, Rooms
    <3> QED BY <3>1, <3>2, <3>3
  <2>2. CASE DOMAIN ms # {u}
    <3>1. DOMAIN ms = {} <=> DOMAIN M = {}
      BY <1>2, <2>2
    <3>2. ms = Empty <=> M = Empty
      BY <1>3, <1>6, <3>1, EmptyIs
    <3>3. r2 = r
      BY <1>7, <2>2
    <3> QED BY <3>2, <3>3 DEF Proper
  <2> QED BY <2>1, <2>2
<1>9. \A v \in DOMAIN M : w2[v] # Offline
  BY <1>2 DEF Proper, SameBut
<1>10. ASSUME NEW v \in DOMAIN M \cap Locals
       PROVE  /\ M[v].cache = "silenced" => w2[v] \in r2.list["b"] \ r2.list["e"]
              /\ M[v].cache = "clear" => w2[v] \notin r2.list["b"] \ r2.list["e"]
  <2>1. r2 = r /\ v \in DOMAIN ms \cap Locals /\ M[v] = ms[v] /\ w2[v] = w[v]
    BY <1>2, <1>7, <1>10 DEF SameBut
  <2> QED BY <2>1 DEF Proper
<1>11. Proper(r2, M, w2)
  BY <1>6, <1>8, <1>9, <1>10 DEF Proper
<1> QED BY <1>1, <1>7, <1>11 DEF RoomLess, LessOne

\* Nothing is cached any more for anybody.
LEMMA ProperUnchecked ==
  ASSUME NEW r, NEW ms, NEW w, Proper(r, ms, w), NEW r2 \in Rooms, r2.ts = 0 <=> r.ts = 0,
         NEW M, DOMAIN M = DOMAIN ms, M = [v \in DOMAIN M |-> M[v]],
         \A v \in DOMAIN M : M[v] \in Records /\ M[v].cache = "unknown"
  PROVE  M \in Memberships /\ Proper(r2, M, w)
<1>1. ms \in Memberships
  BY DEF Proper
<1>2. DOMAIN M \subseteq Everyone
  BY <1>1, MembershipIs
<1>3. M \in Memberships
  BY <1>2, MembershipIs
<1>4. M = Empty <=> ms = Empty
  BY <1>1, <1>3, EmptyIs
<1> QED BY <1>3, <1>4 DEF Proper

-----------------------------------------------------------------------------
(* ChannelRules: the steps *)

Made == {c \in Channels : room[c].ts > 0}

RulesInv ==
  /\ room \in [Channels -> Rooms] /\ member \in [Channels -> Memberships]
  /\ who \in [Everyone -> Idents \cup {Offline}]
  /\ \A c \in Channels : Proper(room[c], member[c], who)
  /\ Linked(invites, invited, asked, Made)

LEMMA RulesNow ==
  ASSUME room' \in [Channels -> Rooms], member' \in [Channels -> Memberships],
         who' \in [Everyone -> Idents \cup {Offline}],
         \A c \in Channels : Proper(room'[c], member'[c], who'),
         Linked(invites', invited', asked', Made')
  PROVE  RulesInv'
  BY DEF RulesInv

\* A channel and its members change, the names and the invitations do not.
LEMMA OneKeeps ==
  ASSUME RulesInv, NEW c \in Channels, NEW r \in Rooms, NEW ms \in Memberships,
         room' = [room EXCEPT ![c] = r], member' = [member EXCEPT ![c] = ms],
         Proper(r, ms, who), UNCHANGED who
  PROVE  /\ room' \in [Channels -> Rooms] /\ member' \in [Channels -> Memberships]
         /\ who' \in [Everyone -> Idents \cup {Offline}]
         /\ \A d \in Channels : Proper(room'[d], member'[d], who')
         /\ r.ts # 0 => Made \subseteq Made'
<1>1. room \in [Channels -> Rooms] /\ member \in [Channels -> Memberships]
  BY DEF RulesInv
<1>2. room' \in [Channels -> Rooms] /\ member' \in [Channels -> Memberships]
  BY <1>1
<1>3. ASSUME NEW d \in Channels PROVE Proper(room'[d], member'[d], who')
  <2>1. CASE d = c
    <3>1. room'[d] = r /\ member'[d] = ms
      BY <1>1, <2>1
    <3> QED BY <3>1
  <2>2. CASE d # c
    <3>1. room'[d] = room[d] /\ member'[d] = member[d]
      BY <1>1, <2>2
    <3> QED BY <3>1 DEF RulesInv
  <2> QED BY <2>1, <2>2
<1>4. r.ts # 0 => Made \subseteq Made'
  <2> SUFFICES ASSUME r.ts # 0, NEW d \in Made PROVE room'[d].ts > 0
    BY DEF Made
  <2>1. r.ts \in 0..LastTs
    BY DEF Rooms
  <2>2. r.ts > 0
    BY <2>1
  <2>3. d \in Channels /\ room[d].ts > 0
    BY DEF Made
  <2>4. room'[d] = IF d = c THEN r ELSE room[d]
    BY <1>1, <2>3
  <2> QED BY <2>2, <2>3, <2>4
<1> QED BY <1>2, <1>3, <1>4 DEF RulesInv

\* The invitations stay while their channels do.
LEMMA LinkedStays ==
  ASSUME NEW R, NEW R2, Linked(invites, invited, asked, R), R \subseteq R2,
         UNCHANGED <<invites, invited, asked>>
  PROVE  Linked(invites', invited', asked', R2)
  BY DEF Linked

LEMMA EnterKeeps ==
  ASSUME RulesInv, NEW u \in Locals, NEW c \in Channels, NEW key, Enter(u, c, key)
  PROVE  RulesInv'
<1>1. /\ room \in [Channels -> Rooms] /\ member \in [Channels -> Memberships]
      /\ Proper(room[c], member[c], who) /\ u \in Everyone
  BY DEF RulesInv, Everyone
<1>2. room[c] \in Rooms /\ room[c].ts \in Nat
  BY <1>1 DEF Rooms
<1>3. PICK op \in BOOLEAN, r \in Rooms :
        /\ room' = [room EXCEPT ![c] = r] /\ r.ts # 0 /\ r.list = room[c].list
        /\ member' = [member EXCEPT ![c] = Added(member[c], u, op)]
  <2>1. PICK op \in BOOLEAN : op = (room[c].ts = 0)
    OBVIOUS
  <2>2. PICK r : r = IF room[c].ts = 0 THEN [room[c] EXCEPT !.ts = LastTs] ELSE room[c]
    OBVIOUS
  <2>3. r \in Rooms /\ r.ts # 0 /\ r.list = room[c].list
    BY <1>2, <2>2, RulesConstants DEF Rooms
  <2>4. \/ room[c].ts > 0 /\ member' = [member EXCEPT ![c] = Added(member[c], u, FALSE)] /\ room' = room
        \/ /\ room[c].ts = 0 /\ room' = [room EXCEPT ![c] = [room[c] EXCEPT !.ts = LastTs]]
           /\ member' = [member EXCEPT ![c] = Added(member[c], u, TRUE)]
    BY DEF Enter
  <2>5. room' = [room EXCEPT ![c] = r]
    <3>1. CASE room[c].ts = 0
      BY <1>2, <2>2, <2>4, <3>1
    <3>2. CASE room[c].ts # 0
      BY <1>1, <2>2, <2>4, <3>2
    <3> QED BY <3>1, <3>2
  <2>6. member' = [member EXCEPT ![c] = Added(member[c], u, op)]
    <3>1. CASE room[c].ts = 0
      <4>1. op = TRUE
        BY <2>1, <3>1
      <4>2. ~(room[c].ts > 0)
        BY <3>1
      <4>3. member' = [member EXCEPT ![c] = Added(member[c], u, TRUE)]
        BY <2>4, <4>2, Zenon
      <4> QED BY <4>1, <4>3, Zenon
    <3>2. CASE room[c].ts # 0
      <4>1. op = FALSE
        BY <2>1, <3>2
      <4>2. member' = [member EXCEPT ![c] = Added(member[c], u, FALSE)]
        BY <1>2, <2>4, <3>2
      <4> QED BY <4>1, <4>2, Zenon
    <3> QED BY <3>1, <3>2
  <2> QED BY <2>3, <2>5, <2>6
<1>4. who[u] # Offline /\ UNCHANGED who
  BY DEF Enter
<1>5. PICK ms : ms = Added(member[c], u, op)
  OBVIOUS
<1>6. Proper(r, ms, who)
  BY <1>1, <1>3, <1>4, <1>5, ProperAdded
<1>7. ms \in Memberships
  BY <1>6 DEF Proper
<1>8. member' = [member EXCEPT ![c] = ms] /\ room' = [room EXCEPT ![c] = r]
  BY <1>3, <1>5
<1>9. /\ room' \in [Channels -> Rooms] /\ member' \in [Channels -> Memberships]
      /\ who' \in [Everyone -> Idents \cup {Offline}]
      /\ \A d \in Channels : Proper(room'[d], member'[d], who')
      /\ Made \subseteq Made'
  BY <1>3, <1>4, <1>6, <1>7, <1>8, OneKeeps
<1>10. Linked(invites', invited', asked', Made')
  <2>1. PICK R2 : R2 = Made'
    OBVIOUS
  <2>2. Linked(invites, invited, asked, Made) /\ Made \subseteq R2
    BY <1>9, <2>1 DEF RulesInv
  <2>3. DelInvite(c, u) /\ asked' = asked \ {<<c, u>>}
    BY DEF Enter
  <2> QED BY <2>1, <2>2, <2>3, LinkedDel
<1> QED BY <1>9, <1>10, RulesNow

LEMMA RecvEnterKeeps ==
  ASSUME RulesInv, NEW u \in Remotes, NEW c \in Channels, NEW t \in 1..LastTs,
         RecvEnter(u, c, t)
  PROVE  RulesInv'
<1>1. /\ room \in [Channels -> Rooms] /\ member \in [Channels -> Memberships]
      /\ Proper(room[c], member[c], who) /\ u \in Everyone
  BY DEF RulesInv, Everyone
<1>2. room[c] \in Rooms /\ room[c].ts \in Nat
  BY <1>1 DEF Rooms
<1>3. PICK older \in BOOLEAN : older <=> t < room[c].ts
  OBVIOUS
<1>4. PICK r : r = IF older \/ room[c].ts = 0
                   THEN [room[c] EXCEPT !.ts = t, !.modes = {}, !.limit = 0] ELSE room[c]
  OBVIOUS
<1>5. r \in Rooms /\ r.ts # 0 /\ r.list = room[c].list
  <2>1. t \in 0..LastTs /\ t # 0 /\ {} \in SUBSET Modes /\ 0 \in 0..MaxLimit
    BY RulesConstants
  <2>2. CASE older \/ room[c].ts = 0
    BY <1>2, <1>4, <2>1, <2>2 DEF Rooms
  <2>3. CASE ~older /\ room[c].ts # 0
    BY <1>2, <1>4, <2>3
  <2> QED BY <2>2, <2>3
<1>6. PICK was : was = IF older THEN Deopped(member[c]) ELSE member[c]
  OBVIOUS
<1>7. Proper(room[c], was, who)
  <2>1. CASE older
    BY <1>1, <1>6, <2>1, ProperDeopped
  <2>2. CASE ~older
    BY <1>1, <1>6, <2>2
  <2> QED BY <2>1, <2>2
<1>8. PICK ms : ms = Arriving(was, u, FALSE)
  OBVIOUS
<1>9. /\ room' = [room EXCEPT ![c] = r] /\ member' = [member EXCEPT ![c] = ms]
      /\ who[u] # Offline /\ UNCHANGED <<who, invites, invited, asked>>
  BY <1>3, <1>4, <1>6, <1>8 DEF RecvEnter
<1>10. Proper(r, ms, who)
  BY <1>1, <1>5, <1>7, <1>8, <1>9, ProperArriving
<1>11. ms \in Memberships
  BY <1>10 DEF Proper
<1>12. /\ room' \in [Channels -> Rooms] /\ member' \in [Channels -> Memberships]
       /\ who' \in [Everyone -> Idents \cup {Offline}]
       /\ \A d \in Channels : Proper(room'[d], member'[d], who')
       /\ Made \subseteq Made'
  BY <1>5, <1>9, <1>10, <1>11, OneKeeps
<1>13. Linked(invites', invited', asked', Made')
  <2>1. PICK R2 : R2 = Made'
    OBVIOUS
  <2>2. Linked(invites, invited, asked, Made) /\ Made \subseteq R2
    BY <1>12, <2>1 DEF RulesInv
  <2> QED BY <1>9, <2>1, <2>2, LinkedStays
<1> QED BY <1>12, <1>13, RulesNow

\* A channel that changes and stays, with the members that it has
LEMMA ModesKeep ==
  ASSUME RulesInv, NEW c \in Channels, NEW r, NEW ms, Proper(r, ms, who), r.ts # 0,
         room' = [room EXCEPT ![c] = r], member' = [member EXCEPT ![c] = ms],
         UNCHANGED <<who, invites, invited, asked>>
  PROVE  RulesInv'
<1>1. r \in Rooms /\ ms \in Memberships
  BY DEF Proper
<1>2. /\ room' \in [Channels -> Rooms] /\ member' \in [Channels -> Memberships]
      /\ who' \in [Everyone -> Idents \cup {Offline}]
      /\ \A d \in Channels : Proper(room'[d], member'[d], who')
      /\ Made \subseteq Made'
  BY <1>1, OneKeeps
<1>3. Linked(invites', invited', asked', Made')
  <2>1. PICK R2 : R2 = Made'
    OBVIOUS
  <2>2. Linked(invites, invited, asked, Made) /\ Made \subseteq R2
    BY <1>2, <2>1 DEF RulesInv
  <2> QED BY <2>1, <2>2, LinkedStays
<1> QED BY <1>2, <1>3, RulesNow

\* An operator is a member, so the channel is there.
LEMMA OpIs ==
  ASSUME RulesInv, NEW u, NEW c \in Channels, On(u, c)
  PROVE  /\ room[c] \in Rooms /\ room[c].ts # 0 /\ room[c].ts > 0
         /\ member[c] \in Memberships /\ Proper(room[c], member[c], who)
<1>1. Proper(room[c], member[c], who) /\ room[c] \in Rooms /\ member[c] \in Memberships
  BY DEF RulesInv
<1>2. room[c].ts \in 0..LastTs
  BY <1>1 DEF Rooms
<1>3. DOMAIN member[c] # {}
  BY DEF On
<1>4. room[c].ts # 0
  BY <1>1, <1>3, EmptyIs DEF Proper
<1> QED BY <1>1, <1>2, <1>4

LEMMA MaskKeeps ==
  ASSUME RulesInv, NEW u \in Everyone, NEW c \in Channels, NEW kind \in IdLists,
         NEW ids \in SUBSET Idents, IsOp(u, c),
         room' = [room EXCEPT ![c].list[kind] = ids],
         member' = [member EXCEPT ![c] = IF ClearsCache(kind) THEN Unchecked(@) ELSE @],
         UNCHANGED <<who, invites, invited, asked>>
  PROVE  RulesInv'
<1>1. /\ room[c] \in Rooms /\ room[c].ts # 0 /\ member[c] \in Memberships
      /\ Proper(room[c], member[c], who)
  BY OpIs DEF IsOp
<1>2. PICK r : r = [room[c] EXCEPT !.list[kind] = ids]
  OBVIOUS
<1>3. r \in Rooms /\ r.ts = room[c].ts /\ r.list = [room[c].list EXCEPT ![kind] = ids]
  BY <1>1, <1>2 DEF Rooms
<1>4. room' = [room EXCEPT ![c] = r]
  BY <1>2
<1>5. PICK ms : ms = IF ClearsCache(kind) THEN Unchecked(member[c]) ELSE member[c]
  OBVIOUS
<1>6. member' = [member EXCEPT ![c] = ms]
  BY <1>5
<1>7. CASE ClearsCache(kind)
  <2>1. ms = [v \in DOMAIN member[c] |-> [member[c][v] EXCEPT !.cache = "unknown"]]
    BY <1>5, <1>7 DEF Unchecked
  <2>2. \A v \in DOMAIN member[c] : member[c][v] \in Records
    BY <1>1, MembershipIs
  <2>3. \A v \in DOMAIN ms : ms[v] \in Records /\ ms[v].cache = "unknown"
    BY <2>1, <2>2 DEF Records
  <2>4. DOMAIN ms = DOMAIN member[c] /\ ms = [v \in DOMAIN ms |-> ms[v]]
    BY <2>1
  <2>5. Proper(r, ms, who)
    BY <1>1, <1>3, <2>3, <2>4, ProperUnchecked
  <2> QED BY <1>1, <1>3, <1>4, <1>6, <2>5, ModesKeep
<1>8. CASE ~ClearsCache(kind)
  <2>1. ms = member[c] /\ kind \notin {"b", "e"}
    BY <1>5, <1>8 DEF ClearsCache
  <2>2. r.list["b"] = room[c].list["b"] /\ r.list["e"] = room[c].list["e"]
    BY <1>1, <1>3, <2>1 DEF Rooms, IdLists
  <2>3. Proper(r, ms, who)
    BY <1>1, <1>3, <2>1, <2>2 DEF Proper
  <2> QED BY <1>1, <1>3, <1>4, <1>6, <2>3, ModesKeep
<1> QED BY <1>7, <1>8

LEMMA SpeakKeeps ==
  ASSUME RulesInv, NEW u \in Locals, NEW c \in Channels, Speak(u, c)
  PROVE  RulesInv'
<1>1. On(u, c)
  BY DEF Speak
<1>2. /\ room[c] \in Rooms /\ room[c].ts # 0 /\ member[c] \in Memberships
      /\ Proper(room[c], member[c], who)
  BY <1>1, OpIs
<1>3. PICK x : x = IF IsBanned(u, c) THEN "silenced" ELSE "clear"
  OBVIOUS
<1>4. PICK ms : ms = [member[c] EXCEPT ![u].cache = x]
  OBVIOUS
<1>5. member' = [member EXCEPT ![c] = ms] /\ room' = [room EXCEPT ![c] = room[c]]
  <2>1. room' = room /\ room \in [Channels -> Rooms]
    BY DEF Speak, RulesInv
  <2>2. room' = [room EXCEPT ![c] = room[c]]
    BY <2>1
  <2>3. member' = [member EXCEPT ![c] = ms]
    BY <1>3, <1>4 DEF Speak
  <2> QED BY <2>2, <2>3
<1>6. /\ DOMAIN member[c] \subseteq Everyone /\ u \in DOMAIN member[c]
      /\ member[c] = [v \in DOMAIN member[c] |-> member[c][v]]
      /\ \A v \in DOMAIN member[c] : member[c][v] \in Records
  BY <1>1, <1>2, MembershipIs DEF On
<1>7. DOMAIN ms = DOMAIN member[c] /\ ms = [v \in DOMAIN ms |-> ms[v]]
  BY <1>4
<1>8. /\ \A v \in DOMAIN ms : v # u => ms[v] = member[c][v]
      /\ ms[u] = [member[c][u] EXCEPT !.cache = x]
  BY <1>4, <1>6
<1>9. ms[u] \in Records /\ ms[u].cache = x
  <2>1. x \in {"unknown", "clear", "silenced"} /\ member[c][u] \in Records
    BY <1>3, <1>6
  <2> QED BY <1>8, <2>1 DEF Records
<1>10. \A v \in DOMAIN ms : ms[v] \in Records
  BY <1>6, <1>7, <1>8, <1>9
<1>11. ms \in Memberships
  BY <1>6, <1>7, <1>10, MembershipIs
<1>12. ms # Empty
  BY <1>6, <1>7, <1>11, EmptyIs
<1>13. ASSUME NEW v \in DOMAIN ms \cap Locals
       PROVE  /\ ms[v].cache = "silenced" => who[v] \in room[c].list["b"] \ room[c].list["e"]
              /\ ms[v].cache = "clear" => who[v] \notin room[c].list["b"] \ room[c].list["e"]
  <2>1. CASE v = u
    BY <1>3, <1>9, <2>1 DEF IsBanned
  <2>2. CASE v # u
    <3>1. ms[v] = member[c][v] /\ v \in DOMAIN member[c] \cap Locals
      BY <1>7, <1>8, <2>2
    <3> QED BY <1>2, <3>1 DEF Proper
  <2> QED BY <2>1, <2>2
<1>14. \A v \in DOMAIN ms : who[v] # Offline
  BY <1>2, <1>7 DEF Proper
<1>15. Proper(room[c], ms, who)
  BY <1>2, <1>11, <1>12, <1>13, <1>14 DEF Proper
<1>16. UNCHANGED <<who, invites, invited, asked>>
  BY DEF Speak
<1> QED BY <1>2, <1>5, <1>15, <1>16, ModesKeep

LEMMA SetModesKeeps ==
  ASSUME RulesInv, NEW u \in Everyone, NEW c \in Channels,
         (\E ms \in SUBSET Modes : SetModes(u, c, ms)) \/ (\E l \in 0..MaxLimit : SetLimit(u, c, l))
  PROVE  RulesInv'
<1>1. On(u, c)
  BY DEF SetModes, SetLimit, IsOp
<1>2. /\ room[c] \in Rooms /\ room[c].ts # 0 /\ member[c] \in Memberships
      /\ Proper(room[c], member[c], who)
  BY <1>1, OpIs
<1>3. PICK r \in Rooms : /\ room' = [room EXCEPT ![c] = r]
                         /\ r.ts = room[c].ts /\ r.list = room[c].list
  <2>1. ASSUME NEW ms \in SUBSET Modes, SetModes(u, c, ms)
        PROVE  \E r \in Rooms : /\ room' = [room EXCEPT ![c] = r]
                                /\ r.ts = room[c].ts /\ r.list = room[c].list
    <3>1. PICK r : r = [room[c] EXCEPT !.modes = ms]
      OBVIOUS
    <3>2. r \in Rooms /\ r.ts = room[c].ts /\ r.list = room[c].list
      BY <1>2, <3>1 DEF Rooms
    <3>3. room' = [room EXCEPT ![c] = r]
      BY <2>1, <3>1 DEF SetModes
    <3> QED BY <3>2, <3>3
  <2>2. ASSUME NEW l \in 0..MaxLimit, SetLimit(u, c, l)
        PROVE  \E r \in Rooms : /\ room' = [room EXCEPT ![c] = r]
                                /\ r.ts = room[c].ts /\ r.list = room[c].list
    <3>1. PICK r : r = [room[c] EXCEPT !.limit = l]
      OBVIOUS
    <3>2. r \in Rooms /\ r.ts = room[c].ts /\ r.list = room[c].list
      BY <1>2, <3>1 DEF Rooms
    <3>3. room' = [room EXCEPT ![c] = r]
      BY <2>2, <3>1 DEF SetLimit
    <3> QED BY <3>2, <3>3
  <2> QED BY <2>1, <2>2
<1>4. UNCHANGED <<member, who, invites, invited, asked>>
  BY DEF SetModes, SetLimit
<1>5. member' = [member EXCEPT ![c] = member[c]]
  BY <1>4 DEF RulesInv
<1>6. Proper(r, member[c], who)
  BY <1>2, <1>3 DEF Proper
<1> QED BY <1>2, <1>3, <1>4, <1>5, <1>6, ModesKeep

\* Channels of ended are gone, and u is no member of those of cs any more.
Gone(u, cs, ended) ==
  /\ ended = {c \in cs : DOMAIN member[c] = {u}}
  /\ member' = [c \in Channels |-> IF c \in cs THEN [v \in DOMAIN member[c] \ {u} |-> member[c][v]]
                                   ELSE member[c]]
  /\ room' = [c \in Channels |-> IF c \in ended THEN NoChannel ELSE room[c]]
  /\ \A c \in Channels : \A v \in DOMAIN member[c] : (c \in cs => v # u) => who'[v] = who[v]

LEMMA LessKeeps ==
  ASSUME RulesInv, NEW u, NEW cs \in SUBSET Channels, NEW ended, Gone(u, cs, ended)
  PROVE  /\ room' \in [Channels -> Rooms] /\ member' \in [Channels -> Memberships]
         /\ \A c \in Channels : Proper(room'[c], member'[c], who')
         /\ Made \ ended \subseteq Made'
<1> USE DEF Gone
<1>1. room \in [Channels -> Rooms] /\ member \in [Channels -> Memberships]
  BY DEF RulesInv
<1>2. ASSUME NEW c \in Channels
      PROVE  /\ room'[c] \in Rooms /\ member'[c] \in Memberships
             /\ Proper(room'[c], member'[c], who')
  <2>1. Proper(room[c], member[c], who)
    BY DEF RulesInv
  <2>2. CASE c \in cs
    <3>1. PICK M : M = [v \in DOMAIN member[c] \ {u} |-> member[c][v]]
      OBVIOUS
    <3>2. PICK w2 : w2 = who'
      OBVIOUS
    <3>3. SameBut(member[c], u, who, w2)
      BY <2>2, <3>2 DEF SameBut
    <3>4. PICK r : r = IF DOMAIN member[c] = {u} THEN NoChannel ELSE room[c]
      OBVIOUS
    <3>5. Proper(r, M, w2)
      <4>1. Proper(RoomLess(room[c], member[c], u), LessOne(member[c], u), w2)
        BY <2>1, <3>3, ProperLess
      <4> QED BY <3>1, <3>4, <4>1 DEF RoomLess, LessOne
    <3>6. room'[c] = r /\ member'[c] = M
      BY <2>2, <3>1, <3>4
    <3>7. r \in Rooms /\ M \in Memberships
      BY <3>5 DEF Proper
    <3> QED BY <3>2, <3>5, <3>6, <3>7
  <2>3. CASE c \notin cs
    <3>1. room'[c] = room[c] /\ member'[c] = member[c]
      BY <2>3
    <3>2. \A v \in DOMAIN member[c] : who'[v] = who[v]
      BY <2>3
    <3> QED BY <2>1, <3>1, <3>2 DEF Proper
  <2> QED BY <2>2, <2>3
<1>3. room' \in [Channels -> Rooms] /\ member' \in [Channels -> Memberships]
  <2>1. room' = [c \in Channels |-> room'[c]] /\ member' = [c \in Channels |-> member'[c]]
    OBVIOUS
  <2> QED BY <1>2, <2>1
<1>4. Made \ ended \subseteq Made'
  BY DEF Made
<1> QED BY <1>2, <1>3, <1>4

LEMMA LeavesKeeps ==
  ASSUME RulesInv, NEW u, NEW cs \in SUBSET Channels, Leaves(u, cs), UNCHANGED who
  PROVE  RulesInv'
<1>1. PICK ended : ended = {c \in cs : DOMAIN member[c] = {u}}
  OBVIOUS
<1>2. /\ member' = [c \in Channels |-> IF c \in cs THEN [v \in DOMAIN member[c] \ {u} |-> member[c][v]]
                                       ELSE member[c]]
      /\ room' = [c \in Channels |-> IF c \in ended THEN NoChannel ELSE room[c]]
      /\ ClearInvites(ended)
  BY <1>1 DEF Leaves
<1>3. who' \in [Everyone -> Idents \cup {Offline}] /\ Gone(u, cs, ended)
  BY <1>1, <1>2 DEF RulesInv, Gone
<1>4. /\ room' \in [Channels -> Rooms] /\ member' \in [Channels -> Memberships]
      /\ \A c \in Channels : Proper(room'[c], member'[c], who')
      /\ Made \ ended \subseteq Made'
  BY <1>3, LessKeeps
<1>5. Linked(invites', invited', asked', Made')
  <2>1. PICK R2 : R2 = Made'
    OBVIOUS
  <2>2. Linked(invites, invited, asked, Made) /\ Made \ ended \subseteq R2
    BY <1>4, <2>1 DEF RulesInv
  <2> QED BY <1>2, <2>1, <2>2, LinkedClear
<1> QED BY <1>3, <1>4, <1>5, RulesNow

LEMMA QuitKeeps ==
  ASSUME RulesInv, NEW u \in Everyone, Quit(u)
  PROVE  RulesInv'
<1>1. PICK cs : cs = OnWhat(u)
  OBVIOUS
<1>2. PICK ended : ended = {c \in cs : DOMAIN member[c] = {u}}
  OBVIOUS
<1>3. /\ member' = [c \in Channels |-> [v \in DOMAIN member[c] \ {u} |-> member[c][v]]]
      /\ room' = [c \in Channels |-> IF c \in ended THEN NoChannel ELSE room[c]]
      /\ invites' = [c \in Channels |-> IF c \in ended THEN {} ELSE invites[c] \ {u}]
      /\ invited' = [v \in Locals |-> IF v = u THEN <<>> ELSE Dropping(invited[v], ended)]
      /\ asked' = {a \in asked : a[1] \notin ended /\ a[2] # u}
      /\ who' = [who EXCEPT ![u] = Offline]
  BY <1>1, <1>2 DEF Quit
<1>4. cs \in SUBSET Channels /\ \A c \in Channels : c \in cs <=> u \in DOMAIN member[c]
  BY <1>1 DEF OnWhat, On
<1>5. ended = {c \in Channels : DOMAIN member[c] = {u}}
  BY <1>2, <1>4
<1>6. PICK all : all = Channels
  OBVIOUS
<1>7. /\ all \in SUBSET Channels /\ ended = {c \in all : DOMAIN member[c] = {u}}
      /\ member' = [c \in Channels |-> IF c \in all THEN [v \in DOMAIN member[c] \ {u} |-> member[c][v]]
                                       ELSE member[c]]
  BY <1>3, <1>5, <1>6
<1>8. /\ who \in [Everyone -> Idents \cup {Offline}]
      /\ \A v \in Everyone : v # u => who'[v] = who[v]
  <2>1. who \in [Everyone -> Idents \cup {Offline}]
    BY DEF RulesInv
  <2> QED BY <1>3, <2>1
<1>9. who' \in [Everyone -> Idents \cup {Offline}]
  BY <1>3, <1>8
<1>10. \A c \in Channels : \A v \in DOMAIN member[c] : (c \in all => v # u) => who'[v] = who[v]
  <2>1. \A c \in Channels : DOMAIN member[c] \subseteq Everyone
    <3>1. \A c \in Channels : member[c] \in Memberships
      BY DEF RulesInv
    <3> QED BY <3>1, MembershipIs
  <2> QED BY <1>6, <1>8, <2>1
<1>11. /\ room' \in [Channels -> Rooms] /\ member' \in [Channels -> Memberships]
       /\ \A c \in Channels : Proper(room'[c], member'[c], who')
       /\ Made \ ended \subseteq Made'
  <2>1. Gone(u, all, ended)
    BY <1>3, <1>7, <1>10 DEF Gone
  <2> QED BY <1>7, <2>1, LessKeeps
<1>12. Linked(invites', invited', asked', Made')
  <2>1. PICK R2 : R2 = Made'
    OBVIOUS
  <2>2. Linked(invites, invited, asked, Made) /\ Made \ ended \subseteq R2
    BY <1>11, <2>1 DEF RulesInv
  <2> QED BY <1>3, <2>1, <2>2, LinkedQuit
<1> QED BY <1>9, <1>11, <1>12, RulesNow

LEMMA ArriveKeeps ==
  ASSUME RulesInv, NEW u \in Everyone, NEW n \in Idents, Arrive(u, n)
  PROVE  RulesInv'
<1>1. /\ room' = room /\ member' = member /\ UNCHANGED <<invites, invited, asked>>
      /\ who[u] = Offline /\ who' = [who EXCEPT ![u] = n]
  BY DEF Arrive
<1>2. who \in [Everyone -> Idents \cup {Offline}]
  BY DEF RulesInv
<1>3. who' \in [Everyone -> Idents \cup {Offline}]
  BY <1>1, <1>2
<1>4. ASSUME NEW c \in Channels PROVE Proper(room'[c], member'[c], who')
  <2>1. Proper(room[c], member[c], who) /\ member[c] \in Memberships
    BY DEF RulesInv
  <2>2. DOMAIN member[c] \subseteq Everyone
    BY <2>1, MembershipIs
  <2>3. u \notin DOMAIN member[c]
    BY <1>1, <2>1 DEF Proper
  <2>4. \A v \in DOMAIN member[c] : who'[v] = who[v]
    BY <1>1, <1>2, <2>2, <2>3
  <2>5. room'[c] = room[c] /\ member'[c] = member[c]
    BY <1>1
  <2> QED BY <2>1, <2>4, <2>5 DEF Proper
<1>5. Linked(invites', invited', asked', Made')
  <2>1. Made' = Made
    BY <1>1 DEF Made
  <2>2. Linked(invites, invited, asked, Made)
    BY DEF RulesInv
  <2> QED BY <1>1, <2>1, <2>2
<1>6. room' \in [Channels -> Rooms] /\ member' \in [Channels -> Memberships]
  BY <1>1 DEF RulesInv
<1> QED BY <1>3, <1>4, <1>5, <1>6, RulesNow

\* What is cached for u is forgotten wherever it is a member, and no one else is renamed.
LEMMA RenameKeeps ==
  ASSUME RulesInv, NEW u \in Everyone, NEW n \in Idents, Rename(u, n)
  PROVE  RulesInv'
<1>1. /\ room' = room /\ UNCHANGED <<invites, invited, asked>>
      /\ who' = [who EXCEPT ![u] = n]
      /\ member' = [c \in Channels |-> IF u \in DOMAIN member[c]
                                       THEN [member[c] EXCEPT ![u].cache = "unknown"] ELSE member[c]]
  BY DEF Rename, UncheckedClient
<1>2. who \in [Everyone -> Idents \cup {Offline}] /\ n # Offline
  BY RulesConstants DEF RulesInv
<1>3. who' \in [Everyone -> Idents \cup {Offline}]
  BY <1>1, <1>2
<1>4. ASSUME NEW c \in Channels
      PROVE  member'[c] \in Memberships /\ Proper(room'[c], member'[c], who')
  <2>1. Proper(room[c], member[c], who) /\ member[c] \in Memberships
    BY DEF RulesInv
  <2>2. /\ DOMAIN member[c] \subseteq Everyone /\ member[c] = [v \in DOMAIN member[c] |-> member[c][v]]
        /\ \A v \in DOMAIN member[c] : member[c][v] \in Records
    BY <2>1, MembershipIs
  <2>3. PICK ms : ms = member'[c]
    OBVIOUS
  <2>4. ms = IF u \in DOMAIN member[c] THEN [member[c] EXCEPT ![u].cache = "unknown"] ELSE member[c]
    BY <1>1, <2>3
  <2>5. DOMAIN ms = DOMAIN member[c] /\ ms = [v \in DOMAIN ms |-> ms[v]]
    BY <2>2, <2>4
  <2>6. \A v \in DOMAIN ms : v # u => ms[v] = member[c][v]
    BY <2>2, <2>4
  <2>7. u \in DOMAIN ms => ms[u] \in Records /\ ms[u].cache = "unknown"
    <3> SUFFICES ASSUME u \in DOMAIN ms PROVE ms[u] \in Records /\ ms[u].cache = "unknown"
      OBVIOUS
    <3>1. ms[u] = [member[c][u] EXCEPT !.cache = "unknown"] /\ member[c][u] \in Records
      BY <2>2, <2>4, <2>5
    <3> QED BY <3>1 DEF Records
  <2>8. \A v \in DOMAIN ms : ms[v] \in Records
    BY <2>2, <2>5, <2>6, <2>7
  <2>9. ms \in Memberships
    BY <2>2, <2>5, <2>8, MembershipIs
  <2>10. ms = Empty <=> member[c] = Empty
    BY <2>1, <2>5, <2>9, EmptyIs
  <2>11. \A v \in DOMAIN ms : v # u => who'[v] = who[v]
    BY <1>1, <1>2, <2>2, <2>5
  <2>12. u \in DOMAIN ms => who'[u] # Offline
    BY <1>1, <1>2
  <2>13. \A v \in DOMAIN ms : who'[v] # Offline
    BY <2>1, <2>5, <2>11, <2>12 DEF Proper
  <2>14. ASSUME NEW v \in DOMAIN ms \cap Locals
         PROVE  /\ ms[v].cache = "silenced" => who'[v] \in room[c].list["b"] \ room[c].list["e"]
                /\ ms[v].cache = "clear" => who'[v] \notin room[c].list["b"] \ room[c].list["e"]
    <3>1. CASE v = u
      <4>1. ms[v].cache = "unknown"
        BY <2>7, <3>1
      <4> QED BY <4>1
    <3>2. CASE v # u
      <4>1. ms[v] = member[c][v] /\ v \in DOMAIN member[c] \cap Locals /\ who'[v] = who[v]
        BY <2>5, <2>6, <2>11, <3>2
      <4> QED BY <2>1, <4>1 DEF Proper
    <3> QED BY <3>1, <3>2
  <2>15. PICK w2 : w2 = who'
    OBVIOUS
  <2>16. Proper(room[c], ms, w2)
    <3>1. /\ room[c] \in Rooms /\ (room[c].ts = 0 <=> ms = Empty)
      BY <2>1, <2>10 DEF Proper
    <3>2. /\ \A v \in DOMAIN ms : w2[v] # Offline
          /\ \A v \in DOMAIN ms \cap Locals :
               /\ ms[v].cache = "silenced" => w2[v] \in room[c].list["b"] \ room[c].list["e"]
               /\ ms[v].cache = "clear" => w2[v] \notin room[c].list["b"] \ room[c].list["e"]
      BY <2>13, <2>14, <2>15
    <3> QED BY <2>9, <3>1, <3>2 DEF Proper
  <2> QED BY <1>1, <2>3, <2>9, <2>15, <2>16
<1>5. Linked(invites', invited', asked', Made')
  <2>1. Made' = Made
    BY <1>1 DEF Made
  <2>2. Linked(invites, invited, asked, Made)
    BY DEF RulesInv
  <2> QED BY <1>1, <2>1, <2>2
<1>6. room' \in [Channels -> Rooms] /\ member' \in [Channels -> Memberships]
  <2>1. member' = [c \in Channels |-> member'[c]]
    BY <1>1
  <2>2. room' \in [Channels -> Rooms]
    BY <1>1 DEF RulesInv
  <2> QED BY <1>4, <2>1, <2>2
<1> QED BY <1>3, <1>4, <1>5, <1>6, RulesNow

\* An SJOIN of a channel no older than the one here, whose lists and invitations stay
LEMMA BurstStays ==
  ASSUME RulesInv, NEW u \in Remotes, NEW c \in Channels, NEW t \in 1..LastTs,
         NEW modes \in SUBSET Modes, NEW l \in 0..MaxLimit, NEW op \in BOOLEAN,
         RecvBurst(u, c, t, modes, l, op), room[c].ts = 0 \/ t >= room[c].ts
  PROVE  RulesInv'
<1>1. /\ room \in [Channels -> Rooms] /\ member \in [Channels -> Memberships]
      /\ Proper(room[c], member[c], who) /\ u \in Everyone
  BY DEF RulesInv, Everyone
<1>2. room[c] \in Rooms /\ room[c].ts \in Nat
  BY <1>1 DEF Rooms
<1>3. PICK theirs \in BOOLEAN : theirs = (room[c].ts = 0 \/ t <= room[c].ts)
  OBVIOUS
<1>4. PICK higher \in 0..MaxLimit : higher = IF l > room[c].limit THEN l ELSE room[c].limit
  BY <1>2 DEF Rooms
<1>5. PICK r : r = IF ~theirs THEN room[c]
                   ELSE [room[c] EXCEPT !.ts = t, !.modes = room[c].modes \cup modes,
                                        !.limit = higher]
  OBVIOUS
<1>6. r \in Rooms /\ r.ts # 0 /\ r.list = room[c].list
  <2>1. t \in 0..LastTs /\ t # 0 /\ room[c].modes \cup modes \in SUBSET Modes
    BY <1>2, RulesConstants DEF Rooms
  <2>2. CASE theirs
    BY <1>2, <1>5, <2>1, <2>2 DEF Rooms
  <2>3. CASE ~theirs
    BY <1>2, <1>3, <1>5, <2>3
  <2> QED BY <2>2, <2>3
<1>7. PICK given \in BOOLEAN : given = (theirs /\ op)
  OBVIOUS
<1>8. PICK ms : ms = Arriving(member[c], u, given)
  OBVIOUS
<1>9. /\ room' = [room EXCEPT ![c] = r] /\ member' = [member EXCEPT ![c] = ms]
      /\ who[u] # Offline /\ UNCHANGED <<who, invites, invited, asked>>
  BY <1>3, <1>4, <1>5, <1>7, <1>8 DEF RecvBurst
<1>10. Proper(r, ms, who)
  BY <1>1, <1>6, <1>8, <1>9, ProperArriving
<1>11. ms \in Memberships
  BY <1>10 DEF Proper
<1>12. /\ room' \in [Channels -> Rooms] /\ member' \in [Channels -> Memberships]
       /\ who' \in [Everyone -> Idents \cup {Offline}]
       /\ \A d \in Channels : Proper(room'[d], member'[d], who')
       /\ Made \subseteq Made'
  BY <1>6, <1>9, <1>10, <1>11, OneKeeps
<1>13. Linked(invites', invited', asked', Made')
  <2>1. PICK R2 : R2 = Made'
    OBVIOUS
  <2>2. Linked(invites, invited, asked, Made) /\ Made \subseteq R2
    BY <1>12, <2>1 DEF RulesInv
  <2> QED BY <1>9, <2>1, <2>2, LinkedStays
<1> QED BY <1>12, <1>13, RulesNow

\* The lists of the channel are lost, and with them what was cached and the invitations.
LEMMA BurstLost ==
  ASSUME RulesInv, NEW u \in Remotes, NEW c \in Channels, NEW t \in 1..LastTs,
         NEW modes \in SUBSET Modes, NEW l \in 0..MaxLimit, NEW op \in BOOLEAN,
         RecvBurst(u, c, t, modes, l, op), room[c].ts # 0, t < room[c].ts
  PROVE  RulesInv'
<1>1. /\ room \in [Channels -> Rooms] /\ member \in [Channels -> Memberships]
      /\ Proper(room[c], member[c], who) /\ u \in Everyone
  BY DEF RulesInv, Everyone
<1>2. room[c] \in Rooms /\ member[c] \in Memberships /\ room[c].ts \in 0..LastTs
  BY <1>1 DEF Rooms
<1>3. PICK r : r = [NoChannel EXCEPT !.ts = t, !.modes = modes, !.limit = l]
  OBVIOUS
<1>4. PICK old : old = [v \in DOMAIN member[c] |-> Member(FALSE)]
  OBVIOUS
<1>5. PICK ms : ms = Arriving(old, u, op)
  OBVIOUS
<1>6. /\ who[u] # Offline /\ who' = who /\ ClearInvites({c})
      /\ room' = [room EXCEPT ![c] = r] /\ member' = [member EXCEPT ![c] = ms]
  <2>1. t <= room[c].ts /\ ~(t >= room[c].ts)
    BY <1>2
  <2> QED BY <1>3, <1>4, <1>5, <2>1 DEF RecvBurst
<1>7. r \in Rooms /\ r.ts # 0
  <2>1. NoLists \in [IdLists -> SUBSET Idents] /\ t \in 0..LastTs /\ t # 0
    BY RulesConstants DEF NoLists
  <2>2. r = [ts |-> t, modes |-> modes, limit |-> l, list |-> NoLists]
    BY <1>3 DEF NoChannel
  <2> QED BY <2>1, <2>2 DEF Rooms
<1>8. Proper(r, old, who)
  <2>1. DOMAIN old = DOMAIN member[c] /\ old = [v \in DOMAIN old |-> old[v]]
    BY <1>4
  <2>2. \A v \in DOMAIN old : old[v] \in Records /\ old[v].cache = "unknown"
    BY <1>4, MemberIs
  <2>3. r.ts = 0 <=> room[c].ts = 0
    BY <1>7
  <2> QED BY <1>1, <1>7, <2>1, <2>2, <2>3, ProperUnchecked
<1>9. Proper(r, ms, who)
  BY <1>1, <1>5, <1>6, <1>7, <1>8, ProperArriving
<1>10. ms \in Memberships
  BY <1>9 DEF Proper
<1>11. /\ room' \in [Channels -> Rooms] /\ member' \in [Channels -> Memberships]
       /\ who' \in [Everyone -> Idents \cup {Offline}]
       /\ \A d \in Channels : Proper(room'[d], member'[d], who')
       /\ Made \subseteq Made'
  BY <1>6, <1>7, <1>9, <1>10, OneKeeps
<1>12. Linked(invites', invited', asked', Made')
  <2>1. PICK R2 : R2 = Made'
    OBVIOUS
  <2>2. Linked(invites, invited, asked, Made) /\ Made \ {c} \subseteq R2
    BY <1>11, <2>1 DEF RulesInv
  <2> QED BY <1>6, <2>1, <2>2, LinkedClear
<1> QED BY <1>11, <1>12, RulesNow

\* An invitation, of a channel that is there
LEMMA InviteKeeps ==
  ASSUME RulesInv, NEW v \in Locals, NEW c \in Made, AddInvite(c, v),
         UNCHANGED <<room, member, who>>
  PROVE  RulesInv'
<1>1. c \in Channels
  BY DEF Made
<1>2. Linked(invites, invited, asked, Made)
  BY DEF RulesInv
<1>3. Linked(invites', invited', asked', Made)
  BY <1>1, <1>2, LinkedAdd
<1>4. Made' = Made
  BY DEF Made
<1>5. /\ room' \in [Channels -> Rooms] /\ member' \in [Channels -> Memberships]
      /\ who' \in [Everyone -> Idents \cup {Offline}]
      /\ \A d \in Channels : Proper(room'[d], member'[d], who')
  BY DEF RulesInv
<1> QED BY <1>3, <1>4, <1>5, RulesNow

LEMMA InitRules == RulesInit => RulesInv
<1> SUFFICES ASSUME RulesInit PROVE RulesInv
  OBVIOUS
<1>1. /\ room = [c \in Channels |-> NoChannel] /\ member = [c \in Channels |-> Empty]
      /\ who \in [Everyone -> Idents \cup {Offline}]
      /\ invites = [c \in Channels |-> {}] /\ invited = [u \in Locals |-> <<>>] /\ asked = {}
  BY DEF RulesInit
<1>2. DOMAIN Empty = {} /\ Empty = [v \in DOMAIN Empty |-> Empty[v]]
  BY DEF Empty
<1>3. Empty \in Memberships
  BY <1>2, MembershipIs
<1>4. NoChannel \in Rooms /\ NoChannel.ts = 0
  BY RulesConstants DEF NoChannel, NoLists, Rooms
<1>5. Proper(NoChannel, Empty, who)
  BY <1>2, <1>3, <1>4 DEF Proper
<1>6. Linked(invites, invited, asked, Made)
  BY <1>1, LinkedNone
<1> QED BY <1>1, <1>3, <1>4, <1>5, <1>6 DEF RulesInv

LEMMA RulesStep == RulesInv /\ [RulesNext]_rulesVars => RulesInv'
<1> SUFFICES ASSUME RulesInv, [RulesNext]_rulesVars PROVE RulesInv'
  OBVIOUS
<1>1. ASSUME NEW c \in Channels, NEW u \in Locals, NEW key \in BOOLEAN, Enter(u, c, key)
      PROVE  RulesInv'
  BY <1>1, EnterKeeps
<1>2. ASSUME NEW c \in Channels, NEW u \in Locals, Speak(u, c) PROVE RulesInv'
  BY <1>2, SpeakKeeps
<1>3. ASSUME NEW c \in Channels, NEW u \in Locals, NEW v \in Locals, Invite(u, v, c)
      PROVE  RulesInv'
  <2>1. On(u, c) /\ AddInvite(c, v) /\ UNCHANGED <<room, member, who>>
    BY <1>3 DEF Invite, IsOp
  <2>2. c \in Made
    BY <2>1, OpIs DEF Made
  <2> QED BY <2>1, <2>2, InviteKeeps
<1>4. ASSUME NEW c \in Channels, NEW u \in Locals, NEW old \in 1..LastTs, RecvInvite(u, c, old)
      PROVE  RulesInv'
  <2>1. c \in Made /\ AddInvite(c, u) /\ UNCHANGED <<room, member, who>>
    BY <1>4 DEF RecvInvite, Made
  <2> QED BY <2>1, InviteKeeps
<1>5. ASSUME NEW c \in Channels, NEW u \in Remotes, NEW t \in 1..LastTs, RecvEnter(u, c, t)
      PROVE  RulesInv'
  BY <1>5, RecvEnterKeeps
<1>6. ASSUME NEW c \in Channels, NEW u \in Remotes, NEW t \in 1..LastTs,
             NEW ms \in SUBSET Modes, NEW l \in 0..MaxLimit, NEW op \in BOOLEAN,
             RecvBurst(u, c, t, ms, l, op)
      PROVE  RulesInv'
  <2>1. room[c].ts \in Nat
    <3>1. room[c] \in Rooms
      BY DEF RulesInv
    <3> QED BY <3>1 DEF Rooms
  <2>2. CASE room[c].ts = 0 \/ t >= room[c].ts
    BY <1>6, <2>2, BurstStays
  <2>3. CASE room[c].ts # 0 /\ t < room[c].ts
    BY <1>6, <2>3, BurstLost
  <2> QED BY <2>1, <2>2, <2>3
<1>7. ASSUME NEW c \in Channels, NEW u \in Everyone, PartFrom(u, c) PROVE RulesInv'
  <2>1. {c} \in SUBSET Channels /\ Leaves(u, {c}) /\ UNCHANGED who
    BY <1>7 DEF PartFrom
  <2> QED BY <2>1, LeavesKeeps
<1>8. ASSUME NEW c \in Channels, NEW u \in Everyone, NEW k \in IdLists, NEW n \in Idents,
             AddMask(u, c, k, n) \/ DelMask(u, c, k, n)
      PROVE  RulesInv'
  <2>1. IsOp(u, c)
    BY <1>8 DEF AddMask, DelMask
  <2>2. room[c].list[k] \in SUBSET Idents
    <3>1. room[c] \in Rooms
      BY DEF RulesInv
    <3> QED BY <3>1 DEF Rooms
  <2>3. PICK ids \in SUBSET Idents :
          /\ room' = [room EXCEPT ![c].list[k] = ids]
          /\ member' = [member EXCEPT ![c] = IF ClearsCache(k) THEN Unchecked(@) ELSE @]
          /\ UNCHANGED <<who, invites, invited, asked>>
    <3>1. ASSUME AddMask(u, c, k, n)
          PROVE  \E ids \in SUBSET Idents :
                   /\ room' = [room EXCEPT ![c].list[k] = ids]
                   /\ member' = [member EXCEPT ![c] = IF ClearsCache(k) THEN Unchecked(@) ELSE @]
                   /\ UNCHANGED <<who, invites, invited, asked>>
      <4>1. PICK ids : ids = room[c].list[k] \cup {n}
        OBVIOUS
      <4>2. ids \in SUBSET Idents
        BY <2>2, <4>1
      <4> QED BY <3>1, <4>1, <4>2 DEF AddMask
    <3>2. ASSUME DelMask(u, c, k, n)
          PROVE  \E ids \in SUBSET Idents :
                   /\ room' = [room EXCEPT ![c].list[k] = ids]
                   /\ member' = [member EXCEPT ![c] = IF ClearsCache(k) THEN Unchecked(@) ELSE @]
                   /\ UNCHANGED <<who, invites, invited, asked>>
      <4>1. PICK ids : ids = room[c].list[k] \ {n}
        OBVIOUS
      <4>2. ids \in SUBSET Idents
        BY <2>2, <4>1
      <4> QED BY <3>2, <4>1, <4>2 DEF DelMask
    <3> QED BY <1>8, <3>1, <3>2
  <2> QED BY <2>1, <2>3, MaskKeeps
<1>9. ASSUME NEW c \in Channels, NEW u \in Everyone,
             \/ \E ms \in SUBSET Modes : SetModes(u, c, ms)
             \/ \E l \in 0..MaxLimit : SetLimit(u, c, l)
      PROVE  RulesInv'
  BY <1>9, SetModesKeeps
<1>10. ASSUME NEW u \in Locals, PartAll(u) PROVE RulesInv'
  <2>1. OnWhat(u) \in SUBSET Channels /\ Leaves(u, OnWhat(u)) /\ UNCHANGED who
    BY <1>10 DEF PartAll, OnWhat
  <2> QED BY <2>1, LeavesKeeps
<1>11. ASSUME NEW u \in Everyone, Quit(u) PROVE RulesInv'
  BY <1>11, QuitKeeps
<1>12. ASSUME NEW u \in Everyone, NEW n \in Idents, Arrive(u, n) PROVE RulesInv'
  BY <1>12, ArriveKeeps
<1>13. ASSUME NEW u \in Everyone, NEW n \in Idents, Rename(u, n) PROVE RulesInv'
  BY <1>13, RenameKeeps
<1>14. CASE UNCHANGED rulesVars
  BY <1>14 DEF rulesVars, RulesInv, Made
<1> QED BY <1>1, <1>2, <1>3, <1>4, <1>5, <1>6, <1>7, <1>8, <1>9, <1>10, <1>11, <1>12, <1>13, <1>14
        DEF RulesNext

LEMMA RulesAlways == RulesSpec => []RulesInv
  BY InitRules, RulesStep, PTL DEF RulesSpec

\* A channel is there when it has a member, its members are clients here or elsewhere, and
\* an invitation is of a client here: the types of the lists of channel.c.
THEOREM RulesTyped == RulesSpec => []RulesTypeOK
<1>1. RulesInv => RulesTypeOK
  <2> SUFFICES ASSUME RulesInv PROVE RulesTypeOK
    OBVIOUS
  <2>1. \A c \in Channels : room[c].ts = 0 <=> member[c] = Empty
    BY DEF RulesInv, Proper
  <2>2. /\ invites \in [Channels -> SUBSET Locals] /\ invited \in [Locals -> Seq(Channels)]
        /\ asked \subseteq Channels \X Locals
    BY DEF RulesInv, Linked
  <2>3. /\ room \in [Channels -> Rooms] /\ member \in [Channels -> Memberships]
        /\ who \in [Everyone -> Idents \cup {Offline}]
    BY DEF RulesInv
  <2> QED BY <2>1, <2>2, <2>3 DEF RulesTypeOK
<1> QED BY <1>1, RulesAlways, PTL

\* The ban a member has cached is the one its lists give it now, and an invitation is in
\* both its lists, of a channel that is there: whatever the channels, the clients, their
\* names and the limits (can_send(), add_id(), del_id(), add_invite(), del_invite()).
THEOREM RulesAlwaysRight == RulesSpec => []RulesRight
<1>1. RulesInv => RulesRight
  <2> SUFFICES ASSUME RulesInv PROVE RulesRight
    OBVIOUS
  <2>1. CacheRight
    <3> SUFFICES ASSUME NEW c \in Channels, NEW u \in DOMAIN member[c] \cap Locals
                 PROVE  /\ member[c][u].cache = "silenced" => IsBanned(u, c)
                        /\ member[c][u].cache = "clear" => ~IsBanned(u, c)
      BY DEF CacheRight
    <3>1. Proper(room[c], member[c], who)
      BY DEF RulesInv
    <3> QED BY <3>1 DEF Proper, IsBanned
  <2>2. InvitesLinked
    <3>1. Linked(invites, invited, asked, Made)
      BY DEF RulesInv
    <3>2. ASSUME NEW c \in Channels, NEW u \in Locals
          PROVE  /\ u \in invites[c] <=> c \in InvitedTo(u)
                 /\ u \in invites[c] => <<c, u>> \in asked /\ room[c].ts > 0
      <4>1. InvitedTo(u) = Members(invited[u])
        BY DEF InvitedTo, Members
      <4> QED BY <3>1, <4>1 DEF Linked, Made
    <3>3. ASSUME NEW u \in Locals
          PROVE  /\ Len(invited[u]) <= MaxChannels
                 /\ \A m, n \in DOMAIN invited[u] : invited[u][m] = invited[u][n] => m = n
      BY <3>1 DEF Linked, Once
    <3> QED BY <3>2, <3>3 DEF InvitesLinked
  <2> QED BY <2>1, <2>2 DEF RulesRight
<1> QED BY <1>1, RulesAlways, PTL
=============================================================================

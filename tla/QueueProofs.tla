---------------------------- MODULE QueueProofs ----------------------------
(***************************************************************************)
(* Proofs about the queues of a connection, SendQueue and RecvQueue, for any *)
(* finite sets of connections and blocks, any lengths of lines and any       *)
(* max_sendq, and for every flood limit, line and queue size.                *)
(*                                                                         *)
(* References.  What a block is counted for is the load of the sendqs        *)
(* (Load, which LoadSplit takes apart into one sendq and the others) and     *)
(* what the lines under way hold (Under); every step moves both together.    *)
(*                                                                         *)
(* InOrder.  The bytes of two runs of blocks are those of the one after      *)
(* those of the other (WireCat), by induction on their number (Induct), so   *)
(* that what dbuf_delete leaves at the head is what was not sent yet         *)
(* (DeletedLeft).  A block is put to another line only when no sendq has it, *)
(* which is where InOrder needs References; and there is one to be had for   *)
(* each line, as no more are out of the pool than lines were made (Active).  *)
(*                                                                         *)
(* Pacing: sent_parsed counts what is left of the lines of a user when two   *)
(* are taken off for each second, it is never above MAX_FLOOD once the grace *)
(* is over, and only users end it.                                          *)
(*                                                                         *)
(* Whole: a scan of what is on the recvq, begun with the lines parsed, comes *)
(* to where a scan of all that was read comes.  That Lines is such a scan,   *)
(* that a scan of two texts is one after the other, and that it never takes  *)
(* back a line are proved by induction on the number of bytes (Induct).      *)
(***************************************************************************)
EXTENDS SendQueue, RecvQueue, FiniteSetTheorems, SequenceTheorems, WellFoundedInduction,
        TLAPS

\* Every set of numbers has a least one; induction.
LEMMA LeastOf ==
  ASSUME NEW S, S \subseteq Nat, S # {}
  PROVE  \E k \in S : \A j \in S : k <= j
<1> DEFINE R == OpToRel(<, Nat)
<1>1. IsWellFoundedOn(R, Nat)
  BY NatLessThanWellFounded
<1>2. \A x, y \in Nat : <<y, x>> \in R <=> y < x
  BY DEF OpToRel
<1>3. \E x \in S : \A y \in S : ~(<<y, x>> \in R)
  <2> HIDE DEF R
  <2> QED BY <1>1, WFMin
<1>4. PICK k \in S : \A j \in S : ~(<<j, k>> \in R)
  BY <1>3
<1>5. ASSUME NEW j \in S PROVE k <= j
  <2>1. k \in Nat /\ j \in Nat /\ ~(<<j, k>> \in R)
    BY <1>4
  <2> HIDE DEF R
  <2>2. ~(j < k)
    BY <1>2, <2>1
  <2> QED BY <2>1, <2>2
<1> QED BY <1>5

LEMMA Induct ==
  ASSUME NEW S, 0 \in S, \A k \in Nat : k \in S => k + 1 \in S
  PROVE  \A k \in Nat : k \in S
<1> SUFFICES ASSUME {k \in Nat : k \notin S} # {} PROVE FALSE
  OBVIOUS
<1>1. PICK k \in {i \in Nat : i \notin S} : \A j \in {i \in Nat : i \notin S} : k <= j
  BY LeastOf
<1>2. k # 0 /\ k - 1 \in Nat /\ k - 1 < k
  BY <1>1
<1>3. k - 1 \in S
  BY <1>1, <1>2
<1> QED BY <1>1, <1>2, <1>3

-----------------------------------------------------------------------------
(* Sendqs: uses of a block *)

\* The places of b in s, and how often all sendqs q have it
At(s, b) == {k \in DOMAIN s : s[k] = b}
PlacesIn(q) == UNION {{c} \X DOMAIN q[c] : c \in Conns}
Load(q, b) == Cardinality({p \in PlacesIn(q) : q[p[1]][p[2]] = b})

LEMMA AtFinite ==
  ASSUME NEW S, NEW s \in Seq(S), NEW b
  PROVE  IsFiniteSet(At(s, b)) /\ Uses(s, b) \in Nat /\ Uses(s, b) = Cardinality(At(s, b))
         /\ At(s, b) \subseteq Nat
<1>1. IsFiniteSet(1..Len(s)) /\ At(s, b) \subseteq 1..Len(s)
  BY FS_Interval DEF At
<1>2. IsFiniteSet(At(s, b))
  BY <1>1, FS_Subset
<1> QED BY <1>1, <1>2, FS_CardinalityType DEF Uses, At

\* Cardinality by bijection
LEMMA SameCard ==
  ASSUME NEW S, IsFiniteSet(S), NEW T, NEW f \in Bijection(S, T)
  PROVE  IsFiniteSet(T) /\ Cardinality(T) = Cardinality(S)
BY FS_Bijection DEF ExistsBijection

LEMMA UsesCat ==
  ASSUME NEW S, NEW s \in Seq(S), NEW t \in Seq(S), NEW b
  PROVE  Uses(s \o t, b) = Uses(s, b) + Uses(t, b)
<1>1. PICK x, n1, n2 : x = s \o t /\ n1 = Len(s) /\ n2 = Len(t)
  OBVIOUS
<1>2. /\ x \in Seq(S) /\ n1 \in Nat /\ n2 \in Nat /\ Len(x) = n1 + n2
      /\ \A i \in 1..n1 : x[i] = s[i]
      /\ \A i \in (n1 + 1)..(n1 + n2) : x[i] = t[i - n1]
      /\ DOMAIN x = 1..(n1 + n2) /\ DOMAIN s = 1..n1 /\ DOMAIN t = 1..n2
  BY <1>1, ConcatProperties, LenProperties
<1> DEFINE Z == {k \in (n1 + 1)..(n1 + n2) : t[k - n1] = b}
           f == [k \in At(t, b) |-> k + n1]
<1>3. At(x, b) = At(s, b) \cup Z
  <2>1. \A k : k \in 1..(n1 + n2) <=> k \in 1..n1 \/ k \in (n1 + 1)..(n1 + n2)
    BY <1>2
  <2> QED BY <1>2, <2>1 DEF At
<1>4. At(s, b) \cap Z = {}
  BY <1>2 DEF At
<1>5. f \in Bijection(At(t, b), Z)
  <2>1. \A k \in At(t, b) : k \in 1..n2 /\ t[k] = b
    BY <1>2 DEF At
  <2>2. \A k \in At(t, b) : k + n1 \in Z
    BY <1>2, <2>1
  <2>3. \A j, k \in At(t, b) : f[j] = f[k] => j = k
    BY <1>2, <2>1
  <2>4. ASSUME NEW z \in Z PROVE \E k \in At(t, b) : f[k] = z
    <3>1. z - n1 \in 1..n2 /\ t[z - n1] = b /\ (z - n1) + n1 = z
      BY <1>2
    <3>2. z - n1 \in At(t, b)
      BY <1>2, <3>1 DEF At
    <3> QED BY <3>1, <3>2
  <2> HIDE DEF Z
  <2>5. f \in [At(t, b) -> Z]
    BY <2>2
  <2> HIDE DEF f
  <2> QED BY <2>3, <2>4, <2>5 DEF Bijection, Injection, Surjection, IsInjective
<1> HIDE DEF f
<1>6. IsFiniteSet(Z) /\ Cardinality(Z) = Cardinality(At(t, b))
  BY <1>5, SameCard, AtFinite
<1>7. Cardinality(At(x, b)) = Cardinality(At(s, b)) + Cardinality(Z) - Cardinality({})
  <2> HIDE DEF Z
  <2>1. IsFiniteSet(At(s, b))
    BY AtFinite
  <2>2. Cardinality(At(s, b) \cup Z)
          = Cardinality(At(s, b)) + Cardinality(Z) - Cardinality(At(s, b) \cap Z)
    BY <1>6, <2>1, FS_Union
  <2> QED BY <1>3, <1>4, <2>2
<1> HIDE DEF Z
<1>8. Uses(x, b) = Cardinality(At(x, b)) /\ Uses(s, b) = Cardinality(At(s, b))
      /\ Uses(t, b) = Cardinality(At(t, b))
  BY <1>2, AtFinite
<1>9. Uses(s, b) \in Nat /\ Uses(t, b) \in Nat
  BY AtFinite
<1> QED BY <1>1, <1>6, <1>7, <1>8, <1>9, FS_EmptySet

LEMMA UsesOne ==
  ASSUME NEW x, NEW b
  PROVE  Uses(<<x>>, b) = (IF x = b THEN 1 ELSE 0) /\ Uses(<< >>, b) = 0
<1>1. {k \in DOMAIN <<x>> : <<x>>[k] = b} = IF x = b THEN {1} ELSE {}
  OBVIOUS
<1>2. {k \in DOMAIN << >> : << >>[k] = b} = {}
  OBVIOUS
<1> QED BY <1>1, <1>2, FS_EmptySet, FS_Singleton DEF Uses

LEMMA OneSeq ==
  ASSUME NEW S, NEW x \in S
  PROVE  <<x>> \in Seq(S) /\ Len(<<x>>) = 1 /\ <<x>>[1] = x
<1>1. <<x>> \in [1..1 -> S] /\ Len(<<x>>) = 1 /\ <<x>>[1] = x
  OBVIOUS
<1>2. 1 \in Nat
  OBVIOUS
<1> QED BY <1>1, <1>2, SeqDef

LEMMA UsesAppend ==
  ASSUME NEW S, NEW s \in Seq(S), NEW x \in S, NEW b
  PROVE  Uses(Append(s, x), b) = Uses(s, b) + (IF x = b THEN 1 ELSE 0)
<1>1. PICK y \in Seq(S) : y = <<x>>
  BY OneSeq
<1>2. Append(s, x) = s \o y
  BY <1>1, AppendIsConcat
<1>3. Uses(Append(s, x), b) = Uses(s, b) + Uses(y, b)
  BY <1>2, UsesCat
<1> QED BY <1>1, <1>3, UsesOne

\* What the other sendqs have of b
Others(q, c, b) == Cardinality({p \in PlacesIn(q) : p[1] # c /\ q[p[1]][p[2]] = b})

LEMMA PlacesFinite ==
  ASSUME NEW q \in [Conns -> Seq(Blocks)]
  PROVE  IsFiniteSet(PlacesIn(q))
<1>1. IsFiniteSet(Conns)
  BY SendConstants, FS_Union DEF Conns
<1> DEFINE P == {{c} \X DOMAIN q[c] : c \in Conns}
           f == [c \in Conns |-> {c} \X DOMAIN q[c]]
<1>2. IsFiniteSet(P)
  <2>1. f \in Surjection(Conns, P)
    BY DEF Surjection
  <2> QED BY <1>1, <2>1, FS_Surjection
<1>3. ASSUME NEW T \in P PROVE IsFiniteSet(T)
  <2>1. PICK c \in Conns : T = {c} \X DOMAIN q[c]
    OBVIOUS
  <2>2. DOMAIN q[c] = 1..Len(q[c]) /\ Len(q[c]) \in Nat
    BY LenProperties
  <2>3. IsFiniteSet(1..Len(q[c]))
    BY <2>2, FS_Interval
  <2>4. IsFiniteSet({c})
    BY FS_Singleton
  <2> QED BY <2>1, <2>2, <2>3, <2>4, FS_Product
<1> HIDE DEF P
<1>4. IsFiniteSet(UNION P)
  BY <1>2, <1>3, FS_UNION
<1> QED BY <1>4 DEF P, PlacesIn

LEMMA LoadSplit ==
  ASSUME NEW q \in [Conns -> Seq(Blocks)], NEW c \in Conns, NEW b
  PROVE  /\ Load(q, b) = Others(q, c, b) + Uses(q[c], b)
         /\ Load(q, b) \in Nat /\ Others(q, c, b) \in Nat /\ Uses(q[c], b) \in Nat
<1> DEFINE A == {p \in PlacesIn(q) : q[p[1]][p[2]] = b}
           O == {p \in PlacesIn(q) : p[1] # c /\ q[p[1]][p[2]] = b}
           Z == {c} \X At(q[c], b)
           f == [k \in At(q[c], b) |-> <<c, k>>]
<1>1. IsFiniteSet(PlacesIn(q)) /\ IsFiniteSet(A) /\ IsFiniteSet(O)
  BY PlacesFinite, FS_Subset
<1>2. q[c] \in Seq(Blocks)
  OBVIOUS
<1>3. IsFiniteSet(At(q[c], b)) /\ Uses(q[c], b) \in Nat
      /\ Uses(q[c], b) = Cardinality(At(q[c], b))
  BY <1>2, AtFinite
<1>4. \A p : p \in PlacesIn(q) <=> \E d \in Conns : \E k \in DOMAIN q[d] : p = <<d, k>>
  BY DEF PlacesIn
<1>5. A = O \cup Z
  <2>1. ASSUME NEW p \in A PROVE p \in O \cup Z
    <3>0. PICK d \in Conns : \E k \in DOMAIN q[d] : p = <<d, k>>
      BY <1>4
    <3>1. PICK k \in DOMAIN q[d] : p = <<d, k>>
      BY <3>0
    <3>2. CASE d = c BY <3>1, <3>2 DEF At
    <3>3. CASE d # c BY <3>1, <3>3
    <3> QED BY <3>2, <3>3
  <2>2. ASSUME NEW p \in Z PROVE p \in A
    <3>1. PICK k \in At(q[c], b) : p = <<c, k>>
      OBVIOUS
    <3>2. k \in DOMAIN q[c] /\ q[c][k] = b
      BY <3>1 DEF At
    <3> QED BY <1>4, <3>1, <3>2
  <2> QED BY <2>1, <2>2
<1>6. O \cap Z = {}
  OBVIOUS
<1>7. f \in Bijection(At(q[c], b), Z)
  <2>1. \A j, k \in At(q[c], b) : f[j] = f[k] => j = k
    OBVIOUS
  <2>2. \A z \in Z : \E k \in At(q[c], b) : f[k] = z
    OBVIOUS
  <2>3. f \in [At(q[c], b) -> Z]
    OBVIOUS
  <2> HIDE DEF f, Z
  <2> QED BY <2>1, <2>2, <2>3 DEF Bijection, Injection, Surjection, IsInjective
<1>8. IsFiniteSet(Z) /\ Cardinality(Z) = Cardinality(At(q[c], b))
  <2> HIDE DEF f, Z
  <2> QED BY <1>3, <1>7, SameCard
<1> HIDE DEF A, O, Z
<1>9. Cardinality(A) = Cardinality(O) + Cardinality(Z)
  <2>1. Cardinality(A) = Cardinality(O) + Cardinality(Z) - Cardinality({})
    BY <1>1, <1>5, <1>6, <1>8, FS_Union
  <2> QED BY <1>1, <1>8, <2>1, FS_EmptySet, FS_CardinalityType
<1>10. Cardinality(A) = Load(q, b) /\ Cardinality(O) = Others(q, c, b)
  BY DEF A, O, Load, Others
<1> QED BY <1>1, <1>3, <1>8, <1>9, <1>10, FS_CardinalityType

\* A sendq that changes
Put(q, c, s) == [q EXCEPT ![c] = s]
PutLoad(q, c, s, b) == Load(Put(q, c, s), b) = Others(q, c, b) + Uses(s, b)

LEMMA LoadPut ==
  ASSUME NEW q \in [Conns -> Seq(Blocks)], NEW c \in Conns, NEW s \in Seq(Blocks), NEW b
  PROVE  Put(q, c, s) \in [Conns -> Seq(Blocks)] /\ PutLoad(q, c, s, b) /\ Uses(s, b) \in Nat
<1>0. PICK r : r = Put(q, c, s)
  OBVIOUS
<1>1. r = [q EXCEPT ![c] = s]
  BY <1>0 DEF Put
<1>2. r \in [Conns -> Seq(Blocks)] /\ r[c] = s /\ \A d \in Conns : d # c => r[d] = q[d]
  BY <1>1
<1>3. {p \in PlacesIn(q) : p[1] # c /\ q[p[1]][p[2]] = b}
        = {p \in PlacesIn(r) : p[1] # c /\ r[p[1]][p[2]] = b}
  <2>1. \A p : p \in PlacesIn(q) <=> \E d \in Conns : \E k \in DOMAIN q[d] : p = <<d, k>>
    BY DEF PlacesIn
  <2>2. \A p : p \in PlacesIn(r) <=> \E d \in Conns : \E k \in DOMAIN r[d] : p = <<d, k>>
    BY DEF PlacesIn
  <2> QED BY <1>2, <2>1, <2>2
<1>4. Others(r, c, b) = Others(q, c, b)
  BY <1>3 DEF Others
<1>5. Load(r, b) = Others(r, c, b) + Uses(r[c], b) /\ Uses(r[c], b) \in Nat
  BY <1>2, LoadSplit
<1> QED BY <1>0, <1>2, <1>4, <1>5 DEF PutLoad

LEMMA LoadType ==
  ASSUME NEW q \in [Conns -> Seq(Blocks)], NEW b
  PROVE  Load(q, b) \in Nat
<1>1. IsFiniteSet(PlacesIn(q))
  BY PlacesFinite
<1>2. IsFiniteSet({p \in PlacesIn(q) : q[p[1]][p[2]] = b})
  BY <1>1, FS_Subset
<1> QED BY <1>2, FS_CardinalityType DEF Load

-----------------------------------------------------------------------------
(* Bytes *)

Octet == Nat \X Nat
AnyLine == [id : Nat, size : Nat]

LEMMA BytesType ==
  ASSUME NEW l \in AnyLine
  PROVE  Bytes(l) \in Seq(Octet) /\ Len(Bytes(l)) = l.size
<1>1. l.size \in Nat /\ l.id \in Nat
  BY DEF AnyLine
<1>2. PICK num : num = l.size
  OBVIOUS
<1>3. [k \in 1..num |-> <<l.id, k>>] \in [1..num -> Octet]
  BY <1>1, <1>2 DEF Octet
<1>4. [k \in 1..num |-> <<l.id, k>>] \in Seq(Octet)
  BY <1>1, <1>2, <1>3, SeqDef
<1> QED BY <1>1, <1>2, <1>4, LenProperties DEF Bytes

LEMMA AddType ==
  ASSUME NEW s \in Seq(Octet), NEW l \in AnyLine
  PROVE  AddBytes(s, l) \in Seq(Octet) /\ AddBytes(s, l) = s \o Bytes(l)
BY BytesType, ConcatProperties DEF AddBytes

\* f[k] is the bytes of the first k lines.
Upto(ls, f) == /\ f \in [0..Len(ls) -> Seq(Octet)] /\ f[0] = << >>
               /\ \A k \in 1..Len(ls) : f[k] = AddBytes(f[k - 1], ls[k])

LEMMA UptoThere ==
  ASSUME NEW ls \in Seq(AnyLine)
  PROVE  \E f : Upto(ls, f)
<1> DEFINE First(num, f) == /\ f \in [0..num -> Seq(Octet)] /\ f[0] = << >>
                          /\ \A k \in 1..num : f[k] = AddBytes(f[k - 1], ls[k])
           S == {num \in Nat : num <= Len(ls) => \E f : First(num, f)}
<1>1. 0 \in S
  <2>1. << >> \in Seq(Octet)
    BY EmptySeq
  <2>2. First(0, [k \in 0..0 |-> << >>])
    BY <2>1
  <2> QED BY <2>2
<1>2. ASSUME NEW num \in Nat, num \in S PROVE num + 1 \in S
  <2> HIDE DEF First
  <2> SUFFICES ASSUME num + 1 <= Len(ls) PROVE \E f : First(num + 1, f)
    OBVIOUS
  <2>0. PICK f : First(num, f)
    BY <1>2
  <2> USE DEF First
  <2>1. First(num, f)
    BY <2>0
  <2>2. ls[num + 1] \in AnyLine /\ f[num] \in Seq(Octet)
    BY <2>1
  <2>3. PICK e \in Seq(Octet) : e = AddBytes(f[num], ls[num + 1])
    BY <2>2, AddType
  <2> DEFINE g == [k \in 0..(num + 1) |-> IF k = num + 1 THEN e ELSE f[k]]
  <2>4. g \in [0..(num + 1) -> Seq(Octet)] /\ g[0] = << >>
    BY <2>1
  <2>5. ASSUME NEW k \in 1..(num + 1) PROVE g[k] = AddBytes(g[k - 1], ls[k])
    <3>1. CASE k = num + 1
      <4>1. g[k] = e /\ g[k - 1] = f[num]
        BY <3>1
      <4> HIDE DEF g
      <4> QED BY <2>3, <3>1, <4>1
    <3>2. CASE k # num + 1
      <4>1. k \in 1..num /\ g[k] = f[k] /\ g[k - 1] = f[k - 1]
        BY <3>2
      <4> HIDE DEF g
      <4> QED BY <2>1, <4>1
    <3> QED BY <3>1, <3>2
  <2> HIDE DEF g
  <2> QED BY <2>4, <2>5
<1> HIDE DEF S
<1>3. \A num \in Nat : num \in S
  BY <1>1, <1>2, Induct
<1> HIDE DEF First
<1>4. \E f : First(Len(ls), f)
  <2>1. Len(ls) \in Nat
    OBVIOUS
  <2> QED BY <1>3, <2>1 DEF S
<1> QED BY <1>4 DEF Upto, First

LEMMA UptoIs ==
  ASSUME NEW ls \in Seq(AnyLine), NEW f, Upto(ls, f)
  PROVE  AllBytes(ls) = f[Len(ls)] /\ AllBytes(ls) \in Seq(Octet)
<1> DEFINE Eq(h) == h = [k \in 0..Len(ls) |-> IF k = 0 THEN << >> ELSE AddBytes(h[k - 1], ls[k])]
           acc == CHOOSE h : Eq(h)
<1>1. Eq(f)
  <2>1. \A k \in 0..Len(ls) : f[k] = IF k = 0 THEN << >> ELSE AddBytes(f[k - 1], ls[k])
    BY DEF Upto
  <2> QED BY <2>1 DEF Upto
<1>2. Eq(acc)
  BY <1>1
<1>3. AllBytes(ls) = acc[Len(ls)]
  BY DEF AllBytes
<1> HIDE DEF acc
<1>4. acc[0] = << >> /\ \A k \in 1..Len(ls) : acc[k] = AddBytes(acc[k - 1], ls[k])
  BY <1>2
<1> DEFINE S == {k \in Nat : k <= Len(ls) => f[k] = acc[k]}
<1>5. 0 \in S
  BY <1>4 DEF Upto
<1>6. ASSUME NEW k \in Nat, k \in S PROVE k + 1 \in S
  <2>1. CASE k + 1 <= Len(ls)
    <3>1. k + 1 \in 1..Len(ls) /\ (k + 1) - 1 = k /\ f[k] = acc[k]
      BY <1>6, <2>1
    <3>2. f[k + 1] = AddBytes(f[k], ls[k + 1]) /\ acc[k + 1] = AddBytes(acc[k], ls[k + 1])
      BY <1>4, <3>1 DEF Upto
    <3> QED BY <3>1, <3>2
  <2>2. CASE ~(k + 1 <= Len(ls))
    BY <2>2
  <2> QED BY <2>1, <2>2
<1> HIDE DEF S
<1>7. \A k \in Nat : k \in S
  BY <1>5, <1>6, Induct
<1>8. Len(ls) \in Nat /\ f[Len(ls)] \in Seq(Octet)
  BY DEF Upto
<1>9. f[Len(ls)] = acc[Len(ls)]
  BY <1>7, <1>8 DEF S
<1> QED BY <1>3, <1>8, <1>9

LEMMA AllBytesType ==
  ASSUME NEW ls \in Seq(AnyLine)
  PROVE  AllBytes(ls) \in Seq(Octet)
BY UptoThere, UptoIs

LEMMA AllBytesEmpty == AllBytes(<< >>) = << >>
<1>1. << >> \in Seq(AnyLine) /\ Len(<< >>) = 0
  BY EmptySeq
<1>2. PICK f : Upto(<< >>, f)
  BY <1>1, UptoThere
<1> QED BY <1>1, <1>2, UptoIs DEF Upto

LEMMA AllBytesOne ==
  ASSUME NEW l \in AnyLine
  PROVE  AllBytes(<<l>>) = Bytes(l)
<1>1. PICK s \in Seq(AnyLine) : s = <<l>> /\ Len(s) = 1 /\ s[1] = l
  BY OneSeq
<1>2. PICK f : Upto(s, f)
  BY UptoThere
<1>3. f[1] = AddBytes(f[0], l) /\ f[0] = << >>
  <2>1. 1 \in 1..1 /\ 1 - 1 = 0
    OBVIOUS
  <2> QED BY <1>1, <1>2, <2>1 DEF Upto
<1>4. AddBytes(<< >>, l) = Bytes(l)
  BY BytesType, ConcatEmptySeq DEF AddBytes
<1>5. AllBytes(s) = f[1]
  BY <1>1, <1>2, UptoIs
<1> QED BY <1>1, <1>3, <1>4, <1>5

LEMMA Assoc ==
  ASSUME NEW S, NEW u \in Seq(S), NEW v \in Seq(S), NEW w \in Seq(S)
  PROVE  (u \o v) \o w = u \o (v \o w)
BY ConcatAssociative

LEMMA AllBytesCat ==
  ASSUME NEW s \in Seq(AnyLine), NEW t \in Seq(AnyLine)
  PROVE  AllBytes(s \o t) = AllBytes(s) \o AllBytes(t)
<1>1. PICK x, n1, n2 : x = s \o t /\ n1 = Len(s) /\ n2 = Len(t)
  OBVIOUS
<1>2. /\ x \in Seq(AnyLine) /\ n1 \in Nat /\ n2 \in Nat /\ Len(x) = n1 + n2
      /\ \A i \in 1..n1 : x[i] = s[i]
      /\ \A i \in (n1 + 1)..(n1 + n2) : x[i] = t[i - n1]
  BY <1>1, ConcatProperties
<1>3. PICK f : Upto(s, f)
  BY UptoThere
<1>4. PICK g : Upto(t, g)
  BY UptoThere
<1>5. /\ f \in [0..n1 -> Seq(Octet)] /\ f[0] = << >> /\ f[n1] \in Seq(Octet)
      /\ \A k \in 1..n1 : f[k] = AddBytes(f[k - 1], s[k])
  BY <1>1, <1>2, <1>3 DEF Upto
<1>6. /\ g \in [0..n2 -> Seq(Octet)] /\ g[0] = << >>
      /\ \A k \in 1..n2 : g[k] = AddBytes(g[k - 1], t[k])
  BY <1>1, <1>4 DEF Upto
<1>6a. PICK e : /\ e \in [0..n2 -> Seq(Octet)] /\ e[0] = f[n1] /\ e[n2] = f[n1] \o g[n2]
               /\ \A k \in 1..n2 : e[k] = AddBytes(e[k - 1], t[k])
  <2>1. \A k \in 0..n2 : g[k] \in Seq(Octet)
    BY <1>6
  <2>2. \A k \in 0..n2 : f[n1] \o g[k] \in Seq(Octet)
    BY <1>5, <2>1, ConcatProperties
  <2>3. f[n1] \o g[0] = f[n1]
    BY <1>5, <1>6, ConcatEmptySeq
  <2>4. ASSUME NEW k \in 1..n2
        PROVE  f[n1] \o g[k] = AddBytes(f[n1] \o g[k - 1], t[k])
    <3>1. k - 1 \in 0..n2 /\ t[k] \in AnyLine
      BY <1>1, <1>2
    <3>2. PICK u, v, w : u = f[n1] /\ v = g[k - 1] /\ w = Bytes(t[k])
      OBVIOUS
    <3>3. u \in Seq(Octet) /\ v \in Seq(Octet)
      BY <1>5, <2>1, <3>1, <3>2
    <3>4. w \in Seq(Octet)
      BY <3>1, <3>2, BytesType
    <3>5. (u \o v) \o w = u \o (v \o w)
      BY <3>3, <3>4, Assoc
    <3>6. g[k] = v \o w
      BY <1>6, <3>2 DEF AddBytes
    <3> QED BY <3>2, <3>5, <3>6 DEF AddBytes
  <2> DEFINE x1 == [k \in 0..n2 |-> f[n1] \o g[k]]
  <2>5. x1 \in [0..n2 -> Seq(Octet)] /\ \A k \in 0..n2 : x1[k] = f[n1] \o g[k]
    BY <2>2
  <2> HIDE DEF x1
  <2>6. \A k \in 1..n2 : k - 1 \in 0..n2 /\ k \in 0..n2
    BY <1>2
  <2>7. \A k \in 1..n2 : x1[k] = AddBytes(x1[k - 1], t[k])
    BY <2>4, <2>5, <2>6, Zenon
  <2>8. 0 \in 0..n2 /\ n2 \in 0..n2
    BY <1>2
  <2> QED BY <2>3, <2>5, <2>7, <2>8, Zenon
<1> DEFINE h == [i \in 0..(n1 + n2) |-> IF i <= n1 THEN f[i] ELSE e[i - n1]]
<1>7. h \in [0..(n1 + n2) -> Seq(Octet)]
  <2>1. \A i \in 0..(n1 + n2) : i <= n1 => i \in 0..n1
    BY <1>2
  <2>2. \A i \in 0..(n1 + n2) : ~(i <= n1) => i - n1 \in 0..n2
    BY <1>2
  <2> QED BY <1>5, <1>6a, <2>1, <2>2
<1>8. h[0] = << >> /\ h[n1 + n2] = e[n2]
  <2>1. CASE n2 = 0
    BY <1>2, <1>5, <1>6a, <2>1
  <2>2. CASE n2 # 0
    <3>1. ~(n1 + n2 <= n1) /\ (n1 + n2) - n1 = n2 /\ 0 <= n1
          /\ 0 \in 0..(n1 + n2) /\ n1 + n2 \in 0..(n1 + n2)
      BY <1>2, <2>2
    <3>2. h[0] = f[0]
      BY <3>1
    <3>3. h[n1 + n2] = e[(n1 + n2) - n1]
      BY <3>1
    <3> HIDE DEF h
    <3> QED BY <1>5, <3>1, <3>2, <3>3
  <2> QED BY <2>1, <2>2
<1>9. ASSUME NEW i \in 1..(n1 + n2) PROVE h[i] = AddBytes(h[i - 1], x[i])
  <2>1. CASE i <= n1
    <3>1. i \in 1..n1 /\ h[i] = f[i] /\ h[i - 1] = f[i - 1]
      BY <1>2, <2>1
    <3> HIDE DEF h
    <3> QED BY <1>2, <1>5, <3>1
  <2>2. CASE i = n1 + 1
    <3>1. h[i] = e[1] /\ h[i - 1] = e[0] /\ x[i] = t[1] /\ 1 \in 1..n2 /\ 1 - 1 = 0
      BY <1>2, <1>5, <1>6a, <2>2
    <3> HIDE DEF h
    <3> QED BY <1>6a, <3>1
  <2>3. CASE i > n1 + 1
    <3>1. PICK k \in 1..n2 : k = i - n1
      BY <1>2, <2>3
    <3>2. h[i] = e[k] /\ h[i - 1] = e[k - 1] /\ x[i] = t[k]
      <4>1. /\ ~(i <= n1) /\ ~(i - 1 <= n1) /\ (i - 1) - n1 = k - 1
            /\ i \in 0..(n1 + n2) /\ i - 1 \in 0..(n1 + n2) /\ i \in (n1 + 1)..(n1 + n2)
        BY <1>2, <2>3, <3>1
      <4>2. h[i] = e[i - n1] /\ h[i - 1] = e[(i - 1) - n1]
        BY <4>1
      <4>3. x[i] = t[i - n1]
        BY <1>2, <4>1
      <4> HIDE DEF h
      <4> QED BY <3>1, <4>1, <4>2, <4>3
    <3> HIDE DEF h
    <3> QED BY <1>6a, <3>1, <3>2
  <2>4. i <= n1 \/ i = n1 + 1 \/ i > n1 + 1
    BY <1>2
  <2> QED BY <2>1, <2>2, <2>3, <2>4
<1> HIDE DEF h
<1>10. Upto(x, h)
  BY <1>2, <1>7, <1>8, <1>9 DEF Upto
<1>11. AllBytes(x) = h[n1 + n2]
  BY <1>2, <1>10, UptoIs
<1>12. AllBytes(s) = f[n1] /\ AllBytes(t) = g[n2]
  BY <1>1, <1>3, <1>4, UptoIs
<1> QED BY <1>1, <1>6a, <1>8, <1>11, <1>12

LEMMA AllBytesAppend ==
  ASSUME NEW s \in Seq(AnyLine), NEW l \in AnyLine
  PROVE  AllBytes(Append(s, l)) = AllBytes(s) \o Bytes(l)
<1>1. PICK y \in Seq(AnyLine) : y = <<l>>
  BY OneSeq
<1>2. Append(s, l) = s \o y
  BY <1>1, AppendIsConcat
<1> QED BY <1>1, <1>2, AllBytesCat, AllBytesOne

\* What is after the first Len(x) + j of x \o y
LEMMA AfterCat ==
  ASSUME NEW S, NEW x \in Seq(S), NEW y \in Seq(S), NEW j \in 0..Len(y)
  PROVE  SubSeq(x \o y, Len(x) + j + 1, Len(x \o y)) = SubSeq(y, j + 1, Len(y))
<1>1. PICK z, n1, n2 : z = x \o y /\ n1 = Len(x) /\ n2 = Len(y)
  OBVIOUS
<1>2. n1 \in Nat /\ n2 \in Nat /\ Len(z) = n1 + n2
  BY <1>1, ConcatProperties
<1>3. CASE j = n2
  <2>1. n1 + n2 < n1 + j + 1 /\ n2 < j + 1
    BY <1>2, <1>3
  <2> QED BY <1>1, <1>2, <2>1, SubSeqEmpty
<1>4. CASE j # n2
  <2>1. n1 + j + 1 \in (n1 + 1)..(n1 + n2) /\ n1 + n2 \in (n1 + 1)..(n1 + n2)
        /\ (n1 + j + 1) - n1 = j + 1 /\ (n1 + n2) - n1 = n2
    BY <1>1, <1>2, <1>4
  <2> QED BY <1>1, <1>2, <2>1, SubSeqOfConcat2
<1> QED BY <1>3, <1>4

LEMMA SubSeqSeq ==
  ASSUME NEW S, NEW s \in Seq(S), NEW m \in Nat \ {0}, NEW num \in Nat, num <= Len(s), m <= num + 1
  PROVE  SubSeq(s, m, num) \in Seq(S) /\ Len(SubSeq(s, m, num)) = num - m + 1
<1>1. \A i \in m..num : s[i] \in S
  OBVIOUS
<1> QED BY <1>1, SubSeqProperties

-----------------------------------------------------------------------------
(* Lines of blocks *)

LEMMA LinesType ==
  ASSUME line \in [Blocks -> AnyLine], NEW s \in Seq(Blocks)
  PROVE  LinesIn(s) \in Seq(AnyLine) /\ Len(LinesIn(s)) = Len(s)
         /\ \A k \in 1..Len(s) : LinesIn(s)[k] = line[s[k]]
<1>1. PICK num \in Nat : num = Len(s)
  OBVIOUS
<1>2. DOMAIN s = 1..num /\ \A k \in 1..num : s[k] \in Blocks
  BY <1>1, LenProperties
<1>3. \A k \in 1..num : line[s[k]] \in AnyLine
  BY <1>2
<1>4. [k \in 1..num |-> line[s[k]]] \in [1..num -> AnyLine]
  BY <1>3
<1>5. [k \in 1..num |-> line[s[k]]] \in Seq(AnyLine)
  BY <1>1, <1>4, SeqDef
<1>6. LinesIn(s) = [k \in 1..num |-> line[s[k]]]
  BY <1>2 DEF LinesIn
<1> HIDE DEF LinesIn
<1>7. PICK z : z = LinesIn(s)
  OBVIOUS
<1>8. z \in Seq(AnyLine) /\ DOMAIN z = 1..num /\ \A k \in 1..num : z[k] = line[s[k]]
  BY <1>5, <1>6, <1>7
<1>9. DOMAIN z = 1..Len(z) /\ Len(z) \in Nat
  BY <1>8, LenProperties
<1>10. Len(z) = num
  BY <1>1, <1>8, <1>9
<1> QED BY <1>1, <1>7, <1>8, <1>10

LEMMA LinesCat ==
  ASSUME line \in [Blocks -> AnyLine], NEW s \in Seq(Blocks), NEW t \in Seq(Blocks)
  PROVE  LinesIn(s \o t) = LinesIn(s) \o LinesIn(t)
<1>1. PICK x, y, z, u, n1, n2 : x = s \o t /\ n1 = Len(s) /\ n2 = Len(t)
                      /\ y = LinesIn(s) /\ z = LinesIn(t) /\ u = LinesIn(x)
  OBVIOUS
<1>2. /\ x \in Seq(Blocks) /\ n1 \in Nat /\ n2 \in Nat /\ Len(x) = n1 + n2
      /\ \A i \in 1..n1 : x[i] = s[i]
      /\ \A i \in (n1 + 1)..(n1 + n2) : x[i] = t[i - n1]
  BY <1>1, ConcatProperties
<1>3. y \in Seq(AnyLine) /\ Len(y) = n1 /\ \A k \in 1..n1 : y[k] = line[s[k]]
  BY <1>1, LinesType
<1>4. z \in Seq(AnyLine) /\ Len(z) = n2 /\ \A k \in 1..n2 : z[k] = line[t[k]]
  BY <1>1, LinesType
<1>5. u \in Seq(AnyLine) /\ Len(u) = n1 + n2 /\ \A k \in 1..(n1 + n2) : u[k] = line[x[k]]
  BY <1>1, <1>2, LinesType
<1>6. PICK v : v = y \o z
  OBVIOUS
<1>7. /\ v \in Seq(AnyLine) /\ Len(v) = n1 + n2
      /\ \A i \in 1..n1 : v[i] = y[i]
      /\ \A i \in (n1 + 1)..(n1 + n2) : v[i] = z[i - n1]
  <2>1. /\ v \in Seq(AnyLine) /\ Len(v) = Len(y) + Len(z)
        /\ \A i \in 1..(Len(y) + Len(z)) : v[i] = IF i <= Len(y) THEN y[i] ELSE z[i - Len(y)]
    BY <1>3, <1>4, <1>6, ConcatProperties
  <2>2. v \in Seq(AnyLine) /\ Len(v) = n1 + n2
        /\ \A i \in 1..(n1 + n2) : v[i] = IF i <= n1 THEN y[i] ELSE z[i - n1]
    BY <1>3, <1>4, <2>1
  <2>3. \A i \in 1..n1 : i \in 1..(n1 + n2) /\ i <= n1
    BY <1>2
  <2>4. \A i \in (n1 + 1)..(n1 + n2) : i \in 1..(n1 + n2) /\ ~(i <= n1)
    BY <1>2
  <2> QED BY <2>2, <2>3, <2>4
<1>8. ASSUME NEW i \in 1..(n1 + n2) PROVE u[i] = v[i]
  <2>1. CASE i \in 1..n1
    <3>1. u[i] = line[x[i]] /\ x[i] = s[i]
      BY <1>2, <1>5, <2>1, Zenon
    <3>2. v[i] = y[i] /\ y[i] = line[s[i]]
      BY <1>3, <1>7, <2>1, Zenon
    <3> QED BY <3>1, <3>2
  <2>2. CASE i \notin 1..n1
    <3>1. PICK j \in 1..n2 : j = i - n1 /\ i \in (n1 + 1)..(n1 + n2)
      BY <1>2, <2>2
    <3>2. u[i] = line[x[i]] /\ x[i] = t[j]
      BY <1>2, <1>5, <3>1, Zenon
    <3>3. v[i] = z[j] /\ z[j] = line[t[j]]
      BY <1>4, <1>7, <3>1, Zenon
    <3> QED BY <3>2, <3>3
  <2> QED BY <2>1, <2>2
<1>9. u = v
  BY <1>5, <1>7, <1>8, SeqEqual
<1> QED BY <1>1, <1>6, <1>9

LEMMA LinesOne ==
  ASSUME line \in [Blocks -> AnyLine], NEW b \in Blocks
  PROVE  LinesIn(<<b>>) = <<line[b]>>
<1>1. PICK s \in Seq(Blocks) : s = <<b>> /\ Len(s) = 1 /\ s[1] = b
  BY OneSeq
<1>2. PICK t : t \in Seq(AnyLine) /\ t = <<line[b]>> /\ Len(t) = 1 /\ t[1] = line[b]
  BY OneSeq
<1>3. LinesIn(s) \in Seq(AnyLine) /\ Len(LinesIn(s)) = 1 /\ LinesIn(s)[1] = line[b]
  <2>1. LinesIn(s) \in Seq(AnyLine) /\ Len(LinesIn(s)) = Len(s)
        /\ \A k \in 1..Len(s) : LinesIn(s)[k] = line[s[k]]
    BY LinesType
  <2>2. 1 \in 1..Len(s)
    BY <1>1
  <2>3. LinesIn(s)[1] = line[s[1]]
    BY <2>1, <2>2
  <2> QED BY <1>1, <2>1, <2>3, Zenon
<1>4. LinesIn(s) = t
  <2>1. \A i \in 1..1 : i = 1
    OBVIOUS
  <2> QED BY <1>2, <1>3, <2>1, SeqEqual
<1> QED BY <1>1, <1>2, <1>4

\* The bytes of a sendq
Wire(bs) == AllBytes(LinesIn(bs))

LEMMA WireType ==
  ASSUME line \in [Blocks -> AnyLine], NEW s \in Seq(Blocks)
  PROVE  Wire(s) \in Seq(Octet)
BY LinesType, AllBytesType DEF Wire

LEMMA WireEmpty ==
  ASSUME line \in [Blocks -> AnyLine]
  PROVE  Wire(<< >>) = << >>
<1>1. << >> \in Seq(Blocks) /\ Len(<< >>) = 0
  BY EmptySeq
<1>2. LinesIn(<< >>) \in Seq(AnyLine) /\ Len(LinesIn(<< >>)) = 0
  BY <1>1, LinesType
<1>3. LinesIn(<< >>) = << >>
  BY <1>2, EmptySeq
<1> QED BY <1>3, AllBytesEmpty DEF Wire

LEMMA WireCat ==
  ASSUME line \in [Blocks -> AnyLine], NEW s \in Seq(Blocks), NEW t \in Seq(Blocks)
  PROVE  Wire(s \o t) = Wire(s) \o Wire(t)
BY LinesCat, LinesType, AllBytesCat DEF Wire

LEMMA WireAppend ==
  ASSUME line \in [Blocks -> AnyLine], NEW s \in Seq(Blocks), NEW b \in Blocks
  PROVE  Wire(Append(s, b)) = Wire(s) \o Bytes(line[b])
<1>1. PICK y \in Seq(Blocks) : y = <<b>>
  BY OneSeq
<1>2. Append(s, b) = s \o y
  BY <1>1, AppendIsConcat
<1>3. LinesIn(y) = <<line[b]>> /\ line[b] \in AnyLine
  BY <1>1, LinesOne
<1>4. Wire(y) = Bytes(line[b])
  BY <1>3, AllBytesOne DEF Wire
<1> QED BY <1>2, <1>4, WireCat

-----------------------------------------------------------------------------
(* dbuf_delete *)

\* num bytes more than the p that are sent leave d of bs, whose bytes are Z.
Leaves(bs, p, num, d, Z) ==
  /\ d.blocks \in 0..Len(bs) /\ d.pos \in Nat /\ d.pos <= Len(Z)
  /\ SubSeq(Wire(bs), p + num + 1, Len(Wire(bs))) = SubSeq(Z, d.pos + 1, Len(Z))
  /\ Len(Wire(bs)) - (p + num) = Len(Z) - d.pos

LEMMA DeletedLeft ==
  ASSUME line \in [Blocks -> AnyLine], NEW bs \in Seq(Blocks), NEW p \in Nat, NEW num \in Nat,
         p + num <= Len(Wire(bs))
  PROVE  Leaves(bs, p, num, Deleted(bs, p, num),
                Wire(SubSeq(bs, Deleted(bs, p, num).blocks + 1, Len(bs))))
<1> SUFFICES ASSUME NEW d, d = Deleted(bs, p, num), NEW Z,
                    Z = Wire(SubSeq(bs, d.blocks + 1, Len(bs)))
             PROVE  Leaves(bs, p, num, d, Z)
  OBVIOUS
<1>0. PICK N \in Nat : N = Len(bs)
  OBVIOUS
<1>0a. PICK A \in Seq(Octet) : A = Wire(bs)
  BY WireType
<1>0b. PICK M \in Nat : M = Len(A)
  OBVIOUS
<1> DEFINE after(k) == Len(Wire(SubSeq(bs, 1, k))) - p
           Last(k) == k = N \/ after(k + 1) > num
           K == {k \in 0..N : Last(k)}
           kk == CHOOSE k \in 0..N : (k = 0 \/ after(k) <= num) /\ Last(k)
<1>1. d = [blocks |-> kk, pos |-> IF kk = N THEN 0 ELSE IF kk = 0 THEN p + num ELSE num - after(kk)]
  BY <1>0 DEF Deleted, Wire
<1>1a. \A k \in 0..N : after(k) \in Int
  <2>1. \A k \in 0..N : SubSeq(bs, 1, k) \in Seq(Blocks)
    BY <1>0, SubSeqSeq
  <2> QED BY <2>1, WireType
<1> HIDE DEF after
<1>2. \E k \in 0..N : (k = 0 \/ after(k) <= num) /\ Last(k)
  <2>1. N \in K /\ K \subseteq Nat
    OBVIOUS
  <2> HIDE DEF Last
  <2>2. PICK k \in K : \A j \in K : k <= j
    BY <2>1, LeastOf
  <2>3. CASE k = 0
    BY <2>2, <2>3
  <2>4. CASE k # 0
    <3>1. k - 1 \in 0..N /\ k - 1 # N /\ (k - 1) + 1 = k /\ ~(k <= k - 1)
      BY <2>2, <2>4
    <3>2. k - 1 \notin K
      BY <2>2, <3>1
    <3>3. ~Last(k - 1)
      BY <3>1, <3>2
    <3>4. ~(after(k) > num)
      BY <3>1, <3>3 DEF Last
    <3> QED BY <1>1a, <2>2, <3>4
  <2> QED BY <2>3, <2>4
<1>3. kk \in 0..N /\ (kk = 0 \/ after(kk) <= num) /\ Last(kk)
  <2> HIDE DEF Last
  <2> QED BY <1>2
<1> HIDE DEF kk, K
<1>4. d.blocks = kk /\ d.pos = IF kk = N THEN 0 ELSE IF kk = 0 THEN p + num ELSE num - after(kk)
  BY <1>1
<1>5. PICK y, z : y = SubSeq(bs, 1, kk) /\ z = SubSeq(bs, kk + 1, N)
  OBVIOUS
<1>6. y \in Seq(Blocks) /\ z \in Seq(Blocks) /\ Len(y) = kk /\ Len(z) = N - kk
  BY <1>0, <1>3, <1>5, SubSeqSeq
<1>7. bs = y \o z
  <2>1. SubSeq(bs, 1, kk) \o SubSeq(bs, kk + 1, N) = SubSeq(bs, 1, N)
    <3>1. 1 \in 1..(N + 1) /\ kk \in (1 - 1)..N /\ N \in kk..N
      BY <1>3
    <3> QED BY <1>0, <3>1, ConcatAdjacentSubSeq
  <2> QED BY <1>0, <1>5, <2>1, SubSeqFull
<1>8. PICK Y \in Seq(Octet) : Y = Wire(y)
  BY <1>6, WireType
<1>9. Z = Wire(z) /\ Z \in Seq(Octet)
  BY <1>0, <1>4, <1>5, <1>6, WireType
<1>10. A = Y \o Z
  BY <1>0a, <1>6, <1>7, <1>8, <1>9, WireCat
<1>11. PICK L1, L2 \in Nat : L1 = Len(Y) /\ L2 = Len(Z)
  BY <1>9
<1>12. M = L1 + L2
  BY <1>0b, <1>8, <1>9, <1>10, <1>11, ConcatProperties
<1>13. after(kk) = L1 - p
  BY <1>5, <1>8, <1>11 DEF after
<1>14. p + num <= M
  BY <1>0a, <1>0b
<1>15. /\ d.pos = p + num - L1 /\ p + num - L1 \in 0..L2
  <2>1. CASE kk = 0
    <3>1. y = << >>
      BY <1>6, <2>1, EmptySeq
    <3>2. Y = << >>
      BY <1>8, <3>1, WireEmpty
    <3>3. L1 = 0
      BY <1>11, <3>2, EmptySeq
    <3>4. CASE N = 0
      <4>1. z = << >>
        BY <1>6, <2>1, <3>4, EmptySeq
      <4>2. Z = << >>
        BY <1>9, <4>1, WireEmpty
      <4>3. L2 = 0
        BY <1>11, <4>2, EmptySeq
      <4>4. p + num - L1 = 0 /\ 0 \in 0..L2
        BY <1>12, <1>14, <3>3, <4>3
      <4> QED BY <1>4, <2>1, <3>4, <4>4
    <3>5. CASE N # 0
      <4>1. p + num - L1 = p + num /\ p + num \in 0..L2
        BY <1>12, <1>14, <3>3
      <4> QED BY <1>4, <2>1, <3>5, <4>1
    <3> QED BY <3>4, <3>5
  <2>2. CASE kk # 0 /\ kk = N
    <3>1. z = << >>
      BY <1>6, <2>2, EmptySeq
    <3>2. Z = << >>
      BY <1>9, <3>1, WireEmpty
    <3>3. L2 = 0
      BY <1>11, <3>2, EmptySeq
    <3>4. L1 - p <= num
      BY <1>3, <1>13, <2>2
    <3>5. p + num - L1 = 0 /\ 0 \in 0..L2
      BY <1>12, <1>14, <3>3, <3>4
    <3> QED BY <1>4, <2>2, <3>5
  <2>3. CASE kk # 0 /\ kk # N
    <3>1. L1 - p <= num
      BY <1>3, <1>13, <2>3
    <3>2. d.pos = num - (L1 - p)
      BY <1>4, <1>13, <2>3
    <3>3. num - (L1 - p) = p + num - L1 /\ p + num - L1 \in 0..L2
      BY <1>12, <1>14, <3>1
    <3> QED BY <3>2, <3>3
  <2> QED BY <2>1, <2>2, <2>3
<1>16. SubSeq(A, p + num + 1, M) = SubSeq(Z, d.pos + 1, L2)
  <2>1. PICK j \in 0..L2 : j = d.pos
    BY <1>15
  <2>2. L1 + j + 1 = p + num + 1
    BY <1>15, <2>1
  <2>3. SubSeq(Y \o Z, Len(Y) + j + 1, Len(Y \o Z)) = SubSeq(Z, j + 1, Len(Z))
    BY <1>8, <1>9, <1>11, AfterCat
  <2> QED BY <1>0b, <1>10, <1>11, <2>1, <2>2, <2>3
<1>17. Len(Wire(bs)) - (p + num) = Len(Z) - d.pos
  BY <1>0a, <1>0b, <1>11, <1>12, <1>15
<1>18. d.blocks \in 0..Len(bs) /\ d.pos \in Nat /\ d.pos <= Len(Z)
  BY <1>0, <1>3, <1>4, <1>11, <1>15
<1> QED BY <1>0a, <1>0b, <1>11, <1>16, <1>17, <1>18 DEF Leaves

-----------------------------------------------------------------------------
(* What the lines under way hold *)

Frames == [block : Blocks, to : SUBSET Conns, all : BOOLEAN]
HeldBy(cs) == [i \in DOMAIN cs |-> cs[i].block]

LEMMA HeldType ==
  ASSUME NEW s \in Seq(Frames)
  PROVE  HeldBy(s) \in Seq(Blocks) /\ Len(HeldBy(s)) = Len(s)
         /\ \A k \in 1..Len(s) : HeldBy(s)[k] = s[k].block
<1>1. PICK num \in Nat : num = Len(s)
  OBVIOUS
<1>2. DOMAIN s = 1..num /\ \A k \in 1..num : s[k] \in Frames
  BY <1>1, LenProperties
<1>3. \A k \in 1..num : s[k].block \in Blocks
  BY <1>2 DEF Frames
<1>4. [k \in 1..num |-> s[k].block] \in Seq(Blocks)
  <2>1. [k \in 1..num |-> s[k].block] \in [1..num -> Blocks]
    BY <1>3
  <2> QED BY <1>1, <2>1, SeqDef
<1>6. HeldBy(s) = [k \in 1..num |-> s[k].block]
  BY <1>2 DEF HeldBy
<1>7. PICK z : z = HeldBy(s)
  OBVIOUS
<1>8. z \in Seq(Blocks) /\ DOMAIN z = 1..num /\ \A k \in 1..num : z[k] = s[k].block
  BY <1>4, <1>6, <1>7
<1>9. DOMAIN z = 1..Len(z) /\ Len(z) \in Nat
  BY <1>8, LenProperties
<1>10. Len(z) = num
  BY <1>1, <1>8, <1>9
<1> QED BY <1>1, <1>7, <1>8, <1>10

LEMMA HeldCat ==
  ASSUME NEW s \in Seq(Frames), NEW t \in Seq(Frames)
  PROVE  HeldBy(s \o t) = HeldBy(s) \o HeldBy(t)
<1>1. PICK x, y, z, u, n1, n2 : x = s \o t /\ n1 = Len(s) /\ n2 = Len(t)
                      /\ y = HeldBy(s) /\ z = HeldBy(t) /\ u = HeldBy(x)
  OBVIOUS
<1>2. /\ x \in Seq(Frames) /\ n1 \in Nat /\ n2 \in Nat /\ Len(x) = n1 + n2
      /\ \A i \in 1..n1 : x[i] = s[i]
      /\ \A i \in (n1 + 1)..(n1 + n2) : x[i] = t[i - n1]
  BY <1>1, ConcatProperties
<1>3. y \in Seq(Blocks) /\ Len(y) = n1 /\ \A k \in 1..n1 : y[k] = s[k].block
  BY <1>1, HeldType
<1>4. z \in Seq(Blocks) /\ Len(z) = n2 /\ \A k \in 1..n2 : z[k] = t[k].block
  BY <1>1, HeldType
<1>5. u \in Seq(Blocks) /\ Len(u) = n1 + n2 /\ \A k \in 1..(n1 + n2) : u[k] = x[k].block
  BY <1>1, <1>2, HeldType
<1>6. PICK v : v = y \o z
  OBVIOUS
<1>7. /\ v \in Seq(Blocks) /\ Len(v) = n1 + n2
      /\ \A i \in 1..n1 : v[i] = y[i]
      /\ \A i \in (n1 + 1)..(n1 + n2) : v[i] = z[i - n1]
  <2>1. /\ v \in Seq(Blocks) /\ Len(v) = Len(y) + Len(z)
        /\ \A i \in 1..(Len(y) + Len(z)) : v[i] = IF i <= Len(y) THEN y[i] ELSE z[i - Len(y)]
    BY <1>3, <1>4, <1>6, ConcatProperties
  <2>2. v \in Seq(Blocks) /\ Len(v) = n1 + n2
        /\ \A i \in 1..(n1 + n2) : v[i] = IF i <= n1 THEN y[i] ELSE z[i - n1]
    BY <1>3, <1>4, <2>1
  <2>3. \A i \in 1..n1 : i \in 1..(n1 + n2) /\ i <= n1
    BY <1>2
  <2>4. \A i \in (n1 + 1)..(n1 + n2) : i \in 1..(n1 + n2) /\ ~(i <= n1)
    BY <1>2
  <2> QED BY <2>2, <2>3, <2>4
<1>8. ASSUME NEW i \in 1..(n1 + n2) PROVE u[i] = v[i]
  <2>1. CASE i \in 1..n1
    <3>1. u[i] = x[i].block /\ x[i] = s[i]
      BY <1>2, <1>5, <2>1, Zenon
    <3>2. v[i] = y[i] /\ y[i] = s[i].block
      BY <1>3, <1>7, <2>1, Zenon
    <3> QED BY <3>1, <3>2
  <2>2. CASE i \notin 1..n1
    <3>1. PICK j \in 1..n2 : j = i - n1 /\ i \in (n1 + 1)..(n1 + n2)
      BY <1>2, <2>2
    <3>2. u[i] = x[i].block /\ x[i] = t[j]
      BY <1>2, <1>5, <3>1, Zenon
    <3>3. v[i] = z[j] /\ z[j] = t[j].block
      BY <1>4, <1>7, <3>1, Zenon
    <3> QED BY <3>2, <3>3
  <2> QED BY <2>1, <2>2
<1>9. u = v
  BY <1>5, <1>7, <1>8, SeqEqual
<1> QED BY <1>1, <1>6, <1>9

\* A line more, and the first one less
Holding(cs, b) == Uses(HeldBy(cs), b)

LEMMA HoldingPush ==
  ASSUME NEW x \in Frames, NEW s \in Seq(Frames), NEW b
  PROVE  /\ <<x>> \o s \in Seq(Frames) /\ Holding(s, b) \in Nat
         /\ Holding(<<x>> \o s, b) = (IF x.block = b THEN 1 ELSE 0) + Holding(s, b)
<1>1. PICK y \in Seq(Frames) : y = <<x>> /\ Len(y) = 1 /\ y[1] = x
  BY OneSeq
<1>2. PICK z \in Seq(Blocks) : z = <<x.block>> /\ Len(z) = 1 /\ z[1] = x.block
  <2>1. x.block \in Blocks
    BY DEF Frames
  <2> QED BY <2>1, OneSeq
<1>3. HeldBy(y) = z
  <2>1. HeldBy(y) \in Seq(Blocks) /\ Len(HeldBy(y)) = Len(y)
        /\ \A k \in 1..Len(y) : HeldBy(y)[k] = y[k].block
    BY HeldType
  <2>2. 1 \in 1..Len(y) /\ \A i \in 1..Len(y) : i = 1
    BY <1>1
  <2>3. HeldBy(y)[1] = z[1]
    BY <1>1, <1>2, <2>1, <2>2, Zenon
  <2> QED BY <1>1, <1>2, <2>1, <2>2, <2>3, SeqEqual
<1>4. HeldBy(y \o s) = z \o HeldBy(s)
  BY <1>3, HeldCat
<1>5. HeldBy(s) \in Seq(Blocks)
  BY HeldType
<1>6. Uses(z \o HeldBy(s), b) = Uses(z, b) + Uses(HeldBy(s), b)
  BY <1>5, UsesCat
<1>7. Uses(z, b) = IF x.block = b THEN 1 ELSE 0
  BY <1>2, UsesOne
<1>8. Uses(HeldBy(s), b) \in Nat
  BY <1>5, AtFinite
<1>9. y \o s \in Seq(Frames)
  BY ConcatProperties
<1> QED BY <1>1, <1>4, <1>6, <1>7, <1>8, <1>9 DEF Holding

LEMMA HeadAndTail ==
  ASSUME NEW S, NEW s \in Seq(S), s # << >>
  PROVE  s = <<Head(s)>> \o Tail(s) /\ Head(s) \in S /\ Tail(s) \in Seq(S)
<1>1. PICK h, t, num : h = Head(s) /\ t = Tail(s) /\ num = Len(s)
  OBVIOUS
<1>2. h \in S /\ t \in Seq(S) /\ num \in Nat \ {0} /\ Len(t) = num - 1
      /\ \A i \in 1..Len(t) : t[i] = s[i + 1]
  BY <1>1, HeadTailProperties, EmptySeq
<1>3. s[1] = h
  BY <1>1
<1>4. PICK y \in Seq(S) : y = <<h>> /\ Len(y) = 1 /\ y[1] = h
  BY <1>2, OneSeq
<1>5. PICK v : v = y \o t
  OBVIOUS
<1>6. v \in Seq(S) /\ Len(v) = Len(y) + Len(t)
      /\ \A i \in 1..(Len(y) + Len(t)) : v[i] = IF i <= Len(y) THEN y[i] ELSE t[i - Len(y)]
  BY <1>2, <1>5, ConcatProperties
<1>7. Len(v) = num /\ \A i \in 1..num : v[i] = IF i <= 1 THEN y[i] ELSE t[i - 1]
  BY <1>2, <1>4, <1>6
<1>8. ASSUME NEW i \in 1..num PROVE s[i] = v[i]
  <2>1. CASE i = 1
    BY <1>3, <1>4, <1>7, <2>1
  <2>2. CASE i # 1
    <3>1. i - 1 \in 1..Len(t) /\ (i - 1) + 1 = i /\ ~(i <= 1)
      BY <1>2, <2>2
    <3> QED BY <1>2, <1>7, <3>1
  <2> QED BY <2>1, <2>2
<1>9. s = v
  BY <1>1, <1>6, <1>7, <1>8, SeqEqual
<1> QED BY <1>1, <1>2, <1>4, <1>5, <1>9

-----------------------------------------------------------------------------
(* Writing *)

LEMMA OctetAssoc ==
  ASSUME NEW u \in Seq(Octet), NEW v \in Seq(Octet), NEW w \in Seq(Octet)
  PROVE  (u \o v) \o w = u \o (v \o w)
<1>1. u \in Seq(Octet) /\ v \in Seq(Octet) /\ w \in Seq(Octet)
  OBVIOUS
<1> QED BY <1>1, Assoc

SendShape ==
  /\ refs \in [Blocks -> Nat] /\ line \in [Blocks -> QueuedLine \cup {NoLine}]
  /\ sendq \in [Conns -> Seq(Blocks)] /\ told \in [Conns -> Seq(QueuedLine)]
  /\ got \in [Conns -> Seq(Octet)]
  /\ pos \in [Conns -> Nat] /\ total \in [Conns -> 0..MaxSendq]
  /\ blocked \subseteq Conns /\ dead \subseteq Conns /\ gone \subseteq Conns
  /\ calls \in Seq(Frames) /\ lines \in 0..MaxLines

\* A sendq bs, p bytes of whose first block are sent, of t bytes, after g: w in all.
FineQ(bs, p, t, g, w) ==
  /\ p <= Len(Wire(bs)) /\ t = Len(Wire(bs)) - p
  /\ g \o SubSeq(Wire(bs), p + 1, Len(Wire(bs))) = w

LEMMA AnyLines ==
  ASSUME line \in [Blocks -> QueuedLine \cup {NoLine}]
  PROVE  line \in [Blocks -> AnyLine]
<1>1. NoLine \in AnyLine
  BY DEF NoLine, AnyLine
<1>2. 1..MaxLines \subseteq Nat /\ Sizes \subseteq Nat
  BY SendConstants
<1>3. QueuedLine \subseteq AnyLine
  BY <1>2 DEF QueuedLine, AnyLine
<1> QED BY <1>1, <1>3

LEMMA EmptyFine ==
  ASSUME line \in [Blocks -> AnyLine], NEW g \in Seq(Octet), NEW w, FineQ(<< >>, 0, 0, g, w)
  PROVE  g = w
<1>1. Wire(<< >>) = << >> /\ Len(<< >>) = 0
  BY WireEmpty, EmptySeq
<1>2. SubSeq(<< >>, 1, 0) = << >>
  BY SubSeqEmpty
<1> QED BY <1>1, <1>2, ConcatEmptySeq DEF FineQ

LEMMA FreedIs ==
  ASSUME NEW r \in [Blocks -> Nat], NEW bs \in Seq(Blocks), NEW b \in Blocks
  PROVE  Freed(r, bs)[b] = r[b] - Uses(bs, b) /\ Uses(bs, b) \in Nat
BY AtFinite DEF Freed

\* The socket takes num bytes.
LEMMA TakenFine ==
  ASSUME line \in [Blocks -> AnyLine], NEW bs \in Seq(Blocks), NEW p \in Nat, NEW t \in Nat,
         NEW g \in Seq(Octet), NEW w, FineQ(bs, p, t, g, w), NEW num \in 0..t,
         NEW d, d = Deleted(bs, p, num)
  PROVE  /\ d.blocks \in 0..Len(bs) /\ d.pos \in Nat
         /\ g \o SubSeq(Wire(bs), p + 1, p + num) \in Seq(Octet)
         /\ FineQ(SubSeq(bs, d.blocks + 1, Len(bs)), d.pos, t - num,
                  g \o SubSeq(Wire(bs), p + 1, p + num), w)
<1>1. PICK A \in Seq(Octet) : A = Wire(bs)
  BY WireType
<1>2. PICK M \in Nat : M = Len(A)
  OBVIOUS
<1>2a. p <= M /\ t = M - p /\ g \o SubSeq(A, p + 1, M) = w
  BY <1>1, <1>2, Zenon DEF FineQ
<1>3. p <= M /\ t = M - p /\ g \o SubSeq(A, p + 1, M) = w /\ p + num <= M /\ num \in Nat
  <2>1. p + num <= M /\ num \in Nat
    <3>1. p <= M /\ t = M - p
      BY <1>2a
    <3> QED BY <3>1
  <2> QED BY <1>2a, <2>1
<1>4. PICK Z : Z = Wire(SubSeq(bs, d.blocks + 1, Len(bs)))
  OBVIOUS
<1>5. /\ d.blocks \in 0..Len(bs) /\ d.pos \in Nat /\ d.pos <= Len(Z)
      /\ SubSeq(A, p + num + 1, M) = SubSeq(Z, d.pos + 1, Len(Z))
      /\ M - (p + num) = Len(Z) - d.pos
  <2>1. p + num <= Len(Wire(bs)) /\ num \in Nat
    BY <1>1, <1>2, <1>3
  <2>2. /\ d.blocks \in 0..Len(bs) /\ d.pos \in Nat /\ d.pos <= Len(Z)
        /\ SubSeq(Wire(bs), p + num + 1, Len(Wire(bs))) = SubSeq(Z, d.pos + 1, Len(Z))
        /\ Len(Wire(bs)) - (p + num) = Len(Z) - d.pos
    <3>1. Leaves(bs, p, num, Deleted(bs, p, num),
                 Wire(SubSeq(bs, Deleted(bs, p, num).blocks + 1, Len(bs))))
      BY <2>1, DeletedLeft
    <3>2. Leaves(bs, p, num, d, Z)
      BY <1>4, <3>1
    <3> QED BY <3>2 DEF Leaves
  <2> QED BY <1>1, <1>2, <2>2, Zenon
<1>6. PICK a, c, e : /\ a = SubSeq(A, p + 1, p + num) /\ c = SubSeq(A, p + num + 1, M)
                     /\ e = SubSeq(A, p + 1, M)
  OBVIOUS
<1>7. a \in Seq(Octet) /\ c \in Seq(Octet)
  <2>1. /\ p + 1 \in Nat \ {0} /\ p + num \in Nat /\ p + num <= M /\ p + 1 <= (p + num) + 1
        /\ p + num + 1 \in Nat \ {0} /\ p + num + 1 <= M + 1
    BY <1>3
  <2> QED BY <1>2, <1>6, <2>1, SubSeqSeq
<1>8. a \o c = e
  <2>1. p + 1 \in 1..(M + 1) /\ p + num \in ((p + 1) - 1)..M /\ M \in (p + num)..M
    BY <1>3
  <2> QED BY <1>2, <1>6, <2>1, ConcatAdjacentSubSeq
<1>9. (g \o a) \o c = w
  <2>1. (g \o a) \o c = g \o (a \o c)
    BY <1>7, OctetAssoc
  <2> QED BY <1>3, <1>6, <1>8, <2>1
<1>10. g \o a \in Seq(Octet)
  BY <1>7, ConcatProperties
<1>11. t - num = Len(Z) - d.pos
  <2>1. t - num = M - (p + num)
    BY <1>3
  <2> QED BY <1>5, <2>1
<1>12. (g \o a) \o SubSeq(Z, d.pos + 1, Len(Z)) = w
  BY <1>5, <1>6, <1>9
<1> QED BY <1>1, <1>4, <1>5, <1>6, <1>10, <1>11, <1>12 DEF FineQ

\* A line is put on a sendq.
LEMMA AddedFine ==
  ASSUME line \in [Blocks -> AnyLine], NEW bs \in Seq(Blocks), NEW p \in Nat, NEW t \in Nat,
         NEW g \in Seq(Octet), NEW ls \in Seq(AnyLine), FineQ(bs, p, t, g, AllBytes(ls)),
         NEW b \in Blocks
  PROVE  FineQ(Append(bs, b), p, t + line[b].size, g, AllBytes(Append(ls, line[b])))
<1>1. PICK A \in Seq(Octet) : A = Wire(bs)
  BY WireType
<1>2. PICK l \in AnyLine : l = line[b]
  OBVIOUS
<1>3. PICK B \in Seq(Octet) : B = Bytes(l) /\ Len(B) = l.size
  BY BytesType
<1>4. PICK M, N \in Nat : M = Len(A) /\ N = Len(B)
  OBVIOUS
<1>5. p <= M /\ t = M - p /\ g \o SubSeq(A, p + 1, M) = AllBytes(ls)
  BY <1>1, <1>4 DEF FineQ
<1>6. Wire(Append(bs, b)) = A \o B
  BY <1>1, <1>2, <1>3, WireAppend
<1>7. PICK C \in Seq(Octet) : C = A \o B /\ Len(C) = M + N
  BY <1>4, ConcatProperties
<1>8. SubSeq(C, p + 1, M + N) = SubSeq(A, p + 1, M) \o B
  <2>1. SubSeq(C, p + 1, M) \o SubSeq(C, M + 1, M + N) = SubSeq(C, p + 1, M + N)
    <3>1. PICK K \in Nat : K = M + N
      OBVIOUS
    <3>2. p + 1 \in 1..(K + 1) /\ M \in ((p + 1) - 1)..K /\ K \in M..K
      <4>1. p <= M
        BY <1>5
      <4> QED BY <3>1, <4>1
    <3>3. K = Len(C)
      BY <1>7, <3>1
    <3>4. SubSeq(C, p + 1, M) \o SubSeq(C, M + 1, K) = SubSeq(C, p + 1, K)
      BY <3>2, <3>3, ConcatAdjacentSubSeq
    <3> QED BY <3>1, <3>4, Zenon
  <2>2. SubSeq(C, M + 1, M + N) = B
    <3>1. 0 \in 0..N /\ M + 0 + 1 = M + 1 /\ 0 + 1 = 1
      OBVIOUS
    <3>2. SubSeq(A \o B, Len(A) + 0 + 1, Len(A \o B)) = SubSeq(B, 0 + 1, Len(B))
      BY <1>4, <3>1, AfterCat
    <3> QED BY <1>4, <1>7, <3>1, <3>2, SubSeqFull
  <2>3. SubSeq(C, p + 1, M) = SubSeq(A, p + 1, M)
    <3>1. CASE p = M
      <4>1. M < p + 1
        BY <3>1
      <4> QED BY <4>1, SubSeqEmpty
    <3>2. CASE p # M
      <4>1. p + 1 \in 1..M /\ M \in 1..M
        BY <1>5, <3>2
      <4> QED BY <1>4, <1>7, <4>1, SubSeqOfConcat1
    <3> QED BY <3>1, <3>2
  <2> QED BY <2>1, <2>2, <2>3
<1>9. PICK a \in Seq(Octet) : a = SubSeq(A, p + 1, M)
  <2>1. p + 1 \in Nat \ {0} /\ M \in Nat /\ M <= M /\ p + 1 <= M + 1
    BY <1>5
  <2> QED BY <1>4, <2>1, SubSeqSeq
<1>10. g \o (a \o B) = (g \o a) \o B
  BY OctetAssoc
<1>11. AllBytes(Append(ls, l)) = AllBytes(ls) \o B
  BY <1>3, AllBytesAppend
<1>12. g \o SubSeq(C, p + 1, M + N) = AllBytes(Append(ls, l))
  BY <1>5, <1>8, <1>9, <1>10, <1>11
<1>13. p <= M + N /\ t + l.size = (M + N) - p
  <2>1. p <= M /\ t = M - p /\ l.size = N
    BY <1>3, <1>4, <1>5, Zenon
  <2> QED BY <2>1
<1> QED BY <1>2, <1>6, <1>7, <1>12, <1>13 DEF FineQ

\* r counts the references to b on sendqs q and h.
Counts(r, q, h, b) == r[b] = Load(q, b) + h[b]
Parted(bs, sent, left, b) == Uses(bs, b) = Uses(sent, b) + Uses(left, b)

\* The blocks of sent leave a sendq bs, which keeps left.
LEMMA FreedLoad ==
  ASSUME NEW q \in [Conns -> Seq(Blocks)], NEW c \in Conns, NEW bs \in Seq(Blocks),
         NEW sent \in Seq(Blocks), NEW left \in Seq(Blocks), NEW b \in Blocks,
         NEW r \in [Blocks -> Nat], NEW h \in [Blocks -> Nat],
         Parted(bs, sent, left, b), Counts(r, Put(q, c, bs), h, b)
  PROVE  /\ Freed(r, sent)[b] \in Nat /\ Freed(r, sent)[b] <= r[b]
         /\ Counts(Freed(r, sent), Put(q, c, left), h, b)
<1>2. PICK o \in Nat : o = Others(q, c, b)
  BY LoadSplit
<1>3. Load(Put(q, c, bs), b) = o + Uses(bs, b) /\ Load(Put(q, c, left), b) = o + Uses(left, b)
  <2>1. PutLoad(q, c, bs, b) /\ PutLoad(q, c, left, b)
    BY LoadPut
  <2> QED BY <1>2, <2>1 DEF PutLoad
<1>4. PICK u, v, x \in Nat : u = Uses(bs, b) /\ v = Uses(sent, b) /\ x = Uses(left, b)
  BY AtFinite
<1>5. Freed(r, sent)[b] = r[b] - v
  BY <1>4, FreedIs
<1>6. r[b] = o + u + h[b] /\ u = v + x /\ h[b] \in Nat
  BY <1>3, <1>4 DEF Counts, Parted
<1>7. r[b] - v = o + x + h[b] /\ r[b] - v <= r[b] /\ r[b] - v \in Nat
  BY <1>6
<1> QED BY <1>3, <1>4, <1>5, <1>7 DEF Counts

\* What a write to c keeps: h are the references that are not on sendqs, and w the bytes
\* c is to get in all.
Wrote(c, r, h, w) ==
  /\ refs' \in [Blocks -> Nat] /\ sendq' \in [Conns -> Seq(Blocks)]
  /\ \A b \in Blocks : Counts(refs', sendq', h, b) /\ refs'[b] <= r[b]
  /\ got' \in [Conns -> Seq(Octet)] /\ pos' \in [Conns -> Nat] /\ total' \in [Conns -> 0..MaxSendq]
  /\ blocked' \subseteq Conns /\ dead \subseteq dead' /\ dead' \subseteq dead \cup {c}
  /\ \A d \in Conns \ {c} : /\ sendq'[d] = sendq[d] /\ pos'[d] = pos[d]
                            /\ total'[d] = total[d] /\ got'[d] = got[d]
  /\ c \notin dead' => FineQ(sendq'[c], pos'[c], total'[c], got'[c], w)

LEMMA FreedType ==
  ASSUME NEW r, NEW bs, \A b \in Blocks : Freed(r, bs)[b] \in Nat
  PROVE  Freed(r, bs) \in [Blocks -> Nat]
BY DEF Freed

\* A sendq is dropped.
LEMMA DropKeeps ==
  ASSUME SendShape, NEW c \in Conns, NEW bs \in Seq(Blocks), NEW r \in [Blocks -> Nat],
         NEW h \in [Blocks -> Nat], NEW w,
         \A b \in Blocks : Counts(r, Put(sendq, c, bs), h, b),
         refs' = Freed(r, bs), sendq' = [sendq EXCEPT ![c] = << >>],
         pos' = [pos EXCEPT ![c] = 0], total' = [total EXCEPT ![c] = 0],
         dead' = dead \cup {c}, got' \in [Conns -> Seq(Octet)],
         \A d \in Conns \ {c} : got'[d] = got[d], blocked' \subseteq Conns
  PROVE  Wrote(c, r, h, w)
<1>1. ASSUME NEW b \in Blocks
      PROVE  /\ Freed(r, bs)[b] \in Nat /\ Freed(r, bs)[b] <= r[b]
             /\ Counts(Freed(r, bs), Put(sendq, c, << >>), h, b)
  <2>1. PICK e \in Seq(Blocks) : e = << >> /\ Uses(e, b) = 0
    BY EmptySeq, UsesOne
  <2>2. Uses(bs, b) \in Nat
    BY AtFinite
  <2>3. Parted(bs, bs, e, b)
    BY <2>1, <2>2 DEF Parted
  <2>4. sendq \in [Conns -> Seq(Blocks)] /\ Counts(r, Put(sendq, c, bs), h, b)
    BY DEF SendShape
  <2>5. /\ Freed(r, bs)[b] \in Nat /\ Freed(r, bs)[b] <= r[b]
        /\ Counts(Freed(r, bs), Put(sendq, c, e), h, b)
    BY <2>3, <2>4, FreedLoad
  <2> QED BY <2>1, <2>5
<1>2. Freed(r, bs) \in [Blocks -> Nat]
  BY <1>1, FreedType
<1>3. sendq \in [Conns -> Seq(Blocks)] /\ << >> \in Seq(Blocks)
  BY EmptySeq DEF SendShape
<1>4. sendq' \in [Conns -> Seq(Blocks)] /\ \A d \in Conns \ {c} : sendq'[d] = sendq[d]
  <2>1. PICK e \in Seq(Blocks) : e = << >>
    BY <1>3
  <2> QED BY <1>3, <2>1
<1>5. pos \in [Conns -> Nat] /\ total \in [Conns -> 0..MaxSendq] /\ 0 \in 0..MaxSendq
  BY SendConstants DEF SendShape
<1>6. pos' \in [Conns -> Nat] /\ total' \in [Conns -> 0..MaxSendq]
      /\ \A d \in Conns \ {c} : pos'[d] = pos[d] /\ total'[d] = total[d]
  BY <1>5
<1>7. \A b \in Blocks : Counts(refs', sendq', h, b) /\ refs'[b] <= r[b]
  <2>1. sendq' = Put(sendq, c, << >>)
    BY DEF Put
  <2>2. refs' = Freed(r, bs)
    OBVIOUS
  <2> QED BY <1>1, <2>1, <2>2, Zenon
<1> HIDE DEF Freed
<1>8. refs' \in [Blocks -> Nat]
  BY <1>2
<1>9. dead \subseteq dead' /\ dead' \subseteq dead \cup {c} /\ ~(c \notin dead')
  OBVIOUS
<1> QED BY <1>4, <1>6, <1>7, <1>8, <1>9, Zenon DEF Wrote

LEMMA WriteKeeps ==
  ASSUME SendShape, NEW c \in Conns, NEW bs \in Seq(Blocks), NEW t \in 0..MaxSendq,
         NEW r \in [Blocks -> Nat], NEW held \in SUBSET Conns, NEW h \in [Blocks -> Nat], NEW w,
         \A b \in Blocks : Counts(r, Put(sendq, c, bs), h, b),
         c \notin dead => FineQ(bs, pos[c], t, got[c], w),
         Write(c, bs, t, r, held)
  PROVE  Wrote(c, r, h, w)
<1>1. /\ sendq \in [Conns -> Seq(Blocks)] /\ got \in [Conns -> Seq(Octet)]
      /\ pos \in [Conns -> Nat] /\ total \in [Conns -> 0..MaxSendq]
      /\ line \in [Blocks -> AnyLine]
  BY AnyLines DEF SendShape
<1>2. CASE c \in dead \/ c \in held \/ t = 0
  <2>1. /\ sendq' = [sendq EXCEPT ![c] = bs] /\ total' = [total EXCEPT ![c] = t] /\ refs' = r
        /\ blocked' = held /\ pos' = pos /\ dead' = dead /\ got' = got
    BY <1>2 DEF Write
  <2>2. /\ sendq' \in [Conns -> Seq(Blocks)] /\ total' \in [Conns -> 0..MaxSendq]
        /\ sendq'[c] = bs /\ total'[c] = t
        /\ \A d \in Conns \ {c} : /\ sendq'[d] = sendq[d] /\ pos'[d] = pos[d]
                                  /\ total'[d] = total[d] /\ got'[d] = got[d]
    BY <1>1, <2>1
  <2>3. \A b \in Blocks : Counts(refs', sendq', h, b) /\ refs'[b] <= r[b]
    <3>1. \A b \in Blocks : Counts(r, Put(sendq, c, bs), h, b)
      OBVIOUS
    <3>2. \A b \in Blocks : r[b] <= r[b]
      OBVIOUS
    <3>3. sendq' = Put(sendq, c, bs)
      BY <2>1 DEF Put
    <3> QED BY <2>1, <3>1, <3>2, <3>3
  <2>4. c \notin dead' => FineQ(sendq'[c], pos'[c], total'[c], got'[c], w)
    BY <2>1, <2>2
  <2> QED BY <1>1, <2>1, <2>2, <2>3, <2>4 DEF Wrote
<1>3. CASE ~(c \in dead \/ c \in held \/ t = 0)
  <2>1. PICK num, end, d, sent, left :
          /\ num \in 0..t /\ end \in {"all", "block", "read", "fail"} /\ d = Deleted(bs, pos[c], num)
          /\ sent = SubSeq(bs, 1, d.blocks) /\ left = SubSeq(bs, d.blocks + 1, Len(bs))
          /\ got' = [got EXCEPT ![c] = @ \o SubSeq(Wire(bs), pos[c] + 1, pos[c] + num)]
          /\ IF end = "fail"
             THEN /\ refs' = Freed(r, bs) /\ sendq' = [sendq EXCEPT ![c] = << >>]
                  /\ pos' = [pos EXCEPT ![c] = 0] /\ total' = [total EXCEPT ![c] = 0]
                  /\ dead' = dead \cup {c} /\ blocked' = held
             ELSE /\ refs' = Freed(r, sent) /\ sendq' = [sendq EXCEPT ![c] = left]
                  /\ pos' = [pos EXCEPT ![c] = d.pos] /\ total' = [total EXCEPT ![c] = t - num]
                  /\ blocked' = IF end = "block" THEN held \cup {c} ELSE held
                  /\ dead' = dead
    <3>1. \E num \in 0..t, end \in {"all", "block", "read", "fail"} :
            LET d == Deleted(bs, pos[c], num)
                sent == SubSeq(bs, 1, d.blocks)
                left == SubSeq(bs, d.blocks + 1, Len(bs))
            IN  /\ got' = [got EXCEPT ![c] = @ \o SubSeq(Wire(bs), pos[c] + 1, pos[c] + num)]
                /\ IF end = "fail"
                   THEN /\ refs' = Freed(r, bs) /\ sendq' = [sendq EXCEPT ![c] = << >>]
                        /\ pos' = [pos EXCEPT ![c] = 0] /\ total' = [total EXCEPT ![c] = 0]
                        /\ dead' = dead \cup {c} /\ blocked' = held
                   ELSE /\ refs' = Freed(r, sent) /\ sendq' = [sendq EXCEPT ![c] = left]
                        /\ pos' = [pos EXCEPT ![c] = d.pos] /\ total' = [total EXCEPT ![c] = t - num]
                        /\ blocked' = IF end = "block" THEN held \cup {c} ELSE held
                        /\ dead' = dead
      BY <1>3 DEF Write, Wire
    <3> QED BY <3>1
  <2>2. PICK g : g = got[c] \o SubSeq(Wire(bs), pos[c] + 1, pos[c] + num)
    OBVIOUS
  <2>3. t \in Nat /\ pos[c] \in Nat /\ got[c] \in Seq(Octet) /\ FineQ(bs, pos[c], t, got[c], w)
    BY <1>1, <1>3
  <2>4. /\ d.blocks \in 0..Len(bs) /\ d.pos \in Nat /\ g \in Seq(Octet)
        /\ FineQ(left, d.pos, t - num, g, w)
    BY <1>1, <2>1, <2>2, <2>3, TakenFine
  <2>5. got' = [got EXCEPT ![c] = g]
    BY <2>1, <2>2
  <2>6. got' \in [Conns -> Seq(Octet)] /\ got'[c] = g /\ \A x \in Conns \ {c} : got'[x] = got[x]
    BY <1>1, <2>4, <2>5
  <2>7. CASE end = "fail"
    <3>1. /\ refs' = Freed(r, bs) /\ sendq' = [sendq EXCEPT ![c] = << >>]
          /\ pos' = [pos EXCEPT ![c] = 0] /\ total' = [total EXCEPT ![c] = 0]
          /\ dead' = dead \cup {c} /\ blocked' \subseteq Conns
      BY <2>1, <2>7
    <3> QED BY <2>6, <3>1, DropKeeps
  <2>8. CASE end # "fail"
    <3>1. /\ refs' = Freed(r, sent) /\ sendq' = [sendq EXCEPT ![c] = left]
          /\ pos' = [pos EXCEPT ![c] = d.pos] /\ total' = [total EXCEPT ![c] = t - num]
          /\ blocked' \subseteq Conns /\ dead' = dead
      BY <2>1, <2>8
    <3>2. sent \in Seq(Blocks) /\ left \in Seq(Blocks) /\ bs = sent \o left
      <4>1. PICK k, N : k = d.blocks /\ N = Len(bs)
        OBVIOUS
      <4>2. N \in Nat /\ k \in 0..N
        BY <2>4, <4>1
      <4>3. 1 \in 1..(N + 1) /\ k \in (1 - 1)..N /\ N \in k..N /\ 1 <= k + 1 /\ k + 1 <= N + 1
            /\ k \in Nat /\ k + 1 \in Nat \ {0}
        BY <4>2
      <4>4. SubSeq(bs, 1, k) \in Seq(Blocks) /\ SubSeq(bs, k + 1, N) \in Seq(Blocks)
        BY <4>1, <4>2, <4>3, SubSeqSeq
      <4>5. SubSeq(bs, 1, k) \o SubSeq(bs, k + 1, N) = SubSeq(bs, 1, N)
        BY <4>1, <4>3, ConcatAdjacentSubSeq
      <4>6. SubSeq(bs, 1, N) = bs
        BY <4>1, SubSeqFull
      <4> QED BY <2>1, <4>1, <4>4, <4>5, <4>6, Zenon
    <3>3. ASSUME NEW b \in Blocks
          PROVE  /\ Freed(r, sent)[b] \in Nat /\ Freed(r, sent)[b] <= r[b]
                 /\ Counts(Freed(r, sent), Put(sendq, c, left), h, b)
      <4>1. Parted(bs, sent, left, b)
        BY <3>2, UsesCat DEF Parted
      <4>2. Counts(r, Put(sendq, c, bs), h, b)
        OBVIOUS
      <4> QED BY <1>1, <3>2, <4>1, <4>2, FreedLoad
    <3>4. refs' \in [Blocks -> Nat]
      BY <3>1, <3>3, FreedType
    <3>5. \A b \in Blocks : Counts(refs', sendq', h, b) /\ refs'[b] <= r[b]
      <4>1. sendq' = Put(sendq, c, left) /\ refs' = Freed(r, sent)
        BY <3>1 DEF Put
      <4> QED BY <3>3, <4>1, Zenon
    <3>6. sendq' \in [Conns -> Seq(Blocks)] /\ sendq'[c] = left
          /\ \A x \in Conns \ {c} : sendq'[x] = sendq[x]
      BY <1>1, <3>1, <3>2
    <3>7. t - num \in 0..MaxSendq
      <4>1. num \in 0..t
        BY <2>1
      <4> QED BY <4>1, SendConstants
    <3>8. /\ pos' \in [Conns -> Nat] /\ total' \in [Conns -> 0..MaxSendq]
          /\ pos'[c] = d.pos /\ total'[c] = t - num
          /\ \A x \in Conns \ {c} : pos'[x] = pos[x] /\ total'[x] = total[x]
      BY <1>1, <2>4, <3>1, <3>7
    <3>9. FineQ(sendq'[c], pos'[c], total'[c], got'[c], w)
      BY <2>4, <2>6, <3>6, <3>8
    <3> QED BY <2>6, <3>1, <3>4, <3>5, <3>6, <3>8, <3>9 DEF Wrote
  <2> QED BY <2>7, <2>8
<1> QED BY <1>2, <1>3

LEMMA DeadLinkKeeps ==
  ASSUME SendShape, NEW c \in Conns, NEW r \in [Blocks -> Nat], NEW h \in [Blocks -> Nat], NEW w,
         \A b \in Blocks : Counts(r, sendq, h, b),
         DeadLink(c, r)
  PROVE  Wrote(c, r, h, w) /\ c \in dead'
<1>1. /\ sendq \in [Conns -> Seq(Blocks)] /\ got \in [Conns -> Seq(Octet)]
      /\ pos \in [Conns -> Nat] /\ total \in [Conns -> 0..MaxSendq]
      /\ blocked \subseteq Conns /\ sendq[c] \in Seq(Blocks)
  BY DEF SendShape
<1>2. dead' = dead \cup {c} /\ blocked' = blocked /\ got' = got
  BY DEF DeadLink
<1>3. CASE c \in dead
  <2>1. refs' = r /\ sendq' = sendq /\ pos' = pos /\ total' = total /\ dead' = dead
    BY <1>3 DEF DeadLink
  <2> QED BY <1>1, <1>2, <1>3, <2>1 DEF Wrote
<1>4. CASE c \notin dead
  <2>1. /\ refs' = Freed(r, sendq[c]) /\ sendq' = [sendq EXCEPT ![c] = << >>]
        /\ pos' = [pos EXCEPT ![c] = 0] /\ total' = [total EXCEPT ![c] = 0]
    BY <1>4 DEF DeadLink
  <2>2. sendq = Put(sendq, c, sendq[c])
    BY <1>1 DEF Put
  <2>3. \A b \in Blocks : Counts(r, Put(sendq, c, sendq[c]), h, b)
    BY <2>2
  <2> QED BY <1>1, <1>2, <2>1, <2>3, DropKeeps
<1> QED BY <1>3, <1>4

-----------------------------------------------------------------------------
(* The invariant *)

Active(r) == {b \in Blocks : r[b] # 0}
Under(cs) == [b \in Blocks |-> Holding(cs, b)]

\* No more blocks are out of the pool than lines were made, so that the pool has one
\* for each line.
SendInv ==
  /\ SendShape
  /\ \A b \in Blocks : refs[b] # 0 => line[b] \in QueuedLine
  /\ \A b \in Blocks : Counts(refs, sendq, Under(calls), b)
  /\ Cardinality(Active(refs)) <= lines
  /\ \A c \in Conns \ dead :
       FineQ(sendq[c], pos[c], total[c], got[c], AllBytes(told[c]))

LEMMA UnderType ==
  ASSUME NEW cs \in Seq(Frames)
  PROVE  Under(cs) \in [Blocks -> Nat] /\ \A b \in Blocks : Under(cs)[b] = Holding(cs, b)
<1>1. HeldBy(cs) \in Seq(Blocks)
  BY HeldType
<1>2. \A b \in Blocks : Holding(cs, b) \in Nat
  BY <1>1, AtFinite DEF Holding
<1> HIDE DEF Holding
<1> QED BY <1>2 DEF Under

LEMMA ActiveFinite ==
  ASSUME NEW r, NEW s, \A b \in Blocks : s[b] # 0 => r[b] # 0
  PROVE  /\ IsFiniteSet(Active(r)) /\ Cardinality(Active(r)) \in Nat
         /\ Cardinality(Active(s)) <= Cardinality(Active(r)) /\ Cardinality(Active(s)) \in Nat
<1>1. IsFiniteSet(Blocks)
  BY SendConstants
<1>2. Active(r) \subseteq Blocks /\ Active(s) \subseteq Active(r)
  BY DEF Active
<1>3. IsFiniteSet(Active(r)) /\ IsFiniteSet(Active(s))
  BY <1>1, <1>2, FS_Subset
<1> QED BY <1>2, <1>3, FS_Subset, FS_CardinalityType

LEMMA UsedOnce ==
  ASSUME NEW S, NEW s \in Seq(S), NEW k \in 1..Len(s)
  PROVE  Uses(s, s[k]) # 0
<1>1. k \in At(s, s[k])
  BY DEF At
<1>2. IsFiniteSet(At(s, s[k])) /\ Uses(s, s[k]) = Cardinality(At(s, s[k]))
  BY AtFinite
<1> QED BY <1>1, <1>2, FS_EmptySet

\* A block on a sendq is out of the pool.
LEMMA QueuedOut ==
  ASSUME SendInv, NEW c \in Conns, NEW k \in 1..Len(sendq[c])
  PROVE  sendq[c][k] \in Blocks /\ refs[sendq[c][k]] # 0
<1>1. PICK s \in Seq(Blocks) : s = sendq[c]
  BY DEF SendInv, SendShape
<1>2. PICK b \in Blocks : b = s[k]
  BY <1>1
<1>3. Uses(s, b) # 0
  BY <1>1, <1>2, UsedOnce
<1>4. sendq \in [Conns -> Seq(Blocks)] /\ calls \in Seq(Frames) /\ refs \in [Blocks -> Nat]
  BY DEF SendInv, SendShape
<1>5. PICK o, u, h \in Nat : /\ o = Others(sendq, c, b) /\ u = Uses(s, b)
                             /\ Load(sendq, b) = o + u /\ h = Under(calls)[b]
  <2>1. Load(sendq, b) = Others(sendq, c, b) + Uses(sendq[c], b)
        /\ Others(sendq, c, b) \in Nat /\ Uses(sendq[c], b) \in Nat
    BY <1>4, LoadSplit
  <2>2. Under(calls)[b] \in Nat
    BY <1>4, UnderType
  <2> QED BY <1>1, <2>1, <2>2
<1>6. refs[b] = (o + u) + h
  BY <1>5 DEF SendInv, Counts
<1>7. refs[b] # 0
  BY <1>3, <1>5, <1>6
<1> QED BY <1>1, <1>2, <1>7

\* A sendq whose lines stay what they are
LEMMA FineSame ==
  ASSUME NEW bs \in Seq(Blocks), NEW p, NEW t, NEW g, NEW w, FineQ(bs, p, t, g, w),
         \A k \in 1..Len(bs) : line'[bs[k]] = line[bs[k]]
  PROVE  FineQ(bs, p, t, g, w)'
<1>1. LinesIn(bs)' = LinesIn(bs)
  BY DEF LinesIn
<1>2. Wire(bs)' = Wire(bs)
  BY <1>1 DEF Wire
<1> QED BY <1>2 DEF FineQ

\* The connections of C change; r has the references before some are given back.
LEMMA SendInvNext ==
  ASSUME SendInv, NEW r, NEW C,
         line' \in [Blocks -> QueuedLine \cup {NoLine}], lines' \in 0..MaxLines,
         \A b \in Blocks : refs[b] # 0 => line'[b] = line[b],
         \A b \in Blocks : r[b] # 0 => line'[b] \in QueuedLine,
         Cardinality(Active(r)) <= lines', r \in [Blocks -> Nat],
         told' \in [Conns -> Seq(QueuedLine)], calls' \in Seq(Frames), gone' \subseteq Conns,
         refs' \in [Blocks -> Nat], \A b \in Blocks : refs'[b] <= r[b],
         \A b \in Blocks : Counts(refs', sendq', Under(calls'), b),
         sendq' \in [Conns -> Seq(Blocks)], got' \in [Conns -> Seq(Octet)],
         pos' \in [Conns -> Nat], total' \in [Conns -> 0..MaxSendq],
         blocked' \subseteq Conns, dead \subseteq dead', dead' \subseteq Conns,
         \A d \in Conns \ C : /\ sendq'[d] = sendq[d] /\ pos'[d] = pos[d] /\ total'[d] = total[d]
                              /\ got'[d] = got[d] /\ told'[d] = told[d],
         \A d \in Conns \cap C : d \notin dead' =>
           FineQ(sendq[d], pos[d], total[d], got[d], AllBytes(told[d]))'
  PROVE  SendInv'
<1>1. SendShape'
  BY DEF SendShape
<1>2. \A b \in Blocks : refs'[b] # 0 => r[b] # 0
  <2>1. \A b \in Blocks : refs'[b] \in Nat /\ r[b] \in Nat /\ refs'[b] <= r[b]
    OBVIOUS
  <2> QED BY <2>1
<1>3. \A b \in Blocks : refs'[b] # 0 => line'[b] \in QueuedLine
  BY <1>2
<1>4. Cardinality(Active(refs')) <= lines'
  <2>1. Cardinality(Active(refs')) <= Cardinality(Active(r)) /\ Cardinality(Active(r)) \in Nat
        /\ Cardinality(Active(refs')) \in Nat
    BY <1>2, ActiveFinite
  <2>2. lines' \in Nat /\ Cardinality(Active(r)) <= lines'
    BY SendConstants
  <2> QED BY <2>1, <2>2
<1>5. ASSUME NEW d \in Conns, d \notin dead'
      PROVE  FineQ(sendq[d], pos[d], total[d], got[d], AllBytes(told[d]))'
  <2>1. CASE d \in C
    BY <1>5, <2>1
  <2>2. CASE d \notin C
    <3>1. PICK bs, p, t, g, w :
            bs = sendq[d] /\ p = pos[d] /\ t = total[d] /\ g = got[d] /\ w = AllBytes(told[d])
      OBVIOUS
    <3>2. bs \in Seq(Blocks) /\ FineQ(bs, p, t, g, w)
      BY <1>5, <3>1 DEF SendInv, SendShape
    <3>3. \A k \in 1..Len(bs) : line'[bs[k]] = line[bs[k]]
      BY <3>1, QueuedOut
    <3>4. FineQ(bs, p, t, g, w)'
      BY <3>2, <3>3, FineSame
    <3>5. sendq'[d] = bs /\ pos'[d] = p /\ total'[d] = t /\ got'[d] = g /\ AllBytes(told'[d]) = w
      BY <2>2, <3>1
    <3> QED BY <3>4, <3>5
  <2> QED BY <2>1, <2>2
<1> QED BY <1>1, <1>3, <1>4, <1>5 DEF SendInv

\* After a write
LEMMA WroteInv ==
  ASSUME SendInv, NEW c \in Conns, NEW r \in [Blocks -> Nat],
         Wrote(c, r, Under(calls'), AllBytes(told'[c])),
         line' \in [Blocks -> QueuedLine \cup {NoLine}], lines' \in 0..MaxLines,
         c \notin dead' => line' = line,
         \A b \in Blocks : refs[b] # 0 => line'[b] = line[b],
         \A b \in Blocks : r[b] # 0 => line'[b] \in QueuedLine,
         Cardinality(Active(r)) <= lines',
         told' \in [Conns -> Seq(QueuedLine)], calls' \in Seq(Frames), gone' \subseteq Conns,
         \A d \in Conns \ {c} : told'[d] = told[d]
  PROVE  SendInv'
<1>1. /\ refs' \in [Blocks -> Nat] /\ sendq' \in [Conns -> Seq(Blocks)]
      /\ \A b \in Blocks : Counts(refs', sendq', Under(calls'), b) /\ refs'[b] <= r[b]
      /\ got' \in [Conns -> Seq(Octet)] /\ pos' \in [Conns -> Nat]
      /\ total' \in [Conns -> 0..MaxSendq]
      /\ blocked' \subseteq Conns /\ dead \subseteq dead' /\ dead' \subseteq dead \cup {c}
      /\ \A d \in Conns \ {c} : /\ sendq'[d] = sendq[d] /\ pos'[d] = pos[d]
                                /\ total'[d] = total[d] /\ got'[d] = got[d]
      /\ c \notin dead' => FineQ(sendq'[c], pos'[c], total'[c], got'[c], AllBytes(told'[c]))
  BY DEF Wrote
<1>2. dead' \subseteq Conns
  BY <1>1 DEF SendInv, SendShape
<1>3. c \notin dead' => FineQ(sendq[c], pos[c], total[c], got[c], AllBytes(told[c]))'
  <2> SUFFICES ASSUME c \notin dead'
               PROVE  FineQ(sendq[c], pos[c], total[c], got[c], AllBytes(told[c]))'
    OBVIOUS
  <2>1. PICK bs, p, t, g, w : bs = sendq'[c] /\ p = pos'[c] /\ t = total'[c] /\ g = got'[c]
                              /\ w = AllBytes(told'[c])
    OBVIOUS
  <2>2. bs \in Seq(Blocks) /\ FineQ(bs, p, t, g, w) /\ line' = line
    BY <1>1, <2>1
  <2>3. FineQ(bs, p, t, g, w)'
    BY <2>2, FineSame
  <2> QED BY <2>1, <2>3
<1>4. \A d \in Conns \cap {c} : d \notin dead' =>
        FineQ(sendq[d], pos[d], total[d], got[d], AllBytes(told[d]))'
  BY <1>3
<1> QED BY <1>1, <1>2, <1>4, SendInvNext

-----------------------------------------------------------------------------
(* The steps *)

LEMMA SpareFree ==
  ASSUME SendInv, lines < MaxLines
  PROVE  Spare \in Blocks /\ refs[Spare] = 0
<1>1. \E b \in Blocks : refs[b] = 0
  <2> SUFFICES ASSUME \A b \in Blocks : refs[b] # 0 PROVE FALSE
    OBVIOUS
  <2>1. Active(refs) = Blocks
    BY DEF Active
  <2>2. Cardinality(Blocks) <= lines
    BY <2>1 DEF SendInv
  <2>3. Cardinality(Blocks) \in Nat
    BY SendConstants, FS_CardinalityType
  <2> QED BY <2>2, <2>3, SendConstants DEF SendInv, SendShape
<1> QED BY <1>1 DEF Spare

\* A block is taken out of the pool for a line.
LEMMA SpareTaken ==
  ASSUME SendInv, lines < MaxLines, NEW size \in Sizes, NEW r, NEW l,
         r = [refs EXCEPT ![Spare] = @ + 1],
         l = [line EXCEPT ![Spare] = [id |-> lines + 1, size |-> size]]
  PROVE  /\ r \in [Blocks -> Nat] /\ l \in [Blocks -> QueuedLine \cup {NoLine}]
         /\ \A b \in Blocks : r[b] = refs[b] + (IF Spare = b THEN 1 ELSE 0)
         /\ \A b \in Blocks : refs[b] # 0 => l[b] = line[b]
         /\ \A b \in Blocks : r[b] # 0 => l[b] \in QueuedLine
         /\ Cardinality(Active(r)) <= lines + 1 /\ lines + 1 \in 0..MaxLines
<1>1. PICK s \in Blocks : s = Spare /\ refs[s] = 0
  BY SpareFree
<1>2. /\ refs \in [Blocks -> Nat] /\ line \in [Blocks -> QueuedLine \cup {NoLine}]
      /\ lines \in Nat /\ lines + 1 \in 1..MaxLines
  BY SendConstants DEF SendInv, SendShape
<1>3. PICK x \in QueuedLine : x = [id |-> lines + 1, size |-> size]
  BY <1>2 DEF QueuedLine
<1>4. r = [refs EXCEPT ![s] = 1] /\ l = [line EXCEPT ![s] = x]
  BY <1>1, <1>2, <1>3
<1>5. r \in [Blocks -> Nat] /\ l \in [Blocks -> QueuedLine \cup {NoLine}]
  <2>1. r \in [Blocks -> Nat]
    <3>1. refs \in [Blocks -> Nat]
      BY <1>2
    <3>2. [refs EXCEPT ![s] = 1] \in [Blocks -> Nat]
      BY <3>1
    <3> QED BY <1>4, <3>2, Zenon
  <2>2. x \in QueuedLine \cup {NoLine}
    OBVIOUS
  <2> HIDE DEF QueuedLine, NoLine
  <2>3. l \in [Blocks -> QueuedLine \cup {NoLine}]
    BY <1>2, <1>4, <2>2
  <2> QED BY <2>1, <2>3
<1>6. \A b \in Blocks : r[b] = IF b = s THEN 1 ELSE refs[b]
  BY <1>2, <1>4
<1>7. \A b \in Blocks : l[b] = IF b = s THEN x ELSE line[b]
  BY <1>2, <1>4
<1>8. \A b \in Blocks : r[b] = refs[b] + (IF s = b THEN 1 ELSE 0)
  BY <1>1, <1>2, <1>6
<1>9. \A b \in Blocks : refs[b] # 0 => l[b] = line[b]
  BY <1>1, <1>7
<1>10. \A b \in Blocks : r[b] # 0 => l[b] \in QueuedLine
  BY <1>6, <1>7 DEF SendInv
<1>11. Active(r) = Active(refs) \cup {s}
  BY <1>6 DEF Active
<1>12. Cardinality(Active(r)) <= lines + 1
  <2>1. IsFiniteSet(Active(refs)) /\ Cardinality(Active(refs)) \in Nat
    BY ActiveFinite
  <2>2. Cardinality(Active(refs) \cup {s}) <= Cardinality(Active(refs)) + 1
        /\ Cardinality(Active(refs) \cup {s}) \in Nat
    <3>1. /\ IsFiniteSet(Active(refs) \cup {s})
          /\ Cardinality(Active(refs) \cup {s})
               = IF s \in Active(refs) THEN Cardinality(Active(refs)) ELSE Cardinality(Active(refs)) + 1
      BY <2>1, FS_AddElement
    <3> QED BY <2>1, <3>1
  <2>3. Cardinality(Active(refs)) <= lines
    BY DEF SendInv
  <2>4. PICK m, k : m = Cardinality(Active(refs)) /\ k = Cardinality(Active(refs) \cup {s})
    OBVIOUS
  <2>5. m \in Nat /\ k \in Nat /\ k <= m + 1 /\ m <= lines
    BY <2>1, <2>2, <2>3, <2>4
  <2>6. k <= lines + 1
    BY <1>2, <2>5
  <2> QED BY <1>11, <2>4, <2>6
<1>13. lines + 1 \in 0..MaxLines
  BY <1>2
<1> QED BY <1>1, <1>5, <1>8, <1>9, <1>10, <1>12, <1>13

LEMMA InitInv == SendInit => SendInv
<1> SUFFICES ASSUME SendInit PROVE SendInv
  OBVIOUS
<1>1. << >> \in Seq(Blocks) /\ << >> \in Seq(QueuedLine) /\ << >> \in Seq(Octet) /\ << >> \in Seq(Frames)
  BY EmptySeq
<1>2. SendShape
  BY <1>1, SendConstants DEF SendInit, SendShape
<1>3. \A b \in Blocks : refs[b] = 0
  BY DEF SendInit
<1>4. ASSUME NEW b \in Blocks PROVE Counts(refs, sendq, Under(calls), b)
  <2>1. PlacesIn(sendq) = {}
    BY DEF PlacesIn, SendInit
  <2>2. {p \in PlacesIn(sendq) : sendq[p[1]][p[2]] = b} = {}
    BY <2>1
  <2>3. Load(sendq, b) = 0
    BY <2>2, FS_EmptySet DEF Load
  <2>4. Under(calls)[b] = 0
    <3>1. calls \in Seq(Frames) /\ Len(calls) = 0
      BY <1>1, EmptySeq DEF SendInit
    <3>2. HeldBy(calls) \in Seq(Blocks) /\ Len(HeldBy(calls)) = 0
      BY <3>1, HeldType
    <3>3. HeldBy(calls) = << >>
      BY <3>2, EmptySeq
    <3>4. Holding(calls, b) = 0
      BY <3>3, UsesOne DEF Holding
    <3> QED BY <3>1, <3>4, UnderType
  <2> QED BY <1>3, <2>3, <2>4 DEF Counts
<1>5. Cardinality(Active(refs)) <= lines
  <2>1. Active(refs) = {}
    BY <1>3 DEF Active
  <2>2. Cardinality(Active(refs)) = 0
    BY <2>1, FS_EmptySet
  <2>3. lines = 0
    BY DEF SendInit
  <2> QED BY <2>2, <2>3
<1>6. ASSUME NEW c \in Conns
      PROVE  FineQ(sendq[c], pos[c], total[c], got[c], AllBytes(told[c]))
  <2>1. sendq[c] = << >> /\ pos[c] = 0 /\ total[c] = 0 /\ got[c] = << >> /\ told[c] = << >>
    BY DEF SendInit
  <2>2. line \in [Blocks -> AnyLine]
    BY <1>2, AnyLines DEF SendShape
  <2>3. Wire(<< >>) = << >> /\ Len(<< >>) = 0
    BY <2>2, WireEmpty, EmptySeq
  <2>4. SubSeq(<< >>, 1, 0) = << >>
    BY SubSeqEmpty
  <2>5. << >> \o << >> = << >>
    BY <1>1, ConcatEmptySeq
  <2>6. AllBytes(<< >>) = << >>
    BY AllBytesEmpty
  <2>7. FineQ(<< >>, 0, 0, << >>, << >>)
    <3>1. PICK A : A = Wire(<< >>)
      OBVIOUS
    <3>2. A = << >> /\ Len(A) = 0 /\ 0 <= 0 /\ 0 = 0 - 0 /\ 0 + 1 = 1
      BY <2>3, <3>1
    <3>3. << >> \o SubSeq(A, 0 + 1, Len(A)) = << >>
      BY <2>4, <2>5, <3>2
    <3> QED BY <3>1, <3>2, <3>3 DEF FineQ
  <2> QED BY <2>1, <2>6, <2>7
<1> QED BY <1>2, <1>3, <1>4, <1>5, <1>6 DEF SendInv

\* The references of the lines under way, when one is made, goes on, or is done
LEMMA PushCounts ==
  ASSUME NEW x \in Frames, NEW cs \in Seq(Frames), NEW b \in Blocks
  PROVE  /\ <<x>> \o cs \in Seq(Frames) /\ Under(cs)[b] \in Nat
         /\ Under(<<x>> \o cs)[b] = Under(cs)[b] + (IF x.block = b THEN 1 ELSE 0)
<1>1. PICK ys : ys = <<x>> \o cs
  OBVIOUS
<1>2. ys \in Seq(Frames) /\ Holding(cs, b) \in Nat
      /\ Holding(ys, b) = (IF x.block = b THEN 1 ELSE 0) + Holding(cs, b)
  BY <1>1, HoldingPush
<1>3. Under(ys)[b] = Holding(ys, b) /\ Under(cs)[b] = Holding(cs, b)
  BY <1>2, UnderType
<1> QED BY <1>1, <1>2, <1>3

LEMMA TopIs ==
  ASSUME SendShape, calls # << >>
  PROVE  /\ Top \in Frames /\ Tail(calls) \in Seq(Frames) /\ calls = <<Top>> \o Tail(calls)
         /\ \A b \in Blocks : /\ Under(Tail(calls))[b] \in Nat
                              /\ Under(calls)[b] = Under(Tail(calls))[b]
                                                   + (IF Top.block = b THEN 1 ELSE 0)
<1>1. calls \in Seq(Frames)
  BY DEF SendShape
<1>2. /\ Top \in Frames /\ Tail(calls) \in Seq(Frames) /\ calls = <<Top>> \o Tail(calls)
  BY <1>1, HeadAndTail DEF Top
<1>3. PICK x, cs : x = Top /\ cs = Tail(calls)
  OBVIOUS
<1>4. x \in Frames /\ cs \in Seq(Frames) /\ calls = <<x>> \o cs
  BY <1>2, <1>3
<1>5. \A b \in Blocks : /\ Under(cs)[b] \in Nat
                        /\ Under(<<x>> \o cs)[b] = Under(cs)[b] + (IF x.block = b THEN 1 ELSE 0)
  BY <1>4, PushCounts
<1>6. \A b \in Blocks : /\ Under(cs)[b] \in Nat
                        /\ Under(calls)[b] = Under(cs)[b] + (IF x.block = b THEN 1 ELSE 0)
  BY <1>4, <1>5
<1> QED BY <1>2, <1>3, <1>6

LEMMA OnwardIs ==
  ASSUME SendShape, calls # << >>, NEW c
  PROVE  /\ Onward(c) \in Seq(Frames)
         /\ Under(Onward(c)) \in [Blocks -> Nat]
         /\ \A b \in Blocks : Under(Onward(c))[b] = Under(calls)[b]
<1>1. PICK x : x = [Top EXCEPT !.to = @ \ {c}]
  OBVIOUS
<1>2. Top \in Frames /\ Tail(calls) \in Seq(Frames)
  BY TopIs
<1>3. x \in Frames /\ x.block = Top.block
  BY <1>1, <1>2 DEF Frames
<1>4. Onward(c) = <<x>> \o Tail(calls)
  BY <1>1 DEF Onward
<1>5. Onward(c) \in Seq(Frames)
  BY <1>2, <1>3, <1>4, HoldingPush
<1>6. \A b \in Blocks : /\ Under(Onward(c))[b]
                             = Under(Tail(calls))[b] + (IF Top.block = b THEN 1 ELSE 0)
                        /\ Under(calls)[b]
                             = Under(Tail(calls))[b] + (IF Top.block = b THEN 1 ELSE 0)
  <2>1. PICK cs \in Seq(Frames) : cs = Tail(calls)
    BY <1>2
  <2>2. \A b \in Blocks : Under(<<x>> \o cs)[b] = Under(cs)[b] + (IF x.block = b THEN 1 ELSE 0)
    BY <1>3, PushCounts
  <2>3. \A b \in Blocks : Under(calls)[b]
                             = Under(Tail(calls))[b] + (IF Top.block = b THEN 1 ELSE 0)
    BY TopIs
  <2>4. \A b \in Blocks : Under(Onward(c))[b] = Under(cs)[b] + (IF x.block = b THEN 1 ELSE 0)
    BY <1>4, <2>1, <2>2
  <2> QED BY <1>3, <2>1, <2>3, <2>4
<1> QED BY <1>5, <1>6, UnderType

LEMMA SendToInv ==
  ASSUME SendInv, NEW to \in SUBSET Conns, NEW all \in BOOLEAN, NEW size \in Sizes,
         SendTo(to, all, size)
  PROVE  SendInv'
<1>1. /\ calls = << >> /\ lines < MaxLines /\ lines' = lines + 1
      /\ refs' = [refs EXCEPT ![Spare] = @ + 1]
      /\ line' = [line EXCEPT ![Spare] = [id |-> lines + 1, size |-> size]]
      /\ calls' = << Frame(Spare, to, all) >>
      /\ sendq' = sendq /\ pos' = pos /\ total' = total /\ blocked' = blocked /\ dead' = dead
      /\ gone' = gone /\ told' = told /\ got' = got
  BY DEF SendTo
<1>2. /\ refs' \in [Blocks -> Nat] /\ line' \in [Blocks -> QueuedLine \cup {NoLine}]
      /\ \A b \in Blocks : refs'[b] = refs[b] + (IF Spare = b THEN 1 ELSE 0)
      /\ \A b \in Blocks : refs[b] # 0 => line'[b] = line[b]
      /\ \A b \in Blocks : refs'[b] # 0 => line'[b] \in QueuedLine
      /\ Cardinality(Active(refs')) <= lines' /\ lines' \in 0..MaxLines
  BY <1>1, SpareTaken
<1>3. PICK x : x = Frame(Spare, to, all)
  OBVIOUS
<1>4. x \in Frames /\ x.block = Spare
  <2>1. Spare \in Blocks
    BY <1>1, SpareFree
  <2> QED BY <1>3, <2>1 DEF Frame, Frames
<1>5. PICK cs \in Seq(Frames) : cs = << >> /\ Len(cs) = 0
  BY EmptySeq
<1>6. calls' = <<x>> \o cs
  <2>1. <<x>> \in Seq(Frames)
    BY <1>4, OneSeq
  <2>2. <<x>> \o << >> = <<x>>
    BY <2>1, ConcatEmptySeq
  <2> QED BY <1>1, <1>3, <1>5, <2>2
<1>7. calls' \in Seq(Frames)
  BY <1>4, <1>5, <1>6, PushCounts
<1>8. ASSUME NEW b \in Blocks PROVE Counts(refs', sendq', Under(calls'), b)
  <2>1. Under(calls')[b] = Under(calls)[b] + (IF Spare = b THEN 1 ELSE 0)
        /\ Under(calls)[b] \in Nat
    <3>1. /\ Under(<<x>> \o cs)[b] = Under(cs)[b] + (IF x.block = b THEN 1 ELSE 0)
          /\ Under(cs)[b] \in Nat
      BY <1>4, PushCounts
    <3>2. cs = calls
      BY <1>1, <1>5
    <3> QED BY <1>4, <1>6, <3>1, <3>2
  <2>2. refs[b] = Load(sendq, b) + Under(calls)[b]
    BY DEF SendInv, Counts
  <2>3. Load(sendq, b) \in Nat
    <3>1. sendq \in [Conns -> Seq(Blocks)]
      BY DEF SendInv, SendShape
    <3> QED BY <3>1, LoadType
  <2>4. refs'[b] = Load(sendq, b) + Under(calls')[b]
    BY <1>2, <2>1, <2>2, <2>3
  <2> QED BY <1>1, <2>4 DEF Counts
<1>9. \A b \in Blocks : refs'[b] <= refs'[b]
  BY <1>2
<1>10. SendShape
  BY DEF SendInv
<1> DEFINE C == {}
<1>11. \A d \in Conns \cap C : d \notin dead' =>
         FineQ(sendq[d], pos[d], total[d], got[d], AllBytes(told[d]))'
  OBVIOUS
<1> HIDE DEF C
<1> QED BY <1>1, <1>2, <1>7, <1>8, <1>9, <1>10, <1>11, SendInvNext DEF SendShape

LEMMA LineSentInv ==
  ASSUME SendInv, LineSent
  PROVE  SendInv'
<1>1. /\ calls # << >> /\ refs' = Freed(refs, << Top.block >>) /\ calls' = Tail(calls)
      /\ line' = line /\ lines' = lines
      /\ sendq' = sendq /\ pos' = pos /\ total' = total /\ blocked' = blocked /\ dead' = dead
      /\ gone' = gone /\ told' = told /\ got' = got
  BY DEF LineSent
<1>2. SendShape
  BY DEF SendInv
<1>3. /\ Top \in Frames /\ Tail(calls) \in Seq(Frames)
      /\ \A b \in Blocks : /\ Under(Tail(calls))[b] \in Nat
                           /\ Under(calls)[b] = Under(Tail(calls))[b]
                                                + (IF Top.block = b THEN 1 ELSE 0)
  BY <1>1, <1>2, TopIs
<1>4. PICK e \in Seq(Blocks) : e = << Top.block >>
  <2>1. Top.block \in Blocks
    BY <1>3 DEF Frames
  <2> QED BY <2>1, OneSeq
<1>5. refs \in [Blocks -> Nat] /\ sendq \in [Conns -> Seq(Blocks)]
  BY <1>2 DEF SendShape
<1>6. ASSUME NEW b \in Blocks
      PROVE  /\ refs'[b] = Load(sendq, b) + Under(Tail(calls))[b]
             /\ refs'[b] <= refs[b] /\ refs'[b] \in Nat
  <2>1. Freed(refs, e)[b] = refs[b] - Uses(e, b)
    BY <1>4, <1>5, FreedIs
  <2>2. Uses(e, b) = IF Top.block = b THEN 1 ELSE 0
    BY <1>4, UsesOne
  <2>3. refs[b] = Load(sendq, b) + Under(calls)[b]
    BY DEF SendInv, Counts
  <2>4. PICK o, u \in Nat : o = Load(sendq, b) /\ u = Under(Tail(calls))[b]
    BY <1>3, <1>5, LoadType
  <2>5. refs'[b] = refs[b] - (IF Top.block = b THEN 1 ELSE 0)
    BY <1>1, <1>4, <2>1, <2>2
  <2>6. refs[b] = o + (u + (IF Top.block = b THEN 1 ELSE 0))
    BY <1>3, <2>3, <2>4
  <2> QED BY <2>4, <2>5, <2>6
<1>7. refs' \in [Blocks -> Nat]
  BY <1>1, <1>6, FreedType
<1>8. \A b \in Blocks : Counts(refs', sendq', Under(calls'), b)
  BY <1>1, <1>6 DEF Counts
<1> DEFINE C == {}
<1>9. \A d \in Conns \cap C : d \notin dead' =>
         FineQ(sendq[d], pos[d], total[d], got[d], AllBytes(told[d]))'
  OBVIOUS
<1> HIDE DEF C
<1>10. /\ line' \in [Blocks -> QueuedLine \cup {NoLine}] /\ lines' \in 0..MaxLines
       /\ \A b \in Blocks : refs[b] # 0 => line'[b] = line[b]
       /\ \A b \in Blocks : refs[b] # 0 => line'[b] \in QueuedLine
       /\ Cardinality(Active(refs)) <= lines'
  BY <1>1 DEF SendInv, SendShape
<1> QED BY <1>1, <1>2, <1>3, <1>6, <1>7, <1>8, <1>9, <1>10, SendInvNext DEF SendShape

\* A write that sends no new line
LEMMA WriteInv ==
  ASSUME SendInv, NEW c \in Conns, NEW held \in SUBSET Conns,
         Write(c, sendq[c], total[c], refs, held),
         line' = line, lines' = lines, calls' = calls, told' = told, gone' = gone
  PROVE  SendInv'
<1>1. SendShape
  BY DEF SendInv
<1>2. /\ sendq \in [Conns -> Seq(Blocks)] /\ total \in [Conns -> 0..MaxSendq]
      /\ refs \in [Blocks -> Nat] /\ calls \in Seq(Frames)
  BY <1>1 DEF SendShape
<1>3. Under(calls) \in [Blocks -> Nat]
  BY <1>2, UnderType
<1>4. Put(sendq, c, sendq[c]) = sendq
  BY <1>2 DEF Put
<1>5. \A b \in Blocks : Counts(refs, Put(sendq, c, sendq[c]), Under(calls), b)
  BY <1>4 DEF SendInv
<1>6. c \notin dead => FineQ(sendq[c], pos[c], total[c], got[c], AllBytes(told[c]))
  BY DEF SendInv
<1>7. PICK bs \in Seq(Blocks), t \in 0..MaxSendq, h \in [Blocks -> Nat] :
        bs = sendq[c] /\ t = total[c] /\ h = Under(calls)
  BY <1>2, <1>3
<1>7a. PICK w : w = AllBytes(told[c])
  OBVIOUS
<1>8. Wrote(c, refs, h, w)
  BY <1>1, <1>2, <1>5, <1>6, <1>7, <1>7a, WriteKeeps
<1>9. Wrote(c, refs, Under(calls'), AllBytes(told'[c]))
  BY <1>7, <1>7a, <1>8
<1>10. /\ line' \in [Blocks -> QueuedLine \cup {NoLine}] /\ lines' \in 0..MaxLines
       /\ \A b \in Blocks : refs[b] # 0 => line'[b] = line[b]
       /\ \A b \in Blocks : refs[b] # 0 => line'[b] \in QueuedLine
       /\ Cardinality(Active(refs)) <= lines'
       /\ told' \in [Conns -> Seq(QueuedLine)] /\ calls' \in Seq(Frames) /\ gone' \subseteq Conns
  BY DEF SendInv, SendShape
<1> QED BY <1>2, <1>9, <1>10, WroteInv

LEMMA UnblockedInv ==
  ASSUME SendInv, NEW c \in Conns, Unblocked(c)
  PROVE  SendInv'
<1>1. blocked \ {c} \in SUBSET Conns
  BY DEF SendInv, SendShape
<1>2. /\ Write(c, sendq[c], total[c], refs, blocked \ {c})
      /\ line' = line /\ lines' = lines /\ calls' = calls /\ told' = told /\ gone' = gone
  BY DEF Unblocked
<1> QED BY <1>1, <1>2, WriteInv

LEMMA SendQueuedInv ==
  ASSUME SendInv, NEW c \in Conns, SendQueued(c)
  PROVE  SendInv'
<1>1. blocked \in SUBSET Conns
  BY DEF SendInv, SendShape
<1>2. /\ Write(c, sendq[c], total[c], refs, blocked)
      /\ line' = line /\ lines' = lines /\ calls' = calls /\ told' = told /\ gone' = gone
  BY DEF SendQueued
<1> QED BY <1>1, <1>2, WriteInv

LEMMA CloseInv ==
  ASSUME SendInv, NEW c \in Conns, CloseConn(c)
  PROVE  SendInv'
<1>1. SendShape
  BY DEF SendInv
<1>2. /\ sendq \in [Conns -> Seq(Blocks)] /\ refs \in [Blocks -> Nat] /\ calls \in Seq(Frames)
      /\ got \in [Conns -> Seq(Octet)] /\ blocked \subseteq Conns
  BY <1>1 DEF SendShape
<1>3. /\ gone' = gone \cup {c} /\ dead' = dead \cup {c} /\ blocked' = blocked \ {c}
      /\ refs' = Freed(refs, sendq[c]) /\ sendq' = [sendq EXCEPT ![c] = << >>]
      /\ pos' = [pos EXCEPT ![c] = 0] /\ total' = [total EXCEPT ![c] = 0]
      /\ line' = line /\ calls' = calls /\ lines' = lines /\ told' = told /\ got' = got
  BY DEF CloseConn
<1>4. PICK bs \in Seq(Blocks), h \in [Blocks -> Nat] : bs = sendq[c] /\ h = Under(calls)
  BY <1>2, UnderType
<1>4a. PICK w : w = AllBytes(told[c])
  OBVIOUS
<1>5. \A b \in Blocks : Counts(refs, Put(sendq, c, bs), h, b)
  <2>1. Put(sendq, c, sendq[c]) = sendq
    BY <1>2 DEF Put
  <2> QED BY <1>4, <2>1 DEF SendInv
<1>6. got' \in [Conns -> Seq(Octet)] /\ blocked' \subseteq Conns
      /\ \A d \in Conns \ {c} : got'[d] = got[d]
  BY <1>2, <1>3
<1>7. Wrote(c, refs, h, w)
  BY <1>1, <1>2, <1>3, <1>4, <1>5, <1>6, DropKeeps
<1>8. Wrote(c, refs, Under(calls'), AllBytes(told'[c]))
  BY <1>3, <1>4, <1>4a, <1>7
<1>9. /\ line' \in [Blocks -> QueuedLine \cup {NoLine}] /\ lines' \in 0..MaxLines
      /\ \A b \in Blocks : refs[b] # 0 => line'[b] = line[b]
      /\ \A b \in Blocks : refs[b] # 0 => line'[b] \in QueuedLine
      /\ Cardinality(Active(refs)) <= lines'
      /\ told' \in [Conns -> Seq(QueuedLine)] /\ calls' \in Seq(Frames) /\ gone' \subseteq Conns
      /\ \A d \in Conns \ {c} : told'[d] = told[d]
  BY <1>3 DEF SendInv, SendShape
<1>10. c \notin dead' => line' = line
  BY <1>3
<1> QED BY <1>2, <1>8, <1>9, <1>10, WroteInv

LEMMA DeadLinkInv ==
  ASSUME SendInv, NEW c \in Conns, NEW r \in [Blocks -> Nat], DeadLink(c, r),
         \A b \in Blocks : Counts(r, sendq, Under(calls'), b), calls' \in Seq(Frames),
         line' \in [Blocks -> QueuedLine \cup {NoLine}], lines' \in 0..MaxLines,
         \A b \in Blocks : refs[b] # 0 => line'[b] = line[b],
         \A b \in Blocks : r[b] # 0 => line'[b] \in QueuedLine,
         Cardinality(Active(r)) <= lines', gone' = gone
  PROVE  SendInv'
<1>1. SendShape
  BY DEF SendInv
<1>2. PICK h \in [Blocks -> Nat] : h = Under(calls')
  BY UnderType
<1>2a. PICK w : w = AllBytes(told'[c])
  OBVIOUS
<1>3. \A b \in Blocks : Counts(r, sendq, h, b)
  BY <1>2
<1>4. Wrote(c, r, h, w) /\ c \in dead'
  BY <1>1, <1>3, DeadLinkKeeps
<1>5. Wrote(c, r, Under(calls'), AllBytes(told'[c]))
  BY <1>2, <1>2a, <1>4
<1>6. told' = told
  BY DEF DeadLink
<1>7. told' \in [Conns -> Seq(QueuedLine)] /\ gone' \subseteq Conns
      /\ \A d \in Conns \ {c} : told'[d] = told[d]
  BY <1>6 DEF SendInv, SendShape
<1>8. c \notin dead' => line' = line
  BY <1>4
<1> QED BY <1>5, <1>7, <1>8, WroteInv

\* A line put on a sendq, which may be written at once
LEMMA PutInv ==
  ASSUME SendInv, NEW c \in Conns, calls # << >>, NEW b, b = Top.block, ~Over(c, line[b]),
         told' = [told EXCEPT ![c] = Append(@, line[b])],
         Write(c, Append(sendq[c], b), total[c] + line[b].size, [refs EXCEPT ![b] = @ + 1], blocked),
         calls' = Onward(c), line' = line, lines' = lines, gone' = gone
  PROVE  SendInv'
<1>1. SendShape
  BY DEF SendInv
<1>2. /\ sendq \in [Conns -> Seq(Blocks)] /\ refs \in [Blocks -> Nat] /\ calls \in Seq(Frames)
      /\ total \in [Conns -> 0..MaxSendq] /\ told \in [Conns -> Seq(QueuedLine)]
      /\ got \in [Conns -> Seq(Octet)] /\ pos \in [Conns -> Nat]
      /\ blocked \in SUBSET Conns /\ line \in [Blocks -> AnyLine]
  BY <1>1, AnyLines DEF SendShape
<1>3. Top \in Frames /\ \A x \in Blocks : /\ Under(Tail(calls))[x] \in Nat
                          /\ Under(calls)[x] = Under(Tail(calls))[x]
                                               + (IF Top.block = x THEN 1 ELSE 0)
  BY <1>1, TopIs
<1>4. b \in Blocks
  BY <1>3 DEF Frames
<1>5. /\ calls' \in Seq(Frames) /\ Under(calls') \in [Blocks -> Nat]
      /\ \A x \in Blocks : Under(calls')[x] = Under(calls)[x]
  BY <1>1, OnwardIs
<1>6. refs[b] # 0
  <2>1. PICK u, o \in Nat : u = Under(Tail(calls))[b] /\ o = Load(sendq, b)
    BY <1>2, <1>3, <1>4, LoadType
  <2>2. Under(calls)[b] = u + 1
    BY <1>3, <1>4, <2>1
  <2>3. refs[b] = Load(sendq, b) + Under(calls)[b]
    BY <1>4 DEF SendInv, Counts
  <2>4. refs[b] = o + (u + 1)
    BY <2>1, <2>2, <2>3
  <2> QED BY <2>4
<1>7. line[b] \in QueuedLine
  BY <1>4, <1>6 DEF SendInv
<1>8. PICK r : r = [refs EXCEPT ![b] = @ + 1]
  OBVIOUS
<1>9. r \in [Blocks -> Nat] /\ \A x \in Blocks : r[x] = refs[x] + (IF b = x THEN 1 ELSE 0)
  BY <1>2, <1>4, <1>8
<1>10. PICK s \in Seq(Blocks) : s = sendq[c]
  BY <1>2
<1>11. PICK bs \in Seq(Blocks) : bs = Append(s, b)
  BY <1>4, AppendProperties
<1>12. ASSUME NEW x \in Blocks PROVE Counts(r, Put(sendq, c, bs), Under(calls'), x)
  <2>1. Load(sendq, x) = Others(sendq, c, x) + Uses(s, x)
        /\ Others(sendq, c, x) \in Nat /\ Uses(s, x) \in Nat
    BY <1>2, <1>10, LoadSplit
  <2>2. Load(Put(sendq, c, bs), x) = Others(sendq, c, x) + Uses(bs, x)
    <3>1. PutLoad(sendq, c, bs, x)
      BY <1>2, LoadPut
    <3> QED BY <3>1 DEF PutLoad
  <2>3. Uses(bs, x) = Uses(s, x) + (IF b = x THEN 1 ELSE 0)
    BY <1>4, <1>11, UsesAppend
  <2>4. refs[x] = Load(sendq, x) + Under(calls)[x]
    BY DEF SendInv, Counts
  <2>5. PICK o, u, h \in Nat : o = Others(sendq, c, x) /\ u = Uses(s, x) /\ h = Under(calls')[x]
    BY <1>5, <2>1
  <2>6. refs[x] = (o + u) + h
    BY <1>5, <2>1, <2>4, <2>5
  <2>7. Load(Put(sendq, c, bs), x) = o + (u + (IF b = x THEN 1 ELSE 0))
    BY <2>2, <2>3, <2>5
  <2>8. r[x] = refs[x] + (IF b = x THEN 1 ELSE 0)
    BY <1>9
  <2>9. r[x] = (o + (u + (IF b = x THEN 1 ELSE 0))) + h
    BY <2>6, <2>8
  <2> QED BY <2>5, <2>7, <2>9 DEF Counts
<1>13. PICK t : t = total[c] + line[b].size
  OBVIOUS
<1>14. t \in 0..MaxSendq
  <2>1. line[b].size \in Nat
    BY <1>7, SendConstants DEF QueuedLine
  <2>2. total[c] \in 0..MaxSendq
    BY <1>2
  <2> QED BY <1>13, <2>1, <2>2, SendConstants DEF Over
<1>15. PICK w : w = AllBytes(Append(told[c], line[b]))
  OBVIOUS
<1>16. c \notin dead => FineQ(bs, pos[c], t, got[c], w)
  <2> SUFFICES ASSUME c \notin dead PROVE FineQ(bs, pos[c], t, got[c], w)
    OBVIOUS
  <2>1. PICK ls \in Seq(AnyLine), p \in Nat, q \in Nat, g \in Seq(Octet) :
          ls = told[c] /\ p = pos[c] /\ q = total[c] /\ g = got[c]
    <3>1. QueuedLine \subseteq AnyLine
      <4>1. 1..MaxLines \subseteq Nat /\ Sizes \subseteq Nat
        BY SendConstants
      <4> QED BY <4>1 DEF QueuedLine, AnyLine
    <3>2. told[c] \in Seq(QueuedLine) /\ pos[c] \in Nat /\ total[c] \in Nat /\ got[c] \in Seq(Octet)
      BY <1>2
    <3>3. told[c] \in Seq(AnyLine)
      BY <3>1, <3>2, SeqMonotonic
    <3> QED BY <3>2, <3>3
  <2>2. FineQ(s, p, q, g, AllBytes(ls))
    BY <1>10, <2>1 DEF SendInv
  <2>3. FineQ(Append(s, b), p, q + line[b].size, g, AllBytes(Append(ls, line[b])))
    BY <1>2, <1>4, <2>2, AddedFine
  <2> QED BY <1>11, <1>13, <1>15, <2>1, <2>3
<1>17. Write(c, bs, t, r, blocked)
  BY <1>8, <1>10, <1>11, <1>13
<1>18. Wrote(c, r, Under(calls'), w)
  <2>1. PICK h \in [Blocks -> Nat], held \in SUBSET Conns : h = Under(calls') /\ held = blocked
    BY <1>2, <1>5
  <2>2. /\ \A x \in Blocks : Counts(r, Put(sendq, c, bs), h, x)
        /\ Write(c, bs, t, r, held)
    BY <1>12, <1>17, <2>1
  <2>3. Wrote(c, r, h, w)
    BY <1>1, <1>9, <1>14, <1>16, <2>2, WriteKeeps
  <2> QED BY <2>1, <2>3
<1>19. told' \in [Conns -> Seq(QueuedLine)] /\ told'[c] = Append(told[c], line[b])
       /\ \A d \in Conns \ {c} : told'[d] = told[d]
  <2>1. PICK z \in Seq(QueuedLine) : z = Append(told[c], line[b])
    <3>1. told[c] \in Seq(QueuedLine)
      BY <1>2
    <3> QED BY <1>7, <3>1, AppendProperties
  <2>2. told' = [told EXCEPT ![c] = z]
    BY <2>1
  <2> QED BY <1>2, <2>1, <2>2
<1>20. Wrote(c, r, Under(calls'), AllBytes(told'[c]))
  BY <1>15, <1>18, <1>19
<1>21. \A x \in Blocks : r[x] # 0 => refs[x] # 0
  <2> SUFFICES ASSUME NEW x \in Blocks, r[x] # 0 PROVE refs[x] # 0
    OBVIOUS
  <2>1. CASE b = x
    BY <1>6, <2>1
  <2>2. CASE b # x
    <3>1. r[x] = refs[x] + (IF b = x THEN 1 ELSE 0) /\ refs[x] \in Nat
      BY <1>2, <1>9
    <3> QED BY <2>2, <3>1
  <2> QED BY <2>1, <2>2
<1>22. Cardinality(Active(r)) <= lines
  <2>1. Cardinality(Active(r)) <= Cardinality(Active(refs)) /\ Cardinality(Active(r)) \in Nat
        /\ Cardinality(Active(refs)) \in Nat
    BY <1>21, ActiveFinite
  <2>2. Cardinality(Active(refs)) <= lines /\ lines \in Nat
    BY SendConstants DEF SendInv, SendShape
  <2> QED BY <2>1, <2>2
<1>23. /\ line' \in [Blocks -> QueuedLine \cup {NoLine}] /\ lines' \in 0..MaxLines
       /\ \A x \in Blocks : refs[x] # 0 => line'[x] = line[x]
       /\ \A x \in Blocks : r[x] # 0 => line'[x] \in QueuedLine
       /\ Cardinality(Active(r)) <= lines' /\ gone' \subseteq Conns
  BY <1>21, <1>22 DEF SendInv, SendShape
<1>24. c \notin dead' => line' = line
  OBVIOUS
<1> QED BY <1>5, <1>9, <1>19, <1>20, <1>23, <1>24, WroteInv

\* A receiver is passed over.
LEMMA SkipInv ==
  ASSUME SendInv, calls # << >>, NEW c, calls' = Onward(c),
         UNCHANGED <<refs, line, sendq, pos, total, blocked, dead, lines, told, got, gone>>
  PROVE  SendInv'
<1>1. SendShape
  BY DEF SendInv
<1>2. /\ refs' = refs /\ line' = line /\ sendq' = sendq /\ pos' = pos /\ total' = total
      /\ blocked' = blocked /\ dead' = dead /\ lines' = lines /\ told' = told /\ got' = got
      /\ gone' = gone
  OBVIOUS
<1>3. calls' \in Seq(Frames) /\ \A b \in Blocks : Under(calls')[b] = Under(calls)[b]
  BY <1>1, OnwardIs
<1>4. \A b \in Blocks : Counts(refs', sendq', Under(calls'), b)
  BY <1>2, <1>3 DEF SendInv, Counts
<1>5. \A b \in Blocks : refs'[b] <= refs[b]
  BY <1>1, <1>2 DEF SendShape
<1> DEFINE C == {}
<1>6. \A d \in Conns \cap C : d \notin dead' =>
         FineQ(sendq[d], pos[d], total[d], got[d], AllBytes(told[d]))'
  OBVIOUS
<1> HIDE DEF C
<1>7. /\ line' \in [Blocks -> QueuedLine \cup {NoLine}] /\ lines' \in 0..MaxLines
      /\ \A b \in Blocks : refs[b] # 0 => line'[b] = line[b]
      /\ \A b \in Blocks : refs[b] # 0 => line'[b] \in QueuedLine
      /\ Cardinality(Active(refs)) <= lines'
  BY <1>2 DEF SendInv, SendShape
<1> QED BY <1>1, <1>2, <1>3, <1>4, <1>5, <1>6, <1>7, SendInvNext DEF SendShape

LEMMA SendMessageInv ==
  ASSUME SendInv, NEW c \in Conns, SendMessage(c)
  PROVE  SendInv'
<1>1. SendShape
  BY DEF SendInv
<1>2. PICK b, l : b = Top.block /\ l = line[b]
  OBVIOUS
<1>3. calls # << >> /\ gone' = gone
  BY DEF SendMessage
<1>4. refs \in [Blocks -> Nat] /\ sendq \in [Conns -> Seq(Blocks)]
  BY <1>1 DEF SendShape
<1>5. /\ Onward(c) \in Seq(Frames) /\ Under(Onward(c)) \in [Blocks -> Nat]
      /\ \A x \in Blocks : Under(Onward(c))[x] = Under(calls)[x]
  BY <1>1, <1>3, OnwardIs
<1>6. \A x \in Blocks : Counts(refs, sendq, Under(Onward(c)), x)
  BY <1>5 DEF SendInv, Counts
<1>7. CASE /\ calls' = Onward(c)
           /\ UNCHANGED <<refs, line, sendq, pos, total, blocked, dead, lines, told, got>>
  BY <1>3, <1>7, SkipInv
<1>8. CASE /\ DeadLink(c, refs) /\ calls' = Onward(c) /\ UNCHANGED <<line, lines>>
  <2>1. /\ line' \in [Blocks -> QueuedLine \cup {NoLine}] /\ lines' \in 0..MaxLines
        /\ \A x \in Blocks : refs[x] # 0 => line'[x] = line[x]
        /\ \A x \in Blocks : refs[x] # 0 => line'[x] \in QueuedLine
        /\ Cardinality(Active(refs)) <= lines'
    BY <1>8 DEF SendInv, SendShape
  <2>2. \A x \in Blocks : Counts(refs, sendq, Under(calls'), x)
    BY <1>6, <1>8
  <2> QED BY <1>3, <1>4, <1>5, <1>8, <2>1, <2>2, DeadLinkInv
<1>9. ASSUME NEW size \in Sizes, lines < MaxLines, lines' = lines + 1,
             line' = [line EXCEPT ![Spare] = [id |-> lines + 1, size |-> size]],
             DeadLink(c, [refs EXCEPT ![Spare] = @ + 1]),
             calls' = << Frame(Spare, Opers, FALSE) >> \o Onward(c)
      PROVE  SendInv'
  <2>1. PICK r : r = [refs EXCEPT ![Spare] = @ + 1]
    OBVIOUS
  <2>2. /\ r \in [Blocks -> Nat] /\ line' \in [Blocks -> QueuedLine \cup {NoLine}]
        /\ \A x \in Blocks : r[x] = refs[x] + (IF Spare = x THEN 1 ELSE 0)
        /\ \A x \in Blocks : refs[x] # 0 => line'[x] = line[x]
        /\ \A x \in Blocks : r[x] # 0 => line'[x] \in QueuedLine
        /\ Cardinality(Active(r)) <= lines' /\ lines' \in 0..MaxLines
    BY <1>9, <2>1, SpareTaken
  <2>3. PICK x : x = Frame(Spare, Opers, FALSE)
    OBVIOUS
  <2>4. x \in Frames /\ x.block = Spare
    <3>1. Spare \in Blocks
      BY <1>9, SpareFree
    <3> QED BY <2>3, <3>1 DEF Frame, Frames, Conns
  <2>5. PICK cs \in Seq(Frames) : cs = Onward(c)
    BY <1>5
  <2>6. calls' = <<x>> \o cs
    BY <1>9, <2>3, <2>5
  <2>7. calls' \in Seq(Frames)
        /\ \A y \in Blocks : /\ Under(calls')[y] = Under(cs)[y] + (IF x.block = y THEN 1 ELSE 0)
                             /\ Under(cs)[y] \in Nat
    BY <2>4, <2>6, PushCounts
  <2>8. ASSUME NEW y \in Blocks PROVE Counts(r, sendq, Under(calls'), y)
    <3>1. PICK o, u \in Nat : o = Load(sendq, y) /\ u = Under(cs)[y]
      BY <1>4, <2>7, LoadType
    <3>2. refs[y] = o + u
      BY <1>6, <2>5, <3>1 DEF Counts
    <3>3. r[y] = refs[y] + (IF Spare = y THEN 1 ELSE 0)
      BY <2>2
    <3>4. Under(calls')[y] = u + (IF Spare = y THEN 1 ELSE 0)
      BY <2>4, <2>7, <3>1
    <3>5. r[y] = o + (u + (IF Spare = y THEN 1 ELSE 0))
      BY <3>2, <3>3
    <3> QED BY <3>1, <3>4, <3>5 DEF Counts
  <2>9. DeadLink(c, r)
    BY <1>9, <2>1
  <2> QED BY <1>3, <2>2, <2>7, <2>8, <2>9, DeadLinkInv
<1>10. CASE /\ ~Over(c, l) /\ told' = [told EXCEPT ![c] = Append(@, l)]
            /\ Write(c, Append(sendq[c], b), total[c] + l.size, [refs EXCEPT ![b] = @ + 1], blocked)
            /\ calls' = Onward(c) /\ UNCHANGED <<line, lines>>
  BY <1>2, <1>3, <1>10, PutInv
<1>11. \/ /\ calls' = Onward(c)
          /\ UNCHANGED <<refs, line, sendq, pos, total, blocked, dead, lines, told, got>>
       \/ /\ DeadLink(c, refs) /\ calls' = Onward(c) /\ UNCHANGED <<line, lines>>
       \/ /\ lines < MaxLines
          /\ \E size \in Sizes :
               /\ lines' = lines + 1
               /\ line' = [line EXCEPT ![Spare] = [id |-> lines + 1, size |-> size]]
               /\ DeadLink(c, [refs EXCEPT ![Spare] = @ + 1])
               /\ calls' = << Frame(Spare, Opers, FALSE) >> \o Onward(c)
       \/ /\ ~Over(c, l) /\ told' = [told EXCEPT ![c] = Append(@, l)]
          /\ Write(c, Append(sendq[c], b), total[c] + l.size, [refs EXCEPT ![b] = @ + 1], blocked)
          /\ calls' = Onward(c) /\ UNCHANGED <<line, lines>>
  BY <1>2 DEF SendMessage
<1> QED BY <1>7, <1>8, <1>9, <1>10, <1>11

LEMMA SendStepInv == SendInv /\ [SendNext]_sendVars => SendInv'
<1> SUFFICES ASSUME SendInv, [SendNext]_sendVars PROVE SendInv'
  OBVIOUS
<1>1. CASE UNCHANGED sendVars
  <2>1. /\ refs' = refs /\ line' = line /\ sendq' = sendq /\ pos' = pos /\ total' = total
        /\ blocked' = blocked /\ dead' = dead /\ gone' = gone /\ calls' = calls
        /\ lines' = lines /\ told' = told /\ got' = got
    BY <1>1 DEF sendVars
  <2>2. SendShape'
    BY <2>1 DEF SendInv, SendShape
  <2>3. \A c \in Conns \ dead' :
          FineQ(sendq[c], pos[c], total[c], got[c], AllBytes(told[c]))'
    BY <2>1 DEF SendInv, FineQ, Wire, LinesIn
  <2>4. /\ \A b \in Blocks : refs'[b] # 0 => line'[b] \in QueuedLine
        /\ \A b \in Blocks : Counts(refs', sendq', Under(calls'), b)
        /\ Cardinality(Active(refs')) <= lines'
    BY <2>1 DEF SendInv
  <2> QED BY <2>2, <2>3, <2>4 DEF SendInv
<1>2. ASSUME NEW to \in SUBSET Conns \ {{}}, NEW all \in BOOLEAN, NEW size \in Sizes,
             SendTo(to, all, size)
      PROVE  SendInv'
  BY <1>2, SendToInv
<1>3. ASSUME NEW c \in Conns, SendMessage(c) PROVE SendInv'
  BY <1>3, SendMessageInv
<1>4. ASSUME NEW c \in Conns, Unblocked(c) PROVE SendInv'
  BY <1>4, UnblockedInv
<1>5. ASSUME NEW c \in Conns, SendQueued(c) PROVE SendInv'
  BY <1>5, SendQueuedInv
<1>6. ASSUME NEW c \in Conns, CloseConn(c) PROVE SendInv'
  BY <1>6, CloseInv
<1>7. CASE LineSent
  BY <1>7, LineSentInv
<1> QED BY <1>1, <1>2, <1>3, <1>4, <1>5, <1>6, <1>7 DEF SendNext

LEMMA SendAlways == SendSpec => []SendInv
BY InitInv, SendStepInv, PTL DEF SendSpec

\* SendTypeOK: in particular no sendq is ever above max_sendq (send_message).
THEOREM SendTyped == SendSpec => []SendTypeOK
<1>1. SendInv => SendTypeOK
  <2> SUFFICES ASSUME SendInv PROVE SendTypeOK
    OBVIOUS
  <2>1. SendShape
    BY DEF SendInv
  <2>2. \A i \in DOMAIN calls :
          calls[i].block \in Blocks /\ calls[i].to \subseteq Conns /\ calls[i].all \in BOOLEAN
    <3>1. calls \in Seq(Frames)
      BY <2>1 DEF SendShape
    <3>2. \A i \in DOMAIN calls : calls[i] \in Frames
      BY <3>1, LenProperties
    <3> QED BY <3>2 DEF Frames
  <2> QED BY <2>1, <2>2 DEF SendShape, SendTypeOK
<1> QED BY <1>1, SendAlways, PTL

\* Queued: each live connection gets its lines whole, in order and once, and a block is
\* in the pool when, and only when, no sendq nor line under way has it, through partial
\* and failed writes, overrun sendqs and the notices they make (send.c, dbuf.c).
THEOREM QueuedAlways == SendSpec => []Queued
<1>1. SendInv => Queued
  <2> SUFFICES ASSUME SendInv PROVE Queued
    OBVIOUS
  <2>1. SendShape
    BY DEF SendInv
  <2>2. References
    <3> SUFFICES ASSUME NEW b \in Blocks
                 PROVE  refs[b] = Cardinality({p \in Places : sendq[p[1]][p[2]] = b})
                                  + Cardinality({i \in DOMAIN calls : calls[i].block = b})
      BY DEF References
    <3>1. Places = PlacesIn(sendq)
      BY DEF Places, PlacesIn
    <3>2. Load(sendq, b) = Cardinality({p \in Places : sendq[p[1]][p[2]] = b})
      BY <3>1 DEF Load
    <3>3. calls \in Seq(Frames)
      BY <2>1 DEF SendShape
    <3>4. Under(calls)[b] = Cardinality({i \in DOMAIN calls : calls[i].block = b})
      <4>1. {i \in DOMAIN HeldBy(calls) : HeldBy(calls)[i] = b} = {i \in DOMAIN calls : calls[i].block = b}
        BY DEF HeldBy
      <4>2. Under(calls)[b] = Uses(HeldBy(calls), b)
        BY <3>3, UnderType DEF Holding
      <4> QED BY <4>1, <4>2 DEF Uses
    <3> QED BY <3>2, <3>4 DEF SendInv, Counts
  <2>3. InOrder
    <3> SUFFICES ASSUME NEW c \in Conns \ dead
                 PROVE  /\ got[c] \o Pending(c) = AllBytes(told[c])
                        /\ total[c] = Len(Pending(c)) /\ total[c] <= MaxSendq
      BY DEF InOrder
    <3>1. PICK A \in Seq(Octet) : A = Wire(sendq[c])
      <4>1. line \in [Blocks -> AnyLine] /\ sendq[c] \in Seq(Blocks)
        BY <2>1, AnyLines DEF SendShape
      <4> QED BY <4>1, WireType
    <3>2. PICK p, t, M \in Nat : p = pos[c] /\ t = total[c] /\ M = Len(A) /\ t <= MaxSendq
      <4>1. pos[c] \in Nat /\ total[c] \in 0..MaxSendq /\ Len(A) \in Nat
        BY <2>1 DEF SendShape
      <4> QED BY <4>1, SendConstants
    <3>3. FineQ(sendq[c], p, t, got[c], AllBytes(told[c]))
      BY <3>2 DEF SendInv
    <3>4. p <= M /\ t = M - p /\ got[c] \o SubSeq(A, p + 1, M) = AllBytes(told[c])
      BY <3>1, <3>2, <3>3, Zenon DEF FineQ
    <3>5. Pending(c) = SubSeq(A, p + 1, M)
      BY <3>1, <3>2 DEF Pending, Wire
    <3>6. Len(SubSeq(A, p + 1, M)) = M - p
      <4>1. p + 1 \in Nat \ {0} /\ M <= M /\ p + 1 <= M + 1 /\ M - (p + 1) + 1 = M - p
        <5>1. p <= M
          BY <3>4
        <5> QED BY <5>1
      <4>2. Len(SubSeq(A, p + 1, M)) = M - (p + 1) + 1
        BY <3>2, <4>1, SubSeqSeq
      <4> QED BY <4>1, <4>2
    <3> QED BY <3>2, <3>4, <3>5, <3>6, Zenon
  <2> QED BY <2>2, <2>3 DEF Queued
<1> QED BY <1>1, SendAlways, PTL

-----------------------------------------------------------------------------
(* Lines read: the pace of a user *)

Pacing ==
  /\ stage \in {"unknown", "user", "server"}
  /\ sent_parsed \in Nat /\ allow_read \in Nat /\ paced \in Nat /\ ticks \in 0..MaxTicks
  /\ graced => stage = "user" /\ allow_read = MaxFlood
  /\ graced /\ Checked =>
       sent_parsed <= MaxFlood /\ (ticks < MaxTicks => paced <= sent_parsed + 2 * ticks)

LEMMA InitPacing == RecvInit => Pacing
  BY FloodLimits DEF RecvInit, Pacing

\* A line is parsed only below the limit, and counted both ways.
LEMMA LinePacing == ASSUME Pacing, ParseLine PROVE Pacing'
<1> USE FloodLimits DEF Pacing
<1>1. ~Held /\ UNCHANGED ticks BY DEF ParseLine
<1>2. ASSUME /\ sent_parsed' = IF stage = "user" THEN sent_parsed + 1 ELSE sent_parsed
             /\ paced' = IF graced THEN paced + 1 ELSE paced
             /\ UNCHANGED <<stage, graced, allow_read>>
             /\ Checked' => Checked
      PROVE Pacing'
  <2>1. sent_parsed' \in Nat /\ paced' \in Nat BY <1>2
  <2>2. ASSUME graced', Checked'
        PROVE  /\ sent_parsed' <= MaxFlood
               /\ ticks' < MaxTicks => paced' <= sent_parsed' + 2 * ticks'
    <3>1. graced /\ Checked /\ stage = "user" /\ allow_read = MaxFlood BY <1>2, <2>2
    <3>2. sent_parsed < MaxFlood BY <1>1, <3>1 DEF Held
    <3>3. sent_parsed' = sent_parsed + 1 /\ paced' = paced + 1 BY <1>2, <3>1
    <3> QED BY <1>1, <3>1, <3>2, <3>3
  <2> QED BY <1>1, <1>2, <2>1, <2>2
<1>3. CASE /\ sent_parsed' = IF stage = "user" THEN sent_parsed + 1 ELSE sent_parsed
           /\ paced' = IF graced THEN paced + 1 ELSE paced
           /\ UNCHANGED <<stage, oper, graced, allow_read, defunct>>
    BY <1>2, <1>3 DEF Checked
<1>4. CASE /\ stage = "unknown"
           /\ \/ stage' = "user" /\ allow_read' = MaxBurst
              \/ stage' = "server" /\ UNCHANGED allow_read
           /\ UNCHANGED <<oper, graced, sent_parsed, defunct, paced>>
    BY <1>1, <1>4
<1>5. CASE /\ stage = "user" /\ ~graced
           /\ graced' = TRUE /\ allow_read' = MaxFlood /\ sent_parsed' = 1 /\ paced' = 1
           /\ UNCHANGED <<stage, oper, defunct>>
    BY <1>1, <1>5
<1>6. CASE /\ stage = "user" /\ ~oper
           /\ oper' = TRUE /\ sent_parsed' = sent_parsed + 1
           /\ paced' = IF graced THEN paced + 1 ELSE paced
           /\ UNCHANGED <<stage, graced, allow_read, defunct>>
    BY <1>2, <1>6 DEF Checked
<1>7. CASE UNCHANGED <<stage, oper, graced, sent_parsed, allow_read, paced>>
    BY <1>1, <1>7 DEF Checked
<1> QED BY <1>3, <1>4, <1>5, <1>6, <1>7 DEF ParseLine

\* A second takes two lines off, or all that there are.
LEMMA SecondPacing == ASSUME Pacing, Recalc PROVE Pacing'
<1> USE FloodLimits DEF Pacing
<1>1. UNCHANGED <<stage, oper, graced, allow_read, paced>> BY DEF Recalc
<1>2. sent_parsed' = IF graced /\ sent_parsed > 2 THEN sent_parsed - 2 ELSE 0 BY DEF Recalc
<1>3. ticks' = IF graced THEN (IF ticks + 1 < MaxTicks THEN ticks + 1 ELSE MaxTicks) ELSE ticks
    BY DEF Recalc, Least
<1>4. sent_parsed' \in Nat /\ sent_parsed' <= sent_parsed /\ ticks' \in 0..MaxTicks
    BY <1>2, <1>3
<1>5. ASSUME graced, Checked, ticks' < MaxTicks PROVE paced' <= sent_parsed' + 2 * ticks'
  <2>1. ticks' = ticks + 1 /\ ticks < MaxTicks BY <1>3, <1>5
  <2>2. paced <= sent_parsed + 2 * ticks BY <1>5, <2>1
  <2>3. sent_parsed <= sent_parsed' + 2
    <3>1. CASE sent_parsed > 2 BY <1>2, <1>5, <3>1
    <3>2. CASE ~(sent_parsed > 2) BY <1>2, <3>2
    <3> QED BY <3>1, <3>2
  <2>4. 2 * ticks' = 2 * ticks + 2 BY <2>1
  <2>5. paced' = paced BY <1>1
  <2>6. sent_parsed \in Nat /\ paced \in Nat /\ ticks \in Nat OBVIOUS
  <2>7. \A p, s, t, a \in Nat : p <= s + a /\ s <= t + 2 => p <= t + (a + 2) OBVIOUS
  <2>8. 2 * ticks \in Nat BY <2>6
  <2>9. paced <= sent_parsed' + (2 * ticks + 2) BY <1>4, <2>2, <2>3, <2>6, <2>7, <2>8
  <2> QED BY <2>4, <2>5, <2>9
<1>6. Checked' <=> Checked BY <1>1 DEF Checked
<1>7. graced' /\ Checked' => sent_parsed' <= MaxFlood
  <2> SUFFICES ASSUME graced, Checked PROVE sent_parsed' <= MaxFlood
      BY <1>1, <1>6
  <2> QED BY <1>4
<1>8. graced' /\ Checked' => (ticks' < MaxTicks => paced' <= sent_parsed' + 2 * ticks')
    BY <1>1, <1>5, <1>6
<1>9. graced' => stage' = "user" /\ allow_read' = MaxFlood BY <1>1
<1>10. stage' \in {"unknown", "user", "server"} /\ allow_read' \in Nat /\ paced' \in Nat
    BY <1>1
<1> QED BY <1>4, <1>7, <1>8, <1>9, <1>10

LEMMA NextPacing == Pacing /\ [RecvNext]_recvVars => Pacing'
<1> SUFFICES ASSUME Pacing, [RecvNext]_recvVars PROVE Pacing'
    OBVIOUS
<1>1. CASE ParseLine BY <1>1, LinePacing
<1>2. CASE Recalc BY <1>2, SecondPacing
<1>3. CASE EndPass \/ Read \/ ReadWantsWrite \/ Die \/ UNCHANGED recvVars
  <2>1. UNCHANGED <<stage, oper, graced, sent_parsed, allow_read, paced, ticks>>
      BY <1>3 DEF EndPass, Read, ReadWantsWrite, Die, recvVars
  <2> QED BY <2>1 DEF Pacing, Checked
<1> QED BY <1>1, <1>2, <1>3 DEF RecvNext

\* However reads, seconds and the end of the grace come, a user has no more than
\* MAX_FLOOD lines parsed and two more in each second (packet.c parse_client_queued,
\* flood_recalc, flood_endgrace).
THEOREM NeverFaster == RecvSpec => []Paced
<1>1. Pacing => Paced
  <2> SUFFICES ASSUME Pacing, graced, Checked, ticks < MaxTicks
               PROVE  paced <= MaxFlood + 2 * ticks
      BY DEF Paced
  <2>1. sent_parsed <= MaxFlood /\ paced <= sent_parsed + 2 * ticks BY DEF Pacing
  <2> QED BY <2>1, FloodLimits DEF Pacing
<1> QED BY InitPacing, NextPacing, <1>1, PTL DEF RecvSpec

-----------------------------------------------------------------------------
(* Scanning bytes *)

Acc == [lines : Seq(Seq(Byte)), open : Seq(Byte)]
Opened(p) == [lines |-> p, open |-> << >>]

\* The bytes s take the scan from a to z, over the states f.
Scan(s, a, f) == /\ f \in [0..Len(s) -> Acc] /\ f[0] = a
                 /\ \A i \in 1..Len(s) : f[i] = Add(f[i - 1], s[i])
Scans(s, a, z) == \E f : Scan(s, a, f) /\ f[Len(s)] = z

\* Add by the fields of its states
LEMMA AddIs ==
  ASSUME NEW a \in Acc, NEW b
  PROVE  Add(a, b) =
           IF b = "eol"
           THEN IF a.open = << >> THEN a
                ELSE [lines |-> Append(a.lines, SubSeq(a.open, 1, Least(MaxLine, Len(a.open)))),
                      open |-> << >>]
           ELSE IF b = " " /\ a.open = << >> THEN a
                ELSE [lines |-> a.lines, open |-> Append(a.open, b)]
<1>1. PICK p \in Seq(Seq(Byte)), o \in Seq(Byte) : a = [lines |-> p, open |-> o]
  BY DEF Acc
<1>2. ASSUME NEW x PROVE [a EXCEPT !.open = x] = [lines |-> p, open |-> x]
  BY <1>1
<1>3. a.lines = p /\ a.open = o
  BY <1>1
<1>4. [a EXCEPT !.open = Append(@, b)] = [lines |-> a.lines, open |-> Append(a.open, b)]
  BY <1>2, <1>3
<1> QED BY <1>4 DEF Add

LEMMA AddedType ==
  ASSUME NEW a \in Acc, NEW b \in Byte
  PROVE  Add(a, b) \in Acc
<1>1. a.lines \in Seq(Seq(Byte)) /\ a.open \in Seq(Byte)
  BY DEF Acc
<1>2. PICK w : w = SubSeq(a.open, 1, Least(MaxLine, Len(a.open)))
  OBVIOUS
<1>3. w \in Seq(Byte)
  <2>1. Least(MaxLine, Len(a.open)) \in Int /\ Least(MaxLine, Len(a.open)) <= Len(a.open)
    BY <1>1, FloodLimits DEF Least
  <2>2. \A i \in 1..Least(MaxLine, Len(a.open)) : a.open[i] \in Byte
    BY <1>1, <2>1
  <2> QED BY <1>2, <2>1, <2>2, SubSeqProperties
<1>4. Append(a.lines, w) \in Seq(Seq(Byte)) /\ Append(a.open, b) \in Seq(Byte)
      /\ << >> \in Seq(Byte)
  BY <1>1, <1>3
<1>5. /\ [lines |-> Append(a.lines, w), open |-> << >>] \in Acc
      /\ [lines |-> a.lines, open |-> Append(a.open, b)] \in Acc
  BY <1>1, <1>4 DEF Acc
<1> QED BY <1>2, <1>5, AddIs

LEMMA ScanSame ==
  ASSUME NEW s \in Seq(Byte), NEW a, NEW f, NEW g, Scan(s, a, f), Scan(s, a, g)
  PROVE  \A i \in 0..Len(s) : f[i] = g[i]
<1> DEFINE S == {i \in Nat : i <= Len(s) => f[i] = g[i]}
<1>1. 0 \in S
  BY DEF Scan
<1>2. ASSUME NEW k \in Nat, k \in S PROVE k + 1 \in S
  <2>1. CASE k + 1 <= Len(s)
    <3>1. k + 1 \in 1..Len(s) /\ (k + 1) - 1 = k /\ f[k] = g[k]
      BY <1>2, <2>1
    <3>2. f[k + 1] = Add(f[k], s[k + 1]) /\ g[k + 1] = Add(g[k], s[k + 1])
      BY <3>1 DEF Scan
    <3> QED BY <3>1, <3>2
  <2>2. CASE ~(k + 1 <= Len(s))
    BY <2>2
  <2> QED BY <2>1, <2>2
<1> HIDE DEF S
<1>3. \A k \in Nat : k \in S
  BY <1>1, <1>2, Induct
<1> QED BY <1>3 DEF S

LEMMA ScansSame ==
  ASSUME NEW s \in Seq(Byte), NEW a, NEW y, NEW z, Scans(s, a, y), Scans(s, a, z)
  PROVE  y = z
<1>1. PICK f : Scan(s, a, f) /\ f[Len(s)] = y
  BY DEF Scans
<1>2. PICK g : Scan(s, a, g) /\ g[Len(s)] = z
  BY DEF Scans
<1>3. Len(s) \in 0..Len(s)
  OBVIOUS
<1> QED BY <1>1, <1>2, <1>3, ScanSame

LEMMA ScanThere ==
  ASSUME NEW s \in Seq(Byte), NEW a \in Acc
  PROVE  \E f : Scan(s, a, f)
<1> DEFINE Until(k, f) == /\ f \in [0..k -> Acc] /\ f[0] = a
                         /\ \A i \in 1..k : f[i] = Add(f[i - 1], s[i])
           S == {k \in Nat : k <= Len(s) => \E f : Until(k, f)}
<1>1. 0 \in S
  <2>1. Until(0, [i \in 0..0 |-> a])
    OBVIOUS
  <2> QED BY <2>1
<1>2. ASSUME NEW k \in Nat, k \in S PROVE k + 1 \in S
  <2> SUFFICES ASSUME k + 1 <= Len(s) PROVE \E f : Until(k + 1, f)
    OBVIOUS
  <2>1. PICK f : Until(k, f)
    BY <1>2
  <2>2. s[k + 1] \in Byte /\ f[k] \in Acc
    BY <2>1
  <2>3. PICK e \in Acc : e = Add(f[k], s[k + 1])
    BY <2>2, AddedType
  <2> DEFINE g == [i \in 0..(k + 1) |-> IF i = k + 1 THEN e ELSE f[i]]
  <2>4. g \in [0..(k + 1) -> Acc] /\ g[0] = a
    BY <2>1
  <2>5. ASSUME NEW i \in 1..(k + 1) PROVE g[i] = Add(g[i - 1], s[i])
    <3>1. CASE i = k + 1
      <4>1. g[i] = e /\ g[i - 1] = f[k]
        BY <3>1
      <4> HIDE DEF g
      <4> QED BY <2>3, <3>1, <4>1
    <3>2. CASE i # k + 1
      <4>1. i \in 1..k /\ g[i] = f[i] /\ g[i - 1] = f[i - 1]
        BY <3>2
      <4> HIDE DEF g
      <4> QED BY <2>1, <4>1
    <3> QED BY <3>1, <3>2
  <2> HIDE DEF g
  <2> QED BY <2>4, <2>5
<1> HIDE DEF S
<1>3. \A k \in Nat : k \in S
  BY <1>1, <1>2, Induct
<1>4. \E f : Until(Len(s), f)
  BY <1>3 DEF S
<1> QED BY <1>4 DEF Scan

LEMMA ScansThere ==
  ASSUME NEW s \in Seq(Byte), NEW a \in Acc
  PROVE  \E z \in Acc : Scans(s, a, z)
<1>1. PICK f : Scan(s, a, f)
  BY ScanThere
<1>2. f[Len(s)] \in Acc
  BY <1>1 DEF Scan
<1> QED BY <1>1, <1>2 DEF Scans

\* Lines(s) is what a scan of s comes to.
LEMMA LinesScan ==
  ASSUME NEW s \in Seq(Byte), NEW z, Scans(s, Opened(<< >>), z)
  PROVE  Lines(s) = z.lines
<1>1. PICK f : Scan(s, Opened(<< >>), f) /\ f[Len(s)] = z
  BY DEF Scans
<1> DEFINE Eq(h) == h = [k \in 0..Len(s) |-> IF k = 0 THEN [lines |-> << >>, open |-> << >>]
                                             ELSE Add(h[k - 1], s[k])]
           acc == CHOOSE h : Eq(h)
<1>2. Eq(f)
  <2>1. \A k \in 0..Len(s) : f[k] = IF k = 0 THEN [lines |-> << >>, open |-> << >>]
                                    ELSE Add(f[k - 1], s[k])
    BY <1>1 DEF Scan, Opened
  <2> QED BY <1>1, <2>1 DEF Scan
<1>3. Eq(acc)
  BY <1>2
<1>4. Lines(s) = acc[Len(s)].lines
  BY DEF Lines
<1> HIDE DEF acc
<1>5. /\ acc[0] = [lines |-> << >>, open |-> << >>]
      /\ \A k \in 1..Len(s) : acc[k] = Add(acc[k - 1], s[k])
  BY <1>3
<1> DEFINE S == {i \in Nat : i <= Len(s) => f[i] = acc[i]}
<1>6. 0 \in S
  BY <1>1, <1>5 DEF Scan, Opened
<1>7. ASSUME NEW k \in Nat, k \in S PROVE k + 1 \in S
  <2>1. CASE k + 1 <= Len(s)
    <3>1. k + 1 \in 1..Len(s) /\ (k + 1) - 1 = k /\ f[k] = acc[k]
      BY <1>7, <2>1
    <3>2. f[k + 1] = Add(f[k], s[k + 1])
      BY <1>1, <3>1 DEF Scan
    <3>3. acc[k + 1] = Add(acc[k], s[k + 1])
      BY <1>5, <3>1
    <3> QED BY <3>1, <3>2, <3>3
  <2>2. CASE ~(k + 1 <= Len(s))
    BY <2>2
  <2> QED BY <2>1, <2>2
<1> HIDE DEF S
<1>8. \A k \in Nat : k \in S
  BY <1>6, <1>7, Induct
<1>9. f[Len(s)] = acc[Len(s)]
  BY <1>8 DEF S
<1> QED BY <1>1, <1>4, <1>9

LEMMA ScansCat ==
  ASSUME NEW s \in Seq(Byte), NEW t \in Seq(Byte), NEW a, NEW y, NEW z,
         Scans(s, a, y), Scans(t, y, z)
  PROVE  Scans(s \o t, a, z)
<1>1. PICK f : Scan(s, a, f) /\ f[Len(s)] = y
  BY DEF Scans
<1>2. PICK g : Scan(t, y, g) /\ g[Len(t)] = z
  BY DEF Scans
<1>3. PICK x, n1, n2 : x = s \o t /\ n1 = Len(s) /\ n2 = Len(t)
  OBVIOUS
<1>4. /\ x \in Seq(Byte) /\ n1 \in Nat /\ n2 \in Nat /\ Len(x) = n1 + n2
      /\ \A i \in 1..n1 : x[i] = s[i]
      /\ \A i \in (n1 + 1)..(n1 + n2) : x[i] = t[i - n1]
  BY <1>3, ConcatProperties
<1>5. /\ f \in [0..n1 -> Acc] /\ f[0] = a /\ f[n1] = y
      /\ \A i \in 1..n1 : f[i] = Add(f[i - 1], s[i])
  BY <1>1, <1>3 DEF Scan
<1>6. /\ g \in [0..n2 -> Acc] /\ g[0] = y /\ g[n2] = z
      /\ \A i \in 1..n2 : g[i] = Add(g[i - 1], t[i])
  BY <1>2, <1>3 DEF Scan
<1> DEFINE h == [i \in 0..(n1 + n2) |-> IF i <= n1 THEN f[i] ELSE g[i - n1]]
<1>7. h \in [0..(n1 + n2) -> Acc]
  <2>1. \A i \in 0..(n1 + n2) : i <= n1 => i \in 0..n1
    BY <1>4
  <2>2. \A i \in 0..(n1 + n2) : ~(i <= n1) => i - n1 \in 0..n2
    BY <1>4
  <2> QED BY <1>5, <1>6, <2>1, <2>2
<1>8. h[0] = a /\ h[n1 + n2] = z
  <2>1. CASE n2 = 0
    BY <1>4, <1>5, <1>6, <2>1
  <2>2. CASE n2 # 0
    <3>1. ~(n1 + n2 <= n1) /\ (n1 + n2) - n1 = n2
      BY <1>4, <2>2
    <3> QED BY <1>4, <1>5, <1>6, <3>1
  <2> QED BY <2>1, <2>2
<1>9. ASSUME NEW i \in 1..(n1 + n2) PROVE h[i] = Add(h[i - 1], x[i])
  <2>1. CASE i <= n1
    <3>1. i \in 1..n1 /\ h[i] = f[i] /\ h[i - 1] = f[i - 1]
      BY <1>4, <2>1
    <3> HIDE DEF h
    <3> QED BY <1>4, <1>5, <3>1
  <2>2. CASE i = n1 + 1
    <3>1. h[i] = g[1] /\ h[i - 1] = g[0] /\ x[i] = t[1] /\ 1 \in 1..n2 /\ 1 - 1 = 0
      BY <1>4, <1>5, <1>6, <2>2
    <3> HIDE DEF h
    <3> QED BY <1>6, <3>1
  <2>3. CASE i > n1 + 1
    <3>1. PICK k \in 1..n2 : k = i - n1
      BY <1>4, <2>3
    <3>2. h[i] = g[k] /\ h[i - 1] = g[k - 1] /\ x[i] = t[k]
      BY <1>4, <2>3, <3>1, SMTT(30)
    <3> HIDE DEF h
    <3> QED BY <1>6, <3>1, <3>2
  <2>4. i <= n1 \/ i = n1 + 1 \/ i > n1 + 1
    BY <1>4
  <2> QED BY <2>1, <2>2, <2>3, <2>4
<1> HIDE DEF h
<1>10. Scan(x, a, h) /\ h[Len(x)] = z
  BY <1>4, <1>7, <1>8, <1>9 DEF Scan
<1> QED BY <1>3, <1>10 DEF Scans

LEMMA ScansTyped ==
  ASSUME NEW s \in Seq(Byte), NEW a, NEW z, Scans(s, a, z)
  PROVE  a \in Acc /\ z \in Acc
<1>1. PICK f : Scan(s, a, f) /\ f[Len(s)] = z
  BY DEF Scans
<1>2. 0 \in 0..Len(s) /\ Len(s) \in 0..Len(s)
  OBVIOUS
<1> QED BY <1>1, <1>2 DEF Scan

\* What is scanned first can be taken off.
LEMMA ScansAfter ==
  ASSUME NEW s \in Seq(Byte), NEW t \in Seq(Byte), NEW a, NEW y, NEW z,
         Scans(s, a, y), Scans(s \o t, a, z)
  PROVE  Scans(t, y, z)
<1>1. y \in Acc
  BY ScansTyped
<1>2. PICK w \in Acc : Scans(t, y, w)
  BY <1>1, ScansThere
<1>3. Scans(s \o t, a, w) /\ s \o t \in Seq(Byte)
  BY <1>2, ScansCat
<1>4. w = z
  BY <1>3, ScansSame
<1> QED BY <1>2, <1>4

LEMMA ScansEmpties ==
  ASSUME NEW s \in Seq(Byte), NEW a \in Acc, a.open = << >>,
         \A i \in 1..Len(s) : s[i] \in Empty
  PROVE  Scans(s, a, a)
<1> DEFINE f == [i \in 0..Len(s) |-> a]
<1>1. \A i \in 1..Len(s) : Add(a, s[i]) = a
  BY AddIs DEF Empty
<1>2. Scan(s, a, f) /\ f[Len(s)] = a
  BY <1>1 DEF Scan
<1> QED BY <1>2 DEF Scans

\* A word, and no end of a line
LEMMA ScansWord ==
  ASSUME NEW s \in Seq(Byte), NEW p \in Seq(Seq(Byte)),
         \A i \in 1..Len(s) : s[i] # "eol", Len(s) > 0 => s[1] \notin Empty
  PROVE  Scans(s, Opened(p), [lines |-> p, open |-> s])
<1> DEFINE f == [i \in 0..Len(s) |-> [lines |-> p, open |-> SubSeq(s, 1, i)]]
<1>1. \A i \in 0..Len(s) : SubSeq(s, 1, i) \in Seq(Byte) /\ Len(SubSeq(s, 1, i)) = i
  <2> SUFFICES ASSUME NEW i \in 0..Len(s)
               PROVE  SubSeq(s, 1, i) \in Seq(Byte) /\ Len(SubSeq(s, 1, i)) = i
    OBVIOUS
  <2>1. \A j \in 1..i : s[j] \in Byte
    OBVIOUS
  <2>2. SubSeq(s, 1, i) \in Seq(Byte) /\ Len(SubSeq(s, 1, i)) = IF 1 <= i THEN i - 1 + 1 ELSE 0
    BY <2>1, SubSeqProperties
  <2> QED BY <2>2
<1>2. \A i \in 0..Len(s) : f[i] \in Acc
  BY <1>1 DEF Acc
<1>3. SubSeq(s, 1, 0) = << >>
  BY SubSeqEmpty
<1>4. ASSUME NEW i \in 1..Len(s) PROVE f[i] = Add(f[i - 1], s[i])
  <2>0. i - 1 \in 0..Len(s) /\ i \in 0..Len(s)
    OBVIOUS
  <2>1. PICK w \in Seq(Byte) : w = SubSeq(s, 1, i - 1) /\ Len(w) = i - 1
    BY <1>1, <2>0
  <2>2. SubSeq(s, 1, i) = w \o <<s[i]>>
    BY <2>1, SubSeqRecursiveSecond
  <2>3. SubSeq(s, 1, i) = Append(w, s[i])
    <3>1. s[i] \in Byte
      OBVIOUS
    <3> QED BY <2>2, <3>1, AppendIsConcat
  <2>4. f[i] = [lines |-> p, open |-> Append(w, s[i])]
    BY <2>0, <2>3
  <2>5. f[i - 1] = [lines |-> p, open |-> w] /\ f[i - 1] \in Acc
    BY <1>2, <2>0, <2>1
  <2>6. s[i] # "eol" /\ ~(s[i] = " " /\ w = << >>)
    <3>1. CASE i = 1
      <4>1. Len(s) > 0 /\ s[1] \notin Empty
        BY <3>1
      <4> HIDE DEF f
      <4> QED BY <3>1, <4>1 DEF Empty
    <3>2. CASE i # 1
      <4>1. Len(w) # 0
        BY <2>1, <3>2
      <4>2. w # << >>
        BY <4>1
      <4>3. s[i] # "eol"
        OBVIOUS
      <4> QED BY <4>2, <4>3
    <3> QED BY <3>1, <3>2
  <2> HIDE DEF f
  <2> QED BY <2>4, <2>5, <2>6, AddIs
<1>5. f[0] = Opened(p) /\ f[Len(s)] = [lines |-> p, open |-> s]
  <2>1. SubSeq(s, 1, Len(s)) = s
    BY SubSeqFull
  <2>2. 0 \in 0..Len(s) /\ Len(s) \in 0..Len(s)
    OBVIOUS
  <2> QED BY <1>3, <2>1, <2>2 DEF Opened
<1>6. f \in [0..Len(s) -> Acc]
  BY <1>2
<1> HIDE DEF f
<1> QED BY <1>4, <1>5, <1>6 DEF Scan, Scans

\* The end of a line and the empty bytes behind it
LEMMA ScansEnd ==
  ASSUME NEW s \in Seq(Byte), NEW a \in Acc, a.open # << >>, Len(s) > 0, s[1] = "eol",
         \A i \in 1..Len(s) : s[i] \in Empty,
         NEW w \in Seq(Byte), w = SubSeq(a.open, 1, Least(MaxLine, Len(a.open)))
  PROVE  Scans(s, a, Opened(Append(a.lines, w)))
<1>1. PICK y : y = Opened(Append(a.lines, w))
  OBVIOUS
<1>2. y \in Acc /\ y.open = << >> /\ y = [lines |-> Append(a.lines, w), open |-> << >>]
  BY <1>1 DEF Acc, Opened
<1> DEFINE f == [i \in 0..Len(s) |-> IF i = 0 THEN a ELSE y]
<1>3. Add(a, s[1]) = y
  BY <1>2, AddIs
<1>4. \A i \in 1..Len(s) : Add(y, s[i]) = y
  BY <1>2, AddIs DEF Empty
<1>5. f \in [0..Len(s) -> Acc] /\ f[0] = a /\ f[Len(s)] = y
  BY <1>2
<1>6. \A i \in 1..Len(s) : f[i] = Add(f[i - 1], s[i])
  BY <1>3, <1>4
<1> HIDE DEF f
<1> QED BY <1>1, <1>5, <1>6 DEF Scan, Scans

\* Lines that have ended stay as they are.
LEMMA ScansGrow ==
  ASSUME NEW s \in Seq(Byte), NEW a, NEW z, Scans(s, a, z)
  PROVE  a.lines = SubSeq(z.lines, 1, Len(a.lines))
<1>1. PICK f : Scan(s, a, f) /\ f[Len(s)] = z
  BY DEF Scans
<1>2. a \in Acc /\ z \in Acc /\ a.lines \in Seq(Seq(Byte))
  BY ScansTyped DEF Acc
<1>3. PICK p : p = a.lines
  OBVIOUS
<1> DEFINE In(x) == Len(p) <= Len(x.lines) /\ \A i \in 1..Len(p) : x.lines[i] = p[i]
           S == {i \in Nat : i <= Len(s) => In(f[i])}
<1>4. 0 \in S
  BY <1>1, <1>2, <1>3 DEF Scan
<1>5. ASSUME NEW k \in Nat, k \in S PROVE k + 1 \in S
  <2> SUFFICES ASSUME k + 1 <= Len(s) PROVE In(f[k + 1])
    OBVIOUS
  <2>1. k \in 0..Len(s) /\ k + 1 \in 1..Len(s) /\ (k + 1) - 1 = k
    OBVIOUS
  <2>2. PICK x \in Acc : x = f[k] /\ In(x) /\ f[k + 1] = Add(x, s[k + 1])
    BY <1>1, <1>5, <2>1 DEF Scan
  <2>3. \/ f[k + 1].lines = x.lines
        \/ f[k + 1].lines = Append(x.lines, SubSeq(x.open, 1, Least(MaxLine, Len(x.open))))
    <3>1. PICK b : b = s[k + 1]
      OBVIOUS
    <3>2. PICK v : v = Append(x.lines, SubSeq(x.open, 1, Least(MaxLine, Len(x.open))))
      OBVIOUS
    <3>3. Add(x, b) \in {x, [lines |-> v, open |-> << >>],
                         [lines |-> x.lines, open |-> Append(x.open, b)]}
      BY <3>2, AddIs
    <3>4. Add(x, b).lines = x.lines \/ Add(x, b).lines = v
      BY <3>3
    <3> QED BY <2>2, <3>1, <3>2, <3>4
  <2>4. x.lines \in Seq(Seq(Byte)) /\ Len(p) \in Nat
    BY <1>2, <1>3 DEF Acc
  <2>5. ASSUME NEW w PROVE /\ Len(Append(x.lines, w)) = Len(x.lines) + 1
                           /\ \A i \in 1..Len(x.lines) : Append(x.lines, w)[i] = x.lines[i]
    BY <2>4
  <2>6. CASE f[k + 1].lines = x.lines
    BY <2>2, <2>6
  <2>7. CASE f[k + 1].lines # x.lines
    <3>1. PICK w : f[k + 1].lines = Append(x.lines, w)
      BY <2>3, <2>7
    <3>2. Len(x.lines) \in Nat
      BY <2>4
    <3> QED BY <2>2, <2>4, <2>5, <3>1, <3>2
  <2> QED BY <2>6, <2>7
<1> HIDE DEF S
<1>6. \A k \in Nat : k \in S
  BY <1>4, <1>5, Induct
<1>7. In(z)
  BY <1>1, <1>6 DEF S
<1>8. z.lines \in Seq(Seq(Byte)) /\ p \in Seq(Seq(Byte))
  BY <1>2, <1>3 DEF Acc
<1>9. PICK v : v = SubSeq(z.lines, 1, Len(p))
  OBVIOUS
<1>10. v \in Seq(Seq(Byte)) /\ Len(v) = Len(p) /\ \A i \in 1..Len(p) : v[i] = p[i]
  <2>1. \A i \in 1..Len(p) : z.lines[i] \in Seq(Byte)
    BY <1>7, <1>8
  <2>2. /\ v \in Seq(Seq(Byte)) /\ Len(v) = IF 1 <= Len(p) THEN Len(p) - 1 + 1 ELSE 0
        /\ \A i \in 1..(Len(p) - 1 + 1) : v[i] = z.lines[1 + i - 1]
    BY <1>8, <1>9, <2>1, SubSeqProperties
  <2> QED BY <1>7, <1>8, <2>2
<1>11. v = p
  BY <1>8, <1>10, SeqEqual
<1> QED BY <1>3, <1>9, <1>11

-----------------------------------------------------------------------------
(* The first line *)

LEMMA LeastIn ==
  ASSUME NEW I, I \subseteq Nat, I # {}
  PROVE  (CHOOSE i \in I : \A j \in I : i <= j) \in I
         /\ \A j \in I : (CHOOSE i \in I : \A k \in I : i <= k) <= j
<1>1. \E i \in I : \A j \in I : i <= j
  BY LeastOf
<1> QED BY <1>1

LEMMA StartIs ==
  ASSUME NEW s \in Seq(Byte)
  PROVE  /\ Start(s) \in 1..(Len(s) + 1)
         /\ \A i \in 1..Len(s) : i < Start(s) => s[i] \in Empty
         /\ Start(s) <= Len(s) => s[Start(s)] \notin Empty
<1> DEFINE I == {i \in DOMAIN s : s[i] \notin Empty}
<1>1. DOMAIN s = 1..Len(s) /\ Len(s) \in Nat /\ I \subseteq Nat
  OBVIOUS
<1>2. Start(s) = IF I = {} THEN Len(s) + 1 ELSE CHOOSE i \in I : \A j \in I : i <= j
  BY DEF Start
<1>3. CASE I = {}
  BY <1>1, <1>2, <1>3
<1>4. CASE I # {}
  <2>1. Start(s) \in I /\ \A j \in I : Start(s) <= j
    <3> HIDE DEF I
    <3> QED BY <1>1, <1>2, <1>4, LeastIn
  <2>2. Start(s) \in 1..Len(s) /\ s[Start(s)] \notin Empty
    BY <1>1, <2>1
  <2>3. ASSUME NEW i \in 1..Len(s), i < Start(s) PROVE s[i] \in Empty
    BY <1>1, <2>1, <2>2, <2>3
  <2> QED BY <1>1, <2>2, <2>3
<1> QED BY <1>3, <1>4

LEMMA EndIs ==
  ASSUME NEW s \in Seq(Byte)
  PROVE  /\ End(s) \in 1..(Len(s) + 1)
         /\ End(s) <= Len(s) => Start(s) < End(s) /\ s[End(s)] = "eol"
         /\ \A i \in 1..Len(s) : Start(s) < i /\ i < End(s) => s[i] # "eol"
<1> DEFINE I == {i \in DOMAIN s : i > Start(s) /\ s[i] = "eol"}
<1>1. DOMAIN s = 1..Len(s) /\ Len(s) \in Nat /\ I \subseteq Nat
  OBVIOUS
<1>2. End(s) = IF I = {} THEN Len(s) + 1 ELSE CHOOSE i \in I : \A j \in I : i <= j
  BY DEF End
<1>3. Start(s) \in Nat
  BY StartIs
<1>4. CASE I = {}
  BY <1>1, <1>2, <1>3, <1>4
<1>5. CASE I # {}
  <2>1. End(s) \in I /\ \A j \in I : End(s) <= j
    <3> HIDE DEF I
    <3> QED BY <1>1, <1>2, <1>5, LeastIn
  <2>2. End(s) \in 1..Len(s) /\ Start(s) < End(s) /\ s[End(s)] = "eol"
    BY <1>1, <1>3, <2>1
  <2>3. ASSUME NEW i \in 1..Len(s), Start(s) < i, i < End(s) PROVE s[i] # "eol"
    BY <1>1, <1>3, <2>1, <2>2, <2>3
  <2> QED BY <1>1, <2>2, <2>3
<1> QED BY <1>4, <1>5

\* The bytes from i to j of s
LEMMA PartOf ==
  ASSUME NEW S, NEW s \in Seq(S), NEW i \in 1..(Len(s) + 1), NEW j \in (i - 1)..Len(s)
  PROVE  /\ SubSeq(s, i, j) \in Seq(S) /\ Len(SubSeq(s, i, j)) = j - i + 1
         /\ \A k \in 1..(j - i + 1) : SubSeq(s, i, j)[k] = s[i + k - 1]
<1>1. \A k \in i..j : s[k] \in S
  OBVIOUS
<1>2. i \in Int /\ j \in Int
  OBVIOUS
<1>3. Len(SubSeq(s, i, j)) = IF i <= j THEN j - i + 1 ELSE 0
  BY <1>1, <1>2, SubSeqProperties
<1>4. Len(SubSeq(s, i, j)) = j - i + 1
  BY <1>3
<1> QED BY <1>1, <1>2, <1>4, SubSeqProperties

\* The empty bytes before the first line are no part of it.
LEMMA ScansStart ==
  ASSUME NEW s \in Seq(Byte), NEW p \in Seq(Seq(Byte)), NEW z, Scans(s, Opened(p), z),
         NEW r, r = SubSeq(s, Start(s), Len(s))
  PROVE  /\ r \in Seq(Byte) /\ Scans(r, Opened(p), z)
         /\ Len(r) = Len(s) - Start(s) + 1 /\ (Len(r) > 0 => r[1] \notin Empty)
         /\ \A k \in 1..Len(r) : r[k] = s[Start(s) + k - 1]
<1>1. PICK b \in 1..(Len(s) + 1) : b = Start(s)
  BY StartIs
<1>2. PICK e : e = SubSeq(s, 1, b - 1)
  OBVIOUS
<1>3. e \in Seq(Byte) /\ Len(e) = b - 1 /\ \A k \in 1..Len(e) : e[k] = s[k]
  <2>1. 1 \in 1..(Len(s) + 1) /\ b - 1 \in (1 - 1)..Len(s)
    OBVIOUS
  <2> QED BY <1>2, <2>1, PartOf
<1>4. r \in Seq(Byte) /\ Len(r) = Len(s) - b + 1 /\ \A k \in 1..Len(r) : r[k] = s[b + k - 1]
  <2>1. Len(s) \in (b - 1)..Len(s)
    OBVIOUS
  <2> QED BY <1>1, <2>1, PartOf
<1>5. s = e \o r
  <2>1. 1 \in 1..(Len(s) + 1) /\ b - 1 \in (1 - 1)..Len(s) /\ Len(s) \in (b - 1)..Len(s)
        /\ (b - 1) + 1 = b
    OBVIOUS
  <2>2. SubSeq(s, 1, b - 1) \o SubSeq(s, (b - 1) + 1, Len(s)) = SubSeq(s, 1, Len(s))
    BY <2>1, ConcatAdjacentSubSeq
  <2> QED BY <1>1, <1>2, <2>1, <2>2, SubSeqFull
<1>6. Opened(p) \in Acc /\ Opened(p).open = << >>
  BY DEF Opened, Acc
<1>7. \A i \in 1..Len(e) : e[i] \in Empty
  <2> SUFFICES ASSUME NEW i \in 1..Len(e) PROVE e[i] \in Empty
    OBVIOUS
  <2>1. i \in 1..Len(s) /\ i < Start(s) /\ e[i] = s[i]
    BY <1>1, <1>3
  <2> QED BY <2>1, StartIs
<1>8. Scans(e, Opened(p), Opened(p))
  BY <1>3, <1>6, <1>7, ScansEmpties
<1>9. Scans(r, Opened(p), z)
  BY <1>3, <1>4, <1>5, <1>8, ScansAfter
<1>10. Len(r) > 0 => r[1] \notin Empty
  <2> SUFFICES ASSUME Len(r) > 0 PROVE r[1] \notin Empty
    OBVIOUS
  <2>1. 1 \in 1..Len(r) /\ b <= Len(s) /\ b + 1 - 1 = b
    BY <1>4
  <2> QED BY <1>1, <1>4, <2>1, StartIs
<1> QED BY <1>1, <1>4, <1>9, <1>10

LEMMA ExtractNone ==
  ASSUME NEW s \in Seq(Byte), NEW p \in Seq(Seq(Byte)), NEW z, Scans(s, Opened(p), z),
         End(s) > Len(s)
  PROVE  Extract(s).rest \in Seq(Byte) /\ Scans(Extract(s).rest, Opened(p), z)
<1>1. Extract(s).rest = SubSeq(s, Start(s), Len(s))
  BY DEF Extract
<1> QED BY <1>1, ScansStart

\* The line that is taken is the next of the scan, and the scan goes on behind it.
LEMMA ExtractLine ==
  ASSUME NEW s \in Seq(Byte), NEW p \in Seq(Seq(Byte)), NEW z, Scans(s, Opened(p), z),
         End(s) <= Len(s)
  PROVE  /\ Extract(s).rest \in Seq(Byte) /\ Extract(s).line \in Seq(Byte)
         /\ Extract(s).line # << >>
         /\ Scans(Extract(s).rest, Opened(Append(p, Extract(s).line)), z)
<1>1. PICK b \in 1..Len(s), e \in 2..Len(s) : b = Start(s) /\ e = End(s) /\ b < e
  <2>1. Start(s) \in 1..(Len(s) + 1) /\ End(s) \in 1..(Len(s) + 1) /\ Start(s) < End(s)
    BY StartIs, EndIs
  <2>2. Start(s) \in 1..Len(s) /\ End(s) \in 2..Len(s)
    BY <2>1
  <2> QED BY <2>1, <2>2
<1>2. PICK r, w, t : /\ r = SubSeq(s, b, Len(s)) /\ w = SubSeq(s, b, e - 1)
                     /\ t = SubSeq(s, e, Len(s))
  OBVIOUS
<1>3. r \in Seq(Byte) /\ Scans(r, Opened(p), z)
  BY <1>1, <1>2, ScansStart
<1>23. s[b] \notin Empty /\ s[e] = "eol" /\ \A k \in 1..Len(s) : b < k /\ k < e => s[k] # "eol"
  BY <1>1, StartIs, EndIs
<1>24. Len(s) \in Nat
  OBVIOUS
<1>4. w \in Seq(Byte) /\ Len(w) = e - b /\ \A k \in 1..Len(w) : w[k] = s[b + k - 1]
  <2>1. b \in 1..(Len(s) + 1) /\ e - 1 \in (b - 1)..Len(s) /\ (e - 1) - b + 1 = e - b
    BY <1>1
  <2> QED BY <1>2, <2>1, PartOf
<1>5. t \in Seq(Byte) /\ Len(t) = Len(s) - e + 1 /\ \A k \in 1..Len(t) : t[k] = s[e + k - 1]
  <2>1. e \in 1..(Len(s) + 1) /\ Len(s) \in (e - 1)..Len(s)
    BY <1>1
  <2> QED BY <1>2, <2>1, PartOf
<1>6. r = w \o t
  <2>1. b \in 1..(Len(s) + 1) /\ e - 1 \in (b - 1)..Len(s) /\ Len(s) \in (e - 1)..Len(s)
        /\ (e - 1) + 1 = e
    BY <1>1
  <2>2. SubSeq(s, b, e - 1) \o SubSeq(s, (e - 1) + 1, Len(s)) = SubSeq(s, b, Len(s))
    BY <2>1, ConcatAdjacentSubSeq
  <2> QED BY <1>2, <2>1, <2>2
<1>7. Scans(w, Opened(p), [lines |-> p, open |-> w])
  <2>1. s[b] \notin Empty
    BY <1>1, StartIs
  <2>2. \A i \in 1..Len(w) : w[i] # "eol"
    <3> SUFFICES ASSUME NEW i \in 1..Len(w) PROVE w[i] # "eol"
      OBVIOUS
    <3>1. w[i] = s[b + i - 1] /\ i \in 1..(e - b)
      BY <1>4
    <3>2. CASE i = 1
      <4>1. b + i - 1 = b
        BY <3>2
      <4> QED BY <1>23, <3>1, <4>1 DEF Empty
    <3>3. CASE i # 1
      <4>1. PICK k : k = b + i - 1
        OBVIOUS
      <4>2. k \in 1..Len(s) /\ b < k /\ k < e
        BY <1>24, <3>1, <3>3, <4>1
      <4> QED BY <1>23, <3>1, <4>1, <4>2
    <3> QED BY <3>2, <3>3
  <2>3. w[1] \notin Empty
    <3>1. 1 \in 1..Len(w) /\ b + 1 - 1 = b
      BY <1>1, <1>4
    <3> QED BY <1>4, <2>1, <3>1
  <2> QED BY <1>4, <2>2, <2>3, ScansWord
<1>8. PICK a : a = [lines |-> p, open |-> w]
  OBVIOUS
<1>9. a \in Acc /\ a.open = w /\ a.lines = p /\ w # << >>
  BY <1>1, <1>4, <1>8 DEF Acc
<1>10. Scans(t, a, z)
  BY <1>3, <1>4, <1>5, <1>6, <1>7, <1>8, ScansAfter
<1>11. PICK c \in 2..(Len(t) + 1) : c = Start(t)
  <2>1. 1 \in 1..Len(t) /\ t[1] = "eol"
    <3>1. 1 \in 1..Len(t) /\ e + 1 - 1 = e
      BY <1>5, <1>24
    <3> QED BY <1>5, <1>23, <3>1
  <2>2. Start(t) \in 1..(Len(t) + 1) /\ (Start(t) <= Len(t) => t[Start(t)] \notin Empty)
    BY <1>5, StartIs
  <2>3. Start(t) # 1
    <3>1. "eol" \in Empty
      BY DEF Empty
    <3>2. 1 <= Len(t)
      BY <2>1
    <3> QED BY <2>1, <2>2, <3>1, <3>2
  <2>4. Len(t) \in Nat
    BY <1>5
  <2> QED BY <2>2, <2>3, <2>4
<1>12. PICK v, q : v = SubSeq(t, 1, c - 1) /\ q = SubSeq(t, c, Len(t))
  OBVIOUS
<1>13. v \in Seq(Byte) /\ Len(v) = c - 1 /\ \A k \in 1..Len(v) : v[k] = t[k]
  <2>1. 1 \in 1..(Len(t) + 1) /\ c - 1 \in (1 - 1)..Len(t)
    BY <1>5, <1>11
  <2> QED BY <1>5, <1>12, <2>1, PartOf
<1>14. q \in Seq(Byte) /\ t = v \o q
  <2>1. 1 \in 1..(Len(t) + 1) /\ c - 1 \in (1 - 1)..Len(t) /\ Len(t) \in (c - 1)..Len(t)
        /\ (c - 1) + 1 = c /\ c \in 1..(Len(t) + 1)
    BY <1>5, <1>11
  <2>2. SubSeq(t, 1, c - 1) \o SubSeq(t, (c - 1) + 1, Len(t)) = SubSeq(t, 1, Len(t))
    BY <1>5, <2>1, ConcatAdjacentSubSeq
  <2>3. q \in Seq(Byte)
    BY <1>5, <1>12, <2>1, PartOf
  <2> QED BY <1>5, <1>12, <2>1, <2>2, <2>3, SubSeqFull
<1>15. PICK n1 \in 1..Len(w) : n1 = Least(MaxLine, Len(w))
  <2>1. Len(w) \in Nat /\ 1 <= Len(w)
    BY <1>1, <1>4
  <2>2. MaxLine \in Nat /\ 1 <= MaxLine
    BY FloodLimits
  <2> QED BY <2>1, <2>2 DEF Least
<1>16. PICK l : l = SubSeq(w, 1, n1)
  OBVIOUS
<1>17. l \in Seq(Byte) /\ Len(l) = n1
  <2>1. 1 \in 1..(Len(w) + 1) /\ n1 \in (1 - 1)..Len(w) /\ n1 - 1 + 1 = n1
    BY <1>4
  <2> QED BY <1>4, <1>16, <2>1, PartOf
<1>18. Scans(v, a, Opened(Append(p, l)))
  <2>1. \A i \in 1..Len(v) : v[i] \in Empty
    <3> SUFFICES ASSUME NEW i \in 1..Len(v) PROVE v[i] \in Empty
      OBVIOUS
    <3>1. i \in 1..(c - 1) /\ v[i] = t[i] /\ Len(t) \in Nat
      BY <1>5, <1>13
    <3>2. i \in 1..Len(t) /\ i < Start(t)
      BY <1>11, <3>1, SMTT(30)
    <3> QED BY <1>5, <3>1, <3>2, StartIs
  <2>2. v[1] = "eol" /\ Len(v) > 0
    <3>1. 1 \in 1..Len(v) /\ 1 \in 1..Len(t) /\ e + 1 - 1 = e
      BY <1>5, <1>11, <1>13, <1>24
    <3>2. v[1] = t[1] /\ t[1] = s[e]
      BY <1>5, <1>13, <3>1
    <3> QED BY <1>23, <3>1, <3>2
  <2>3. l = SubSeq(a.open, 1, Least(MaxLine, Len(a.open)))
    BY <1>9, <1>15, <1>16
  <2>4. Scans(v, a, Opened(Append(a.lines, l)))
    BY <1>9, <1>13, <1>17, <2>1, <2>2, <2>3, ScansEnd
  <2> QED BY <1>9, <2>4
<1>19. Scans(q, Opened(Append(p, l)), z)
  BY <1>10, <1>13, <1>14, <1>18, ScansAfter
<1>20. l = SubSeq(s, b, Least(e - 1, b + MaxLine - 1))
  <2>1. Least(e - 1, b + MaxLine - 1) = b + n1 - 1
    <3>1. MaxLine \in Nat
      BY FloodLimits
    <3>2. n1 = IF MaxLine < e - b THEN MaxLine ELSE e - b
      BY <1>4, <1>15 DEF Least
    <3>3. CASE MaxLine < e - b
      <4>1. ~(e - 1 < b + MaxLine - 1)
        BY <3>1, <3>3
      <4> QED BY <3>1, <3>2, <3>3, <4>1 DEF Least
    <3>4. CASE ~(MaxLine < e - b)
      <4>1. e - 1 <= b + MaxLine - 1
        BY <3>1, <3>4
      <4>2. CASE e - 1 < b + MaxLine - 1
        BY <3>2, <3>4, <4>2 DEF Least
      <4>3. CASE e - 1 = b + MaxLine - 1
        BY <3>1, <3>2, <3>4, <4>3 DEF Least
      <4> QED BY <3>1, <4>1, <4>2, <4>3
    <3> QED BY <3>3, <3>4
  <2>2. PICK j \in Nat : j = e - 1
    BY <1>1
  <2>3. b \in 1..Len(s) /\ j \in 1..Len(s) /\ 1 \in 1..(j - b + 1) /\ n1 \in 1..(j - b + 1)
        /\ b + 1 - 1 = b
    <3>1. j - b + 1 = Len(w) /\ j \in 1..Len(s)
      BY <1>1, <1>4, <2>2, SMTT(30)
    <3>2. 1 \in 1..Len(w) /\ n1 \in 1..Len(w)
      BY <1>4
    <3>3. b + 1 - 1 = b
      BY <1>1
    <3> QED BY <3>1, <3>2, <3>3
  <2>4. SubSeq(SubSeq(s, b, j), 1, n1) = SubSeq(s, b + 1 - 1, b + n1 - 1)
    BY <2>3, SubSeqOfSubSeq
  <2> QED BY <1>2, <1>16, <2>1, <2>2, <2>3, <2>4
<1>21. Extract(s).line = l /\ Extract(s).rest = q
  <2>1. Extract(s) = [line |-> l, rest |-> Rest(s)]
    BY <1>1, <1>20 DEF Extract
  <2>2. Rest(s) = q
    BY <1>1, <1>2, <1>11, <1>12 DEF Rest
  <2> QED BY <2>1, <2>2
<1>22. l # << >>
  BY <1>17
<1> QED BY <1>14, <1>17, <1>19, <1>21, <1>22

-----------------------------------------------------------------------------
(* The lines parsed *)

\* What is on the recvq takes the lines parsed to where all that was read comes.
Whole ==
  /\ stream \in Seq(Byte) /\ recvq \in Seq(Byte) /\ parsed \in Seq(Seq(Byte))
  /\ MaxLine \in Nat
  /\ ~defunct => \E z : Scans(stream, Opened(<< >>), z) /\ Scans(recvq, Opened(parsed), z)
  /\ LinesWhole

LEMMA WholeLines ==
  ASSUME NEW s \in Seq(Byte), NEW r \in Seq(Byte), NEW p, NEW z,
         Scans(s, Opened(<< >>), z), Scans(r, Opened(p), z)
  PROVE  p = SubSeq(Lines(s), 1, Len(p))
<1>1. Lines(s) = z.lines
  BY LinesScan
<1>2. Opened(p).lines = p
  BY DEF Opened
<1>3. Opened(p).lines = SubSeq(z.lines, 1, Len(Opened(p).lines))
  BY ScansGrow
<1> QED BY <1>1, <1>2, <1>3

LEMMA InitWhole == RecvInit => Whole
<1> SUFFICES ASSUME RecvInit PROVE Whole
  OBVIOUS
<1>1. stream = << >> /\ recvq = << >> /\ parsed = << >> /\ << >> \in Seq(Byte)
      /\ << >> \in Seq(Seq(Byte))
  BY DEF RecvInit
<1>2. Opened(<< >>) \in Acc /\ Opened(<< >>).open = << >>
  BY <1>1 DEF Opened, Acc
<1>3. Scans(<< >>, Opened(<< >>), Opened(<< >>))
  <2>2. PICK s \in Seq(Byte) : s = << >>
    BY <1>1
  <2>3. \A i \in 1..Len(s) : s[i] \in Empty
    BY <2>2
  <2>4. Scans(s, Opened(<< >>), Opened(<< >>))
    BY <1>2, <2>3, ScansEmpties
  <2> QED BY <2>2, <2>4
<1>4. LinesWhole
  BY <1>1, <1>3, WholeLines DEF LinesWhole
<1> QED BY <1>1, <1>3, <1>4, FloodLimits DEF Whole

LEMMA ParseWhole == ASSUME Whole, ParseLine PROVE Whole'
<1>1. PICK e : e = Extract(recvq)
  OBVIOUS
<1>2. /\ ~defunct /\ e.line # << >> /\ recvq' = e.rest /\ parsed' = Append(parsed, e.line)
      /\ stream' = stream
  BY <1>1 DEF ParseLine
<1>3. PICK z : Scans(stream, Opened(<< >>), z) /\ Scans(recvq, Opened(parsed), z)
  BY <1>2 DEF Whole
<1>4. stream \in Seq(Byte) /\ recvq \in Seq(Byte) /\ parsed \in Seq(Seq(Byte))
  BY DEF Whole
<1>5. End(recvq) <= Len(recvq)
  <2>1. End(recvq) > Len(recvq) => e.line = << >>
    BY <1>1 DEF Extract
  <2>2. End(recvq) \in Nat /\ Len(recvq) \in Nat
    BY <1>4, EndIs
  <2> QED BY <1>2, <2>1, <2>2
<1>6. /\ e.rest \in Seq(Byte) /\ e.line \in Seq(Byte)
      /\ Scans(e.rest, Opened(Append(parsed, e.line)), z)
  BY <1>1, <1>3, <1>4, <1>5, ExtractLine
<1>7. recvq' \in Seq(Byte) /\ parsed' \in Seq(Seq(Byte)) /\ stream' \in Seq(Byte)
  BY <1>2, <1>4, <1>6
<1>8. Scans(stream', Opened(<< >>), z) /\ Scans(recvq', Opened(parsed'), z)
  BY <1>2, <1>3, <1>6
<1>9. LinesWhole'
  BY <1>7, <1>8, WholeLines DEF LinesWhole, Lines
<1> QED BY <1>7, <1>8, <1>9, FloodLimits DEF Whole, Scans, Scan, Opened, Acc

LEMMA ReadWhole == ASSUME Whole, Read PROVE Whole'
<1>1. PICK k \in 1..ReadSize : \E bytes \in [1..k -> Byte] :
        recvq' = recvq \o bytes /\ stream' = stream \o bytes
  BY DEF Read
<1>2. PICK bytes \in Seq(Byte) : recvq' = recvq \o bytes /\ stream' = stream \o bytes
  <2>1. k \in Nat
    BY FloodLimits
  <2>2. [1..k -> Byte] \subseteq Seq(Byte)
    BY <2>1
  <2> QED BY <1>1, <2>2
<1>3. ~defunct /\ parsed' = parsed
  BY DEF Read
<1>4. PICK z : Scans(stream, Opened(<< >>), z) /\ Scans(recvq, Opened(parsed), z)
  BY <1>3 DEF Whole
<1>5. stream \in Seq(Byte) /\ recvq \in Seq(Byte) /\ parsed \in Seq(Seq(Byte))
  BY DEF Whole
<1>6. stream' \in Seq(Byte) /\ recvq' \in Seq(Byte) /\ parsed' \in Seq(Seq(Byte))
  BY <1>2, <1>3, <1>5, ConcatProperties
<1>7. PICK y : Scans(bytes, z, y)
  BY <1>4, <1>5, ScansTyped, ScansThere
<1>8. Scans(stream', Opened(<< >>), y) /\ Scans(recvq', Opened(parsed'), y)
  BY <1>2, <1>3, <1>4, <1>5, <1>7, ScansCat
<1>9. LinesWhole'
  BY <1>6, <1>8, WholeLines DEF LinesWhole, Lines
<1> QED BY <1>6, <1>8, <1>9, FloodLimits DEF Whole, Scans, Scan, Opened, Acc

LEMMA EndWhole == ASSUME Whole, EndPass PROVE Whole'
<1>1. UNCHANGED <<stream, parsed>> /\ (~defunct' => ~defunct)
  BY DEF EndPass
<1>2. stream \in Seq(Byte) /\ recvq \in Seq(Byte) /\ parsed \in Seq(Seq(Byte)) /\ LinesWhole
  BY DEF Whole
<1>3. LinesWhole'
  BY <1>1, <1>2 DEF LinesWhole, Lines
<1>4. CASE defunct \/ Held
  <2>1. recvq' = recvq
    BY <1>4 DEF EndPass
  <2> QED BY <1>1, <1>2, <1>3, <2>1 DEF Whole, Scans, Scan, Opened, Acc
<1>5. CASE ~(defunct \/ Held)
  <2>1. recvq' = Extract(recvq).rest /\ Extract(recvq).line = << >>
    BY <1>5 DEF EndPass
  <2>2. PICK z : Scans(stream, Opened(<< >>), z) /\ Scans(recvq, Opened(parsed), z)
    BY <1>5 DEF Whole
  <2>3. End(recvq) > Len(recvq)
    <3>1. End(recvq) \in Nat /\ Len(recvq) \in Nat
      BY <1>2, EndIs
    <3>2. ~(End(recvq) <= Len(recvq))
      BY <1>2, <2>1, <2>2, ExtractLine
    <3> QED BY <3>1, <3>2
  <2>4. recvq' \in Seq(Byte) /\ Scans(recvq', Opened(parsed'), z)
    BY <1>1, <1>2, <2>1, <2>2, <2>3, ExtractNone
  <2> QED BY <1>1, <1>2, <1>3, <2>2, <2>4 DEF Whole, Scans, Scan, Opened, Acc
<1> QED BY <1>4, <1>5

LEMMA NextWhole == Whole /\ [RecvNext]_recvVars => Whole'
<1> SUFFICES ASSUME Whole, [RecvNext]_recvVars PROVE Whole'
  OBVIOUS
<1>1. ASSUME UNCHANGED <<stream, parsed>>, defunct' \/ (recvq' = recvq /\ defunct' = defunct),
             recvq' \in Seq(Byte)
      PROVE  Whole'
  <2>1. LinesWhole'
    BY <1>1 DEF Whole, LinesWhole, Lines
  <2>2. /\ stream' \in Seq(Byte) /\ recvq' \in Seq(Byte) /\ parsed' \in Seq(Seq(Byte))
        /\ MaxLine \in Nat
    BY <1>1 DEF Whole
  <2>3. ASSUME ~defunct' PROVE \E z : Scans(stream', Opened(<< >>), z) /\ Scans(recvq', Opened(parsed'), z)
    <3>1. ~defunct /\ recvq' = recvq /\ stream' = stream /\ parsed' = parsed
      BY <1>1, <2>3
    <3>2. PICK z : Scans(stream, Opened(<< >>), z) /\ Scans(recvq, Opened(parsed), z)
      BY <3>1 DEF Whole
    <3> QED BY <3>1, <3>2
  <2> QED BY <2>1, <2>2, <2>3 DEF Whole, Scans, Scan, Opened, Acc
<1>2. recvq \in Seq(Byte) /\ << >> \in Seq(Byte)
  BY DEF Whole
<1>3. CASE ParseLine
  BY <1>3, ParseWhole
<1>4. CASE Read
  BY <1>4, ReadWhole
<1>5. CASE EndPass
  BY <1>5, EndWhole
<1>6. CASE ReadWantsWrite
  BY <1>1, <1>2, <1>6 DEF ReadWantsWrite
<1>7. CASE Die
  BY <1>1, <1>2, <1>7 DEF Die
<1>8. CASE Recalc
  BY <1>1, <1>2, <1>8 DEF Recalc
<1>9. CASE UNCHANGED recvVars
  BY <1>1, <1>2, <1>9 DEF recvVars
<1> QED BY <1>3, <1>4, <1>5, <1>6, <1>7, <1>8, <1>9 DEF RecvNext

\* However the bytes of a connection come in reads, wherever the flood limits stop the
\* parser and seconds let it go on, the lines it has parsed are the first lines of all
\* that was read, whole, in order, and none twice (packet.c extract_one_line,
\* parse_client_queued, flood_recalc).
THEOREM NoneLost == RecvSpec => []LinesWhole
<1>1. Whole => LinesWhole
  BY DEF Whole
<1> QED BY InitWhole, NextWhole, <1>1, PTL DEF RecvSpec

\* Both together: what a user has had parsed is the first of what he sent, and no more
\* of it than the flood limits allow.
THEOREM ParsedRight == RecvSpec => []Parsed
<1>1. LinesWhole /\ Paced => Parsed
  BY DEF Parsed
<1> QED BY NoneLost, NeverFaster, <1>1, PTL

=============================================================================

------------------------ MODULE FeedbackGroupsProofs ------------------------
(***************************************************************************)
(* Theorems about FeedbackGroups, for all values of its constants: the     *)
(* controller's histories support every assert and every front(), bytes    *)
(* are counted once, and a sender that is locked out stays so.             *)
(***************************************************************************)
EXTENDS FeedbackGroups, FiniteSetTheorems, SequenceTheorems, NaturalsInduction,
        WellFoundedInduction, TLAPS

\* An integer and its remainder, and a sum with a multiple of the modulus.
LEMMA IntRemainder ==
    ASSUME NEW a \in Int, NEW n \in Nat \ {0}
    PROVE  \E q \in Int : a = n * q + (a % n) /\ a % n \in 0 .. n - 1
<1>1. a = n * (a \div n) + (a % n) /\ a % n \in 0 .. n - 1 /\ a \div n \in Int
  OBVIOUS
<1> QED  BY <1>1

LEMMA SmallRemainder ==
    ASSUME NEW n \in Nat \ {0}, NEW q \in Int, NEW r \in 0 .. n - 1
    PROVE  (n * q + r) % n = r
  OBVIOUS

LEMMA HalfIsHalf == Ids \in Nat \ {0} /\ Half \in Nat \ {0} /\ Ids = Half + Half
<1>1. Ids \in Nat \ {0, 1} /\ Ids % 2 = 0  BY ControllerAssumption
<1> QED  BY <1>1 DEF Half

\* Ids differ like the numbers they stand for, up to turns of the circle.
LEMMA IdDifference ==
    ASSUME NEW a \in Int, NEW b \in Int, b - a \in 0 .. Ids - 1
    PROVE  /\ Id(a) \in 0 .. Ids - 1 /\ Id(b) \in 0 .. Ids - 1
           /\ (Id(b) - Id(a)) % Ids = b - a
           /\ b # a => (Id(a) - Id(b)) % Ids = Ids - (b - a)
<1>1. Ids \in Nat \ {0}  BY HalfIsHalf
<1> DEFINE ia == Id(a)
           ib == Id(b)
<1>2. PICK p \in Int : a = Ids * p + ia /\ ia \in 0 .. Ids - 1
  BY <1>1, IntRemainder DEF Id
<1>3. PICK q \in Int : b = Ids * q + ib /\ ib \in 0 .. Ids - 1
  BY <1>1, IntRemainder DEF Id
<1> HIDE DEF ia, ib
<1>4. p - q \in Int /\ q - p - 1 \in Int  BY <1>2, <1>3
<1>5. ib - ia = Ids * (p - q) + (b - a)  BY <1>1, <1>2, <1>3
<1>6. ia - ib = Ids * (q - p - 1) + (Ids - (b - a))  BY <1>1, <1>2, <1>3
<1>7. (ib - ia) % Ids = b - a  BY <1>1, <1>4, <1>5, SmallRemainder
<1>8. b # a => (ia - ib) % Ids = Ids - (b - a)
  <2> SUFFICES ASSUME b # a  PROVE (ia - ib) % Ids = Ids - (b - a)  OBVIOUS
  <2>1. Ids - (b - a) \in 0 .. Ids - 1  BY <1>1
  <2> QED  BY <1>1, <1>4, <1>6, <2>1, SmallRemainder
<1> QED  BY <1>2, <1>3, <1>7, <1>8 DEF ia, ib

LEMMA IdTyped ==
    ASSUME NEW a \in Int  PROVE Id(a) \in 0 .. Ids - 1
<1>1. Ids \in Nat \ {0}  BY HalfIsHalf
<1>2. a % Ids \in 0 .. Ids - 1  BY <1>1, IntRemainder
<1> QED  BY <1>2 DEF Id

\* Packets up to half a circle apart compare like their numbers.
LEMMA CloseIds ==
    ASSUME NEW a \in Int, NEW b \in Int, b - a < Half, a - b <= Half
    PROVE  LessThan(Id(a), Id(b)) <=> a < b
<1>1. Ids \in Nat /\ Half \in Nat /\ Ids = Half + Half  BY HalfIsHalf
<1>2. CASE a < b
  <2>1. b - a \in 0 .. Ids - 1  BY <1>1, <1>2
  <2>2. (Id(b) - Id(a)) % Ids = b - a /\ (Id(a) - Id(b)) % Ids = Ids - (b - a)
    BY <1>2, <2>1, IdDifference
  <2> QED  BY <1>1, <1>2, <2>2 DEF LessThan
<1>3. CASE b < a
  <2>1. a - b \in 0 .. Ids - 1  BY <1>1, <1>3
  <2>2. (Id(a) - Id(b)) % Ids = a - b /\ (Id(b) - Id(a)) % Ids = Ids - (a - b)
    BY <1>3, <2>1, IdDifference
  <2> QED  BY <1>1, <1>3, <2>2 DEF LessThan
<1>4. CASE a = b  BY <1>1, <1>4, IdDifference DEF LessThan
<1> QED  BY <1>2, <1>3, <1>4

LEMMA SmallestNat ==
    ASSUME NEW S \in SUBSET Nat, S # {}
    PROVE  Min(S) \in S /\ \A y \in S : Min(S) <= y
<1>1. PICK x \in S : \A y \in S : ~(<<y, x>> \in OpToRel(<, Nat))
    BY NatLessThanWellFounded, WFMin, Zenon
<1>2. ASSUME NEW y \in S  PROVE x <= y
  <2>1. ~(<<y, x>> \in OpToRel(<, Nat))  BY <1>1
  <2>2. ~(y < x)  BY <2>1, Zenon DEF OpToRel
  <2> QED  BY <2>2
<1> QED  BY <1>2 DEF Min

\* Induction on the numbers up to b, for a set in the place of a predicate.
LEMMA UpTo ==
    ASSUME NEW b \in Nat, NEW P, 0 \in P, \A k \in 0 .. b - 1 : k \in P => k + 1 \in P
    PROVE  \A k \in 0 .. b : k \in P
<1> DEFINE Bad == {i \in 0 .. b : i \notin P}
<1> SUFFICES ASSUME Bad # {}  PROVE FALSE  OBVIOUS
<1>1. Bad \in SUBSET Nat  OBVIOUS
<1>2. Min(Bad) \in Bad /\ \A y \in Bad : Min(Bad) <= y
  <2> HIDE DEF Bad
  <2> QED  BY <1>1, SmallestNat
<1> DEFINE m == Min(Bad)
<1> HIDE DEF m
<1>3. m \in 0 .. b /\ m \notin P /\ m # 0 /\ \A y \in Bad : m <= y  BY <1>2 DEF m
<1>4. m - 1 \in 0 .. b - 1 /\ m - 1 \notin Bad /\ (m - 1) + 1 = m  BY <1>3
<1>5. m - 1 \in P  BY <1>4
<1> QED  BY <1>3, <1>4, <1>5

\* g is the function Bytes adds up h with.
Part(h, g, i) == IF i = 0 THEN 0 ELSE g[i - 1] + Cardinality(h[i].counts)
IsSum(h, g, b) == g = [i \in 0 .. b |-> Part(h, g, i)]

LEMMA SumExists ==
    ASSUME NEW h, NEW b \in Nat
    PROVE  \E g : IsSum(h, g, b)
<1> DEFINE P == {k \in 0 .. b : \E g : IsSum(h, g, k)}
<1>1. 0 \in P
  <2> DEFINE g == [i \in 0 .. 0 |-> 0]
  <2>1. IsSum(h, g, 0)  BY DEF IsSum, Part
  <2> HIDE DEF g
  <2> QED  BY <2>1
<1>2. ASSUME NEW k \in 0 .. b - 1, k \in P  PROVE k + 1 \in P
  <2>1. PICK g : IsSum(h, g, k)  BY <1>2
  <2> DEFINE top == g[k] + Cardinality(h[k + 1].counts)
             e == [i \in 0 .. k + 1 |-> IF i = k + 1 THEN top ELSE g[i]]
  <2>2. \A i \in 0 .. k : g[i] = Part(h, g, i)  BY <2>1 DEF IsSum
  <2>3. ASSUME NEW i \in 0 .. k + 1  PROVE e[i] = Part(h, e, i)
    <3>1. CASE i = k + 1
      <4>1. e[i] = top /\ e[i - 1] = g[k] /\ i # 0  BY <3>1
      <4> HIDE DEF e
      <4> QED  BY <3>1, <4>1 DEF Part
    <3>2. CASE i = 0
      <4>1. e[i] = g[i] /\ g[i] = 0  BY <2>2, <3>2 DEF Part
      <4> HIDE DEF e
      <4> QED  BY <3>2, <4>1 DEF Part
    <3>3. CASE i # k + 1 /\ i # 0
      <4>1. e[i] = g[i] /\ e[i - 1] = g[i - 1] /\ i \in 0 .. k  BY <3>3
      <4> HIDE DEF e
      <4> QED  BY <2>2, <3>3, <4>1 DEF Part
    <3> QED  BY <3>1, <3>2, <3>3
  <2>4. e = [i \in 0 .. k + 1 |-> e[i]]  OBVIOUS
  <2> HIDE DEF e
  <2>5. IsSum(h, e, k + 1)  BY <2>3, <2>4 DEF IsSum
  <2> QED  BY <2>5
<1>3. \A k \in 0 .. b : k \in P
  <2> HIDE DEF P
  <2> QED  BY <1>1, <1>2, UpTo
<1> QED  BY <1>3

\* Packets sent, and packets fed back with those they count.
Packet == [n : Nat, tx : Nat]
FedBack == [n : Nat, tx : Nat, counts : {C \in SUBSET Nat : IsFiniteSet(C)}]

\* The sums of the parts of a history.
LEMMA BytesIs ==
    ASSUME NEW h \in Seq(FedBack)
    PROVE  \E g : /\ Bytes(h) = g[Len(h)]
                  /\ g[0] = 0
                  /\ \A i \in 1 .. Len(h) : g[i] = g[i - 1] + Cardinality(h[i].counts)
                  /\ \A i \in 0 .. Len(h) : g[i] \in Nat
<1> DEFINE Body(g) == [i \in 0 .. Len(h) |->
                         IF i = 0 THEN 0 ELSE g[i - 1] + Cardinality(h[i].counts)]
           sum == CHOOSE g : g = Body(g)
<1>1. Len(h) \in Nat /\ \A i \in 1 .. Len(h) : h[i] \in FedBack  OBVIOUS
<1>2. \A i \in 1 .. Len(h) : Cardinality(h[i].counts) \in Nat
  <2> SUFFICES ASSUME NEW i \in 1 .. Len(h)  PROVE Cardinality(h[i].counts) \in Nat  OBVIOUS
  <2>1. IsFiniteSet(h[i].counts)  BY <1>1 DEF FedBack
  <2> QED  BY <2>1, FS_CardinalityType
<1>3. PICK g : IsSum(h, g, Len(h))  BY <1>1, SumExists
<1>4. g = Body(g)  BY <1>3, Zenon DEF IsSum, Part
<1>5. sum = Body(sum)
  <2> HIDE DEF Body
  <2> QED  BY <1>4, Zenon
<1>6. Bytes(h) = sum[Len(h)]  BY Zenon DEF Bytes
<1> HIDE DEF sum
<1>7. \A i \in 0 .. Len(h) : sum[i] = IF i = 0 THEN 0 ELSE sum[i - 1] + Cardinality(h[i].counts)
  <2> DEFINE t == sum
  <2>1. t = Body(t)  BY <1>5
  <2> HIDE DEF t
  <2>2. \A i \in 0 .. Len(h) : t[i] = IF i = 0 THEN 0 ELSE t[i - 1] + Cardinality(h[i].counts)
    BY <2>1
  <2> QED  BY <2>2 DEF t
<1> HIDE DEF Body
<1>8. sum[0] = 0  BY <1>1, <1>7
<1>9. \A i \in 1 .. Len(h) : sum[i] = sum[i - 1] + Cardinality(h[i].counts)
  <2> SUFFICES ASSUME NEW i \in 1 .. Len(h)  PROVE sum[i] = sum[i - 1] + Cardinality(h[i].counts)
    OBVIOUS
  <2>1. i \in 0 .. Len(h) /\ i # 0  BY <1>1
  <2> QED  BY <2>1, <1>7
<1> DEFINE P == {i \in 0 .. Len(h) : sum[i] \in Nat}
<1>10. 0 \in P  BY <1>1, <1>8
<1>11. ASSUME NEW k \in 0 .. Len(h) - 1, k \in P  PROVE k + 1 \in P
  <2>1. k + 1 \in 1 .. Len(h) /\ k + 1 \in 0 .. Len(h) /\ (k + 1) - 1 = k  BY <1>1
  <2>2. sum[k + 1] = sum[k] + Cardinality(h[k + 1].counts)  BY <2>1, <1>9
  <2>3. sum[k] \in Nat /\ Cardinality(h[k + 1].counts) \in Nat  BY <2>1, <1>2, <1>11
  <2> QED  BY <2>1, <2>2, <2>3
<1>12. \A k \in 0 .. Len(h) : k \in P
  <2> HIDE DEF P
  <2> QED  BY <1>1, <1>10, <1>11, UpTo
<1>13. \A i \in 0 .. Len(h) : sum[i] \in Nat  BY <1>12
<1> QED  BY <1>6, <1>8, <1>9, <1>13

\* A history grows by the packets its new entry counts.
LEMMA BytesOfAppend ==
    ASSUME NEW h \in Seq(FedBack), NEW e \in FedBack
    PROVE  Bytes(Append(h, e)) = Bytes(h) + Cardinality(e.counts) /\ Bytes(h) \in Nat
<1> DEFINE w == Append(h, e)
<1>1. /\ w \in Seq(FedBack) /\ Len(w) = Len(h) + 1 /\ Len(h) \in Nat
      /\ w[Len(h) + 1] = e /\ \A i \in 1 .. Len(h) : w[i] = h[i]
  BY AppendProperties
<1> HIDE DEF w
<1>2. PICK f : /\ Bytes(h) = f[Len(h)] /\ f[0] = 0
               /\ \A i \in 1 .. Len(h) : f[i] = f[i - 1] + Cardinality(h[i].counts)
               /\ \A i \in 0 .. Len(h) : f[i] \in Nat
  BY BytesIs
<1>3. PICK g : /\ Bytes(w) = g[Len(w)] /\ g[0] = 0
               /\ \A i \in 1 .. Len(w) : g[i] = g[i - 1] + Cardinality(w[i].counts)
               /\ \A i \in 0 .. Len(w) : g[i] \in Nat
  BY <1>1, BytesIs
<1> DEFINE P == {i \in 0 .. Len(h) : g[i] = f[i]}
<1>4. 0 \in P  BY <1>1, <1>2, <1>3
<1>5. ASSUME NEW k \in 0 .. Len(h) - 1, k \in P  PROVE k + 1 \in P
  <2>1. /\ k + 1 \in 1 .. Len(h) /\ k + 1 \in 1 .. Len(w) /\ k + 1 \in 0 .. Len(h)
        /\ (k + 1) - 1 = k
    BY <1>1
  <2>2. w[k + 1] = h[k + 1] /\ g[k] = f[k]  BY <1>1, <1>5, <2>1
  <2>3. f[k + 1] = f[k] + Cardinality(h[k + 1].counts)  BY <1>2, <2>1
  <2>4. g[k + 1] = g[k] + Cardinality(w[k + 1].counts)  BY <1>3, <2>1
  <2> QED  BY <2>1, <2>2, <2>3, <2>4
<1>6. \A k \in 0 .. Len(h) : k \in P
  <2> HIDE DEF P
  <2> QED  BY <1>1, <1>4, <1>5, UpTo
<1>7. g[Len(h)] = f[Len(h)]
  <2>1. Len(h) \in 0 .. Len(h)  BY <1>1
  <2> QED  BY <1>6, <2>1
<1>8. g[Len(w)] = g[Len(h)] + Cardinality(e.counts)
  <2>1. Len(w) \in 1 .. Len(w) /\ Len(w) - 1 = Len(h) /\ w[Len(w)] = e  BY <1>1
  <2> QED  BY <1>3, <2>1
<1>9. Bytes(h) \in Nat
  <2>1. Len(h) \in 0 .. Len(h)  BY <1>1
  <2> QED  BY <1>2, <2>1
<1> QED  BY <1>2, <1>3, <1>7, <1>8, <1>9 DEF w

LEMMA BytesOfNone ==
    Bytes(<<>>) = 0
<1> DEFINE s == <<>>
<1>1. s \in Seq(FedBack) /\ Len(s) = 0  OBVIOUS
<1> HIDE DEF s
<1>2. PICK f : Bytes(s) = f[Len(s)] /\ f[0] = 0  BY <1>1, BytesIs
<1> QED  BY <1>1, <1>2 DEF s

------------------------------------------------------------------------------
(* Queues of packets. *)

\* r is s from position m on.
Suffix(r, s, m) ==
    /\ m \in 1 .. Len(s) + 1
    /\ Len(r) = Len(s) - m + 1
    /\ \A i \in 1 .. Len(r) : r[i] = s[m + i - 1]

\* What a loop leaves that pops up to the first position of K.
LEMMA FromIs ==
    ASSUME NEW S, NEW s \in Seq(S), NEW K \in SUBSET (1 .. Len(s))
    PROVE  /\ From(s, K) \in Seq(S)
           /\ K = {} => From(s, K) = <<>> /\ Suffix(From(s, K), s, Len(s) + 1)
           /\ K # {} => \E m \in K : Suffix(From(s, K), s, m) /\ \A k \in K : m <= k
<1>1. Len(s) \in Nat /\ \A i \in 1 .. Len(s) : s[i] \in S  BY LenProperties, ElementOfSeq
<1>2. CASE K = {}
  <2> DEFINE r == From(s, K)
  <2>1. r = <<>>  BY <1>2 DEF From
  <2>2. r \in Seq(S) /\ Len(r) = 0  BY <2>1, EmptySeq
  <2> HIDE DEF r
  <2>3. Len(s) + 1 \in 1 .. Len(s) + 1 /\ Len(s) - (Len(s) + 1) + 1 = 0  BY <1>1
  <2>4. Suffix(r, s, Len(s) + 1)  BY <2>2, <2>3 DEF Suffix
  <2> QED  BY <1>2, <2>1, <2>2, <2>4 DEF r
<1>3. CASE K # {}
  <2> DEFINE m == Min(K)
             r == SubSeq(s, m, Len(s))
  <2>1. From(s, K) = r  BY <1>3 DEF From
  <2>2. m \in K /\ \A k \in K : m <= k
    <3>1. K \in SUBSET Nat  OBVIOUS
    <3> QED  BY <1>3, <3>1, SmallestNat
  <2> HIDE DEF m
  <2>3. m \in 1 .. Len(s) /\ m \in Int /\ Len(s) \in Int /\ m <= Len(s)
    BY <1>1, <2>2
  <2>4. \A i \in m .. Len(s) : s[i] \in S
    <3>1. \A i \in m .. Len(s) : i \in 1 .. Len(s)  BY <2>3
    <3> QED  BY <1>1, <3>1
  <2>5. /\ r \in Seq(S) /\ Len(r) = Len(s) - m + 1
        /\ \A i \in 1 .. Len(s) - m + 1 : r[i] = s[m + i - 1]
    <3>1. /\ r \in Seq(S) /\ Len(r) = IF m <= Len(s) THEN Len(s) - m + 1 ELSE 0
          /\ \A i \in 1 .. Len(s) - m + 1 : r[i] = s[m + i - 1]
      BY <2>3, <2>4, SubSeqProperties
    <3> QED  BY <2>3, <3>1
  <2> HIDE DEF r
  <2>6. Suffix(r, s, m)
    <3>1. m \in 1 .. Len(s) + 1  BY <1>1, <2>3
    <3> QED  BY <2>5, <3>1 DEF Suffix
  <2> QED  BY <1>3, <2>1, <2>2, <2>5, <2>6
<1> QED  BY <1>2, <1>3

\* The packets up to the N-th one, in the order they were sent, until time t.
UpToNow(s, N, t) ==
    /\ s \in Seq(Packet)
    /\ \A i \in 1 .. Len(s) : s[i].n = N - Len(s) + i - 1 /\ s[i].tx <= t
    /\ \A i, j \in 1 .. Len(s) : i <= j => s[i].tx <= s[j].tx

LEMMA Row ==
    ASSUME NEW s, NEW N \in Nat, NEW t \in Nat, UpToNow(s, N, t)
    PROVE  /\ Len(s) \in 0 .. N
           /\ \A i \in 1 .. Len(s) : /\ s[i] \in Packet /\ s[i].n \in Nat /\ s[i].tx \in Nat
                                     /\ s[i].n = N - Len(s) + i - 1 /\ s[i].n < N
                                     /\ s[i].tx <= t
           /\ \A n \in N - Len(s) .. N - 1 : /\ n - (N - Len(s)) + 1 \in 1 .. Len(s)
                                           /\ s[n - (N - Len(s)) + 1].n = n
           /\ s = <<>> <=> Len(s) = 0
<1>1. Len(s) \in Nat /\ (\A i \in 1 .. Len(s) : s[i] \in Packet) /\ (s = <<>> <=> Len(s) = 0)
  BY LenProperties, ElementOfSeq, EmptySeq DEF UpToNow
<1>2. ASSUME NEW i \in 1 .. Len(s)
      PROVE  /\ s[i].n \in Nat /\ s[i].tx \in Nat /\ s[i].tx <= t
             /\ s[i].n = N - Len(s) + i - 1 /\ s[i].n < N
  <2>1. s[i].n \in Nat /\ s[i].tx \in Nat  BY <1>1 DEF Packet
  <2>2. s[i].n = N - Len(s) + i - 1 /\ s[i].tx <= t  BY DEF UpToNow
  <2>3. i \in Nat /\ i <= Len(s)  BY <1>1
  <2> QED  BY <1>1, <2>1, <2>2, <2>3
<1>3. Len(s) <= N
  <2>1. CASE Len(s) = 0  BY <2>1
  <2>2. CASE Len(s) > 0
    <3>1. 1 \in 1 .. Len(s)  BY <1>1, <2>2
    <3>2. s[1].n \in Nat /\ s[1].n = N - Len(s) + 1 - 1  BY <1>2, <3>1
    <3> QED  BY <1>1, <3>2
  <2> QED  BY <1>1, <2>1, <2>2
<1>4. ASSUME NEW n \in N - Len(s) .. N - 1
      PROVE  n - (N - Len(s)) + 1 \in 1 .. Len(s) /\ s[n - (N - Len(s)) + 1].n = n
  <2> DEFINE i == n - (N - Len(s)) + 1
  <2>1. i \in 1 .. Len(s) /\ N - Len(s) + i - 1 = n  BY <1>1, <1>3
  <2> HIDE DEF i
  <2>2. s[i].n = n  BY <1>2, <2>1
  <2> QED  BY <2>1, <2>2 DEF i
<1> QED  BY <1>1, <1>2, <1>3, <1>4

LEMMA RowNumbers ==
    ASSUME NEW s, NEW N \in Nat, NEW t \in Nat, UpToNow(s, N, t)
    PROVE  \A i \in 1 .. Len(s) : s[i].n = N - Len(s) + i - 1
  BY Row

LEMMA RowSuffix ==
    ASSUME NEW s, NEW N \in Nat, NEW t \in Nat, UpToNow(s, N, t),
           NEW r \in Seq(Packet), NEW m, Suffix(r, s, m)
    PROVE  /\ UpToNow(r, N, t)
           /\ \A i \in 1 .. Len(r) : m + i - 1 \in 1 .. Len(s) /\ r[i] = s[m + i - 1]
           /\ \A j \in m .. Len(s) : j - m + 1 \in 1 .. Len(r) /\ r[j - m + 1] = s[j]
<1>1. Len(s) \in Nat /\ m \in 1 .. Len(s) + 1 /\ Len(r) = Len(s) - m + 1
  BY Row DEF Suffix
<1>2. ASSUME NEW i \in 1 .. Len(r)
      PROVE  /\ m + i - 1 \in 1 .. Len(s) /\ r[i] = s[m + i - 1]
             /\ r[i].n = N - Len(r) + i - 1 /\ r[i].tx <= t
  <2>1. m + i - 1 \in 1 .. Len(s)  BY <1>1
  <2>2. r[i] = s[m + i - 1]  BY DEF Suffix
  <2>3. s[m + i - 1].n = N - Len(s) + (m + i - 1) - 1 /\ s[m + i - 1].tx <= t  BY <2>1, Row
  <2>4. N - Len(s) + (m + i - 1) - 1 = N - Len(r) + i - 1  BY <1>1
  <2> QED  BY <2>1, <2>2, <2>3, <2>4
<1>3. ASSUME NEW i \in 1 .. Len(r), NEW j \in 1 .. Len(r), i <= j  PROVE r[i].tx <= r[j].tx
  <2>1. m + i - 1 \in 1 .. Len(s) /\ m + j - 1 \in 1 .. Len(s) /\ m + i - 1 <= m + j - 1
    BY <1>1, <1>3
  <2> QED  BY <1>2, <2>1 DEF UpToNow
<1>4. ASSUME NEW j \in m .. Len(s)  PROVE j - m + 1 \in 1 .. Len(r) /\ r[j - m + 1] = s[j]
  <2>1. j - m + 1 \in 1 .. Len(r) /\ m + (j - m + 1) - 1 = j  BY <1>1
  <2> QED  BY <1>2, <2>1
<1> QED  BY <1>2, <1>3, <1>4 DEF UpToNow

\* Another packet at the end.
LEMMA RowAppend ==
    ASSUME NEW s, NEW N \in Nat, NEW t \in Nat, UpToNow(s, N, t)
    PROVE  LET w == Append(s, [n |-> N, tx |-> t])
           IN  /\ UpToNow(w, N + 1, t) /\ Len(w) = Len(s) + 1
               /\ w[Len(s) + 1] = [n |-> N, tx |-> t]
               /\ \A i \in 1 .. Len(s) : w[i] = s[i]
<1> DEFINE p == [n |-> N, tx |-> t]
           w == Append(s, p)
<1>1. p \in Packet /\ p.n = N /\ p.tx = t  BY DEF Packet
<1>2. s \in Seq(Packet)  BY DEF UpToNow
<1> HIDE DEF p
<1>3. /\ w \in Seq(Packet) /\ Len(w) = Len(s) + 1 /\ w[Len(s) + 1] = p
      /\ \A i \in 1 .. Len(s) : w[i] = s[i]
  BY <1>1, <1>2, AppendProperties
<1> HIDE DEF w
<1>4. Len(s) \in Nat  BY Row
<1>5. ASSUME NEW i \in 1 .. Len(w)
      PROVE  w[i].n = (N + 1) - Len(w) + i - 1 /\ w[i].tx <= t
  <2>1. CASE i = Len(s) + 1
    <3>1. w[i] = p  BY <1>3, <2>1
    <3>2. (N + 1) - Len(w) + i - 1 = N  BY <1>3, <1>4, <2>1
    <3> QED  BY <1>1, <3>1, <3>2
  <2>2. CASE i \in 1 .. Len(s)
    <3>1. w[i] = s[i] /\ s[i].n = N - Len(s) + i - 1 /\ s[i].tx <= t  BY <1>3, <2>2, Row
    <3>2. N - Len(s) + i - 1 = (N + 1) - Len(w) + i - 1  BY <1>3, <1>4, <2>2
    <3> QED  BY <3>1, <3>2
  <2> QED  BY <1>3, <1>4, <2>1, <2>2
<1>6. ASSUME NEW i \in 1 .. Len(w), NEW j \in 1 .. Len(w), i <= j  PROVE w[i].tx <= w[j].tx
  <2>1. CASE j = Len(s) + 1  BY <1>1, <1>3, <1>5, <2>1
  <2>2. CASE j \in 1 .. Len(s)
    <3>1. i \in 1 .. Len(s)  BY <1>4, <1>6, <2>2
    <3> QED  BY <1>3, <1>6, <2>2, <3>1 DEF UpToNow
  <2> QED  BY <1>3, <1>4, <2>1, <2>2
<1>7. UpToNow(w, N + 1, t)  BY <1>3, <1>5, <1>6 DEF UpToNow
<1> QED  BY <1>3, <1>7 DEF w, p

\* Time passes.
LEMMA RowLater ==
    ASSUME NEW s, NEW N \in Nat, NEW t \in Nat, UpToNow(s, N, t), NEW u \in Nat, t <= u
    PROVE  UpToNow(s, N, u)
<1>1. \A i \in 1 .. Len(s) : s[i].tx <= u
  <2> SUFFICES ASSUME NEW i \in 1 .. Len(s)  PROVE s[i].tx <= u  OBVIOUS
  <2>1. s[i].tx \in Nat /\ s[i].tx <= t  BY Row
  <2> QED  BY <2>1
<1> QED  BY <1>1 DEF UpToNow

------------------------------------------------------------------------------
(* Sequence numbers. *)

LEMMA IdNext ==
    ASSUME NEW a \in Int
    PROVE  (Id(a) + 1) % Ids = Id(a + 1) /\ Id(a - Ids) = Id(a)
<1>1. Ids \in Nat \ {0}  BY HalfIsHalf
<1>2. PICK q \in Int : a = Ids * q + Id(a) /\ Id(a) \in 0 .. Ids - 1
  BY <1>1, IntRemainder DEF Id
<1>3. PICK p \in Int : a + 1 = Ids * p + Id(a + 1) /\ Id(a + 1) \in 0 .. Ids - 1
  <2>1. a + 1 \in Int  OBVIOUS
  <2> QED  BY <1>1, <2>1, IntRemainder DEF Id
<1>4. (Id(a) + 1) % Ids = Id(a + 1)
  <2> DEFINE x == Id(a)
             y == Id(a + 1)
  <2>1. x \in 0 .. Ids - 1 /\ y \in 0 .. Ids - 1  BY <1>2, <1>3
  <2>2. x + 1 = Ids * (p - q) + y
    <3>1. a = Ids * q + x /\ a + 1 = Ids * p + y  BY <1>2, <1>3
    <3> HIDE DEF x, y
    <3> QED  BY ONLY <3>1, <2>1, <1>1, p \in Int, q \in Int, a \in Int
  <2>3. p - q \in Int  OBVIOUS
  <2> HIDE DEF x, y
  <2>4. (x + 1) % Ids = y  BY <1>1, <2>1, <2>2, <2>3, SmallRemainder
  <2> QED  BY <2>4 DEF x, y
<1>5. Id(a - Ids) = Id(a)
  <2> DEFINE x == Id(a)
  <2>1. a = Ids * q + x /\ x \in 0 .. Ids - 1  BY <1>2
  <2> HIDE DEF x
  <2>2. a - Ids = Ids * (q - 1) + x /\ q - 1 \in Int  BY <1>1, <2>1
  <2>3. (a - Ids) % Ids = x  BY <1>1, <2>1, <2>2, SmallRemainder
  <2> QED  BY <2>3 DEF x, Id
<1> QED  BY <1>4, <1>5

LEMMA IdsApart ==
    ASSUME NEW a \in Int, NEW b \in Int, Id(a) = Id(b), b - a < Ids, a - b < Ids
    PROVE  a = b
<1>1. Ids \in Nat \ {0}  BY HalfIsHalf
<1>2. Id(a) \in 0 .. Ids - 1 /\ Id(b) \in 0 .. Ids - 1  BY IdTyped
<1>3. (Id(b) - Id(a)) % Ids = 0 /\ (Id(a) - Id(b)) % Ids = 0
  <2>1. Id(b) - Id(a) = Ids * 0 + 0 /\ Id(a) - Id(b) = Ids * 0 + 0  BY <1>1, <1>2
  <2> QED  BY <1>1, <2>1, SmallRemainder
<1>4. CASE a <= b
  <2>1. b - a \in 0 .. Ids - 1  BY <1>1, <1>4
  <2> QED  BY <1>3, <2>1, IdDifference
<1>5. CASE b <= a
  <2>1. a - b \in 0 .. Ids - 1  BY <1>1, <1>5
  <2> QED  BY <1>3, <2>1, IdDifference
<1> QED  BY <1>4, <1>5

\* From a packet a to a later one b the numbers do not wrap around when that of
\* b is not lower; a packet of the last round with a number between theirs lies
\* between them.
LEMMA IdsBetween ==
    ASSUME NEW a \in Int, NEW b \in Int, NEW m \in Int, a <= b, b - a < Ids,
           Id(a) < Id(m), Id(m) <= Id(b), m <= a + Ids, b - Ids < m
    PROVE  a < m /\ m <= b
<1>1. Ids \in Nat \ {0}  BY HalfIsHalf
<1> DEFINE ia == Id(a)
           ib == Id(b)
           im == Id(m)
<1>2. PICK p \in Int : a = Ids * p + ia /\ ia \in 0 .. Ids - 1
  BY <1>1, IntRemainder DEF Id
<1>3. ib \in 0 .. Ids - 1 /\ im \in 0 .. Ids - 1  BY IdTyped
<1>4. (ib - ia) % Ids = b - a
  <2>1. b - a \in 0 .. Ids - 1  BY <1>1
  <2> QED  BY <2>1, IdDifference
<1>5. ia < im /\ im <= ib  OBVIOUS
<1> HIDE DEF ia, ib
<1>6. ib - ia = b - a
  <2>1. ib - ia \in 0 .. Ids - 1 /\ 0 \in Int  BY <1>1, <1>2, <1>3, <1>5
  <2>2. (Ids * 0 + (ib - ia)) % Ids = ib - ia  BY <1>1, <2>1, SmallRemainder
  <2>3. Ids * 0 + (ib - ia) = ib - ia  BY <1>1, <1>2, <1>3
  <2> QED  BY <1>4, <2>2, <2>3
<1> DEFINE x == a + (im - ia)
<1>7. Id(x) = im
  <2> HIDE DEF im
  <2>1. x = Ids * p + im /\ x \in Int  BY <1>1, <1>2, <1>3
  <2>2. x % Ids = im  BY <1>1, <1>3, <2>1, SmallRemainder
  <2> QED  BY <2>2 DEF Id
<1>8. a < x /\ x <= b /\ x \in Int
  <2> HIDE DEF im
  <2> QED  BY <1>1, <1>2, <1>3, <1>5, <1>6
<1>9. Id(x) = Id(m)  BY <1>7
<1> HIDE DEF im, x
<1>10. m - x < Ids /\ x - m < Ids  BY <1>1, <1>8
<1>11. x = m  BY <1>8, <1>9, <1>10, IdsApart
<1> QED  BY <1>8, <1>11

------------------------------------------------------------------------------
(* The history of sent packets. *)

Entries(s) == {s[i] : i \in 1 .. Len(s)}

\* Packets sent within TransitAge of each other are less than half a circle
\* apart.
Spaced(s) ==
    \A p, q \in Entries(s) : q.tx <= p.tx + TransitAge => q.n < p.n + Half

SentRow(s, N, t) ==
    /\ UpToNow(s, N, t)
    /\ Len(s) <= Ids
    /\ N > 0 => s # <<>>

SentOK(s, N, t) == SentRow(s, N, t) /\ Spaced(s)

\* The entries are in the order of their numbers.
LEMMA RowEntries ==
    ASSUME NEW s, NEW N \in Nat, NEW t \in Nat, UpToNow(s, N, t)
    PROVE  /\ \A p \in Entries(s) :
                 /\ p \in Packet /\ p.n \in Nat /\ p.tx \in Nat
                 /\ N - Len(s) <= p.n /\ p.n < N /\ p.tx <= t
           /\ \A p, q \in Entries(s) :
                 /\ p.n <= q.n => p.tx <= q.tx
                 /\ p.tx < q.tx => p.n < q.n
                 /\ p.n = q.n => p = q
           /\ \A n \in N - Len(s) .. N - 1 : \E p \in Entries(s) : p.n = n
<1>1. Len(s) \in 0 .. N /\ Len(s) \in Nat  BY Row
<1>2. ASSUME NEW p \in Entries(s)
      PROVE  /\ p \in Packet /\ p.n \in Nat /\ p.tx \in Nat
             /\ N - Len(s) <= p.n /\ p.n < N /\ p.tx <= t
  <2>1. PICK i \in 1 .. Len(s) : p = s[i]  BY DEF Entries
  <2>2. /\ p \in Packet /\ p.n \in Nat /\ p.tx \in Nat
        /\ p.n = N - Len(s) + i - 1 /\ p.n < N /\ p.tx <= t
    BY <2>1, Row
  <2> QED  BY <1>1, <2>1, <2>2
<1>3. ASSUME NEW p \in Entries(s), NEW q \in Entries(s)
      PROVE  /\ p.n <= q.n => p.tx <= q.tx
             /\ p.tx < q.tx => p.n < q.n
             /\ p.n = q.n => p = q
  <2>1. PICK i \in 1 .. Len(s) : p = s[i]  BY DEF Entries
  <2>2. PICK j \in 1 .. Len(s) : q = s[j]  BY DEF Entries
  <2>3. p.n = N - Len(s) + i - 1 /\ q.n = N - Len(s) + j - 1  BY <2>1, <2>2, Row
  <2>4. (i <= j => p.tx <= q.tx) /\ (j <= i => q.tx <= p.tx)
    BY <2>1, <2>2 DEF UpToNow
  <2>5. p.tx \in Nat /\ q.tx \in Nat  BY <1>2
  <2>6. (p.n <= q.n <=> i <= j) /\ (p.n = q.n => i = j) /\ (p.n < q.n <=> i < j)
    BY <1>1, <2>3
  <2> QED  BY <1>1, <2>1, <2>2, <2>4, <2>5, <2>6
<1>4. ASSUME NEW n \in N - Len(s) .. N - 1  PROVE \E p \in Entries(s) : p.n = n
  <2> DEFINE i == n - (N - Len(s)) + 1
  <2>1. i \in 1 .. Len(s) /\ s[i].n = n  BY Row
  <2> HIDE DEF i
  <2> QED  BY <2>1 DEF Entries
<1> QED  BY <1>2, <1>3, <1>4

LEMMA SuffixEntries ==
    ASSUME NEW s, NEW N \in Nat, NEW t \in Nat, UpToNow(s, N, t),
           NEW r \in Seq(Packet), NEW m, Suffix(r, s, m)
    PROVE  /\ Entries(r) \subseteq Entries(s)
           /\ \A j \in m .. Len(s) : s[j] \in Entries(r)
<1>1. /\ \A i \in 1 .. Len(r) : m + i - 1 \in 1 .. Len(s) /\ r[i] = s[m + i - 1]
      /\ \A j \in m .. Len(s) : j - m + 1 \in 1 .. Len(r) /\ r[j - m + 1] = s[j]
  BY RowSuffix
<1>2. ASSUME NEW i \in 1 .. Len(r)  PROVE r[i] \in Entries(s)
  <2>1. m + i - 1 \in 1 .. Len(s) /\ r[i] = s[m + i - 1]  BY <1>1
  <2> QED  BY <2>1 DEF Entries
<1>3. ASSUME NEW j \in m .. Len(s)  PROVE s[j] \in Entries(r)
  <2>1. j - m + 1 \in 1 .. Len(r) /\ r[j - m + 1] = s[j]  BY <1>1
  <2> QED  BY <2>1 DEF Entries
<1> QED  BY <1>2, <1>3 DEF Entries

\* Only a packet sent Ids packets ago has the number of the next one.
LEMMA WithoutIs ==
    ASSUME NEW s, NEW N \in Nat, NEW t \in Nat, UpToNow(s, N, t), Len(s) <= Ids
    PROVE  LET r == Without(s, Id(N))
           IN  /\ UpToNow(r, N, t)
               /\ Len(r) = IF Len(s) = Ids THEN Ids - 1 ELSE Len(s)
               /\ Entries(r) \subseteq Entries(s)
               /\ \A p \in Entries(s) : N < p.n + Ids => p \in Entries(r)
<1> DEFINE same == {i \in DOMAIN s : Id(s[i].n) = Id(N)}
           r == Without(s, Id(N))
<1>1. /\ Len(s) \in Nat /\ DOMAIN s = 1 .. Len(s) /\ s \in Seq(Packet)
      /\ \A i \in 1 .. Len(s) : s[i] \in Packet
  BY LenProperties, ElementOfSeq DEF UpToNow
<1>2. Ids \in Nat \ {0}  BY HalfIsHalf
<1>3. ASSUME NEW i \in DOMAIN s
      PROVE  Id(s[i].n) = Id(N) <=> Len(s) = Ids /\ i = 1
  <2>1. i \in 1 .. Len(s) /\ s[i].n = N - Len(s) + i - 1 /\ s[i].n \in Int  BY <1>1, Row
  <2>2. CASE Len(s) = Ids /\ i = 1
    <3>1. s[i].n = N - Ids  BY <2>1, <2>2, <1>2
    <3> QED  BY <2>2, <3>1, IdNext
  <2>3. CASE ~(Len(s) = Ids /\ i = 1)
    <3>1. N - s[i].n < Ids /\ s[i].n - N < Ids /\ s[i].n # N
      <4> DEFINE k == s[i].n
                 l == Len(s)
      <4>1. k = N - l + i - 1 /\ i \in 1 .. l /\ l \in Nat /\ l <= Ids /\ ~(l = Ids /\ i = 1)
        BY <1>1, <2>1, <2>3
      <4> HIDE DEF k, l
      <4>2. N - k < Ids /\ k - N < Ids /\ k # N  BY ONLY <4>1, <1>2, N \in Nat
      <4> QED  BY <4>2 DEF k
    <3> QED  BY <2>1, <2>3, <3>1, IdsApart
  <2> QED  BY <2>2, <2>3
<1>4. CASE Len(s) # Ids
  <2>1. same = {}  BY <1>3, <1>4
  <2>2. r = s  BY <2>1 DEF Without
  <2> HIDE DEF r
  <2> QED  BY <1>4, <2>2 DEF r
<1>5. CASE Len(s) = Ids
  <2>1. same = {1}  BY <1>1, <1>2, <1>3, <1>5
  <2>2. Min({1}) = 1  BY DEF Min
  <2> DEFINE a == SubSeq(s, 1, 1 - 1)
             b == SubSeq(s, 1 + 1, Len(s))
  <2>3. r = a \o b
    <3>1. r = IF same = {} THEN s
              ELSE SubSeq(s, 1, Min(same) - 1) \o SubSeq(s, Min(same) + 1, Len(s))
      BY DEF Without
    <3> HIDE DEF same, r
    <3> QED  BY <2>1, <2>2, <3>1
  <2>4. a = <<>>
    <3>1. 1 - 1 < 1 /\ 1 \in Int /\ 1 - 1 \in Int  OBVIOUS
    <3> HIDE DEF a
    <3> QED  BY <3>1, SubSeqEmpty DEF a
  <2>5. /\ b \in Seq(Packet) /\ Len(b) = Len(s) - 1
        /\ \A i \in 1 .. Len(s) - 1 : b[i] = s[2 + i - 1]
    <3>1. \A i \in 2 .. Len(s) : s[i] \in Packet  BY <1>1
    <3>2. /\ SubSeq(s, 2, Len(s)) \in Seq(Packet)
          /\ Len(SubSeq(s, 2, Len(s))) = IF 2 <= Len(s) THEN Len(s) - 2 + 1 ELSE 0
          /\ \A i \in 1 .. Len(s) - 2 + 1 : SubSeq(s, 2, Len(s))[i] = s[2 + i - 1]
      BY <1>1, <3>1, SubSeqProperties
    <3>3. b = SubSeq(s, 2, Len(s))  OBVIOUS
    <3>4. Len(s) - 2 + 1 = Len(s) - 1 /\ (2 <= Len(s) \/ Len(s) - 1 = 0)  BY <1>1, <1>2, <1>5
    <3> HIDE DEF b
    <3> QED  BY <3>2, <3>3, <3>4
  <2> HIDE DEF a, b
  <2>6. r = b  BY <2>3, <2>4, <2>5
  <2> HIDE DEF r
  <2>7. Suffix(b, s, 2)
    <3>1. 2 \in 1 .. Len(s) + 1 /\ Len(s) - 1 = Len(s) - 2 + 1  BY <1>1, <1>2, <1>5
    <3> QED  BY <2>5, <3>1 DEF Suffix
  <2>8. UpToNow(b, N, t)  BY <2>5, <2>7, RowSuffix
  <2>9. Entries(b) \subseteq Entries(s) /\ \A j \in 2 .. Len(s) : s[j] \in Entries(b)
    BY <2>5, <2>7, SuffixEntries
  <2>10. ASSUME NEW p \in Entries(s), N < p.n + Ids  PROVE p \in Entries(b)
    <3>1. PICK i \in 1 .. Len(s) : p = s[i]  BY DEF Entries
    <3>2. p.n = N - Len(s) + i - 1  BY <3>1, Row
    <3>3. i \in 2 .. Len(s)  BY <1>1, <1>2, <1>5, <2>10, <3>1, <3>2
    <3> QED  BY <2>9, <3>1, <3>3
  <2> QED  BY <1>5, <2>5, <2>6, <2>8, <2>9, <2>10 DEF r
<1> QED  BY <1>4, <1>5

------------------------------------------------------------------------------
(* The controller's invariant. *)

Controllers ==
    [firstSend : BOOLEAN, lastSequence : Nat, lastRecv : Nat,
     transit : Seq(Packet), sent : Seq(Packet), history : Seq(FedBack), sizeSum : Int,
     expected : Nat, intervals : Seq(Nat), sound : BOOLEAN]

NumbersOK(c, N) ==
    /\ c.firstSend <=> N = 0
    /\ N > 0 => c.lastSequence = Id(N - 1)
    /\ {c.lastSequence, c.lastRecv, c.expected} \subseteq 0 .. Ids - 1

TransitOK(s, N, t) ==
    /\ UpToNow(s, N, t)
    /\ \A i \in 1 .. Len(s) : N - s[i].n <= Half

\* The packets fed back are in order, less than half a circle behind, and each
\* counts packets after the one before it only.
HistoryOK(h, N, t) ==
    /\ h \in Seq(FedBack)
    /\ \A i \in 1 .. Len(h) : h[i].n < N /\ h[i].tx <= t /\ h[i].counts \subseteq 0 .. N - 1
    /\ \A i, j \in 1 .. Len(h) : i < j => h[i].n + (j - i) <= h[j].n
    /\ h # <<>> => N - h[1].n <= Half
    /\ \A i \in 1 .. Len(h) : \A n \in h[i].counts :
            n <= h[i].n /\ \A j \in 1 .. i - 1 : n > h[j].n

\* What the controller remembers of the last packet fed back; those in transit
\* were sent after it.
LastOK(c, N) ==
    /\ c.history = <<>> => N <= Ids /\ c.lastRecv = 0
    /\ c.history # <<>> =>
         /\ c.lastRecv = Id(Last(c.history).n)
         /\ c.expected = Id(Last(c.history).n + 1)
         /\ \A i \in 1 .. Len(c.transit) : c.transit[i].n > Last(c.history).n

ControllerInv(c, N, t) ==
    /\ c \in Controllers
    /\ c.sound
    /\ NumbersOK(c, N)
    /\ SentOK(c.sent, N, t)
    /\ TransitOK(c.transit, N, t)
    /\ HistoryOK(c.history, N, t)
    /\ LastOK(c, N)
    /\ c.sizeSum = Bytes(c.history)
    /\ Len(c.intervals) \in 1 .. 9

\* What remains of it when feedback is no longer taken into account.
HistoryRow(h, N, t) ==
    /\ h \in Seq(FedBack)
    /\ \A i \in 1 .. Len(h) : h[i].n < N /\ h[i].tx <= t /\ h[i].counts \subseteq 0 .. N - 1
    /\ \A i, j \in 1 .. Len(h) : i < j => h[i].n + (j - i) <= h[j].n
    /\ h # <<>> => Last(h).n - h[1].n < Half
    /\ \A i \in 1 .. Len(h) : \A n \in h[i].counts :
            n <= h[i].n /\ \A j \in 1 .. i - 1 : n > h[j].n

ControllerRow(c, N, t) ==
    /\ c \in Controllers
    /\ c.sound
    /\ NumbersOK(c, N)
    /\ SentRow(c.sent, N, t)
    /\ UpToNow(c.transit, N, t)
    /\ HistoryRow(c.history, N, t)
    /\ c.sizeSum = Bytes(c.history)
    /\ Len(c.intervals) \in 1 .. 9

\* What NumbersSuffice says of the controller.
Room(c, N, t) ==
    /\ \A i \in DOMAIN c.transit : N - c.transit[i].n < Half
    /\ \A i \in DOMAIN c.sent : c.sent[i].tx + TransitAge >= t => N - c.sent[i].n < Half
    /\ IF c.history = <<>> THEN N < Ids ELSE N - c.history[1].n < Half

LEMMA ControllerParts ==
    ASSUME NEW c \in Controllers
    PROVE  /\ c.firstSend \in BOOLEAN /\ c.lastSequence \in Nat /\ c.lastRecv \in Nat
           /\ c.transit \in Seq(Packet) /\ c.sent \in Seq(Packet)
           /\ c.history \in Seq(FedBack) /\ c.sizeSum \in Int /\ c.expected \in Nat
           /\ c.intervals \in Seq(Nat) /\ c.sound \in BOOLEAN
           /\ Len(c.transit) \in Nat /\ DOMAIN c.transit = 1 .. Len(c.transit)
           /\ Len(c.sent) \in Nat /\ DOMAIN c.sent = 1 .. Len(c.sent)
           /\ Len(c.history) \in Nat /\ DOMAIN c.history = 1 .. Len(c.history)
<1>1. /\ c.firstSend \in BOOLEAN /\ c.lastSequence \in Nat /\ c.lastRecv \in Nat
      /\ c.transit \in Seq(Packet) /\ c.sent \in Seq(Packet)
      /\ c.history \in Seq(FedBack) /\ c.sizeSum \in Int /\ c.expected \in Nat
      /\ c.intervals \in Seq(Nat) /\ c.sound \in BOOLEAN
  BY DEF Controllers
<1> QED  BY <1>1, LenProperties

\* The parts of a history.
LEMMA HistoryParts ==
    ASSUME NEW h \in Seq(FedBack)
    PROVE  /\ Len(h) \in Nat /\ (h = <<>> <=> Len(h) = 0)
           /\ \A i \in 1 .. Len(h) : /\ h[i] \in FedBack /\ h[i].n \in Nat /\ h[i].tx \in Nat
                                     /\ h[i].counts \in SUBSET Nat /\ IsFiniteSet(h[i].counts)
           /\ h # <<>> => Len(h) \in 1 .. Len(h) /\ 1 \in 1 .. Len(h) /\ Last(h) = h[Len(h)]
<1>1. Len(h) \in Nat /\ (h = <<>> <=> Len(h) = 0) /\ \A i \in 1 .. Len(h) : h[i] \in FedBack
  BY LenProperties, ElementOfSeq, EmptySeq
<1>2. \A f \in FedBack : /\ f.n \in Nat /\ f.tx \in Nat
                         /\ f.counts \in SUBSET Nat /\ IsFiniteSet(f.counts)
  BY DEF FedBack
<1> QED  BY <1>1, <1>2 DEF Last

\* The last packet fed back is not half a circle behind.
LEMMA LastIsNear ==
    ASSUME NEW h, NEW N \in Nat, NEW t \in Nat, HistoryOK(h, N, t), h # <<>>
    PROVE  /\ Last(h).n \in Nat /\ h[1].n \in Nat
           /\ h[1].n + (Len(h) - 1) <= Last(h).n /\ Last(h).n < N
           /\ N - h[1].n <= Half
           /\ \A i \in 1 .. Len(h) : h[i].n \in Nat /\ h[i].n <= Last(h).n
<1>1. /\ Len(h) \in Nat /\ Len(h) \in 1 .. Len(h) /\ 1 \in 1 .. Len(h) /\ Last(h) = h[Len(h)]
      /\ \A i \in 1 .. Len(h) : h[i].n \in Nat
  BY HistoryParts DEF HistoryOK
<1>2. ASSUME NEW i \in 1 .. Len(h)  PROVE h[i].n + (Len(h) - i) <= Last(h).n
  <2>1. CASE i = Len(h)  BY <1>1, <2>1
  <2>2. CASE i < Len(h)  BY <1>1, <2>2 DEF HistoryOK
  <2> QED  BY <1>1, <2>1, <2>2
<1>3. Last(h).n < N  BY <1>1 DEF HistoryOK
<1>4. \A i \in 1 .. Len(h) : h[i].n <= Last(h).n
  <2> SUFFICES ASSUME NEW i \in 1 .. Len(h)  PROVE h[i].n <= Last(h).n  OBVIOUS
  <2>1. h[i].n + (Len(h) - i) <= Last(h).n /\ h[i].n \in Nat /\ Last(h).n \in Nat
    BY <1>1, <1>2
  <2> QED  BY <1>1, <2>1
<1>5. N - h[1].n <= Half  BY DEF HistoryOK
<1> QED  BY <1>1, <1>2, <1>3, <1>4, <1>5

LEMMA InvHasRow ==
    ASSUME NEW c, NEW N \in Nat, NEW t \in Nat, ControllerInv(c, N, t)
    PROVE  ControllerRow(c, N, t)
<1> DEFINE h == c.history
<1>1. HistoryOK(h, N, t)  BY DEF ControllerInv
<1>2. Half \in Nat  BY HalfIsHalf
<1> HIDE DEF h
<1>3. h # <<>> => Last(h).n - h[1].n < Half
  <2> SUFFICES ASSUME h # <<>>  PROVE Last(h).n - h[1].n < Half  OBVIOUS
  <2>1. Last(h).n \in Nat /\ h[1].n \in Nat /\ Last(h).n < N /\ N - h[1].n <= Half
    BY <1>1, LastIsNear
  <2> QED  BY <1>2, <2>1
<1>4. HistoryRow(h, N, t)  BY <1>1, <1>3 DEF HistoryOK, HistoryRow
<1> QED  BY <1>4 DEF ControllerInv, ControllerRow, SentOK, TransitOK, h

------------------------------------------------------------------------------
(* processSendPacket. *)

LEMMA SentRowGrows ==
    ASSUME NEW s, NEW N \in Nat, NEW t \in Nat, SentRow(s, N, t)
    PROVE  LET w == Append(Without(s, Id(N)), [n |-> N, tx |-> t])
           IN  /\ SentRow(w, N + 1, t)
               /\ Len(w) = IF Len(s) = Ids THEN Ids ELSE Len(s) + 1
               /\ Entries(w) \subseteq Entries(s) \cup {[n |-> N, tx |-> t]}
               /\ \A p \in Entries(s) : N < p.n + Ids => p \in Entries(w)
               /\ [n |-> N, tx |-> t] \in Entries(w)
<1> DEFINE r == Without(s, Id(N))
           p == [n |-> N, tx |-> t]
           w == Append(r, p)
<1>1. Ids \in Nat \ {0}  BY HalfIsHalf
<1>2. /\ UpToNow(r, N, t)
      /\ Len(r) = IF Len(s) = Ids THEN Ids - 1 ELSE Len(s)
      /\ Entries(r) \subseteq Entries(s)
      /\ \A q \in Entries(s) : N < q.n + Ids => q \in Entries(r)
  <2> HIDE DEF p, w
  <2>1. UpToNow(s, N, t) /\ Len(s) <= Ids  BY DEF SentRow
  <2> QED  BY <2>1, WithoutIs
<1>3. Len(s) \in Nat /\ Len(r) \in Nat /\ Len(s) <= Ids
  BY <1>2, Row DEF SentRow
<1> HIDE DEF r
<1>4. /\ UpToNow(w, N + 1, t) /\ Len(w) = Len(r) + 1
      /\ w[Len(r) + 1] = p /\ \A i \in 1 .. Len(r) : w[i] = r[i]
  BY <1>2, RowAppend
<1> HIDE DEF p, w
<1>5. Entries(w) = Entries(r) \cup {p}
  <2>1. ASSUME NEW i \in 1 .. Len(w)  PROVE w[i] \in Entries(r) \cup {p}
    <3>1. i = Len(r) + 1 \/ i \in 1 .. Len(r)  BY <1>3, <1>4
    <3> QED  BY <1>4, <3>1 DEF Entries
  <2>2. p \in Entries(w)
    <3>1. Len(r) + 1 \in 1 .. Len(w)  BY <1>3, <1>4
    <3> QED  BY <1>4, <3>1 DEF Entries
  <2>3. ASSUME NEW i \in 1 .. Len(r)  PROVE r[i] \in Entries(w)
    <3>1. i \in 1 .. Len(w)  BY <1>3, <1>4
    <3> QED  BY <1>4, <3>1 DEF Entries
  <2> QED  BY <2>1, <2>2, <2>3 DEF Entries
<1>6. Len(w) = IF Len(s) = Ids THEN Ids ELSE Len(s) + 1  BY <1>1, <1>2, <1>3, <1>4
<1>7. SentRow(w, N + 1, t)
  <2>1. Len(w) <= Ids /\ Len(w) # 0  BY <1>1, <1>3, <1>6
  <2>2. w # <<>>  BY <2>1, EmptySeq
  <2> QED  BY <1>4, <2>1, <2>2 DEF SentRow
<1> QED  BY <1>2, <1>5, <1>6, <1>7 DEF r, w, p

LEMMA SentGrows ==
    ASSUME NEW s, NEW N \in Nat, NEW t \in Nat, SentOK(s, N, t),
           \A p \in Entries(s) : p.tx + TransitAge >= t => N - p.n < Half
    PROVE  SentOK(Append(Without(s, Id(N)), [n |-> N, tx |-> t]), N + 1, t)
<1> DEFINE p == [n |-> N, tx |-> t]
           w == Append(Without(s, Id(N)), p)
<1>1. Half \in Nat \ {0} /\ TransitAge \in Nat  BY HalfIsHalf, ControllerAssumption
<1>2. SentRow(w, N + 1, t) /\ Entries(w) \subseteq Entries(s) \cup {p}
  BY SentRowGrows DEF SentOK
<1>3. p.n = N /\ p.tx = t  OBVIOUS
<1> HIDE DEF p, w
<1>4. Spaced(w)
  <2> SUFFICES ASSUME NEW x \in Entries(w), NEW y \in Entries(w), y.tx <= x.tx + TransitAge
               PROVE  y.n < x.n + Half
    BY DEF Spaced
  <2>0. \A q \in Entries(s) : q.n \in Nat /\ q.tx \in Nat /\ q.n < N
    BY RowEntries DEF SentOK, SentRow
  <2>1. CASE x = p /\ y = p  BY <1>1, <1>3, <2>1
  <2>2. CASE x = p /\ y # p
    <3>1. y.n < N /\ y.n \in Nat  BY <1>2, <2>0, <2>2
    <3> QED  BY <1>1, <1>3, <2>2, <3>1
  <2>3. CASE x # p /\ y = p
    <3>1. x \in Entries(s) /\ x.n \in Nat /\ x.tx \in Nat  BY <1>2, <2>0, <2>3
    <3>2. x.tx + TransitAge >= t  BY <1>1, <1>3, <2>3, <3>1
    <3>3. N - x.n < Half  BY <3>1, <3>2
    <3> QED  BY <1>1, <1>3, <2>3, <3>1, <3>3
  <2>4. CASE x # p /\ y # p
    <3>1. x \in Entries(s) /\ y \in Entries(s)  BY <1>2, <2>4
    <3> QED  BY <3>1 DEF SentOK, Spaced
  <2> QED  BY <2>1, <2>2, <2>3, <2>4
<1> QED  BY <1>2, <1>4 DEF SentOK, w, p

LEMMA TransitGrows ==
    ASSUME NEW s, NEW N \in Nat, NEW t \in Nat, TransitOK(s, N, t),
           \A i \in 1 .. Len(s) : N - s[i].n < Half,
           NEW a, a = Append(s, [n |-> N, tx |-> t])
    PROVE  /\ TransitOK(a, N + 1, t)
           /\ \A i \in 1 .. Len(a) : a[i].n = N \/ \E j \in 1 .. Len(s) : a[i].n = s[j].n
<1>1. Half \in Nat \ {0}  BY HalfIsHalf
<1>2. /\ UpToNow(a, N + 1, t) /\ Len(a) = Len(s) + 1
      /\ a[Len(s) + 1] = [n |-> N, tx |-> t] /\ \A i \in 1 .. Len(s) : a[i] = s[i]
  BY RowAppend DEF TransitOK
<1>3. Len(s) \in Nat  BY Row DEF TransitOK
<1>4. ASSUME NEW i \in 1 .. Len(a)
      PROVE  /\ (N + 1) - a[i].n <= Half
             /\ a[i].n = N \/ \E j \in 1 .. Len(s) : a[i].n = s[j].n
  <2>1. CASE i = Len(s) + 1
    <3>1. a[i].n = N  BY <1>2, <2>1
    <3> QED  BY <1>1, <3>1
  <2>2. CASE i \in 1 .. Len(s)
    <3>1. a[i].n = s[i].n /\ N - s[i].n < Half /\ s[i].n \in Nat
      BY <1>2, <2>2, Row DEF TransitOK
    <3> QED  BY <1>1, <2>2, <3>1
  <2> QED  BY <1>2, <1>3, <2>1, <2>2
<1> QED  BY <1>2, <1>4 DEF TransitOK

\* What a loop leaves of the packets in transit.
LEMMA RowCut ==
    ASSUME NEW s, NEW N \in Nat, NEW t \in Nat, UpToNow(s, N, t),
           NEW K \in SUBSET (1 .. Len(s))
    PROVE  /\ UpToNow(From(s, K), N, t)
           /\ \A i \in 1 .. Len(From(s, K)) : \E j \in 1 .. Len(s) : From(s, K)[i] = s[j]
<1> DEFINE r == From(s, K)
<1>1. s \in Seq(Packet)  BY DEF UpToNow
<1>2. /\ r \in Seq(Packet)
      /\ K = {} => Suffix(r, s, Len(s) + 1)
      /\ K # {} => \E m \in K : Suffix(r, s, m)
  BY <1>1, FromIs
<1> HIDE DEF r
<1>3. PICK m : Suffix(r, s, m)  BY <1>2
<1>4. /\ UpToNow(r, N, t)
      /\ \A i \in 1 .. Len(r) : m + i - 1 \in 1 .. Len(s) /\ r[i] = s[m + i - 1]
  BY <1>2, <1>3, RowSuffix
<1> QED  BY <1>4 DEF r

LEMMA TransitCut ==
    ASSUME NEW s, NEW N \in Nat, NEW t \in Nat, TransitOK(s, N, t),
           NEW K \in SUBSET (1 .. Len(s))
    PROVE  /\ TransitOK(From(s, K), N, t)
           /\ \A i \in 1 .. Len(From(s, K)) : \E j \in 1 .. Len(s) : From(s, K)[i] = s[j]
<1> DEFINE r == From(s, K)
<1>1. /\ UpToNow(r, N, t)
      /\ \A i \in 1 .. Len(r) : \E j \in 1 .. Len(s) : r[i] = s[j]
  BY RowCut DEF TransitOK
<1> HIDE DEF r
<1>2. \A i \in 1 .. Len(r) : N - r[i].n <= Half  BY <1>1 DEF TransitOK
<1> QED  BY <1>1, <1>2 DEF TransitOK, r

LEMMA SendIs ==
    ASSUME NEW N \in Nat, NEW t \in Nat, NEW c \in Controllers, NumbersOK(c, N),
           SentRow(c.sent, N, t), UpToNow(c.transit, N, t)
    PROVE  LET d == ProcessSendPacket(c, t, N)
               all == Append(c.transit, [n |-> N, tx |-> t])
           IN  /\ d \in Controllers /\ NumbersOK(d, N + 1)
               /\ \E K \in SUBSET (1 .. Len(all)) : d.transit = From(all, K)
               /\ UpToNow(d.transit, N + 1, t)
               /\ d.sent = Append(Without(c.sent, Id(N)), [n |-> N, tx |-> t])
               /\ d.lastRecv = c.lastRecv /\ d.history = c.history /\ d.sizeSum = c.sizeSum
               /\ d.expected = c.expected /\ d.intervals = c.intervals /\ d.sound = c.sound
<1> DEFINE d == ProcessSendPacket(c, t, N)
           p == [n |-> N, tx |-> t]
           all == Append(c.transit, p)
           young == {i \in DOMAIN all : ~(all[i].tx + TransitAge < t)}
           tr == From(all, young)
           se == Append(Without(c.sent, Id(N)), p)
           next1 == IF c.firstSend THEN Id(N) ELSE (c.lastSequence + 1) % Ids
<1>1. UpToNow(all, N + 1, t)  BY RowAppend
<1>2. next1 = Id(N)
  <2>1. CASE c.firstSend  BY <2>1
  <2>2. CASE ~c.firstSend
    <3>1. N > 0 /\ c.lastSequence = Id(N - 1)  BY <2>2 DEF NumbersOK
    <3>2. N - 1 \in Int /\ (N - 1) + 1 = N  OBVIOUS
    <3>3. (Id(N - 1) + 1) % Ids = Id(N)  BY <3>2, IdNext
    <3> QED  BY <2>2, <3>1, <3>3
  <2> QED  BY <2>1, <2>2
<1>3. d = [c EXCEPT !.firstSend = FALSE, !.lastSequence = Id(N), !.transit = tr, !.sent = se]
  <2>1. d = IF Id(N) # next1 THEN [c EXCEPT !.firstSend = FALSE, !.lastSequence = next1]
            ELSE [c EXCEPT !.firstSend = FALSE, !.lastSequence = next1, !.transit = tr,
                           !.sent = Append(Without(@, next1), p)]
    BY DEF ProcessSendPacket
  <2> HIDE DEF d, tr, p, next1
  <2> QED  BY <1>2, <2>1
<1>4. SentRow(se, N + 1, t)  BY SentRowGrows
<1> HIDE DEF all
<1>5. young \in SUBSET (1 .. Len(all))
  <2>1. DOMAIN all = 1 .. Len(all)  BY <1>1, LenProperties DEF UpToNow
  <2> QED  BY <2>1
<1> HIDE DEF young
<1>6. UpToNow(tr, N + 1, t)
  <2> DEFINE M == N + 1
             K == young
  <2>1. M \in Nat /\ UpToNow(all, M, t) /\ K \in SUBSET (1 .. Len(all))  BY <1>1, <1>5
  <2> HIDE DEF M, K
  <2>2. UpToNow(From(all, K), M, t)  BY <2>1, RowCut
  <2> QED  BY <2>2 DEF M, K
<1>7. \E K \in SUBSET (1 .. Len(all)) : tr = From(all, K)  BY <1>5
<1> HIDE DEF d, tr, se
<1>8. /\ d.firstSend = FALSE /\ d.lastSequence = Id(N) /\ d.transit = tr /\ d.sent = se
      /\ d.lastRecv = c.lastRecv /\ d.history = c.history /\ d.sizeSum = c.sizeSum
      /\ d.expected = c.expected /\ d.intervals = c.intervals /\ d.sound = c.sound
  BY <1>3 DEF Controllers
<1>9. Id(N) \in 0 .. Ids - 1 /\ Id(N) \in Nat
  <2>1. Id(N) \in 0 .. Ids - 1 /\ Ids \in Nat  BY IdTyped, HalfIsHalf
  <2> QED  BY <2>1
<1>10. d \in Controllers
  <2>1. tr \in Seq(Packet) /\ se \in Seq(Packet)
    BY <1>4, <1>6 DEF SentRow, UpToNow
  <2> QED  BY <1>3, <1>9, <2>1 DEF Controllers
<1>11. NumbersOK(d, N + 1)
  <2>1. (N + 1) - 1 = N /\ N + 1 # 0  OBVIOUS
  <2> QED  BY <1>8, <1>9, <2>1 DEF NumbersOK
<1> QED  BY <1>6, <1>7, <1>8, <1>10, <1>11 DEF d, se, all

LEMMA SendKeeps ==
    ASSUME NEW N \in Nat, NEW t \in Nat, NEW c, ControllerInv(c, N, t), Room(c, N, t)
    PROVE  ControllerInv(ProcessSendPacket(c, t, N), N + 1, t)
<1> DEFINE d == ProcessSendPacket(c, t, N)
           p == [n |-> N, tx |-> t]
           all == Append(c.transit, p)
           tr == d.transit
<1>1. /\ c \in Controllers /\ c.sound /\ NumbersOK(c, N) /\ SentOK(c.sent, N, t)
      /\ TransitOK(c.transit, N, t) /\ HistoryOK(c.history, N, t) /\ LastOK(c, N)
      /\ c.sizeSum = Bytes(c.history) /\ Len(c.intervals) \in 1 .. 9
  BY DEF ControllerInv
<1>2. /\ d \in Controllers /\ NumbersOK(d, N + 1)
      /\ \E K \in SUBSET (1 .. Len(all)) : tr = From(all, K)
      /\ d.sent = Append(Without(c.sent, Id(N)), p)
      /\ d.lastRecv = c.lastRecv /\ d.history = c.history /\ d.sizeSum = c.sizeSum
      /\ d.expected = c.expected /\ d.intervals = c.intervals /\ d.sound = c.sound
  BY <1>1, SendIs DEF SentOK, TransitOK
<1>3. SentOK(d.sent, N + 1, t)
  <2>1. \A q \in Entries(c.sent) : q.tx + TransitAge >= t => N - q.n < Half
    BY <1>1, ControllerParts DEF Room, Entries
  <2>2. SentOK(Append(Without(c.sent, Id(N)), p), N + 1, t)  BY <1>1, <2>1, SentGrows
  <2> QED  BY <1>2, <2>2
<1> HIDE DEF d
<1>5. /\ TransitOK(tr, N + 1, t)
      /\ \A i \in 1 .. Len(tr) :
            tr[i].n = N \/ \E j \in 1 .. Len(c.transit) : tr[i].n = c.transit[j].n
  <2>1. \A i \in 1 .. Len(c.transit) : N - c.transit[i].n < Half
    BY <1>1, ControllerParts DEF Room
  <2>2. /\ TransitOK(all, N + 1, t)
        /\ \A i \in 1 .. Len(all) :
              all[i].n = N \/ \E j \in 1 .. Len(c.transit) : all[i].n = c.transit[j].n
    <3> DEFINE s == c.transit
    <3>1. TransitOK(s, N, t) /\ \A i \in 1 .. Len(s) : N - s[i].n < Half  BY <1>1, <2>1
    <3>2. all = Append(s, [n |-> N, tx |-> t])  OBVIOUS
    <3> HIDE DEF s, all
    <3>3. TransitOK(all, N + 1, t)  BY <3>1, <3>2, TransitGrows
    <3>4. \A i \in 1 .. Len(all) :
             all[i].n = N \/ \E j \in 1 .. Len(s) : all[i].n = s[j].n
      BY <3>1, <3>2, TransitGrows
    <3> QED  BY <3>3, <3>4 DEF s
  <2> HIDE DEF all, tr
  <2>3. PICK K \in SUBSET (1 .. Len(all)) : tr = From(all, K)  BY <1>2
  <2> DEFINE M == N + 1
  <2>4. M \in Nat /\ TransitOK(all, M, t)  BY <2>2
  <2> HIDE DEF M
  <2>5. /\ TransitOK(From(all, K), M, t)
        /\ \A i \in 1 .. Len(From(all, K)) : \E j \in 1 .. Len(all) : From(all, K)[i] = all[j]
    BY <2>4, TransitCut
  <2>6. ASSUME NEW i \in 1 .. Len(tr)
        PROVE  tr[i].n = N \/ \E j \in 1 .. Len(c.transit) : tr[i].n = c.transit[j].n
    <3>1. PICK k \in 1 .. Len(all) : tr[i] = all[k]  BY <2>3, <2>5
    <3>2. all[k].n = N \/ \E j \in 1 .. Len(c.transit) : all[k].n = c.transit[j].n
      BY <2>2
    <3> QED  BY <3>1, <3>2
  <2>7. TransitOK(tr, N + 1, t)  BY <2>3, <2>5 DEF M
  <2> QED  BY <2>6, <2>7
<1> HIDE DEF tr
<1>10. HistoryOK(c.history, N + 1, t)
  <2> DEFINE h == c.history
  <2>1. HistoryOK(h, N, t) /\ h \in Seq(FedBack)  BY <1>1 DEF HistoryOK
  <2>2. h # <<>> => N - h[1].n < Half  BY DEF Room
  <2> HIDE DEF h
  <2>3. h # <<>> => (N + 1) - h[1].n <= Half
    <3> SUFFICES ASSUME h # <<>>  PROVE (N + 1) - h[1].n <= Half  OBVIOUS
    <3>1. h[1].n \in Nat /\ Half \in Nat  BY <2>1, LastIsNear, HalfIsHalf
    <3> QED  BY <2>2, <3>1
  <2>4. \A i \in 1 .. Len(h) : h[i].n < N + 1 /\ h[i].counts \subseteq 0 .. (N + 1) - 1
    <3> SUFFICES ASSUME NEW i \in 1 .. Len(h)
                 PROVE  h[i].n < N + 1 /\ h[i].counts \subseteq 0 .. (N + 1) - 1
      OBVIOUS
    <3>1. h[i].n < N /\ h[i].counts \subseteq 0 .. N - 1 /\ h[i].n \in Nat
      BY <2>1, HistoryParts DEF HistoryOK
    <3>2. 0 .. N - 1 \subseteq 0 .. (N + 1) - 1  OBVIOUS
    <3> QED  BY <3>1, <3>2
  <2>5. HistoryOK(h, N + 1, t)  BY <2>1, <2>3, <2>4 DEF HistoryOK
  <2> QED  BY <2>5 DEF h
<1>11. LastOK(d, N + 1)
  <2>1. c.history = <<>> => N + 1 <= Ids
    <3>1. Ids \in Nat  BY HalfIsHalf
    <3> QED  BY <3>1 DEF Room
  <2>2. ASSUME c.history # <<>>, NEW i \in 1 .. Len(tr)  PROVE tr[i].n > Last(c.history).n
    <3>1. Last(c.history).n < N  BY <1>1, <2>2, LastIsNear
    <3>2. \A j \in 1 .. Len(c.transit) : c.transit[j].n > Last(c.history).n
      BY <1>1, <2>2 DEF LastOK
    <3> QED  BY <1>5, <2>2, <3>1, <3>2
  <2> QED  BY <1>1, <1>2, <2>1, <2>2 DEF LastOK, tr
<1> QED  BY <1>1, <1>2, <1>3, <1>5, <1>10, <1>11 DEF ControllerInv, d, tr

\* Sending, whatever numbers are in use.
LEMMA SendKeepsRow ==
    ASSUME NEW N \in Nat, NEW t \in Nat, NEW c, ControllerRow(c, N, t)
    PROVE  LET d == ProcessSendPacket(c, t, N)
               p == [n |-> N, tx |-> t]
           IN  /\ ControllerRow(d, N + 1, t)
               /\ Len(d.sent) = IF Len(c.sent) = Ids THEN Ids ELSE Len(c.sent) + 1
               /\ Entries(d.sent) \subseteq Entries(c.sent) \cup {p}
               /\ \A q \in Entries(c.sent) : N < q.n + Ids => q \in Entries(d.sent)
               /\ p \in Entries(d.sent)
<1> DEFINE d == ProcessSendPacket(c, t, N)
           p == [n |-> N, tx |-> t]
           h == c.history
<1>1. /\ c \in Controllers /\ c.sound /\ NumbersOK(c, N) /\ SentRow(c.sent, N, t)
      /\ UpToNow(c.transit, N, t) /\ HistoryRow(h, N, t)
      /\ c.sizeSum = Bytes(h) /\ Len(c.intervals) \in 1 .. 9
  BY DEF ControllerRow
<1>2. /\ d \in Controllers /\ NumbersOK(d, N + 1) /\ UpToNow(d.transit, N + 1, t)
      /\ d.sent = Append(Without(c.sent, Id(N)), p)
      /\ d.history = h /\ d.sizeSum = c.sizeSum
      /\ d.intervals = c.intervals /\ d.sound = c.sound
  BY <1>1, SendIs
<1>3. LET w == Append(Without(c.sent, Id(N)), p)
      IN  /\ SentRow(w, N + 1, t)
          /\ Len(w) = IF Len(c.sent) = Ids THEN Ids ELSE Len(c.sent) + 1
          /\ Entries(w) \subseteq Entries(c.sent) \cup {p}
          /\ \A q \in Entries(c.sent) : N < q.n + Ids => q \in Entries(w)
          /\ p \in Entries(w)
  BY <1>1, SentRowGrows
<1> HIDE DEF d, h, p
<1>4. HistoryRow(h, N + 1, t)
  <2>1. h \in Seq(FedBack)  BY <1>1 DEF HistoryRow
  <2>2. \A i \in 1 .. Len(h) : h[i].n < N + 1 /\ h[i].counts \subseteq 0 .. (N + 1) - 1
    <3> SUFFICES ASSUME NEW i \in 1 .. Len(h)
                 PROVE  h[i].n < N + 1 /\ h[i].counts \subseteq 0 .. (N + 1) - 1
      OBVIOUS
    <3>1. h[i].n < N /\ h[i].counts \subseteq 0 .. N - 1 /\ h[i].n \in Nat
      BY <1>1, <2>1, HistoryParts DEF HistoryRow
    <3>2. 0 .. N - 1 \subseteq 0 .. (N + 1) - 1  OBVIOUS
    <3> QED  BY <3>1, <3>2
  <2> QED  BY <1>1, <2>2 DEF HistoryRow
<1>5. ControllerRow(d, N + 1, t)  BY <1>1, <1>2, <1>3, <1>4 DEF ControllerRow
<1> QED  BY <1>2, <1>3, <1>5 DEF d, p

\* Time passes.
LEMMA LaterKeeps ==
    ASSUME NEW N \in Nat, NEW t \in Nat, NEW c, ControllerInv(c, N, t), NEW u \in Nat, t <= u
    PROVE  ControllerInv(c, N, u)
<1>1. SentOK(c.sent, N, t) /\ TransitOK(c.transit, N, t) /\ HistoryOK(c.history, N, t)
  BY DEF ControllerInv
<1>2. SentOK(c.sent, N, u)  BY <1>1, RowLater DEF SentOK, SentRow
<1>3. TransitOK(c.transit, N, u)  BY <1>1, RowLater DEF TransitOK
<1>4. HistoryOK(c.history, N, u)
  <2> DEFINE h == c.history
  <2>1. HistoryOK(h, N, t) /\ h \in Seq(FedBack)  BY <1>1 DEF HistoryOK
  <2> HIDE DEF h
  <2>2. \A i \in 1 .. Len(h) : h[i].tx <= u
    <3> SUFFICES ASSUME NEW i \in 1 .. Len(h)  PROVE h[i].tx <= u  OBVIOUS
    <3>1. h[i].tx \in Nat /\ h[i].tx <= t  BY <2>1, HistoryParts DEF HistoryOK
    <3> QED  BY <3>1
  <2>3. HistoryOK(h, N, u)  BY <2>1, <2>2 DEF HistoryOK
  <2> QED  BY <2>3 DEF h
<1> QED  BY <1>2, <1>3, <1>4 DEF ControllerInv

LEMMA LaterKeepsRow ==
    ASSUME NEW N \in Nat, NEW t \in Nat, NEW c, ControllerRow(c, N, t), NEW u \in Nat, t <= u
    PROVE  ControllerRow(c, N, u)
<1> DEFINE h == c.history
<1>1. SentRow(c.sent, N, u) /\ UpToNow(c.transit, N, u)
  BY RowLater DEF ControllerRow, SentRow
<1>2. HistoryRow(h, N, t) /\ h \in Seq(FedBack)  BY DEF ControllerRow, HistoryRow
<1> HIDE DEF h
<1>3. \A i \in 1 .. Len(h) : h[i].tx <= u
  <2> SUFFICES ASSUME NEW i \in 1 .. Len(h)  PROVE h[i].tx <= u  OBVIOUS
  <2>1. h[i].tx \in Nat /\ h[i].tx <= t  BY <1>2, HistoryParts DEF HistoryRow
  <2> QED  BY <2>1
<1>4. HistoryRow(h, N, u)  BY <1>2, <1>3 DEF HistoryRow
<1> QED  BY <1>1, <1>4 DEF ControllerRow, h

------------------------------------------------------------------------------
(* PrunTransitHistory. *)

LEMMA PruneKeeps ==
    ASSUME NEW N \in Nat, NEW t \in Nat, NEW c, ControllerInv(c, N, t), NEW seq \in Int,
           NEW e \in Entries(c.sent), Id(e.n) >= seq
    PROVE  LET d == PrunTransitHistory(c, seq)
           IN  /\ ControllerInv(d, N, t)
               /\ Entries(d.sent) \subseteq Entries(c.sent)
               /\ \A q \in Entries(c.sent) : e.n <= q.n => q \in Entries(d.sent)
<1> DEFINE s == c.sent
           K == {i \in DOMAIN s : Id(s[i].n) >= seq}
           r == From(s, K)
           d == PrunTransitHistory(c, seq)
<1>1. /\ c \in Controllers /\ c.sound /\ SentOK(s, N, t) /\ UpToNow(s, N, t)
      /\ s \in Seq(Packet) /\ DOMAIN s = 1 .. Len(s) /\ Len(s) \in Nat
  BY ControllerParts DEF ControllerInv, SentOK, SentRow
<1>2. d = [c EXCEPT !.sent = r, !.sound = @ /\ r # <<>>]  BY DEF PrunTransitHistory
<1>3. K \in SUBSET (1 .. Len(s))  BY <1>1
<1>4. PICK i \in 1 .. Len(s) : e = s[i]  BY DEF Entries
<1>5. i \in K  BY <1>1, <1>4
<1> HIDE DEF s, d
<1>6. PICK m \in K : Suffix(r, s, m) /\ \A k \in K : m <= k
  <2> HIDE DEF K, r
  <2>1. K # {} => \E m \in K : Suffix(r, s, m) /\ \A k \in K : m <= k
    BY <1>1, <1>3, FromIs DEF r
  <2> QED  BY <1>5, <2>1
<1>7. r \in Seq(Packet)
  <2> HIDE DEF K, r
  <2> QED  BY <1>1, <1>3, FromIs DEF r
<1>8. m \in 1 .. Len(s) /\ m <= i  BY <1>3, <1>5, <1>6
<1> HIDE DEF K, r
<1>9. UpToNow(r, N, t)  BY <1>1, <1>6, <1>7, RowSuffix
<1>10. Entries(r) \subseteq Entries(s) /\ \A j \in m .. Len(s) : s[j] \in Entries(r)
  BY <1>1, <1>6, <1>7, SuffixEntries
<1>11. Len(r) \in 1 .. Len(s) /\ r # <<>>
  <2>1. Len(r) = Len(s) - m + 1  BY <1>6 DEF Suffix
  <2>2. Len(r) \in 1 .. Len(s)  BY <1>1, <1>8, <2>1
  <2>3. Len(r) # 0  BY <1>1, <2>2
  <2> QED  BY <2>2, <2>3, EmptySeq
<1>12. SentOK(r, N, t)
  <2>1. Len(r) <= Ids
    <3>1. Len(s) <= Ids /\ Ids \in Nat  BY <1>1, HalfIsHalf DEF SentOK, SentRow
    <3> QED  BY <1>1, <1>11, <3>1
  <2>2. Spaced(r)  BY <1>1, <1>10 DEF SentOK, Spaced
  <2> QED  BY <1>9, <1>11, <2>1, <2>2 DEF SentOK, SentRow
<1>13. ASSUME NEW q \in Entries(s), e.n <= q.n  PROVE q \in Entries(r)
  <2>1. PICK j \in 1 .. Len(s) : q = s[j]  BY DEF Entries
  <2>2. q.n = N - Len(s) + j - 1 /\ e.n = N - Len(s) + i - 1
    <3>1. /\ s[i].n = N - Len(s) + i - 1
          /\ s[j].n = N - Len(s) + j - 1
      BY ONLY <1>1, RowNumbers, N \in Nat, t \in Nat, i \in 1 .. Len(s), j \in 1 .. Len(s)
    <3> QED  BY ONLY <1>4, <2>1, <3>1
  <2>3. j \in m .. Len(s)
    BY ONLY <1>1, <1>8, <1>13, <2>2, N \in Nat, i \in 1 .. Len(s), j \in 1 .. Len(s)
  <2> QED  BY <1>10, <2>1, <2>3
<1>14. /\ d.sent = r /\ d.sound = c.sound /\ d \in Controllers
       /\ d.firstSend = c.firstSend /\ d.lastSequence = c.lastSequence
       /\ d.lastRecv = c.lastRecv /\ d.transit = c.transit /\ d.history = c.history
       /\ d.sizeSum = c.sizeSum /\ d.expected = c.expected /\ d.intervals = c.intervals
  <2>1. d = [c EXCEPT !.sent = r, !.sound = c.sound]
    BY <1>1, <1>2, <1>11, ControllerParts
  <2> QED  BY <1>1, <1>7, <2>1 DEF Controllers
<1>15. ControllerInv(d, N, t)
  BY <1>12, <1>14 DEF ControllerInv, NumbersOK, LastOK
<1> QED  BY <1>10, <1>13, <1>14, <1>15 DEF d, s

------------------------------------------------------------------------------
(* processFeedback. *)

\* updateInterLossData: the packet is not before the expected one.
LEMMA UpdateKeeps ==
    ASSUME NEW c \in Controllers, c.sound, Len(c.intervals) \in 1 .. 9, NEW n \in Nat,
           NEW l \in Nat,
           c.history # <<>> => c.expected = Id(l + 1) /\ l < n /\ n - l <= Half
    PROVE  LET e == UpdateInterLossData(c, Id(n))
           IN  /\ e \in Controllers /\ e.sound /\ Len(e.intervals) \in 1 .. 9
               /\ e.expected = Id(n + 1)
               /\ e.firstSend = c.firstSend /\ e.lastSequence = c.lastSequence
               /\ e.lastRecv = c.lastRecv /\ e.transit = c.transit /\ e.sent = c.sent
               /\ e.history = c.history /\ e.sizeSum = c.sizeSum
<1> DEFINE seq == Id(n)
           expected  == IF c.history = <<>> THEN seq ELSE c.expected
           intervals == IF c.history = <<>> THEN <<0>> ELSE c.intervals
           longer    == <<1>> \o intervals
           more      == [intervals EXCEPT ![1] = @ + 1]
           cut       == IF Len(longer) > 9 THEN SubSeq(longer, 1, 9) ELSE longer
           e == UpdateInterLossData(c, Id(n))
<1>1. intervals \in Seq(Nat) /\ Len(intervals) \in 1 .. 9
  <2>1. <<0>> \in Seq(Nat) /\ Len(<<0>>) = 1  OBVIOUS
  <2> QED  BY <2>1, ControllerParts
<1>2. (seq + 1) % Ids = Id(n + 1) /\ Id(n + 1) \in Nat
  <2>1. Id(n + 1) \in 0 .. Ids - 1 /\ Ids \in Nat  BY IdTyped, HalfIsHalf
  <2> QED  BY <2>1, IdNext
<1>3. seq # expected => LessThan(expected, seq)
  <2> SUFFICES ASSUME seq # expected  PROVE LessThan(expected, seq)  OBVIOUS
  <2>1. c.history # <<>> /\ expected = Id(l + 1) /\ l < n /\ n - l <= Half
    OBVIOUS
  <2>2. l + 1 # n  BY <2>1
  <2>3. l + 1 < n /\ n - (l + 1) < Half /\ (l + 1) - n <= Half /\ l + 1 \in Int
    <3>1. Half \in Nat  BY HalfIsHalf
    <3> QED  BY <2>1, <2>2, <3>1
  <2> QED  BY <2>1, <2>3, CloseIds
<1>4. e = IF seq = expected
          THEN [c EXCEPT !.expected = (seq + 1) % Ids, !.intervals = more]
          ELSE [c EXCEPT !.expected = (seq + 1) % Ids, !.intervals = cut,
                         !.sound = @ /\ LessThan(expected, seq)]
  BY DEF UpdateInterLossData
<1>5. more \in Seq(Nat) /\ Len(more) = Len(intervals)
  <2> HIDE DEF intervals
  <2>1. 1 \in 1 .. Len(intervals)
    <3>1. \A b \in 1 .. 9 : 1 \in 1 .. b  OBVIOUS
    <3> QED  BY <1>1, <3>1
  <2> DEFINE k == intervals[1] + 1
  <2>2. k \in Nat
    <3>1. intervals[1] \in Nat  BY <1>1, <2>1, ElementOfSeq
    <3> QED  BY <3>1
  <2>3. more = [intervals EXCEPT ![1] = k]  OBVIOUS
  <2> HIDE DEF k, more
  <2> QED  BY <1>1, <2>1, <2>2, <2>3, ExceptSeq
<1>6. cut \in Seq(Nat) /\ Len(cut) \in 1 .. 9
  <2> HIDE DEF intervals
  <2>1. longer \in Seq(Nat) /\ Len(longer) = 1 + Len(intervals)
    <3>1. <<1>> \in Seq(Nat) /\ Len(<<1>>) = 1  OBVIOUS
    <3> QED  BY <1>1, <3>1, ConcatProperties
  <2> HIDE DEF longer
  <2>2. CASE Len(longer) > 9
    <3>1. \A i \in 1 .. 9 : longer[i] \in Nat
      <4>1. \A i \in 1 .. 9 : i \in 1 .. Len(longer)  BY <1>1, <2>1, <2>2
      <4> QED  BY <2>1, <4>1, ElementOfSeq
    <3>2. /\ SubSeq(longer, 1, 9) \in Seq(Nat)
          /\ Len(SubSeq(longer, 1, 9)) = IF 1 <= 9 THEN 9 - 1 + 1 ELSE 0
      BY <3>1, SubSeqProperties
    <3> QED  BY <2>2, <3>2
  <2>3. CASE ~(Len(longer) > 9)
    <3>1. cut = longer  BY <2>3
    <3>2. Len(longer) \in 1 .. 9
      <4>1. \A a \in 1 .. 9 : ~(1 + a > 9) => 1 + a \in 1 .. 9  OBVIOUS
      <4> QED  BY <1>1, <2>1, <2>3, <4>1
    <3> QED  BY <2>1, <3>1, <3>2
  <2> QED  BY <2>2, <2>3
<1> HIDE DEF e, seq, expected, intervals, more, cut, longer
<1>7. CASE seq = expected
  <2>1. e = [c EXCEPT !.expected = Id(n + 1), !.intervals = more]  BY <1>2, <1>4, <1>7
  <2> QED  BY <1>1, <1>2, <1>5, <2>1 DEF Controllers, e
<1>8. CASE seq # expected
  <2>1. e = [c EXCEPT !.expected = Id(n + 1), !.intervals = cut, !.sound = TRUE]
    BY <1>2, <1>3, <1>4, <1>8
  <2> QED  BY <1>2, <1>6, <2>1 DEF Controllers, e
<1> QED  BY <1>7, <1>8

\* An acknowledged packet answers for packets up to it and, l being the last
\* one that was fed back, after l; before the numbers wrap, also without one.
LEMMA CountsAreNew ==
    ASSUME NEW N \in Nat, NEW t \in Nat, NEW c \in Controllers, SentOK(c.sent, N, t),
           NEW n \in 0 .. N - 1, NEW l \in Nat,
           N <= Ids \/ (c.lastRecv = Id(l) /\ l < n /\ N - l <= Half)
    PROVE  LET C == PseudoSize(c, t, Id(n))
           IN  /\ C \in SUBSET Nat /\ IsFiniteSet(C) /\ C \subseteq 0 .. N - 1
               /\ \A x \in C : x <= n
               /\ c.lastRecv = Id(l) /\ l < n /\ N - l <= Half => \A x \in C : x > l
<1> DEFINE C == PseudoSize(c, t, Id(n))
<1>1. Ids \in Nat \ {0} /\ Half \in Nat \ {0} /\ Ids = Half + Half  BY HalfIsHalf
<1>2. ASSUME NEW x \in C
      PROVE  /\ x \in Nat /\ x < N /\ N - Ids <= x
             /\ c.lastRecv < Id(x) /\ Id(x) <= Id(n)
  <2>1. PICK i \in 1 .. Len(c.sent) : /\ x = c.sent[i].n
                                      /\ Id(c.sent[i].n) > c.lastRecv
                                      /\ Id(c.sent[i].n) <= Id(n)
    BY DEF PseudoSize
  <2> DEFINE s == c.sent
             L == Len(s)
  <2>2. x \in Nat /\ x = N - L + i - 1 /\ x < N /\ L \in Nat /\ L <= Ids /\ i \in 1 .. L
    <3>1. UpToNow(s, N, t) /\ L <= Ids /\ i \in 1 .. L /\ x = s[i].n  BY <2>1 DEF SentOK, SentRow
    <3> HIDE DEF s
    <3>2. /\ Len(s) \in 0 .. N
          /\ \A k \in 1 .. Len(s) : s[k].n \in Nat /\ s[k].n = N - Len(s) + k - 1 /\ s[k].n < N
      BY ONLY <3>1, Row, N \in Nat, t \in Nat
    <3> HIDE DEF C
    <3> QED  BY ONLY <3>1, <3>2, N \in Nat
  <2>3. N - Ids <= x
    <3> HIDE DEF L
    <3> QED  BY ONLY <1>1, <2>2, N \in Nat
  <2>4. Id(x) \in 0 .. Ids - 1
    <3>1. x \in Int  BY <2>2
    <3> QED  BY <3>1, IdTyped
  <2>5. c.lastRecv \in Nat  BY ControllerParts
  <2>6. c.lastRecv < Id(x)  BY <1>1, <2>1, <2>4, <2>5
  <2> QED  BY <2>1, <2>2, <2>3, <2>6
<1> HIDE DEF C
<1>3. C \subseteq 0 .. N - 1 /\ C \in SUBSET Nat  BY <1>2
<1>4. IsFiniteSet(C)
  <2>1. IsFiniteSet(0 .. N - 1)
    <3>1. 0 \in Int /\ N - 1 \in Int  OBVIOUS
    <3> QED  BY <3>1, FS_Interval
  <2>2. C \in SUBSET (0 .. N - 1)  BY <1>3
  <2> QED  BY <2>1, <2>2, FS_Subset
<1>5. ASSUME c.lastRecv = Id(l), l < n, N - l <= Half, NEW x \in C
      PROVE  l < x /\ x <= n
  <2>1. /\ l \in Int /\ n \in Int /\ x \in Int /\ l <= n /\ n - l < Ids
        /\ x <= l + Ids /\ n - Ids < x
    BY <1>1, <1>2, <1>5
  <2> QED  BY <1>2, <1>5, <2>1, IdsBetween
<1>6. ASSUME N <= Ids, NEW x \in C  PROVE x <= n
  <2>1. \A k \in 0 .. N - 1 : Id(k) = k
    <3> SUFFICES ASSUME NEW k \in 0 .. N - 1  PROVE Id(k) = k  OBVIOUS
    <3>1. k \in 0 .. Ids - 1 /\ k = Ids * 0 + k /\ 0 \in Int  BY <1>1, <1>6
    <3> QED  BY <1>1, <3>1, SmallRemainder DEF Id
  <2>2. Id(x) = x /\ Id(n) = n  BY <1>3, <2>1
  <2> QED  BY <1>2, <2>2
<1>7. \A x \in C : x <= n  BY <1>5, <1>6
<1>8. c.lastRecv = Id(l) /\ l < n /\ N - l <= Half => \A x \in C : x > l
  <2> SUFFICES ASSUME c.lastRecv = Id(l), l < n, N - l <= Half, NEW x \in C  PROVE x > l
    OBVIOUS
  <2>1. l < x /\ x \in Nat  BY <1>2, <1>5
  <2> QED  BY <2>1
<1> QED  BY <1>3, <1>4, <1>7, <1>8 DEF C

\* A packet is added to the history.
LEMMA HistoryGrows ==
    ASSUME NEW h, NEW N \in Nat, NEW t \in Nat, HistoryOK(h, N, t),
           NEW p \in FedBack, p.n < N, p.tx <= t, p.counts \subseteq 0 .. N - 1,
           N - p.n <= Half, \A x \in p.counts : x <= p.n,
           h # <<>> => Last(h).n < p.n /\ \A x \in p.counts : x > Last(h).n
    PROVE  LET w == Append(h, p)
           IN  /\ HistoryOK(w, N, t) /\ Last(w) = p
               /\ Len(w) = Len(h) + 1 /\ w[Len(h) + 1] = p
<1> DEFINE w == Append(h, p)
<1>1. h \in Seq(FedBack)  BY DEF HistoryOK
<1>2. /\ Len(h) \in Nat /\ (h = <<>> <=> Len(h) = 0)
      /\ \A i \in 1 .. Len(h) : h[i].n \in Nat
  BY <1>1, HistoryParts
<1>3. /\ w \in Seq(FedBack) /\ Len(w) = Len(h) + 1 /\ w[Len(h) + 1] = p
      /\ \A i \in 1 .. Len(h) : w[i] = h[i]
  BY <1>1, AppendProperties
<1> HIDE DEF w
<1>4. p.n \in Nat /\ p.counts \subseteq Nat  BY DEF FedBack
<1>5. Last(w) = p  BY <1>3 DEF Last
<1>6. ASSUME NEW i \in 1 .. Len(w)  PROVE i = Len(h) + 1 \/ i \in 1 .. Len(h)
  BY <1>2, <1>3
<1>7. \A i \in 1 .. Len(h) : h[i].n <= Last(h).n /\ Last(h).n < p.n /\ Last(h).n \in Nat
                             /\ h[i].n + (Len(h) - i) <= Last(h).n
  <2> SUFFICES ASSUME NEW i \in 1 .. Len(h)
               PROVE  h[i].n <= Last(h).n /\ Last(h).n < p.n /\ Last(h).n \in Nat
                      /\ h[i].n + (Len(h) - i) <= Last(h).n
    OBVIOUS
  <2>1. h # <<>>  BY <1>2
  <2>2. Last(h).n \in Nat /\ h[i].n <= Last(h).n /\ Last(h) = h[Len(h)]
    BY <2>1, LastIsNear DEF Last
  <2>3. h[i].n + (Len(h) - i) <= Last(h).n
    <3>1. CASE i = Len(h)  BY <1>2, <2>2, <3>1
    <3>2. CASE i < Len(h)
      <4>1. Len(h) \in 1 .. Len(h)  BY <1>2, <3>2
      <4> QED  BY <2>2, <3>2, <4>1 DEF HistoryOK
    <3> QED  BY <1>2, <3>1, <3>2
  <2> QED  BY <2>1, <2>2, <2>3
<1>8. ASSUME NEW i \in 1 .. Len(w)
      PROVE  w[i].n < N /\ w[i].tx <= t /\ w[i].counts \subseteq 0 .. N - 1
  BY <1>3, <1>6 DEF HistoryOK
<1>9. ASSUME NEW i \in 1 .. Len(w), NEW j \in 1 .. Len(w), i < j
      PROVE  w[i].n + (j - i) <= w[j].n
  <2>1. CASE j = Len(h) + 1
    <3>1. i \in 1 .. Len(h)  BY <1>2, <1>9, <2>1
    <3>2. w[i] = h[i] /\ w[j] = p  BY <1>3, <2>1, <3>1
    <3>3. h[i].n + (Len(h) - i) <= Last(h).n /\ Last(h).n < p.n /\ Last(h).n \in Nat
      BY <1>7, <3>1
    <3>4. /\ i \in Nat /\ Len(h) \in Nat /\ j = Len(h) + 1
          /\ h[i].n \in Nat /\ p.n \in Nat
      BY <1>2, <1>4, <2>1, <3>1
    <3>5. h[i].n + (j - i) <= p.n
      <4> DEFINE x == h[i].n
                 y == Last(h).n
                 z == p.n
                 k == Len(h)
      <4>1. /\ x \in Nat /\ y \in Nat /\ z \in Nat /\ k \in Nat /\ i \in Nat
            /\ j = k + 1 /\ x + (k - i) <= y /\ y < z
        BY <3>3, <3>4
      <4> HIDE DEF x, y, z, k
      <4>2. x + (j - i) <= z  BY ONLY <4>1
      <4> QED  BY <4>2 DEF x, z
    <3> QED  BY <3>2, <3>5
  <2>2. CASE j \in 1 .. Len(h)
    <3>1. i \in 1 .. Len(h)  BY <1>2, <1>9, <2>2
    <3> QED  BY <1>3, <1>9, <2>2, <3>1 DEF HistoryOK
  <2> QED  BY <1>6, <2>1, <2>2
<1>10. N - w[1].n <= Half
  <2>1. CASE h = <<>>
    <3>1. w[1] = p  BY <1>2, <1>3, <2>1
    <3> QED  BY <3>1
  <2>2. CASE h # <<>>
    <3>1. 1 \in 1 .. Len(h)  BY <1>2, <2>2
    <3> QED  BY <1>3, <2>2, <3>1 DEF HistoryOK
  <2> QED  BY <2>1, <2>2
<1>11. ASSUME NEW i \in 1 .. Len(w), NEW x \in w[i].counts
       PROVE  x <= w[i].n /\ \A j \in 1 .. i - 1 : x > w[j].n
  <2>1. CASE i = Len(h) + 1
    <3>1. w[i] = p /\ i - 1 = Len(h)  BY <1>2, <1>3, <2>1
    <3>2. ASSUME NEW j \in 1 .. Len(h)  PROVE x > w[j].n
      <4>1. w[j] = h[j] /\ h[j].n <= Last(h).n /\ h[j].n \in Nat /\ Last(h).n \in Nat
        BY <1>2, <1>3, <1>7
      <4>2. h # <<>>  BY <1>2
      <4>3. x > Last(h).n /\ x \in Nat  BY <1>4, <1>11, <3>1, <4>2
      <4> QED  BY <4>1, <4>3
    <3> QED  BY <1>11, <3>1, <3>2
  <2>2. CASE i \in 1 .. Len(h)
    <3>1. w[i] = h[i] /\ \A j \in 1 .. i - 1 : j \in 1 .. Len(h) /\ w[j] = h[j]
      BY <1>2, <1>3, <2>2
    <3>2. x <= h[i].n /\ \A j \in 1 .. i - 1 : x > h[j].n
      BY <1>11, <2>2, <3>1 DEF HistoryOK
    <3> QED  BY <3>1, <3>2
  <2> QED  BY <1>6, <2>1, <2>2
<1>12. HistoryOK(w, N, t)  BY <1>3, <1>8, <1>9, <1>10, <1>11 DEF HistoryOK
<1> QED  BY <1>3, <1>5, <1>12 DEF w

\* Packets leave the history at its front.
LEMMA HistoryCut ==
    ASSUME NEW h, NEW N \in Nat, NEW t \in Nat, HistoryOK(h, N, t),
           NEW r \in Seq(FedBack), NEW m, Suffix(r, h, m), m <= Len(h)
    PROVE  HistoryOK(r, N, t) /\ r # <<>> /\ Last(r) = Last(h)
<1>1. /\ h \in Seq(FedBack) /\ Len(h) \in Nat /\ \A i \in 1 .. Len(h) : h[i].n \in Nat
  BY HistoryParts DEF HistoryOK
<1>2. /\ m \in 1 .. Len(h) /\ Len(r) = Len(h) - m + 1
      /\ \A i \in 1 .. Len(r) : r[i] = h[m + i - 1]
  BY <1>1 DEF Suffix
<1>3. \A i \in 1 .. Len(r) : m + i - 1 \in 1 .. Len(h)  BY <1>1, <1>2
<1>4. Len(r) \in 1 .. Len(r) /\ 1 \in 1 .. Len(r) /\ m + Len(r) - 1 = Len(h) /\ m + 1 - 1 = m
  BY <1>1, <1>2
<1>5. r # <<>> /\ h # <<>>
  <2>1. Len(r) # 0 /\ Len(h) # 0  BY <1>1, <1>2
  <2> QED  BY <2>1, EmptySeq
<1>6. Last(r) = Last(h)
  <2>1. r[Len(r)] = h[Len(h)]  BY <1>2, <1>4
  <2> QED  BY <2>1 DEF Last
<1>7. \A i \in 1 .. Len(r) : r[i].n < N /\ r[i].tx <= t /\ r[i].counts \subseteq 0 .. N - 1
  BY <1>2, <1>3 DEF HistoryOK
<1>8. ASSUME NEW i \in 1 .. Len(r), NEW j \in 1 .. Len(r), i < j
      PROVE  r[i].n + (j - i) <= r[j].n
  <2>1. m + i - 1 \in 1 .. Len(h) /\ m + j - 1 \in 1 .. Len(h) /\ m + i - 1 < m + j - 1
        /\ (m + j - 1) - (m + i - 1) = j - i
    BY <1>1, <1>2, <1>3, <1>8
  <2>2. h[m + i - 1].n + ((m + j - 1) - (m + i - 1)) <= h[m + j - 1].n
    BY <2>1 DEF HistoryOK
  <2> QED  BY <1>2, <2>1, <2>2
<1>9. N - r[1].n <= Half
  <2>1. r[1] = h[m]  BY <1>2, <1>4
  <2>2. h[1].n <= h[m].n /\ h[1].n \in Nat /\ h[m].n \in Nat
    <3>1. 1 \in 1 .. Len(h)  BY <1>2
    <3>2. CASE m = 1  BY <1>1, <3>1, <3>2
    <3>3. CASE 1 < m
      <4>1. h[1].n + (m - 1) <= h[m].n  BY <1>2, <3>1, <3>3 DEF HistoryOK
      <4>2. h[1].n \in Nat /\ h[m].n \in Nat /\ m \in Nat  BY <1>1, <1>2, <3>1
      <4> QED  BY ONLY <3>3, <4>1, <4>2
    <3> QED  BY <1>1, <1>2, <3>2, <3>3
  <2>3. N - h[1].n <= Half /\ Half \in Nat  BY <1>5, HalfIsHalf DEF HistoryOK
  <2> QED  BY ONLY <2>1, <2>2, <2>3, N \in Nat
<1>10. ASSUME NEW i \in 1 .. Len(r), NEW x \in r[i].counts
       PROVE  x <= r[i].n /\ \A j \in 1 .. i - 1 : x > r[j].n
  <2>1. x \in h[m + i - 1].counts /\ m + i - 1 \in 1 .. Len(h) /\ r[i] = h[m + i - 1]
    BY <1>2, <1>3, <1>10
  <2>2. x <= h[m + i - 1].n /\ \A j \in 1 .. (m + i - 1) - 1 : x > h[j].n
    BY <2>1 DEF HistoryOK
  <2>3. ASSUME NEW j \in 1 .. i - 1  PROVE x > r[j].n
    <3>1. j \in 1 .. Len(r) /\ m + j - 1 \in 1 .. (m + i - 1) - 1  BY <1>1, <1>2
    <3> QED  BY <1>2, <2>2, <3>1
  <2> QED  BY <2>1, <2>2, <2>3
<1>11. HistoryOK(r, N, t)  BY <1>7, <1>8, <1>9, <1>10 DEF HistoryOK
<1> QED  BY <1>5, <1>6, <1>11

LEMMA AcceptedKeeps ==
    ASSUME NEW N \in Nat, NEW t \in Nat, NEW c, ControllerInv(c, N, t),
           NEW p \in Packet, p.n < N, p.tx <= t, N - p.n <= Half,
           c.history # <<>> => Last(c.history).n < p.n,
           \A i \in 1 .. Len(c.transit) : c.transit[i].n > p.n
    PROVE  LET f == Accepted(c, t, p)
           IN  ControllerInv(f, N, t) /\ f.sent = c.sent
<1> DEFINE h == c.history
           l == IF h = <<>> THEN 0 ELSE Last(h).n
           obsolete == h # <<>> /\ Last(h).tx + MaxInterPacket < p.tx
           d == IF obsolete THEN [c EXCEPT !.history = <<>>, !.sizeSum = 0] ELSE c
           e == UpdateInterLossData(d, Id(p.n))
           counts == PseudoSize(e, t, Id(p.n))
           r == [n |-> p.n, tx |-> p.tx, counts |-> counts]
           longer == Append(e.history, r)
           K == {i \in DOMAIN longer : p.tx < longer[i].tx + HistoryLength}
           kept == From(longer, K)
           f == Counted(e, t, p)
<1>1. Accepted(c, t, p) = IF h # <<>> /\ p.tx < Last(h).tx THEN c ELSE f  BY DEF Accepted
<1>2. /\ c \in Controllers /\ c.sound /\ NumbersOK(c, N) /\ SentOK(c.sent, N, t)
      /\ TransitOK(c.transit, N, t) /\ HistoryOK(h, N, t) /\ LastOK(c, N)
      /\ c.sizeSum = Bytes(h) /\ Len(c.intervals) \in 1 .. 9
  BY DEF ControllerInv
<1>3. p.n \in Nat /\ p.tx \in Nat /\ p.n \in 0 .. N - 1
  <2>1. p.n \in Nat /\ p.tx \in Nat  BY DEF Packet
  <2> QED  BY <2>1
<1>4. /\ l \in Nat
      /\ h # <<>> => /\ l = Last(h).n /\ l < p.n /\ p.n - l <= Half /\ N - l <= Half
                     /\ c.lastRecv = Id(l) /\ c.expected = Id(l + 1)
      /\ h = <<>> => N <= Ids
  <2>1. CASE h = <<>>  BY <1>2, <2>1 DEF LastOK
  <2>2. CASE h # <<>>
    <3>1. l = Last(h).n /\ l < p.n /\ c.lastRecv = Id(l) /\ c.expected = Id(l + 1)
      BY <1>2, <2>2 DEF LastOK
    <3>2. /\ l \in Nat /\ h[1].n \in Nat /\ Len(h) \in 1 .. Len(h)
          /\ h[1].n <= l /\ N - h[1].n <= Half
      <4>1. 1 \in 1 .. Len(h) /\ Len(h) \in 1 .. Len(h)
        BY <1>2, <2>2, HistoryParts DEF HistoryOK
      <4> QED  BY <1>2, <2>2, <3>1, <4>1, LastIsNear
    <3>3. N - l <= Half /\ p.n - l <= Half
      <4>1. Half \in Nat  BY HalfIsHalf
      <4> DEFINE a == h[1].n
      <4>2. a \in Nat /\ a <= l /\ N - a <= Half  BY <3>2
      <4> HIDE DEF a, l, h
      <4> QED  BY <1>3, <3>2, <4>1, <4>2
    <3> QED  BY <2>2, <3>1, <3>2, <3>3
  <2> QED  BY <2>1, <2>2
<1>5. /\ d \in Controllers /\ d.sound /\ Len(d.intervals) \in 1 .. 9
      /\ d.history = h \/ d.history = <<>>
      /\ d.sizeSum = Bytes(d.history) /\ HistoryOK(d.history, N, t)
      /\ d.firstSend = c.firstSend /\ d.lastSequence = c.lastSequence
      /\ d.lastRecv = c.lastRecv /\ d.transit = c.transit /\ d.sent = c.sent
      /\ d.expected = c.expected
  <2>1. CASE ~obsolete  BY <1>2, <2>1
  <2>2. CASE obsolete
    <3>1. <<>> \in Seq(FedBack) /\ 0 \in Int /\ Len(<<>>) = 0  OBVIOUS
    <3>2. d = [c EXCEPT !.history = <<>>, !.sizeSum = 0]  BY <2>2
    <3> HIDE DEF d
    <3>3. /\ d \in Controllers /\ d.history = <<>> /\ d.sizeSum = 0
          /\ d.firstSend = c.firstSend /\ d.lastSequence = c.lastSequence
          /\ d.lastRecv = c.lastRecv /\ d.transit = c.transit /\ d.sent = c.sent
          /\ d.expected = c.expected /\ d.sound = c.sound /\ d.intervals = c.intervals
      BY <1>2, <3>1, <3>2 DEF Controllers
    <3>4. HistoryOK(<<>>, N, t)  BY <3>1 DEF HistoryOK
    <3> QED  BY <1>2, <3>3, <3>4, BytesOfNone
  <2> QED  BY <2>1, <2>2
<1> HIDE DEF d
<1>6. /\ e \in Controllers /\ e.sound /\ Len(e.intervals) \in 1 .. 9
      /\ e.expected = Id(p.n + 1)
      /\ e.firstSend = c.firstSend /\ e.lastSequence = c.lastSequence
      /\ e.lastRecv = c.lastRecv /\ e.transit = c.transit /\ e.sent = c.sent
      /\ e.history = d.history /\ e.sizeSum = d.sizeSum
  <2> DEFINE n == p.n
             k == l
  <2>1. d.history # <<>> => d.expected = Id(k + 1) /\ k < n /\ n - k <= Half  BY <1>4, <1>5
  <2>2. n \in Nat /\ k \in Nat  BY <1>3, <1>4
  <2> HIDE DEF n, k, e
  <2>3. /\ e \in Controllers /\ e.sound /\ Len(e.intervals) \in 1 .. 9
        /\ e.expected = Id(n + 1)
        /\ e.firstSend = d.firstSend /\ e.lastSequence = d.lastSequence
        /\ e.lastRecv = d.lastRecv /\ e.transit = d.transit /\ e.sent = d.sent
        /\ e.history = d.history /\ e.sizeSum = d.sizeSum
    BY <1>5, <2>1, <2>2, UpdateKeeps DEF e, n
  <2> QED  BY <1>5, <2>3 DEF n
<1> HIDE DEF e
<1>7. /\ counts \in SUBSET Nat /\ IsFiniteSet(counts) /\ counts \subseteq 0 .. N - 1
      /\ \A x \in counts : x <= p.n
      /\ h # <<>> => \A x \in counts : x > l
  <2> DEFINE n == p.n
             k == l
  <2>1. n \in 0 .. N - 1 /\ k \in Nat /\ SentOK(e.sent, N, t)  BY <1>2, <1>3, <1>4, <1>6
  <2>2. N <= Ids \/ (e.lastRecv = Id(k) /\ k < n /\ N - k <= Half)
    BY <1>4, <1>6
  <2>3. h # <<>> => e.lastRecv = Id(k) /\ k < n /\ N - k <= Half  BY <1>4, <1>6
  <2> HIDE DEF n, k, h
  <2>4. LET C == PseudoSize(e, t, Id(n))
        IN  /\ C \in SUBSET Nat /\ IsFiniteSet(C) /\ C \subseteq 0 .. N - 1
            /\ \A x \in C : x <= n
            /\ e.lastRecv = Id(k) /\ k < n /\ N - k <= Half => \A x \in C : x > k
    BY <1>6, <2>1, <2>2, CountsAreNew
  <2> QED  BY <2>3, <2>4 DEF n, k
<1> HIDE DEF counts
<1>8. r \in FedBack /\ r.n = p.n /\ r.tx = p.tx /\ r.counts = counts
  BY <1>3, <1>7 DEF FedBack
<1> DEFINE g == e.history
<1>9. g # <<>> => g = h  BY <1>5, <1>6
<1>10. HistoryOK(g, N, t) /\ g \in Seq(FedBack) /\ e.sizeSum = Bytes(g)
  BY <1>5, <1>6 DEF HistoryOK
<1>11. g # <<>> => Last(g).n < p.n /\ \A x \in counts : x > Last(g).n
  BY <1>4, <1>7, <1>9
<1> HIDE DEF r, g
<1>12. /\ HistoryOK(longer, N, t) /\ Last(longer) = r
       /\ Len(longer) = Len(g) + 1 /\ longer[Len(g) + 1] = r
  <2>1. longer = Append(g, r)  BY DEF g
  <2> HIDE DEF longer
  <2>2. /\ r.n < N /\ r.tx <= t /\ r.counts \subseteq 0 .. N - 1 /\ N - r.n <= Half
        /\ \A x \in r.counts : x <= r.n
        /\ g # <<>> => Last(g).n < r.n /\ \A x \in r.counts : x > Last(g).n
    BY <1>7, <1>8, <1>11
  <2>3. LET w == Append(g, r)
        IN  /\ HistoryOK(w, N, t) /\ Last(w) = r
            /\ Len(w) = Len(g) + 1 /\ w[Len(g) + 1] = r
    BY <1>8, <1>10, <2>2, HistoryGrows
  <2> QED  BY <2>1, <2>3
<1>13. Bytes(longer) = Bytes(g) + Cardinality(counts) /\ Bytes(g) \in Nat
  BY <1>8, <1>10, BytesOfAppend DEF g
<1> HIDE DEF longer
<1>14. longer \in Seq(FedBack) /\ DOMAIN longer = 1 .. Len(longer) /\ Len(longer) \in Nat
       /\ Len(g) \in Nat
  <2>1. longer \in Seq(FedBack)  BY <1>12 DEF HistoryOK
  <2> QED  BY <1>10, <2>1, LenProperties
<1>15. K \in SUBSET (1 .. Len(longer)) /\ Len(longer) \in K
  <2>1. Len(longer) \in 1 .. Len(longer) /\ longer[Len(longer)] = r  BY <1>12, <1>14
  <2>2. p.tx < r.tx + HistoryLength
    <3>1. HistoryLength \in Nat \ {0}  BY ControllerAssumption
    <3> QED  BY <1>3, <1>8, <3>1
  <2> QED  BY <1>14, <2>1, <2>2
<1> HIDE DEF K
<1>16. kept \in Seq(FedBack) /\ \E m \in K : Suffix(kept, longer, m)
  <2> DEFINE k == From(longer, K)
  <2>1. /\ k \in Seq(FedBack)
        /\ K # {} => \E m \in K : Suffix(k, longer, m)
    BY <1>14, <1>15, FromIs
  <2> QED  BY <1>15, <2>1
<1> HIDE DEF kept
<1>17. HistoryOK(kept, N, t) /\ kept # <<>> /\ Last(kept) = r
  <2>1. PICK m \in K : Suffix(kept, longer, m)  BY <1>16
  <2>2. m <= Len(longer)  BY <1>14, <1>15
  <2>3. HistoryOK(kept, N, t) /\ kept # <<>> /\ Last(kept) = Last(longer)
    BY <1>12, <1>16, <2>1, <2>2, HistoryCut
  <2> QED  BY <1>12, <2>3
<1>18. KeptSum(e.sizeSum + Cardinality(counts), longer, kept) = Bytes(kept)
       /\ Bytes(kept) \in Nat
  <2>1. Bytes(kept) \in Nat  BY <1>8, <1>16, BytesOfAppend
  <2>2. Cardinality(counts) \in Nat  BY <1>7, FS_CardinalityType
  <2> QED  BY <1>10, <1>13, <2>1, <2>2 DEF KeptSum
<1>19. f = [e EXCEPT !.lastRecv = Id(p.n), !.history = kept, !.sizeSum = Bytes(kept)]
  <2>1. f = [e EXCEPT !.lastRecv = Id(p.n), !.history = kept,
                      !.sizeSum = KeptSum(@ + Cardinality(counts), longer, kept)]
    BY DEF Counted, counts, longer, r, K, kept
  <2> HIDE DEF f
  <2>2. [e EXCEPT !.lastRecv = Id(p.n), !.history = kept,
                      !.sizeSum = KeptSum(@ + Cardinality(counts), longer, kept)]
        = [e EXCEPT !.lastRecv = Id(p.n), !.history = kept,
                      !.sizeSum = KeptSum(e.sizeSum + Cardinality(counts), longer, kept)]
    BY <1>6 DEF Controllers
  <2> QED  BY <1>18, <2>1, <2>2
<1> HIDE DEF f
<1>20. Id(p.n) \in 0 .. Ids - 1 /\ Id(p.n) \in Nat /\ Id(p.n + 1) \in 0 .. Ids - 1
  <2>1. Id(p.n) \in 0 .. Ids - 1 /\ Ids \in Nat /\ Id(p.n + 1) \in 0 .. Ids - 1
    <3>1. p.n \in Int /\ p.n + 1 \in Int  BY <1>3
    <3> QED  BY <3>1, IdTyped, HalfIsHalf
  <2> QED  BY <2>1
<1>21. /\ f \in Controllers /\ f.sound /\ Len(f.intervals) \in 1 .. 9
       /\ f.lastRecv = Id(p.n) /\ f.history = kept /\ f.sizeSum = Bytes(kept)
       /\ f.expected = Id(p.n + 1)
       /\ f.firstSend = c.firstSend /\ f.lastSequence = c.lastSequence
       /\ f.transit = c.transit /\ f.sent = c.sent
  <2>1. Bytes(kept) \in Int  BY <1>18
  <2> DEFINE x == Bytes(kept)
             y == Id(p.n)
  <2>2. f = [e EXCEPT !.lastRecv = y, !.history = kept, !.sizeSum = x]  BY <1>19
  <2>3. x \in Int /\ y \in Nat  BY <2>1, <1>20
  <2> HIDE DEF x, y
  <2>4. f \in Controllers  BY <1>6, <1>16, <2>2, <2>3 DEF Controllers
  <2>5. /\ f.lastRecv = y /\ f.history = kept /\ f.sizeSum = x
        /\ f.sound = e.sound /\ f.intervals = e.intervals /\ f.expected = e.expected
        /\ f.firstSend = e.firstSend /\ f.lastSequence = e.lastSequence
        /\ f.transit = e.transit /\ f.sent = e.sent
    BY <1>6, <2>2 DEF Controllers
  <2> QED  BY <1>6, <2>4, <2>5 DEF x, y
<1>22. NumbersOK(f, N)  BY <1>2, <1>20, <1>21 DEF NumbersOK
<1>23. LastOK(f, N)  BY <1>8, <1>17, <1>21 DEF LastOK
<1>24. ControllerInv(f, N, t)
  BY <1>2, <1>17, <1>21, <1>22, <1>23 DEF ControllerInv
<1> QED  BY <1>1, <1>2, <1>21, <1>24

LEMMA FeedKeeps ==
    ASSUME NEW N \in Nat, NEW t \in Nat, NEW c, ControllerInv(c, N, t),
           NEW n \in 0 .. N - 1, N - n <= Half
    PROVE  LET d == ProcessFeedback(c, t, Id(n))
           IN  ControllerInv(d, N, t) /\ d.sent = c.sent
<1> DEFINE seq == Id(n)
           s == c.transit
           live == {i \in DOMAIN s : ~LessThan(Id(s[i].n), seq)}
           rest == From(s, live)
           d == [c EXCEPT !.transit = rest,
                          !.sound = @ /\ Id(Last(s).n) = c.lastSequence /\ rest # <<>>]
           g == [d EXCEPT !.transit = Tail(@), !.sound = @ /\ Id(rest[1].n) = seq]
<1>1. ProcessFeedback(c, t, seq) =
          IF LessThan(c.lastSequence, seq) \/ s = <<>> THEN c
          ELSE IF rest = <<>> \/ LessThan(seq, Id(rest[1].n)) THEN d
          ELSE Accepted(g, t, rest[1])
  BY DEF ProcessFeedback
<1>2. /\ c \in Controllers /\ c.sound /\ NumbersOK(c, N) /\ SentOK(c.sent, N, t)
      /\ TransitOK(s, N, t) /\ HistoryOK(c.history, N, t) /\ LastOK(c, N)
      /\ c.sizeSum = Bytes(c.history) /\ Len(c.intervals) \in 1 .. 9
  BY DEF ControllerInv
<1>3. CASE LessThan(c.lastSequence, seq) \/ s = <<>>  BY <1>1, <1>3
<1>4. CASE ~(LessThan(c.lastSequence, seq) \/ s = <<>>)
  <2>1. /\ Half \in Nat \ {0} /\ s \in Seq(Packet) /\ UpToNow(s, N, t)
        /\ Len(s) \in Nat /\ Len(s) # 0 /\ DOMAIN s = 1 .. Len(s)
    <3>1. s \in Seq(Packet) /\ UpToNow(s, N, t)  BY <1>2 DEF TransitOK, UpToNow
    <3>2. s # <<>>  BY <1>4
    <3> HIDE DEF s
    <3> QED  BY <3>1, <3>2, HalfIsHalf, Row, LenProperties
  <2>2. \A i \in 1 .. Len(s) : s[i].n \in Nat /\ s[i].n < N /\ N - s[i].n <= Half
                               /\ s[i].n = N - Len(s) + i - 1
    <3> HIDE DEF s
    <3> QED  BY <1>2, <2>1, Row DEF TransitOK
  <2>3. ASSUME NEW a \in Nat, a < N, N - a <= Half
        PROVE  (LessThan(Id(a), seq) <=> a < n) /\ (LessThan(seq, Id(a)) <=> n < a)
    <3>1. /\ a \in Int /\ n \in Int /\ n - a < Half /\ a - n <= Half
          /\ a - n < Half /\ n - a <= Half
      BY <2>1, <2>3
    <3> QED  BY <3>1, CloseIds
  <2> HIDE DEF s
  <2>4. live = {i \in 1 .. Len(s) : n <= s[i].n}
    <3>1. ASSUME NEW i \in 1 .. Len(s)  PROVE ~LessThan(Id(s[i].n), seq) <=> n <= s[i].n
      <4>1. s[i].n \in Nat /\ (LessThan(Id(s[i].n), seq) <=> s[i].n < n)  BY <2>2, <2>3
      <4> QED  BY <4>1
    <3> QED  BY <2>1, <3>1
  <2>5. Len(s) \in live /\ live \in SUBSET (1 .. Len(s)) /\ s[Len(s)].n = N - 1
    <3>1. Len(s) \in 1 .. Len(s)  BY <2>1
    <3>2. s[Len(s)].n = N - 1  BY <2>1, <2>2, <3>1
    <3> QED  BY <2>4, <3>1, <3>2
  <2> HIDE DEF live
  <2>6. /\ rest \in Seq(Packet)
        /\ \E m \in live : Suffix(rest, s, m) /\ \A k \in live : m <= k
    <3>1. /\ rest \in Seq(Packet)
          /\ live # {} => \E m \in live : Suffix(rest, s, m) /\ \A k \in live : m <= k
      BY <2>1, <2>5, FromIs
    <3> QED  BY <2>5, <3>1
  <2>7. TransitOK(rest, N, t) /\ \A i \in 1 .. Len(rest) : \E j \in 1 .. Len(s) : rest[i] = s[j]
    BY <1>2, <2>5, TransitCut
  <2> HIDE DEF rest
  <2>8. PICK m \in live : Suffix(rest, s, m)  BY <2>6
  <2>9. Len(rest) \in Nat /\ Len(rest) # 0 /\ 1 \in 1 .. Len(rest) /\ rest # <<>> /\ rest[1] = s[m]
    <3>1. m \in 1 .. Len(s) /\ Len(rest) = Len(s) - m + 1  BY <2>4, <2>8 DEF Suffix
    <3>2. Len(rest) \in Nat /\ Len(rest) # 0 /\ 1 \in 1 .. Len(rest) /\ m + 1 - 1 = m
      BY <2>1, <3>1
    <3>3. rest[1] = s[m + 1 - 1]  BY <2>8, <3>2 DEF Suffix
    <3> QED  BY <3>2, <3>3, EmptySeq
  <2>10. /\ d \in Controllers /\ d.sound /\ d.transit = rest
         /\ d.firstSend = c.firstSend /\ d.lastSequence = c.lastSequence
         /\ d.lastRecv = c.lastRecv /\ d.sent = c.sent /\ d.history = c.history
         /\ d.sizeSum = c.sizeSum /\ d.expected = c.expected /\ d.intervals = c.intervals
    <3>1. Id(Last(s).n) = c.lastSequence
      <4>1. N > 0  OBVIOUS
      <4> QED  BY <1>2, <2>5, <4>1 DEF NumbersOK, Last
    <3>2. d = [c EXCEPT !.transit = rest, !.sound = TRUE]
      <4>1. c.sound = TRUE  BY <1>2 DEF Controllers
      <4>2. d = [c EXCEPT !.transit = rest,
                   !.sound = c.sound /\ Id(Last(s).n) = c.lastSequence /\ rest # <<>>]
        BY <1>2 DEF Controllers
      <4> HIDE DEF d
      <4> QED  BY <2>9, <3>1, <4>1, <4>2
    <3> HIDE DEF d
    <3> QED  BY <1>2, <2>6, <3>2 DEF Controllers
  <2>11. LastOK(d, N)
    <3>1. ASSUME c.history # <<>>, NEW i \in 1 .. Len(rest)
          PROVE  rest[i].n > Last(c.history).n
      BY <1>2, <2>7, <3>1 DEF LastOK, s
    <3> HIDE DEF d
    <3> QED  BY <1>2, <2>10, <3>1 DEF LastOK
  <2> HIDE DEF d
  <2>12. ControllerInv(d, N, t)
    BY <1>2, <2>7, <2>10, <2>11 DEF ControllerInv, NumbersOK
  <2>13. CASE LessThan(seq, Id(rest[1].n))
    BY <1>1, <1>4, <2>10, <2>12, <2>13
  <2>14. CASE ~LessThan(seq, Id(rest[1].n))
    <3> DEFINE p == rest[1]
               r == Tail(rest)
    <3>1. p \in Packet /\ p.n = n /\ p.tx <= t /\ n \in Nat
      <4>1. m \in 1 .. Len(s) /\ n <= s[m].n /\ s[m] \in Packet /\ s[m].tx <= t
        BY <2>1, <2>4, <2>8, Row
      <4>2. s[m].n \in Nat /\ ~(n < s[m].n)  BY <2>2, <2>3, <2>9, <2>14, <4>1
      <4> QED  BY <2>9, <4>1, <4>2
    <3>2. /\ r \in Seq(Packet) /\ Len(r) = Len(rest) - 1
          /\ \A i \in 1 .. Len(r) : r[i] = rest[i + 1]
      BY <2>6, <2>9, HeadTailProperties
    <3> HIDE DEF p, r
    <3>3. /\ g \in Controllers /\ g.sound /\ g.transit = r
          /\ g.firstSend = d.firstSend /\ g.lastSequence = d.lastSequence
          /\ g.lastRecv = d.lastRecv /\ g.sent = d.sent /\ g.history = d.history
          /\ g.sizeSum = d.sizeSum /\ g.expected = d.expected /\ g.intervals = d.intervals
      <4>1. g = [d EXCEPT !.transit = r, !.sound = TRUE]
        <5>1. d.sound = TRUE /\ Tail(d.transit) = r  BY <2>10 DEF Controllers, r
        <5>2. g = [d EXCEPT !.transit = Tail(d.transit), !.sound = d.sound /\ Id(rest[1].n) = seq]
          BY <2>10 DEF Controllers
        <5>3. Id(rest[1].n) = seq  BY <3>1 DEF p
        <5> HIDE DEF g
        <5> QED  BY <5>1, <5>2, <5>3
      <4> HIDE DEF g
      <4> QED  BY <2>10, <3>2, <4>1 DEF Controllers
    <3> HIDE DEF g
    <3>4. Suffix(r, rest, 2)
      <4>1. /\ 2 \in 1 .. Len(rest) + 1 /\ Len(r) = Len(rest) - 2 + 1
            /\ \A i \in 1 .. Len(r) : 2 + i - 1 = i + 1
        BY <2>9, <3>2
      <4> QED  BY <3>2, <4>1 DEF Suffix
    <3>5. TransitOK(r, N, t) /\ \A i \in 1 .. Len(r) : r[i].n > n
      <4>1. UpToNow(rest, N, t)  BY <2>7 DEF TransitOK
      <4>2. /\ UpToNow(r, N, t)
            /\ \A i \in 1 .. Len(r) : 2 + i - 1 \in 1 .. Len(rest) /\ r[i] = rest[2 + i - 1]
        BY <3>2, <3>4, <4>1, RowSuffix
      <4>3. \A i \in 1 .. Len(r) : N - r[i].n <= Half  BY <2>7, <4>2 DEF TransitOK
      <4>4. ASSUME NEW i \in 1 .. Len(r)  PROVE r[i].n > n
        <5>1. 1 \in 1 .. Len(rest) /\ Len(rest) \in Nat  BY <2>9
        <5>2. r[i].n = N - Len(r) + i - 1
          BY ONLY <4>2, RowNumbers, N \in Nat, t \in Nat, i \in 1 .. Len(r)
        <5>3. rest[1].n = N - Len(rest) + 1 - 1
          BY ONLY <4>1, <5>1, RowNumbers, N \in Nat, t \in Nat
        <5>4. n = rest[1].n /\ Len(r) = Len(rest) - 1  BY <3>1, <3>2 DEF p
        <5> QED  BY ONLY <5>1, <5>2, <5>3, <5>4, N \in Nat, i \in 1 .. Len(r)
      <4> QED  BY <4>2, <4>3, <4>4 DEF TransitOK
    <3>6. c.history # <<>> => Last(c.history).n < n
      <4>1. m \in 1 .. Len(s) /\ s[m].n = n  BY <2>4, <2>9, <3>1 DEF p
      <4> QED  BY <1>2, <4>1 DEF LastOK, s
    <3>7. LastOK(g, N)
      <4>1. ASSUME c.history # <<>>, NEW i \in 1 .. Len(r)  PROVE r[i].n > Last(c.history).n
        <5>1. \E j \in 1 .. Len(rest) : r[i] = rest[j]
          <6>1. i + 1 \in 1 .. Len(rest)  BY <2>9, <3>2
          <6> QED  BY <3>2, <6>1
        <5> QED  BY <2>10, <2>11, <4>1, <5>1 DEF LastOK
      <4> QED  BY <1>2, <2>10, <3>3, <4>1 DEF LastOK
    <3>8. ControllerInv(g, N, t)
      BY <1>2, <2>10, <3>3, <3>5, <3>7 DEF ControllerInv, NumbersOK
    <3>9. ControllerInv(Accepted(g, t, p), N, t) /\ Accepted(g, t, p).sent = g.sent
      <4>1. /\ p \in Packet /\ p.n < N /\ p.tx <= t /\ N - p.n <= Half
            /\ g.history # <<>> => Last(g.history).n < p.n
            /\ \A i \in 1 .. Len(g.transit) : g.transit[i].n > p.n
        <5>1. N - p.n <= Half /\ p \in Packet /\ p.n < N /\ p.tx <= t  BY <3>1
        <5>2. g.history # <<>> => Last(g.history).n < p.n  BY <2>10, <3>1, <3>3, <3>6
        <5>3. \A i \in 1 .. Len(g.transit) : g.transit[i].n > p.n  BY <3>1, <3>3, <3>5
        <5> QED  BY <5>1, <5>2, <5>3
      <4>2. LET f == Accepted(g, t, p)
            IN  ControllerInv(f, N, t) /\ f.sent = g.sent
        BY <3>8, <4>1, AcceptedKeeps
      <4> QED  BY <4>2
    <3> QED  BY <1>1, <1>4, <2>9, <2>10, <2>14, <3>3, <3>9 DEF p
  <2> QED  BY <2>13, <2>14
<1> QED  BY <1>3, <1>4

------------------------------------------------------------------------------
(* GetPacketTxTimestamp and the times of groups. *)

\* A packet up to half a circle behind is found unless it was pruned.
LEMMA LookUp ==
    ASSUME NEW N \in Nat, NEW t \in Nat, NEW c, SentRow(c.sent, N, t),
           NEW n \in 0 .. N - 1, N - n <= Half
    PROVE  \/ n < N - Len(c.sent) /\ GetPacketTxTimestamp(c, Id(n)) = -1
           \/ \E p \in Entries(c.sent) : p.n = n /\ GetPacketTxTimestamp(c, Id(n)) = p.tx
<1> DEFINE s == c.sent
           found == {i \in 1 .. Len(s) : Id(s[i].n) = Id(n)}
           tx == GetPacketTxTimestamp(c, Id(n))
<1>1. tx = IF found = {} THEN -1
           ELSE s[CHOOSE i \in found : \A j \in found : j <= i].tx
  BY DEF GetPacketTxTimestamp, NoTime
<1>2. UpToNow(s, N, t) /\ Len(s) <= Ids  BY DEF SentRow
<1>3. Ids \in Nat \ {0} /\ Half \in Nat \ {0} /\ Ids = Half + Half  BY HalfIsHalf
<1> HIDE DEF s, tx
<1>4. Len(s) \in 0 .. N /\ Len(s) \in Nat  BY <1>2, Row
<1>5. ASSUME NEW i \in 1 .. Len(s)  PROVE Id(s[i].n) = Id(n) <=> s[i].n = n
  <2> DEFINE k == s[i].n
             L == Len(s)
  <2>1. k \in Nat /\ k = N - L + i - 1 /\ i \in 1 .. L /\ L \in Nat /\ L <= Ids
    BY <1>2, <1>4, Row
  <2> HIDE DEF k, L
  <2>2. k \in Int /\ n \in Int /\ k - n < Ids /\ n - k < Ids
    BY ONLY <2>1, <1>3, N \in Nat, n \in 0 .. N - 1, N - n <= Half
  <2>3. Id(k) = Id(n) => k = n  BY <2>2, IdsApart
  <2> QED  BY <2>3 DEF k
<1>6. CASE n < N - Len(s)
  <2>1. \A i \in 1 .. Len(s) : s[i].n # n
    <3> SUFFICES ASSUME NEW i \in 1 .. Len(s)  PROVE s[i].n # n  OBVIOUS
    <3>1. s[i].n = N - Len(s) + i - 1  BY <1>2, Row
    <3> QED  BY <1>4, <1>6, <3>1
  <2>2. found = {}  BY <1>5, <2>1
  <2> HIDE DEF found
  <2> QED  BY <1>1, <1>6, <2>2 DEF tx, s
<1>7. CASE n >= N - Len(s)
  <2> DEFINE k == n - (N - Len(s)) + 1
  <2>1. k \in 1 .. Len(s) /\ s[k].n = n
    <3>1. n \in N - Len(s) .. N - 1  BY <1>4, <1>7
    <3>2. \A x \in N - Len(s) .. N - 1 : /\ x - (N - Len(s)) + 1 \in 1 .. Len(s)
                                          /\ s[x - (N - Len(s)) + 1].n = x
      BY ONLY <1>2, Row, N \in Nat, t \in Nat
    <3> QED  BY ONLY <3>1, <3>2
  <2>2. ASSUME NEW i \in 1 .. Len(s), s[i].n = n  PROVE i = k
    <3>1. s[i].n = N - Len(s) + i - 1  BY <1>2, Row
    <3> QED  BY <1>4, <2>2, <3>1
  <2> HIDE DEF k
  <2>3. found = {k}  BY <1>5, <2>1, <2>2
  <2>4. (CHOOSE i \in {k} : \A j \in {k} : j <= i) = k  BY <2>1
  <2> HIDE DEF found
  <2>5. tx = s[k].tx  BY <1>1, <2>3, <2>4
  <2>6. s[k] \in Entries(s)  BY <2>1 DEF Entries
  <2> QED  BY <2>1, <2>5, <2>6 DEF tx, s
<1> QED  BY <1>4, <1>6, <1>7

\* Times within the run compare like numbers, and a missing time is out of
\* reach of every group.
LEMMA Times ==
    ASSUME groupStart \in 0 .. MaxTime, NEW tx \in 0 .. MaxTime
    PROVE  /\ tx % TimeRange = tx /\ (-1) % TimeRange = TimeRange - 1
           /\ InReach(tx) <=> groupStart <= tx /\ tx <= groupStart + LockGap
           /\ groupStart <= tx => (NewGroup(tx) <=> groupStart + GroupGap < tx)
           /\ ~InReach(TimeRange - 1)
<1> DEFINE R == TimeRange
           g == groupStart
<1>1. MaxTime \in Nat /\ LockGap \in Nat /\ GroupGap \in Nat  BY GroupAssumption
<1>2. R \in Nat \ {0} /\ R = 4 * (MaxTime + 1)  BY <1>1 DEF TimeRange
<1> HIDE DEF R, g
<1>3. g \in 0 .. MaxTime  BY DEF g
<1>4. \A k \in 0 .. R - 1 : k % R = k
  <2> SUFFICES ASSUME NEW k \in 0 .. R - 1  PROVE k % R = k  OBVIOUS
  <2>1. k = R * 0 + k /\ 0 \in Int  BY <1>2
  <2>2. R \in Nat \ {0}  BY <1>2
  <2> QED  BY ONLY <2>1, <2>2, k \in 0 .. R - 1, SmallRemainder
<1>5. \A k \in 1 .. R : (-k) % R = R - k
  <2> SUFFICES ASSUME NEW k \in 1 .. R  PROVE (-k) % R = R - k  OBVIOUS
  <2>1. -k = R * (-1) + (R - k) /\ -1 \in Int /\ R - k \in 0 .. R - 1  BY <1>2
  <2> QED  BY <1>2, <2>1, SmallRemainder
<1>6. \A a \in 0 .. MaxTime, b \in 0 .. MaxTime :
          a <= b => (b - a) % R = b - a /\ (a < b => (a - b) % R = R - (b - a))
  <2> SUFFICES ASSUME NEW a \in 0 .. MaxTime, NEW b \in 0 .. MaxTime, a <= b
               PROVE  (b - a) % R = b - a /\ (a < b => (a - b) % R = R - (b - a))
    OBVIOUS
  <2>1. b - a \in 0 .. R - 1 /\ a - b = -(b - a) /\ (a < b => b - a \in 1 .. R)
    BY <1>1, <1>2
  <2> QED  BY <1>4, <1>5, <2>1
<1>7. /\ LessThan64(g, tx) <=> g < tx
      /\ g <= tx => (tx - g) % R = tx - g
  <2>1. CASE g < tx
    <3>1. (tx - g) % R = tx - g /\ (g - tx) % R = R - (tx - g)  BY <1>3, <1>6, <2>1
    <3>2. tx - g < R - (tx - g)  BY <1>1, <1>2, <1>3
    <3> QED  BY <2>1, <3>1, <3>2 DEF LessThan64, R
  <2>2. CASE tx <= g
    <3>1. (g - tx) % R = g - tx /\ (tx < g => (tx - g) % R = R - (g - tx))
      BY <1>3, <1>6, <2>2
    <3>2. CASE tx = g
      <4>1. tx - g = 0 /\ g - tx = 0 /\ 0 % R = 0  BY <1>2, <1>3, <1>4, <3>2
      <4> QED  BY <3>2, <4>1, <1>3 DEF LessThan64, R
    <3>3. CASE tx < g
      <4>1. ~(R - (g - tx) < g - tx) /\ ~(g < tx) /\ ~(g <= tx)
        BY <1>1, <1>2, <1>3, <3>3
      <4> QED  BY <3>1, <3>3, <4>1 DEF LessThan64, R
    <3> QED  BY <1>3, <2>2, <3>2, <3>3
  <2> QED  BY <1>3, <2>1, <2>2
<1>8. InReach(tx) <=> g <= tx /\ tx <= g + LockGap
  <2>1. InReach(tx) <=> (g < tx /\ (tx - g) % R <= LockGap) \/ g = tx
    BY <1>7 DEF InReach, g, R
  <2>2. CASE g < tx
    <3>1. (tx - g) % R = tx - g  BY <1>3, <1>7, <2>2
    <3> QED  BY <1>1, <1>3, <2>1, <2>2, <3>1
  <2>3. CASE ~(g < tx)  BY <1>1, <1>3, <2>1, <2>3
  <2> QED  BY <2>2, <2>3
<1>9. g <= tx => (NewGroup(tx) <=> g + GroupGap < tx)
  <2> SUFFICES ASSUME g <= tx  PROVE NewGroup(tx) <=> g + GroupGap < tx  OBVIOUS
  <2>1. (tx - g) % R = tx - g  BY <1>7
  <2>2. NewGroup(tx) <=> (tx - g) % R > GroupGap  BY DEF NewGroup, R, g
  <2> QED  BY <1>1, <1>3, <2>1, <2>2
<1>10. ~InReach(R - 1)
  <2> DEFINE x == R - 1
             k == g + 1
  <2>1. x - g \in 0 .. R - 1 /\ g - x = -(R - k) /\ R - k \in 1 .. R /\ R - (R - k) = k
        /\ x # g /\ k \in Nat /\ ~(x - g < k)
    BY <1>1, <1>2, <1>3
  <2>2. (x - g) % R = x - g  BY <1>4, <2>1
  <2>3. (g - x) % R = k
    <3> DEFINE y == R - k
    <3>1. y \in 1 .. R /\ g - x = -y /\ R - y = k  BY <2>1
    <3> HIDE DEF y, k, x
    <3>2. (-y) % R = R - y  BY <1>5, <3>1
    <3> QED  BY <3>1, <3>2
  <2> HIDE DEF x, k
  <2>4. ~LessThan64(g, x)  BY <2>1, <2>2, <2>3 DEF LessThan64, R
  <2> QED  BY <2>1, <2>4 DEF InReach, g, x
<1>11. tx % R = tx /\ (-1) % R = R - 1
  <2>1. tx \in 0 .. R - 1 /\ 1 \in 1 .. R  BY <1>1, <1>2
  <2> QED  BY <1>4, <1>5, <2>1
<1> QED  BY <1>8, <1>9, <1>10, <1>11 DEF R, g

------------------------------------------------------------------------------
(* The sender's invariant. *)

\* What a sample may still come for.
Deliverable == skipped \cup (latest + 1 .. next - 1)

\* Packet p is in the history of sent packets until its number is used again,
\* and those less than TransitAge later are not half a circle after it.
Kept(p) ==
    /\ p \in Packet /\ p.n < next
    /\ next <= p.n + Ids => p \in Entries(controller.sent)
    /\ \A q \in Entries(controller.sent) : q.tx <= p.tx + TransitAge => q.n < p.n + Half

\* The packet of m_prev_id is in the group, the one of m_prev_groupend_id in
\* the group before it.
CurrentGroup ==
    \E p \in Packet : /\ Id(p.n) = prevId /\ Kept(p)
                      /\ groupStart <= p.tx /\ p.tx <= groupStart + GroupGap

GroupBefore ==
    \E p \in Packet : /\ Id(p.n) = prevGroupEnd /\ Kept(p)
                      /\ p.tx < groupStart /\ groupStart <= p.tx + LockGap

DeliveryInv ==
    /\ latest \in -1 .. next - 1 /\ skipped \subseteq 0 .. next - 1
    /\ \A n \in Deliverable : next - n <= Half

NumberInv ==
    /\ now \in 0 .. MaxTime /\ next \in 0 .. MaxSent /\ groupStart \in 0 .. now
    /\ firstFeedback \in BOOLEAN /\ laterGroup \in BOOLEAN
    /\ currPkts \in Nat /\ prevPkts \in Nat
    /\ {prevId, prevGroupEnd} \subseteq 0 .. Ids - 1

\* Nothing is pruned before the second group.
GroupInv ==
    /\ firstFeedback => ~laterGroup
    /\ ~laterGroup =>
         prevGroupEnd = 0 /\ (Len(controller.sent) = next \/ Len(controller.sent) = Ids)
    /\ ~firstFeedback => next > 0 /\ currPkts > 0 /\ CurrentGroup
    /\ laterGroup => prevPkts > 0 /\ GroupBefore

\* As long as feedback can still be taken into account.
ActiveInv ==
    /\ NumberInv
    /\ ControllerInv(controller, next, now)
    /\ DeliveryInv
    /\ GroupInv

\* Always.
BaseInv ==
    /\ NumberInv
    /\ ControllerRow(controller, next, now)
    /\ DeliveryInv
    /\ laterGroup => prevPkts > 0

FeedbackInv == ActiveInv \/ (BaseInv /\ LockedOut)

LEMMA BaseParts ==
    ASSUME BaseInv
    PROVE  /\ next \in Nat /\ now \in Nat /\ MaxTime \in Nat /\ now <= MaxTime
           /\ groupStart \in 0 .. MaxTime /\ groupStart \in Nat /\ groupStart <= now
           /\ SentRow(controller.sent, next, now)
           /\ UpToNow(controller.sent, next, now)
           /\ \A p \in Entries(controller.sent) :
                 /\ p \in Packet /\ p.n \in Nat /\ p.tx \in Nat /\ p.n < next
                 /\ p.tx <= now /\ p.tx \in 0 .. MaxTime
           /\ \A n \in Deliverable : n \in 0 .. next - 1 /\ next - n <= Half
<1>1. /\ next \in Nat /\ now \in Nat /\ MaxTime \in Nat /\ now <= MaxTime
      /\ groupStart \in 0 .. MaxTime /\ groupStart \in Nat /\ groupStart <= now
  BY GroupAssumption DEF BaseInv, NumberInv
<1>2. SentRow(controller.sent, next, now) /\ UpToNow(controller.sent, next, now)
  BY DEF BaseInv, ControllerRow, SentRow
<1>3. ASSUME NEW p \in Entries(controller.sent)
      PROVE  /\ p \in Packet /\ p.n \in Nat /\ p.tx \in Nat /\ p.n < next
             /\ p.tx <= now /\ p.tx \in 0 .. MaxTime
  <2>1. p \in Packet /\ p.n \in Nat /\ p.tx \in Nat /\ p.n < next /\ p.tx <= now
    BY <1>1, <1>2, RowEntries
  <2> QED  BY <1>1, <2>1
<1>4. \A n \in Deliverable : n \in 0 .. next - 1 /\ next - n <= Half
  BY <1>1 DEF BaseInv, DeliveryInv, Deliverable
<1> QED  BY <1>1, <1>2, <1>3, <1>4

LEMMA InvParts ==
    ASSUME ActiveInv
    PROVE  /\ BaseInv
           /\ next \in Nat /\ now \in Nat /\ MaxTime \in Nat /\ now <= MaxTime
           /\ groupStart \in 0 .. MaxTime /\ groupStart \in Nat /\ groupStart <= now
           /\ ControllerInv(controller, next, now) /\ SentOK(controller.sent, next, now)
           /\ UpToNow(controller.sent, next, now)
           /\ \A p \in Entries(controller.sent) :
                 /\ p \in Packet /\ p.n \in Nat /\ p.tx \in Nat /\ p.n < next
                 /\ p.tx <= now /\ p.tx \in 0 .. MaxTime
           /\ \A n \in Deliverable : n \in 0 .. next - 1 /\ next - n <= Half
<1>1. next \in Nat /\ now \in Nat  BY GroupAssumption DEF ActiveInv, NumberInv
<1>2. ControllerInv(controller, next, now) /\ SentOK(controller.sent, next, now)
  BY DEF ActiveInv, ControllerInv
<1>3. ControllerRow(controller, next, now)  BY <1>1, <1>2, InvHasRow
<1>4. BaseInv  BY <1>3 DEF ActiveInv, BaseInv, GroupInv
<1> QED  BY <1>2, <1>4, BaseParts

\* The time of a sample's packet, when it is in reach, is that of its entry.
LEMMA SampleTime ==
    ASSUME BaseInv, NEW n \in Deliverable
    PROVE  /\ n < next - Len(controller.sent) =>
                TxTime(n) = TimeRange - 1 /\ ~InReach(TxTime(n))
           /\ n >= next - Len(controller.sent) =>
                \E p \in Entries(controller.sent) : p.n = n /\ TxTime(n) = p.tx
<1> DEFINE s == controller.sent
           tx == GetPacketTxTimestamp(controller, Id(n))
<1>1. TxTime(n) = tx % TimeRange  BY DEF TxTime
<1>2. \/ n < next - Len(s) /\ tx = -1
      \/ \E p \in Entries(s) : p.n = n /\ tx = p.tx
  BY BaseParts, LookUp
<1>3. \A p \in Entries(s) : p.n \in Nat /\ next - Len(s) <= p.n
  BY BaseParts, RowEntries
<1>4. Len(s) \in Nat /\ next \in Nat
  <2>1. UpToNow(s, next, now) /\ next \in Nat /\ now \in Nat  BY BaseParts
  <2> QED  BY <2>1, Row
<1>5. n \in Nat  BY BaseParts
<1>6. 0 \in 0 .. MaxTime  BY BaseParts
<1>7. (-1) % TimeRange = TimeRange - 1 /\ ~InReach(TimeRange - 1)
  BY <1>6, BaseParts, Times
<1>8. \A p \in Entries(s) : p.tx % TimeRange = p.tx  BY BaseParts, Times
<1> HIDE DEF s, tx
<1>9. ASSUME n < next - Len(s)  PROVE TxTime(n) = TimeRange - 1 /\ ~InReach(TxTime(n))
  <2>1. ~\E p \in Entries(s) : p.n = n  BY <1>3, <1>4, <1>5, <1>9
  <2> QED  BY <1>1, <1>2, <1>7, <2>1
<1>10. ASSUME n >= next - Len(s)
       PROVE  \E p \in Entries(s) : p.n = n /\ TxTime(n) = p.tx
  <2>1. PICK p \in Entries(s) : p.n = n /\ tx = p.tx  BY <1>2, <1>4, <1>5, <1>10
  <2> QED  BY <1>1, <1>8, <2>1
<1> QED  BY <1>9, <1>10 DEF s

LEMMA SampleInReach ==
    ASSUME BaseInv, NEW n \in Deliverable, InReach(TxTime(n))
    PROVE  \E p \in Entries(controller.sent) :
              /\ p.n = n /\ TxTime(n) = p.tx
              /\ groupStart <= p.tx /\ p.tx <= groupStart + LockGap
              /\ NewGroup(TxTime(n)) <=> groupStart + GroupGap < p.tx
<1>1. n >= next - Len(controller.sent)
  <2>1. n \in Nat /\ next \in Nat /\ Len(controller.sent) \in Nat
    <3>1. UpToNow(controller.sent, next, now) /\ next \in Nat /\ now \in Nat /\ n \in Nat
      BY BaseParts
    <3> QED  BY <3>1, Row
  <2> QED  BY <2>1, SampleTime
<1>2. PICK p \in Entries(controller.sent) : p.n = n /\ TxTime(n) = p.tx
  BY <1>1, SampleTime
<1>3. p.tx \in 0 .. MaxTime /\ groupStart \in 0 .. MaxTime  BY BaseParts
<1>4. /\ InReach(p.tx) <=> groupStart <= p.tx /\ p.tx <= groupStart + LockGap
      /\ groupStart <= p.tx => (NewGroup(p.tx) <=> groupStart + GroupGap < p.tx)
  BY <1>3, Times
<1> QED  BY <1>2, <1>4

\* What is in the history of sent packets is kept.
LEMMA EntriesKept ==
    ASSUME ActiveInv, NEW p \in Entries(controller.sent)
    PROVE  Kept(p)
<1>1. Spaced(controller.sent) /\ p \in Packet /\ p.n < next  BY InvParts DEF SentOK
<1> QED  BY <1>1 DEF Kept, Spaced

------------------------------------------------------------------------------
(* The steps. *)

LEMMA GroupsInitial == Init => ActiveInv
<1> SUFFICES ASSUME Init  PROVE ActiveInv  OBVIOUS
<1>1. MaxTime \in Nat /\ MaxSent \in Nat  BY GroupAssumption
<1>2. Ids \in Nat \ {0} /\ Half \in Nat  BY HalfIsHalf
<1>3. 0 \in 0 .. Ids - 1  BY <1>2
<1>4. NumberInv
  <2>1. /\ now = 0 /\ next = 0 /\ groupStart = 0 /\ currPkts = 0 /\ prevPkts = 0
        /\ prevId = 0 /\ prevGroupEnd = 0 /\ firstFeedback = TRUE /\ laterGroup = FALSE
    BY DEF Init
  <2>2. now \in 0 .. MaxTime /\ next \in 0 .. MaxSent /\ groupStart \in 0 .. now
    BY <1>1, <2>1
  <2>3. {prevId, prevGroupEnd} \subseteq 0 .. Ids - 1  BY <1>3, <2>1
  <2> QED  BY <2>1, <2>2, <2>3 DEF NumberInv
<1>5. Deliverable = {}  BY DEF Init, Deliverable
<1>6. DeliveryInv
  <2>1. latest \in -1 .. next - 1  BY DEF Init
  <2> QED  BY <1>5, <2>1 DEF Init, DeliveryInv
<1> DEFINE e == <<>>
<1>7. e \in Seq(Packet) /\ e \in Seq(FedBack) /\ Len(e) = 0  OBVIOUS
<1>8. /\ controller.firstSend = TRUE /\ controller.lastSequence = 0
      /\ controller.lastRecv = 0 /\ controller.transit = e /\ controller.sent = e
      /\ controller.history = e /\ controller.sizeSum = 0 /\ controller.expected = 0
      /\ controller.intervals = <<0>> /\ controller.sound = TRUE
      /\ controller = NewController
  BY DEF Init, NewController
<1>9. <<0>> \in Seq(Nat) /\ Len(<<0>>) = 1  OBVIOUS
<1>10. Bytes(e) = 0  BY BytesOfNone
<1> HIDE DEF e
<1>11. controller \in Controllers
  BY <1>7, <1>8, <1>9 DEF Controllers, NewController, e
<1>12. UpToNow(e, 0, 0)  BY <1>7 DEF UpToNow
<1>13. Entries(e) = {}  BY <1>7 DEF Entries
<1>14. SentOK(e, 0, 0)  BY <1>2, <1>7, <1>12, <1>13 DEF SentOK, SentRow, Spaced
<1>15. TransitOK(e, 0, 0)  BY <1>7, <1>12 DEF TransitOK
<1>16. HistoryOK(e, 0, 0)  BY <1>7 DEF HistoryOK, e
<1>17. next = 0 /\ now = 0  BY DEF Init
<1>18. ControllerInv(controller, 0, 0)
  <2>1. NumbersOK(controller, 0)  BY <1>3, <1>8 DEF NumbersOK
  <2>2. LastOK(controller, 0)  BY <1>2, <1>8 DEF LastOK, e
  <2> QED  BY <1>8, <1>9, <1>10, <1>11, <1>14, <1>15, <1>16, <2>1, <2>2 DEF ControllerInv
<1>19. GroupInv  BY <1>7, <1>8 DEF Init, GroupInv
<1> QED  BY <1>4, <1>6, <1>17, <1>18, <1>19 DEF ActiveInv

\* A sample takes its packet from those it may still come for.
LEMMA DeliveredKeeps ==
    ASSUME BaseInv, NEW n \in 0 .. next - 1, Delivered(n), next' = next
    PROVE  DeliveryInv' /\ n \in Deliverable /\ Deliverable' \subseteq Deliverable
<1>1. next \in Nat /\ latest \in -1 .. next - 1 /\ skipped \subseteq 0 .. next - 1
  BY BaseParts DEF BaseInv, DeliveryInv
<1>2. /\ n \in skipped \/ n \in latest + 1 .. next - 1
      /\ latest' = IF n > latest THEN n ELSE latest
      /\ skipped' \subseteq skipped \cup (latest + 1 .. n)
  BY DEF Delivered
<1>3. n \in Deliverable  BY <1>2 DEF Deliverable
<1>4. latest' \in -1 .. next - 1 /\ latest <= latest'  BY <1>1, <1>2
<1>5. skipped' \subseteq Deliverable
  <2>1. latest + 1 .. n \subseteq latest + 1 .. next - 1  BY <1>1
  <2> QED  BY <1>2, <2>1 DEF Deliverable
<1>6. latest' + 1 .. next - 1 \subseteq latest + 1 .. next - 1
  <2> DEFINE later == latest'
  <2>1. latest \in Int /\ later \in Int /\ next \in Int /\ latest <= later  BY <1>1, <1>4
  <2> HIDE DEF later
  <2>2. later + 1 .. next - 1 \subseteq latest + 1 .. next - 1  BY ONLY <2>1, SMT
  <2> QED  BY <2>2 DEF later
<1>7. Deliverable' \subseteq Deliverable
  BY <1>5, <1>6 DEF Deliverable
<1>8. Deliverable \subseteq 0 .. next - 1  BY <1>1 DEF Deliverable
<1>9. \A k \in Deliverable' : next' - k <= Half
  <2> SUFFICES ASSUME NEW k \in Deliverable'  PROVE next' - k <= Half  OBVIOUS
  <2>1. k \in Deliverable  BY <1>7
  <2>2. next - k <= Half  BY <2>1, BaseParts
  <2>3. next' = next  OBVIOUS
  <2> QED  BY <2>2, <2>3
<1>10. DeliveryInv'  BY <1>4, <1>5, <1>8, <1>9 DEF DeliveryInv
<1> QED  BY <1>3, <1>7, <1>10

\* A packet is kept as long as its entry is.
LEMMA KeptStays ==
    ASSUME next' = next, Entries(controller'.sent) \subseteq Entries(controller.sent),
           NEW p, Kept(p), p \in Entries(controller.sent) => p \in Entries(controller'.sent)
    PROVE  Kept(p)'
<1> QED  BY DEF Kept

LEMMA SendDeliveries ==
    ASSUME BaseInv, SendPacket
    PROVE  DeliveryInv'
<1>1. /\ NumbersSuffice /\ next' = next + 1 /\ UNCHANGED <<latest, skipped>>
  BY DEF SendPacket
<1>2. next \in Nat /\ Half \in Nat  BY BaseParts, HalfIsHalf
<1>3. latest \in -1 .. next - 1 /\ skipped \subseteq 0 .. next - 1
  BY DEF BaseInv, DeliveryInv
<1>4. ASSUME NEW n \in Deliverable'  PROVE next' - n <= Half
  <2>1. n \in skipped \/ n \in latest + 1 .. next  BY <1>1, <1>2, <1>4 DEF Deliverable
  <2>2. CASE n \in skipped
    <3>1. next - n < Half /\ n \in Nat  BY <1>1, <1>3, <2>2 DEF NumbersSuffice
    <3> QED  BY <1>1, <1>2, <3>1
  <2>3. CASE n \in latest + 1 .. next
    <3>1. next - latest < Half  BY <1>1 DEF NumbersSuffice
    <3> QED  BY <1>1, <1>2, <1>3, <2>3, <3>1
  <2> QED  BY <2>1, <2>2, <2>3
<1>5. latest' \in -1 .. next' - 1 /\ skipped' \subseteq 0 .. next' - 1
  BY <1>1, <1>2, <1>3
<1> QED  BY <1>4, <1>5 DEF DeliveryInv

LEMMA SendStep ==
    ASSUME ActiveInv, SendPacket, ~LockedOut
    PROVE  ActiveInv'
<1> DEFINE c == controller
           d == ProcessSendPacket(c, now, next)
           p == [n |-> next, tx |-> now]
<1>1. /\ next < MaxSent /\ NumbersSuffice /\ controller' = d /\ next' = next + 1
      /\ UNCHANGED <<now, latest, skipped, groupVars>>
  BY DEF SendPacket
<1>2. /\ next \in Nat /\ now \in Nat /\ MaxSent \in Nat /\ Half \in Nat
      /\ Ids \in Nat /\ Ids = Half + Half
      /\ TransitAge \in Nat /\ next' \in Nat
  BY <1>1, InvParts, GroupAssumption, HalfIsHalf, ControllerAssumption
<1>3. Room(c, next, now)  BY <1>1 DEF NumbersSuffice, Room
<1>4. /\ ControllerInv(d, next + 1, now)
      /\ Len(d.sent) = IF Len(c.sent) = Ids THEN Ids ELSE Len(c.sent) + 1
      /\ Entries(d.sent) \subseteq Entries(c.sent) \cup {p}
      /\ \A q \in Entries(c.sent) : next < q.n + Ids => q \in Entries(d.sent)
      /\ p \in Entries(d.sent)
  <2>1. ControllerInv(c, next, now) /\ next \in Nat /\ now \in Nat  BY InvParts
  <2> HIDE DEF c
  <2>2. ControllerInv(d, next + 1, now)  BY <1>3, <2>1, SendKeeps
  <2>3. ControllerRow(c, next, now)  BY <2>1, InvHasRow
  <2> QED  BY <2>1, <2>2, <2>3, SendKeepsRow
<1> HIDE DEF d, p
<1>5. NumberInv'
  BY <1>1, <1>2 DEF ActiveInv, NumberInv, groupVars
<1>6. DeliveryInv'
  <2>1. BaseInv  BY InvParts
  <2> QED  BY <2>1, SendDeliveries
<1>7. ASSUME NEW q \in Packet, Kept(q)  PROVE Kept(q)'
  <2>1. /\ q.n \in Nat /\ q.tx \in Nat /\ q.n < next
        /\ next <= q.n + Ids => q \in Entries(c.sent)
        /\ \A x \in Entries(c.sent) : x.tx <= q.tx + TransitAge => x.n < q.n + Half
    BY <1>7 DEF Kept, Packet
  <2>2. ASSUME next' <= q.n + Ids  PROVE q \in Entries(d.sent)
    <3>1. next' = next + 1 /\ next \in Nat /\ Ids \in Nat  BY <1>1, <1>2
    <3>2. next <= q.n + Ids /\ next < q.n + Ids  BY <2>1, <2>2, <3>1
    <3>3. q \in Entries(c.sent)  BY <2>1, <3>2
    <3> QED  BY <1>4, <3>2, <3>3
  <2>3. ASSUME now <= q.tx + TransitAge  PROVE next < q.n + Half
    <3>1. CASE next <= q.n + Ids
      <4>1. q \in Entries(c.sent)  BY <2>1, <3>1
      <4>2. PICK i \in 1 .. Len(c.sent) : q = c.sent[i]  BY <4>1 DEF Entries
      <4>3. i \in DOMAIN c.sent
        <5>1. c.sent \in Seq(Packet)  BY InvParts DEF UpToNow
        <5> QED  BY <4>2, <5>1, LenProperties
      <4>4. q.tx + TransitAge >= now  BY <1>2, <2>1, <2>3
      <4>5. next - q.n < Half  BY <1>3, <4>2, <4>3, <4>4 DEF Room
      <4> QED  BY <1>2, <2>1, <4>5
    <3>2. CASE next > q.n + Ids
      <4>1. PICK x \in Entries(c.sent) : x.n = next - 1
        <5>1. c.sent # <<>>  BY <1>2, <2>1, InvParts DEF SentOK, SentRow
        <5>2. Len(c.sent) \in Nat /\ Len(c.sent) # 0
          BY <1>2, <5>1, InvParts, Row
        <5>3. next - 1 \in next - Len(c.sent) .. next - 1  BY <1>2, <5>2
        <5> QED  BY <1>2, <5>3, InvParts, RowEntries
      <4>2. x.tx <= now /\ x.tx \in Nat  BY InvParts
      <4>3. x.tx <= q.tx + TransitAge  BY <1>2, <2>1, <2>3, <4>2
      <4>4. x.n < q.n + Half  BY <2>1, <4>3
      <4> QED  BY <1>2, <2>1, <3>2, <4>1, <4>4
    <3> QED  BY <1>2, <2>1, <3>1, <3>2
  <2>4. ASSUME NEW x \in Entries(d.sent), x.tx <= q.tx + TransitAge  PROVE x.n < q.n + Half
    <3>1. CASE x = p
      <4>1. x.n = next /\ x.tx = now  BY <3>1 DEF p
      <4> QED  BY <2>3, <2>4, <4>1
    <3>2. CASE x # p  BY <1>4, <2>1, <2>4, <3>2
    <3> QED  BY <3>1, <3>2
  <2>5. q.n < next'  BY <1>1, <1>2, <2>1
  <2> QED  BY <1>1, <2>2, <2>4, <2>5 DEF Kept
<1>8. GroupInv'
  <2>1. CurrentGroup => CurrentGroup'
    <3> SUFFICES ASSUME CurrentGroup  PROVE CurrentGroup'  OBVIOUS
    <3>1. PICK q \in Packet : /\ Id(q.n) = prevId /\ Kept(q)
                              /\ groupStart <= q.tx /\ q.tx <= groupStart + GroupGap
      BY DEF CurrentGroup
    <3>2. Kept(q)'  BY <1>7, <3>1
    <3> QED  BY <1>1, <3>1, <3>2 DEF CurrentGroup, groupVars
  <2>2. GroupBefore => GroupBefore'
    <3> SUFFICES ASSUME GroupBefore  PROVE GroupBefore'  OBVIOUS
    <3>1. PICK q \in Packet : /\ Id(q.n) = prevGroupEnd /\ Kept(q)
                              /\ q.tx < groupStart /\ groupStart <= q.tx + LockGap
      BY DEF GroupBefore
    <3>2. Kept(q)'  BY <1>7, <3>1
    <3> QED  BY <1>1, <3>1, <3>2 DEF GroupBefore, groupVars
  <2>3. Len(c.sent) = next \/ Len(c.sent) = Ids
        => Len(controller'.sent) = next' \/ Len(controller'.sent) = Ids
    BY <1>1, <1>4
  <2>4. next' > 0  BY <1>1, <1>2
  <2> QED  BY <1>1, <2>1, <2>2, <2>3, <2>4 DEF ActiveInv, GroupInv, groupVars
<1>9. ControllerInv(controller', next', now')  BY <1>1, <1>4
<1> QED  BY <1>5, <1>6, <1>8, <1>9 DEF ActiveInv

LEMMA TickStep ==
    ASSUME ActiveInv, Tick
    PROVE  ActiveInv'
<1>1. /\ now < MaxTime /\ now' = now + 1
      /\ UNCHANGED <<next, latest, skipped, controller, groupVars>>
  BY DEF Tick
<1>2. next \in Nat /\ now \in Nat /\ MaxTime \in Nat  BY InvParts
<1>3. ControllerInv(controller', next', now')
  <2>1. now' \in Nat /\ now <= now'  BY <1>1, <1>2
  <2>2. ControllerInv(controller, next, now')  BY <1>2, <2>1, InvParts, LaterKeeps
  <2> QED  BY <1>1, <2>2
<1>4. NumberInv'  BY <1>1, <1>2 DEF ActiveInv, NumberInv, groupVars
<1>5. DeliveryInv'  BY <1>1 DEF ActiveInv, DeliveryInv, Deliverable
<1>6. GroupInv'
  <2>1. \A p : Kept(p)' <=> Kept(p)  BY <1>1 DEF Kept
  <2>2. (CurrentGroup => CurrentGroup') /\ (GroupBefore => GroupBefore')
    BY <1>1, <2>1 DEF CurrentGroup, GroupBefore, groupVars
  <2> QED  BY <1>1, <2>2 DEF ActiveInv, GroupInv, groupVars
<1> QED  BY <1>3, <1>4, <1>5, <1>6 DEF ActiveInv

LEMMA OutOfReachStep ==
    ASSUME ActiveInv, NEW n \in 0 .. next - 1, OutOfReach(n)
    PROVE  ActiveInv'
<1>1. Delivered(n) /\ UNCHANGED <<now, next, controller, groupVars>>  BY DEF OutOfReach
<1>2. DeliveryInv'
  <2>1. BaseInv  BY InvParts
  <2> QED  BY <1>1, <2>1, DeliveredKeeps
<1>3. NumberInv'  BY <1>1 DEF ActiveInv, NumberInv, groupVars
<1>4. GroupInv'
  <2>1. \A p : Kept(p)' <=> Kept(p)  BY <1>1 DEF Kept
  <2>2. (CurrentGroup => CurrentGroup') /\ (GroupBefore => GroupBefore')
    BY <1>1, <2>1 DEF CurrentGroup, GroupBefore, groupVars
  <2> QED  BY <1>1, <2>2 DEF ActiveInv, GroupInv, groupVars
<1> QED  BY <1>1, <1>2, <1>3, <1>4 DEF ActiveInv

LEMMA FirstSampleStep ==
    ASSUME ActiveInv, NEW n \in 0 .. next - 1, FirstSample(n)
    PROVE  ActiveInv'
<1>1. /\ firstFeedback /\ Delivered(n)
      /\ firstFeedback' = FALSE /\ prevId' = Id(n) /\ laterGroup' = FALSE
      /\ groupStart' = TxTime(n) /\ currPkts' = 1
      /\ UNCHANGED <<now, next, controller, prevGroupEnd, prevPkts>>
  BY DEF FirstSample
<1>2. /\ next \in Nat /\ now \in Nat /\ n \in Deliverable /\ DeliveryInv'
      /\ next - n <= Half /\ n \in Nat /\ BaseInv
  <2>1. BaseInv  BY InvParts
  <2>2. n \in Deliverable /\ DeliveryInv'  BY <1>1, <2>1, DeliveredKeeps
  <2> QED  BY <2>1, <2>2, InvParts
<1>3. Ids \in Nat /\ Half \in Nat /\ Ids = Half + Half /\ GroupGap \in Nat
  BY HalfIsHalf, GroupAssumption
<1>4. /\ ~laterGroup /\ prevGroupEnd = 0
      /\ Len(controller.sent) = next \/ Len(controller.sent) = Ids
  BY <1>1 DEF ActiveInv, GroupInv
<1>5. n >= next - Len(controller.sent)  BY <1>2, <1>3, <1>4
<1>6. PICK p \in Entries(controller.sent) : p.n = n /\ TxTime(n) = p.tx
  BY <1>2, <1>5, SampleTime
<1>7. p.tx \in Nat /\ p.tx <= now /\ p \in Packet  BY InvParts
<1>8. Kept(p)'
  <2>1. Kept(p)  BY EntriesKept
  <2> QED  BY <1>1, <2>1, KeptStays
<1>9. CurrentGroup'
  <2>1. groupStart' = p.tx /\ p.tx <= p.tx + GroupGap  BY <1>1, <1>3, <1>6, <1>7
  <2> QED  BY <1>1, <1>6, <1>7, <1>8, <2>1 DEF CurrentGroup
<1>10. Id(n) \in 0 .. Ids - 1
  <2>1. n \in Int  BY <1>2
  <2> QED  BY <2>1, IdTyped
<1>11. NumberInv'
  <2>1. groupStart' \in 0 .. now  BY <1>1, <1>2, <1>6, <1>7
  <2> QED  BY <1>1, <1>10, <2>1 DEF ActiveInv, NumberInv
<1>12. GroupInv'
  <2>1. next > 0  BY <1>2
  <2> QED  BY <1>1, <1>4, <1>9, <2>1 DEF GroupInv
<1> QED  BY <1>1, <1>2, <1>11, <1>12 DEF ActiveInv

LEMMA SameGroupStep ==
    ASSUME ActiveInv, NEW n \in 0 .. next - 1, SameGroup(n)
    PROVE  ActiveInv'
<1>1. /\ ~firstFeedback /\ Delivered(n) /\ InReach(TxTime(n)) /\ ~NewGroup(TxTime(n))
      /\ currPkts' = currPkts + 1 /\ prevId' = Id(n)
      /\ UNCHANGED <<now, next, controller, firstFeedback, groupStart, laterGroup,
                     prevGroupEnd, prevPkts>>
  BY DEF SameGroup
<1>2. n \in Deliverable /\ DeliveryInv' /\ n \in Int /\ BaseInv
  <2>1. BaseInv  BY InvParts
  <2> QED  BY <1>1, <2>1, DeliveredKeeps
<1>3. PICK p \in Entries(controller.sent) :
          /\ p.n = n /\ groupStart <= p.tx /\ ~(groupStart + GroupGap < p.tx)
  BY <1>1, <1>2, SampleInReach
<1>4. p.tx \in Nat /\ p \in Packet /\ groupStart \in Nat /\ GroupGap \in Nat
  BY InvParts, GroupAssumption
<1>5. Kept(p)'
  <2>1. Kept(p)  BY EntriesKept
  <2> QED  BY <1>1, <2>1, KeptStays
<1>6. CurrentGroup'
  <2>1. p.tx <= groupStart + GroupGap  BY <1>3, <1>4
  <2> QED  BY <1>1, <1>3, <1>4, <1>5, <2>1 DEF CurrentGroup
<1>7. GroupBefore => GroupBefore'
  <2>1. \A q : Kept(q)' <=> Kept(q)  BY <1>1 DEF Kept
  <2> QED  BY <1>1, <2>1 DEF GroupBefore
<1>8. Id(n) \in 0 .. Ids - 1  BY <1>2, IdTyped
<1>9. NumberInv'  BY <1>1, <1>8 DEF ActiveInv, NumberInv
<1>10. GroupInv'
  <2>1. currPkts' > 0  BY <1>1 DEF ActiveInv, NumberInv
  <2> QED  BY <1>1, <1>6, <1>7, <2>1 DEF ActiveInv, GroupInv
<1> QED  BY <1>1, <1>2, <1>9, <1>10 DEF ActiveInv

\* The last packets of both groups are still in the history of sent packets,
\* in the order of the groups, and the one after which it is pruned as well.
LEMMA GroupsInHistory ==
    ASSUME ActiveInv, ~firstFeedback, NEW p \in Entries(controller.sent),
           next - p.n <= Half, groupStart + GroupGap < p.tx, p.tx <= groupStart + LockGap
    PROVE  /\ \E g \in Entries(controller.sent) :
                 /\ Id(g.n) = prevId /\ groupStart <= g.tx /\ g.tx < p.tx
                 /\ p.tx <= g.tx + LockGap /\ g.n < p.n
           /\ \E e \in Entries(controller.sent) :
                 /\ Id(e.n) >= prevGroupEnd /\ e.n <= p.n
                 /\ \A g \in Entries(controller.sent) : groupStart <= g.tx => e.n <= g.n
<1> DEFINE s == controller.sent
<1>1. /\ next \in Nat /\ now \in Nat /\ groupStart \in Nat /\ UpToNow(s, next, now)
      /\ \A q \in Entries(s) : q \in Packet /\ q.n \in Nat /\ q.tx \in Nat /\ q.n < next
  BY InvParts
<1>2. /\ Half \in Nat /\ Ids \in Nat /\ Ids = Half + Half
      /\ GroupGap \in Nat /\ LockGap \in Nat /\ 2 * LockGap <= TransitAge /\ TransitAge \in Nat
  BY HalfIsHalf, GroupAssumption, ControllerAssumption
<1>3. p \in Packet /\ p.n \in Nat /\ p.tx \in Nat  BY <1>1
<1>4. \A q, r \in Entries(s) : q.tx < r.tx => q.n < r.n
  BY <1>1, RowEntries
<1>5. Len(s) \in Nat /\ Len(s) \in 0 .. next /\ (s = <<>> <=> Len(s) = 0)
  BY <1>1, Row
<1>6. ASSUME NEW q \in Packet, Kept(q), p.tx <= q.tx + TransitAge
      PROVE  q \in Entries(s)
  <2>1. q.n \in Nat /\ q.tx \in Nat /\ p.n < q.n + Half
    BY <1>6 DEF Kept, Packet
  <2>2. next <= q.n + Ids  BY <1>1, <1>2, <1>3, <2>1
  <2> QED  BY <1>6, <2>2 DEF Kept
<1>7. PICK g \in Packet : /\ Id(g.n) = prevId /\ Kept(g)
                          /\ groupStart <= g.tx /\ g.tx <= groupStart + GroupGap
  BY DEF ActiveInv, GroupInv, CurrentGroup
<1>8. g.tx \in Nat /\ g.n \in Nat  BY <1>7 DEF Packet
<1>9. g.tx < p.tx /\ p.tx <= g.tx + LockGap /\ p.tx <= g.tx + TransitAge
  BY <1>1, <1>2, <1>3, <1>7, <1>8
<1>10. g \in Entries(s)  BY <1>6, <1>7, <1>9
<1>11. g.n < p.n  BY <1>4, <1>9, <1>10
<1>12. \E e \in Entries(s) :
          /\ Id(e.n) >= prevGroupEnd /\ e.n <= p.n
          /\ \A x \in Entries(s) : groupStart <= x.tx => e.n <= x.n
  <2>1. CASE laterGroup
    <3>1. PICK e \in Packet : /\ Id(e.n) = prevGroupEnd /\ Kept(e)
                              /\ e.tx < groupStart /\ groupStart <= e.tx + LockGap
      BY <2>1 DEF ActiveInv, GroupInv, GroupBefore
    <3>2. e.tx \in Nat /\ e.n \in Nat  BY <3>1 DEF Packet
    <3>3. p.tx <= e.tx + TransitAge  BY <1>1, <1>2, <1>3, <3>1, <3>2
    <3>4. e \in Entries(s)  BY <1>6, <3>1, <3>3
    <3>5. ASSUME NEW x \in Entries(s), groupStart <= x.tx  PROVE e.n <= x.n
      <4>1. e.tx < x.tx  BY <1>1, <3>1, <3>2, <3>5
      <4>2. e.n < x.n  BY <1>4, <3>4, <4>1
      <4> QED  BY <1>1, <3>2, <4>2
    <3>6. groupStart <= p.tx  BY <1>1, <1>2, <1>3
    <3>7. e.n <= p.n  BY <3>5, <3>6
    <3>8. Id(e.n) >= prevGroupEnd
      <4>1. prevGroupEnd \in Int
        <5>1. prevGroupEnd \in 0 .. Ids - 1  BY DEF ActiveInv, NumberInv
        <5> QED  BY <5>1
      <4> QED  BY <3>1, <4>1
    <3> QED  BY <3>4, <3>5, <3>7, <3>8
  <2>2. CASE ~laterGroup
    <3>1. prevGroupEnd = 0  BY <2>2 DEF ActiveInv, GroupInv
    <3>2. Len(s) # 0
      <4>1. Entries(s) # {}  OBVIOUS
      <4> QED  BY <1>5, <4>1 DEF Entries
    <3>3. next - Len(s) \in next - Len(s) .. next - 1  BY <1>1, <1>5, <3>2
    <3>4. PICK e \in Entries(s) : e.n = next - Len(s)
      <4>1. \A k \in next - Len(s) .. next - 1 : \E q \in Entries(s) : q.n = k
        BY <1>1, RowEntries
      <4> HIDE DEF s
      <4> QED  BY ONLY <3>3, <4>1
    <3>5. \A x \in Entries(s) : next - Len(s) <= x.n  BY <1>1, RowEntries
    <3>6. Id(e.n) >= 0
      <4>1. e.n \in Int  BY <1>1
      <4>2. Id(e.n) \in 0 .. Ids - 1  BY <4>1, IdTyped
      <4> QED  BY <1>2, <4>2
    <3>7. /\ Id(e.n) >= prevGroupEnd /\ e.n <= p.n
          /\ \A x \in Entries(s) : groupStart <= x.tx => e.n <= x.n
      BY <3>1, <3>4, <3>5, <3>6
    <3> QED  BY <3>7
  <2> QED  BY <2>1, <2>2
<1> QED  BY <1>7, <1>9, <1>10, <1>11, <1>12

LEMMA StartGroupStep ==
    ASSUME ActiveInv, NEW n \in 0 .. next - 1, StartGroup(n)
    PROVE  ActiveInv'
<1> DEFINE b == IF laterGroup THEN ProcessFeedback(controller, now, Id(n)) ELSE controller
           d == PrunTransitHistory(b, prevGroupEnd)
<1>1. /\ ~firstFeedback /\ Delivered(n) /\ InReach(TxTime(n)) /\ NewGroup(TxTime(n))
      /\ controller' = d /\ prevGroupEnd' = prevId /\ laterGroup' = TRUE
      /\ groupStart' = TxTime(n) /\ prevPkts' = currPkts /\ currPkts' = 1
      /\ prevId' = Id(n) /\ UNCHANGED <<now, next, firstFeedback>>
  BY DEF StartGroup
<1>2. n \in Deliverable /\ DeliveryInv' /\ n \in Int /\ next - n <= Half /\ BaseInv
  <2>1. BaseInv  BY InvParts
  <2>2. n \in Deliverable /\ DeliveryInv'  BY <1>1, <2>1, DeliveredKeeps
  <2> QED  BY <2>1, <2>2, InvParts
<1>3. PICK p \in Entries(controller.sent) :
          /\ p.n = n /\ TxTime(n) = p.tx
          /\ groupStart + GroupGap < p.tx /\ p.tx <= groupStart + LockGap
  BY <1>1, <1>2, SampleInReach
<1>4. PICK g \in Entries(controller.sent) :
          /\ Id(g.n) = prevId /\ groupStart <= g.tx /\ g.tx < p.tx
          /\ p.tx <= g.tx + LockGap /\ g.n < p.n
  BY <1>1, <1>2, <1>3, GroupsInHistory
<1>5. PICK e \in Entries(controller.sent) :
          /\ Id(e.n) >= prevGroupEnd /\ e.n <= p.n
          /\ \A x \in Entries(controller.sent) : groupStart <= x.tx => e.n <= x.n
  BY <1>1, <1>2, <1>3, GroupsInHistory
<1>6. /\ next \in Nat /\ now \in Nat /\ ControllerInv(controller, next, now)
      /\ p \in Packet /\ p.tx \in Nat /\ p.tx <= now /\ g \in Packet
      /\ GroupGap \in Nat
  BY InvParts, GroupAssumption
<1>7. prevGroupEnd \in Int /\ prevId \in 0 .. Ids - 1 /\ currPkts \in Nat /\ currPkts > 0
  <2>1. prevGroupEnd \in 0 .. Ids - 1 /\ prevId \in 0 .. Ids - 1 /\ currPkts \in Nat
    BY DEF ActiveInv, NumberInv
  <2> QED  BY <1>1, <2>1 DEF ActiveInv, GroupInv
<1>8. ControllerInv(b, next, now) /\ b.sent = controller.sent
  BY <1>2, <1>6, FeedKeeps
<1> HIDE DEF b
<1>9. /\ ControllerInv(d, next, now)
      /\ Entries(d.sent) \subseteq Entries(b.sent)
      /\ \A q \in Entries(b.sent) : e.n <= q.n => q \in Entries(d.sent)
  <2>1. e \in Entries(b.sent)  BY <1>5, <1>8
  <2>2. Id(e.n) >= prevGroupEnd  BY <1>5
  <2> QED  BY <1>6, <1>7, <1>8, <2>1, <2>2, PruneKeeps
<1> HIDE DEF d
<1>10. Entries(controller'.sent) \subseteq Entries(controller.sent)  BY <1>1, <1>8, <1>9
<1>11. p \in Entries(controller'.sent) /\ g \in Entries(controller'.sent)
  BY <1>1, <1>4, <1>5, <1>8, <1>9
<1>12. Kept(p)' /\ Kept(g)'
  <2>1. Kept(p) /\ Kept(g)  BY EntriesKept
  <2> QED  BY <1>1, <1>10, <1>11, <2>1, KeptStays
<1>13. CurrentGroup'
  <2>1. groupStart' = p.tx /\ p.tx <= p.tx + GroupGap  BY <1>1, <1>3, <1>6
  <2> QED  BY <1>1, <1>3, <1>6, <1>12, <2>1 DEF CurrentGroup
<1>14. GroupBefore'
  <2>1. groupStart' = p.tx  BY <1>1, <1>3
  <2> QED  BY <1>1, <1>4, <1>6, <1>12, <2>1 DEF GroupBefore
<1>15. Id(n) \in 0 .. Ids - 1  BY <1>2, IdTyped
<1>16. NumberInv'
  <2>1. groupStart' \in 0 .. now  BY <1>1, <1>3, <1>6
  <2> QED  BY <1>1, <1>7, <1>15, <2>1 DEF ActiveInv, NumberInv
<1>17. GroupInv'
  <2>1. next > 0 /\ firstFeedback' = FALSE
    BY <1>1 DEF ActiveInv, GroupInv, NumberInv
  <2> QED  BY <1>1, <1>7, <1>13, <1>14, <2>1 DEF GroupInv
<1>18. ControllerInv(controller', next', now')  BY <1>1, <1>9
<1> QED  BY <1>2, <1>16, <1>17, <1>18 DEF ActiveInv

------------------------------------------------------------------------------
(* After a gap in the feedback. *)

\* A sample to come that is in reach after a step was in reach before it, when
\* its packet's entry was there.
LEMMA InReachBefore ==
    ASSUME BaseInv, NEW n \in Deliverable, NEW p \in Entries(controller.sent),
           p.n = n, groupStart <= p.tx, p.tx <= groupStart + LockGap
    PROVE  InReach(TxTime(n))
<1>1. next \in Nat /\ now \in Nat /\ UpToNow(controller.sent, next, now)  BY BaseParts
<1>2. next - Len(controller.sent) <= p.n  BY <1>1, RowEntries
<1>3. n >= next - Len(controller.sent)
  <2>1. Len(controller.sent) \in Nat /\ n \in Nat  BY <1>1, Row, BaseParts
  <2> QED  BY <1>1, <1>2, <2>1
<1>4. PICK q \in Entries(controller.sent) : q.n = n /\ TxTime(n) = q.tx
  BY <1>3, SampleTime
<1>5. q = p  BY <1>1, <1>4, RowEntries
<1>6. p.tx \in 0 .. MaxTime /\ groupStart \in 0 .. MaxTime  BY BaseParts
<1>7. InReach(p.tx)  BY <1>6, Times
<1> QED  BY <1>4, <1>5, <1>7

\* Every sample to come that is in reach has an entry.
InReachHasEntry ==
    \A n \in Deliverable : InReach(TxTime(n)) =>
        \E p \in Entries(controller.sent) :
            p.n = n /\ groupStart <= p.tx /\ p.tx <= groupStart + LockGap

LEMMA EntryInReach == BaseInv => InReachHasEntry
  BY SampleInReach DEF InReachHasEntry

LEMMA LockedOutSend ==
    ASSUME BaseInv, LockedOut, SendPacket
    PROVE  BaseInv' /\ LockedOut' /\ UNCHANGED groupVars
<1> DEFINE x == [n |-> next, tx |-> now]
<1>1. /\ next' = next + 1 /\ NumbersSuffice
      /\ controller' = ProcessSendPacket(controller, now, next)
      /\ UNCHANGED <<now, latest, skipped, groupVars>>
  BY DEF SendPacket
<1>2. /\ next \in Nat /\ now \in Nat /\ groupStart \in Nat /\ LockGap \in Nat
      /\ latest \in -1 .. next - 1
  BY BaseParts, GroupAssumption DEF BaseInv, DeliveryInv
<1>3. ~firstFeedback /\ now > groupStart + LockGap
      /\ \A n \in Deliverable : ~InReach(TxTime(n))
  BY DEF LockedOut, Deliverable
<1>4. UNCHANGED <<firstFeedback, groupStart>>  BY <1>1 DEF groupVars
<1>5. /\ ControllerRow(controller', next', now')
      /\ Entries(controller'.sent) \subseteq Entries(controller.sent) \cup {x}
  <2> DEFINE d == ProcessSendPacket(controller, now, next)
  <2>1. ControllerRow(controller, next, now)  BY DEF BaseInv
  <2>2. /\ ControllerRow(d, next + 1, now)
        /\ Entries(d.sent) \subseteq Entries(controller.sent) \cup {x}
    BY <1>2, <2>1, SendKeepsRow
  <2> QED  BY <1>1, <2>2
<1>6. BaseInv'
  <2>1. NumberInv'
    BY <1>1, <1>2, GroupAssumption DEF SendPacket, BaseInv, NumberInv, groupVars
  <2>2. DeliveryInv'  BY <1>1, SendDeliveries
  <2> QED  BY <1>1, <1>5, <2>1, <2>2 DEF BaseInv, groupVars
<1>7. InReachHasEntry'
  <2>1. BaseInv' => InReachHasEntry'  BY EntryInReach, PTL
  <2> QED  BY <1>6, <2>1
<1>8. ASSUME NEW n \in Deliverable', InReach(TxTime(n))'
      PROVE  FALSE
  <2>1. PICK p \in Entries(controller'.sent) :
            p.n = n /\ groupStart' <= p.tx /\ p.tx <= groupStart' + LockGap
    BY <1>7, <1>8 DEF InReachHasEntry
  <2>2. groupStart <= p.tx /\ p.tx <= groupStart + LockGap  BY <1>4, <2>1
  <2>3. p \in Entries(controller.sent)
    <3>1. p # x  BY <1>2, <1>3, <2>2
    <3> QED  BY <1>5, <3>1
  <2>4. n \in Deliverable
    <3>1. n < next  BY <2>1, <2>3, BaseParts
    <3>2. n \in skipped \/ n \in latest + 1 .. next  BY <1>1, <1>2, <1>8 DEF Deliverable
    <3> QED  BY <1>2, <3>1, <3>2 DEF Deliverable
  <2>5. InReach(TxTime(n))  BY <2>1, <2>2, <2>3, <2>4, InReachBefore
  <2> QED  BY <1>3, <2>4, <2>5
<1>9. LockedOut'
  <2>1. ~firstFeedback' /\ now' > groupStart' + LockGap  BY <1>1, <1>3, <1>4
  <2>2. \A n \in Deliverable' : ~InReach(TxTime(n))'  BY <1>8
  <2> QED  BY <2>1, <2>2 DEF LockedOut, Deliverable
<1> QED  BY <1>1, <1>6, <1>9

\* A delivered sample is out of reach: nothing but the deliveries changes.
LEMMA LockedOutDelivered ==
    ASSUME BaseInv, LockedOut, NEW n \in 0 .. next - 1,
           FirstSample(n) \/ SameGroup(n) \/ StartGroup(n) \/ OutOfReach(n)
    PROVE  BaseInv' /\ LockedOut' /\ UNCHANGED groupVars
<1>1. Delivered(n) /\ next' = next
  BY DEF FirstSample, SameGroup, StartGroup, OutOfReach
<1>2. DeliveryInv' /\ n \in Deliverable /\ Deliverable' \subseteq Deliverable
  BY <1>1, DeliveredKeeps
<1>3. ~firstFeedback /\ ~InReach(TxTime(n))  BY <1>2 DEF LockedOut, Deliverable
<1>4. UNCHANGED <<now, next, controller, groupVars>>
  BY <1>3 DEF FirstSample, SameGroup, StartGroup, OutOfReach
<1>5. \A k : (TxTime(k)' = TxTime(k)) /\ (InReach(TxTime(k))' <=> InReach(TxTime(k)))
  BY <1>4 DEF TxTime, InReach, groupVars
<1>6. \A k \in Deliverable' : ~InReach(TxTime(k))'
  BY <1>2, <1>5 DEF LockedOut, Deliverable
<1>7. LockedOut'  BY <1>4, <1>6 DEF LockedOut, Deliverable, groupVars
<1>8. BaseInv'  BY <1>2, <1>4 DEF BaseInv, NumberInv, groupVars
<1> QED  BY <1>4, <1>7, <1>8

LEMMA LockedOutTick ==
    ASSUME BaseInv, LockedOut, Tick
    PROVE  BaseInv' /\ LockedOut' /\ UNCHANGED groupVars
<1>1. now < MaxTime /\ now' = now + 1
      /\ UNCHANGED <<next, latest, skipped, controller, groupVars>>
  BY DEF Tick
<1>2. UNCHANGED <<firstFeedback, groupStart>>  BY <1>1 DEF groupVars
<1>3. \A k : InReach(TxTime(k))' <=> InReach(TxTime(k))
  BY <1>1, <1>2 DEF TxTime, InReach
<1>4. /\ now \in Nat /\ next \in Nat /\ MaxTime \in Nat /\ groupStart \in Nat
      /\ LockGap \in Nat
  BY BaseParts, GroupAssumption
<1>5. now > groupStart + LockGap  BY DEF LockedOut
<1>6. now' > groupStart' + LockGap  BY <1>1, <1>2, <1>4, <1>5
<1>7. LockedOut'  BY <1>1, <1>2, <1>3, <1>6 DEF LockedOut
<1>8. ControllerRow(controller', next', now')
  <2>1. now' \in Nat /\ now <= now'  BY <1>1, <1>4
  <2>2. ControllerRow(controller, next, now)  BY DEF BaseInv
  <2>3. ControllerRow(controller, next, now')  BY <1>4, <2>1, <2>2, LaterKeepsRow
  <2> QED  BY <1>1, <2>3
<1>9. NumberInv' /\ DeliveryInv'
  BY <1>1, <1>4 DEF BaseInv, NumberInv, DeliveryInv, Deliverable, groupVars
<1>10. BaseInv'  BY <1>1, <1>8, <1>9 DEF BaseInv, groupVars
<1> QED  BY <1>1, <1>7, <1>10

LEMMA LockedOutStutter ==
    ASSUME BaseInv, LockedOut, UNCHANGED vars
    PROVE  BaseInv' /\ LockedOut' /\ UNCHANGED groupVars
<1>1. /\ now' = now /\ next' = next /\ latest' = latest /\ skipped' = skipped
      /\ controller' = controller /\ UNCHANGED groupVars
  BY DEF vars
<1>2. \A k : InReach(TxTime(k))' <=> InReach(TxTime(k))
  BY <1>1 DEF TxTime, InReach, groupVars
<1>3. LockedOut'  BY <1>1, <1>2 DEF LockedOut, groupVars
<1>4. BaseInv'
  BY <1>1 DEF BaseInv, NumberInv, DeliveryInv, Deliverable, groupVars
<1> QED  BY <1>1, <1>3, <1>4

\* Nothing that happens ends it.
LEMMA LockedOutStep ==
    ASSUME BaseInv, LockedOut, [Next]_vars
    PROVE  BaseInv' /\ LockedOut' /\ UNCHANGED groupVars
<1>1. CASE SendPacket  BY <1>1, LockedOutSend
<1>2. CASE Tick  BY <1>2, LockedOutTick
<1>3. ASSUME NEW n \in 0 .. next - 1,
             FirstSample(n) \/ SameGroup(n) \/ StartGroup(n) \/ OutOfReach(n)
      PROVE  BaseInv' /\ LockedOut' /\ UNCHANGED groupVars
  BY <1>3, LockedOutDelivered
<1>4. CASE UNCHANGED vars  BY <1>4, LockedOutStutter
<1> QED  BY <1>1, <1>2, <1>3, <1>4 DEF Next

------------------------------------------------------------------------------
(* The invariant. *)

\* The whole state stays well-formed, with all that feedback needs until it is
\* no longer taken into account: the invariant that the results below rest on.
THEOREM FeedbackInvariant == Spec => []FeedbackInv
<1>1. Init => FeedbackInv  BY GroupsInitial DEF FeedbackInv
<1>2. FeedbackInv /\ [Next]_vars => FeedbackInv'
  <2> SUFFICES ASSUME FeedbackInv, [Next]_vars  PROVE FeedbackInv'  OBVIOUS
  <2>1. CASE LockedOut
    <3>1. BaseInv  BY InvParts DEF FeedbackInv
    <3> QED  BY <2>1, <3>1, LockedOutStep DEF FeedbackInv
  <2>2. CASE ~LockedOut
    <3>0. ActiveInv  BY <2>2 DEF FeedbackInv
    <3>1. CASE SendPacket  BY <2>2, <3>0, <3>1, SendStep DEF FeedbackInv
    <3>2. CASE Tick  BY <3>0, <3>2, TickStep DEF FeedbackInv
    <3>3. ASSUME NEW n \in 0 .. next - 1,
                 FirstSample(n) \/ SameGroup(n) \/ StartGroup(n) \/ OutOfReach(n)
          PROVE  ActiveInv'
      BY <3>0, <3>3, FirstSampleStep, SameGroupStep, StartGroupStep, OutOfReachStep
    <3>4. CASE UNCHANGED vars
      <4>1. /\ now' = now /\ next' = next /\ latest' = latest /\ skipped' = skipped
            /\ controller' = controller /\ UNCHANGED groupVars
        BY <3>4 DEF vars
      <4>2. Deliverable' = Deliverable  BY <4>1 DEF Deliverable
      <4>3. \A p : Kept(p)' <=> Kept(p)  BY <4>1 DEF Kept
      <4>4. (CurrentGroup' <=> CurrentGroup) /\ (GroupBefore' <=> GroupBefore)
        BY <4>1, <4>3 DEF CurrentGroup, GroupBefore, groupVars
      <4>5. ActiveInv'
        BY <3>0, <4>1, <4>2, <4>4
           DEF ActiveInv, NumberInv, DeliveryInv, GroupInv, groupVars
      <4> QED  BY <4>5 DEF FeedbackInv
    <3> QED  BY <3>1, <3>2, <3>3, <3>4 DEF Next, FeedbackInv
  <2> QED  BY <2>1, <2>2
<1> QED  BY <1>1, <1>2, PTL DEF Spec

------------------------------------------------------------------------------
(* What the invariant means. *)

\* A sequence is one of the values all its elements are.
LEMMA SequenceIs ==
    ASSUME NEW A, NEW s \in Seq(A), NEW B, \A i \in 1 .. Len(s) : s[i] \in B
    PROVE  s \in Seq(B)
<1>1. s = [i \in 1 .. Len(s) |-> s[i]] /\ Len(s) \in Nat  BY LenProperties
<1>2. s \in [1 .. Len(s) -> B]  BY <1>1
<1> QED  BY <1>1, <1>2

LEMMA RowTyped ==
    ASSUME NEW s, NEW N \in Nat, NEW t \in Nat, UpToNow(s, N, t)
    PROVE  s \in Seq([n : 0 .. N - 1, tx : 0 .. t])
<1>1. s \in Seq(Packet) /\ Len(s) \in Nat /\ DOMAIN s = 1 .. Len(s)
  BY LenProperties DEF UpToNow
<1>2. ASSUME NEW i \in 1 .. Len(s)  PROVE s[i] \in [n : 0 .. N - 1, tx : 0 .. t]
  <2>1. /\ s[i] \in Packet /\ s[i].n \in Nat /\ s[i].tx \in Nat
        /\ s[i].n < N /\ s[i].tx <= t
    BY Row
  <2>2. s[i] = [n |-> s[i].n, tx |-> s[i].tx]  BY <2>1 DEF Packet
  <2>3. s[i].n \in 0 .. N - 1 /\ s[i].tx \in 0 .. t  BY <2>1
  <2> QED  BY <2>2, <2>3
<1> QED  BY <1>1, <1>2, SequenceIs

LEMMA HistoryTyped ==
    ASSUME NEW h, NEW N \in Nat, NEW t \in Nat, HistoryRow(h, N, t)
    PROVE  h \in Seq([n : 0 .. N - 1, tx : 0 .. t, counts : SUBSET (0 .. N - 1)])
<1>1. h \in Seq(FedBack) /\ Len(h) \in Nat /\ DOMAIN h = 1 .. Len(h)
  BY LenProperties DEF HistoryRow
<1>2. ASSUME NEW i \in 1 .. Len(h)
      PROVE  h[i] \in [n : 0 .. N - 1, tx : 0 .. t, counts : SUBSET (0 .. N - 1)]
  <2>1. h[i] \in FedBack /\ h[i].n \in Nat /\ h[i].tx \in Nat  BY <1>1, HistoryParts
  <2>2. h[i].n < N /\ h[i].tx <= t /\ h[i].counts \subseteq 0 .. N - 1  BY DEF HistoryRow
  <2>3. h[i] = [n |-> h[i].n, tx |-> h[i].tx, counts |-> h[i].counts]
    BY <2>1 DEF FedBack
  <2>4. h[i].n \in 0 .. N - 1 /\ h[i].tx \in 0 .. t  BY <2>1, <2>2
  <2> QED  BY <2>2, <2>3, <2>4
<1> QED  BY <1>1, <1>2, SequenceIs

\* The history is not longer than the numbers it spans: the entries are in
\* order and less than a circle apart.
LEMMA LossInfoHolds ==
    ASSUME NEW c, NEW N \in Nat, NEW t \in Nat, HistoryRow(c.history, N, t)
    PROVE  LossInfoAsserted(c)
<1> DEFINE h == c.history
<1> SUFFICES ASSUME h # <<>>
             PROVE (1 + Id(Last(h).n) - Id(h[1].n)) % Ids >= Len(h)
  BY DEF LossInfoAsserted
<1>1. /\ Last(h).n \in Nat /\ h[1].n \in Nat /\ h[1].n + (Len(h) - 1) <= Last(h).n
      /\ Last(h).n - h[1].n < Half /\ Len(h) \in Nat /\ Len(h) # 0
  <2>1. HistoryRow(h, N, t) /\ h \in Seq(FedBack)  BY DEF HistoryRow
  <2> HIDE DEF h
  <2>2. /\ Len(h) \in Nat /\ Len(h) # 0 /\ Len(h) \in 1 .. Len(h) /\ 1 \in 1 .. Len(h)
        /\ Last(h) = h[Len(h)] /\ \A i \in 1 .. Len(h) : h[i].n \in Nat
    BY <2>1, HistoryParts
  <2>3. h[1].n + (Len(h) - 1) <= h[Len(h)].n
    <3>1. CASE Len(h) = 1  BY <2>2, <3>1
    <3>2. CASE 1 < Len(h)  BY <2>1, <2>2, <3>2 DEF HistoryRow
    <3> QED  BY <2>2, <3>1, <3>2
  <2> QED  BY <2>1, <2>2, <2>3 DEF HistoryRow
<1> DEFINE a == h[1].n
           b == Last(h).n
<1> HIDE DEF h, a, b
<1>2. a \in Int /\ b \in Int /\ a \in Nat /\ b \in Nat /\ b - a < Half
      /\ a + (Len(h) - 1) <= b /\ Len(h) \in Nat
  BY <1>1 DEF a, b
<1>3. Ids \in Nat \ {0, 1} /\ Half \in Nat /\ Ids = Half + Half
  BY HalfIsHalf, ControllerAssumption
<1>4. b - a \in 0 .. Ids - 1 /\ b - a + 1 \in 0 .. Ids - 1
  <2>1. Half # 0  BY <1>3
  <2>2. b - a <= Half - 1 /\ a <= b  BY <1>1, <1>2, <1>3
  <2> QED  BY <1>2, <1>3, <2>1, <2>2
<1>5. Id(b) \in Int /\ Id(a) \in Int
  <2>1. Id(a) \in 0 .. Ids - 1 /\ Id(b) \in 0 .. Ids - 1  BY <1>2, IdTyped
  <2> QED  BY <2>1
<1>6. (Id(b) - Id(a)) % Ids = b - a  BY <1>2, <1>4, IdDifference
<1>7. (1 + Id(b) - Id(a)) % Ids = b - a + 1
  <2> DEFINE d == Id(b) - Id(a)
  <2>1. d \in Int /\ Ids \in Nat \ {0}  BY <1>3, <1>5
  <2>2. 1 + Id(b) - Id(a) = d + 1  BY <1>5
  <2>3. d % Ids = b - a  BY <1>6
  <2> HIDE DEF d
  <2>4. PICK q \in Int : d = Ids * q + (d % Ids)  BY <2>1, IntRemainder
  <2>5. d + 1 \in Int  BY <2>1
  <2>6. PICK r \in Int : d + 1 = Ids * r + ((d + 1) % Ids) /\ (d + 1) % Ids \in 0 .. Ids - 1
    BY <2>1, <2>5, IntRemainder
  <2> DEFINE x == (d + 1) % Ids
             y == b - a + 1
             k == q - r
  <2>7. k \in Int /\ Ids * k = Ids * q - Ids * r  BY <1>3, <2>4, <2>6
  <2>8. x \in 0 .. Ids - 1 /\ y \in 0 .. Ids - 1  BY <1>4, <2>6
  <2>9. x - y = Ids * k  
    <3>1. d + 1 = Ids * q + y  BY <1>2, <1>3, <2>3, <2>4
    <3>2. Ids * q \in Int /\ Ids * r \in Int  BY <1>3, <2>4, <2>6
    <3> QED  BY <2>1, <2>6, <2>7, <2>8, <3>1, <3>2
  <2> HIDE DEF x, y, k
  <2>10. k = 0  BY ONLY <2>1, <2>7, <2>8, <2>9, SMT
  <2>11. x = y  BY ONLY <1>3, <2>8, <2>9, <2>10, SMT
  <2> QED  BY <2>2, <2>11 DEF x, y
<1>8. b - a + 1 >= Len(h)  BY <1>2
<1> QED  BY <1>7, <1>8 DEF a, b

\* The invariant gives the properties the runs check.
LEMMA InvariantIsSound ==
    ASSUME FeedbackInv
    PROVE  HistoriesSound /\ SizesCountOnce
<1> DEFINE c == controller
<1>1. /\ next \in Nat /\ now \in Nat /\ MaxTime \in Nat /\ now <= MaxTime
      /\ groupStart \in 0 .. MaxTime /\ BaseInv
  <2>1. BaseInv  BY InvParts DEF FeedbackInv
  <2> QED  BY <2>1, BaseParts
<1>2. /\ c \in Controllers /\ c.sound /\ NumbersOK(c, next) /\ SentRow(c.sent, next, now)
      /\ UpToNow(c.transit, next, now) /\ HistoryRow(c.history, next, now)
      /\ c.sizeSum = Bytes(c.history) /\ Len(c.intervals) \in 1 .. 9
  BY <1>1 DEF BaseInv, ControllerRow
<1>3. c.transit \in Seq([n : 0 .. next - 1, tx : 0 .. now])
  BY <1>1, <1>2, RowTyped
<1>4. c.sent \in Seq([n : 0 .. next - 1, tx : 0 .. now]) /\ Len(c.sent) <= Ids
  BY <1>1, <1>2, RowTyped DEF SentRow
<1>5. c.history \in Seq([n : 0 .. next - 1, tx : 0 .. now, counts : SUBSET (0 .. next - 1)])
  BY <1>1, <1>2, HistoryTyped
<1>6. c.history \in Seq(FedBack)  BY <1>2 DEF HistoryRow
<1>7. c.sizeSum \in Nat  BY <1>2, <1>6, BytesIs
<1>8. groupStart \in 0 .. TimeRange - 1  BY <1>1 DEF TimeRange
<1> HIDE DEF c
<1>9. GroupTypeOK
  <2>1. {c.lastSequence, c.lastRecv, c.expected, prevId, prevGroupEnd} \subseteq 0 .. Ids - 1
    BY <1>1, <1>2 DEF BaseInv, NumberInv, NumbersOK
  <2>2. latest \in -1 .. next - 1 /\ skipped \subseteq 0 .. next - 1
    BY <1>1 DEF BaseInv, DeliveryInv
  <2> QED  BY <1>1, <1>2, <1>3, <1>4, <1>5, <1>7, <1>8, <2>1, <2>2
           DEF GroupTypeOK, BaseInv, NumberInv, c
<1>10. AssertionsHold
  <2>1. LossInfoAsserted(c)  BY <1>1, <1>2, LossInfoHolds
  <2>2. laterGroup => prevPkts > 0  BY <1>1 DEF BaseInv
  <2> QED  BY <1>2, <2>1, <2>2 DEF AssertionsHold, c
<1>11. SizesCountOnce
  BY <1>2 DEF SizesCountOnce, SizesAddUp, CountedOnce, HistoryRow, c
<1> QED  BY <1>9, <1>10, <1>11 DEF HistoriesSound

\* No assert of the controller or of the sender fails, however samples are
\* reordered and however often the 16-bit numbers wrap around: what
\* PrunTransitHistory and the loops of processFeedback pop always stops at a
\* packet that is still there.
THEOREM HistoriesStaySound == Spec => []HistoriesSound
<1>1. FeedbackInv => HistoriesSound  BY InvariantIsSound
<1> QED  BY <1>1, FeedbackInvariant, PTL

\* m_pktSizeSum is the sum over the packet history, in which every packet sent
\* is counted at most once: the throughput processFeedback derives from it
\* never counts a packet twice.
THEOREM SizesAreExact == Spec => []SizesCountOnce
<1>1. FeedbackInv => SizesCountOnce  BY InvariantIsSound
<1> QED  BY <1>1, FeedbackInvariant, PTL

\* Once the feedback has a gap longer than 20 frame intervals and all samples
\* to come are out of reach of the group, no packet sent later and no report
\* moves the start of the group: the controller gets no feedback any more.
THEOREM LockOutIsFinal == Spec => LockedOutForever
<1>1. FeedbackInv => BaseInv  BY InvParts DEF FeedbackInv
<1>2. BaseInv /\ [Next]_vars => [LockedOut => LockedOut' /\ UNCHANGED groupVars]_vars
  BY LockedOutStep
<1> QED  BY <1>1, <1>2, FeedbackInvariant, PTL DEF Spec, LockedOutForever

=============================================================================

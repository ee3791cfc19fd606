---------------------------- MODULE FastAckProofs ----------------------------
(***************************************************************************)
(* Theorems about FastAck, for all values of its constants: the pending    *)
(* checks of the access point's periodic timer, what its early ACKs answer *)
(* for, and what it keeps for the client.                                  *)
(***************************************************************************)
EXTENDS FastAck, SequenceTheorems, NaturalsInduction, WellFoundedInduction, TLAPS

\* On WiFi there is one check until the application stops.  In point-to-point
\* mode the first check leaves two or more behind, and a stop takes one.
ChecksInv ==
    /\ mode \in {"WiFi", "P2P"} /\ stopped \in BOOLEAN /\ checks \in Nat
    /\ mode = "WiFi" => checks = IF stopped THEN 0 ELSE 1
    /\ mode = "P2P" => /\ ~stopped => checks >= 1
                       /\ seen # {} => checks >= IF stopped THEN 1 ELSE 2

\* The smaller of two numbers.
LEMMA MinPair ==
    ASSUME NEW a \in Int, NEW b \in Int
    PROVE  Min({a, b}) = IF a <= b THEN a ELSE b
<1> DEFINE m == IF a <= b THEN a ELSE b
<1>1. m \in {a, b} /\ \A y \in {a, b} : m <= y  OBVIOUS
<1>2. \A x \in {a, b} : (\A y \in {a, b} : x <= y) => x = m  OBVIOUS
<1> QED  BY <1>1, <1>2 DEF Min

\* How the number of pending checks goes on after one of them.
LEMMA AfterCheck ==
    ASSUME ChecksInv, checks > 0
    PROVE  /\ NextChecks(checks) \in Nat
           /\ mode = "WiFi" => NextChecks(checks) = checks
           /\ mode = "P2P" => NextChecks(checks) >= 2
<1>1. MaxChecks \in Nat /\ MaxChecks > 1  BY FastAckAssumption
<1>2. checks \in Nat /\ mode \in {"WiFi", "P2P"}  BY DEF ChecksInv
<1>3. Min({checks + 1, MaxChecks}) =
        IF checks + 1 <= MaxChecks THEN checks + 1 ELSE MaxChecks
  BY <1>1, <1>2, MinPair
<1> QED  BY <1>1, <1>2, <1>3 DEF NextChecks

LEMMA ChecksInitial == Init => ChecksInv
<1> SUFFICES ASSUME Init  PROVE ChecksInv  OBVIOUS
<1>1. mode \in {"WiFi", "P2P"}  BY FastAckAssumption DEF Init
<1>2. checks = 1 /\ checks \in Nat /\ checks >= 1
  <2>1. checks = 1  BY DEF Init
  <2> QED  BY <2>1
<1>3. ~stopped /\ stopped \in BOOLEAN  BY Zenon DEF Init
<1>4. ~(seen # {})  BY DEF Init
<1> QED  BY <1>1, <1>2, <1>3, <1>4 DEF ChecksInv

LEMMA ChecksStep == ChecksInv /\ [Next]_vars => ChecksInv'
<1> SUFFICES ASSUME ChecksInv, [Next]_vars  PROVE ChecksInv'  OBVIOUS
<1>1. CASE CheckAck
  <2>1. /\ checks > 0 /\ checks' = NextChecks(checks)
        /\ mode' = mode /\ stopped' = stopped
    BY <1>1 DEF CheckAck
  <2>2. mode = "WiFi" => ~stopped  BY <2>1 DEF ChecksInv
  <2> QED  BY <2>1, <2>2, AfterCheck DEF ChecksInv
<1>2. CASE StopApplication
  <2>1. /\ ~stopped /\ stopped' = TRUE /\ checks' = checks - 1
        /\ mode' = mode /\ seen' = seen
    BY <1>2 DEF StopApplication, apVars
  <2> QED  BY <2>1 DEF ChecksInv
<1>3. CASE \/ SendNew \/ SendAgain \/ OtherPacket \/ Deliver \/ Lose \/ SendPkt
           \/ OnRecv_snddev \/ UNCHANGED vars
  <2>1. UNCHANGED <<mode, stopped, checks, seen>>
    BY <1>3 DEF SendNew, SendAgain, OnRecv_rcvdev, OtherPacket, Deliver, Lose, SendPkt,
                OnRecv_snddev, vars, apVars
  <2> QED  BY <2>1 DEF ChecksInv
<1> QED  BY <1>1, <1>2, <1>3 DEF Next

\* StopApplication ends the checks of the WiFi mode; in point-to-point mode
\* some outlive it once one has run (CheckAck schedules two).
THEOREM StopIsNotEnough == Spec => []StopMissesChecks
<1>1. ChecksInv => StopMissesChecks  BY DEF ChecksInv, StopMissesChecks
<1> QED  BY <1>1, ChecksInitial, ChecksStep, PTL DEF Spec

------------------------------------------------------------------------------
(* Sequences. *)

LEMMA Elements ==
    ASSUME NEW s \in Seq(Nat)
    PROVE  /\ Len(s) \in Nat /\ DOMAIN s = 1 .. Len(s)
           /\ \A i \in 1 .. Len(s) : s[i] \in Nat /\ s[i] \in ToSet(s)
           /\ \A x \in ToSet(s) : \E i \in 1 .. Len(s) : s[i] = x
           /\ ToSet(s) \subseteq Nat
<1>1. Len(s) \in Nat /\ DOMAIN s = 1 .. Len(s)  BY LenProperties
<1>2. \A i \in 1 .. Len(s) : s[i] \in Nat  BY ElementOfSeq
<1> QED  BY <1>1, <1>2 DEF ToSet

LEMMA ElementsEmpty == <<>> \in Seq(Nat) /\ ToSet(<<>>) = {}
<1>1. <<>> \in Seq(Nat) /\ Len(<<>>) = 0  BY EmptySeq
<1>2. ASSUME NEW x \in ToSet(<<>>)  PROVE FALSE
  <2>1. PICK i \in 1 .. Len(<<>>) : <<>>[i] = x  BY <1>1, Elements
  <2> QED  BY <1>1, <2>1
<1> QED  BY <1>1, <1>2

LEMMA ElementsAppend ==
    ASSUME NEW s \in Seq(Nat), NEW e \in Nat
    PROVE  /\ Append(s, e) \in Seq(Nat) /\ ToSet(Append(s, e)) = ToSet(s) \cup {e}
           /\ Len(Append(s, e)) = Len(s) + 1
           /\ \A i \in 1 .. Len(s) : Append(s, e)[i] = s[i]
           /\ Append(s, e)[Len(s) + 1] = e
<1> DEFINE t == Append(s, e)
<1>1. /\ t \in Seq(Nat) /\ Len(t) = Len(s) + 1 /\ t[Len(s) + 1] = e
      /\ \A i \in 1 .. Len(s) : t[i] = s[i]
  BY AppendProperties
<1> HIDE DEF t
<1>2. Len(s) \in Nat /\ Len(s) + 1 \in 1 .. Len(t)  BY <1>1, Elements
<1>3. ToSet(t) \subseteq ToSet(s) \cup {e}
  <2> SUFFICES ASSUME NEW x \in ToSet(t)  PROVE x \in ToSet(s) \cup {e}  OBVIOUS
  <2>1. PICK i \in 1 .. Len(t) : t[i] = x  BY <1>1, Elements
  <2>2. CASE i = Len(s) + 1  BY <1>1, <2>1, <2>2
  <2>3. CASE i \in 1 .. Len(s)  BY <1>1, <2>1, <2>3, Elements
  <2> QED  BY <1>1, <1>2, <2>1, <2>2, <2>3
<1>4. e \in ToSet(t)  BY <1>1, <1>2, Elements
<1>5. ASSUME NEW x \in ToSet(s)  PROVE x \in ToSet(t)
  <2>1. PICK i \in 1 .. Len(s) : s[i] = x  BY Elements
  <2>2. i \in 1 .. Len(t) /\ t[i] = x  BY <1>1, <1>2, <2>1
  <2> QED  BY <1>1, <2>2, Elements
<1> QED  BY <1>1, <1>3, <1>4, <1>5 DEF t

LEMMA ElementsConcat ==
    ASSUME NEW s \in Seq(Nat), NEW t \in Seq(Nat)
    PROVE  s \o t \in Seq(Nat) /\ ToSet(s \o t) = ToSet(s) \cup ToSet(t)
<1> DEFINE c == s \o t
<1>1. /\ c \in Seq(Nat) /\ Len(c) = Len(s) + Len(t)
      /\ \A i \in 1 .. Len(s) + Len(t) : c[i] = IF i <= Len(s) THEN s[i] ELSE t[i - Len(s)]
  BY ConcatProperties
<1> HIDE DEF c
<1>2. Len(s) \in Nat /\ Len(t) \in Nat  BY Elements
<1>3. ASSUME NEW x \in ToSet(c)  PROVE x \in ToSet(s) \cup ToSet(t)
  <2>1. PICK i \in 1 .. Len(c) : c[i] = x  BY <1>1, Elements
  <2>2. CASE i <= Len(s)
    <3>1. i \in 1 .. Len(s) /\ s[i] = x  BY <1>1, <1>2, <2>1, <2>2
    <3> QED  BY <3>1, Elements
  <2>3. CASE i > Len(s)
    <3>1. i - Len(s) \in 1 .. Len(t) /\ t[i - Len(s)] = x  BY <1>1, <1>2, <2>1, <2>3
    <3> QED  BY <3>1, Elements
  <2> QED  BY <1>1, <1>2, <2>1, <2>2, <2>3
<1>4. ASSUME NEW x \in ToSet(s)  PROVE x \in ToSet(c)
  <2>1. PICK i \in 1 .. Len(s) : s[i] = x  BY Elements
  <2>2. i \in 1 .. Len(c) /\ c[i] = x  BY <1>1, <1>2, <2>1
  <2> QED  BY <1>1, <2>2, Elements
<1>5. ASSUME NEW x \in ToSet(t)  PROVE x \in ToSet(c)
  <2>1. PICK i \in 1 .. Len(t) : t[i] = x  BY Elements
  <2>2. Len(s) + i \in 1 .. Len(c) /\ ~(Len(s) + i <= Len(s)) /\ (Len(s) + i) - Len(s) = i
    BY <1>1, <1>2
  <2>3. c[Len(s) + i] = x  BY <1>1, <2>1, <2>2
  <2> QED  BY <1>1, <2>2, <2>3, Elements
<1> QED  BY <1>1, <1>3, <1>4, <1>5 DEF c

LEMMA ElementsTail ==
    ASSUME NEW s \in Seq(Nat), s # <<>>
    PROVE  /\ Tail(s) \in Seq(Nat) /\ Head(s) \in Nat
           /\ ToSet(s) = {Head(s)} \cup ToSet(Tail(s))
           /\ Len(Tail(s)) = Len(s) - 1 /\ Head(s) = s[1]
           /\ \A i \in 1 .. Len(s) - 1 : Tail(s)[i] = s[i + 1]
<1> DEFINE t == Tail(s)
<1>1. /\ Head(s) \in Nat /\ t \in Seq(Nat) /\ Len(t) = Len(s) - 1
      /\ \A i \in 1 .. Len(t) : t[i] = s[i + 1]
  BY HeadTailProperties
<1> HIDE DEF t
<1>2. Len(s) \in Nat \ {0} /\ Head(s) = s[1]  BY EmptySeq
<1>3. ASSUME NEW x \in ToSet(s)  PROVE x \in {Head(s)} \cup ToSet(t)
  <2>1. PICK i \in 1 .. Len(s) : s[i] = x  BY Elements
  <2>2. CASE i = 1  BY <1>2, <2>1, <2>2
  <2>3. CASE i # 1
    <3>1. i - 1 \in 1 .. Len(t) /\ (i - 1) + 1 = i  BY <1>1, <1>2, <2>3
    <3>2. t[i - 1] = x  BY <1>1, <2>1, <3>1
    <3> QED  BY <1>1, <3>1, <3>2, Elements
  <2> QED  BY <2>2, <2>3
<1>4. ASSUME NEW x \in ToSet(t)  PROVE x \in ToSet(s)
  <2>1. PICK i \in 1 .. Len(t) : t[i] = x  BY <1>1, Elements
  <2>2. i + 1 \in 1 .. Len(s) /\ s[i + 1] = x  BY <1>1, <1>2, <2>1
  <2> QED  BY <2>2, Elements
<1>5. Head(s) \in ToSet(s)
  <2>1. 1 \in 1 .. Len(s)  BY <1>2
  <2> QED  BY <1>2, <2>1, Elements
<1> QED  BY <1>1, <1>2, <1>3, <1>4, <1>5 DEF t

LEMMA ElementsSubSeq ==
    ASSUME NEW s \in Seq(Nat), NEW a \in 1 .. Len(s) + 1, NEW b \in a - 1 .. Len(s)
    PROVE  /\ SubSeq(s, a, b) \in Seq(Nat) /\ Len(SubSeq(s, a, b)) = b - a + 1
           /\ \A i \in 1 .. b - a + 1 : SubSeq(s, a, b)[i] = s[a + i - 1]
           /\ \A i \in a .. b : s[i] \in ToSet(SubSeq(s, a, b))
           /\ ToSet(SubSeq(s, a, b)) \subseteq ToSet(s)
<1> DEFINE t == SubSeq(s, a, b)
<1>1. Len(s) \in Nat /\ \A i \in 1 .. Len(s) : s[i] \in Nat /\ s[i] \in ToSet(s)  BY Elements
<1>2. a \in Int /\ b \in Int /\ \A i \in a .. b : s[i] \in Nat
  <2>1. a \in Int /\ b \in Int  BY <1>1
  <2>2. \A i \in a .. b : i \in 1 .. Len(s)  BY <1>1
  <2> QED  BY <1>1, <2>1, <2>2
<1>3. /\ t \in Seq(Nat) /\ Len(t) = b - a + 1
      /\ \A i \in 1 .. b - a + 1 : t[i] = s[a + i - 1]
  <2>1. /\ t \in Seq(Nat) /\ Len(t) = IF a <= b THEN b - a + 1 ELSE 0
        /\ \A i \in 1 .. b - a + 1 : t[i] = s[a + i - 1]
    BY <1>2, SubSeqProperties
  <2> QED  BY <1>1, <2>1
<1> HIDE DEF t
<1>4. ASSUME NEW i \in a .. b  PROVE s[i] \in ToSet(t)
  <2>1. i - a + 1 \in 1 .. Len(t) /\ a + (i - a + 1) - 1 = i  BY <1>2, <1>3
  <2>2. t[i - a + 1] = s[i]  BY <1>3, <2>1
  <2> QED  BY <1>3, <2>1, <2>2, Elements
<1>5. ASSUME NEW x \in ToSet(t)  PROVE x \in ToSet(s)
  <2>1. PICK i \in 1 .. Len(t) : t[i] = x  BY <1>3, Elements
  <2>2. i \in 1 .. b - a + 1 /\ s[a + i - 1] = x  BY <1>3, <2>1
  <2>3. a + i - 1 \in 1 .. Len(s)  BY <1>1, <1>2, <2>2
  <2> QED  BY <1>1, <2>2, <2>3
<1> QED  BY <1>3, <1>4, <1>5 DEF t

LEMMA SmallestNat ==
    ASSUME NEW S \in SUBSET Nat, S # {}
    PROVE  Min(S) \in S /\ \A y \in S : Min(S) <= y
<1>1. PICK x \in S : \A y \in S : ~(<<y, x>> \in OpToRel(<, Nat))
    BY NatLessThanWellFounded, WFMin, Zenon
<1>2. ASSUME NEW y \in S  PROVE x <= y
  <2>1. ~(<<y, x>> \in OpToRel(<, Nat))  BY <1>1
  <2>2. ~(y < x)  BY <2>1, Zenon DEF OpToRel
  <2> QED  BY <2>2
<1> QED  BY <1>2 DEF Min

Sorted(s) == \A i, j \in 1 .. Len(s) : i < j => s[i] < s[j]

\* RemoveFirst takes one e out of s and leaves the rest in order.
LEMMA RemoveFirstIs ==
    ASSUME NEW s \in Seq(Nat), NEW e \in ToSet(s)
    PROVE  /\ RemoveFirst(s, e) \in Seq(Nat)
           /\ ToSet(RemoveFirst(s, e)) \subseteq ToSet(s)
           /\ ToSet(s) \ {e} \subseteq ToSet(RemoveFirst(s, e))
           /\ Sorted(s) => Sorted(RemoveFirst(s, e))
<1> DEFINE I == {i \in 1 .. Len(s) : s[i] = e}
           m == Min(I)
           a == SubSeq(s, 1, m - 1)
           b == SubSeq(s, m + 1, Len(s))
           t == RemoveFirst(s, e)
<1>1. \E i \in 1 .. Len(s) : s[i] = e  BY Elements
<1>2. I # {} /\ I \in SUBSET Nat  BY <1>1
<1>3. m \in 1 .. Len(s) /\ s[m] = e
  <2>1. m \in I
    <3> HIDE DEF I
    <3> QED  BY <1>2, SmallestNat
  <2> QED  BY <2>1
<1>4. t = a \o b
  <2>1. t = RemoveAt(s, IF I # {} THEN Min(I) ELSE 0)
    BY <1>1 DEF RemoveFirst, SelectInSeq
  <2> QED  BY <1>2, <2>1, Zenon DEF RemoveAt
<1> HIDE DEF I, m, t
<1>5. Len(s) \in Nat  BY Elements
<1>6. /\ a \in Seq(Nat) /\ Len(a) = m - 1 /\ \A i \in 1 .. m - 1 : a[i] = s[i]
      /\ \A i \in 1 .. m - 1 : s[i] \in ToSet(a)
      /\ ToSet(a) \subseteq ToSet(s)
  <2>1. /\ 1 \in 1 .. Len(s) + 1 /\ m - 1 \in 1 - 1 .. Len(s)
        /\ (m - 1) - 1 + 1 = m - 1
        /\ \A i \in 1 .. m - 1 : 1 + i - 1 = i
    BY <1>3, <1>5
  <2>2. /\ a \in Seq(Nat) /\ Len(a) = (m - 1) - 1 + 1
        /\ \A i \in 1 .. (m - 1) - 1 + 1 : a[i] = s[1 + i - 1]
        /\ \A i \in 1 .. m - 1 : s[i] \in ToSet(a)
        /\ ToSet(a) \subseteq ToSet(s)
    BY <2>1, ElementsSubSeq
  <2> HIDE DEF a
  <2> QED  BY <2>1, <2>2
<1>7. /\ b \in Seq(Nat) /\ Len(b) = Len(s) - m
      /\ \A i \in 1 .. Len(s) - m : b[i] = s[m + i]
      /\ \A i \in m + 1 .. Len(s) : s[i] \in ToSet(b)
      /\ ToSet(b) \subseteq ToSet(s)
  <2>1. /\ m + 1 \in 1 .. Len(s) + 1 /\ Len(s) \in (m + 1) - 1 .. Len(s)
        /\ Len(s) - (m + 1) + 1 = Len(s) - m
        /\ \A i \in 1 .. Len(s) - m : (m + 1) + i - 1 = m + i
    BY <1>3, <1>5
  <2>2. /\ b \in Seq(Nat) /\ Len(b) = Len(s) - (m + 1) + 1
        /\ \A i \in 1 .. Len(s) - (m + 1) + 1 : b[i] = s[(m + 1) + i - 1]
        /\ \A i \in m + 1 .. Len(s) : s[i] \in ToSet(b)
        /\ ToSet(b) \subseteq ToSet(s)
    BY <2>1, ElementsSubSeq
  <2> HIDE DEF b
  <2> QED  BY <2>1, <2>2
<1> HIDE DEF a, b
<1>8. t \in Seq(Nat) /\ ToSet(t) = ToSet(a) \cup ToSet(b)  BY <1>4, <1>6, <1>7, ElementsConcat
<1>9. ASSUME NEW x \in ToSet(s) \ {e}  PROVE x \in ToSet(t)
  <2>1. PICK i \in 1 .. Len(s) : s[i] = x  BY Elements
  <2>2. i \in 1 .. m - 1 \/ i \in m + 1 .. Len(s)  BY <1>3, <1>5, <2>1
  <2> QED  BY <1>6, <1>7, <1>8, <2>1, <2>2
<1>10. ASSUME Sorted(s)  PROVE Sorted(t)
  <2>1. /\ Len(t) = Len(s) - 1
        /\ \A i \in 1 .. Len(s) - 1 : t[i] = IF i <= m - 1 THEN a[i] ELSE b[i - (m - 1)]
    <3>1. /\ Len(t) = Len(a) + Len(b)
          /\ \A i \in 1 .. Len(a) + Len(b) : t[i] = IF i <= Len(a) THEN a[i] ELSE b[i - Len(a)]
      BY <1>4, <1>6, <1>7, ConcatProperties
    <3>2. Len(a) + Len(b) = Len(s) - 1  BY <1>3, <1>5, <1>6, <1>7
    <3> QED  BY <1>6, <3>1, <3>2
  <2>2. ASSUME NEW i \in 1 .. Len(s) - 1  PROVE t[i] = s[IF i < m THEN i ELSE i + 1]
    <3>1. CASE i < m
      <4>1. i \in 1 .. m - 1 /\ i <= m - 1  BY <1>3, <3>1
      <4> QED  BY <1>6, <2>1, <3>1, <4>1
    <3>2. CASE i >= m
      <4>1. ~(i <= m - 1) /\ i - (m - 1) \in 1 .. Len(s) - m /\ m + (i - (m - 1)) = i + 1
            /\ ~(i < m)
        BY <1>3, <1>5, <3>2
      <4>2. t[i] = b[i - (m - 1)] /\ b[i - (m - 1)] = s[i + 1]  BY <1>7, <2>1, <4>1
      <4> QED  BY <4>1, <4>2
    <3> QED  BY <1>3, <1>5, <3>1, <3>2
  <2>3. ASSUME NEW i \in 1 .. Len(s) - 1, NEW j \in 1 .. Len(s) - 1, i < j
        PROVE  t[i] < t[j]
    <3> DEFINE p == IF i < m THEN i ELSE i + 1
               q == IF j < m THEN j ELSE j + 1
    <3>1. p \in 1 .. Len(s) /\ q \in 1 .. Len(s) /\ p < q  BY <1>3, <1>5, <2>3
    <3>2. t[i] = s[p] /\ t[j] = s[q]  BY <2>2
    <3> HIDE DEF p, q
    <3> QED  BY <1>10, <3>1, <3>2 DEF Sorted
  <2> QED  BY <2>1, <2>3 DEF Sorted
<1> QED  BY <1>6, <1>7, <1>8, <1>9, <1>10 DEF t

------------------------------------------------------------------------------
(* CreateAckPkt. *)

AckStates == [hist : Seq(Nat), last : Nat, acks : Seq(Nat)]

\* With h in the histories, l as m_LastAckNumber and the numbers B acknowledged,
\* the segments of S are dealt with: they and no others may be missing from the
\* histories, each is below an ACK or is what the last one asked for, and each
\* but the latest is below one.
Dealt(h, l, B, S) ==
    /\ h \in Seq(Nat) /\ ToSet(h) \subseteq Sent
    /\ l \in Nat /\ (l = 0 \/ l \in B)
    /\ \A a \in B : a \in Nat /\ a - 1 \in got
    /\ ~cc_create => ToSet(h) = {} /\ B = {}
    /\ cc_create => /\ Sent \ S \subseteq ToSet(h)
                    /\ \A n \in S \ {Other} : \E a \in B : a >= n
                    /\ \A n \in S \ {Other} : (\E a \in B : a > n) \/ \A m \in S : m <= n

DealtBy(st, A, S) == st \in AckStates /\ Dealt(st.hist, st.last, A \cup ToSet(st.acks), S)

\* One round of the loop.
LEMMA AnswerKeeps ==
    ASSUME NEW A, NEW S, S \subseteq got \cup {Other}, got \subseteq Sent, next \in Nat,
           NEW st, DealtBy(st, A, S), NEW n \in got \cup {Other}
    PROVE  DealtBy(Answer(st, n), A, S \cup {n})
<1> DEFINE h == st.hist
           l == st.last
           B == A \cup ToSet(st.acks)
<1>1. /\ st \in AckStates /\ h \in Seq(Nat) /\ ToSet(h) \subseteq Sent
      /\ l \in Nat /\ (l = 0 \/ l \in B) /\ st.acks \in Seq(Nat)
      /\ \A a \in B : a \in Nat /\ a - 1 \in got
  BY DEF DealtBy, Dealt, AckStates
<1>2. ~cc_create => ToSet(h) = {} /\ B = {}  BY DEF DealtBy, Dealt
<1>3. cc_create => /\ Sent \ S \subseteq ToSet(h)
                   /\ \A k \in S \ {Other} : \E a \in B : a >= k
                   /\ \A k \in S \ {Other} : (\E a \in B : a > k) \/ \A m \in S : m <= k
  BY DEF DealtBy, Dealt
<1>4. n \in Nat /\ S \subseteq Nat /\ Other = 0 /\ (n # Other => n \in Sent /\ n > 0)
  BY DEF Sent, Other
<1>5. ToSet(h) \subseteq Nat  BY <1>1, Elements
<1> HIDE DEF h, l, B
<1>6. CASE n = Other
  <2>1. Answer(st, n) = st  BY <1>6 DEF Answer
  <2>2. Dealt(h, l, B, S \cup {n})
    <3>1. cc_create => /\ Sent \ (S \cup {n}) \subseteq ToSet(h)
                       /\ (S \cup {n}) \ {Other} = S \ {Other}
                       /\ \A k \in S \ {Other} : k >= n
      BY <1>3, <1>4, <1>6
    <3>2. cc_create => \A k \in (S \cup {n}) \ {Other} :
                          (\E a \in B : a > k) \/ \A m \in S \cup {n} : m <= k
      BY <1>3, <1>4, <1>6
    <3> QED  BY <1>1, <1>2, <1>3, <3>1, <3>2 DEF Dealt
  <2> QED  BY <1>1, <2>1, <2>2 DEF DealtBy, h, l, B
<1>7. CASE n # Other /\ n = l
  <2> DEFINE r == RemoveFirst(h, n)
  <2>1. Answer(st, n) = [st EXCEPT !.hist = r]  BY <1>7 DEF Answer, l, h
  <2>2. /\ Answer(st, n) \in AckStates => Answer(st, n).hist = r
        /\ Answer(st, n).last = l /\ Answer(st, n).acks = st.acks
    BY <1>1, <2>1 DEF AckStates, l
  <2>3. cc_create  BY <1>1, <1>2, <1>4, <1>7
  <2>4. r \in Seq(Nat) /\ ToSet(r) \subseteq ToSet(h) /\ ToSet(h) \ {n} \subseteq ToSet(r)
    <3>1. CASE n \in ToSet(h)  BY <1>1, <3>1, RemoveFirstIs
    <3>2. CASE n \notin ToSet(h)
      <4>1. ~\E i \in 1 .. Len(h) : h[i] = n  BY <1>1, <3>2, Elements
      <4>2. r = h  BY <4>1, Zenon DEF RemoveFirst
      <4> QED  BY <1>1, <4>2
    <3> QED  BY <3>1, <3>2
  <2> HIDE DEF r
  <2>5. Answer(st, n) \in AckStates  BY <1>1, <2>1, <2>4 DEF AckStates
  <2>6. Dealt(r, l, B, S \cup {n})
    <3>1. Sent \ (S \cup {n}) \subseteq ToSet(r)  BY <1>3, <2>3, <2>4
    <3>2. n \in B  BY <1>1, <1>4, <1>7
    <3>3. \A k \in (S \cup {n}) \ {Other} : \E a \in B : a >= k  BY <1>3, <1>4, <2>3, <3>2
    <3>4. ASSUME NEW k \in (S \cup {n}) \ {Other}, ~\E a \in B : a > k
          PROVE  \A m \in S \cup {n} : m <= k
      <4>1. n <= k  BY <1>1, <1>4, <3>2, <3>4
      <4>2. CASE k \in S  BY <1>3, <2>3, <3>4, <4>1, <4>2
      <4>3. CASE k = n /\ k \notin S
        <5> SUFFICES ASSUME NEW m \in S, m > n  PROVE FALSE  BY <1>4, <4>1, <4>3
        <5>1. m # Other /\ m \in Nat  BY <1>4
        <5>2. PICK a \in B : a >= m  BY <1>3, <2>3, <5>1
        <5>3. a > k  BY <1>1, <1>4, <4>3, <5>1, <5>2
        <5> QED  BY <3>4, <5>3
      <4> QED  BY <4>2, <4>3
    <3> QED  BY <1>1, <2>3, <2>4, <3>1, <3>3, <3>4 DEF Dealt
  <2> QED  BY <2>2, <2>5, <2>6 DEF DealtBy, B
<1>8. CASE n # Other /\ n # l /\ n \notin ToSet(h)
  <2>1. Answer(st, n) = st  BY <1>8 DEF Answer, h, l
  <2>2. cc_create => n \in S  BY <1>3, <1>4, <1>8
  <2>3. S \cup {n} = S \/ ~cc_create  BY <2>2
  <2>4. Dealt(h, l, B, S \cup {n})  BY <1>1, <1>2, <1>3, <2>3 DEF Dealt
  <2> QED  BY <1>1, <2>1, <2>4 DEF DealtBy, h, l, B
<1>9. CASE n # Other /\ n # l /\ n \in ToSet(h)
  <2> DEFINE r == RemoveFirst(h, n)
             t == Append(st.acks, n + 1)
             C == B \cup {n + 1}
  <2>1. Answer(st, n) = [hist |-> r, last |-> n + 1, acks |-> t]
    BY <1>9 DEF Answer, h, l
  <2>2. r \in Seq(Nat) /\ ToSet(r) \subseteq ToSet(h) /\ ToSet(h) \ {n} \subseteq ToSet(r)
    BY <1>1, <1>9, RemoveFirstIs
  <2>3. n + 1 \in Nat /\ (n + 1) - 1 = n /\ n + 1 > n /\ n \in got /\ n + 1 # 0
    BY <1>4, <1>9
  <2>4. t \in Seq(Nat) /\ ToSet(t) = ToSet(st.acks) \cup {n + 1}
    BY <1>1, <2>3, ElementsAppend
  <2>5. cc_create  BY <1>2, <1>9
  <2> HIDE DEF r, t
  <2>6. Answer(st, n) \in AckStates  BY <2>1, <2>2, <2>3, <2>4 DEF AckStates
  <2>7. A \cup ToSet(t) = C  BY <2>4 DEF B
  <2> HIDE DEF C
  <2>8. B \subseteq C /\ n + 1 \in C /\ \A a \in C : a \in Nat /\ a - 1 \in got
    BY <1>1, <2>3 DEF C
  <2>9. Dealt(r, n + 1, C, S \cup {n})
    <3>1. Sent \ (S \cup {n}) \subseteq ToSet(r)  BY <1>3, <2>2, <2>5
    <3>2. \A k \in (S \cup {n}) \ {Other} : \E a \in C : a >= k
      BY <1>3, <1>4, <2>3, <2>5, <2>8
    <3>3. ASSUME NEW k \in (S \cup {n}) \ {Other}, ~\E a \in C : a > k
          PROVE  \A m \in S \cup {n} : m <= k
      <4>1. k \in S /\ n <= k  BY <1>4, <2>3, <2>8, <3>3
      <4>2. ~\E a \in B : a > k  BY <2>8, <3>3
      <4> QED  BY <1>3, <2>5, <3>3, <4>1, <4>2
    <3> QED  BY <1>1, <2>2, <2>3, <2>5, <2>8, <3>1, <3>2, <3>3 DEF Dealt
  <2>10. /\ Answer(st, n).hist = r /\ Answer(st, n).last = n + 1
         /\ Answer(st, n).acks = t
    BY <2>1
  <2> QED  BY <2>6, <2>7, <2>9, <2>10 DEF DealtBy
<1> QED  BY <1>6, <1>7, <1>8, <1>9

\* Induction on the numbers up to b, for a set in the place of a predicate.
LEMMA UpTo ==
    ASSUME NEW b \in Nat, NEW P, 0 \in P, \A k \in 0 .. b - 1 : k \in P => k + 1 \in P
    PROVE  \A k \in 0 .. b : k \in P
<1> DEFINE Bad == {i \in 0 .. b : i \notin P}
<1> SUFFICES ASSUME Bad # {}  PROVE FALSE  OBVIOUS
<1>1. Bad \in SUBSET Nat  OBVIOUS
<1>2. Min(Bad) \in Bad /\ \A y \in Bad : Min(Bad) <= y
  <2> HIDE DEF Bad
  <2> QED  BY <1>1, SmallestNat
<1> DEFINE m == Min(Bad)
<1> HIDE DEF m
<1>3. m \in 0 .. b /\ m \notin P /\ m # 0 /\ \A y \in Bad : m <= y  BY <1>2 DEF m
<1>4. m - 1 \in 0 .. b - 1 /\ m - 1 \notin Bad /\ (m - 1) + 1 = m  BY <1>3
<1>5. m - 1 \in P  BY <1>4
<1> QED  BY <1>3, <1>4, <1>5

\* g is the function of the rounds of CreateAckPkt, k of them.
Round(sts, q, g, i) == IF i = 0 THEN sts ELSE {Answer(st, q[i]) : st \in g[i - 1]}
IsRounds(sts, q, g, k) == g = [i \in 0 .. k |-> Round(sts, q, g, i)]

LEMMA RoundsExist ==
    ASSUME NEW sts, NEW q, NEW b \in Nat
    PROVE  \E g : IsRounds(sts, q, g, b)
<1> DEFINE P == {k \in 0 .. b : \E g : IsRounds(sts, q, g, k)}
<1>1. 0 \in P
  <2> DEFINE g == [i \in 0 .. 0 |-> sts]
  <2>1. IsRounds(sts, q, g, 0)  BY DEF IsRounds, Round
  <2> HIDE DEF g
  <2> QED  BY <2>1
<1>2. ASSUME NEW k \in 0 .. b - 1, k \in P  PROVE k + 1 \in P
  <2>1. PICK g : IsRounds(sts, q, g, k)  BY <1>2
  <2> DEFINE last_ == {Answer(st, q[k + 1]) : st \in g[k]}
             h == [i \in 0 .. k + 1 |-> IF i = k + 1 THEN last_ ELSE g[i]]
  <2>2. \A i \in 0 .. k : g[i] = Round(sts, q, g, i)  BY <2>1 DEF IsRounds
  <2>3. ASSUME NEW i \in 0 .. k + 1  PROVE h[i] = Round(sts, q, h, i)
    <3>1. CASE i = k + 1
      <4>1. h[i] = last_ /\ h[i - 1] = g[k] /\ i # 0
        <5> HIDE DEF last_
        <5> QED  BY <3>1
      <4> HIDE DEF h
      <4> QED  BY <3>1, <4>1 DEF Round
    <3>2. CASE i = 0
      <4>1. h[i] = g[i] /\ 0 \in 0 .. k  BY <3>2
      <4>2. g[i] = sts  BY <2>2, <3>2, <4>1 DEF Round
      <4> HIDE DEF h
      <4> QED  BY <3>2, <4>1, <4>2 DEF Round
    <3>3. CASE i # k + 1 /\ i # 0
      <4>1. h[i] = g[i] /\ h[i - 1] = g[i - 1] /\ i \in 0 .. k  BY <3>3
      <4> HIDE DEF h
      <4> QED  BY <2>2, <3>3, <4>1 DEF Round
    <3> QED  BY <3>1, <3>2, <3>3
  <2>4. h = [i \in 0 .. k + 1 |-> h[i]]  OBVIOUS
  <2> HIDE DEF h
  <2>5. IsRounds(sts, q, h, k + 1)  BY <2>3, <2>4 DEF IsRounds
  <2> QED  BY <2>5
<1>3. \A k \in 0 .. b : k \in P
  <2> HIDE DEF P
  <2> QED  BY <1>1, <1>2, UpTo
<1> QED  BY <1>3

LEMMA CreateAckPktIs ==
    ASSUME NEW sts, NEW q, Rounds(q) \in Nat
    PROVE  \E g : IsRounds(sts, q, g, Rounds(q)) /\ CreateAckPkt(sts, q) = g[Rounds(q)]
<1> DEFINE Body(g) == [i \in 0 .. Rounds(q) |->
                         IF i = 0 THEN sts ELSE {Answer(st, q[i]) : st \in g[i - 1]}]
           after == CHOOSE g : g = Body(g)
<1>1. PICK g : IsRounds(sts, q, g, Rounds(q))  BY RoundsExist
<1>2. g = Body(g)  BY <1>1, Zenon DEF IsRounds, Round
<1>3. after = Body(after)
  <2> HIDE DEF Body
  <2> QED  BY <1>2, Zenon
<1>4. CreateAckPkt(sts, q) = after[Rounds(q)]  BY Zenon DEF CreateAckPkt
<1> HIDE DEF after
<1>5. IsRounds(sts, q, after, Rounds(q))  BY <1>3, Zenon DEF IsRounds, Round
<1> QED  BY <1>4, <1>5

FirstOf(q, k) == {q[i] : i \in 1 .. k}

\* What CreateAckPkt has dealt with.
LEMMA CreateAckPktKeeps ==
    ASSUME NEW A, NEW S, S \subseteq got \cup {Other}, got \subseteq Sent, next \in Nat,
           NEW sts, \A st \in sts : DealtBy(st, A, S),
           NEW q \in Seq(Nat), ToSet(q) \subseteq got \cup {Other}
    PROVE  /\ Rounds(q) \in 0 .. Len(q)
           /\ \A st \in CreateAckPkt(sts, q) : DealtBy(st, A, S \cup FirstOf(q, Rounds(q)))
<1> DEFINE n == Rounds(q)
<1>1. n \in 0 .. Len(q) /\ Len(q) \in Nat
  <2>1. Len(q) \in Nat  BY Elements
  <2> QED  BY <2>1 DEF Rounds
<1>2. PICK g : IsRounds(sts, q, g, n) /\ CreateAckPkt(sts, q) = g[n]
  BY <1>1, CreateAckPktIs
<1>3. \A i \in 0 .. n : g[i] = Round(sts, q, g, i)  BY <1>2 DEF IsRounds
<1> HIDE DEF n
<1> DEFINE P == {i \in 0 .. n : \A st \in g[i] : DealtBy(st, A, S \cup FirstOf(q, i))}
<1>4. 0 \in P
  <2>1. g[0] = sts /\ 0 \in 0 .. n
    <3>1. 0 \in 0 .. n  BY <1>1
    <3>2. g[0] = Round(sts, q, g, 0)  BY <1>3, <3>1
    <3> QED  BY <3>1, <3>2, Zenon DEF Round
  <2>2. S \cup FirstOf(q, 0) = S  BY DEF FirstOf
  <2> QED  BY <2>1, <2>2
<1>5. ASSUME NEW k \in 0 .. n - 1, k \in P  PROVE k + 1 \in P
  <2>1. k + 1 \in 0 .. n /\ k + 1 # 0 /\ (k + 1) - 1 = k /\ k + 1 \in 1 .. Len(q)  BY <1>1
  <2>2. g[k + 1] = {Answer(st, q[k + 1]) : st \in g[k]}  BY <1>3, <2>1 DEF Round
  <2> DEFINE T == S \cup FirstOf(q, k)
  <2>3. T \subseteq got \cup {Other}
    <3>1. \A i \in 1 .. k : q[i] \in ToSet(q)  BY <1>1, Elements
    <3> QED  BY <3>1 DEF FirstOf
  <2>4. q[k + 1] \in got \cup {Other}  BY <2>1, Elements
  <2>5. S \cup FirstOf(q, k + 1) = T \cup {q[k + 1]}
    <3>1. 1 .. k + 1 = (1 .. k) \cup {k + 1}  BY <1>1
    <3> QED  BY <3>1 DEF FirstOf
  <2>6. \A st \in g[k] : DealtBy(st, A, T)  BY <1>5
  <2> HIDE DEF T
  <2>7. \A st \in g[k] : DealtBy(Answer(st, q[k + 1]), A, T \cup {q[k + 1]})
    BY <2>3, <2>4, <2>6, AnswerKeeps
  <2>8. \A st \in g[k + 1] : DealtBy(st, A, S \cup FirstOf(q, k + 1))  BY <2>2, <2>5, <2>7
  <2> QED  BY <2>1, <2>8
<1>6. n \in P
  <2>1. n \in Nat /\ n \in 0 .. n  BY <1>1
  <2> HIDE DEF P
  <2> QED  BY <1>4, <1>5, <2>1, UpTo
<1> QED  BY <1>1, <1>2, <1>6 DEF n

LEMMA FirstOfIs ==
    ASSUME NEW q \in Seq(Nat), NEW k \in 0 .. Len(q)
    PROVE  ToSet(SubSeq(q, 1, k)) = FirstOf(q, k) /\ FirstOf(q, k) \subseteq ToSet(q)
<1>1. Len(q) \in Nat /\ 1 \in 1 .. Len(q) + 1 /\ k \in 1 - 1 .. Len(q) /\ k - 1 + 1 = k
  BY Elements
<1> DEFINE t == SubSeq(q, 1, k)
<1>2. /\ t \in Seq(Nat) /\ Len(t) = k - 1 + 1
      /\ \A i \in 1 .. k - 1 + 1 : t[i] = q[1 + i - 1]
      /\ \A i \in 1 .. k : q[i] \in ToSet(t)
      /\ ToSet(t) \subseteq ToSet(q)
  BY <1>1, ElementsSubSeq
<1> HIDE DEF t
<1>3. ASSUME NEW x \in ToSet(t)  PROVE x \in FirstOf(q, k)
  <2>1. PICK i \in 1 .. Len(t) : t[i] = x  BY <1>2, Elements
  <2>2. i \in 1 .. k /\ 1 + i - 1 = i  BY <1>1, <1>2, <2>1
  <2>3. q[i] = x  BY <1>1, <1>2, <2>1, <2>2
  <2> QED  BY <2>2, <2>3 DEF FirstOf
<1> QED  BY <1>2, <1>3 DEF FirstOf, t

LEMMA RestIs ==
    ASSUME NEW q \in Seq(Nat)
    PROVE  /\ Rounds(q) \in 0 .. Len(q) /\ Len(q) \in Nat
           /\ Rest(q) \in Seq(Nat) /\ Len(Rest(q)) = Len(q) - Rounds(q)
           /\ \A i \in 1 .. Len(q) - Rounds(q) : Rest(q)[i] = q[Rounds(q) + i]
           /\ ToSet(Rest(q)) \subseteq ToSet(q)
<1> DEFINE r == Rounds(q)
           t == Rest(q)
<1>1. r \in 0 .. Len(q) /\ Len(q) \in Nat
  <2>1. Len(q) \in Nat  BY Elements
  <2> QED  BY <2>1 DEF Rounds
<1> HIDE DEF r, t
<1>2. t = SubSeq(q, r + 1, Len(q))  BY Zenon DEF Rest, r, t
<1>3. /\ r + 1 \in 1 .. Len(q) + 1 /\ Len(q) \in (r + 1) - 1 .. Len(q)
      /\ Len(q) - (r + 1) + 1 = Len(q) - r
      /\ \A i \in 1 .. Len(q) - r : (r + 1) + i - 1 = r + i
  BY <1>1
<1>4. /\ t \in Seq(Nat) /\ Len(t) = Len(q) - (r + 1) + 1
      /\ \A i \in 1 .. Len(q) - (r + 1) + 1 : t[i] = q[(r + 1) + i - 1]
      /\ ToSet(t) \subseteq ToSet(q)
  BY <1>2, <1>3, ElementsSubSeq
<1>5. /\ Len(t) = Len(q) - r
      /\ \A i \in 1 .. Len(q) - r : t[i] = q[r + i]
  BY <1>3, <1>4
<1> QED  BY <1>1, <1>4, <1>5 DEF r, t

------------------------------------------------------------------------------
(* The inductive invariant. *)

Shapes ==
    /\ mode \in Modes /\ cc_create \in BOOLEAN
    /\ dups \in Nat /\ again \in Nat /\ others \in Nat
    /\ next \in 1 .. MaxSeq + 1
    /\ qseq \in Seq(Nat) /\ cache \in Seq(Nat) /\ pending \in Seq(Nat)
    /\ air \in Seq(Nat) /\ lost \in Seq(Nat) /\ delivered \in Seq(Nat)
    /\ got \subseteq Sent /\ ToSet(cache) \subseteq Sent
    /\ ToSet(qseq) \subseteq got \cup {Other} /\ ToSet(delivered) \subseteq got \cup {Other}
    /\ ToSet(air) \subseteq Sent \cup {Other} /\ ToSet(lost) \subseteq Sent \cup {Other}
    /\ seen \subseteq got \cup {Other}

AckedInv == Dealt(hist, lastAck, AckNumbers, seen)

\* The client's ACKs are cumulative.
ClientInv ==
    /\ clientAcks \in Seq(Nat) /\ ToSet(clientAcks) \subseteq 1 .. MaxSeq + 1
    /\ lastRcvAck \in Nat
    /\ \A a \in ToSet(clientAcks) \cup {lastRcvAck} : 1 .. a - 1 \subseteq got

Twice(s, n) == \E i, j \in 1 .. Len(s) : i # j /\ s[i] = n /\ s[j] = n

\* The AP can send n, or there have been two copies of it outside the cache.
Copied(c, a, l, n) ==
    \/ n \in ToSet(c) /\ n \in ToSet(a) \cup ToSet(l)
    \/ Twice(a, n)
    \/ n \in ToSet(a) /\ n \in ToSet(l)
    \/ Twice(l, n)

CopiesInv ==
    cc_create /\ again = 0 =>
        Sorted(cache) /\ \A n \in Sent \ got : Copied(cache, air, lost, n)

FlowInv == Shapes /\ AckedInv /\ ClientInv /\ CopiesInv

\* CheckAck deals with the front of what it has collected.
LEMMA CheckAckKeeps ==
    ASSUME FlowInv, CheckAck
    PROVE  FlowInv'
<1> DEFINE q == Collected
           r == Rounds(q)
           s0 == [hist |-> hist, last |-> lastAck, acks |-> <<>>]
           A == AckNumbers
<1>1. /\ Shapes /\ Dealt(hist, lastAck, A, seen) /\ ClientInv /\ CopiesInv
  BY DEF FlowInv, AckedInv
<1>2. /\ qseq \in Seq(Nat) /\ delivered \in Seq(Nat) /\ pending \in Seq(Nat)
      /\ ToSet(qseq) \subseteq got \cup {Other} /\ ToSet(delivered) \subseteq got \cup {Other}
      /\ got \subseteq Sent /\ seen \subseteq got \cup {Other}
      /\ next \in Nat
  BY <1>1, FastAckAssumption DEF Shapes
<1>3. PICK left \in {IF mode = "P2P" THEN Rest(Rest(q)) ELSE Rest(q)},
           first \in CreateAckPkt({s0}, q) :
        \E st \in IF mode = "P2P" THEN CreateAckPkt({first}, Rest(q)) ELSE {first} :
          /\ qseq' = left
          /\ hist' = st.hist /\ lastAck' = st.last
          /\ pending' = pending \o st.acks
          /\ seen' = seen \cup ToSet(SubSeq(q, 1, Len(q) - Len(left)))
  <2> HIDE DEF q, s0
  <2> QED  BY Zenon DEF CheckAck, q, s0
<1>4. PICK st \in IF mode = "P2P" THEN CreateAckPkt({first}, Rest(q)) ELSE {first} :
          /\ qseq' = left
          /\ hist' = st.hist /\ lastAck' = st.last
          /\ pending' = pending \o st.acks
          /\ seen' = seen \cup ToSet(SubSeq(q, 1, Len(q) - Len(left)))
  BY <1>3, Zenon
<1>5. /\ delivered' = <<>>
      /\ UNCHANGED <<mode, cc_create, cache, lastRcvAck, dups, atSender,
                     next, again, air, lost, others, got, clientAcks>>
  BY Zenon DEF CheckAck
<1>6. q \in Seq(Nat) /\ ToSet(q) \subseteq got \cup {Other}
  BY <1>2, ElementsConcat DEF Collected
<1> HIDE DEF q
<1>7. DealtBy(s0, A, seen)
  <2>1. hist \in Seq(Nat) /\ lastAck \in Nat  BY <1>1 DEF Dealt
  <2>2. <<>> \in Seq(Nat) /\ ToSet(<<>>) = {}  BY ElementsEmpty
  <2>3. s0 \in AckStates  BY <2>1, <2>2 DEF AckStates
  <2>4. s0.hist = hist /\ s0.last = lastAck /\ A \cup ToSet(s0.acks) = A  BY <2>2
  <2> HIDE DEF s0, A
  <2> QED  BY <1>1, <2>3, <2>4 DEF DealtBy
<1> HIDE DEF s0, A
<1>8. r \in 0 .. Len(q) /\ DealtBy(first, A, seen \cup FirstOf(q, r))
  <2> DEFINE sts == {s0}
  <2>1. \A x \in sts : DealtBy(x, A, seen)  BY <1>7
  <2>2. first \in CreateAckPkt(sts, q)  BY <1>3
  <2> HIDE DEF sts
  <2>3. /\ Rounds(q) \in 0 .. Len(q)
        /\ \A x \in CreateAckPkt(sts, q) : DealtBy(x, A, seen \cup FirstOf(q, Rounds(q)))
    BY <1>2, <1>6, <2>1, CreateAckPktKeeps
  <2> QED  BY <2>2, <2>3
<1>9. /\ Len(q) \in Nat /\ Rest(q) \in Seq(Nat) /\ Len(Rest(q)) = Len(q) - r
      /\ \A i \in 1 .. Len(q) - r : Rest(q)[i] = q[r + i]
      /\ ToSet(Rest(q)) \subseteq ToSet(q)
  BY <1>6, RestIs
<1> HIDE DEF r
<1>10. \E k \in 0 .. Len(q) :
          /\ Len(left) = Len(q) - k /\ left \in Seq(Nat) /\ ToSet(left) \subseteq ToSet(q)
          /\ DealtBy(st, A, seen \cup FirstOf(q, k))
  <2>1. CASE mode # "P2P"
    <3>1. left = Rest(q) /\ st = first  BY <1>3, <1>4, <2>1
    <3> QED  BY <1>8, <1>9, <3>1
  <2>2. CASE mode = "P2P"
    <3> DEFINE p == Rest(q)
               z == Rounds(p)
    <3>1. left = Rest(p) /\ st \in CreateAckPkt({first}, p)  BY <1>3, <1>4, <2>2
    <3> HIDE DEF p
    <3>2. p \in Seq(Nat) /\ ToSet(p) \subseteq got \cup {Other} /\ Len(p) = Len(q) - r
      BY <1>6, <1>9 DEF p
    <3>3. /\ Len(left) = Len(p) - z /\ left \in Seq(Nat) /\ ToSet(left) \subseteq ToSet(p)
      BY <3>1, <3>2, RestIs
    <3>4. z \in 0 .. Len(p) /\ DealtBy(st, A, (seen \cup FirstOf(q, r)) \cup FirstOf(p, z))
      <4>1. seen \cup FirstOf(q, r) \subseteq got \cup {Other}
        BY <1>2, <1>6, <1>8, FirstOfIs
      <4> DEFINE sts == {first}
                 S == seen \cup FirstOf(q, r)
      <4>2. \A x \in sts : DealtBy(x, A, S)  BY <1>8
      <4>3. st \in CreateAckPkt(sts, p)  BY <3>1
      <4> HIDE DEF sts, S
      <4>4. S \subseteq got \cup {Other}  BY <4>1 DEF S
      <4>5. /\ Rounds(p) \in 0 .. Len(p)
            /\ \A x \in CreateAckPkt(sts, p) : DealtBy(x, A, S \cup FirstOf(p, Rounds(p)))
        BY <1>2, <3>2, <4>2, <4>4, CreateAckPktKeeps
      <4> QED  BY <4>3, <4>5 DEF S, z
    <3> HIDE DEF z
    <3>5. FirstOf(q, r) \cup FirstOf(p, z) = FirstOf(q, r + z)
      <4>1. \A i \in 1 .. z : p[i] = q[r + i]  BY <1>8, <1>9, <3>2, <3>4 DEF p
      <4>2. ASSUME NEW i \in 1 .. r + z  PROVE q[i] \in FirstOf(q, r) \cup FirstOf(p, z)
        <5>1. CASE i <= r
          <6>1. i \in 1 .. r  BY <1>8, <3>4, <5>1
          <6> QED  BY <6>1 DEF FirstOf
        <5>2. CASE i > r
          <6>1. i - r \in 1 .. z /\ r + (i - r) = i  BY <1>8, <3>4, <5>2
          <6>2. p[i - r] = q[i]  BY <4>1, <6>1
          <6> QED  BY <6>1, <6>2 DEF FirstOf
        <5> QED  BY <1>8, <3>4, <5>1, <5>2
      <4>3. ASSUME NEW i \in 1 .. r  PROVE q[i] \in FirstOf(q, r + z)
        <5>1. i \in 1 .. r + z  BY <1>8, <3>4
        <5> QED  BY <5>1 DEF FirstOf
      <4>4. ASSUME NEW i \in 1 .. z  PROVE p[i] \in FirstOf(q, r + z)
        <5>1. r + i \in 1 .. r + z  BY <1>8, <3>4
        <5>2. p[i] = q[r + i]  BY <4>1
        <5> QED  BY <5>1, <5>2 DEF FirstOf
      <4> QED  BY <4>2, <4>3, <4>4 DEF FirstOf
    <3>6. r + z \in 0 .. Len(q) /\ Len(left) = Len(q) - (r + z)
      BY <1>8, <1>9, <3>2, <3>3, <3>4
    <3>7. (seen \cup FirstOf(q, r)) \cup FirstOf(p, z) = seen \cup FirstOf(q, r + z)
      BY <3>5
    <3>8. ToSet(left) \subseteq ToSet(q)  BY <1>9, <3>3 DEF p
    <3> QED  BY <3>3, <3>4, <3>6, <3>7, <3>8
  <2> QED  BY <2>1, <2>2
<1>11. PICK k \in 0 .. Len(q) :
          /\ Len(left) = Len(q) - k /\ left \in Seq(Nat) /\ ToSet(left) \subseteq ToSet(q)
          /\ DealtBy(st, A, seen \cup FirstOf(q, k))
  BY <1>10
<1>12. seen' = seen \cup FirstOf(q, k) /\ FirstOf(q, k) \subseteq ToSet(q)
  <2>1. Len(q) - Len(left) = k  BY <1>9, <1>11
  <2> QED  BY <1>4, <1>6, <2>1, FirstOfIs
<1>13. /\ st \in AckStates /\ Dealt(st.hist, st.last, A \cup ToSet(st.acks), seen')
       /\ st.acks \in Seq(Nat)
  BY <1>11, <1>12 DEF DealtBy, AckStates
<1>14. AckNumbers' = A \cup ToSet(st.acks) /\ pending' \in Seq(Nat)
  <2>1. pending \o st.acks \in Seq(Nat)
        /\ ToSet(pending \o st.acks) = ToSet(pending) \cup ToSet(st.acks)
    BY <1>2, <1>13, ElementsConcat
  <2> QED  BY <1>4, <1>5, <2>1 DEF AckNumbers, A
<1>15. AckedInv'
  <2>1. Dealt(hist', lastAck', AckNumbers', seen')  BY <1>4, <1>13, <1>14
  <2> QED  BY <1>5, <2>1 DEF AckedInv, Dealt, Sent
<1>16. Shapes'
  <2>1. <<>> \in Seq(Nat) /\ ToSet(<<>>) = {}  BY ElementsEmpty
  <2>2. qseq' \in Seq(Nat) /\ ToSet(qseq') \subseteq got \cup {Other}  BY <1>4, <1>6, <1>11
  <2>3. seen' \subseteq got \cup {Other}  BY <1>2, <1>6, <1>12
  <2>4. delivered' \in Seq(Nat) /\ ToSet(delivered') \subseteq got \cup {Other}
    BY <1>5, <2>1
  <2> QED  BY <1>1, <1>5, <1>14, <2>2, <2>3, <2>4 DEF Shapes, Sent
<1>17. ClientInv' /\ CopiesInv'
  BY <1>1, <1>5 DEF ClientInv, CopiesInv, Copied, Twice, Sorted, Sent
<1> QED  BY <1>15, <1>16, <1>17 DEF FlowInv

------------------------------------------------------------------------------
(* Copies of a segment. *)

LEMMA TwiceAppend ==
    ASSUME NEW s \in Seq(Nat), NEW e \in Nat, NEW n \in Nat
    PROVE  /\ Twice(s, n) => Twice(Append(s, e), n)
           /\ n = e /\ n \in ToSet(s) => Twice(Append(s, e), n)
<1> DEFINE t == Append(s, e)
<1>1. /\ Len(t) = Len(s) + 1 /\ t[Len(s) + 1] = e /\ \A i \in 1 .. Len(s) : t[i] = s[i]
  BY ElementsAppend
<1>2. Len(s) \in Nat  BY Elements
<1> HIDE DEF t
<1>3. ASSUME Twice(s, n)  PROVE Twice(t, n)
  <2>1. PICK i, j \in 1 .. Len(s) : i # j /\ s[i] = n /\ s[j] = n  BY <1>3 DEF Twice
  <2>2. i \in 1 .. Len(t) /\ j \in 1 .. Len(t) /\ t[i] = n /\ t[j] = n  BY <1>1, <1>2, <2>1
  <2> QED  BY <2>1, <2>2 DEF Twice
<1>4. ASSUME n = e, n \in ToSet(s)  PROVE Twice(t, n)
  <2>1. PICK i \in 1 .. Len(s) : s[i] = n  BY <1>4, Elements
  <2>2. /\ i \in 1 .. Len(t) /\ t[i] = n /\ i # Len(s) + 1
        /\ Len(s) + 1 \in 1 .. Len(t) /\ t[Len(s) + 1] = n
    BY <1>1, <1>2, <1>4, <2>1
  <2> QED  BY <2>2 DEF Twice
<1> QED  BY <1>3, <1>4 DEF t

LEMMA TwiceTail ==
    ASSUME NEW s \in Seq(Nat), s # <<>>, NEW n \in Nat, Twice(s, n)
    PROVE  n \in ToSet(Tail(s)) /\ (Head(s) # n => Twice(Tail(s), n))
<1> DEFINE t == Tail(s)
<1>1. /\ t \in Seq(Nat) /\ Len(t) = Len(s) - 1 /\ Head(s) = s[1]
      /\ \A i \in 1 .. Len(s) - 1 : t[i] = s[i + 1]
  BY ElementsTail
<1>2. Len(s) \in Nat  BY Elements
<1> HIDE DEF t
<1>3. PICK i, j \in 1 .. Len(s) : i # j /\ s[i] = n /\ s[j] = n  BY DEF Twice
<1>4. \A k \in 1 .. Len(s) : k # 1 => k - 1 \in 1 .. Len(t) /\ t[k - 1] = s[k]
  <2> SUFFICES ASSUME NEW k \in 1 .. Len(s), k # 1
               PROVE  k - 1 \in 1 .. Len(t) /\ t[k - 1] = s[k]
    OBVIOUS
  <2>1. k - 1 \in 1 .. Len(s) - 1 /\ (k - 1) + 1 = k  BY <1>2
  <2> QED  BY <1>1, <2>1
<1>5. n \in ToSet(t)
  <2>1. PICK k \in {i, j} : k # 1  BY <1>3
  <2>2. k \in 1 .. Len(s) /\ s[k] = n  BY <1>3, <2>1
  <2>3. k - 1 \in 1 .. Len(t) /\ t[k - 1] = n  BY <1>4, <2>1, <2>2
  <2> QED  BY <1>1, <2>3, Elements
<1>6. ASSUME Head(s) # n  PROVE Twice(t, n)
  <2>1. i # 1 /\ j # 1  BY <1>1, <1>3, <1>6
  <2>2. /\ i - 1 \in 1 .. Len(t) /\ t[i - 1] = n
        /\ j - 1 \in 1 .. Len(t) /\ t[j - 1] = n /\ i - 1 # j - 1
    BY <1>3, <1>4, <2>1, SMTT(30)
  <2> QED  BY <2>2 DEF Twice
<1> QED  BY <1>5, <1>6 DEF t

LEMMA CopiedAppend ==
    ASSUME NEW c \in Seq(Nat), NEW a \in Seq(Nat), NEW l \in Seq(Nat), NEW n \in Nat,
           Copied(c, a, l, n), NEW e \in Nat
    PROVE  Copied(c, Append(a, e), l, n) /\ Copied(Append(c, e), Append(a, e), l, n)
<1>1. ToSet(Append(a, e)) = ToSet(a) \cup {e} /\ ToSet(Append(c, e)) = ToSet(c) \cup {e}
  BY ElementsAppend
<1>2. Twice(a, n) => Twice(Append(a, e), n)  BY TwiceAppend
<1> QED  BY <1>1, <1>2 DEF Copied

\* The link delivers another segment, or loses any.
LEMMA CopiedTail ==
    ASSUME NEW c \in Seq(Nat), NEW a \in Seq(Nat), NEW l \in Seq(Nat), NEW n \in Nat,
           Copied(c, a, l, n), a # <<>>
    PROVE  /\ Head(a) # n => Copied(c, Tail(a), l, n)
           /\ Copied(c, Tail(a), Append(l, Head(a)), n)
<1>1. /\ Tail(a) \in Seq(Nat) /\ Head(a) \in Nat
      /\ ToSet(a) = {Head(a)} \cup ToSet(Tail(a))
  BY ElementsTail
<1>2. Twice(a, n) => n \in ToSet(Tail(a)) /\ (Head(a) # n => Twice(Tail(a), n))
  BY TwiceTail
<1>3. /\ ToSet(Append(l, Head(a))) = ToSet(l) \cup {Head(a)}
      /\ Twice(l, n) => Twice(Append(l, Head(a)), n)
      /\ n = Head(a) /\ n \in ToSet(l) => Twice(Append(l, Head(a)), n)
  BY <1>1, ElementsAppend, TwiceAppend
<1> QED  BY <1>1, <1>2, <1>3 DEF Copied

\* The copy of a segment goes from the cache to the link.
LEMMA CopiedResend ==
    ASSUME NEW c \in Seq(Nat), NEW a \in Seq(Nat), NEW l \in Seq(Nat), NEW n \in Nat,
           Copied(c, a, l, n), NEW e \in ToSet(c)
    PROVE  Copied(RemoveFirst(c, e), Append(a, e), l, n)
<1>1. e \in Nat /\ ToSet(c) \ {e} \subseteq ToSet(RemoveFirst(c, e))
  BY Elements, RemoveFirstIs
<1>2. /\ ToSet(Append(a, e)) = ToSet(a) \cup {e}
      /\ Twice(a, n) => Twice(Append(a, e), n)
      /\ n = e /\ n \in ToSet(a) => Twice(Append(a, e), n)
  BY <1>1, ElementsAppend, TwiceAppend
<1> QED  BY <1>1, <1>2 DEF Copied

\* What a cumulative ACK answers for.
LEMMA MissingIs ==
    ASSUME NEW S, S \subseteq 1 .. MaxSeq, MaxSeq \in Nat
    PROVE  Missing(S) \in 1 .. MaxSeq + 1 /\ 1 .. Missing(S) - 1 \subseteq S
<1> DEFINE T == (1 .. MaxSeq + 1) \ S
<1>1. T \in SUBSET Nat /\ MaxSeq + 1 \in T  OBVIOUS
<1>2. Min(T) \in T /\ \A y \in T : Min(T) <= y
  <2> HIDE DEF T
  <2> QED  BY <1>1, SmallestNat
<1>3. Missing(S) = Min(T)  BY DEF Missing
<1> DEFINE m == Min(T)
<1> HIDE DEF m
<1>4. m \in 1 .. MaxSeq + 1 /\ \A y \in T : m <= y  BY <1>2 DEF m
<1>5. ASSUME NEW k \in 1 .. m - 1  PROVE k \in S
  <2>1. k \in 1 .. MaxSeq + 1 /\ k \notin T  BY <1>4
  <2> QED  BY <2>1
<1> QED  BY <1>3, <1>4, <1>5 DEF m

\* A sorted cache loses only what is before the client's previous ACK.
LEMMA TrimmedIs ==
    ASSUME cache \in Seq(Nat), NEW old \in Nat, NEW new
    PROVE  /\ Trimmed(old, new) \in Seq(Nat) /\ ToSet(Trimmed(old, new)) \subseteq ToSet(cache)
           /\ Sorted(cache) => /\ Sorted(Trimmed(old, new))
                               /\ \A n \in ToSet(cache) : n >= old => n \in ToSet(Trimmed(old, new))
<1> DEFINE ends == {i \in DOMAIN cache : cache[i] + 1 = old}
           t == Trimmed(old, new)
           c == cache
<1>1. /\ Len(c) \in Nat /\ DOMAIN c = 1 .. Len(c)
      /\ \A i \in 1 .. Len(c) : c[i] \in Nat /\ c[i] \in ToSet(c)
  BY Elements
<1>2. CASE ends = {}
  <2>1. t = c  BY <1>2, Zenon DEF Trimmed
  <2> QED  BY <2>1
<1>3. CASE ends # {}
  <2> DEFINE m == Min(ends)
  <2>1. t = SubSeq(c, m + 1, Len(c))  BY <1>3, Zenon DEF Trimmed
  <2>2. m \in ends
    <3>1. ends \in SUBSET Nat  BY <1>1
    <3> HIDE DEF ends
    <3> QED  BY <1>3, <3>1, SmallestNat
  <2>3. m \in 1 .. Len(c) /\ c[m] + 1 = old  BY <1>1, <2>2
  <2> HIDE DEF m, t, c
  <2>4. /\ m + 1 \in 1 .. Len(c) + 1 /\ Len(c) \in (m + 1) - 1 .. Len(c)
        /\ Len(c) - (m + 1) + 1 = Len(c) - m
    BY <1>1, <2>3
  <2>5. /\ t \in Seq(Nat) /\ Len(t) = Len(c) - (m + 1) + 1
        /\ \A i \in 1 .. Len(c) - (m + 1) + 1 : t[i] = c[(m + 1) + i - 1]
        /\ \A i \in m + 1 .. Len(c) : c[i] \in ToSet(t)
        /\ ToSet(t) \subseteq ToSet(c)
    BY <2>1, <2>4, ElementsSubSeq DEF c
  <2>6. ASSUME Sorted(c)  PROVE Sorted(t)
    <3> SUFFICES ASSUME NEW i \in 1 .. Len(t), NEW j \in 1 .. Len(t), i < j
                 PROVE  t[i] < t[j]
      BY DEF Sorted
    <3>1. /\ m + i \in 1 .. Len(c) /\ m + j \in 1 .. Len(c) /\ m + i < m + j
          /\ (m + 1) + i - 1 = m + i /\ (m + 1) + j - 1 = m + j
      BY <1>1, <2>3, <2>4, <2>5
    <3>2. t[i] = c[m + i] /\ t[j] = c[m + j]  BY <2>5, <3>1
    <3> QED  BY <2>6, <3>1, <3>2 DEF Sorted
  <2>7. ASSUME Sorted(c), NEW n \in ToSet(c), n >= old  PROVE n \in ToSet(t)
    <3>1. PICK i \in 1 .. Len(c) : c[i] = n  BY Elements DEF c
    <3>2. c[i] > c[m] /\ c[i] \in Nat /\ c[m] \in Nat  BY <1>1, <2>3, <2>7, <3>1
    <3>3. i > m
      <4> SUFFICES ASSUME i < m  PROVE FALSE  BY <2>3, <3>2
      <4>1. c[i] < c[m]  BY <2>3, <2>7 DEF Sorted
      <4> QED  BY <3>2, <4>1
    <3>4. i \in m + 1 .. Len(c)  BY <1>1, <2>3, <3>3
    <3> QED  BY <2>5, <3>1, <3>4
  <2> QED  BY <2>5, <2>6, <2>7 DEF c, t
<1> QED  BY <1>2, <1>3

------------------------------------------------------------------------------
(* The other actions. *)

\* A segment of the sender enters the histories, the cache and the link.
LEMMA RecvKeeps ==
    ASSUME FlowInv, NEW n, OnRecv_rcvdev(n), next' \in 1 .. MaxSeq + 1, again' \in Nat,
           n \in 1 .. next' - 1,
           \/ next' = next + 1 /\ n = next /\ again' = again
           \/ next' = next /\ again' = again + 1
    PROVE  FlowInv'
<1>1. Shapes /\ AckedInv /\ ClientInv /\ CopiesInv  BY DEF FlowInv
<1>2. /\ air' = Append(air, n)
      /\ cc_create => hist' = Append(hist, n) /\ cache' = Append(cache, n)
      /\ ~cc_create => hist' = hist /\ cache' = cache
      /\ UNCHANGED <<mode, cc_create, stopped, checks, qseq, lastAck, lastRcvAck, dups,
                     pending, atSender, lost, others, delivered, got, clientAcks, seen>>
  BY DEF OnRecv_rcvdev
<1>3. /\ n \in Nat /\ Other = 0 /\ Sent' = Sent \cup {n} /\ next \in Nat
      /\ Sent \subseteq Nat
  <2>1. next \in Nat /\ next >= 1  BY <1>1, FastAckAssumption DEF Shapes
  <2>2. n \in Nat /\ Sent \subseteq Nat /\ Other = 0  BY <2>1 DEF Sent, Other
  <2>3. CASE next' = next + 1 /\ n = next
    <3>1. 1 .. (next + 1) - 1 = (1 .. next - 1) \cup {next}  BY <2>1
    <3> QED  BY <2>1, <2>2, <2>3, <3>1 DEF Sent
  <2>4. CASE next' = next
    <3>1. n \in 1 .. next - 1  BY <2>4
    <3> QED  BY <2>1, <2>2, <2>4, <3>1 DEF Sent
  <2> QED  BY <2>3, <2>4
<1>4. /\ air \in Seq(Nat) /\ cache \in Seq(Nat) /\ hist \in Seq(Nat) /\ lost \in Seq(Nat)
  BY <1>1 DEF Shapes, AckedInv, Dealt
<1>5. /\ air' \in Seq(Nat) /\ ToSet(air') = ToSet(air) \cup {n}
      /\ cc_create => /\ hist' \in Seq(Nat) /\ ToSet(hist') = ToSet(hist) \cup {n}
                      /\ cache' \in Seq(Nat) /\ ToSet(cache') = ToSet(cache) \cup {n}
  <2>1. Append(air, n) \in Seq(Nat) /\ ToSet(Append(air, n)) = ToSet(air) \cup {n}
    BY <1>3, <1>4, ElementsAppend
  <2>2. Append(hist, n) \in Seq(Nat) /\ ToSet(Append(hist, n)) = ToSet(hist) \cup {n}
    BY <1>3, <1>4, ElementsAppend
  <2>3. Append(cache, n) \in Seq(Nat) /\ ToSet(Append(cache, n)) = ToSet(cache) \cup {n}
    BY <1>3, <1>4, ElementsAppend
  <2> QED  BY <1>2, <2>1, <2>2, <2>3
<1>6. /\ hist' \in Seq(Nat) /\ ToSet(hist) \subseteq ToSet(hist')
      /\ ToSet(hist') \subseteq ToSet(hist) \cup {n}
      /\ cache' \in Seq(Nat) /\ ToSet(cache') \subseteq ToSet(cache) \cup {n}
  BY <1>2, <1>4, <1>5
<1>7. Shapes'  BY <1>1, <1>2, <1>3, <1>5, <1>6 DEF Shapes
<1>8. AckedInv'
  <2>1. AckNumbers' = AckNumbers  BY <1>2 DEF AckNumbers
  <2>2. ToSet(hist') \subseteq Sent'  BY <1>1, <1>3, <1>6 DEF AckedInv, Dealt
  <2>3. cc_create => Sent' \ seen \subseteq ToSet(hist')
    BY <1>1, <1>3, <1>5, <1>6 DEF AckedInv, Dealt
  <2>4. ~cc_create => ToSet(hist') = {}  BY <1>1, <1>2 DEF AckedInv, Dealt
  <2> QED  BY <1>1, <1>2, <1>6, <2>1, <2>2, <2>3, <2>4 DEF AckedInv, Dealt
<1>9. ClientInv'  BY <1>1, <1>2 DEF ClientInv
<1>10. CopiesInv'
  <2> SUFFICES ASSUME cc_create', again' = 0
               PROVE  (Sorted(cache) /\ \A k \in Sent \ got : Copied(cache, air, lost, k))'
    BY DEF CopiesInv
  <2>1. cc_create /\ again = 0 /\ n = next /\ again \in Nat  BY <1>1, <1>2 DEF Shapes
  <2>2. Sorted(cache) /\ \A k \in Sent \ got : Copied(cache, air, lost, k)
    BY <1>1, <2>1 DEF CopiesInv
  <2>3. Sorted(cache')
    <3>1. /\ Len(cache') = Len(cache) + 1 /\ cache'[Len(cache) + 1] = n
          /\ \A i \in 1 .. Len(cache) : cache'[i] = cache[i]
      <4>1. cache' = Append(cache, n)  BY <1>2, <2>1
      <4> QED  BY <1>3, <1>4, <4>1, ElementsAppend
    <3>2. Len(cache) \in Nat /\ \A i \in 1 .. Len(cache) : cache[i] \in ToSet(cache)
      BY <1>4, Elements
    <3>3. \A i \in 1 .. Len(cache) : cache[i] < n
      BY <1>1, <2>1, <3>2 DEF Shapes, Sent
    <3> SUFFICES ASSUME NEW i \in 1 .. Len(cache) + 1, NEW j \in 1 .. Len(cache) + 1, i < j
                 PROVE  cache'[i] < cache'[j]
      BY <3>1 DEF Sorted
    <3>4. i \in 1 .. Len(cache)  BY <3>2
    <3>5. CASE j = Len(cache) + 1  BY <3>1, <3>3, <3>4, <3>5
    <3>6. CASE j \in 1 .. Len(cache)  BY <2>2, <3>1, <3>4, <3>6 DEF Sorted
    <3> QED  BY <3>2, <3>5, <3>6
  <2>4. ASSUME NEW k \in Sent' \ got'  PROVE Copied(cache', air', lost', k)
    <3>1. CASE k = n
      <4>1. n \in ToSet(cache') /\ n \in ToSet(air')  BY <1>5, <2>1
      <4> QED  BY <3>1, <4>1 DEF Copied
    <3>2. CASE k # n
      <4>1. k \in Sent \ got /\ k \in Nat  BY <1>2, <1>3, <3>2
      <4>2. Copied(cache, air, lost, k)  BY <2>2, <4>1
      <4>3. Copied(Append(cache, n), Append(air, n), lost, k)
        BY <1>3, <1>4, <4>1, <4>2, CopiedAppend
      <4> QED  BY <1>2, <2>1, <4>3
    <3> QED  BY <3>1, <3>2
  <2>5. Sorted(cache)'  BY <2>3 DEF Sorted
  <2>6. (\A k \in Sent \ got : Copied(cache, air, lost, k))'
    BY <2>4 DEF Copied, Twice
  <2> QED  BY <2>5, <2>6
<1> QED  BY <1>7, <1>8, <1>9, <1>10 DEF FlowInv

LEMMA OtherPacketKeeps ==
    ASSUME FlowInv, OtherPacket
    PROVE  FlowInv'
<1>1. Shapes /\ AckedInv /\ ClientInv /\ CopiesInv  BY DEF FlowInv
<1>2. /\ air' = Append(air, Other) /\ others' = others + 1 /\ Other \in Nat
      /\ UNCHANGED <<apVars, stopped, checks, pending, atSender, next, again, lost,
                     delivered, got, clientAcks>>
  BY DEF OtherPacket, Other
<1>3. air \in Seq(Nat) /\ air' \in Seq(Nat) /\ ToSet(air') = ToSet(air) \cup {Other}
  BY <1>1, <1>2, ElementsAppend DEF Shapes
<1>4. Shapes'  BY <1>1, <1>2, <1>3 DEF Shapes, apVars, Sent
<1>5. AckedInv' /\ ClientInv'
  BY <1>1, <1>2 DEF AckedInv, Dealt, ClientInv, apVars, Sent, AckNumbers
<1>6. CopiesInv'
  <2>1. ASSUME NEW k \in Sent \ got, Copied(cache, air, lost, k)
        PROVE  Copied(cache, Append(air, Other), lost, k)
    BY <1>1, <1>2, <2>1, CopiedAppend DEF Shapes, Sent
  <2>2. cc_create /\ again = 0 =>
            Sorted(cache) /\ \A k \in Sent \ got : Copied(cache, air', lost, k)
    BY <1>1, <1>2, <2>1 DEF CopiesInv
  <2> QED  BY <1>2, <2>2 DEF CopiesInv, Copied, Twice, Sorted, Sent, apVars
<1> QED  BY <1>4, <1>5, <1>6 DEF FlowInv

LEMMA DeliverKeeps ==
    ASSUME FlowInv, Deliver
    PROVE  FlowInv'
<1>1. Shapes /\ AckedInv /\ ClientInv /\ CopiesInv  BY DEF FlowInv
<1> DEFINE n == Head(air)
<1>2. /\ air # <<>> /\ air' = Tail(air) /\ delivered' = Append(delivered, n)
      /\ n = Other => got' = got /\ clientAcks' = clientAcks
      /\ n # Other => got' = got \cup {n} /\ clientAcks' = Append(clientAcks, Missing(got'))
      /\ UNCHANGED <<apVars, stopped, checks, pending, atSender, next, again, lost, others>>
  BY DEF Deliver
<1>3. air \in Seq(Nat) /\ delivered \in Seq(Nat) /\ clientAcks \in Seq(Nat) /\ MaxSeq \in Nat
  BY <1>1, FastAckAssumption DEF Shapes, ClientInv
<1>4. /\ air' \in Seq(Nat) /\ n \in Nat /\ n \in ToSet(air) /\ ToSet(air') \subseteq ToSet(air)
  BY <1>2, <1>3, ElementsTail
<1> HIDE DEF n
<1>5. /\ n # Other => n \in Sent
      /\ got' \subseteq got \cup {n} /\ got \subseteq got' /\ got' \subseteq Sent
      /\ n # Other => n \in got'
  BY <1>1, <1>2, <1>4 DEF Shapes
<1>6. delivered' \in Seq(Nat) /\ ToSet(delivered') = ToSet(delivered) \cup {n}
  BY <1>2, <1>3, <1>4, ElementsAppend
<1>7. Shapes'
  <2>1. /\ ToSet(delivered') \subseteq got' \cup {Other}
        /\ ToSet(qseq) \subseteq got' \cup {Other} /\ seen \subseteq got' \cup {Other}
    BY <1>1, <1>5, <1>6 DEF Shapes
  <2> QED  BY <1>1, <1>2, <1>4, <1>5, <1>6, <2>1 DEF Shapes, apVars, Sent
<1>8. AckedInv'
  <2>1. Dealt(hist, lastAck, AckNumbers, seen)  BY <1>1 DEF AckedInv
  <2>2. \A a \in AckNumbers : a - 1 \in got'  BY <1>5, <2>1 DEF Dealt
  <2> QED  BY <1>2, <2>1, <2>2 DEF AckedInv, Dealt, apVars, Sent, AckNumbers
<1>9. ClientInv'
  <2>1. CASE n = Other  BY <1>1, <1>2, <2>1 DEF ClientInv, apVars
  <2>2. CASE n # Other
    <3>1. got' \subseteq 1 .. MaxSeq
      <4>1. Sent \subseteq 1 .. MaxSeq  BY <1>1, <1>3 DEF Shapes, Sent
      <4> QED  BY <1>5, <4>1
    <3> DEFINE m == Missing(got')
    <3>2. m \in 1 .. MaxSeq + 1 /\ 1 .. m - 1 \subseteq got'  BY <1>3, <3>1, MissingIs
    <3>3. clientAcks' = Append(clientAcks, m)  BY <1>2, <2>2
    <3> HIDE DEF m
    <3>4. m \in Nat  BY <1>3, <3>2
    <3>5. clientAcks' \in Seq(Nat) /\ ToSet(clientAcks') = ToSet(clientAcks) \cup {m}
      BY <1>3, <3>3, <3>4, ElementsAppend
    <3>6. \A a \in ToSet(clientAcks') \cup {lastRcvAck} : 1 .. a - 1 \subseteq got'
      <4>1. \A a \in ToSet(clientAcks) \cup {lastRcvAck} : 1 .. a - 1 \subseteq got
        BY <1>1 DEF ClientInv
      <4> QED  BY <1>5, <3>2, <3>5, <4>1
    <3>7. ToSet(clientAcks') \subseteq 1 .. MaxSeq + 1  BY <1>1, <3>2, <3>5 DEF ClientInv
    <3> QED  BY <1>1, <1>2, <3>5, <3>6, <3>7 DEF ClientInv, apVars
  <2> QED  BY <2>1, <2>2
<1>10. CopiesInv'
  <2>1. ASSUME NEW k \in Sent \ got', Copied(cache, air, lost, k)
        PROVE  Copied(cache, Tail(air), lost, k)
    <3>1. k # n /\ k \in Nat  BY <1>2, <1>5 DEF Sent, Other
    <3>2. cache \in Seq(Nat) /\ lost \in Seq(Nat)  BY <1>1 DEF Shapes
    <3> QED  BY <1>2, <1>3, <2>1, <3>1, <3>2, CopiedTail DEF n
  <2>2. cc_create /\ again = 0 =>
            Sorted(cache) /\ \A k \in Sent \ got' : Copied(cache, air', lost, k)
    BY <1>1, <1>2, <1>5, <2>1 DEF CopiesInv
  <2> QED  BY <1>2, <2>2 DEF CopiesInv, Copied, Twice, Sorted, Sent, apVars
<1> QED  BY <1>7, <1>8, <1>9, <1>10 DEF FlowInv

LEMMA LoseKeeps ==
    ASSUME FlowInv, Lose
    PROVE  FlowInv'
<1>1. Shapes /\ AckedInv /\ ClientInv /\ CopiesInv  BY DEF FlowInv
<1>2. /\ air # <<>> /\ air' = Tail(air) /\ lost' = Append(lost, Head(air))
      /\ UNCHANGED <<apVars, stopped, checks, pending, atSender, next, again, others,
                     delivered, got, clientAcks>>
  BY DEF Lose
<1>3. air \in Seq(Nat) /\ lost \in Seq(Nat) /\ cache \in Seq(Nat)  BY <1>1 DEF Shapes
<1>4. /\ air' \in Seq(Nat) /\ Head(air) \in Nat /\ Head(air) \in ToSet(air)
      /\ ToSet(air') \subseteq ToSet(air)
  BY <1>2, <1>3, ElementsTail
<1>5. lost' \in Seq(Nat) /\ ToSet(lost') = ToSet(lost) \cup {Head(air)}
  BY <1>2, <1>3, <1>4, ElementsAppend
<1>6. Shapes'
  <2>1. ToSet(lost') \subseteq Sent \cup {Other} /\ ToSet(air') \subseteq Sent \cup {Other}
    BY <1>1, <1>4, <1>5 DEF Shapes
  <2> QED  BY <1>1, <1>2, <1>4, <1>5, <2>1 DEF Shapes, apVars, Sent
<1>7. AckedInv' /\ ClientInv'
  BY <1>1, <1>2 DEF AckedInv, Dealt, ClientInv, apVars, Sent, AckNumbers
<1>8. CopiesInv'
  <2>1. ASSUME NEW k \in Sent \ got, Copied(cache, air, lost, k)
        PROVE  Copied(cache, Tail(air), Append(lost, Head(air)), k)
    <3>1. k \in Nat  BY DEF Sent
    <3> QED  BY <1>2, <1>3, <2>1, <3>1, CopiedTail
  <2>2. cc_create /\ again = 0 =>
            Sorted(cache) /\ \A k \in Sent \ got : Copied(cache, air', lost', k)
    BY <1>1, <1>2, <2>1 DEF CopiesInv
  <2> QED  BY <1>2, <2>2 DEF CopiesInv, Copied, Twice, Sorted, Sent, apVars
<1> QED  BY <1>6, <1>7, <1>8 DEF FlowInv

LEMMA SendPktKeeps ==
    ASSUME FlowInv, SendPkt
    PROVE  FlowInv'
<1>1. Shapes /\ AckedInv /\ ClientInv /\ CopiesInv  BY DEF FlowInv
<1>2. /\ pending # <<>> /\ pending' = Tail(pending) /\ atSender' = atSender \cup {Head(pending)}
      /\ UNCHANGED <<apVars, netVars, stopped, checks>>
  BY DEF SendPkt
<1>3. pending \in Seq(Nat)  BY <1>1 DEF Shapes
<1>4. pending' \in Seq(Nat) /\ ToSet(pending) = {Head(pending)} \cup ToSet(pending')
  BY <1>2, <1>3, ElementsTail
<1>5. AckNumbers' = AckNumbers  BY <1>2, <1>4 DEF AckNumbers
<1>6. Shapes'  BY <1>1, <1>2, <1>4 DEF Shapes, apVars, netVars, Sent
<1>7. AckedInv'
  BY <1>1, <1>2, <1>5 DEF AckedInv, Dealt, apVars, netVars, Sent
<1>8. ClientInv' /\ CopiesInv'
  BY <1>1, <1>2 DEF ClientInv, CopiesInv, Copied, Twice, Sorted, apVars, netVars, Sent
<1> QED  BY <1>6, <1>7, <1>8 DEF FlowInv

\* The third equal ACK and a higher one take copies out of the cache: the one
\* that is sent, and those that the client has acknowledged.
LEMMA ClientAckKeeps ==
    ASSUME FlowInv, OnRecv_snddev
    PROVE  FlowInv'
<1> DEFINE ack == Head(clientAcks)
<1>1. Shapes /\ AckedInv /\ ClientInv /\ CopiesInv  BY DEF FlowInv
<1>2. /\ clientAcks # <<>> /\ clientAcks' = Tail(clientAcks)
      /\ UNCHANGED <<mode, cc_create, hist, qseq, lastAck, seen, stopped, checks,
                     pending, atSender, next, again, lost, others, delivered, got>>
      /\ \/ /\ cc_create /\ ack = lastRcvAck
            /\ dups' = dups + 1 /\ Resend(ack, dups + 1)
            /\ UNCHANGED lastRcvAck
         \/ /\ cc_create /\ ack > lastRcvAck
            /\ dups' = 1 /\ lastRcvAck' = ack /\ cache' = Trimmed(lastRcvAck, ack)
            /\ UNCHANGED air
         \/ /\ ~cc_create \/ ack < lastRcvAck
            /\ UNCHANGED <<dups, lastRcvAck, cache, air>>
  BY DEF OnRecv_snddev
<1>3. /\ clientAcks \in Seq(Nat) /\ cache \in Seq(Nat) /\ air \in Seq(Nat) /\ lost \in Seq(Nat)
      /\ lastRcvAck \in Nat /\ dups \in Nat
      /\ ToSet(cache) \subseteq Sent /\ ToSet(air) \subseteq Sent \cup {Other}
  BY <1>1 DEF Shapes, ClientInv
<1>4. /\ clientAcks' \in Seq(Nat) /\ ack \in Nat
      /\ ToSet(clientAcks) = {ack} \cup ToSet(clientAcks')
  BY <1>2, <1>3, ElementsTail
<1> HIDE DEF ack
<1>5. AckedInv'
  BY <1>1, <1>2 DEF AckedInv, Dealt, Sent, AckNumbers
<1>6. CASE UNCHANGED <<lastRcvAck, cache, air>> /\ dups' \in Nat
  BY <1>1, <1>2, <1>4, <1>5, <1>6, SMTT(30)
     DEF FlowInv, Shapes, ClientInv, CopiesInv, Copied, Twice, Sorted, Sent
<1>7. CASE /\ cc_create /\ ack \in ToSet(cache)
           /\ air' = Append(air, ack) /\ cache' = RemoveFirst(cache, ack)
           /\ dups' = dups + 1 /\ UNCHANGED lastRcvAck
  <2>1. /\ cache' \in Seq(Nat) /\ ToSet(cache') \subseteq ToSet(cache)
        /\ Sorted(cache) => Sorted(cache')
    BY <1>3, <1>7, RemoveFirstIs
  <2>2. air' \in Seq(Nat) /\ ToSet(air') = ToSet(air) \cup {ack}
    BY <1>3, <1>4, <1>7, ElementsAppend
  <2>3. Shapes'
    <3>1. ToSet(air') \subseteq Sent \cup {Other} /\ ToSet(cache') \subseteq Sent
      BY <1>3, <1>7, <2>1, <2>2
    <3>2. dups' \in Nat  BY <1>3, <1>7
    <3> QED  BY <1>1, <1>2, <2>1, <2>2, <3>1, <3>2 DEF Shapes, Sent
  <2>4. ClientInv'  BY <1>1, <1>2, <1>4, <1>7 DEF ClientInv
  <2>5. ASSUME NEW k \in Sent \ got, Copied(cache, air, lost, k)
        PROVE  Copied(RemoveFirst(cache, ack), Append(air, ack), lost, k)
    <3>1. k \in Nat  BY DEF Sent
    <3> QED  BY <1>3, <1>7, <2>5, <3>1, CopiedResend
  <2>6. cc_create /\ again = 0 =>
            Sorted(cache') /\ \A k \in Sent \ got : Copied(cache', air', lost, k)
    BY <1>1, <1>7, <2>1, <2>5 DEF CopiesInv
  <2>7. CopiesInv'  BY <1>2, <2>6 DEF CopiesInv, Copied, Twice, Sorted, Sent
  <2> QED  BY <1>5, <2>3, <2>4, <2>7 DEF FlowInv
<1>8. CASE /\ cc_create /\ ack > lastRcvAck
           /\ dups' = 1 /\ lastRcvAck' = ack /\ cache' = Trimmed(lastRcvAck, ack)
           /\ UNCHANGED air
  <2>1. /\ cache' \in Seq(Nat) /\ ToSet(cache') \subseteq ToSet(cache)
        /\ Sorted(cache) => /\ Sorted(cache')
                            /\ \A n \in ToSet(cache) : n >= lastRcvAck => n \in ToSet(cache')
    BY <1>3, <1>8, TrimmedIs
  <2>2. Shapes'
    <3>1. ToSet(cache') \subseteq Sent /\ dups' \in Nat  BY <1>3, <1>8, <2>1
    <3> QED  BY <1>1, <1>2, <1>8, <2>1, <3>1 DEF Shapes, Sent
  <2>3. ClientInv'
    <3>1. \A a \in ToSet(clientAcks') \cup {lastRcvAck'} : 1 .. a - 1 \subseteq got
      BY <1>1, <1>4, <1>8 DEF ClientInv
    <3> QED  BY <1>1, <1>2, <1>4, <1>8, <3>1 DEF ClientInv
  <2>4. ASSUME NEW k \in Sent \ got, Copied(cache, air, lost, k), Sorted(cache)
        PROVE  Copied(cache', air, lost, k)
    <3>1. k \in Nat /\ k >= 1  BY DEF Sent
    <3>2. 1 .. lastRcvAck - 1 \subseteq got  BY <1>1 DEF ClientInv
    <3>3. k >= lastRcvAck
      <4> SUFFICES ASSUME k < lastRcvAck  PROVE FALSE  BY <1>3, <3>1
      <4>1. k \in 1 .. lastRcvAck - 1  BY <1>3, <3>1
      <4> QED  BY <3>2, <4>1
    <3>4. k \in ToSet(cache) => k \in ToSet(cache')  BY <2>1, <2>4, <3>3
    <3> QED  BY <2>4, <3>4 DEF Copied
  <2>5. cc_create /\ again = 0 =>
            Sorted(cache') /\ \A k \in Sent \ got : Copied(cache', air', lost, k)
    BY <1>1, <1>8, <2>1, <2>4 DEF CopiesInv
  <2>6. CopiesInv'  BY <1>2, <2>5 DEF CopiesInv, Copied, Twice, Sorted, Sent
  <2> QED  BY <1>5, <2>2, <2>3, <2>6 DEF FlowInv
<1> QED  BY <1>2, <1>3, <1>6, <1>7, <1>8 DEF Resend

LEMMA FlowInitial == Init => FlowInv
<1> SUFFICES ASSUME Init  PROVE FlowInv  OBVIOUS
<1>1. /\ mode \in Modes /\ cc_create \in BOOLEAN
      /\ hist = <<>> /\ qseq = <<>> /\ cache = <<>> /\ seen = {}
      /\ lastAck = 0 /\ lastRcvAck = 0 /\ dups = 0
      /\ pending = <<>> /\ atSender = {}
      /\ next = 1 /\ again = 0 /\ air = <<>> /\ lost = <<>> /\ others = 0
      /\ delivered = <<>> /\ got = {} /\ clientAcks = <<>>
  BY Zenon DEF Init
<1>2. Sent = {} /\ MaxSeq \in Nat  BY <1>1, FastAckAssumption DEF Sent
<1>3. <<>> \in Seq(Nat) /\ ToSet(<<>>) = {}  BY ElementsEmpty
<1>4. AckNumbers = {}  BY <1>1, <1>3 DEF AckNumbers
<1>5. Shapes  BY <1>1, <1>2, <1>3 DEF Shapes
<1>6. AckedInv  BY <1>1, <1>2, <1>3, <1>4 DEF AckedInv, Dealt
<1>7. ClientInv  BY <1>1, <1>3 DEF ClientInv
<1>8. CopiesInv
  <2>1. Len(cache) = 0  BY <1>1, EmptySeq
  <2> QED  BY <1>2, <2>1 DEF CopiesInv, Sorted
<1> QED  BY <1>5, <1>6, <1>7, <1>8 DEF FlowInv

LEMMA FlowStep == FlowInv /\ [Next]_vars => FlowInv'
<1> SUFFICES ASSUME FlowInv, [Next]_vars  PROVE FlowInv'  OBVIOUS
<1>1. next \in 1 .. MaxSeq + 1 /\ again \in Nat /\ MaxSeq \in Nat
  BY FastAckAssumption DEF FlowInv, Shapes
<1>2. CASE SendNew
  <2>1. next <= MaxSeq /\ next' = next + 1 /\ again' = again /\ OnRecv_rcvdev(next)
    BY <1>2 DEF SendNew
  <2>2. next' \in 1 .. MaxSeq + 1 /\ again' \in Nat /\ next \in 1 .. next' - 1
    BY <1>1, <2>1
  <2> QED  BY <2>1, <2>2, RecvKeeps
<1>3. CASE SendAgain
  <2>1. PICK n \in 1 .. next - 1 : again' = again + 1 /\ next' = next /\ OnRecv_rcvdev(n)
    BY <1>3 DEF SendAgain
  <2>2. next' \in 1 .. MaxSeq + 1 /\ again' \in Nat /\ n \in 1 .. next' - 1
    BY <1>1, <2>1
  <2> QED  BY <2>1, <2>2, RecvKeeps
<1>4. CASE StopApplication \/ UNCHANGED vars
  <2>1. UNCHANGED <<apVars, netVars, pending, atSender>>
    BY <1>4 DEF StopApplication, vars
  <2>2. Shapes'  BY <2>1 DEF FlowInv, Shapes, Sent, apVars, netVars
  <2>3. AckedInv'  BY <2>1 DEF FlowInv, AckedInv, Dealt, Sent, AckNumbers, apVars, netVars
  <2>4. ClientInv'  BY <2>1 DEF FlowInv, ClientInv, apVars, netVars
  <2>5. CopiesInv'
    BY <2>1 DEF FlowInv, CopiesInv, Copied, Twice, Sorted, Sent, apVars, netVars
  <2> QED  BY <2>2, <2>3, <2>4, <2>5 DEF FlowInv
<1> QED
  BY <1>2, <1>3, <1>4, OtherPacketKeeps, DeliverKeeps, LoseKeeps, CheckAckKeeps,
     SendPktKeeps, ClientAckKeeps DEF Next

LEMMA FlowInvHolds == Spec => [](ChecksInv /\ FlowInv)
  BY ChecksInitial, ChecksStep, FlowInitial, FlowStep, PTL DEF Spec

------------------------------------------------------------------------------
\* The AP acknowledges a segment only when the link has delivered it, and of the
\* segments CreateAckPkt has dealt with at most the latest is above every ACK,
\* although it passes over the segment its last ACK asks for without an ACK.
THEOREM EarlyAcksAreRight == Spec => []AcksMatchDeliveries
<1>1. ChecksInv /\ FlowInv => AcksMatchDeliveries
  <2> SUFFICES ASSUME ChecksInv, FlowInv  PROVE AcksMatchDeliveries  OBVIOUS
  <2>1. Shapes /\ AckedInv /\ ClientInv  BY DEF FlowInv
  <2>2. AcksAreEarned  BY <2>1 DEF AcksAreEarned, AckedInv, Dealt
  <2>3. OnlyLastUnanswered  BY <2>1 DEF OnlyLastUnanswered, AckedInv, Dealt
  <2>4. FastAckTypeOK
    <3>1. AckNumbers \subseteq 1 .. MaxSeq + 1
      <4> SUFFICES ASSUME NEW a \in AckNumbers  PROVE a \in 1 .. MaxSeq + 1  OBVIOUS
      <4>1. a \in Nat /\ a - 1 \in got  BY <2>1 DEF AckedInv, Dealt
      <4>2. a - 1 \in 1 .. next - 1 /\ next \in 1 .. MaxSeq + 1 /\ MaxSeq \in Nat
        BY <2>1, <4>1, FastAckAssumption DEF Shapes, Sent
      <4> QED  BY <4>1, <4>2
    <3>2. {checks, lastAck, lastRcvAck, dups, again, others} \subseteq Nat
      BY <2>1 DEF ChecksInv, Shapes, AckedInv, Dealt, ClientInv
    <3>3. {cc_create, stopped} \subseteq BOOLEAN  BY <2>1 DEF ChecksInv, Shapes
    <3>4. /\ UNION {ToSet(hist), ToSet(cache), got} \subseteq Sent
          /\ UNION {ToSet(qseq), ToSet(air), ToSet(delivered), ToSet(lost)} \subseteq Sent \cup {Other}
      BY <2>1 DEF Shapes, AckedInv, Dealt
    <3>5. ToSet(clientAcks) \subseteq 1 .. MaxSeq + 1  BY <2>1 DEF ClientInv
    <3>6. mode \in Modes /\ next \in 1 .. MaxSeq + 1  BY <2>1 DEF Shapes
    <3> QED  BY <3>1, <3>2, <3>3, <3>4, <3>5, <3>6 DEF FastAckTypeOK
  <2> QED  BY <2>2, <2>3, <2>4 DEF AcksMatchDeliveries
<1> QED  BY <1>1, FlowInvHolds, PTL

\* What the client misses below an ACK of the AP is copied in the cache or under
\* way, or it was lost twice, as long as the sender sends nothing again.
THEOREM MissingStays == Spec => []MissingIsKept
<1>1. FlowInv => MissingIsKept
  <2> SUFFICES ASSUME FlowInv, again = 0, NEW n \in Sent \ got,
                      NEW a \in AckNumbers, a > n
               PROVE  \/ n \in ToSet(cache) \cup ToSet(air)
                      \/ \E i, j \in DOMAIN lost : i # j /\ lost[i] = n /\ lost[j] = n
    BY DEF MissingIsKept
  <2>1. Shapes /\ AckedInv /\ CopiesInv  BY DEF FlowInv
  <2>2. cc_create  BY <2>1 DEF AckedInv, Dealt
  <2>3. Copied(cache, air, lost, n)  BY <2>1, <2>2 DEF CopiesInv
  <2>4. air \in Seq(Nat) /\ lost \in Seq(Nat)  BY <2>1 DEF Shapes
  <2>5. Twice(air, n) => n \in ToSet(air)  BY <2>4, Elements DEF Twice
  <2>6. DOMAIN lost = 1 .. Len(lost)  BY <2>4, Elements
  <2> QED  BY <2>3, <2>5, <2>6 DEF Copied, Twice
<1> QED  BY <1>1, FlowInvHolds, PTL

==============================================================================

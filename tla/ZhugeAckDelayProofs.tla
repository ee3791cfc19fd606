------------------------- MODULE ZhugeAckDelayProofs -------------------------
(***************************************************************************)
(* Proofs about ZhugeAckDelay: its ACKs form a delay line.  The first part *)
(* is about the methods of DeltaDelay, the second about the AP.            *)
(***************************************************************************)
EXTENDS ZhugeAckDelay, SequenceTheorems, WellFoundedInduction, TLAPS

(***************************************************************************)
(* The inductive invariant.                                                *)
(***************************************************************************)

\* A DeltaDelay object whose deltas respect their cap.
Object == [deltas  : Seq([at : Nat, amount : 0 .. MaxDelta]),
           tokens  : Seq(Entry),
           popped  : Seq(Entry),
           lastwnd : Seq(Entry)]

\* A deque in time order with no entry of the future.
InOrder(s, t) ==
    /\ \A i \in 1 .. Len(s) : s[i].at <= t
    /\ \A i, j \in 1 .. Len(s) : i <= j => s[i].at <= s[j].at

\* The histories are in time order, and the popped tokens are the older ones.
\* It takes both for the popped tokens to stay in order when one is added.
Window(d, t) ==
    /\ InOrder(d.deltas, t) /\ InOrder(d.tokens, t) /\ InOrder(d.popped, t)
    /\ \A i \in 1 .. Len(d.popped), j \in 1 .. Len(d.tokens) :
          d.popped[i].at <= d.tokens[j].at

AckTypeInv == AckTypeOK /\ deltaAckDelay \in Object

\* The last ACK left within the cap of its arrival.
LastInv ==
    /\ lastArrv <= now
    /\ lastArrv <= lastSent /\ lastSent <= lastArrv + MaxActualDelay
    /\ isFirstAck => lastSent = 0

\* The held ACKs: no id twice, and none leaves after the last one does.
PendingInv ==
    /\ \A e \in pending : /\ e.id <= acks
                          /\ e.at <= IF WirtcEnable THEN lastSent ELSE now
    /\ \A e, f \in pending : e.id = f.id => e = f
    /\ isFirstAck => pending = {}

AckInv ==
    /\ AckTypeInv
    /\ Window(deltaAckDelay, now)
    /\ LastInv
    /\ PendingInv
    /\ HeldBriefly
    /\ AcksInOrder

(***************************************************************************)
(* The methods of DeltaDelay.                                              *)
(***************************************************************************)

\* Every nonempty set of naturals has a least element: what an argument about
\* a loop needs in the place of an induction.
LEMMA SmallestNat ==
    ASSUME NEW S \in SUBSET Nat, S # {}
    PROVE  \E x \in S : \A y \in S : x <= y
<1>1. PICK x \in S : \A y \in S : ~(<<y, x>> \in OpToRel(<, Nat))
    BY NatLessThanWellFounded, WFMin, Zenon
<1>2. SUFFICES ASSUME NEW y \in S PROVE x <= y
    OBVIOUS
<1>3. ~(<<y, x>> \in OpToRel(<, Nat))
    BY <1>1
<1>4. ~(y < x)
    BY <1>3, Zenon DEF OpToRel
<1> QED BY <1>4

LEMMA WiderSeq ==
    ASSUME NEW S, NEW T, S \subseteq T, NEW s \in Seq(S)
    PROVE  s \in Seq(T)
<1>1. Len(s) \in Nat /\ s \in [1 .. Len(s) -> S]
    BY LenProperties
<1>2. s \in [1 .. Len(s) -> T]
    BY <1>1
<1> QED BY <1>1, <1>2

\* A ClearAged loop stops somewhere: where Aged says.
LEMMA AgedIs ==
    ASSUME NEW s, Len(s) \in Nat, NEW t, NEW age
    PROVE  LET n == Aged(s, t, age)
           IN  /\ n \in 0 .. Len(s)
               /\ \A i \in 1 .. n : t - s[i].at > age
               /\ n < Len(s) => ~(t - s[n + 1].at > age)
<1> DEFINE Stop(n) == n < Len(s) => ~(t - s[n + 1].at > age)
           Stops   == {n \in 0 .. Len(s) : Stop(n)}
<1>1. Len(s) \in Stops
    OBVIOUS
<1>2. PICK n \in Stops : \A m \in Stops : n <= m
  <2>1. Stops \in SUBSET Nat
    OBVIOUS
  <2> QED BY <1>1, <2>1, SmallestNat
<1>3. n \in 0 .. Len(s) /\ Stop(n)
    BY <1>2
<1>4. ASSUME NEW i \in 1 .. n PROVE t - s[i].at > age
  <2>1. i - 1 \in 0 .. Len(s) /\ i - 1 < n
    BY <1>3
  <2>2. ~Stop(i - 1)
    <3>1. SUFFICES ASSUME Stop(i - 1) PROVE FALSE
      OBVIOUS
    <3>2. i - 1 \in Stops
      BY <2>1, <3>1
    <3>3. n <= i - 1
      BY <3>2, <1>2
    <3> QED BY <3>3, <2>1, <1>3
  <2>3. (i - 1) + 1 = i
    OBVIOUS
  <2> QED BY <2>2, <2>3
<1> QED BY <1>3, <1>4, Zenon DEF Aged

\* The two parts in which a ClearAged loop cuts a deque.
LEMMA CutIs ==
    ASSUME NEW T, NEW s \in Seq(T), NEW t, NEW age
    PROVE  LET n == Aged(s, t, age)
           IN  /\ n \in 0 .. Len(s)
               /\ Old(s, t, age) \in Seq(T)
               /\ Recent(s, t, age) \in Seq(T)
               /\ Len(Recent(s, t, age)) = Len(s) - n
               /\ \A i \in 1 .. Len(s) - n : Recent(s, t, age)[i] = s[i + n]
<1> DEFINE n == Aged(s, t, age)
<1>1. Len(s) \in Nat /\ \A i \in 1 .. Len(s) : s[i] \in T
    BY LenProperties, ElementOfSeq
<1>2. n \in 0 .. Len(s)
    BY <1>1, AgedIs
<1> HIDE DEF n
<1>3. SubSeq(s, 1, n) \in Seq(T)
    BY <1>1, <1>2, SubSeqProperties
<1>4. /\ SubSeq(s, n + 1, Len(s)) \in Seq(T)
      /\ Len(SubSeq(s, n + 1, Len(s))) = Len(s) - n
      /\ \A i \in 1 .. Len(s) - n : SubSeq(s, n + 1, Len(s))[i] = s[i + n]
  <2>1. n + 1 \in Int /\ Len(s) \in Int /\ \A i \in n + 1 .. Len(s) : s[i] \in T
    BY <1>1, <1>2
  <2>2. /\ SubSeq(s, n + 1, Len(s)) \in Seq(T)
        /\ Len(SubSeq(s, n + 1, Len(s)))
             = IF n + 1 <= Len(s) THEN Len(s) - (n + 1) + 1 ELSE 0
        /\ \A i \in 1 .. Len(s) - (n + 1) + 1 :
              SubSeq(s, n + 1, Len(s))[i] = s[(n + 1) + i - 1]
    BY <2>1, SubSeqProperties
  <2> HIDE <2>1
  <2>3. Len(SubSeq(s, n + 1, Len(s))) = Len(s) - n
    BY <2>2, <1>1, <1>2
  <2>4. ASSUME NEW i \in 1 .. Len(s) - n
        PROVE  SubSeq(s, n + 1, Len(s))[i] = s[i + n]
    <3>1. (n + 1) + i - 1 = i + n /\ i \in 1 .. Len(s) - (n + 1) + 1
      BY <1>1, <1>2
    <3> QED BY <2>2, <3>1
  <2> QED BY <2>2, <2>3, <2>4
<1> QED BY <1>2, <1>3, <1>4 DEF n, Old, Recent

\* Clearing leaves an object.
LEMMA ClearedIsObject ==
    ASSUME NEW d \in Object, NEW t
    PROVE  Cleared(d, t) \in Object
<1> DEFINE Delta == [at : Nat, amount : 0 .. MaxDelta]
<1>1. d.deltas \in Seq(Delta) /\ d.tokens \in Seq(Entry) /\ d.popped \in Seq(Entry)
      /\ d.lastwnd \in Seq(Entry)
    BY DEF Object
<1>2. Delta \subseteq Entry
    BY DeltaAssumption DEF Entry
<1>3. /\ Recent(d.deltas, t, HistoryLen) \in Seq(Delta)
      /\ Recent(d.tokens, t, HistoryLen) \in Seq(Entry)
      /\ Recent(d.popped, t, HistoryLen) \in Seq(Entry)
    BY <1>1, CutIs
<1>4. /\ Old(d.deltas, t, HistoryLen) \in Seq(Entry)
      /\ Old(d.tokens, t, HistoryLen) \in Seq(Entry)
      /\ Old(d.popped, t, HistoryLen) \in Seq(Entry)
  <2>1. d.deltas \in Seq(Entry)
    BY <1>1, <1>2, WiderSeq
  <2> QED BY <1>1, <2>1, CutIs
<1> DEFINE lw == d.lastwnd \o Old(d.deltas, t, HistoryLen)
                           \o Old(d.tokens, t, HistoryLen)
                           \o Old(d.popped, t, HistoryLen)
<1>5. lw \in Seq(Entry)
    BY <1>1, <1>4, ConcatProperties
<1> HIDE DEF lw
<1>6. Recent(lw, t, 2 * HistoryLen) \in Seq(Entry)
    BY <1>5, CutIs
<1> QED BY <1>3, <1>6 DEF Cleared, Object, lw

\* The rest of a deque in time order is in time order, and when it is cut by
\* age all of it is recent: no old entry hides behind a young one.
LEMMA RecentInOrder ==
    ASSUME NEW s \in Seq(Entry), NEW t \in Nat, NEW u \in Nat, InOrder(s, t)
    PROVE  /\ InOrder(Recent(s, t, u), t)
           /\ \A i \in 1 .. Len(Recent(s, t, u)) : t - Recent(s, t, u)[i].at <= u
<1> DEFINE n == Aged(s, t, u)
           r == Recent(s, t, u)
<1>1. /\ n \in 0 .. Len(s) /\ Len(r) = Len(s) - n
      /\ \A i \in 1 .. Len(s) - n : r[i] = s[i + n]
    BY CutIs
<1>2. Len(s) \in Nat /\ \A i \in 1 .. Len(s) : s[i] \in Entry
    BY LenProperties, ElementOfSeq
<1>3. n < Len(s) => ~(t - s[n + 1].at > u)
    BY <1>2, AgedIs
<1> HIDE DEF n, r
<1>4. \A i \in 1 .. Len(r) : i + n \in 1 .. Len(s) /\ r[i] = s[i + n]
    BY <1>1, <1>2
<1>5. \A i \in 1 .. Len(r) : r[i].at <= t
    BY <1>4 DEF InOrder
<1>6. ASSUME NEW i \in 1 .. Len(r), NEW j \in 1 .. Len(r), i <= j
      PROVE  r[i].at <= r[j].at
  <2>1. i + n <= j + n
    BY <1>6, <1>1
  <2>2. s[i + n].at <= s[j + n].at
    BY <2>1, <1>4 DEF InOrder
  <2> QED BY <2>2, <1>4
<1>7. ASSUME NEW i \in 1 .. Len(r) PROVE t - r[i].at <= u
  <2>1. n + 1 \in 1 .. Len(s) /\ i + n \in 1 .. Len(s) /\ n < Len(s) /\ n + 1 <= i + n
    BY <1>1, <1>2
  <2>2. s[n + 1].at <= s[i + n].at
    BY <2>1 DEF InOrder
  <2>3. s[n + 1].at \in Nat /\ s[i + n].at \in Nat
    BY <2>1, <1>2 DEF Entry
  <2>4. ~(t - s[n + 1].at > u)
    BY <1>3, <2>1
  <2> DEFINE a == s[n + 1].at
             b == s[i + n].at
  <2>5. t - b <= u
    <3>1. a <= b /\ a \in Nat /\ b \in Nat /\ ~(t - a > u)
      BY <2>2, <2>3, <2>4
    <3>2. t \in Nat /\ u \in Nat
      OBVIOUS
    <3> HIDE DEF a, b
    <3> QED BY ONLY <3>1, <3>2
  <2> QED BY <2>5, <1>4
<1>8. InOrder(r, t)
    BY <1>5, <1>6 DEF InOrder
<1> QED BY <1>7, <1>8 DEF r

\* Clearing keeps the histories in time order and leaves nothing too old.
LEMMA ClearedWindow ==
    ASSUME NEW d \in Object, NEW t \in Nat, Window(d, t)
    PROVE  LET c == Cleared(d, t)
           IN  /\ Window(c, t)
               /\ \A s \in {c.deltas, c.tokens, c.popped} :
                     \A i \in 1 .. Len(s) : t - s[i].at <= HistoryLen
<1> DEFINE c == Cleared(d, t)
<1>1. d.deltas \in Seq(Entry) /\ d.tokens \in Seq(Entry) /\ d.popped \in Seq(Entry)
  <2>1. [at : Nat, amount : 0 .. MaxDelta] \subseteq Entry
    BY DeltaAssumption DEF Entry
  <2>2. d.deltas \in Seq([at : Nat, amount : 0 .. MaxDelta])
    BY DEF Object
  <2>3. d.deltas \in Seq(Entry)
    BY <2>1, <2>2, WiderSeq
  <2> QED BY <2>3 DEF Object
<1>2. /\ c.deltas = Recent(d.deltas, t, HistoryLen)
      /\ c.tokens = Recent(d.tokens, t, HistoryLen)
      /\ c.popped = Recent(d.popped, t, HistoryLen)
    BY DEF Cleared
<1>3. HistoryLen \in Nat /\ InOrder(d.deltas, t) /\ InOrder(d.tokens, t)
      /\ InOrder(d.popped, t)
    BY DeltaAssumption DEF Window
<1> HIDE DEF c
<1>4. /\ InOrder(c.deltas, t) /\ InOrder(c.tokens, t) /\ InOrder(c.popped, t)
      /\ \A i \in 1 .. Len(c.deltas) : t - c.deltas[i].at <= HistoryLen
      /\ \A i \in 1 .. Len(c.tokens) : t - c.tokens[i].at <= HistoryLen
      /\ \A i \in 1 .. Len(c.popped) : t - c.popped[i].at <= HistoryLen
    BY <1>1, <1>2, <1>3, RecentInOrder
<1>5. ASSUME NEW i \in 1 .. Len(c.popped), NEW j \in 1 .. Len(c.tokens)
      PROVE  c.popped[i].at <= c.tokens[j].at
  <2> DEFINE m == Aged(d.popped, t, HistoryLen)
             n == Aged(d.tokens, t, HistoryLen)
  <2>1. /\ m \in 0 .. Len(d.popped) /\ Len(c.popped) = Len(d.popped) - m
        /\ \A k \in 1 .. Len(d.popped) - m : c.popped[k] = d.popped[k + m]
    <3>1. LET r == Recent(d.popped, t, HistoryLen)
          IN  /\ m \in 0 .. Len(d.popped) /\ Len(r) = Len(d.popped) - m
              /\ \A k \in 1 .. Len(d.popped) - m : r[k] = d.popped[k + m]
      <4>1. d.popped \in Seq(Entry)
        BY <1>1
      <4> QED BY ONLY <4>1, CutIs
    <3> QED BY <3>1, <1>2
  <2>2. /\ n \in 0 .. Len(d.tokens) /\ Len(c.tokens) = Len(d.tokens) - n
        /\ \A k \in 1 .. Len(d.tokens) - n : c.tokens[k] = d.tokens[k + n]
    <3>1. LET r == Recent(d.tokens, t, HistoryLen)
          IN  /\ n \in 0 .. Len(d.tokens) /\ Len(r) = Len(d.tokens) - n
              /\ \A k \in 1 .. Len(d.tokens) - n : r[k] = d.tokens[k + n]
      <4>1. d.tokens \in Seq(Entry)
        BY <1>1
      <4> QED BY ONLY <4>1, CutIs
    <3> QED BY <3>1, <1>2
  <2> HIDE DEF m, n
  <2>3. Len(d.popped) \in Nat /\ Len(d.tokens) \in Nat
    BY <1>1, LenProperties
  <2>4. i + m \in 1 .. Len(d.popped) /\ j + n \in 1 .. Len(d.tokens)
    BY <2>1, <2>2, <2>3
  <2> QED BY <2>1, <2>2, <2>4 DEF Window
<1>6. Window(c, t)
    BY <1>4, <1>5 DEF Window
<1> QED BY <1>4, <1>6 DEF c

\* AddDeltaDelay keeps the object well-formed and in time order.
LEMMA AddEffect ==
    ASSUME NEW d \in Object, NEW t \in Nat, Window(d, t), NEW change \in Int
    PROVE  /\ AddDeltaDelay(d, t, change) \in Object
           /\ Window(AddDeltaDelay(d, t, change), t)
<1> DEFINE c == Cleared(d, t)
<1>1. c \in Object /\ Window(c, t)
    BY ClearedIsObject, ClearedWindow
<1> HIDE DEF c
<1>2. CASE change >= 0
  <2> DEFINE e == [at |-> t, amount |-> Least(MaxDelta, change)]
  <2>1. e \in [at : Nat, amount : 0 .. MaxDelta] /\ e.at = t
    BY <1>2, DeltaAssumption DEF Least
  <2> HIDE DEF e
  <2>2. c.deltas \in Seq([at : Nat, amount : 0 .. MaxDelta])
    BY <1>1 DEF Object
  <2>3. /\ Append(c.deltas, e) \in Seq([at : Nat, amount : 0 .. MaxDelta])
        /\ Len(Append(c.deltas, e)) = Len(c.deltas) + 1 /\ Len(c.deltas) \in Nat
        /\ \A i \in 1 .. Len(c.deltas) : Append(c.deltas, e)[i] = c.deltas[i]
        /\ Append(c.deltas, e)[Len(c.deltas) + 1] = e
    BY <2>1, <2>2, AppendProperties, LenProperties
  <2>4. AddDeltaDelay(d, t, change) = [c EXCEPT !.deltas = Append(@, e)]
    BY <1>2 DEF AddDeltaDelay, c, e
  <2>5. InOrder(Append(c.deltas, e), t)
    <3> DEFINE a == Append(c.deltas, e)
               n == Len(c.deltas)
    <3>1. e.at = t /\ InOrder(c.deltas, t)
      BY <2>1, <1>1 DEF Window
    <3>2. n \in Nat /\ Len(a) = n + 1 /\ a[n + 1] = e
          /\ \A i \in 1 .. n : a[i] = c.deltas[i]
      BY <2>3
    <3> HIDE DEF a
    <3>3. \A i \in 1 .. n + 1 : a[i].at <= t
      BY <3>1, <3>2 DEF InOrder
    <3>4. ASSUME NEW i \in 1 .. n + 1, NEW j \in 1 .. n + 1, i <= j
          PROVE  a[i].at <= a[j].at
      <4>1. CASE j = n + 1
        BY <4>1, <3>1, <3>2, <3>3
      <4>2. CASE j # n + 1
        BY <4>2, <3>4, <3>1, <3>2 DEF InOrder
      <4> QED BY <4>1, <4>2
    <3>5. InOrder(a, t)
      BY <3>2, <3>3, <3>4 DEF InOrder
    <3> QED BY <3>5 DEF a
  <2> QED BY <2>3, <2>4, <2>5, <1>1 DEF Object, Window
<1>3. CASE ~(change >= 0)
  <2> DEFINE e == [at |-> t, amount |-> Least(MaxDelta, -change)]
  <2>1. e \in Entry /\ e.at = t
    BY <1>3, DeltaAssumption DEF Least, Entry
  <2> HIDE DEF e
  <2>2. c.tokens \in Seq(Entry)
    BY <1>1 DEF Object
  <2>3. /\ Append(c.tokens, e) \in Seq(Entry)
        /\ Len(Append(c.tokens, e)) = Len(c.tokens) + 1 /\ Len(c.tokens) \in Nat
        /\ \A i \in 1 .. Len(c.tokens) : Append(c.tokens, e)[i] = c.tokens[i]
        /\ Append(c.tokens, e)[Len(c.tokens) + 1] = e
    BY <2>1, <2>2, AppendProperties, LenProperties
  <2>4. AddDeltaDelay(d, t, change) = [c EXCEPT !.tokens = Append(@, e)]
    BY <1>3 DEF AddDeltaDelay, c, e
  <2>5. InOrder(Append(c.tokens, e), t)
    BY <2>1, <2>3, <1>1 DEF InOrder, Window
  <2>6. ASSUME NEW i \in 1 .. Len(c.popped), NEW j \in 1 .. Len(Append(c.tokens, e))
        PROVE  c.popped[i].at <= Append(c.tokens, e)[j].at
    BY <2>1, <2>3, <1>1 DEF InOrder, Window
  <2> QED BY <2>3, <2>4, <2>5, <2>6, <1>1 DEF Object, Window
<1> QED BY <1>2, <1>3

\* Paying with tokens keeps the object well-formed, the histories in time order
\* and the delay between nothing and what it was.
LEMMA PayEffect ==
    ASSUME NEW d \in Object, NEW t \in Nat, Window(d, t),
           NEW delay \in Nat, NEW pay \in Payments(delay, d.tokens)
    PROVE  /\ Paid(d, pay) \in Object
           /\ Window(Paid(d, pay), t)
           /\ LeftOver(d.tokens, pay) \in 0 .. delay
<1> DEFINE n    == pay.n
           left == pay.left
           toks == d.tokens
           rest == SubSeq(toks, n + 1, Len(toks))
           used == SubSeq(toks, 1, n)
           kept == IF rest = <<>> THEN rest
                   ELSE [rest EXCEPT ![1].amount = @ - left[n]]
<1>1. toks \in Seq(Entry) /\ Len(toks) \in Nat /\ \A i \in 1 .. Len(toks) : toks[i] \in Entry
  <2>1. toks \in Seq(Entry)
    BY DEF Object
  <2> QED BY <2>1, LenProperties, ElementOfSeq
<1>2. /\ n \in 0 .. Len(toks) /\ left \in [0 .. n -> 0 .. delay]
      /\ n < Len(toks) => left[n] <= toks[n + 1].amount
    BY DEF Payments
<1>3. left[n] \in 0 .. delay
    BY <1>1, <1>2
<1>4. LeftOver(toks, pay) \in 0 .. delay
    BY <1>3 DEF LeftOver
<1>5. /\ used \in Seq(Entry) /\ Len(used) = n
      /\ \A i \in 1 .. n : used[i] = toks[i]
  <2> HIDE DEF toks, n
  <2>1. 1 \in Int /\ n \in Int /\ \A i \in 1 .. n : toks[i] \in Entry
    BY <1>1, <1>2
  <2>2. /\ used \in Seq(Entry) /\ Len(used) = IF 1 <= n THEN n - 1 + 1 ELSE 0
        /\ \A i \in 1 .. n - 1 + 1 : used[i] = toks[1 + i - 1]
    BY <2>1, SubSeqProperties
  <2>3. n - 1 + 1 = n /\ \A i \in 1 .. n : 1 + i - 1 = i
    BY <1>2
  <2> QED BY <2>2, <2>3, <1>1, <1>2
<1>6. /\ rest \in Seq(Entry) /\ Len(rest) = Len(toks) - n
      /\ \A i \in 1 .. Len(toks) - n : rest[i] = toks[i + n]
  <2> HIDE DEF toks, n
  <2>1. n + 1 \in Int /\ Len(toks) \in Int /\ \A i \in n + 1 .. Len(toks) : toks[i] \in Entry
    BY <1>1, <1>2
  <2>2. /\ rest \in Seq(Entry)
        /\ Len(rest) = IF n + 1 <= Len(toks) THEN Len(toks) - (n + 1) + 1 ELSE 0
        /\ \A i \in 1 .. Len(toks) - (n + 1) + 1 : rest[i] = toks[(n + 1) + i - 1]
    BY <2>1, SubSeqProperties
  <2> DEFINE L == Len(toks)
  <2>5. L \in Nat /\ n \in 0 .. L
    BY <1>1, <1>2
  <2> HIDE DEF L
  <2>6. (IF n + 1 <= L THEN L - (n + 1) + 1 ELSE 0) = L - n
    BY ONLY <2>5
  <2>3. Len(rest) = Len(toks) - n
    BY <2>2, <2>6 DEF L
  <2>4. \A i \in 1 .. Len(toks) - n : /\ (n + 1) + i - 1 = i + n
                                      /\ i \in 1 .. Len(toks) - (n + 1) + 1
    BY <1>1, <1>2
  <2> QED BY <2>2, <2>3, <2>4
<1> HIDE DEF n, left, toks, rest, used
<1>7. /\ kept \in Seq(Entry) /\ Len(kept) = Len(toks) - n
      /\ \A i \in 1 .. Len(toks) - n : kept[i].at = toks[i + n].at
  <2>1. CASE rest = <<>>
    <3>1. kept = rest
      BY <2>1
    <3>2. Len(rest) = 0
      BY <2>1
    <3> HIDE DEF kept
    <3> QED BY <3>1, <3>2, <1>6
  <2>2. CASE rest # <<>>
    <3>1. 1 \in 1 .. Len(rest) /\ n < Len(toks)
      <4> DEFINE k == Len(rest)
                 L == Len(toks)
      <4>1. k \in Nat \ {0}
        BY <2>2, <1>6, EmptySeq
      <4>2. k = L - n /\ n \in 0 .. L /\ L \in Nat
        BY <1>6, <1>1, <1>2
      <4> HIDE DEF k, L
      <4>3. 1 \in 1 .. k /\ n < L
        BY ONLY <4>1, <4>2
      <4> QED BY <4>3 DEF k, L
    <3> DEFINE e == [rest[1] EXCEPT !.amount = @ - left[n]]
    <3>2. rest[1] \in Entry /\ rest[1] = toks[n + 1]
      <4>1. 1 \in 1 .. Len(toks) - n /\ 1 + n = n + 1 /\ n + 1 \in 1 .. Len(toks)
        BY <3>1, <1>1, <1>2
      <4> QED BY <4>1, <1>1, <1>6
    <3>3. e \in Entry /\ e.at = rest[1].at
      <4>1. rest[1].amount \in Nat /\ left[n] \in Nat /\ left[n] <= rest[1].amount
        BY <3>1, <3>2, <1>2, <1>3 DEF Entry
      <4>2. rest[1].amount - left[n] \in Nat
        BY <4>1
      <4> QED BY <3>2, <4>2 DEF Entry
    <3>4. kept = [rest EXCEPT ![1] = e]
      BY <2>2
    <3> HIDE DEF e, kept
    <3>5. /\ kept \in Seq(Entry) /\ Len(kept) = Len(rest)
          /\ \A j \in 1 .. Len(rest) : kept[j] = IF j = 1 THEN e ELSE rest[j]
      BY <3>1, <3>3, <3>4, <1>6, ExceptSeq
    <3> QED BY <3>3, <3>5, <1>6
  <2> QED BY <2>1, <2>2
<1> DEFINE popped == d.popped \o used
<1>8. /\ popped \in Seq(Entry) /\ Len(d.popped) \in Nat
      /\ Len(popped) = Len(d.popped) + n
      /\ \A i \in 1 .. Len(d.popped) + n :
            popped[i] = IF i <= Len(d.popped) THEN d.popped[i] ELSE used[i - Len(d.popped)]
  <2>1. d.popped \in Seq(Entry)
    BY DEF Object
  <2> QED BY <2>1, <1>5, ConcatProperties, LenProperties
<1>9. Paid(d, pay) = [d EXCEPT !.tokens = kept, !.popped = popped]
    BY DEF Paid, rest, used, n, left, toks
<1> HIDE DEF kept, popped
<1>10. Paid(d, pay) \in Object
    BY <1>7, <1>8, <1>9 DEF Object
<1>11. /\ InOrder(d.deltas, t) /\ InOrder(toks, t) /\ InOrder(d.popped, t)
       /\ \A i \in 1 .. Len(d.popped), j \in 1 .. Len(toks) : d.popped[i].at <= toks[j].at
    BY DEF Window, toks
<1>12. InOrder(kept, t)
  <2>1. \A i \in 1 .. Len(kept) : i + n \in 1 .. Len(toks) /\ kept[i].at = toks[i + n].at
    BY <1>1, <1>2, <1>7
  <2>2. \A i, j \in 1 .. Len(kept) : i <= j => i + n <= j + n
    BY <1>2
  <2> QED BY <2>1, <2>2, <1>11 DEF InOrder
\* Index k of the popped tokens is one of the old ones or a token now used.
<1> DEFINE m == Len(d.popped)
<1>13. /\ m \in Nat /\ Len(popped) = m + n
       /\ \A k \in 1 .. Len(popped) : k <= m => k \in 1 .. m /\ popped[k] = d.popped[k]
       /\ \A k \in 1 .. Len(popped) :
             k > m => k - m \in 1 .. n /\ k - m \in 1 .. Len(toks) /\ popped[k] = toks[k - m]
  <2>1. ASSUME NEW k \in 1 .. Len(popped), k <= m
        PROVE  k \in 1 .. m /\ popped[k] = d.popped[k]
    BY <2>1, <1>8
  <2>2. ASSUME NEW k \in 1 .. Len(popped), k > m
        PROVE  k - m \in 1 .. n /\ k - m \in 1 .. Len(toks) /\ popped[k] = toks[k - m]
    <3>1. k - m \in 1 .. n /\ k - m \in 1 .. Len(toks) /\ k \in 1 .. m + n
      BY <2>2, <1>8, <1>2, <1>1
    <3>2. k \in 1 .. Len(d.popped) + n /\ ~(k <= Len(d.popped))
      BY <2>2, <3>1, <1>8
    <3>3. popped[k] = used[k - m]
      BY ONLY <3>2, <1>8 DEF m
    <3>4. used[k - m] = toks[k - m]
      BY ONLY <3>1, <1>5
    <3> QED BY ONLY <3>1, <3>3, <3>4
  <2> QED BY <2>1, <2>2, <1>8
<1> HIDE DEF m
<1>14. ASSUME NEW i \in 1 .. Len(popped), NEW j \in 1 .. Len(popped), i <= j
       PROVE  popped[i].at <= popped[j].at
  <2>1. CASE j <= m
    <3>1. i <= m
      BY <2>1, <1>14, <1>13
    <3>2. i \in 1 .. m /\ j \in 1 .. m /\ popped[i] = d.popped[i] /\ popped[j] = d.popped[j]
      BY <2>1, <3>1, <1>13
    <3> QED BY <3>2, <1>14, <1>11 DEF InOrder, m
  <2>2. CASE i <= m /\ j > m
    <3>1. i \in 1 .. m /\ popped[i] = d.popped[i]
      BY <2>2, <1>13
    <3>2. j - m \in 1 .. Len(toks) /\ popped[j] = toks[j - m]
      BY <2>2, <1>13
    <3> QED BY <3>1, <3>2, <1>11 DEF m
  <2>3. CASE i > m
    <3>1. i - m <= j - m /\ j > m
      BY <2>3, <1>14, <1>13
    <3>2. i - m \in 1 .. Len(toks) /\ popped[i] = toks[i - m]
      BY <2>3, <1>13
    <3>3. j - m \in 1 .. Len(toks) /\ popped[j] = toks[j - m]
      BY <3>1, <1>13
    <3> QED BY <3>1, <3>2, <3>3, <1>11 DEF InOrder
  <2> QED BY <2>1, <2>2, <2>3, <1>13
<1>15. InOrder(popped, t)
  <2>1. ASSUME NEW i \in 1 .. Len(popped) PROVE popped[i].at <= t
    <3>1. CASE i <= m
      BY <3>1, <1>13, <1>11 DEF InOrder, m
    <3>2. CASE i > m
      BY <3>2, <1>13, <1>11 DEF InOrder
    <3> QED BY <3>1, <3>2, <1>13
  <2> QED BY <2>1, <1>14 DEF InOrder
<1>16. ASSUME NEW i \in 1 .. Len(popped), NEW j \in 1 .. Len(kept)
       PROVE  popped[i].at <= kept[j].at
  <2>1. j + n \in 1 .. Len(toks) /\ kept[j].at = toks[j + n].at
    BY <1>1, <1>2, <1>7
  <2>2. CASE i <= m
    <3>1. i \in 1 .. m /\ popped[i] = d.popped[i]
      BY <2>2, <1>13
    <3> QED BY <2>1, <3>1, <1>11 DEF m
  <2>3. CASE i > m
    <3>1. i - m \in 1 .. n /\ i - m \in 1 .. Len(toks) /\ popped[i] = toks[i - m]
      BY <2>3, <1>13
    <3>2. i - m <= j + n
      BY <3>1, <2>1, <1>2
    <3> QED BY <2>1, <3>1, <3>2, <1>11 DEF InOrder
  <2> QED BY <2>2, <2>3, <1>13
<1>17. Window(Paid(d, pay), t)
  <2>1. LET p == Paid(d, pay)
        IN  p.deltas = d.deltas /\ p.tokens = kept /\ p.popped = popped
    BY <1>9 DEF Object
  <2> QED BY <2>1, <1>11, <1>12, <1>15, <1>16 DEF Window
<1> QED BY <1>4, <1>10, <1>17 DEF toks

\* A fraction of a delay is not longer than the delay.
LEMMA Fraction ==
    ASSUME NEW a \in Nat, NEW x \in Nat, NEW b \in Nat, a < b
    PROVE  (a * x) \div b \in 0 .. x
<1> DEFINE q == (a * x) \div b
           p == a * x
           r == b * x
<1>1. p \in Nat /\ r \in Nat /\ p <= r
    OBVIOUS
<1>2. q \in Int /\ b * q <= p /\ p < b * (q + 1)
    OBVIOUS
<1> HIDE DEF q
<1>3. q >= 0
  <2>1. SUFFICES ASSUME q + 1 <= 0 PROVE FALSE
    BY <1>2
  <2>2. b * (q + 1) <= 0
    BY <2>1, <1>2
  <2> QED BY <2>2, <1>1, <1>2
<1>4. q <= x
  <2>1. SUFFICES ASSUME x + 1 <= q PROVE FALSE
    BY <1>2
  <2>2. b * (x + 1) <= b * q
    BY <2>1, <1>2
  <2>3. b * (x + 1) = r + b
    OBVIOUS
  <2> QED BY <2>2, <2>3, <1>1, <1>2
<1> QED BY <1>2, <1>3, <1>4 DEF q

LEMMA ScaledRange ==
    ASSUME NEW d \in Object, NEW delay \in Nat
    PROVE  Scaled(d, delay) \in 0 .. delay
<1>1. Len(d.popped) \in Nat /\ Len(d.tokens) \in Nat /\ Len(d.deltas) \in Nat
      /\ Len(d.lastwnd) \in Nat
    BY LenProperties DEF Object
<1> DEFINE count == Len(d.popped) + Len(d.tokens) + Len(d.deltas)
<1>2. count \in Nat
  <2>1. \A x, y, z \in Nat : x + y + z \in Nat
    OBVIOUS
  <2> QED BY <1>1, <2>1
<1> HIDE DEF count
<1>3. CASE Len(d.lastwnd) > count
  <2>1. (count * delay) \div Len(d.lastwnd) \in 0 .. delay
    BY <1>1, <1>2, <1>3, Fraction
  <2> QED BY <2>1, <1>3 DEF Scaled, count
<1>4. CASE ~(Len(d.lastwnd) > count)
    BY <1>4 DEF Scaled, count
<1> QED BY <1>3, <1>4

\* A sample is minDeltaDelay itself when there is no delta to pick, and between
\* nothing and the cap otherwise.
LEMMA SampleEffect ==
    ASSUME NEW d \in Object, NEW t \in Nat, Window(d, t), NEW min \in Int, min <= 0,
           NEW s \in SampleDeltaDelay(d, t, min)
    PROVE  /\ s.after \in Object
           /\ Window(s.after, t)
           /\ s.delay = min \/ s.delay \in 0 .. MaxDelta
           /\ Cleared(d, t).deltas # <<>> => s.delay \in 0 .. MaxDelta
<1> DEFINE c == Cleared(d, t)
<1>1. c \in Object /\ Window(c, t)
    BY ClearedIsObject, ClearedWindow
<1>2. CASE c.deltas = <<>>
    BY <1>1, <1>2 DEF SampleDeltaDelay
<1>3. CASE c.deltas # <<>>
  <2>1. PICK i \in DOMAIN c.deltas :
          \E pay \in Payments(Greatest(c.deltas[i].amount, min), c.tokens) :
             s = [delay |-> Scaled(Paid(c, pay), LeftOver(c.tokens, pay)),
                  after |-> Paid(c, pay)]
    BY <1>3 DEF SampleDeltaDelay
  <2> DEFINE delay == Greatest(c.deltas[i].amount, min)
  <2>2. delay \in 0 .. MaxDelta
    <3>1. c.deltas[i] \in [at : Nat, amount : 0 .. MaxDelta]
      <4>1. c.deltas \in Seq([at : Nat, amount : 0 .. MaxDelta])
        BY <1>1 DEF Object
      <4> HIDE DEF c
      <4> QED BY <4>1, LenProperties, ElementOfSeq
    <3> QED BY <3>1, DeltaAssumption DEF Greatest
  <2>3. PICK pay \in Payments(delay, c.tokens) :
          s = [delay |-> Scaled(Paid(c, pay), LeftOver(c.tokens, pay)),
               after |-> Paid(c, pay)]
    BY <2>1
  <2> HIDE DEF c, delay
  <2>4. /\ Paid(c, pay) \in Object /\ Window(Paid(c, pay), t)
        /\ LeftOver(c.tokens, pay) \in 0 .. delay
    BY <1>1, <2>2, <2>3, PayEffect
  <2>5. Scaled(Paid(c, pay), LeftOver(c.tokens, pay)) \in 0 .. MaxDelta
    <3>1. Scaled(Paid(c, pay), LeftOver(c.tokens, pay)) \in 0 .. LeftOver(c.tokens, pay)
      BY <2>4, ScaledRange
    <3> QED BY <3>1, <2>2, <2>4, DeltaAssumption
  <2> QED BY <2>3, <2>4, <2>5
<1> QED BY <1>2, <1>3

(***************************************************************************)
(* The AP.                                                                 *)
(***************************************************************************)

LEMMA AckInitInv == AckInit => AckInv
<1> SUFFICES ASSUME AckInit PROVE AckInv
    OBVIOUS
<1> USE DEF AckInit
<1>1. NoHistory \in Object
    BY EmptySeq DEF NoHistory, Object
<1>2. Len(<<>>) = 0
    OBVIOUS
<1>3. Window(NoHistory, now)
    BY <1>2 DEF Window, InOrder, NoHistory
<1>4. AckTypeInv
  <2>1. deltaAckDelay \in [deltas : Seq(Entry), tokens : Seq(Entry),
                           popped : Seq(Entry), lastwnd : Seq(Entry)]
    BY EmptySeq DEF NoHistory
  <2> QED BY <1>1, <2>1 DEF AckTypeInv, AckTypeOK
<1>5. LastInv /\ PendingInv /\ HeldBriefly /\ AcksInOrder
    BY AckAssumption DEF LastInv, PendingInv, HeldBriefly, AcksInOrder
<1> QED BY <1>1, <1>3, <1>4, <1>5 DEF AckInv

LEMMA ObjectTyped ==
    Object \subseteq [deltas : Seq(Entry), tokens : Seq(Entry),
                      popped : Seq(Entry), lastwnd : Seq(Entry)]
<1>1. [at : Nat, amount : 0 .. MaxDelta] \subseteq Entry
    BY DeltaAssumption DEF Entry
<1>2. \A s \in Seq([at : Nat, amount : 0 .. MaxDelta]) : s \in Seq(Entry)
    BY <1>1, WiderSeq
<1> QED BY <1>2 DEF Object

\* An ACK is scheduled: what both handlers of an ACK share.  It may leave no
\* earlier than now and than every ACK before it, and no later than the cap.
LEMMA ScheduleKeeps ==
    ASSUME AckInv, NEW at \in Nat, Schedule(at),
           now <= at, at <= now + MaxActualDelay,
           \A e \in pending : e.at <= at,
           lastArrv' = now, lastSent' \in Nat, now <= lastSent',
           lastSent' <= now + MaxActualDelay, lastSent <= lastSent',
           at <= IF WirtcEnable THEN lastSent' ELSE now,
           deltaAckDelay' \in Object, Window(deltaAckDelay', now), isFirstAck' = FALSE,
           UNCHANGED <<now, lastDelay, lastEmpty, changes>>
    PROVE  AckInv'
<1> DEFINE new == [id |-> acks + 1, arrived |-> now, at |-> at]
<1>1. /\ acks \in Nat /\ now \in Nat /\ lastDelay \in Nat /\ changes \in Nat
      /\ lastEmpty \in BOOLEAN /\ lastArrv \in Nat /\ lastSent \in Nat
      /\ pending \subseteq [id : Nat, arrived : Nat, at : Nat]
    BY DEF AckInv, AckTypeInv, AckTypeOK
<1>2. acks' = acks + 1 /\ pending' = pending \cup {new}
    BY DEF Schedule
<1>3. new \in [id : Nat, arrived : Nat, at : Nat]
      /\ new.id = acks + 1 /\ new.arrived = now /\ new.at = at
    BY <1>1
<1> HIDE DEF new
<1>4. AckTypeInv'
  <2>1. pending' \subseteq [id : Nat, arrived : Nat, at : Nat] /\ acks' \in Nat
    BY <1>1, <1>2, <1>3
  <2>2. deltaAckDelay' \in [deltas : Seq(Entry), tokens : Seq(Entry),
                            popped : Seq(Entry), lastwnd : Seq(Entry)]
    BY ObjectTyped
  <2> QED BY <1>1, <2>1, <2>2 DEF AckTypeInv, AckTypeOK
<1>5. LastInv'
    BY <1>1 DEF LastInv
<1>6. \A e \in pending : e.id \in Nat /\ e.at \in Nat /\ e.arrived \in Nat /\ e.id <= acks
    BY <1>1 DEF AckInv, PendingInv
<1>7. PendingInv'
  <2>1. ASSUME NEW e \in pending'
        PROVE  e.id <= acks' /\ e.at <= IF WirtcEnable THEN lastSent' ELSE now
    <3>1. CASE e = new
      BY <3>1, <1>2, <1>3, <1>1
    <3>2. CASE e \in pending
      <4>1. e.at <= IF WirtcEnable THEN lastSent ELSE now
        BY <3>2 DEF AckInv, PendingInv
      <4> QED BY <3>2, <4>1, <1>1, <1>2, <1>6
    <3> QED BY <3>1, <3>2, <1>2
  <2>2. ASSUME NEW e \in pending', NEW f \in pending', e.id = f.id PROVE e = f
    <3>1. \A g \in pending : g.id # new.id
      BY <1>1, <1>3, <1>6
    <3>2. CASE e \in pending /\ f \in pending
      BY <3>2, <2>2 DEF AckInv, PendingInv
    <3> QED BY <3>1, <3>2, <2>2, <1>2
  <2> QED BY <2>1, <2>2 DEF PendingInv
<1>8. HeldBriefly'
  <2>1. \A e \in pending : /\ e.arrived <= e.at /\ e.at <= e.arrived + MaxActualDelay
                           /\ now <= e.at
    BY DEF AckInv, HeldBriefly
  <2> QED BY <2>1, <1>2, <1>3 DEF HeldBriefly
<1>9. AcksInOrder'
  <2>1. SUFFICES ASSUME NEW e \in pending', NEW f \in pending', e.id < f.id
                 PROVE  e.at <= f.at
    BY DEF AcksInOrder
  <2>2. CASE e \in pending /\ f \in pending
    BY <2>1, <2>2 DEF AckInv, AcksInOrder
  <2>3. CASE f = new
    BY <2>3, <1>2, <1>3
  <2>4. CASE e = new /\ f \in pending
    BY <2>1, <2>4, <1>1, <1>3, <1>6
  <2> QED BY <2>2, <2>3, <2>4, <1>2
<1> QED BY <1>4, <1>5, <1>7, <1>8, <1>9 DEF AckInv

LEMMA FirstAckInv == AckInv /\ FirstAck => AckInv'
<1> SUFFICES ASSUME AckInv, FirstAck PROVE AckInv'
    OBVIOUS
<1>1. /\ now \in Nat /\ MaxActualDelay \in Nat /\ pending = {} /\ lastSent <= now
      /\ deltaAckDelay \in Object /\ Window(deltaAckDelay, now)
    BY AckAssumption DEF FirstAck, AckInv, AckTypeInv, AckTypeOK, PendingInv, LastInv
<1> DEFINE at == now
<1>2. /\ Schedule(at) /\ lastArrv' = now /\ lastSent' = now /\ isFirstAck' = FALSE
      /\ UNCHANGED <<now, deltaAckDelay, lastDelay, lastEmpty, changes>>
    BY DEF FirstAck
<1>3. /\ at \in Nat /\ now <= at /\ at <= now + MaxActualDelay
      /\ \A e \in pending : e.at <= at
      /\ at <= IF WirtcEnable THEN lastSent' ELSE now
      /\ lastSent' \in Nat /\ now <= lastSent'
      /\ lastSent' <= now + MaxActualDelay /\ lastSent <= lastSent'
      /\ deltaAckDelay' \in Object /\ Window(deltaAckDelay', now)
    BY <1>1, <1>2
<1> HIDE DEF at
<1> QED BY <1>2, <1>3, ScheduleKeeps

\* What SampleDeltaDelay is asked for is never positive, and an ACK delayed by
\* that much or by a sample leaves neither before now nor before the last one.
LEMMA BaseRange ==
    ASSUME AckInv
    PROVE  /\ Base \in Nat /\ Lowest \in Int /\ Lowest <= 0
           /\ now <= Base + Lowest /\ lastSent <= Base + Lowest
<1>1. now \in Nat /\ lastSent \in Nat /\ lastArrv \in Nat /\ lastArrv <= now
      /\ lastArrv <= lastSent
    BY DEF AckInv, AckTypeInv, AckTypeOK, LastInv
<1>2. CASE now > lastSent
    BY <1>1, <1>2 DEF Base, Lowest
<1>3. CASE ~(now > lastSent)
  <2>1. Base = now + (lastSent - lastArrv) /\ Lowest = lastSent - Base
    BY <1>3 DEF Base, Lowest
  <2> QED BY <1>1, <1>3, <2>1
<1> QED BY <1>2, <1>3

LEMMA NextAckInv == AckInv /\ NextAck => AckInv'
<1> SUFFICES ASSUME AckInv, NextAck PROVE AckInv'
    OBVIOUS
<1>1. PICK s \in SampleDeltaDelay(deltaAckDelay, now, Lowest) :
        /\ deltaAckDelay' = s.after
        /\ lastArrv' = now /\ lastSent' = SentAt(s.delay)
        /\ Schedule(IF WirtcEnable /\ SentAt(s.delay) > now THEN SentAt(s.delay) ELSE now)
    BY DEF NextAck
<1>2. isFirstAck' = FALSE /\ UNCHANGED <<now, lastDelay, lastEmpty, changes>>
    BY DEF NextAck, AckInv, AckTypeInv, AckTypeOK
<1>3. /\ now \in Nat /\ lastSent \in Nat /\ lastArrv \in Nat /\ MaxActualDelay \in Nat
      /\ lastArrv <= now /\ lastSent <= lastArrv + MaxActualDelay
      /\ deltaAckDelay \in Object /\ Window(deltaAckDelay, now)
      /\ WirtcEnable \in BOOLEAN
    BY AckAssumption DEF AckInv, AckTypeInv, AckTypeOK, LastInv
<1>4. /\ Base \in Nat /\ Lowest \in Int /\ Lowest <= 0
      /\ now <= Base + Lowest /\ lastSent <= Base + Lowest
    BY BaseRange
<1>5. /\ s.after \in Object /\ Window(s.after, now)
      /\ s.delay \in Int /\ Lowest <= s.delay
  <2>1. /\ s.after \in Object /\ Window(s.after, now)
        /\ s.delay = Lowest \/ s.delay \in 0 .. MaxDelta
    BY <1>3, <1>4, SampleEffect
  <2> QED BY <2>1, <1>4, DeltaAssumption
<1> DEFINE sent == SentAt(s.delay)
           at   == IF WirtcEnable /\ sent > now THEN sent ELSE now
<1>6. /\ sent \in Nat /\ now <= sent /\ lastSent <= sent /\ sent <= now + MaxActualDelay
    BY <1>3, <1>4, <1>5 DEF SentAt, Least
<1> HIDE DEF sent
<1>7. at \in Nat /\ now <= at /\ at <= now + MaxActualDelay
      /\ at <= IF WirtcEnable THEN sent ELSE now
    BY <1>3, <1>6
<1>8. \A e \in pending : e.at <= at
  <2>1. SUFFICES ASSUME NEW e \in pending PROVE e.at <= at
    OBVIOUS
  <2>2. e.at \in Nat /\ e.at <= IF WirtcEnable THEN lastSent ELSE now
    BY DEF AckInv, AckTypeInv, AckTypeOK, PendingInv
  <2>3. CASE WirtcEnable
    <3>1. e.at <= sent
      BY <2>2, <2>3, <1>3, <1>6
    <3>2. at = sent
      BY <2>3, <1>3, <1>6
    <3> QED BY <3>1, <3>2
  <2>4. CASE ~WirtcEnable
    BY <2>2, <2>4, <1>3
  <2> QED BY <2>3, <2>4
<1>9. Schedule(at) /\ lastArrv' = now /\ lastSent' = sent /\ deltaAckDelay' = s.after
    BY <1>1 DEF sent
<1> HIDE DEF at
<1> QED BY <1>2, <1>5, <1>6, <1>7, <1>8, <1>9, ScheduleKeeps

\* The estimate of CalculateTotalDelayMs is a delay: UpdateTxRate divides by no
\* zero, and the rate it keeps is positive.
LEMMA TotalDelayIsNat ==
    ASSUME NEW queued \in QueueSizes, NEW w \in Windows
    PROVE  /\ TxRate(w) \in Nat \ {0}
           /\ TotalDelay(queued, w) \in Nat
<1>1. /\ RateWindow \in Nat \ {0} /\ MinTxRate \in Nat \ {0} /\ queued \in Nat
      /\ \A b \in TxBits : b \in Nat
    BY AckAssumption
<1>2. /\ w.idle \in 0 .. RateWindow /\ w.busy \in 0 .. RateWindow
      /\ w.bits \in Nat /\ w.idle + w.busy <= RateWindow
    BY <1>1 DEF Windows
<1>3. TxRate(w) \in Nat \ {0}
  <2>1. CASE w.idle = RateWindow
    BY <2>1, <1>1 DEF TxRate
  <2>2. CASE w.idle # RateWindow
    <3>1. RateWindow - w.idle \in Nat \ {0}
      BY <2>2, <1>1, <1>2
    <3>2. w.bits \div (RateWindow - w.idle) \in Nat
      BY <3>1, <1>2
    <3> QED BY <3>2, <2>2, <1>1 DEF TxRate, Greatest
  <2> QED BY <2>1, <2>2
<1>4. TxTime(w) \in Nat
  <2> DEFINE used == RateWindow - w.idle
  <2>1. used \in Nat
    BY <1>1, <1>2
  <2>2. CASE w.busy < used
    <3>1. used - w.busy \in Nat \ {0}
      BY <2>1, <2>2, <1>2
    <3>2. used \div (used - w.busy) \in Nat
      BY <2>1, <3>1
    <3> QED BY <3>2, <2>2 DEF TxTime
  <2>3. CASE ~(w.busy < used)
    BY <2>3, <1>1 DEF TxTime
  <2> QED BY <2>2, <2>3
<1>5. queued \div TxRate(w) \in Nat
  <2> HIDE DEF TxRate
  <2> QED BY <1>1, <1>3
<1> QED BY <1>3, <1>4, <1>5 DEF TotalDelay

LEMMA SetAckDelayInv ==
    ASSUME AckInv, NEW queued \in QueueSizes, NEW w \in Windows,
           SetAckDelay(queued, w)
    PROVE  AckInv'
<1> DEFINE total == TotalDelay(queued, w)
<1>1. /\ UNCHANGED <<now, isFirstAck, lastArrv, lastSent, pending, acks>>
      /\ changes' = changes + 1 /\ lastDelay' = total /\ lastEmpty' \in BOOLEAN
    BY DEF SetAckDelay
<1>0. total \in Nat
    BY TotalDelayIsNat
<1>2. deltaAckDelay' \in Object /\ Window(deltaAckDelay', now)
  <2>1. now \in Nat /\ lastDelay \in Nat /\ deltaAckDelay \in Object
        /\ Window(deltaAckDelay, now)
    BY DEF AckInv, AckTypeInv, AckTypeOK
  <2>2. total - lastDelay \in Int
    BY <1>0, <2>1
  <2>3. LET d == AddDeltaDelay(deltaAckDelay, now, total - lastDelay)
        IN  d \in Object /\ Window(d, now)
    BY <2>1, <2>2, AddEffect
  <2> QED BY <2>1, <2>3 DEF SetAckDelay
<1>3. AckTypeInv'
  <2>1. deltaAckDelay' \in [deltas : Seq(Entry), tokens : Seq(Entry),
                            popped : Seq(Entry), lastwnd : Seq(Entry)]
    BY <1>2, ObjectTyped
  <2> HIDE DEF total
  <2> QED BY <1>0, <1>1, <1>2, <2>1 DEF AckInv, AckTypeInv, AckTypeOK
<1>4. (LastInv /\ PendingInv /\ HeldBriefly /\ AcksInOrder)'
    BY <1>1 DEF AckInv, LastInv, PendingInv, HeldBriefly, AcksInOrder
<1> QED BY <1>1, <1>2, <1>3, <1>4 DEF AckInv

LEMMA SendPktInv ==
    ASSUME AckInv, NEW e \in pending, SendPkt(e)
    PROVE  AckInv'
<1>1. /\ pending' = pending \ {e}
      /\ UNCHANGED <<now, deltaAckDelay, lastDelay, lastEmpty, isFirstAck,
                     lastArrv, lastSent, acks, changes>>
    BY DEF SendPkt
<1>2. AckTypeInv' /\ Window(deltaAckDelay, now)'
    BY <1>1 DEF AckInv, AckTypeInv, AckTypeOK
<1>3. (LastInv /\ PendingInv /\ HeldBriefly /\ AcksInOrder)'
    BY <1>1 DEF AckInv, LastInv, PendingInv, HeldBriefly, AcksInOrder
<1> QED BY <1>2, <1>3 DEF AckInv

LEMMA TickInv == AckInv /\ Tick => AckInv'
<1> SUFFICES ASSUME AckInv, Tick PROVE AckInv'
    OBVIOUS
<1>1. /\ now' = now + 1 /\ now \in Nat /\ lastArrv \in Nat /\ lastSent \in Nat
      /\ pending \subseteq [id : Nat, arrived : Nat, at : Nat]
      /\ UNCHANGED <<deltaAckDelay, lastDelay, lastEmpty, isFirstAck, lastArrv,
                     lastSent, pending, acks, changes>>
      /\ \A e \in pending : e.at # now
    BY DEF Tick, AckInv, AckTypeInv, AckTypeOK
<1>2. AckTypeInv'
    BY <1>1 DEF AckInv, AckTypeInv, AckTypeOK
<1>3. Window(deltaAckDelay, now)'
  <2>1. deltaAckDelay \in Object /\ Window(deltaAckDelay, now)
    BY DEF AckInv, AckTypeInv
  <2>2. \A s \in Seq(Entry) : InOrder(s, now) => InOrder(s, now')
    <3>1. SUFFICES ASSUME NEW s \in Seq(Entry), InOrder(s, now),
                          NEW i \in 1 .. Len(s)
                   PROVE  s[i].at <= now'
      BY DEF InOrder
    <3>2. s[i].at \in Nat
      <4>1. s[i] \in Entry
        BY ElementOfSeq
      <4> QED BY <4>1 DEF Entry
    <3>3. s[i].at <= now
      BY <3>1 DEF InOrder
    <3> QED BY <3>2, <3>3, <1>1
  <2>3. /\ deltaAckDelay.deltas \in Seq(Entry) /\ deltaAckDelay.tokens \in Seq(Entry)
        /\ deltaAckDelay.popped \in Seq(Entry)
    BY <2>1, ObjectTyped
  <2> QED BY <2>1, <2>2, <2>3, <1>1 DEF Window
<1>4. LastInv' /\ AcksInOrder'
    BY <1>1 DEF AckInv, LastInv, AcksInOrder
<1>5. PendingInv'
  <2>1. ASSUME NEW e \in pending PROVE e.at <= IF WirtcEnable THEN lastSent ELSE now + 1
    BY <1>1 DEF AckInv, PendingInv
  <2> QED BY <2>1, <1>1 DEF AckInv, PendingInv
<1>6. HeldBriefly'
  <2>1. ASSUME NEW e \in pending PROVE now + 1 <= e.at
    BY <1>1 DEF AckInv, HeldBriefly
  <2> QED BY <2>1, <1>1 DEF AckInv, HeldBriefly
<1> QED BY <1>2, <1>3, <1>4, <1>5, <1>6 DEF AckInv

LEMMA AckNextInv == AckInv /\ [AckNext]_ackVars => AckInv'
<1> SUFFICES ASSUME AckInv, [AckNext]_ackVars PROVE AckInv'
    OBVIOUS
<1>1. ASSUME NEW queued \in QueueSizes, NEW w \in Windows, SetAckDelay(queued, w)
      PROVE  AckInv'
    BY <1>1, SetAckDelayInv
<1>2. CASE FirstAck
    BY <1>2, FirstAckInv
<1>3. CASE NextAck
    BY <1>3, NextAckInv
<1>4. ASSUME NEW e \in pending, SendPkt(e) PROVE AckInv'
    BY <1>4, SendPktInv
<1>5. CASE Tick
    BY <1>5, TickInv
<1>6. CASE UNCHANGED ackVars
    BY <1>6 DEF ackVars, AckInv, AckTypeInv, AckTypeOK, LastInv, PendingInv,
                HeldBriefly, AcksInOrder
<1> QED BY <1>1, <1>2, <1>3, <1>4, <1>5, <1>6 DEF AckNext

THEOREM AckInductive == AckSpec => []AckInv
    BY AckInitInv, AckNextInv, PTL DEF AckSpec

\* The state of the AP is well-typed, in the deques of DeltaDelay too.
THEOREM AckTypeCorrect == AckSpec => []AckTypeOK
<1>1. AckInv => AckTypeOK
    BY DEF AckInv, AckTypeInv
<1> QED BY <1>1, AckInductive, PTL

\* No ACK overtakes another one, whatever deltas and tokens the AP recorded.
THEOREM NoOvertaking == AckSpec => []AcksInOrder
<1>1. AckInv => AcksInOrder
    BY DEF AckInv
<1> QED BY <1>1, AckInductive, PTL

\* No ACK is held longer than kMaxActualDelay and no firing time is missed.
THEOREM BoundedHold == AckSpec => []HeldBriefly
<1>1. AckInv => HeldBriefly
    BY DEF AckInv
<1> QED BY <1>1, AckInductive, PTL

\* The NS_ASSERT of SampleDeltaDelay never fails.
THEOREM AssertHolds == AckSpec => []SampleAsserted
<1>1. AckInv => SampleAsserted
  <2>1. SUFFICES ASSUME AckInv, Cleared(deltaAckDelay, now).deltas # <<>>,
                        NEW s \in SampleDeltaDelay(deltaAckDelay, now, Lowest)
                 PROVE  s.delay \in 0 .. MaxDelta
    BY DEF SampleAsserted
  <2>2. now \in Nat /\ deltaAckDelay \in Object /\ Window(deltaAckDelay, now)
    BY <2>1 DEF AckInv, AckTypeInv, AckTypeOK
  <2>3. Lowest \in Int /\ Lowest <= 0
    BY <2>1, BaseRange
  <2> QED BY <2>1, <2>2, <2>3, SampleEffect
<1> QED BY <1>1, AckInductive, PTL

\* Nothing older than the window is sampled or spent, although the ClearAged
\* loops only look at the front of each deque.
THEOREM ExactWindow == AckSpec => []WindowIsExact
<1>1. AckInv => WindowIsExact
  <2>1. SUFFICES ASSUME AckInv PROVE WindowIsExact
    OBVIOUS
  <2>2. now \in Nat /\ deltaAckDelay \in Object /\ Window(deltaAckDelay, now)
    BY <2>1 DEF AckInv, AckTypeInv, AckTypeOK
  <2> DEFINE c == Cleared(deltaAckDelay, now)
  <2>3. \A s \in {c.deltas, c.tokens, c.popped} :
           \A i \in 1 .. Len(s) : now - s[i].at <= HistoryLen
    BY <2>2, ClearedWindow
  <2>4. c \in Object
    BY <2>2, ClearedIsObject
  <2> HIDE DEF c
  <2>5. \A s \in {c.deltas, c.tokens, c.popped} : DOMAIN s = 1 .. Len(s)
    BY <2>4, LenProperties DEF Object
  <2>6. \A s \in {c.deltas, c.tokens, c.popped} :
           \A i \in DOMAIN s : now - s[i].at <= HistoryLen
    BY <2>3, <2>5
  <2> QED BY <2>6 DEF WindowIsExact, c
<1> QED BY <1>1, AckInductive, PTL

\* At every moment a sample may be drawn, it is within the assert and drawn
\* from fresh entries only.
THEOREM DeltaStaysSound == AckSpec => []DeltaSound
<1>1. SampleAsserted /\ WindowIsExact => DeltaSound
  BY DEF DeltaSound
<1> QED BY <1>1, AssertHolds, ExactWindow, PTL

(***************************************************************************)
(* The AP implements the delay line.                                       *)
(***************************************************************************)

Held(events) == {[id |-> e.id, arrived |-> e.arrived] : e \in events}

\* An ACK that is scheduled enters the line.
LEMMA ScheduleEnters ==
    ASSUME NEW at, Schedule(at), UNCHANGED now
    PROVE  Line!Enter
<1> DEFINE new == [id |-> acks + 1, arrived |-> now, at |-> at]
<1>1. acks' = acks + 1 /\ pending' = pending \cup {new}
    BY DEF Schedule
<1>2. Held(pending') = Held(pending) \cup {[id |-> acks + 1, arrived |-> now]}
  <2>1. new.id = acks + 1 /\ new.arrived = now
    OBVIOUS
  <2> HIDE DEF new
  <2>2. Held(pending \cup {new}) = Held(pending) \cup {[id |-> new.id, arrived |-> new.arrived]}
    BY DEF Held
  <2> QED BY <2>1, <2>2, <1>1
<1> QED BY <1>1, <1>2 DEF Line!Enter, Held

\* An ACK whose event fires is the first in the line: every other one is due
\* later, or now but with a larger id.
LEMMA SendPktLeaves ==
    ASSUME AckInv, NEW e \in pending, SendPkt(e)
    PROVE  Line!Leave
<1> DEFINE first == [id |-> e.id, arrived |-> e.arrived]
<1>1. /\ e.at = now /\ pending' = pending \ {e} /\ UNCHANGED <<now, acks>>
      /\ \A f \in pending : f.at = now => e.id <= f.id
    BY DEF SendPkt
<1>2. /\ now \in Nat
      /\ \A f \in pending : f.id \in Nat /\ f.at \in Nat /\ now <= f.at
    BY DEF AckInv, AckTypeInv, AckTypeOK, HeldBriefly
<1>3. ASSUME NEW f \in pending PROVE e.id <= f.id
  <2>1. CASE f.at = now
    BY <2>1, <1>1
  <2>2. CASE f.at # now
    <3>1. ~(f.at <= e.at)
      BY <2>2, <1>1, <1>2
    <3>2. ~(f.id < e.id)
      BY <3>1 DEF AckInv, AcksInOrder
    <3> QED BY <3>2, <1>2
  <2> QED BY <2>1, <2>2
<1>4. first \in Held(pending) /\ \A h \in Held(pending) : first.id <= h.id
    BY <1>3 DEF Held
<1>5. Held(pending') = Held(pending) \ {first}
  <2>1. \A f \in pending : f # e => f.id # e.id
    BY DEF AckInv, PendingInv
  <2> QED BY <2>1, <1>1 DEF Held
<1> QED BY <1>1, <1>4, <1>5 DEF Line!Leave, Held

LEMMA AckStepImplements ==
    AckInv /\ [AckNext]_ackVars => [Line!Enter \/ Line!Leave \/ Line!Pass]_(Line!lineVars)
<1> SUFFICES ASSUME AckInv, [AckNext]_ackVars
             PROVE  [Line!Enter \/ Line!Leave \/ Line!Pass]_(Line!lineVars)
    OBVIOUS
<1>1. ASSUME NEW queued \in QueueSizes, NEW w \in Windows, SetAckDelay(queued, w)
      PROVE  UNCHANGED Line!lineVars
    BY <1>1 DEF SetAckDelay, Line!lineVars
<1>2. CASE FirstAck
  <2>1. Schedule(now) /\ UNCHANGED now
    BY <1>2 DEF FirstAck
  <2> QED BY <2>1, ScheduleEnters
<1>3. CASE NextAck
  <2>1. UNCHANGED now /\ \E at : Schedule(at)
    BY <1>3 DEF NextAck
  <2> QED BY <2>1, ScheduleEnters
<1>4. ASSUME NEW e \in pending, SendPkt(e) PROVE Line!Leave
    BY <1>4, SendPktLeaves
<1>5. CASE Tick
  <2>1. now' = now + 1 /\ UNCHANGED <<pending, acks>> /\ \A e \in pending : e.at # now
    BY <1>5 DEF Tick
  <2>2. ASSUME NEW e \in pending PROVE now < e.arrived + MaxActualDelay
    <3>1. /\ now \in Nat /\ e.at \in Nat /\ e.arrived \in Nat /\ MaxActualDelay \in Nat
          /\ now <= e.at /\ e.at <= e.arrived + MaxActualDelay
      BY AckAssumption DEF AckInv, AckTypeInv, AckTypeOK, HeldBriefly
    <3> QED BY <3>1, <2>1
  <2> QED BY <2>1, <2>2 DEF Line!Pass
<1>6. CASE UNCHANGED ackVars
    BY <1>6 DEF ackVars, Line!lineVars
<1> QED BY <1>1, <1>2, <1>3, <1>4, <1>5, <1>6 DEF AckNext

\* The AP is a delay line for ACKs: each leaves once, in order of arrival, and
\* at most kMaxActualDelay after it arrived.
THEOREM LineImplemented == AckSpec => ImplementsLine
<1>1. AckInit => Line!LineInit
    BY DEF AckInit, Line!LineInit
<1> QED BY <1>1, AckStepImplements, AckInductive, PTL
        DEF AckSpec, ImplementsLine, Line!LineSpec

==============================================================================

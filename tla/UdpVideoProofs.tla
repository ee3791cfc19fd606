---------------------------- MODULE UdpVideoProofs ----------------------------
(***************************************************************************)
(* Theorems about the video that goes over UDP, for all values of the      *)
(* constants: PacketSenderUdp, UdpPath and, in the last part, the decoder  *)
(* that the receivers hand their packets to.                               *)
(*                                                                         *)
(* The first part is about the sender alone.  Its inductive invariant      *)
(* carries over to the path, because every step of the path is a step of   *)
(* the sender or leaves the sender alone.  The next part is about batches: *)
(* who was in a batch when it was made, and that queue, network and        *)
(* receiver all still agree on it.                                         *)
(***************************************************************************)
EXTENDS UdpPath, VideoDecoder, FiniteSetTheorems, SequenceTheorems, NaturalsInduction,
        WellFoundedInduction, TLAPS

PktRecord == [frame : Nat, group : Nat, encode : Nat, enq : Nat,
              sent : Nat, tx : Nat, batch : Nat, bnum : Nat]

\* TypeOK in the form a proof can carry from state to state.
TypeInv ==
    /\ now \in Nat /\ sends \in Nat /\ nextCheck \in Nat /\ nextGroup \in Nat
    /\ nextBatch \in Nat /\ frames \in Nat /\ stopAt \in Nat
    /\ \E n \in Nat : pkts \in [1 .. n -> PktRecord]
    /\ hist \subseteq DOMAIN pkts
    /\ keys \subseteq DOMAIN pkts
    /\ queue \subseteq [rtx : BOOLEAN, seq : Nat, items : (SUBSET Item) \ {{}}]
    /\ running \in BOOLEAN

\* Packets are numbered in time order, none is from the future, and a group
\* that has been numbered gets no packet again.
OrderInv ==
    /\ \A p \in DOMAIN pkts : pkts[p].encode <= now /\ pkts[p].group < nextGroup
    /\ \A p, q \in DOMAIN pkts : p < q => pkts[p].encode <= pkts[q].encode

\* GroupInStep, with the time of the last enqueueing: if one stored packet of a
\* group waits since before now, all of them do.
StepInv ==
    \A p, q \in hist :
        pkts[p].group = pkts[q].group =>
            /\ pkts[p].tx = pkts[q].tx
            /\ pkts[p].batch = pkts[q].batch
            /\ pkts[p].encode = pkts[q].encode
            /\ pkts[p].enq = pkts[q].enq

\* A packet is queued only while an event is pending that will send it, so the
\* clock stands still.
QueueInv ==
    /\ QueueUntouched
    /\ queue # {} => sends > 0

\* No stored packet was outdated when CheckRetransmission last ran.
FreshInv ==
    running => /\ nextCheck - CheckInterval <= now /\ now <= nextCheck
               /\ \A p \in hist : nextCheck - CheckInterval - pkts[p].encode <= DelayDdl

\* StopRunning keeps only packets the checks before it did not find outdated.
StopInv ==
    ~running => \A p \in hist : pkts[p].encode + DelayDdl + CheckInterval >= stopAt

\* The inductive invariant.
IInv == /\ TypeInv /\ HistoryKeyed
        /\ OrderInv /\ StepInv /\ QueueInv /\ FreshInv /\ StopInv

LEMMA PktsDomain ==
    ASSUME TypeInv
    PROVE  /\ IsFiniteSet(DOMAIN pkts)
           /\ Cardinality(DOMAIN pkts) \in Nat
           /\ DOMAIN pkts = 1 .. Cardinality(DOMAIN pkts)
           /\ pkts \in [DOMAIN pkts -> PktRecord]
<1>1. PICK n \in Nat : pkts \in [1 .. n -> PktRecord]
  BY DEF TypeInv
<1>2. IsFiniteSet(1 .. n) /\ Cardinality(1 .. n) = n
  BY <1>1, FS_Interval
<1>3. DOMAIN pkts = 1 .. n
  BY <1>1
<1>4. QED
  BY <1>1, <1>2, <1>3

LEMMA BatchItemsType ==
    ASSUME NEW b \in Nat, NEW P, NEW data \in SUBSET P, P \subseteq Nat,
           NEW fec \in Nat
    PROVE  BatchItems(b, data, fec)
              \subseteq [kind : {"DATA", "FEC"}, batch : Nat, id : Nat, of : SUBSET P]
<1> SUFFICES ASSUME NEW x \in BatchItems(b, data, fec)
             PROVE  x \in [kind : {"DATA", "FEC"}, batch : Nat, id : Nat, of : SUBSET P]
  OBVIOUS
<1>1. CASE \E p \in data :
              x = [kind |-> "DATA", batch |-> b, id |-> p, of |-> {p}]
  <2>1. PICK p \in data : x = [kind |-> "DATA", batch |-> b, id |-> p, of |-> {p}]
    BY <1>1
  <2>2. p \in Nat /\ {p} \in SUBSET P
    OBVIOUS
  <2>3. QED BY <2>1, <2>2
<1>2. CASE \E i \in 1 .. fec :
              x = [kind |-> "FEC", batch |-> b, id |-> i, of |-> data]
  <2>1. PICK i \in 1 .. fec : x = [kind |-> "FEC", batch |-> b, id |-> i, of |-> data]
    BY <1>2
  <2>2. i \in Nat
    OBVIOUS
  <2>3. QED BY <2>1, <2>2
<1>3. QED BY <1>1, <1>2 DEF BatchItems

LEMMA ImageFinite ==
    ASSUME NEW S, IsFiniteSet(S), NEW f, DOMAIN f = S
    PROVE  LET T == {f[x] : x \in S}
           IN  IsFiniteSet(T) /\ Cardinality(T) \in Nat
<1> DEFINE T == {f[x] : x \in S}
           m == [x \in S |-> f[x]]
<1>1. m \in Surjection(S, T)
  BY DEF Surjection
<1>2. IsFiniteSet(T)
  BY <1>1, FS_Surjection
<1>3. QED
  BY <1>2, FS_CardinalityType

\* The packet numbers above the first c ones.
LEMMA UpperInterval ==
    ASSUME NEW c \in Nat, NEW final \in Nat
    PROVE  (1 .. final) \ (1 .. c) = c + 1 .. final
  OBVIOUS

\* The position of a packet in its frame is a natural number.
LEMMA IndexInRange ==
    ASSUME NEW c \in Nat, NEW final \in Nat, NEW p \in c + 1 .. final
    PROVE  p - c - 1 \in Nat
  OBVIOUS

\* Cutting n packets into groups of gs numbers the groups 0, 1, 2, ... without
\* a hole.
LEMMA GroupsContiguous ==
    ASSUME NEW c \in Nat, NEW n \in Nat \ {0}, NEW gs \in Nat \ {0}
    PROVE  LET groups == {(p - c - 1) \div gs : p \in c + 1 .. c + n}
           IN  /\ Cardinality(groups) \in Nat
               /\ \A k \in groups : k < Cardinality(groups)
<1> DEFINE m == (n - 1) \div gs
           groups == {(p - c - 1) \div gs : p \in c + 1 .. c + n}
<1>1. m \in Nat /\ gs * m <= n - 1
  OBVIOUS
<1>2. ASSUME NEW p \in c + 1 .. c + n PROVE (p - c - 1) \div gs \in 0 .. m
  <2> DEFINE a == p - c - 1
             k == a \div gs
  <2>1. a \in Nat /\ a <= n - 1
    OBVIOUS
  <2>2. k \in Nat /\ gs * k <= a
    BY <2>1
  <2>3. n - 1 < gs * (m + 1)
    OBVIOUS
  <2>4. gs * k < gs * (m + 1)
    BY <2>1, <2>2, <2>3
  <2>5. k < m + 1
    BY <2>2, <2>4, <1>1
  <2>6. QED BY <2>2, <2>5, <1>1
<1>3. ASSUME NEW k \in 0 .. m PROVE k \in groups
  <2> DEFINE p == c + 1 + gs * k
  <2>1. k \in Nat /\ gs * k \in Nat /\ gs * k <= gs * m
    BY <1>1
  <2>2. p \in c + 1 .. c + n
    BY <2>1, <1>1
  <2>3. p - c - 1 = gs * k
    BY <2>1
  <2>4. (gs * k) \div gs = k
    BY <2>1
  <2>5. QED BY <2>2, <2>3, <2>4
<1>4. groups = 0 .. m
  BY <1>2, <1>3
<1> HIDE DEF m, groups
<1>5. Cardinality(0 .. m) = m + 1
  <2>1. 0 \in Int /\ m \in Int /\ ~(0 > m) /\ m - 0 + 1 = m + 1
    BY <1>1
  <2>2. QED BY <2>1, FS_Interval
<1>6. Cardinality(groups) \in Nat /\ \A k \in groups : k < Cardinality(groups)
  BY <1>1, <1>4, <1>5
<1>7. QED
  BY <1>6 DEF groups

\* The packets a step adds.
NewPkts == DOMAIN pkts' \ DOMAIN pkts

\* What CreateFrame does to the packets, the store and the counters: the new
\* packets are numbered on from the old ones, and so are their groups.
LEMMA CreateFrameEffect ==
    ASSUME TypeInv, SenderAssumption,
           NEW n \in FrameSizes, NEW gs \in GroupSizes,
           NEW ff \in FECNums, NEW fr \in FECNums, CreateFrame(n, gs, ff, fr)
    PROVE  /\ \E final \in Nat : pkts' \in [1 .. final -> PktRecord]
           /\ DOMAIN pkts \subseteq DOMAIN pkts'
           /\ \A p \in DOMAIN pkts : pkts'[p] = pkts[p]
           /\ \A p \in DOMAIN pkts : \A q \in NewPkts : p < q
           /\ \A p \in NewPkts :
                 /\ pkts'[p].encode = now /\ pkts'[p].enq = now
                 /\ pkts'[p].tx = 0
                 /\ pkts'[p].group >= nextGroup /\ pkts'[p].group < nextGroup'
                 /\ pkts'[p].group - nextGroup = pkts'[p].batch - nextBatch
           /\ hist' = hist \cup NewPkts
           /\ keys' = keys \cup NewPkts
           /\ nextGroup' \in Nat /\ nextGroup' >= nextGroup /\ nextBatch' \in Nat
           /\ \E f \in [rtx : BOOLEAN, seq : Nat, items : (SUBSET Item') \ {{}}] :
                 /\ queue' = queue \cup {f}
                 /\ \A x \in f.items : \A p \in x.of :
                       p \in NewPkts /\ pkts'[p].batch = x.batch
<1> DEFINE c == Cardinality(DOMAIN pkts)
           final == c + n
           new == (1 .. final) \ DOMAIN pkts
           Nth(p) == (p - c - 1) \div gs
           Data(k) == {p \in new : Nth(p) = k}
           Fec(k) == IF Cardinality(Data(k)) = gs THEN ff ELSE fr
           groups == {Nth(p) : p \in new}
           Rec(p) == [frame |-> frames, group |-> nextGroup + Nth(p),
                      encode |-> now, enq |-> now, sent |-> 0, tx |-> 0,
                      batch |-> nextBatch + Nth(p),
                      bnum |-> Cardinality(Data(Nth(p)))]
           f == [rtx |-> FALSE, seq |-> nextBatch,
                 items |-> UNION {BatchItems(nextBatch + k, Data(k), Fec(k)) :
                                  k \in groups}]
<1>1. c \in Nat /\ DOMAIN pkts = 1 .. c /\ pkts \in [1 .. c -> PktRecord]
  BY PktsDomain
<1>2. pkts' = [p \in 1 .. final |-> IF p \in DOMAIN pkts THEN pkts[p] ELSE Rec(p)]
  BY DEF CreateFrame
<1>3. /\ hist' = hist \cup new
      /\ keys' = keys \cup new
      /\ queue' = queue \cup {f}
      /\ nextGroup' = nextGroup + Cardinality(groups)
      /\ nextBatch' = nextBatch + Cardinality(groups)
  BY DEF CreateFrame
<1> HIDE DEF c, final, new, Nth, Data, Fec, groups, Rec, f
<1>4. /\ n \in Nat \ {0} /\ gs \in Nat \ {0} /\ ff \in Nat /\ fr \in Nat
      /\ now \in Nat /\ frames \in Nat /\ nextGroup \in Nat /\ nextBatch \in Nat
  BY DEF SenderAssumption, TypeInv
<1>5. final \in Nat /\ c < final
  <2>1. c \in Nat /\ n \in Nat \ {0}
    BY <1>1, <1>4
  <2>2. QED BY ONLY <2>1 DEF final
<1>6. new = c + 1 .. final
  <2>1. c \in Nat /\ final \in Nat /\ new = (1 .. final) \ (1 .. c)
    BY <1>1, <1>5 DEF new
  <2>2. QED BY ONLY <2>1, UpperInterval
<1>7. \A p \in new : Nth(p) \in Nat
  <2> SUFFICES ASSUME NEW p \in new PROVE Nth(p) \in Nat
    OBVIOUS
  <2>1. p - c - 1 \in Nat
    <3>1. p \in c + 1 .. final
      BY <1>6
    <3>2. c \in Nat /\ final \in Nat
      BY <1>1, <1>5
    <3> QED BY ONLY <3>1, <3>2, IndexInRange
  <2>2. QED BY <2>1, <1>4 DEF Nth
<1>8. IsFiniteSet(new)
  <2>1. c + 1 \in Int /\ final \in Int
    BY <1>1, <1>5
  <2>2. QED BY <2>1, <1>6, FS_Interval
<1>9. \A k : Data(k) \subseteq new /\ Cardinality(Data(k)) \in Nat
  <2> SUFFICES ASSUME NEW k PROVE Data(k) \subseteq new /\ Cardinality(Data(k)) \in Nat
    OBVIOUS
  <2>1. Data(k) \in SUBSET new
    BY DEF Data
  <2>2. IsFiniteSet(Data(k))
    BY <2>1, <1>8, FS_Subset
  <2>3. QED BY <2>1, <2>2, FS_CardinalityType
<1>24. Cardinality(groups) \in Nat /\ \A k \in groups : k < Cardinality(groups)
  <2>1. groups = {(p - c - 1) \div gs : p \in c + 1 .. c + n}
    BY <1>6 DEF groups, Nth, final
  <2>2. QED BY <2>1, <1>1, <1>4, GroupsContiguous
<1>25. nextGroup' \in Nat /\ nextGroup' >= nextGroup /\ nextBatch' \in Nat
  BY <1>3, <1>4, <1>24
<1>26. \A p \in new : Nth(p) \in groups /\ Nth(p) < Cardinality(groups)
  BY <1>24 DEF groups
<1> USE DEF Rec, f
<1>10. \A p \in new : Rec(p) \in PktRecord
  <2> SUFFICES ASSUME NEW p \in new PROVE Rec(p) \in PktRecord
    OBVIOUS
  <2>1. /\ nextGroup + Nth(p) \in Nat /\ nextBatch + Nth(p) \in Nat
        /\ Cardinality(Data(Nth(p))) \in Nat
    BY <1>4, <1>7, <1>9
  <2>2. QED BY <2>1, <1>4 DEF PktRecord
<1>11. \A p \in 1 .. final : p \notin 1 .. c => p \in new
  BY <1>1 DEF new
<1>12. 1 .. c \subseteq 1 .. final /\ new \subseteq 1 .. final
  BY <1>1, <1>5 DEF new
<1>13. pkts' \in [1 .. final -> PktRecord]
  BY <1>1, <1>2, <1>10, <1>11
<1>14. \A p \in 1 .. c : pkts'[p] = pkts[p]
  BY <1>1, <1>2, <1>12
<1>15. \A p \in new : pkts'[p] = Rec(p)
  BY <1>2, <1>12 DEF new
<1>16. \A p \in new :
          /\ pkts'[p].encode = now /\ pkts'[p].enq = now
          /\ pkts'[p].tx = 0
          /\ pkts'[p].group >= nextGroup /\ pkts'[p].group < nextGroup'
          /\ pkts'[p].group - nextGroup = pkts'[p].batch - nextBatch
  <2> SUFFICES ASSUME NEW p \in new
               PROVE  /\ Rec(p).encode = now /\ Rec(p).enq = now
                      /\ Rec(p).tx = 0
                      /\ Rec(p).group >= nextGroup /\ Rec(p).group < nextGroup'
                      /\ Rec(p).group - nextGroup = Rec(p).batch - nextBatch
    BY <1>15
  <2>1. Nth(p) \in Nat /\ Nth(p) < Cardinality(groups)
    BY <1>7, <1>26
  <2>2. QED BY <2>1, <1>3, <1>4, <1>24
<1> USE DEF groups
<1>17. \A k \in groups : BatchItems(nextBatch + k, Data(k), Fec(k)) \subseteq Item'
  <2> SUFFICES ASSUME NEW p \in new
               PROVE  BatchItems(nextBatch + Nth(p), Data(Nth(p)), Fec(Nth(p)))
                         \subseteq Item'
    OBVIOUS
  <2>1. nextBatch + Nth(p) \in Nat /\ Fec(Nth(p)) \in Nat
    BY <1>4, <1>7 DEF Fec
  <2>2. Data(Nth(p)) \in SUBSET (1 .. final) /\ 1 .. final \subseteq Nat
    <3>1. Data(Nth(p)) \subseteq new
      BY <1>9
    <3>2. 1 .. final \subseteq Nat
      BY <1>5
    <3>3. QED BY <3>1, <3>2, <1>12
  <2>3. BatchItems(nextBatch + Nth(p), Data(Nth(p)), Fec(Nth(p)))
           \subseteq [kind : {"DATA", "FEC"}, batch : Nat, id : Nat, of : SUBSET (1 .. final)]
    BY <2>1, <2>2, BatchItemsType
  <2>4. DOMAIN pkts' = 1 .. final
    BY <1>13
  <2>5. Item' = [kind : {"DATA", "FEC"}, batch : Nat, id : Nat, of : SUBSET (1 .. final)]
    BY <2>4 DEF Item
  <2>6. QED
    BY ONLY <2>3, <2>5
<1>18. f.items # {}
  <2>1. final \in new
    <3>1. c \in Nat /\ final \in Nat /\ c < final
      BY <1>1, <1>5
    <3>2. final \in c + 1 .. final
      BY ONLY <3>1
    <3>3. QED BY <3>2, <1>6
  <2>2. final \in Data(Nth(final))
    BY <2>1 DEF Data
  <2>3. [kind |-> "DATA", batch |-> nextBatch + Nth(final), id |-> final, of |-> {final}]
           \in BatchItems(nextBatch + Nth(final), Data(Nth(final)), Fec(Nth(final)))
    BY <2>2 DEF BatchItems
  <2>4. QED
    BY <2>1, <2>3
<1>19. f \in [rtx : BOOLEAN, seq : Nat, items : (SUBSET Item') \ {{}}]
  <2>1. f.items \in SUBSET Item'
    BY <1>17
  <2>2. QED BY <2>1, <1>18, <1>4
<1>20. \A x \in f.items : \A p \in x.of : p \in new /\ pkts'[p].batch = x.batch
  <2> SUFFICES ASSUME NEW q \in new,
                      NEW x \in BatchItems(nextBatch + Nth(q), Data(Nth(q)), Fec(Nth(q))),
                      NEW p \in x.of
               PROVE  p \in new /\ pkts'[p].batch = x.batch
    OBVIOUS
  <2>1. x.batch = nextBatch + Nth(q) /\ x.of \subseteq Data(Nth(q))
    BY DEF BatchItems
  <2>2. p \in new /\ Nth(p) = Nth(q)
    BY <2>1 DEF Data
  <2>3. pkts'[p] = Rec(p) /\ Rec(p).batch = nextBatch + Nth(p)
    BY <2>2, <1>15
  <2>4. QED
    BY <2>1, <2>2, <2>3
<1> HIDE DEF f, groups
<1>21. NewPkts = new /\ DOMAIN pkts \subseteq DOMAIN pkts'
  BY <1>1, <1>12, <1>13 DEF NewPkts, new
<1>22. \A p \in DOMAIN pkts : \A q \in new : p < q
  BY <1>1, <1>5, <1>6, SMTT(30)
<1>23. \E g \in [rtx : BOOLEAN, seq : Nat, items : (SUBSET Item') \ {{}}] :
          /\ queue' = queue \cup {g}
          /\ \A x \in g.items : \A p \in x.of :
                p \in NewPkts /\ pkts'[p].batch = x.batch
  BY <1>3, <1>19, <1>20, <1>21
<1>27. \A p \in DOMAIN pkts : pkts'[p] = pkts[p]
  BY <1>1, <1>14
<1>28. \E m \in Nat : pkts' \in [1 .. m -> PktRecord]
  BY <1>5, <1>13
<1>29. /\ hist' = hist \cup NewPkts /\ keys' = keys \cup NewPkts
       /\ \A p \in DOMAIN pkts : \A q \in NewPkts : p < q
  BY <1>3, <1>21, <1>22
<1>30. \A p \in NewPkts :
          /\ pkts'[p].encode = now /\ pkts'[p].enq = now
          /\ pkts'[p].tx = 0
          /\ pkts'[p].group >= nextGroup /\ pkts'[p].group < nextGroup'
          /\ pkts'[p].group - nextGroup = pkts'[p].batch - nextBatch
  BY <1>16, <1>21
<1>31. QED
  BY <1>21, <1>23, <1>25, <1>27, <1>28, <1>29, <1>30

\* Phase 1 of CheckRetransmission, which looks at the front of the deque only,
\* finds every outdated packet, because the deque is in time order.
LEMMA OutdatedIsExact ==
    ASSUME TypeInv, HistoryKeyed, OrderInv, SenderAssumption
    PROVE  hist \ Outdated = {p \in hist : ~MissesDdl(p)}
<1>1. hist \subseteq DOMAIN pkts /\ keys \subseteq DOMAIN pkts
  BY DEF TypeInv
<1>2. PICK n \in Nat : pkts \in [1 .. n -> PktRecord]
  BY DEF TypeInv
<1>3. \A p \in DOMAIN pkts : p \in Nat /\ pkts[p].encode \in Nat
  BY <1>2 DEF PktRecord
<1>4. now \in Nat /\ DelayDdl \in Nat
  BY DEF TypeInv, SenderAssumption
<1>5. ASSUME NEW p \in hist, p \in Outdated PROVE MissesDdl(p)
  <2>1. p \in DOMAIN pkts
    BY <1>1, <1>5
  <2>2. ~MissesDdl(p) => p < p
    BY <1>5, <2>1 DEF Outdated, Before, HistoryKeyed
  <2>3. QED BY <2>1, <2>2, <1>3
<1>6. ASSUME NEW p \in hist, MissesDdl(p) PROVE p \in Outdated
  <2>1. p \in keys
    BY <1>6 DEF HistoryKeyed
  <2>2. ASSUME NEW q \in keys \cap hist, ~MissesDdl(q) PROVE p < q
    <3>1. p \in DOMAIN pkts /\ q \in DOMAIN pkts
      BY <1>1, <1>6, <2>2
    <3>2. CASE q < p
      <4>1. pkts[q].encode <= pkts[p].encode
        BY <3>1, <3>2 DEF OrderInv
      <4>2. QED
        BY <4>1, <3>1, <1>3, <1>4, <1>6, <2>2 DEF MissesDdl
    <3>3. CASE q = p
      BY <3>3, <1>6, <2>2
    <3>4. QED
      BY <3>1, <3>2, <3>3, <1>3
  <2>3. \A q \in keys \cap hist :
           [r \in DOMAIN pkts |-> ~MissesDdl(r)][q] => p < q
    BY <2>2, <1>1
  <2>4. QED
    BY <2>1, <2>3 DEF Outdated, Before
<1>7. QED
  BY <1>5, <1>6

\* What CheckRetransmission does, group by group.
LEMMA CheckEffect ==
    ASSUME TypeInv, HistoryKeyed, OrderInv, StepInv, SenderAssumption,
           NEW rto \in [HistGroups -> Rtos], NEW fec \in [HistGroups -> FECNums],
           CheckRetransmission(rto, fec)
    PROVE  /\ hist' = {p \in hist : ~MissesDdl(p)}
           /\ hist' \subseteq keys' /\ keys' \subseteq keys
           /\ \E n \in Nat : pkts \in [1 .. n -> PktRecord] /\ pkts' \in [1 .. n -> PktRecord]
           /\ \A p \in DOMAIN pkts :
                 /\ pkts'[p].encode = pkts[p].encode
                 /\ pkts'[p].group = pkts[p].group
                 /\ \/ pkts'[p] = pkts[p]
                    \/ /\ p \in hist' /\ pkts[p].enq < now
                       /\ pkts'[p].tx = pkts[p].tx + 1
           /\ StepInv'
           /\ nextBatch' \in Nat /\ sends' \in Nat
           /\ sends' >= sends
           /\ queue' # queue => sends' > 0
           /\ \A f \in queue' \ queue :
                 /\ f \in [rtx : BOOLEAN, seq : Nat, items : (SUBSET Item) \ {{}}]
                 /\ \A x \in f.items : \A p \in x.of :
                       pkts'[p].enq = now /\ pkts'[p].batch = x.batch
<1> DEFINE store    == hist \ Outdated
           again    == SilentGroups(rto)
           Batch(g) == nextBatch + Cardinality({h \in again : h < g})
           Tx(g)    == pkts[CHOOSE p \in Stored(g, store) : TRUE].tx + 1
           New(p)   == LET g == pkts[p].group
                       IN  Retransmitted(pkts[p], Tx(g), Batch(g),
                                         Cardinality(Stored(g, store)))
           F(g)     == [rtx |-> TRUE, seq |-> Batch(g),
                        items |-> BatchItems(Batch(g), Stored(g, store), fec[g])]
<1>1. /\ hist' = store
      /\ keys' = {k \in keys \ Outdated : k \in Visited => k \in hist}
      /\ pkts' = [p \in DOMAIN pkts |->
                    IF pkts[p].group \in again /\ p \in Stored(pkts[p].group, store)
                    THEN New(p) ELSE pkts[p]]
      /\ queue' = queue \cup {F(g) : g \in again}
      /\ sends' = sends + Cardinality(again)
      /\ nextBatch' = nextBatch + Cardinality(again)
  BY DEF CheckRetransmission
<1>2. PICK n \in Nat : pkts \in [1 .. n -> PktRecord]
  BY DEF TypeInv
<1>3. /\ hist \subseteq DOMAIN pkts /\ DOMAIN pkts = 1 .. n
      /\ now \in Nat /\ nextBatch \in Nat /\ sends \in Nat
  BY <1>2 DEF TypeInv
<1>4. \A p \in DOMAIN pkts : pkts[p].group \in Nat /\ pkts[p].tx \in Nat /\ pkts[p].enq \in Nat
  BY <1>2 DEF PktRecord
<1>5. \A g \in again : \E q \in store : pkts[q].group = g /\ pkts[q].enq < now
  BY <1>3, <1>4 DEF SilentGroups, Visited, Before, IsRtxTimeout
<1>6. IsFiniteSet(store) /\ IsFiniteSet(again)
  <2>1. IsFiniteSet(1 .. n)
    <3>1. 1 \in Int /\ n \in Int
      OBVIOUS
    <3>2. QED BY ONLY <3>1, FS_Interval
  <2>2. IsFiniteSet(store)
    <3>1. store \in SUBSET (1 .. n)
      BY <1>3
    <3>2. QED BY ONLY <2>1, <3>1, FS_Subset
  <2> DEFINE grp == [p \in store |-> pkts[p].group]
  <2>6. DOMAIN grp = store
    OBVIOUS
  <2> HIDE DEF grp, store
  <2>3. IsFiniteSet({grp[p] : p \in store})
    BY ONLY <2>2, <2>6, ImageFinite
  <2> USE DEF grp
  <2>4. again \subseteq {grp[p] : p \in store}
    <3> SUFFICES ASSUME NEW g \in again PROVE \E q \in store : grp[q] = g
      OBVIOUS
    <3>1. PICK q \in store : pkts[q].group = g
      BY <1>5
    <3>2. QED BY <3>1
  <2>5. QED
    BY <2>2, <2>3, <2>4, FS_Subset
<1>7. Cardinality(again) \in Nat /\ (again # {} => Cardinality(again) > 0)
  BY <1>6, FS_CardinalityType, FS_EmptySet
<1>8. \A g : Batch(g) \in Nat
  <2> SUFFICES ASSUME NEW g PROVE Batch(g) \in Nat
    OBVIOUS
  <2>1. {h \in again : h < g} \in SUBSET again
    OBVIOUS
  <2>2. Cardinality({h \in again : h < g}) \in Nat
    BY <2>1, <1>6, FS_Subset, FS_CardinalityType
  <2>3. QED BY <2>2, <1>3
<1>9. \A g : Cardinality(Stored(g, store)) \in Nat
  <2> SUFFICES ASSUME NEW g PROVE Cardinality(Stored(g, store)) \in Nat
    OBVIOUS
  <2>1. Stored(g, store) \in SUBSET store
    BY DEF Stored
  <2>2. QED BY <2>1, <1>6, FS_Subset, FS_CardinalityType
<1>10. \A p \in store : Tx(pkts[p].group) = pkts[p].tx + 1
  <2> SUFFICES ASSUME NEW p \in store PROVE Tx(pkts[p].group) = pkts[p].tx + 1
    OBVIOUS
  <2>1. p \in Stored(pkts[p].group, store)
    BY DEF Stored
  <2> DEFINE q == CHOOSE r \in Stored(pkts[p].group, store) : TRUE
  <2>2. q \in Stored(pkts[p].group, store)
    BY <2>1
  <2>3. q \in hist /\ p \in hist /\ pkts[q].group = pkts[p].group
    BY <2>2 DEF Stored
  <2>4. pkts[q].tx = pkts[p].tx
    BY <2>3 DEF StepInv
  <2>5. QED BY <2>4
<1> HIDE DEF again, Batch, Tx
<1>11. ASSUME NEW p \in store
       PROVE  /\ New(p) \in PktRecord
              /\ New(p).encode = pkts[p].encode /\ New(p).group = pkts[p].group
              /\ New(p).tx = pkts[p].tx + 1 /\ New(p).enq = now
              /\ New(p).batch = Batch(pkts[p].group)
  <2>1. p \in DOMAIN pkts /\ pkts[p] \in PktRecord
    BY <1>2, <1>3, <1>11
  <2>2. Tx(pkts[p].group) \in Nat /\ Tx(pkts[p].group) = pkts[p].tx + 1
    BY <2>1, <1>4, <1>10, <1>11
  <2>3. QED
    BY <2>1, <2>2, <1>3, <1>8, <1>9 DEF Retransmitted, PktRecord
<1>12. \A p \in DOMAIN pkts :
          \/ p \in store /\ pkts[p].group \in again /\ pkts'[p] = New(p)
          \/ ~(p \in store /\ pkts[p].group \in again) /\ pkts'[p] = pkts[p]
  BY <1>1 DEF Stored
<1> HIDE DEF New
<1>13. pkts' \in [1 .. n -> PktRecord]
  <2>1. \A p \in 1 .. n : pkts'[p] \in PktRecord
    BY <1>2, <1>3, <1>11, <1>12
  <2>2. pkts' = [p \in 1 .. n |-> pkts'[p]]
    BY <1>1, <1>3
  <2>3. QED BY <2>1, <2>2
<1>14. \A p \in store : pkts[p].group \in again => pkts[p].enq < now
  <2> SUFFICES ASSUME NEW p \in store, pkts[p].group \in again
               PROVE  pkts[p].enq < now
    OBVIOUS
  <2>1. PICK q \in store : pkts[q].group = pkts[p].group /\ pkts[q].enq < now
    BY <1>5
  <2>2. QED BY <2>1 DEF StepInv
<1>15. \A p \in DOMAIN pkts :
          /\ pkts'[p].encode = pkts[p].encode
          /\ pkts'[p].group = pkts[p].group
          /\ \/ pkts'[p] = pkts[p]
             \/ /\ p \in hist' /\ pkts[p].enq < now
                /\ pkts'[p].tx = pkts[p].tx + 1
  BY <1>1, <1>11, <1>12, <1>14
<1>16. StepInv'
  <2> SUFFICES ASSUME NEW p \in store, NEW q \in store,
                      pkts'[p].group = pkts'[q].group
               PROVE  /\ pkts'[p].tx = pkts'[q].tx
                      /\ pkts'[p].batch = pkts'[q].batch
                      /\ pkts'[p].encode = pkts'[q].encode
                      /\ pkts'[p].enq = pkts'[q].enq
    BY <1>1 DEF StepInv
  <2>1. p \in DOMAIN pkts /\ q \in DOMAIN pkts /\ pkts[p].group = pkts[q].group
    BY <1>3, <1>15
  <2>2. /\ pkts[p].tx = pkts[q].tx /\ pkts[p].batch = pkts[q].batch
        /\ pkts[p].encode = pkts[q].encode /\ pkts[p].enq = pkts[q].enq
    BY <2>1 DEF StepInv
  <2>3. CASE pkts[p].group \in again
    BY <2>1, <2>2, <2>3, <1>11, <1>12
  <2>4. CASE pkts[p].group \notin again
    BY <2>1, <2>2, <2>4, <1>12
  <2>5. QED BY <2>3, <2>4
<1>17. ASSUME NEW g \in again
       PROVE  /\ F(g) \in [rtx : BOOLEAN, seq : Nat, items : (SUBSET Item) \ {{}}]
              /\ \A x \in F(g).items : \A p \in x.of :
                    pkts'[p].enq = now /\ pkts'[p].batch = x.batch
  <2>1. PICK q \in store : pkts[q].group = g
    BY <1>5, <1>17
  <2>2. fec[g] \in Nat
    BY <2>1 DEF HistGroups, SenderAssumption
  <2>3. Stored(g, store) \in SUBSET (DOMAIN pkts) /\ DOMAIN pkts \subseteq Nat
    BY <1>3 DEF Stored
  <2>4. BatchItems(Batch(g), Stored(g, store), fec[g]) \in SUBSET Item
    BY <2>2, <2>3, <1>8, BatchItemsType DEF Item
  <2>5. [kind |-> "DATA", batch |-> Batch(g), id |-> q, of |-> {q}]
           \in BatchItems(Batch(g), Stored(g, store), fec[g])
    BY <2>1 DEF BatchItems, Stored
  <2>6. F(g) \in [rtx : BOOLEAN, seq : Nat, items : (SUBSET Item) \ {{}}]
    BY <2>4, <2>5, <1>8
  <2>7. ASSUME NEW x \in BatchItems(Batch(g), Stored(g, store), fec[g]), NEW p \in x.of
        PROVE  pkts'[p].enq = now /\ pkts'[p].batch = x.batch
    <3>1. p \in Stored(g, store) /\ x.batch = Batch(g)
      <4> HIDE DEF store
      <4>1. CASE \E r \in Stored(g, store) :
                    x = [kind |-> "DATA", batch |-> Batch(g), id |-> r, of |-> {r}]
        BY <4>1, <2>7
      <4>2. CASE \E i \in 1 .. fec[g] :
                    x = [kind |-> "FEC", batch |-> Batch(g), id |-> i,
                         of |-> Stored(g, store)]
        BY <4>2, <2>7
      <4>3. QED
        BY <4>1, <4>2, <2>7 DEF BatchItems
    <3>2. p \in store /\ pkts[p].group = g /\ p \in DOMAIN pkts
      BY <3>1, <1>3 DEF Stored
    <3>3. pkts'[p] = New(p)
      BY <3>2, <1>12, <1>17
    <3>4. QED
      BY <3>1, <3>2, <3>3, <1>11
  <2>8. QED BY <2>6, <2>7
<1> HIDE DEF F
<1>18. ASSUME NEW f \in queue' \ queue
       PROVE  /\ f \in [rtx : BOOLEAN, seq : Nat, items : (SUBSET Item) \ {{}}]
              /\ \A x \in f.items : \A p \in x.of :
                    pkts'[p].enq = now /\ pkts'[p].batch = x.batch
              /\ again # {}
  <2>1. PICK g \in again : f = F(g)
    BY <1>1, <1>18
  <2>2. QED BY <2>1, <1>17
<1>19. store \subseteq keys' /\ keys' \subseteq keys
  BY <1>1 DEF HistoryKeyed
<1>20. hist' = {p \in hist : ~MissesDdl(p)}
  BY <1>1, OutdatedIsExact
<1>21. /\ nextBatch' \in Nat /\ sends' \in Nat /\ sends' >= sends
       /\ queue' # queue => sends' > 0
  <2> DEFINE k == Cardinality(again)
  <2>3. /\ sends' = sends + k /\ nextBatch' = nextBatch + k
        /\ sends \in Nat /\ nextBatch \in Nat /\ k \in Nat
        /\ again # {} => k > 0
    BY <1>1, <1>3, <1>7
  <2> HIDE DEF k
  <2>1. nextBatch' \in Nat /\ sends' \in Nat /\ sends' >= sends
    BY ONLY <2>3
  <2>2. ASSUME queue' # queue PROVE sends' > 0
    <3>1. again # {}
      BY <1>1, <1>18, <2>2
    <3>2. QED BY ONLY <3>1, <2>3
  <2>4. QED BY <2>1, <2>2
<1> HIDE DEF store
<1>22. hist' \subseteq keys' /\ keys' \subseteq keys
  BY <1>1, <1>19
<1>23. \E m \in Nat : pkts \in [1 .. m -> PktRecord] /\ pkts' \in [1 .. m -> PktRecord]
  BY <1>2, <1>13
<1>24. QED
  BY <1>15, <1>16, <1>18, <1>20, <1>21, <1>22, <1>23

\* What SendPacket does: one packet object gets its send time, and a frame of
\* the queue loses an item.
LEMMA SendEffect ==
    ASSUME TypeInv, NEW f \in queue, NEW x \in f.items, SendItem(x)
    PROVE  /\ \E n \in Nat : pkts \in [1 .. n -> PktRecord] /\ pkts' \in [1 .. n -> PktRecord]
           /\ \A p \in DOMAIN pkts :
                 /\ pkts'[p].encode = pkts[p].encode /\ pkts'[p].enq = pkts[p].enq
                 /\ pkts'[p].group = pkts[p].group /\ pkts'[p].tx = pkts[p].tx
                 /\ pkts'[p].batch = pkts[p].batch
           /\ \A g \in queue' :
                 /\ g \in [rtx : BOOLEAN, seq : Nat, items : (SUBSET Item) \ {{}}]
                 /\ \E h \in queue : g.items \subseteq h.items
           /\ queue' # {} => sends > 0
           /\ sends' = sends
<1>1. PICK h \in queue :
         /\ Front(h) /\ HeadOf(h, x)
         /\ sends > 0
         /\ queue' = (queue \ {h}) \cup
                        {[h EXCEPT !.items = rest] : rest \in {h.items \ {x}} \ {{}}}
  BY DEF SendItem
<1>2. pkts' = [p \in DOMAIN pkts |->
                 IF x.kind = "DATA" /\ p = x.id
                 THEN [pkts[p] EXCEPT !.sent = now] ELSE pkts[p]]
  BY DEF SendItem
<1>3. PICK n \in Nat : pkts \in [1 .. n -> PktRecord]
  BY DEF TypeInv
<1>4. now \in Nat
  BY DEF TypeInv
<1>5. \A p \in DOMAIN pkts :
         /\ pkts'[p] \in PktRecord
         /\ pkts'[p].encode = pkts[p].encode /\ pkts'[p].enq = pkts[p].enq
         /\ pkts'[p].group = pkts[p].group /\ pkts'[p].tx = pkts[p].tx
         /\ pkts'[p].batch = pkts[p].batch
  <2> SUFFICES ASSUME NEW p \in DOMAIN pkts
               PROVE  /\ pkts'[p] \in PktRecord
                      /\ pkts'[p].encode = pkts[p].encode /\ pkts'[p].enq = pkts[p].enq
                      /\ pkts'[p].group = pkts[p].group /\ pkts'[p].tx = pkts[p].tx
                      /\ pkts'[p].batch = pkts[p].batch
    OBVIOUS
  <2>1. pkts[p] \in PktRecord
    BY <1>3
  <2>2. pkts'[p] = pkts[p] \/ pkts'[p] = [pkts[p] EXCEPT !.sent = now]
    BY <1>2
  <2>3. QED BY <2>1, <2>2, <1>4 DEF PktRecord
<1>6. pkts' \in [1 .. n -> PktRecord]
  <2>1. DOMAIN pkts = 1 .. n /\ DOMAIN pkts' = DOMAIN pkts
    BY <1>2, <1>3
  <2>2. pkts' = [p \in DOMAIN pkts' |-> pkts'[p]]
    BY <1>2
  <2>3. QED BY <2>1, <2>2, <1>5
<1>7. ASSUME NEW g \in queue'
      PROVE  /\ g \in [rtx : BOOLEAN, seq : Nat, items : (SUBSET Item) \ {{}}]
             /\ \E k \in queue : g.items \subseteq k.items
  <2>1. h \in [rtx : BOOLEAN, seq : Nat, items : (SUBSET Item) \ {{}}]
    BY DEF TypeInv
  <2>2. CASE g \in queue
    BY <2>2 DEF TypeInv
  <2>3. CASE g \notin queue
    <3>1. PICK rest \in {h.items \ {x}} \ {{}} : g = [h EXCEPT !.items = rest]
      BY <1>1, <1>7, <2>3
    <3>2. rest \in (SUBSET Item) \ {{}} /\ rest \subseteq h.items
      BY <2>1
    <3>3. QED BY <2>1, <3>1, <3>2
  <2>4. QED BY <2>2, <2>3
<1>8. sends' = sends
  BY DEF SendItem
<1>9. \E m \in Nat : pkts \in [1 .. m -> PktRecord] /\ pkts' \in [1 .. m -> PktRecord]
  BY <1>3, <1>6
<1>10. QED
  BY <1>1, <1>5, <1>7, <1>8, <1>9

------------------------------------------------------------------------------
\* Each action preserves the inductive invariant.
LEMMA InitInv == ASSUME SenderAssumption, Init PROVE IInv
<1>1. /\ now \in Nat /\ nextCheck \in Nat /\ now <= nextCheck
  BY DEF Init, SenderAssumption
<1>2. pkts \in [1 .. 0 -> PktRecord] /\ DOMAIN pkts = {}
  BY DEF Init
<1>3. TypeInv
  BY <1>1, <1>2 DEF Init, TypeInv
<1>4. /\ HistoryKeyed /\ OrderInv /\ StepInv /\ QueueInv /\ FreshInv /\ StopInv
  BY <1>1, <1>2
  DEF Init, HistoryKeyed, OrderInv, StepInv, QueueInv, QueueUntouched, FreshInv, StopInv
<1>5. QED
  BY <1>3, <1>4 DEF IInv

LEMMA CreateFrameInv ==
    ASSUME IInv, SenderAssumption,
           NEW n \in FrameSizes, NEW gs \in GroupSizes,
           NEW ff \in FECNums, NEW fr \in FECNums, CreateFrame(n, gs, ff, fr)
    PROVE  IInv'
<1>1. TypeInv /\ HistoryKeyed /\ OrderInv /\ StepInv /\ QueueInv /\ FreshInv /\ StopInv
  BY DEF IInv
<1>3. /\ now' = now /\ sends' = sends + 1 /\ frames' = frames + 1
      /\ nextCheck' = nextCheck /\ stopAt' = stopAt /\ running' = running
      /\ running /\ stopAt = 0
  BY DEF CreateFrame
<1>4. /\ now \in Nat /\ sends \in Nat /\ frames \in Nat /\ nextCheck \in Nat
      /\ nextGroup \in Nat /\ nextBatch \in Nat /\ stopAt \in Nat
  BY <1>1 DEF TypeInv
<1>5. /\ \E final \in Nat : pkts' \in [1 .. final -> PktRecord]
      /\ nextGroup' \in Nat /\ nextGroup' >= nextGroup /\ nextBatch' \in Nat
  BY <1>1, CreateFrameEffect
<1>6. /\ DOMAIN pkts \subseteq DOMAIN pkts'
      /\ \A p \in DOMAIN pkts : pkts'[p] = pkts[p]
      /\ \A p \in DOMAIN pkts' : p \in DOMAIN pkts \/ p \in NewPkts
      /\ NewPkts \subseteq DOMAIN pkts'
  BY <1>1, CreateFrameEffect DEF NewPkts
<1>7. \A p \in DOMAIN pkts : \A q \in NewPkts : p < q
  BY <1>1, CreateFrameEffect
<1>8. \A p \in NewPkts :
         /\ pkts'[p].encode = now /\ pkts'[p].enq = now
         /\ pkts'[p].tx = 0
         /\ pkts'[p].group >= nextGroup /\ pkts'[p].group < nextGroup'
         /\ pkts'[p].group - nextGroup = pkts'[p].batch - nextBatch
  BY <1>1, CreateFrameEffect
<1>9. hist' = hist \cup NewPkts /\ keys' = keys \cup NewPkts
  BY <1>1, CreateFrameEffect
<1>10. PICK f \in [rtx : BOOLEAN, seq : Nat, items : (SUBSET Item') \ {{}}] :
          /\ queue' = queue \cup {f}
          /\ \A x \in f.items : \A p \in x.of :
                p \in NewPkts /\ pkts'[p].batch = x.batch
  BY <1>1, CreateFrameEffect
<1>11. \A p \in DOMAIN pkts' : pkts'[p] \in PktRecord /\ p \in Nat
  <2>1. PICK final \in Nat : pkts' \in [1 .. final -> PktRecord]
    BY <1>5
  <2>2. QED BY ONLY <2>1
<1>12. hist \subseteq DOMAIN pkts /\ keys \subseteq DOMAIN pkts
  BY <1>1 DEF TypeInv
<1>13. TypeInv'
  <2>1. hist' \subseteq DOMAIN pkts' /\ keys' \subseteq DOMAIN pkts'
    BY <1>6, <1>9, <1>12
  <2>2. Item \subseteq Item'
    BY <1>6 DEF Item
  <2>3. queue' \subseteq [rtx : BOOLEAN, seq : Nat, items : (SUBSET Item') \ {{}}]
    BY <1>1, <1>10, <2>2 DEF TypeInv
  <2>4. /\ now' \in Nat /\ sends' \in Nat /\ nextCheck' \in Nat /\ frames' \in Nat
        /\ stopAt' \in Nat /\ running' \in BOOLEAN
    BY ONLY <1>3, <1>4
  <2>5. QED
    BY <1>5, <2>1, <2>3, <2>4 DEF TypeInv
<1>14. HistoryKeyed'
  BY <1>1, <1>9 DEF HistoryKeyed
<1>15. \A p \in DOMAIN pkts :
          /\ pkts[p].encode \in Nat /\ pkts[p].encode <= now
          /\ pkts[p].group \in Nat /\ pkts[p].group < nextGroup
  BY <1>1, <1>6, <1>11 DEF OrderInv, PktRecord
<1>16. OrderInv'
  <2>1. \A p \in DOMAIN pkts' : pkts'[p].encode <= now' /\ pkts'[p].group < nextGroup'
    <3> SUFFICES ASSUME NEW p \in DOMAIN pkts'
                 PROVE  pkts'[p].encode <= now' /\ pkts'[p].group < nextGroup'
      OBVIOUS
    <3>1. CASE p \in DOMAIN pkts
      <4>1. pkts'[p] = pkts[p]
        BY <3>1, <1>6
      <4>2. /\ pkts[p].encode <= now
            /\ pkts[p].group \in Nat /\ pkts[p].group < nextGroup
        BY <3>1, <1>15
      <4>3. pkts[p].group < nextGroup'
        <5>1. nextGroup \in Nat /\ nextGroup' \in Nat /\ nextGroup' >= nextGroup
          BY <1>4, <1>5
        <5>2. QED BY <4>2, <5>1
      <4>4. QED BY <4>1, <4>2, <4>3, <1>3
    <3>2. CASE p \in NewPkts
      BY <3>2, <1>3, <1>4, <1>8
    <3>3. QED BY <3>1, <3>2, <1>6
  <2>2. \A p, q \in DOMAIN pkts' : p < q => pkts'[p].encode <= pkts'[q].encode
    <3> SUFFICES ASSUME NEW p \in DOMAIN pkts', NEW q \in DOMAIN pkts', p < q
                 PROVE  pkts'[p].encode <= pkts'[q].encode
      OBVIOUS
    <3>1. CASE q \in DOMAIN pkts
      <4>1. p \in DOMAIN pkts
        BY <3>1, <1>6, <1>7, <1>11
      <4>2. QED BY <3>1, <4>1, <1>1, <1>6 DEF OrderInv
    <3>2. CASE q \in NewPkts
      BY <3>2, <2>1, <1>3, <1>8
    <3>3. QED BY <3>1, <3>2, <1>6
  <2>3. QED BY <2>1, <2>2 DEF OrderInv
<1>17. StepInv'
  <2> SUFFICES ASSUME NEW p \in hist', NEW q \in hist', pkts'[p].group = pkts'[q].group
               PROVE  /\ pkts'[p].tx = pkts'[q].tx
                      /\ pkts'[p].batch = pkts'[q].batch
                      /\ pkts'[p].encode = pkts'[q].encode
                      /\ pkts'[p].enq = pkts'[q].enq
    BY DEF StepInv
  <2>1. /\ pkts'[p].group \in Nat /\ pkts'[q].group \in Nat
        /\ pkts'[p].batch \in Nat /\ pkts'[q].batch \in Nat
    BY <1>6, <1>9, <1>11, <1>12 DEF PktRecord
  <2>2. \A r \in hist' : \/ r \in hist /\ r \in DOMAIN pkts
                         \/ r \in NewPkts
    BY <1>9, <1>12
  <2>3. CASE p \in hist /\ q \in hist /\ p \in DOMAIN pkts /\ q \in DOMAIN pkts
    <3>1. pkts'[p] = pkts[p] /\ pkts'[q] = pkts[q]
      BY <2>3, <1>6
    <3>2. QED BY <2>3, <3>1, <1>1 DEF StepInv
  <2>4. CASE p \in NewPkts /\ q \in NewPkts
    BY <2>1, <2>4, <1>4, <1>8
  <2>5. CASE p \in NewPkts /\ q \in DOMAIN pkts
    BY <2>1, <2>5, <1>4, <1>6, <1>8, <1>15
  <2>6. CASE q \in NewPkts /\ p \in DOMAIN pkts
    BY <2>1, <2>6, <1>4, <1>6, <1>8, <1>15
  <2>7. QED BY <2>2, <2>3, <2>4, <2>5, <2>6
<1>18. QueueInv'
  <2>1. ASSUME NEW g \in queue', NEW x \in g.items, NEW p \in x.of
        PROVE  pkts'[p].enq = now' /\ pkts'[p].batch = x.batch
    <3>1. CASE g \in queue
      <4>1. p \in DOMAIN pkts
        BY <2>1, <3>1, <1>1 DEF TypeInv, Item
      <4>2. pkts[p].enq = now /\ pkts[p].batch = x.batch
        BY <2>1, <3>1, <1>1 DEF QueueInv, QueueUntouched
      <4>3. QED
        BY <4>1, <4>2, <1>3, <1>6
    <3>2. CASE g = f
      BY <2>1, <3>2, <1>3, <1>8, <1>10
    <3>3. QED BY <2>1, <3>1, <3>2, <1>10
  <2>2. sends' > 0
    BY <1>3, <1>4
  <2>3. QED BY <2>1, <2>2 DEF QueueInv, QueueUntouched
<1>19. FreshInv'
  <2> SUFFICES ASSUME NEW p \in hist'
               PROVE  nextCheck - CheckInterval - pkts'[p].encode <= DelayDdl
    BY <1>1, <1>3 DEF FreshInv
  <2>1. CASE p \in hist
    BY <2>1, <1>1, <1>3, <1>6, <1>12 DEF FreshInv
  <2>2. CASE p \in NewPkts
    <3>1. nextCheck - CheckInterval <= now /\ pkts'[p].encode = now
      BY <2>2, <1>1, <1>3, <1>8 DEF FreshInv
    <3>2. QED BY <3>1, <1>4 DEF SenderAssumption
  <2>3. QED BY <2>1, <2>2, <1>9
<1>20. StopInv'
  BY <1>3, <1>4 DEF StopInv
<1>21. QED
  BY <1>13, <1>14, <1>16, <1>17, <1>18, <1>19, <1>20 DEF IInv

\* SendPacket changes neither the store nor what the invariants say of a packet.
LEMMA SendPacketInv ==
    ASSUME IInv, NEW f \in queue, NEW x \in f.items, SendItem(x)
    PROVE  IInv'
<1>1. TypeInv /\ HistoryKeyed /\ OrderInv /\ StepInv /\ QueueInv /\ FreshInv /\ StopInv
  BY DEF IInv
<1>2. /\ now' = now /\ hist' = hist /\ keys' = keys /\ nextCheck' = nextCheck
      /\ nextGroup' = nextGroup /\ nextBatch' = nextBatch /\ frames' = frames
      /\ stopAt' = stopAt /\ running' = running
  BY DEF SendItem
<1>3. PICK n \in Nat : pkts \in [1 .. n -> PktRecord] /\ pkts' \in [1 .. n -> PktRecord]
  BY <1>1, SendEffect
<1>4. DOMAIN pkts' = DOMAIN pkts
  BY <1>3
<1>5. \A p \in DOMAIN pkts :
         /\ pkts'[p].encode = pkts[p].encode /\ pkts'[p].enq = pkts[p].enq
         /\ pkts'[p].group = pkts[p].group /\ pkts'[p].tx = pkts[p].tx
         /\ pkts'[p].batch = pkts[p].batch
  BY <1>1, SendEffect
<1>6. /\ \A g \in queue' :
            /\ g \in [rtx : BOOLEAN, seq : Nat, items : (SUBSET Item) \ {{}}]
            /\ \E h \in queue : g.items \subseteq h.items
      /\ queue' # {} => sends > 0
      /\ sends' = sends
  BY <1>1, SendEffect
<1>7. hist \subseteq DOMAIN pkts
  BY <1>1 DEF TypeInv
<1>8. TypeInv'
  <2>1. Item' = Item
    BY <1>4 DEF Item
  <2>2. queue' \subseteq [rtx : BOOLEAN, seq : Nat, items : (SUBSET Item') \ {{}}]
    BY <1>6, <2>1
  <2>3. hist' \subseteq DOMAIN pkts' /\ keys' \subseteq DOMAIN pkts'
    BY <1>1, <1>2, <1>4 DEF TypeInv
  <2>4. QED
    BY <1>1, <1>2, <1>3, <1>6, <2>2, <2>3 DEF TypeInv
<1>9. HistoryKeyed'
  BY <1>1, <1>2 DEF HistoryKeyed
<1>10. OrderInv'
  BY <1>1, <1>2, <1>4, <1>5 DEF OrderInv
<1>11. StepInv'
  BY <1>1, <1>2, <1>5, <1>7 DEF StepInv
<1>12. QueueInv'
  <2>1. ASSUME NEW g \in queue', NEW y \in g.items, NEW p \in y.of
        PROVE  pkts'[p].enq = now' /\ pkts'[p].batch = y.batch
    <3>1. PICK h \in queue : y \in h.items
      BY <1>6, <2>1
    <3>2. p \in DOMAIN pkts
      BY <2>1, <3>1, <1>1 DEF TypeInv, Item
    <3>3. pkts[p].enq = now /\ pkts[p].batch = y.batch
      BY <2>1, <3>1, <1>1 DEF QueueInv, QueueUntouched
    <3>4. QED BY <3>2, <3>3, <1>2, <1>5
  <2>2. QED BY <2>1, <1>6 DEF QueueInv, QueueUntouched
<1>13. FreshInv'
  BY <1>1, <1>2, <1>5, <1>7 DEF FreshInv
<1>14. StopInv'
  BY <1>1, <1>2, <1>5, <1>7 DEF StopInv
<1>15. QED
  BY <1>8, <1>9, <1>10, <1>11, <1>12, <1>13, <1>14 DEF IInv

LEMMA CheckInv ==
    ASSUME IInv, SenderAssumption,
           NEW rto \in [HistGroups -> Rtos], NEW fec \in [HistGroups -> FECNums],
           CheckRetransmission(rto, fec)
    PROVE  IInv'
<1>1. TypeInv /\ HistoryKeyed /\ OrderInv /\ StepInv /\ QueueInv /\ FreshInv /\ StopInv
  BY DEF IInv
<1>2. /\ now' = now /\ nextGroup' = nextGroup /\ frames' = frames
      /\ stopAt' = stopAt /\ running' = running
      /\ running /\ now = nextCheck /\ nextCheck' = now + CheckInterval
  BY DEF CheckRetransmission
<1>3. /\ now \in Nat /\ nextCheck \in Nat /\ CheckInterval \in Nat \ {0}
      /\ DelayDdl \in Nat
  BY <1>1 DEF TypeInv, SenderAssumption
<1>4. PICK n \in Nat : pkts \in [1 .. n -> PktRecord] /\ pkts' \in [1 .. n -> PktRecord]
  BY <1>1, CheckEffect
<1>5. hist' = {p \in hist : ~MissesDdl(p)} /\ hist' \subseteq keys' /\ keys' \subseteq keys
  BY <1>1, CheckEffect
<1>6. \A p \in DOMAIN pkts :
         /\ pkts'[p].encode = pkts[p].encode
         /\ pkts'[p].group = pkts[p].group
         /\ pkts'[p] = pkts[p] \/ pkts[p].enq < now
  BY <1>1, CheckEffect
<1>7. StepInv' /\ nextBatch' \in Nat /\ sends' \in Nat /\ sends' >= sends
  BY <1>1, CheckEffect
<1>8. /\ queue' # queue => sends' > 0
      /\ \A f \in queue' \ queue :
            /\ f \in [rtx : BOOLEAN, seq : Nat, items : (SUBSET Item) \ {{}}]
            /\ \A x \in f.items : \A p \in x.of :
                  pkts'[p].enq = now /\ pkts'[p].batch = x.batch
  BY <1>1, CheckEffect
<1>9. DOMAIN pkts' = DOMAIN pkts /\ hist \subseteq DOMAIN pkts
  BY <1>1, <1>4 DEF TypeInv
<1>10. TypeInv'
  <2>1. Item' = Item
    BY <1>9 DEF Item
  <2>2. queue' \subseteq [rtx : BOOLEAN, seq : Nat, items : (SUBSET Item') \ {{}}]
    BY <1>1, <1>8, <2>1 DEF TypeInv
  <2>3. hist' \subseteq DOMAIN pkts' /\ keys' \subseteq DOMAIN pkts'
    BY <1>1, <1>5, <1>9 DEF TypeInv
  <2>4. nextCheck' \in Nat
    BY <1>2, <1>3
  <2>5. QED
    BY <1>1, <1>2, <1>4, <1>7, <2>2, <2>3, <2>4 DEF TypeInv
<1>11. HistoryKeyed'
  BY <1>5 DEF HistoryKeyed
<1>12. OrderInv'
  BY <1>1, <1>2, <1>6, <1>9 DEF OrderInv
<1>13. QueueInv'
  <2>1. ASSUME NEW g \in queue', NEW x \in g.items, NEW p \in x.of
        PROVE  pkts'[p].enq = now' /\ pkts'[p].batch = x.batch
    <3>1. CASE g \in queue
      <4>1. p \in DOMAIN pkts /\ pkts[p].enq \in Nat
        BY <2>1, <3>1, <1>1, <1>4 DEF TypeInv, Item, PktRecord
      <4>2. pkts[p].enq = now /\ pkts[p].batch = x.batch
        BY <2>1, <3>1, <1>1 DEF QueueInv, QueueUntouched
      <4>3. pkts'[p] = pkts[p]
        BY <4>1, <4>2, <1>3, <1>6
      <4>4. QED BY <4>2, <4>3, <1>2
    <3>2. CASE g \notin queue
      BY <2>1, <3>2, <1>2, <1>8
    <3>3. QED BY <3>1, <3>2
  <2>2. queue' # {} => sends' > 0
    BY <1>1, <1>7, <1>8 DEF QueueInv, TypeInv
  <2>3. QED BY <2>1, <2>2 DEF QueueInv, QueueUntouched
<1>14. FreshInv'
  <2>1. ASSUME NEW p \in hist'
        PROVE  nextCheck' - CheckInterval - pkts'[p].encode <= DelayDdl
    <3>1. p \in DOMAIN pkts /\ ~MissesDdl(p) /\ pkts[p].encode \in Nat
      BY <2>1, <1>4, <1>5, <1>9 DEF PktRecord
    <3>2. now - pkts[p].encode <= DelayDdl /\ pkts'[p].encode = pkts[p].encode
      BY <3>1, <1>3, <1>6 DEF MissesDdl
    <3>3. nextCheck' - CheckInterval = now
      BY <1>2, <1>3
    <3>4. QED BY <3>2, <3>3
  <2>2. nextCheck' - CheckInterval <= now' /\ now' <= nextCheck'
    BY <1>2, <1>3
  <2>3. QED BY <2>1, <2>2 DEF FreshInv
<1>15. StopInv'
  BY <1>1, <1>2, <1>5, <1>6, <1>9 DEF StopInv
<1>16. QED
  BY <1>7, <1>10, <1>11, <1>12, <1>13, <1>14, <1>15 DEF IInv

\* The actions that leave the packets and the queue alone.
LEMMA OtherInv ==
    ASSUME IInv, SenderAssumption,
           \/ SendNothing \/ StopEncoding \/ StopRunning \/ Tick
           \/ \E acked \in SUBSET Unacknowledged : RcvACKPacket(acked)
           \/ UNCHANGED senderVars
    PROVE  IInv'
<1>1. TypeInv /\ HistoryKeyed /\ OrderInv /\ StepInv /\ QueueInv /\ FreshInv /\ StopInv
  BY DEF IInv
<1>2. /\ now \in Nat /\ nextCheck \in Nat /\ stopAt \in Nat /\ sends \in Nat
      /\ hist \subseteq DOMAIN pkts
      /\ \A p \in DOMAIN pkts : pkts[p].encode \in Nat
      /\ running \in BOOLEAN
      /\ CheckInterval \in Nat \ {0} /\ StopGap \in Nat /\ DelayDdl \in Nat
  BY <1>1 DEF TypeInv, SenderAssumption, PktRecord
<1>3. CASE SendNothing
  <2> USE <1>3 DEF SendNothing
  <2>1. TypeInv'
    BY <1>1, <1>2 DEF TypeInv, Item
  <2>2. QueueInv'
    BY <1>1 DEF QueueInv, QueueUntouched
  <2>3. HistoryKeyed' /\ OrderInv' /\ StepInv' /\ FreshInv' /\ StopInv'
    BY <1>1 DEF HistoryKeyed, OrderInv, StepInv, FreshInv, StopInv
  <2>4. QED BY <2>1, <2>2, <2>3 DEF IInv
<1>4. CASE StopEncoding
  <2> USE <1>4 DEF StopEncoding
  <2>1. TypeInv'
    BY <1>1, <1>2 DEF TypeInv, Item
  <2>2. StopInv'
    BY DEF StopInv
  <2>3. HistoryKeyed' /\ OrderInv' /\ StepInv' /\ FreshInv' /\ QueueInv'
    BY <1>1 DEF HistoryKeyed, OrderInv, StepInv, FreshInv, QueueInv, QueueUntouched
  <2>4. QED BY <2>1, <2>2, <2>3 DEF IInv
<1>5. CASE StopRunning
  <2> USE <1>5 DEF StopRunning
  <2>1. TypeInv'
    BY <1>1, <1>2 DEF TypeInv, Item
  <2>2. StopInv'
    <3>1. ASSUME NEW p \in hist PROVE pkts[p].encode + DelayDdl + CheckInterval >= stopAt
      <4>1. /\ nextCheck - CheckInterval - pkts[p].encode <= DelayDdl
            /\ now <= nextCheck
        BY <3>1, <1>1 DEF FreshInv
      <4>2. now = stopAt /\ pkts[p].encode \in Nat
        BY <3>1, <1>2
      <4>3. QED BY <4>1, <4>2, <1>2
    <3>2. QED BY <3>1 DEF StopInv
  <2>3. HistoryKeyed' /\ OrderInv' /\ StepInv' /\ FreshInv' /\ QueueInv'
    BY <1>1
    DEF HistoryKeyed, OrderInv, StepInv, FreshInv, QueueInv, QueueUntouched
  <2>4. QED BY <2>1, <2>2, <2>3 DEF IInv
<1>6. CASE Tick
  <2> USE <1>6 DEF Tick
  <2>1. TypeInv'
    BY <1>1, <1>2 DEF TypeInv, Item
  <2>2. queue = {}
    BY <1>1 DEF QueueInv
  <2>3. QueueInv'
    BY <2>2 DEF QueueInv, QueueUntouched
  <2>4. FreshInv'
    BY <1>1, <1>2 DEF FreshInv
  <2>5. OrderInv'
    BY <1>1, <1>2 DEF OrderInv
  <2>6. HistoryKeyed' /\ StepInv' /\ StopInv'
    BY <1>1 DEF HistoryKeyed, StepInv, StopInv
  <2>7. QED BY <2>1, <2>3, <2>4, <2>5, <2>6 DEF IInv
<1>7. CASE \E acked \in SUBSET Unacknowledged : RcvACKPacket(acked)
  <2>1. PICK acked \in SUBSET Unacknowledged : RcvACKPacket(acked)
    BY <1>7
  <2> USE <2>1 DEF RcvACKPacket
  <2>2. TypeInv'
    BY <1>1, <1>2 DEF TypeInv, Item
  <2>3. HistoryKeyed' /\ OrderInv' /\ StepInv' /\ FreshInv' /\ QueueInv' /\ StopInv'
    BY <1>1
    DEF HistoryKeyed, OrderInv, StepInv, FreshInv, QueueInv, QueueUntouched, StopInv
  <2>4. QED BY <2>2, <2>3 DEF IInv
<1>8. CASE UNCHANGED senderVars
  <2> USE <1>8 DEF senderVars
  <2>1. TypeInv'
    BY <1>1 DEF TypeInv, Item
  <2>2. HistoryKeyed' /\ OrderInv' /\ StepInv' /\ FreshInv' /\ QueueInv' /\ StopInv'
    BY <1>1
    DEF HistoryKeyed, OrderInv, StepInv, FreshInv, QueueInv, QueueUntouched, StopInv
  <2>3. QED BY <2>1, <2>2 DEF IInv
<1>9. QED
  BY <1>3, <1>4, <1>5, <1>6, <1>7, <1>8

\* The inductive invariant holds in every state of every run.
THEOREM Inductive == Spec => []IInv
<1>1. Init => IInv
  BY SenderAssumption, InitInv
<1>2. IInv /\ [Next]_senderVars => IInv'
  <2> SUFFICES ASSUME IInv, [Next]_senderVars PROVE IInv'
    OBVIOUS
  <2>1. CASE \E n \in FrameSizes, gs \in GroupSizes, ff, fr \in FECNums :
                CreateFrame(n, gs, ff, fr)
    BY <2>1, SenderAssumption, CreateFrameInv
  <2>2. CASE SendPacket
    BY <2>2, SendPacketInv DEF SendPacket
  <2>3. CASE Check
    BY <2>3, SenderAssumption, CheckInv DEF Check
  <2>4. CASE \/ SendNothing \/ StopEncoding \/ StopRunning \/ Tick
             \/ \E acked \in SUBSET Unacknowledged : RcvACKPacket(acked)
             \/ UNCHANGED senderVars
    BY <2>4, SenderAssumption, OtherInv
  <2>5. QED
    BY <2>1, <2>2, <2>3, <2>4 DEF Next
<1>3. QED
  BY <1>1, <1>2, PTL DEF Spec

------------------------------------------------------------------------------
\* Every variable has its type in every state; the number of pending SendPacket
\* events never goes negative.
THEOREM TypeCorrect == Spec => []TypeOK
<1>1. IInv => TypeOK
  <2> SUFFICES ASSUME IInv PROVE TypeOK
    OBVIOUS
  <2>1. TypeInv
    BY DEF IInv
  <2>2. DOMAIN pkts = 1 .. Cardinality(DOMAIN pkts) /\ pkts \in [DOMAIN pkts -> PktRecord]
    BY <2>1, PktsDomain
  <2>3. \A f \in queue : /\ f \in [rtx : BOOLEAN, seq : Nat, items : SUBSET Item]
                         /\ f.items # {}
    BY <2>1 DEF TypeInv
  <2>4. QED
    BY <2>1, <2>2, <2>3 DEF TypeInv, TypeOK, PktRecord
<1>2. QED
  BY <1>1, Inductive, PTL

\* A stored packet always has its key in data_pkt_history_key: RcvACKPacket and
\* the two phases of CheckRetransmission never strand a packet that would then
\* neither expire nor be sent again.
THEOREM StoreKeyed == Spec => []HistoryKeyed
<1>1. IInv => HistoryKeyed
  BY DEF IInv
<1>2. QED
  BY <1>1, Inductive, PTL

\* The key deque is in time order, as the comment on data_pkt_history_key says
\* and phase 1 of CheckRetransmission relies on.
THEOREM TimeOrder == Spec => []KeysInTimeOrder
<1>1. IInv => KeysInTimeOrder
  BY DEF IInv, TypeInv, OrderInv, KeysInTimeOrder
<1>2. QED
  BY <1>1, Inductive, PTL

\* RetransmitGroup never changes a packet object that m_queue still holds.
THEOREM QueueSafe == Spec => []QueueUntouched
<1>1. IInv => QueueUntouched
  BY DEF IInv, QueueInv
<1>2. QED
  BY <1>1, Inductive, PTL

\* The stored packets of a group are retransmitted together, so RetransmitGroup
\* may take the TX count of any of them.
THEOREM GroupsInStep == Spec => []GroupInStep
<1>1. IInv => GroupInStep
  BY DEF IInv, StepInv, GroupInStep
<1>2. QED
  BY <1>1, Inductive, PTL

\* StopRunning leaves unaccounted for only packets that could still make their
\* deadline when CheckRetransmission last ran, whatever was lost and however
\* long the application runs on after StopEncoding.
THEOREM StopCutsLast == Spec => []StopLeavesLast
<1>1. IInv => StopLeavesLast
  <2>1. ASSUME IInv, ~running, NEW p \in hist PROVE CutOff(p)
    BY <2>1 DEF IInv, StopInv, CutOff
  <2>2. QED BY <2>1 DEF StopLeavesLast
<1>2. QED
  BY <1>1, Inductive, PTL

\* The parts of the store stay in step with each other, whatever is sent,
\* acknowledged, timed out or stopped.
THEOREM StoreStaysSound == Spec => []StoreSound
<1>1. HistoryKeyed /\ KeysInTimeOrder /\ GroupInStep /\ StopLeavesLast => StoreSound
  BY DEF StoreSound
<1>2. QED
  BY <1>1, StoreKeyed, TimeOrder, GroupsInStep, StopCutsLast, PTL

------------------------------------------------------------------------------
\* A step of the sender is a step of the abstract store, or changes nothing there.
LEMMA StepImplements ==
    ASSUME IInv, IInv', SenderAssumption, [Next]_senderVars
    PROVE  [Store!StoreNext]_(Store!storeVars)
<1> DEFINE born == [p \in DOMAIN pkts |-> pkts[p].encode]
           resent == [p \in DOMAIN pkts |-> pkts[p].tx]
<1>1. TypeInv /\ HistoryKeyed /\ OrderInv /\ StepInv /\ FreshInv /\ StopInv
  BY DEF IInv
<1>2. /\ now \in Nat /\ nextCheck \in Nat
      /\ hist \subseteq DOMAIN pkts
      /\ \A p \in DOMAIN pkts : pkts[p].encode \in Nat
      /\ CheckInterval \in Nat \ {0} /\ DelayDdl \in Nat
      /\ running \in BOOLEAN
  BY <1>1 DEF TypeInv, SenderAssumption, PktRecord
<1>3. ASSUME NEW n \in FrameSizes, NEW gs \in GroupSizes,
             NEW ff \in FECNums, NEW fr \in FECNums, CreateFrame(n, gs, ff, fr)
      PROVE  Store!Submit
  <2>1. /\ DOMAIN pkts \subseteq DOMAIN pkts'
        /\ \A p \in DOMAIN pkts : pkts'[p] = pkts[p]
        /\ \A p \in NewPkts : pkts'[p].encode = now /\ pkts'[p].tx = 0
        /\ hist' = hist \cup NewPkts
    BY <1>1, <1>3, CreateFrameEffect
  <2>2. running /\ running' = running /\ now' = now
    BY <1>3 DEF CreateFrame
  <2>3. /\ DOMAIN born = DOMAIN pkts /\ DOMAIN born' = DOMAIN pkts'
        /\ DOMAIN resent' = DOMAIN pkts'
    OBVIOUS
  <2>4. \A p \in DOMAIN pkts : born'[p] = born[p] /\ resent'[p] = resent[p]
    BY <2>1
  <2>5. \A p \in NewPkts : born'[p] = now /\ resent'[p] = 0
    BY <2>1 DEF NewPkts
  <2>6. QED
    BY <2>1, <2>2, <2>3, <2>4, <2>5 DEF Store!Submit, NewPkts
<1>4. ASSUME NEW rto \in [HistGroups -> Rtos], NEW fec \in [HistGroups -> FECNums],
             CheckRetransmission(rto, fec)
      PROVE  Store!Sweep
  <2>1. hist' = {p \in hist : ~MissesDdl(p)}
    BY <1>1, <1>4, CheckEffect
  <2>2. \E n \in Nat : pkts \in [1 .. n -> PktRecord] /\ pkts' \in [1 .. n -> PktRecord]
    BY <1>1, <1>4, CheckEffect
  <2>3. DOMAIN pkts' = DOMAIN pkts
    BY <2>2
  <2>4. \A p \in DOMAIN pkts :
           /\ pkts'[p].encode = pkts[p].encode
           /\ \/ pkts'[p] = pkts[p]
              \/ p \in hist' /\ pkts'[p].tx = pkts[p].tx + 1
    BY <1>1, <1>4, CheckEffect
  <2>5. running /\ running' = running /\ now' = now
    BY <1>4 DEF CheckRetransmission
  <2>6. born' = born
    BY <2>3, <2>4
  <2>7. hist' = {p \in hist : now - born[p] <= DelayDdl}
    BY <2>1, <1>2 DEF MissesDdl
  <2>8. DOMAIN resent' = DOMAIN resent
    BY <2>3
  <2>9. \A p \in DOMAIN resent :
           \/ resent'[p] = resent[p]
           \/ p \in hist' /\ resent'[p] = resent[p] + 1
    BY <2>3, <2>4
  <2>10. QED
    BY <2>5, <2>6, <2>7, <2>8, <2>9 DEF Store!Sweep, Store!Age
<1>5. ASSUME NEW acked \in SUBSET Unacknowledged, RcvACKPacket(acked)
      PROVE  Store!Acknowledge
  BY <1>5 DEF RcvACKPacket, Store!Acknowledge
<1>6. ASSUME Tick PROVE Store!Advance
  <2>1. ASSUME running, NEW p \in hist PROVE now - born[p] < DelayDdl + CheckInterval
    <3>1. now < nextCheck
      BY <1>6, <2>1 DEF Tick
    <3>2. nextCheck - CheckInterval - pkts[p].encode <= DelayDdl
      BY <1>1, <2>1, <3>1 DEF FreshInv
    <3>3. QED BY <1>2, <2>1, <3>1, <3>2
  <2>2. QED
    BY <1>6, <2>1 DEF Tick, Store!Advance, Store!Age
<1>7. ASSUME NEW f \in queue, NEW x \in f.items, SendItem(x)
      PROVE  UNCHANGED Store!storeVars
  <2>1. \E n \in Nat : pkts \in [1 .. n -> PktRecord] /\ pkts' \in [1 .. n -> PktRecord]
    BY <1>1, <1>7, SendEffect
  <2>2. \A p \in DOMAIN pkts : /\ pkts'[p].encode = pkts[p].encode
                               /\ pkts'[p].tx = pkts[p].tx
    BY <1>1, <1>7, SendEffect
  <2>3. DOMAIN pkts' = DOMAIN pkts
    BY <2>1
  <2>4. born' = born /\ resent' = resent
    BY <2>2, <2>3
  <2>5. now' = now /\ hist' = hist /\ running' = running
    BY <1>7 DEF SendItem
  <2>6. QED BY <2>4, <2>5 DEF Store!storeVars
<1>8. ASSUME SendNothing \/ StopEncoding \/ UNCHANGED senderVars
      PROVE  UNCHANGED Store!storeVars
  BY <1>8 DEF SendNothing, StopEncoding, senderVars, Store!storeVars
<1>9. ASSUME StopRunning PROVE Store!Close
  BY <1>9 DEF StopRunning, Store!Close
<1>10. QED
  BY <1>3, <1>4, <1>5, <1>6, <1>7, <1>8, <1>9
  DEF Next, Check, SendPacket, Store!StoreNext

\* The sender's groups, batches, deque and timers implement the promise of
\* DeadlineStore: CheckRetransmission expires exactly the outdated packets,
\* sends again only packets that can make their deadline, and none outstays it
\* by more than a check interval.
THEOREM Implementation == Spec => ImplementsStore
<1>1. Init => Store!StoreInit
  BY SenderAssumption DEF Init, SenderAssumption, Store!StoreInit
<1>2. IInv /\ IInv' /\ [Next]_senderVars => [Store!StoreNext]_(Store!storeVars)
  BY SenderAssumption, StepImplements
<1>3. QED
  BY <1>1, <1>2, Inductive, PTL DEF Spec, ImplementsStore, Store!StoreSpec


------------------------------------------------------------------------------
\* The path: sender, network and receiver.

\* An ACK names only packets the decoder has.
AckInv == \A a \in acks : a \subseteq delivered

\* A step of the path, seen from the sender.
LEMMA PathRefinesSender ==
    ASSUME IInv, [PathNext]_pathVars
    PROVE  \/ Next
           \/ \E acked : RcvACKPacket(acked)
           \/ UNCHANGED senderVars
<1>1. CASE PathSend
  BY <1>1 DEF PathSend, Next, SendPacket
<1>2. CASE \E m \in net : Receive(m)
  BY <1>2 DEF Receive
<1>3. CASE \E a \in acks : ReceiveAck(a)
  BY <1>3 DEF ReceiveAck
<1>4. CASE SenderAlone
  BY <1>4 DEF SenderAlone, Next
<1>5. CASE UNCHANGED pathVars
  BY <1>5 DEF pathVars
<1>6. QED
  BY <1>1, <1>2, <1>3, <1>4, <1>5 DEF PathNext

\* OtherInv for an ACK that may also name packets no longer stored.
LEMMA AckStepInv ==
    ASSUME IInv, NEW acked, RcvACKPacket(acked)
    PROVE  IInv'
<1>1. TypeInv /\ HistoryKeyed /\ OrderInv /\ StepInv /\ QueueInv /\ FreshInv /\ StopInv
  BY DEF IInv
<1> USE DEF RcvACKPacket
<1>2. TypeInv'
  BY <1>1 DEF TypeInv, Item
<1>3. HistoryKeyed' /\ OrderInv' /\ StepInv' /\ FreshInv' /\ QueueInv' /\ StopInv'
  BY <1>1
  DEF HistoryKeyed, OrderInv, StepInv, FreshInv, QueueInv, QueueUntouched, StopInv
<1>4. QED
  BY <1>2, <1>3 DEF IInv

LEMMA PathStepInv ==
    ASSUME SenderAssumption, IInv, [PathNext]_pathVars
    PROVE  IInv'
<1>1. CASE Next
  <2>1. CASE \E n \in FrameSizes, gs \in GroupSizes, ff, fr \in FECNums :
                CreateFrame(n, gs, ff, fr)
    BY <2>1, CreateFrameInv
  <2>2. CASE SendPacket
    BY <2>2, SendPacketInv DEF SendPacket
  <2>3. CASE Check
    BY <2>3, CheckInv DEF Check
  <2>4. CASE \/ SendNothing \/ StopEncoding \/ StopRunning \/ Tick
             \/ \E acked \in SUBSET Unacknowledged : RcvACKPacket(acked)
    BY <2>4, OtherInv
  <2>5. QED
    BY <1>1, <2>1, <2>2, <2>3, <2>4 DEF Next
<1>2. CASE \E acked : RcvACKPacket(acked)
  BY <1>2, AckStepInv
<1>3. CASE UNCHANGED senderVars
  BY <1>3, OtherInv
<1>4. QED
  BY <1>1, <1>2, <1>3, PathRefinesSender

\* The decoder only ever gets more, and what an ACK names it has.
LEMMA AckStep ==
    ASSUME AckInv, [PathNext]_pathVars
    PROVE  AckInv' /\ delivered \subseteq delivered'
<1>1. CASE \E m \in net : Receive(m)
  BY <1>1 DEF Receive, R!ReceiveUdpPacket, AckInv
<1>2. CASE \E a \in acks : ReceiveAck(a)
  BY <1>2 DEF ReceiveAck, receiverVars, AckInv
<1>3. CASE PathSend \/ SenderAlone \/ UNCHANGED pathVars
  BY <1>3 DEF PathSend, SenderAlone, pathVars, receiverVars, AckInv
<1>4. QED
  BY <1>1, <1>2, <1>3 DEF PathNext

\* A packet that has missed its deadline stays late.
LEMMA LateStaysLate ==
    ASSUME IInv, SenderAssumption, [PathNext]_pathVars, NEW p \in DOMAIN pkts
    PROVE  /\ p \in DOMAIN pkts'
           /\ MissesDdl(p) => MissesDdl(p)'
<1>1. TypeInv /\ HistoryKeyed /\ OrderInv /\ StepInv
  BY DEF IInv
<1>2. now \in Nat /\ DelayDdl \in Nat /\ pkts[p].encode \in Nat
  BY <1>1 DEF TypeInv, SenderAssumption, PktRecord
<1>3. \/ /\ now' = now /\ p \in DOMAIN pkts' /\ pkts'[p].encode = pkts[p].encode
      \/ now' = now + 1 /\ UNCHANGED pkts
  <2>1. CASE \E n \in FrameSizes, gs \in GroupSizes, ff, fr \in FECNums :
                CreateFrame(n, gs, ff, fr)
    <3>1. PICK n \in FrameSizes, gs \in GroupSizes, ff \in FECNums, fr \in FECNums :
             CreateFrame(n, gs, ff, fr)
      BY <2>1
    <3>2. DOMAIN pkts \subseteq DOMAIN pkts' /\ pkts'[p] = pkts[p]
      BY <1>1, <3>1, CreateFrameEffect
    <3>3. now' = now
      BY <3>1 DEF CreateFrame
    <3>4. QED BY <3>2, <3>3
  <2>2. CASE SendPacket
    <3>0. PICK f \in queue : \E x \in f.items : SendItem(x)
      BY <2>2 DEF SendPacket
    <3>1. PICK x \in f.items : SendItem(x)
      BY <3>0
    <3>2. \E n \in Nat : pkts \in [1 .. n -> PktRecord] /\ pkts' \in [1 .. n -> PktRecord]
      BY <1>1, <3>1, SendEffect
    <3>3. pkts'[p].encode = pkts[p].encode
      BY <1>1, <3>1, SendEffect
    <3>4. now' = now
      BY <3>1 DEF SendItem
    <3>5. QED BY <3>2, <3>3, <3>4
  <2>3. CASE Check
    <3>1. PICK rto \in [HistGroups -> Rtos], fec \in [HistGroups -> FECNums] :
             CheckRetransmission(rto, fec)
      BY <2>3 DEF Check
    <3>2. \E n \in Nat : pkts \in [1 .. n -> PktRecord] /\ pkts' \in [1 .. n -> PktRecord]
      BY <1>1, <3>1, CheckEffect
    <3>3. pkts'[p].encode = pkts[p].encode
      BY <1>1, <3>1, CheckEffect
    <3>4. now' = now
      BY <3>1 DEF CheckRetransmission
    <3>5. QED BY <3>2, <3>3, <3>4
  <2>4. CASE SendNothing \/ StopEncoding \/ StopRunning \/ Tick
    BY <2>4 DEF SendNothing, StopEncoding, StopRunning, Tick
  <2>5. CASE \E acked : RcvACKPacket(acked)
    BY <2>5 DEF RcvACKPacket
  <2>6. CASE UNCHANGED senderVars
    BY <2>6 DEF senderVars
  <2>7. QED
    BY <2>1, <2>2, <2>3, <2>4, <2>5, <2>6, PathRefinesSender DEF Next
<1>4. CASE now' = now /\ p \in DOMAIN pkts' /\ pkts'[p].encode = pkts[p].encode
  BY <1>4 DEF MissesDdl
<1>5. CASE now' = now + 1 /\ UNCHANGED pkts
  BY <1>2, <1>5 DEF MissesDdl
<1>6. QED
  BY <1>3, <1>4, <1>5

\* Only an ACK and the expiry of CheckRetransmission take a packet out of the store.
LEMMA StoreStep ==
    ASSUME IInv, SenderAssumption, AckInv, [PathNext]_pathVars,
           NEW p \in DOMAIN pkts'
    PROVE  \/ p \in hist'
           \/ p \in DOMAIN pkts \ hist
           \/ p \in delivered'
           \/ p \in DOMAIN pkts /\ MissesDdl(p)
<1>1. TypeInv /\ HistoryKeyed /\ OrderInv /\ StepInv
  BY DEF IInv
<1>2. CASE PathSend
  <2>1. PICK f \in queue : \E x \in f.items : SendItem(x)
    BY <1>2 DEF PathSend
  <2>2. DOMAIN pkts' = DOMAIN pkts /\ hist' = hist
    BY <2>1 DEF SendItem
  <2>3. QED BY <2>2
<1>3. CASE \E m \in net : Receive(m)
  BY <1>3 DEF Receive, senderVars
<1>4. CASE \E a \in acks : ReceiveAck(a)
  BY <1>4 DEF ReceiveAck, RcvACKPacket, AckInv, receiverVars
<1>5. CASE \E n \in FrameSizes, gs \in GroupSizes, ff, fr \in FECNums :
              CreateFrame(n, gs, ff, fr)
  <2>1. hist' = hist \cup NewPkts
    BY <1>1, <1>5, CreateFrameEffect
  <2>2. QED BY <2>1 DEF NewPkts
<1>6. CASE Check
  <2>1. PICK rto \in [HistGroups -> Rtos], fec \in [HistGroups -> FECNums] :
           CheckRetransmission(rto, fec)
    BY <1>6 DEF Check
  <2>2. hist' = {q \in hist : ~MissesDdl(q)}
    BY <1>1, <2>1, CheckEffect
  <2>3. \E n \in Nat : pkts \in [1 .. n -> PktRecord] /\ pkts' \in [1 .. n -> PktRecord]
    BY <1>1, <2>1, CheckEffect
  <2>4. QED BY <2>2, <2>3
<1>7. CASE SendNothing \/ StopEncoding \/ StopRunning \/ Tick \/ UNCHANGED pathVars
  BY <1>7 DEF SendNothing, StopEncoding, StopRunning, Tick, pathVars, senderVars
<1>8. QED
  BY <1>2, <1>3, <1>4, <1>5, <1>6, <1>7 DEF PathNext, SenderAlone

\* No packet that is still of use is forgotten: whatever the network loses,
\* delays or reorders, a packet outside the sender's store has reached the
\* decoder or is past its deadline.
THEOREM NothingForgotten == PathSpec => []NeverForgotten
<1>1. PathInit => IInv /\ AckInv /\ NeverForgotten
  <2> SUFFICES ASSUME PathInit PROVE IInv /\ AckInv /\ NeverForgotten
    OBVIOUS
  <2>1. IInv
    BY SenderAssumption, InitInv DEF PathInit
  <2>2. AckInv /\ NeverForgotten
    BY DEF PathInit, Init, AckInv, NeverForgotten
  <2>3. QED BY <2>1, <2>2
<1>2. IInv /\ AckInv /\ NeverForgotten /\ [PathNext]_pathVars
         => (IInv /\ AckInv /\ NeverForgotten)'
  <2> SUFFICES ASSUME IInv, AckInv, NeverForgotten, [PathNext]_pathVars
               PROVE  (IInv /\ AckInv /\ NeverForgotten)'
    OBVIOUS
  <2>1. IInv'
    BY SenderAssumption, PathStepInv
  <2>2. AckInv' /\ delivered \subseteq delivered'
    BY AckStep
  <2>3. ASSUME NEW p \in DOMAIN pkts'
        PROVE  p \in hist' \/ p \in delivered' \/ MissesDdl(p)'
    <3>1. CASE p \in hist' \/ p \in delivered'
      BY <3>1
    <3>2. CASE p \in DOMAIN pkts /\ MissesDdl(p)
      BY <3>2, SenderAssumption, LateStaysLate
    <3>3. CASE p \in DOMAIN pkts \ hist
      <4>1. p \in delivered \/ MissesDdl(p)
        BY <3>3 DEF NeverForgotten
      <4>2. QED
        BY <3>3, <4>1, <2>2, SenderAssumption, LateStaysLate
    <3>4. QED
      BY <2>3, <3>1, <3>2, <3>3, SenderAssumption, StoreStep
  <2>4. NeverForgotten'
    BY <2>3 DEF NeverForgotten
  <2>5. QED BY <2>1, <2>2, <2>4
<1>3. QED
  BY <1>1, <1>2, PTL DEF PathSpec

------------------------------------------------------------------------------
\* A data packet as CreatePacketBatch lines it up.
DataItem(b, p) == [kind |-> "DATA", batch |-> b, id |-> p, of |-> {p}]

\* The packets that belong to batch b after a step.
Members(b) == {q \in DOMAIN pkts' : pkts'[q].batch = b}

\* The items of a queued frame f that was made in this step: data packets of
\* new batches, each with the FEC packets that cover all of the batch.
NewItem(f, x) ==
    /\ x.batch \in nextBatch .. nextBatch' - 1
    /\ Members(x.batch) # {}
    /\ x.kind = "DATA" => x.of = {x.id} /\ x.id \in Members(x.batch)
    /\ x.kind = "FEC" => x.of = Members(x.batch)
    /\ \A p \in Members(x.batch) : DataItem(x.batch, p) \in f.items

\* A packet keeps its batch or is put in a new one, with the right size.
NewPacket(p) ==
    \/ /\ p \in DOMAIN pkts
       /\ pkts'[p].batch = pkts[p].batch /\ pkts'[p].bnum = pkts[p].bnum
    \/ /\ pkts'[p].batch \in nextBatch .. nextBatch' - 1
       /\ pkts'[p].bnum = Cardinality(Members(pkts'[p].batch))
       /\ \A q \in Members(pkts'[p].batch) : pkts'[q].group = pkts'[p].group

\* A step of the sender that makes the batches nextBatch .. nextBatch' - 1.
BatchStep ==
    /\ nextBatch' \in Nat /\ nextBatch' >= nextBatch
    /\ nextGroup' \in Nat /\ nextGroup' >= nextGroup
    /\ DOMAIN pkts \subseteq DOMAIN pkts'
    /\ \A p \in DOMAIN pkts : /\ pkts'[p].group = pkts[p].group
                              /\ pkts'[p].sent = pkts[p].sent
    /\ \A p \in DOMAIN pkts' : /\ pkts'[p].group < nextGroup'
                               /\ p \notin DOMAIN pkts => pkts'[p].group >= nextGroup
    /\ \A p \in DOMAIN pkts' : NewPacket(p)
    /\ \A f \in queue' \ queue : \A x \in f.items : NewItem(f, x)

\* A batch item is one of two kinds.
LEMMA BatchItemsKinds ==
    ASSUME NEW b, NEW data, NEW fec, NEW x \in BatchItems(b, data, fec)
    PROVE  /\ x.batch = b
           /\ \/ x.kind = "DATA" /\ x.of = {x.id} /\ x.id \in data
              \/ x.kind = "FEC" /\ x.of = data
<1>1. CASE \E p \in data :
              x = [kind |-> "DATA", batch |-> b, id |-> p, of |-> {p}]
  BY <1>1
<1>2. CASE \E i \in 1 .. fec :
              x = [kind |-> "FEC", batch |-> b, id |-> i, of |-> data]
  BY <1>2
<1>3. QED BY <1>1, <1>2 DEF BatchItems

LEMMA CreateBatches ==
    ASSUME IInv, SenderAssumption, \A p \in DOMAIN pkts : pkts[p].batch < nextBatch,
           NEW n \in FrameSizes, NEW gs \in GroupSizes,
           NEW ff \in FECNums, NEW fr \in FECNums, CreateFrame(n, gs, ff, fr)
    PROVE  BatchStep
<1> DEFINE c == Cardinality(DOMAIN pkts)
           final == c + n
           new == (1 .. final) \ DOMAIN pkts
           Nth(p) == (p - c - 1) \div gs
           Data(k) == {p \in new : Nth(p) = k}
           Fec(k) == IF Cardinality(Data(k)) = gs THEN ff ELSE fr
           groups == {Nth(p) : p \in new}
           f == [rtx |-> FALSE, seq |-> nextBatch,
                 items |-> UNION {BatchItems(nextBatch + k, Data(k), Fec(k)) :
                                  k \in groups}]
<1>0. TypeInv /\ OrderInv  BY DEF IInv
<1>1. /\ DOMAIN pkts' = 1 .. final
      /\ \A p \in new : pkts'[p].bnum = Cardinality(Data(Nth(p)))
      /\ \A p \in new : pkts'[p].batch = nextBatch + Nth(p)
      /\ queue' = queue \cup {f}
      /\ nextGroup' = nextGroup + Cardinality(groups)
      /\ nextBatch' = nextBatch + Cardinality(groups)
  BY DEF CreateFrame
<1> HIDE DEF c, final, new, Nth, Data, Fec, groups, f
<1>2. /\ DOMAIN pkts \subseteq DOMAIN pkts'
      /\ \A p \in DOMAIN pkts : pkts'[p] = pkts[p]
      /\ \A p \in NewPkts :
            /\ pkts'[p].group >= nextGroup /\ pkts'[p].group < nextGroup'
            /\ pkts'[p].group - nextGroup = pkts'[p].batch - nextBatch
      /\ nextGroup' \in Nat /\ nextGroup' >= nextGroup /\ nextBatch' \in Nat
  BY <1>0, CreateFrameEffect
<1>3. new = NewPkts  BY <1>1 DEF new, NewPkts
<1>4. PICK l \in Nat : pkts' \in [1 .. l -> PktRecord]
  BY <1>0, CreateFrameEffect
<1>5. \A p \in DOMAIN pkts' : pkts'[p].group \in Nat /\ pkts'[p].batch \in Nat
  BY <1>4 DEF PktRecord
<1>6. nextBatch \in Nat /\ nextGroup \in Nat  BY <1>0 DEF TypeInv
<1>7. c \in Nat /\ n \in Nat \ {0} /\ gs \in Nat \ {0} /\ DOMAIN pkts = 1 .. c
  BY <1>0, PktsDomain DEF SenderAssumption, c
<1>8. new = c + 1 .. c + n
  <2>1. c \in Nat /\ final \in Nat /\ new = (1 .. final) \ (1 .. c)
    BY <1>7 DEF new, final
  <2>2. QED BY <2>1, UpperInterval DEF final
<1>9. Cardinality(groups) \in Nat /\ \A k \in groups : k < Cardinality(groups)
  <2>1. groups = {(p - c - 1) \div gs : p \in c + 1 .. c + n}
    BY <1>8 DEF groups, Nth
  <2>2. QED BY <2>1, <1>7, GroupsContiguous
<1>10. ASSUME NEW p \in new  PROVE Nth(p) \in Nat
  <2>1. p - c - 1 \in Nat
    <3>1. p \in c + 1 .. c + n /\ c \in Nat /\ c + n \in Nat  BY <1>7, <1>8
    <3> QED  BY ONLY <3>1, IndexInRange
  <2>2. gs \in Nat \ {0}  BY <1>7
  <2> QED  BY ONLY <2>1, <2>2 DEF Nth
<1>11. nextBatch' >= nextBatch /\ \A p \in new : pkts'[p].batch \in nextBatch .. nextBatch' - 1
  <2> DEFINE k == Cardinality(groups)
  <2>1. k \in Nat /\ nextBatch' = nextBatch + k  BY <1>1, <1>9
  <2>2. ASSUME NEW p \in new  PROVE pkts'[p].batch \in nextBatch .. nextBatch' - 1
    <3> DEFINE j == Nth(p)
    <3>1. j < k  BY <1>9 DEF groups
    <3>2. pkts'[p].batch = nextBatch + j  BY <1>1
    <3>3. j \in Nat  BY <1>10
    <3> HIDE DEF j, k
    <3> QED  BY <2>1, <3>1, <3>2, <3>3, <1>6
  <2> HIDE DEF k
  <2> QED  BY <2>1, <2>2, <1>6
\* The packets of the k-th new batch are those cut into the k-th group.
<1>12. ASSUME NEW k \in groups
       PROVE  Members(nextBatch + k) = Data(k)
  <2>1. k \in Nat
    <3>1. PICK p \in new : k = Nth(p)  BY DEF groups
    <3> QED  BY <3>1, <1>10
  <2>2. ASSUME NEW q \in DOMAIN pkts', pkts'[q].batch = nextBatch + k  PROVE q \in Data(k)
    <3>1. q \notin DOMAIN pkts
      <4> SUFFICES ASSUME q \in DOMAIN pkts  PROVE FALSE  OBVIOUS
      <4>1. pkts'[q].batch < nextBatch  BY <1>2
      <4> QED  BY <4>1, <2>1, <2>2, <1>6
    <3>2. q \in new  BY <3>1, <1>1 DEF new
    <3>3. nextBatch + Nth(q) = nextBatch + k  BY <3>2, <2>2, <1>1
    <3>4. Nth(q) \in Nat  BY <3>2, <1>10
    <3>5. Nth(q) = k
      <4> DEFINE j == Nth(q)
      <4>1. j \in Nat /\ nextBatch + j = nextBatch + k  BY <3>3, <3>4
      <4> HIDE DEF j
      <4>2. j = k  BY <4>1, <2>1, <1>6
      <4> QED  BY <4>2 DEF j
    <3> QED  BY <3>2, <3>5 DEF Data
  <2>3. ASSUME NEW q \in Data(k)  PROVE q \in DOMAIN pkts' /\ pkts'[q].batch = nextBatch + k
    <3>1. q \in new /\ Nth(q) = k  BY <2>3 DEF Data
    <3> QED  BY <3>1, <1>1 DEF new
  <2> QED  BY <2>2, <2>3 DEF Members
<1>13. ASSUME NEW p \in new
       PROVE  Nth(p) \in groups /\ Members(pkts'[p].batch) = Data(Nth(p))
  <2>1. Nth(p) \in groups  BY DEF groups
  <2> QED  BY <2>1, <1>1, <1>12
<1>14. ASSUME NEW p \in new
       PROVE  NewPacket(p)
  <2>1. pkts'[p].bnum = Cardinality(Members(pkts'[p].batch))  BY <1>1, <1>13
  <2>2. ASSUME NEW q \in Members(pkts'[p].batch)  PROVE pkts'[q].group = pkts'[p].group
    <3>1. q \in Data(Nth(p))  BY <2>2, <1>13
    <3>2. q \in new  BY <3>1 DEF Data
    <3>3. pkts'[q].batch = pkts'[p].batch  BY <2>2 DEF Members
    <3>4. /\ pkts'[p].group - nextGroup = pkts'[p].batch - nextBatch
          /\ pkts'[q].group - nextGroup = pkts'[q].batch - nextBatch
          /\ pkts'[p].group \in Nat /\ pkts'[q].group \in Nat
      <4>1. p \in DOMAIN pkts' /\ q \in DOMAIN pkts'  BY <3>2, <1>1 DEF new
      <4> QED  BY <4>1, <3>2, <1>2, <1>3, <1>5
    <3> QED  BY <3>3, <3>4, <1>6
  <2> QED  BY <2>1, <2>2, <1>11 DEF NewPacket
<1>15. ASSUME NEW x \in f.items  PROVE NewItem(f, x)
  <2>1. PICK k \in groups : x \in BatchItems(nextBatch + k, Data(k), Fec(k))
    BY <1>15 DEF f
  <2>2. /\ x.batch = nextBatch + k
        /\ \/ x.kind = "DATA" /\ x.of = {x.id} /\ x.id \in Data(k)
           \/ x.kind = "FEC" /\ x.of = Data(k)
    BY <2>1, BatchItemsKinds
  <2>3. Members(x.batch) = Data(k)  BY <2>2, <1>12
  <2>4. PICK p \in new : k = Nth(p)  BY DEF groups
  <2>5. Data(k) # {}  BY <2>4 DEF Data
  <2>6. x.batch \in nextBatch .. nextBatch' - 1
    <3>1. x.batch = pkts'[p].batch  BY <2>2, <2>4, <1>1
    <3> QED  BY <3>1, <1>11
  <2>7. ASSUME NEW q \in Data(k)  PROVE DataItem(x.batch, q) \in f.items
    <3>1. DataItem(nextBatch + k, q) \in BatchItems(nextBatch + k, Data(k), Fec(k))
      BY DEF BatchItems, DataItem
    <3> QED  BY <3>1, <2>2 DEF f
  <2> QED  BY <2>2, <2>3, <2>5, <2>6, <2>7 DEF NewItem
<1>16. \A g \in queue' \ queue : \A x \in g.items : NewItem(g, x)
  BY <1>1, <1>15
<1>17. ASSUME NEW p \in DOMAIN pkts'  PROVE NewPacket(p)
  <2>1. CASE p \in DOMAIN pkts  BY <2>1, <1>2 DEF NewPacket
  <2>2. CASE p \notin DOMAIN pkts
    <3>1. p \in new  BY <2>2, <1>1 DEF new
    <3> QED  BY <3>1, <1>14
  <2> QED  BY <2>1, <2>2
<1>18. ASSUME NEW p \in DOMAIN pkts'
       PROVE  pkts'[p].group < nextGroup' /\ (p \notin DOMAIN pkts => pkts'[p].group >= nextGroup)
  <2>1. CASE p \in DOMAIN pkts
    <3>1. pkts'[p].group < nextGroup  BY <2>1, <1>0, <1>2 DEF OrderInv
    <3> QED  BY <3>1, <2>1, <1>2, <1>5, <1>6
  <2>2. CASE p \notin DOMAIN pkts
    <3>1. p \in NewPkts  BY <2>2 DEF NewPkts
    <3> QED  BY <3>1, <1>2
  <2> QED  BY <2>1, <2>2
<1> QED  BY <1>2, <1>11, <1>16, <1>17, <1>18 DEF BatchStep
\* A larger finite set has more elements.
LEMMA MoreElements ==
    ASSUME NEW S, IsFiniteSet(S), NEW T \in SUBSET S, T # S
    PROVE  /\ Cardinality(T) \in Nat /\ Cardinality(S) \in Nat
           /\ Cardinality(T) < Cardinality(S)
<1>1. /\ IsFiniteSet(T) /\ Cardinality(T) <= Cardinality(S)
      /\ Cardinality(S) = Cardinality(T) => S = T
  BY FS_Subset
<1>2. Cardinality(T) \in Nat /\ Cardinality(S) \in Nat  BY <1>1, FS_CardinalityType
<1>3. Cardinality(S) # Cardinality(T)  BY <1>1
<1> DEFINE a == Cardinality(S)
           b == Cardinality(T)
<1>4. a \in Nat /\ b \in Nat /\ b <= a /\ a # b  BY <1>1, <1>2, <1>3
<1> HIDE DEF a, b
<1>5. b < a  BY <1>4
<1> QED  BY <1>2, <1>5 DEF a, b

\* The number of smaller elements tells the elements of a set apart.
LEMMA RankDistinct ==
    ASSUME NEW S \in SUBSET Nat, IsFiniteSet(S), NEW g \in S
    PROVE  LET Rank(x) == Cardinality({y \in S : y < x})
           IN  /\ Rank(g) \in Nat /\ Rank(g) < Cardinality(S)
               /\ \A h \in S : Rank(h) = Rank(g) => h = g
<1> DEFINE Below(x) == {y \in S : y < x}
<1>1. ASSUME NEW x \in S
      PROVE  Cardinality(Below(x)) \in Nat /\ Cardinality(Below(x)) < Cardinality(S)
  <2>1. Below(x) \in SUBSET S /\ x \notin Below(x)  OBVIOUS
  <2>2. Below(x) # S  BY <2>1
  <2> HIDE DEF Below
  <2> QED  BY <2>1, <2>2, MoreElements
<1>2. ASSUME NEW x \in S, NEW y \in S, x < y
      PROVE  Cardinality(Below(x)) < Cardinality(Below(y))
  <2>1. Below(x) \in SUBSET Below(y) /\ x \in Below(y) /\ x \notin Below(x)
    <3>1. x \in Nat /\ y \in Nat /\ x < y /\ ~(x < x)  BY <1>2
    <3>2. \A z \in S : z < x => z < y
      <4> SUFFICES ASSUME NEW z \in S, z < x  PROVE z < y  OBVIOUS
      <4>1. z \in Nat  OBVIOUS
      <4> QED  BY <3>1, <4>1
    <3> QED  BY <3>1, <3>2
  <2>2. Below(y) \in SUBSET S  OBVIOUS
  <2>3. Below(x) # Below(y)  BY <2>1
  <2> HIDE DEF Below
  <2>4. IsFiniteSet(Below(y))  BY <2>2, FS_Subset
  <2> QED  BY <2>1, <2>3, <2>4, MoreElements
<1>3. ASSUME NEW h \in S, Cardinality(Below(h)) = Cardinality(Below(g))  PROVE h = g
  <2> DEFINE a == Cardinality(Below(h))
             b == Cardinality(Below(g))
  <2>1. a \in Nat /\ b \in Nat /\ a = b  BY <1>1, <1>3
  <2>2. h < g => a < b  BY <1>2
  <2>3. g < h => b < a  BY <1>2
  <2> HIDE DEF a, b
  <2>4. h \in Nat /\ g \in Nat /\ ~(h < g) /\ ~(g < h)  BY <2>1, <2>2, <2>3
  <2> QED  BY <2>4
<1> QED  BY <1>1, <1>3

\* The groups sent again are finitely many, and each has a stored packet.
LEMMA SilentAreStored ==
    ASSUME TypeInv, NEW rto \in [HistGroups -> Rtos]
    PROVE  /\ SilentGroups(rto) \in SUBSET Nat /\ IsFiniteSet(SilentGroups(rto))
           /\ \A g \in SilentGroups(rto) : Stored(g, hist \ Outdated) # {}
           /\ IsFiniteSet(hist)
<1> DEFINE again == SilentGroups(rto)
           grp == [p \in hist |-> pkts[p].group]
<1>1. PICK n \in Nat : pkts \in [1 .. n -> PktRecord]  BY DEF TypeInv
<1>2. hist \subseteq 1 .. n  BY <1>1 DEF TypeInv
<1>3. \A g \in again : \E p \in hist \ Outdated : pkts[p].group = g
  BY DEF SilentGroups, Visited, Before
<1>4. \A p \in hist : pkts[p].group \in Nat  BY <1>1, <1>2 DEF PktRecord
<1>5. IsFiniteSet(hist)
  <2>1. IsFiniteSet(1 .. n)  BY FS_Interval
  <2> QED  BY <2>1, <1>2, FS_Subset
<1>6. IsFiniteSet({grp[p] : p \in hist})
  <2>1. DOMAIN grp = hist  OBVIOUS
  <2> HIDE DEF grp
  <2> QED  BY <1>5, <2>1, ImageFinite
<1>7. again \in SUBSET {grp[p] : p \in hist}
  <2> SUFFICES ASSUME NEW g \in again  PROVE \E p \in hist : grp[p] = g  OBVIOUS
  <2>1. PICK p \in hist : pkts[p].group = g  BY <1>3
  <2> QED  BY <2>1
<1>8. IsFiniteSet(again)  BY <1>6, <1>7, FS_Subset
<1>9. again \in SUBSET Nat  BY <1>3, <1>4
<1> QED  BY <1>3, <1>5, <1>8, <1>9 DEF Stored

LEMMA CheckBatches ==
    ASSUME IInv, SenderAssumption, \A p \in DOMAIN pkts : pkts[p].batch < nextBatch,
           NEW rto \in [HistGroups -> Rtos], NEW fec \in [HistGroups -> FECNums],
           CheckRetransmission(rto, fec)
    PROVE  BatchStep
<1> DEFINE store    == hist \ Outdated
           again    == SilentGroups(rto)
           Batch(g) == nextBatch + Cardinality({h \in again : h < g})
           F(g)     == [rtx |-> TRUE, seq |-> Batch(g),
                        items |-> BatchItems(Batch(g), Stored(g, store), fec[g])]
           Moved(p) == p \in store /\ pkts[p].group \in again
<1>0. TypeInv /\ HistoryKeyed /\ OrderInv /\ StepInv  BY DEF IInv
<1>1. /\ DOMAIN pkts' = DOMAIN pkts
      /\ \A p \in DOMAIN pkts :
            IF Moved(p)
            THEN /\ pkts'[p].batch = Batch(pkts[p].group)
                 /\ pkts'[p].bnum = Cardinality(Stored(pkts[p].group, store))
                 /\ pkts'[p].sent = pkts[p].sent
            ELSE pkts'[p] = pkts[p]
      /\ queue' = queue \cup {F(g) : g \in again}
      /\ nextBatch' = nextBatch + Cardinality(again)
      /\ nextGroup' = nextGroup
  <2>1. /\ pkts' = [p \in DOMAIN pkts |->
                      IF pkts[p].group \in again /\ p \in Stored(pkts[p].group, store)
                      THEN Retransmitted(pkts[p],
                             pkts[CHOOSE q \in Stored(pkts[p].group, store) : TRUE].tx + 1,
                             Batch(pkts[p].group), Cardinality(Stored(pkts[p].group, store)))
                      ELSE pkts[p]]
        /\ queue' = queue \cup {F(g) : g \in again}
        /\ nextBatch' = nextBatch + Cardinality(again)
        /\ nextGroup' = nextGroup
    BY DEF CheckRetransmission
  <2>2. \A p \in DOMAIN pkts : pkts[p] \in PktRecord  BY <1>0 DEF TypeInv
  <2> HIDE DEF store, again, Batch, F
  <2>3. ASSUME NEW p \in DOMAIN pkts
        PROVE  IF Moved(p)
               THEN /\ pkts'[p].batch = Batch(pkts[p].group)
                    /\ pkts'[p].bnum = Cardinality(Stored(pkts[p].group, store))
                    /\ pkts'[p].sent = pkts[p].sent
               ELSE pkts'[p] = pkts[p]
    <3>1. CASE Moved(p)
      <4>1. p \in Stored(pkts[p].group, store)  BY <3>1 DEF Stored
      <4>2. pkts'[p] = Retransmitted(pkts[p],
                         pkts[CHOOSE q \in Stored(pkts[p].group, store) : TRUE].tx + 1,
                         Batch(pkts[p].group), Cardinality(Stored(pkts[p].group, store)))
        BY <2>1, <3>1, <4>1
      <4> QED  BY <2>2, <3>1, <4>2 DEF Retransmitted, PktRecord
    <3>2. CASE ~Moved(p)
      <4>1. ~(pkts[p].group \in again /\ p \in Stored(pkts[p].group, store))
        BY <3>2 DEF Stored
      <4> QED  BY <2>1, <3>2, <4>1
    <3> QED  BY <3>1, <3>2
  <2> QED  BY <2>1, <2>3
<1>2. /\ again \in SUBSET Nat /\ IsFiniteSet(again)
      /\ \A g \in again : Stored(g, store) # {}
  BY <1>0, SilentAreStored
<1>3. \A p \in DOMAIN pkts : pkts'[p].group = pkts[p].group
  BY <1>0, CheckEffect
<1>4. /\ nextBatch \in Nat /\ nextGroup \in Nat /\ hist \subseteq DOMAIN pkts
      /\ \A p \in DOMAIN pkts : pkts[p].group < nextGroup
  BY <1>0 DEF TypeInv, OrderInv
<1>5. Cardinality(again) \in Nat  BY <1>2, FS_CardinalityType
<1> HIDE DEF store, again
<1>6. ASSUME NEW g \in again
      PROVE  /\ Batch(g) \in nextBatch .. nextBatch' - 1
             /\ \A h \in again : Batch(h) = Batch(g) => h = g
  <2> DEFINE Rank(x) == Cardinality({y \in again : y < x})
  <2>1. /\ \A x \in again : Rank(x) \in Nat
        /\ Rank(g) < Cardinality(again)
        /\ \A h \in again : Rank(h) = Rank(g) => h = g
    BY <1>2, RankDistinct
  <2>2. \A x : Batch(x) = nextBatch + Rank(x)  OBVIOUS
  <2>3. nextBatch' = nextBatch + Cardinality(again)  BY <1>1
  <2> HIDE DEF Rank, Batch
  <2>4. Batch(g) \in nextBatch .. nextBatch' - 1
    <3> DEFINE r == Rank(g)
               k == Cardinality(again)
    <3>1. r \in Nat /\ k \in Nat /\ r < k /\ Batch(g) = nextBatch + r /\ nextBatch' = nextBatch + k
      BY <2>1, <2>2, <2>3, <1>5
    <3> HIDE DEF r, k
    <3> QED  BY <3>1, <1>4
  <2>5. ASSUME NEW h \in again, Batch(h) = Batch(g)  PROVE h = g
    <3> DEFINE r == Rank(g)
               s == Rank(h)
    <3>1. r \in Nat /\ s \in Nat /\ nextBatch + s = nextBatch + r
      BY <2>1, <2>2, <2>5
    <3>2. s = r => h = g  BY <2>1
    <3> HIDE DEF r, s
    <3>3. s = r  BY <3>1, <1>4
    <3> QED  BY <3>2, <3>3
  <2> QED  BY <2>4, <2>5
\* The packets of the new batch of g are the stored packets of g.
<1>7. ASSUME NEW g \in again  PROVE Members(Batch(g)) = Stored(g, store)
  <2>1. Batch(g) >= nextBatch /\ Batch(g) \in Int  BY <1>6, <1>4
  <2>2. ASSUME NEW q \in DOMAIN pkts, pkts'[q].batch = Batch(g)  PROVE q \in Stored(g, store)
    <3>1. CASE Moved(q)
      <4>1. pkts'[q].batch = Batch(pkts[q].group)  BY <1>1, <3>1
      <4>2. Batch(pkts[q].group) = Batch(g)  BY <4>1, <2>2
      <4> HIDE DEF Batch
      <4>3. pkts[q].group = g  BY <4>2, <3>1, <1>6
      <4> QED  BY <4>3, <3>1 DEF Stored
    <3>2. CASE ~Moved(q)
      <4>1. pkts'[q].batch < nextBatch  BY <1>1, <3>2
      <4> HIDE DEF Batch
      <4> QED  BY <4>1, <2>1, <2>2, <1>4
    <3> QED  BY <3>1, <3>2
  <2>3. ASSUME NEW q \in Stored(g, store)
        PROVE  q \in DOMAIN pkts /\ pkts'[q].batch = Batch(g)
    <3>1. q \in store /\ pkts[q].group = g  BY <2>3 DEF Stored
    <3>2. q \in DOMAIN pkts  BY <3>1, <1>4 DEF store
    <3>3. Moved(q)  BY <3>1
    <3> QED  BY <3>1, <3>2, <3>3, <1>1
  <2> HIDE DEF Batch
  <2> QED  BY <2>2, <2>3, <1>1 DEF Members
<1> HIDE DEF Batch
<1>8. ASSUME NEW p \in DOMAIN pkts'  PROVE NewPacket(p)
  <2>0. p \in DOMAIN pkts  BY <1>1
  <2>1. CASE Moved(p)
    <3> DEFINE g == pkts[p].group
    <3>1. g \in again /\ pkts'[p].batch = Batch(g) /\ pkts'[p].bnum = Cardinality(Stored(g, store))
      BY <2>0, <2>1, <1>1
    <3>2. Members(pkts'[p].batch) = Stored(g, store)  BY <3>1, <1>7
    <3>3. \A q \in Stored(g, store) : pkts'[q].group = pkts'[p].group
      <4> SUFFICES ASSUME NEW q \in Stored(g, store)  PROVE pkts'[q].group = pkts'[p].group
        OBVIOUS
      <4>1. q \in DOMAIN pkts /\ pkts[q].group = g  BY <1>4 DEF Stored, store
      <4> QED  BY <4>1, <2>0, <1>3
    <3>4. pkts'[p].batch \in nextBatch .. nextBatch' - 1  BY <3>1, <1>6
    <3> QED  BY <3>1, <3>2, <3>3, <3>4 DEF NewPacket
  <2>2. CASE ~Moved(p)
    <3>1. pkts'[p] = pkts[p]  BY <2>0, <2>2, <1>1
    <3> QED  BY <2>0, <3>1 DEF NewPacket
  <2> QED  BY <2>1, <2>2
<1>9. ASSUME NEW g \in again, NEW x \in F(g).items  PROVE NewItem(F(g), x)
  <2>1. x \in BatchItems(Batch(g), Stored(g, store), fec[g])  BY <1>9
  <2>2. /\ x.batch = Batch(g)
        /\ \/ x.kind = "DATA" /\ x.of = {x.id} /\ x.id \in Stored(g, store)
           \/ x.kind = "FEC" /\ x.of = Stored(g, store)
    BY <2>1, BatchItemsKinds
  <2>3. Members(x.batch) = Stored(g, store) /\ Stored(g, store) # {}
    BY <2>2, <1>2, <1>7
  <2>4. x.batch \in nextBatch .. nextBatch' - 1  BY <2>2, <1>6
  <2>5. ASSUME NEW q \in Stored(g, store)  PROVE DataItem(x.batch, q) \in F(g).items
    <3>1. DataItem(Batch(g), q) \in BatchItems(Batch(g), Stored(g, store), fec[g])
      BY DEF BatchItems, DataItem
    <3> QED  BY <3>1, <2>2
  <2> QED  BY <2>2, <2>3, <2>4, <2>5 DEF NewItem
<1> HIDE DEF F
<1>10. ASSUME NEW f \in queue' \ queue, NEW x \in f.items  PROVE NewItem(f, x)
  <2>1. PICK g \in again : f = F(g)  BY <1>1, <1>10
  <2> QED  BY <2>1, <1>9, <1>10
<1>11. ASSUME NEW p \in DOMAIN pkts
       PROVE  pkts'[p].group = pkts[p].group /\ pkts'[p].sent = pkts[p].sent
  BY <1>1, <1>3
<1>12. /\ nextBatch' \in Nat /\ nextBatch' >= nextBatch
       /\ nextGroup' \in Nat /\ nextGroup' >= nextGroup
  <2> DEFINE k == Cardinality(again)
  <2>1. k \in Nat /\ nextBatch' = nextBatch + k /\ nextGroup' = nextGroup  BY <1>1, <1>5
  <2> HIDE DEF k
  <2> QED  BY <2>1, <1>4
<1>13. \A p \in DOMAIN pkts' : /\ pkts'[p].group < nextGroup'
                               /\ p \notin DOMAIN pkts => pkts'[p].group >= nextGroup
  BY <1>1, <1>3, <1>4
<1> QED  BY <1>1, <1>8, <1>10, <1>11, <1>12, <1>13 DEF BatchStep
------------------------------------------------------------------------------
\* mem gives every batch the packets it was made of: one group's, never changed,
\* though the packets themselves move on to other batches.
MembersInv(mem) ==
    /\ mem \in [Nat -> SUBSET Nat]
    /\ \A b \in Nat : b < nextBatch =>
          /\ mem[b] \subseteq DOMAIN pkts
          /\ \A p, q \in mem[b] : pkts[p].group = pkts[q].group
    /\ \A p \in DOMAIN pkts :
          /\ pkts[p].batch < nextBatch /\ p \in mem[pkts[p].batch]
          /\ pkts[p].bnum = Cardinality(mem[pkts[p].batch])

\* What is queued is a data packet of its batch or a FEC packet that covers all
\* of it; the data packets of the batch go before the FEC packets.
ItemIn(f, x, mem) ==
    /\ x.batch < nextBatch /\ x.of # {} /\ x.of \subseteq mem[x.batch]
    /\ x.kind = "DATA" => x.of = {x.id}
    /\ x.kind = "FEC" =>
          /\ x.of = mem[x.batch]
          /\ \A p \in x.of : pkts[p].sent > 0 \/ DataItem(x.batch, p) \in f.items

ItemsInv(mem) == \A f \in queue : \A x \in f.items : ItemIn(f, x, mem)

\* What travels is what was queued, with the size of its batch and its group.
PacketIn(m, mem) ==
    /\ m.kind \in {"DATA", "FEC"} /\ m.id \in Nat /\ m.encode \in Nat
    /\ m.batch \in Nat /\ m.batch < nextBatch
    /\ m.of # {} /\ m.of \subseteq mem[m.batch]
    /\ m.kind = "DATA" => m.of = {m.id}
    /\ m.kind = "FEC" => m.of = mem[m.batch]
    /\ m.bnum = Cardinality(mem[m.batch])
    /\ m.group \in Nat /\ m.group < nextGroup
    /\ m.of \subseteq GroupData(m.group) /\ m.gnum = Cardinality(GroupData(m.group))
    /\ \A p \in m.of : pkts[p].sent > 0

NetInv(mem) == \A m \in net : PacketIn(m, mem)

\* A received batch whose packets are S.
HeldIn(batch, S) ==
    /\ batch = [data |-> batch.data, fec |-> batch.fec,
                cover |-> batch.cover, num |-> batch.num]
    /\ batch.data \subseteq S
    /\ batch.fec \subseteq Nat /\ IsFiniteSet(batch.fec)
    /\ batch.cover = IF batch.fec = {} THEN {} ELSE S
    /\ batch.num = Cardinality(S)

\* A received group.
GroupIn(g, group, mem) ==
    /\ group = [encode |-> group.encode, num |-> group.num, batches |-> group.batches,
                done |-> group.done, decoded |-> group.decoded]
    /\ g \in Nat /\ g < nextGroup /\ GroupData(g) # {}
    /\ group.encode \in Nat /\ group.num = Cardinality(GroupData(g))
    /\ group.decoded \subseteq GroupData(g)
    /\ group.done \subseteq 0 .. nextBatch - 1
    /\ group.batches = [b \in DOMAIN group.batches |-> group.batches[b]]
    /\ \A b \in DOMAIN group.batches :
          /\ b \in Nat /\ b < nextBatch
          /\ HeldIn(group.batches[b], mem[b])
          /\ mem[b] \subseteq GroupData(g)
          /\ \A p \in group.batches[b].cover : pkts[p].sent > 0

GroupsInv(mem) ==
    \A g \in DOMAIN incomplete : /\ GroupIn(g, incomplete[g], mem)
                                 /\ incomplete[g].decoded \subseteq delivered

\* What has been handed over and settled.
SettledInv ==
    /\ incomplete = [g \in DOMAIN incomplete |-> incomplete[g]]
    /\ delivered \subseteq DOMAIN pkts
    /\ \A p \in delivered : pkts[p].sent > 0
    /\ \A g \in complete \cup timedOut : g \in Nat /\ g < nextGroup
    /\ CompleteIsDelivered
    /\ AckInv
    /\ received \in Nat

PathInv(mem) ==
    /\ MembersInv(mem) /\ ItemsInv(mem) /\ NetInv(mem) /\ GroupsInv(mem) /\ SettledInv

\* A step after which nothing is less than it was: packets and groups are only
\* added, and old batches keep their members.
Grows(mem, mem2) ==
    /\ nextBatch \in Nat /\ nextBatch' \in Nat /\ nextBatch <= nextBatch'
    /\ nextGroup \in Nat /\ nextGroup' \in Nat /\ nextGroup <= nextGroup'
    /\ DOMAIN pkts \subseteq DOMAIN pkts'
    /\ \A p \in DOMAIN pkts : /\ pkts'[p].group = pkts[p].group
                              /\ pkts[p].sent > 0 => pkts'[p].sent > 0
    /\ \A p \in DOMAIN pkts' \ DOMAIN pkts : pkts'[p].group >= nextGroup /\ pkts'[p].group \in Nat
    /\ \A b \in Nat : b < nextBatch => mem2[b] = mem[b]

LEMMA GroupsKept ==
    ASSUME NEW mem, NEW mem2, Grows(mem, mem2), NEW g \in Nat, g < nextGroup
    PROVE  GroupData(g)' = GroupData(g)
<1>1. \A p \in DOMAIN pkts' \ DOMAIN pkts : pkts'[p].group # g
  BY DEF Grows
<1> QED  BY <1>1 DEF Grows, GroupData

LEMMA PacketKept ==
    ASSUME NEW mem, NEW mem2, Grows(mem, mem2), NEW m, PacketIn(m, mem)
    PROVE  PacketIn(m, mem2)'
<1>1. GroupData(m.group)' = GroupData(m.group) /\ mem2[m.batch] = mem[m.batch]
  BY GroupsKept DEF PacketIn, Grows
<1>2. m.batch < nextBatch' /\ m.group < nextGroup'
  BY DEF PacketIn, Grows
<1>3. \A p \in m.of : pkts'[p].sent > 0
  BY DEF PacketIn, Grows, GroupData
<1> QED  BY <1>1, <1>2, <1>3 DEF PacketIn

LEMMA GroupKept ==
    ASSUME NEW mem, NEW mem2, Grows(mem, mem2), NEW g, NEW group, GroupIn(g, group, mem)
    PROVE  GroupIn(g, group, mem2)'
<1>1. g \in Nat /\ g < nextGroup /\ GroupData(g)' = GroupData(g)
  BY GroupsKept DEF GroupIn
<1>2. g < nextGroup'  BY <1>1 DEF Grows
<1>3. 0 .. nextBatch - 1 \subseteq 0 .. nextBatch' - 1  BY DEF Grows
<1>4. ASSUME NEW b \in DOMAIN group.batches
      PROVE  /\ b \in Nat /\ b < nextBatch'
             /\ HeldIn(group.batches[b], mem2[b])
             /\ mem2[b] \subseteq GroupData(g)
             /\ \A p \in group.batches[b].cover : pkts'[p].sent > 0
  <2>1. /\ b \in Nat /\ b < nextBatch /\ HeldIn(group.batches[b], mem[b])
        /\ mem[b] \subseteq GroupData(g)
        /\ \A p \in group.batches[b].cover : pkts[p].sent > 0
    BY DEF GroupIn
  <2>2. mem2[b] = mem[b] /\ b < nextBatch'  BY <2>1 DEF Grows
  <2>3. group.batches[b].cover \subseteq DOMAIN pkts
    <3>1. group.batches[b].cover \subseteq mem[b]  BY <2>1 DEF HeldIn
    <3> QED  BY <3>1, <2>1 DEF GroupData
  <2>4. \A p \in group.batches[b].cover : pkts'[p].sent > 0
    BY <2>1, <2>3 DEF Grows
  <2> QED  BY <2>1, <2>2, <2>4
<1> QED  BY <1>1, <1>2, <1>3, <1>4 DEF GroupIn

LEMMA ReceiverKept ==
    ASSUME NEW mem, NEW mem2, Grows(mem, mem2), UNCHANGED receiverVars, acks' \subseteq acks,
           GroupsInv(mem), SettledInv
    PROVE  GroupsInv(mem2)' /\ SettledInv'
<1>1. /\ incomplete' = incomplete /\ complete' = complete /\ timedOut' = timedOut
      /\ delivered' = delivered /\ received' = received
  BY DEF receiverVars
<1>2. GroupsInv(mem2)'
  <2> SUFFICES ASSUME NEW g \in DOMAIN incomplete
               PROVE  GroupIn(g, incomplete[g], mem2)' /\ incomplete[g].decoded \subseteq delivered
    BY <1>1 DEF GroupsInv
  <2>1. PICK group : group = incomplete[g]  OBVIOUS
  <2>2. GroupIn(g, group, mem)  BY <2>1 DEF GroupsInv
  <2>3. GroupIn(g, group, mem2)'  BY <2>2, GroupKept
  <2>4. incomplete'[g] = group  BY <2>1, <1>1
  <2>5. GroupIn(g, incomplete[g], mem2)'  BY <2>3, <2>4 DEF GroupIn
  <2> QED  BY <2>5 DEF GroupsInv
<1>3. SettledInv'
  <2>1. \A g \in complete \cup timedOut : g \in Nat /\ g < nextGroup'
    BY DEF SettledInv, Grows
  <2>2. ASSUME NEW g \in complete  PROVE GroupData(g)' \subseteq delivered
    <3>1. g \in Nat /\ g < nextGroup  BY DEF SettledInv
    <3>2. GroupData(g)' = GroupData(g)  BY <3>1, GroupsKept
    <3> QED  BY <3>2 DEF SettledInv, CompleteIsDelivered
  <2>3. delivered \subseteq DOMAIN pkts' /\ \A p \in delivered : pkts'[p].sent > 0
    BY DEF SettledInv, Grows
  <2>4. CompleteIsDelivered'  BY <2>2, <1>1 DEF CompleteIsDelivered
  <2>5. AckInv'  BY <1>1 DEF SettledInv, AckInv
  <2> QED  BY <1>1, <2>1, <2>3, <2>4, <2>5 DEF SettledInv
<1> QED  BY <1>2, <1>3
LEMMA FinitePackets ==
    ASSUME TypeInv, NEW S \in SUBSET DOMAIN pkts
    PROVE  IsFiniteSet(S) /\ Cardinality(S) \in Nat
<1>1. IsFiniteSet(S)  BY PktsDomain, FS_Subset
<1> QED  BY <1>1, FS_CardinalityType

\* Old batches keep their members, new ones get the packets now in them.
LEMMA MembersAfter ==
    ASSUME IInv, IInv', NEW mem, MembersInv(mem), BatchStep
    PROVE  \E mem2 : /\ Grows(mem, mem2) /\ MembersInv(mem2)'
                     /\ \A b \in Nat : b >= nextBatch => mem2[b] = Members(b)
<1>1. PICK mem2 : mem2 = [b \in Nat |-> IF b < nextBatch THEN mem[b] ELSE Members(b)]
  OBVIOUS
<1>2. PICK n \in Nat : pkts' \in [1 .. n -> PktRecord]  BY DEF IInv, TypeInv
<1>3. /\ DOMAIN pkts' \subseteq Nat
      /\ \A p \in DOMAIN pkts' : pkts'[p].group \in Nat /\ pkts'[p].batch \in Nat
  <2>1. DOMAIN pkts' = 1 .. n /\ \A p \in 1 .. n : pkts'[p] \in PktRecord  BY <1>2
  <2>2. 1 .. n \subseteq Nat  OBVIOUS
  <2> QED  BY <2>1, <2>2 DEF PktRecord
<1>4. nextBatch \in Nat /\ nextGroup \in Nat  BY DEF IInv, TypeInv
<1>5. mem \in [Nat -> SUBSET Nat]  BY DEF MembersInv
<1>6. \A b \in Nat : /\ b < nextBatch => mem2[b] = mem[b]
                     /\ b >= nextBatch => mem2[b] = Members(b)
  BY <1>1, <1>4
<1>7. mem2 \in [Nat -> SUBSET Nat]
  <2>1. \A b : Members(b) \in SUBSET Nat  BY <1>3 DEF Members
  <2> QED  BY <1>1, <1>5, <2>1
<1>8. Grows(mem, mem2)
  BY <1>3, <1>4, <1>6 DEF BatchStep, Grows
<1>9. ASSUME NEW b \in Nat, b < nextBatch'
      PROVE  /\ mem2[b] \subseteq DOMAIN pkts'
             /\ \A p, q \in mem2[b] : pkts'[p].group = pkts'[q].group
  <2>1. CASE b < nextBatch
    <3>1. /\ mem2[b] = mem[b] /\ mem[b] \subseteq DOMAIN pkts
          /\ \A p, q \in mem[b] : pkts[p].group = pkts[q].group
      BY <2>1, <1>6 DEF MembersInv
    <3> QED  BY <3>1 DEF BatchStep
  <2>2. CASE b >= nextBatch
    <3>1. mem2[b] = Members(b)  BY <2>2, <1>6
    <3>2. ASSUME NEW p \in Members(b), NEW q \in Members(b)
          PROVE  pkts'[p].group = pkts'[q].group
      <4>1. p \in DOMAIN pkts' /\ pkts'[p].batch = b /\ q \in Members(pkts'[p].batch)
        BY <3>2 DEF Members
      <4>2. CASE p \in DOMAIN pkts /\ pkts'[p].batch = pkts[p].batch
        <5>1. pkts'[p].batch < nextBatch  BY <4>2 DEF MembersInv
        <5> QED  BY <5>1, <4>1, <2>2, <1>4
      <4>3. CASE \A r \in Members(pkts'[p].batch) : pkts'[r].group = pkts'[p].group
        BY <4>1, <4>3
      <4>4. NewPacket(p)  BY <4>1 DEF BatchStep
      <4> QED  BY <4>2, <4>3, <4>4 DEF NewPacket
    <3>3. mem2[b] \subseteq DOMAIN pkts'  BY <3>1 DEF Members
    <3> QED  BY <3>1, <3>2, <3>3
  <2> QED  BY <2>1, <2>2, <1>4
<1>10. ASSUME NEW p \in DOMAIN pkts'
       PROVE  /\ pkts'[p].batch < nextBatch' /\ p \in mem2[pkts'[p].batch]
              /\ pkts'[p].bnum = Cardinality(mem2[pkts'[p].batch])
  <2>0. PICK b \in Nat : b = pkts'[p].batch  BY <1>3
  <2>1. CASE p \in DOMAIN pkts /\ pkts'[p].batch = pkts[p].batch /\ pkts'[p].bnum = pkts[p].bnum
    <3>1. b < nextBatch /\ p \in mem[b] /\ pkts'[p].bnum = Cardinality(mem[b])
      BY <2>0, <2>1 DEF MembersInv
    <3>2. mem2[b] = mem[b]  BY <3>1, <1>6
    <3> QED  BY <2>0, <3>1, <3>2, <1>4 DEF BatchStep
  <2>2. CASE pkts'[p].batch \in nextBatch .. nextBatch' - 1
             /\ pkts'[p].bnum = Cardinality(Members(pkts'[p].batch))
    <3>1. b >= nextBatch /\ b < nextBatch' /\ pkts'[p].bnum = Cardinality(Members(b))
      BY <2>0, <2>2, <1>4 DEF BatchStep
    <3>2. mem2[b] = Members(b)  BY <3>1, <1>6
    <3>3. p \in Members(b)  BY <2>0 DEF Members
    <3> QED  BY <2>0, <3>1, <3>2, <3>3
  <2>3. NewPacket(p)  BY DEF BatchStep
  <2> QED  BY <2>1, <2>2, <2>3 DEF NewPacket
<1>11. MembersInv(mem2)'
  BY <1>7, <1>9, <1>10 DEF MembersInv
<1> QED  BY <1>6, <1>8, <1>11

\* Encoding a frame or sending groups again keeps the invariant, with members
\* for the new batches.
LEMMA BatchStepKeeps ==
    ASSUME IInv, IInv', NEW mem, PathInv(mem), BatchStep,
           UNCHANGED <<receiverVars, net, acks>>
    PROVE  \E mem2 : PathInv(mem2)'
<1>1. PICK mem2 : /\ Grows(mem, mem2) /\ MembersInv(mem2)'
                  /\ \A b \in Nat : b >= nextBatch => mem2[b] = Members(b)
  BY MembersAfter DEF PathInv
<1>2. GroupsInv(mem2)' /\ SettledInv'
  BY <1>1, ReceiverKept DEF PathInv
<1>3. NetInv(mem2)'
  <2>1. \A m \in net : PacketIn(m, mem)  BY DEF PathInv, NetInv
  <2>2. \A m \in net : PacketIn(m, mem2)'
    <3> SUFFICES ASSUME NEW m \in net  PROVE PacketIn(m, mem2)'  OBVIOUS
    <3> QED  BY <1>1, <2>1, PacketKept
  <2>3. net' = net  OBVIOUS
  <2>4. ASSUME NEW m \in net'  PROVE PacketIn(m, mem2)'
    BY <2>2, <2>3, <2>4
  <2> QED  BY <2>4 DEF NetInv
<1>4. nextBatch \in Nat /\ nextBatch' \in Nat  BY DEF IInv, TypeInv
<1>5. ASSUME NEW f \in queue', NEW x \in f.items  PROVE ItemIn(f, x, mem2)'
  <2>0. x.batch \in Nat /\ x.kind \in {"DATA", "FEC"}
    BY <1>5 DEF IInv, TypeInv, Item
  <2>1. CASE f \in queue
    <3>1. ItemIn(f, x, mem)  BY <2>1 DEF PathInv, ItemsInv
    <3>2. mem2[x.batch] = mem[x.batch] /\ x.batch < nextBatch'
      BY <3>1, <2>0, <1>1 DEF ItemIn, Grows
    <3>3. x.of \subseteq DOMAIN pkts
      BY <3>1, <2>0 DEF ItemIn, PathInv, MembersInv
    <3>4. x.kind = "FEC" => \A p \in x.of : pkts'[p].sent > 0 \/ DataItem(x.batch, p) \in f.items
      BY <3>1, <3>3, <1>1 DEF ItemIn, Grows
    <3> QED  BY <3>1, <3>2, <3>4 DEF ItemIn, DataItem
  <2>2. CASE f \notin queue
    <3>1. NewItem(f, x)  BY <2>2, <1>5 DEF BatchStep
    <3>2. x.batch >= nextBatch /\ x.batch < nextBatch'  BY <3>1, <2>0, <1>4 DEF NewItem
    <3>3. mem2[x.batch] = Members(x.batch)  BY <3>2, <2>0, <1>1
    <3>4. x.of # {} /\ x.of \subseteq Members(x.batch)
      BY <3>1, <2>0 DEF NewItem
    <3> QED  BY <3>1, <3>2, <3>3, <3>4 DEF NewItem, ItemIn, DataItem
  <2> QED  BY <2>1, <2>2
<1>6. ItemsInv(mem2)'  BY <1>5 DEF ItemsInv
<1> QED  BY <1>1, <1>2, <1>3, <1>6 DEF PathInv
\* SendPacket: the item at the head of the queue goes on the wire with the
\* numbers its packets have now, which are those it was queued with.
LEMMA SendKeepsPath ==
    ASSUME IInv, IInv', now \in Nat \ {0}, NEW mem, PathInv(mem), PathSend
    PROVE  PathInv(mem)'
<1>1. PICK f \in queue : \E x \in f.items : /\ SendItem(x) /\ net' = net \cup {Wire(x)}
                                            /\ UNCHANGED <<receiverVars, acks>>
  BY DEF PathSend
<1>2. PICK x \in f.items : /\ SendItem(x) /\ net' = net \cup {Wire(x)}
                           /\ UNCHANGED <<receiverVars, acks>>
  BY <1>1
<1>3. PICK h \in queue :
         /\ HeadOf(h, x)
         /\ pkts' = [p \in DOMAIN pkts |->
                       IF x.kind = "DATA" /\ p = x.id
                       THEN [pkts[p] EXCEPT !.sent = now] ELSE pkts[p]]
         /\ queue' = (queue \ {h}) \cup
                       {[h EXCEPT !.items = rest] : rest \in {h.items \ {x}} \ {{}}}
         /\ nextGroup' = nextGroup /\ nextBatch' = nextBatch /\ now' = now
  BY <1>2 DEF SendItem
<1>4. PICK n \in Nat : pkts \in [1 .. n -> PktRecord]  BY DEF IInv, TypeInv
<1>5. /\ x \in h.items /\ x.kind \in {"DATA", "FEC"} /\ x.batch \in Nat /\ x.id \in Nat
      /\ x.of \subseteq DOMAIN pkts
  <2>1. x \in h.items  BY <1>3 DEF HeadOf
  <2>2. h.items \subseteq Item  BY DEF IInv, TypeInv
  <2> QED  BY <2>1, <2>2 DEF Item
<1>6. DOMAIN pkts' = DOMAIN pkts /\ \A p \in DOMAIN pkts :
         /\ pkts'[p].group = pkts[p].group /\ pkts'[p].group \in Nat
         /\ pkts'[p].batch = pkts[p].batch /\ pkts'[p].bnum = pkts[p].bnum
         /\ pkts'[p].encode = pkts[p].encode /\ pkts'[p].encode \in Nat
         /\ pkts[p].sent > 0 => pkts'[p].sent > 0
         /\ x.kind = "DATA" /\ p = x.id => pkts'[p].sent > 0
  <2>1. DOMAIN pkts' = DOMAIN pkts  BY <1>3
  <2> SUFFICES ASSUME NEW p \in DOMAIN pkts
               PROVE /\ pkts'[p].group = pkts[p].group /\ pkts'[p].group \in Nat
                     /\ pkts'[p].batch = pkts[p].batch /\ pkts'[p].bnum = pkts[p].bnum
                     /\ pkts'[p].encode = pkts[p].encode /\ pkts'[p].encode \in Nat
                     /\ pkts[p].sent > 0 => pkts'[p].sent > 0
                     /\ x.kind = "DATA" /\ p = x.id => pkts'[p].sent > 0
    BY <2>1
  <2>2. pkts[p] \in PktRecord  BY <1>4
  <2>3. CASE x.kind = "DATA" /\ p = x.id
    <3>1. pkts'[p] = [pkts[p] EXCEPT !.sent = now]  BY <2>3, <1>3
    <3> QED  BY <2>2, <3>1 DEF PktRecord
  <2>4. CASE ~(x.kind = "DATA" /\ p = x.id)
    <3>1. pkts'[p] = pkts[p]  BY <2>4, <1>3
    <3> QED  BY <2>2, <2>4, <3>1 DEF PktRecord
  <2> QED  BY <2>3, <2>4
<1>7. Grows(mem, mem)
  BY <1>3, <1>6, SMTT(30) DEF Grows, IInv, TypeInv
<1>8. MembersInv(mem)'
  BY <1>3, <1>6 DEF PathInv, MembersInv
<1>9. GroupsInv(mem)' /\ SettledInv'
  BY <1>2, <1>7, ReceiverKept DEF PathInv
<1>10. ItemIn(h, x, mem)  BY <1>5 DEF PathInv, ItemsInv
<1>11. ASSUME NEW g \in queue', NEW y \in g.items  PROVE ItemIn(g, y, mem)'
  <2>1. PICK k \in queue : /\ y \in k.items
                           /\ \A z \in k.items : z \notin g.items => z = x
    <3>1. CASE g \in queue  BY <3>1, <1>11
    <3>2. CASE g \notin queue
      <4>1. h \in [rtx : BOOLEAN, seq : Nat, items : (SUBSET Item) \ {{}}]
        BY DEF IInv, TypeInv
      <4>2. g = [h EXCEPT !.items = h.items \ {x}]  BY <3>2, <1>3
      <4>3. g.items = h.items \ {x}  BY <4>1, <4>2
      <4> QED  BY <4>3, <1>11
    <3> QED  BY <3>1, <3>2
  <2>2. ItemIn(k, y, mem) /\ y.of \subseteq DOMAIN pkts
    <3>1. y \in Item  BY <2>1 DEF IInv, TypeInv
    <3> QED  BY <2>1, <3>1 DEF PathInv, ItemsInv, Item
  <2>3. ASSUME y.kind = "FEC", NEW p \in y.of
        PROVE  pkts'[p].sent > 0 \/ DataItem(y.batch, p) \in g.items
    <3>1. CASE pkts[p].sent > 0  BY <3>1, <2>2, <1>6
    <3>2. CASE DataItem(y.batch, p) \in k.items
      <4>1. CASE DataItem(y.batch, p) = x
        <5>1. x.kind = "DATA" /\ x.id = p  BY <4>1 DEF DataItem
        <5> QED  BY <5>1, <2>2, <2>3, <1>6
      <4>2. CASE DataItem(y.batch, p) # x  BY <3>2, <4>2, <2>1
      <4> QED  BY <4>1, <4>2
    <3> QED  BY <3>1, <3>2, <2>2, <2>3 DEF ItemIn
  <2> QED  BY <2>2, <2>3, <1>3 DEF ItemIn, DataItem
\* What goes on the wire.
<1>12. PICK any : any = CHOOSE p \in x.of : TRUE  OBVIOUS
<1>13. any \in x.of /\ any \in DOMAIN pkts  BY <1>5, <1>10, <1>12 DEF ItemIn
<1>14. PICK m : m = Wire(x)  OBVIOUS
<1>15. \A p \in x.of : pkts[p].batch = x.batch
  BY <1>5 DEF IInv, QueueInv, QueueUntouched
<1>16. /\ m.kind = x.kind /\ m.id = x.id /\ m.of = x.of
       /\ m.batch = x.batch
       /\ m.group = pkts[any].group /\ m.bnum = pkts[any].bnum
       /\ m.gnum = Cardinality(GroupData(pkts[any].group))
       /\ m.encode = IF x.kind = "DATA" THEN pkts[x.id].encode ELSE now
  <2>1. m = [kind |-> x.kind, batch |-> IF x.kind = "DATA" THEN pkts[x.id].batch ELSE x.batch,
             id |-> x.id, of |-> x.of, group |-> pkts[any].group,
             bnum |-> pkts[any].bnum, gnum |-> Cardinality(GroupData(pkts[any].group)),
             encode |-> IF x.kind = "DATA" THEN pkts[x.id].encode ELSE now]
    BY <1>12, <1>14 DEF Wire
  <2>2. x.kind = "DATA" => pkts[x.id].batch = x.batch  BY <1>10, <1>15 DEF ItemIn
  <2> QED  BY <2>1, <2>2
<1>17. m.encode \in Nat
  <2>1. CASE x.kind = "DATA"
    <3>1. x.id \in DOMAIN pkts  BY <2>1, <1>5, <1>10 DEF ItemIn
    <3>2. m.encode = pkts[x.id].encode  BY <2>1, <1>16
    <3> QED  BY <3>1, <3>2, <1>6
  <2>2. CASE x.kind # "DATA"  BY <2>2, <1>16
  <2> QED  BY <2>1, <2>2
<1>18. m.bnum = Cardinality(mem[m.batch]) /\ pkts[any].batch = x.batch
  BY <1>13, <1>15, <1>16 DEF PathInv, MembersInv
<1>19. \A p \in x.of : pkts[p].group = pkts[any].group
  <2>1. \A p \in x.of : p \in mem[x.batch]  BY <1>10 DEF ItemIn
  <2>2. x.batch < nextBatch  BY <1>10 DEF ItemIn
  <2> QED  BY <2>1, <2>2, <1>5, <1>13 DEF PathInv, MembersInv
<1>20. \A p \in x.of : pkts'[p].sent > 0
  <2> SUFFICES ASSUME NEW p \in x.of  PROVE pkts'[p].sent > 0  OBVIOUS
  <2>1. CASE x.kind = "DATA"
    <3>1. p = x.id  BY <2>1, <1>10 DEF ItemIn
    <3> QED  BY <2>1, <3>1, <1>5, <1>6
  <2>2. CASE x.kind = "FEC"
    <3>1. DataItem(x.batch, p) \notin h.items
      <4> SUFFICES ASSUME DataItem(x.batch, p) \in h.items  PROVE FALSE  OBVIOUS
      <4> DEFINE y == DataItem(x.batch, p)
      <4>1. y.kind = "DATA" /\ y.batch = x.batch  BY DEF DataItem
      <4>2. y \in h.items \ {x}  BY <4>1, <2>2
      <4>3. \/ x.batch < y.batch
            \/ x.batch = y.batch /\ x.kind = "DATA" /\ y.kind = "FEC"
            \/ x.batch = y.batch /\ x.kind = y.kind
        BY <4>2, <1>3 DEF HeadOf
      <4> HIDE DEF y
      <4> QED  BY <4>1, <4>3, <2>2, <1>5
    <3>2. pkts[p].sent > 0  BY <2>2, <3>1, <1>10 DEF ItemIn
    <3> QED  BY <3>2, <1>5, <1>6
  <2> QED  BY <2>1, <2>2, <1>5
<1>21. /\ pkts[any].group \in Nat /\ pkts[any].group < nextGroup
  BY <1>6, <1>13 DEF IInv, OrderInv
<1>22. PICK g : g = pkts[any].group  OBVIOUS
<1>23. GroupData(g)' = GroupData(g)  BY <1>7, <1>21, <1>22, GroupsKept
<1>24. x.of \subseteq GroupData(g)  BY <1>5, <1>19, <1>22 DEF GroupData
<1>25. m.group = g /\ m.gnum = Cardinality(GroupData(g)')  BY <1>16, <1>22, <1>23
<1>26. PacketIn(m, mem)'
  <2>1. /\ m.kind \in {"DATA", "FEC"} /\ m.id \in Nat /\ m.encode \in Nat
        /\ m.batch \in Nat /\ m.batch < nextBatch'
        /\ m.of # {} /\ m.of \subseteq mem[m.batch]
        /\ m.kind = "DATA" => m.of = {m.id}
        /\ m.kind = "FEC" => m.of = mem[m.batch]
    BY <1>3, <1>5, <1>10, <1>16, <1>17 DEF ItemIn
  <2>2. m.group \in Nat /\ m.group < nextGroup'  BY <1>3, <1>21, <1>22, <1>25
  <2>3. m.of \subseteq GroupData(g)'  BY <1>16, <1>23, <1>24
  <2>4. \A p \in m.of : pkts'[p].sent > 0  BY <1>16, <1>20
  <2> QED  BY <2>1, <2>2, <2>3, <2>4, <1>18, <1>25 DEF PacketIn
<1>27. NetInv(mem)'
  <2> SUFFICES ASSUME NEW k \in net'  PROVE PacketIn(k, mem)'  BY DEF NetInv
  <2>1. CASE k \in net
    <3>1. PacketIn(k, mem)  BY <2>1 DEF PathInv, NetInv
    <3> QED  BY <3>1, <1>7, PacketKept
  <2>2. CASE k = m  BY <2>2, <1>26
  <2> QED  BY <2>1, <2>2, <1>2, <1>14
<1>28. ItemsInv(mem)'  BY <1>11 DEF ItemsInv
<1> QED  BY <1>8, <1>9, <1>27, <1>28 DEF PathInv
------------------------------------------------------------------------------
\* The group a packet in flight belongs to has all the packets of its batch.
LEMMA BatchInGroup ==
    ASSUME NEW mem, MembersInv(mem), NEW m, PacketIn(m, mem)
    PROVE  /\ mem[m.batch] \subseteq GroupData(m.group)
           /\ mem[m.batch] \subseteq DOMAIN pkts
           /\ GroupData(m.group) # {}
<1>1. PICK p : p \in m.of  BY DEF PacketIn
<1>2. p \in mem[m.batch] /\ p \in GroupData(m.group)  BY <1>1 DEF PacketIn
<1>3. /\ mem[m.batch] \subseteq DOMAIN pkts
      /\ \A q, r \in mem[m.batch] : pkts[q].group = pkts[r].group
  BY DEF PacketIn, MembersInv
<1>4. mem[m.batch] \subseteq GroupData(m.group)  BY <1>2, <1>3 DEF GroupData
<1> QED  BY <1>2, <1>3, <1>4

\* The group a packet is added to: one the receiver has, or a new one.
LEMMA GroupFound ==
    ASSUME NEW mem, PathInv(mem), NEW m \in net
    PROVE  /\ GroupIn(m.group, R!GroupOf(m), mem)
           /\ R!GroupOf(m).decoded \subseteq delivered
<1>0. PacketIn(m, mem)  BY DEF PathInv, NetInv
<1>1. CASE m.group \in DOMAIN incomplete
  BY <1>1 DEF PathInv, GroupsInv, R!GroupOf
<1>2. CASE m.group \notin DOMAIN incomplete
  <2>1. R!GroupOf(m) = [encode |-> m.encode, num |-> m.gnum, batches |-> [b \in {} |-> 0],
                        done |-> {}, decoded |-> {}]
    BY <1>2 DEF R!GroupOf, R!NewGroup
  <2>2. GroupData(m.group) # {}  BY <1>0, BatchInGroup DEF PathInv
  <2>3. PICK group : group = R!GroupOf(m)  OBVIOUS
  <2>4. /\ group.encode = m.encode /\ group.num = m.gnum
        /\ group.batches = [b \in {} |-> 0] /\ group.done = {} /\ group.decoded = {}
        /\ group = [encode |-> group.encode, num |-> group.num, batches |-> group.batches,
                    done |-> group.done, decoded |-> group.decoded]
    BY <2>1, <2>3
  <2>5. GroupIn(m.group, group, mem)  BY <1>0, <2>2, <2>4 DEF GroupIn, PacketIn
  <2> QED  BY <2>3, <2>4, <2>5
<1> QED  BY <1>1, <1>2

\* The batch a packet is added to, before and after.
LEMMA BatchFound ==
    ASSUME NEW mem, MembersInv(mem), NEW m, PacketIn(m, mem),
           NEW group, GroupIn(m.group, group, mem)
    PROVE  LET old == R!BatchOf(group, m)
               batch == R!AddToBatch(old, m)
           IN  /\ HeldIn(old, mem[m.batch]) /\ HeldIn(batch, mem[m.batch])
               /\ \A p \in batch.cover : pkts[p].sent > 0
               /\ m.kind = "DATA" => /\ batch.data = old.data \cup {m.id}
                                     /\ batch.fec = old.fec
               /\ m.kind = "FEC" => /\ batch.fec = old.fec \cup {m.id}
                                    /\ batch.data = old.data
<1> DEFINE S == mem[m.batch]
<1>1. PICK old : old = R!BatchOf(group, m)  OBVIOUS
<1>2. PICK batch : batch = R!AddToBatch(old, m)  OBVIOUS
<1>3. HeldIn(old, S) /\ \A p \in old.cover : pkts[p].sent > 0
  <2>1. CASE m.batch \in DOMAIN group.batches
    BY <2>1, <1>1 DEF R!BatchOf, GroupIn
  <2>2. CASE m.batch \notin DOMAIN group.batches
    <3>1. old = [data |-> {}, fec |-> {}, cover |-> {}, num |-> m.bnum]
      BY <2>2, <1>1 DEF R!BatchOf, R!NewBatch
    <3>2. IsFiniteSet({})  BY FS_EmptySet
    <3> QED  BY <3>1, <3>2 DEF HeldIn, PacketIn
  <2> QED  BY <2>1, <2>2
<1>4. CASE m.kind = "DATA"
  <2>1. batch = [old EXCEPT !.data = @ \cup {m.id}]
    BY <1>2, <1>4 DEF R!AddToBatch
  <2>2. /\ batch.data = old.data \cup {m.id} /\ batch.fec = old.fec
        /\ batch.cover = old.cover /\ batch.num = old.num
        /\ batch = [data |-> batch.data, fec |-> batch.fec,
                    cover |-> batch.cover, num |-> batch.num]
    BY <1>3, <2>1 DEF HeldIn
  <2>3. m.id \in S  BY <1>4 DEF PacketIn
  <2>4. HeldIn(batch, S)
    <3> HIDE DEF S
    <3> QED  BY <1>3, <2>2, <2>3 DEF HeldIn
  <2> QED  BY <1>1, <1>2, <1>3, <1>4, <2>2, <2>4
<1>5. CASE m.kind = "FEC"
  <2>1. batch = [old EXCEPT !.fec = @ \cup {m.id}, !.cover = m.of]
    BY <1>2, <1>5 DEF R!AddToBatch
  <2>2. /\ batch.data = old.data /\ batch.fec = old.fec \cup {m.id}
        /\ batch.cover = m.of /\ batch.num = old.num
        /\ batch = [data |-> batch.data, fec |-> batch.fec,
                    cover |-> batch.cover, num |-> batch.num]
    BY <1>3, <2>1 DEF HeldIn
  <2>3. m.id \in Nat /\ m.of = S /\ \A p \in m.of : pkts[p].sent > 0
    BY <1>5 DEF PacketIn
  <2>4. IsFiniteSet(old.fec) => IsFiniteSet(old.fec \cup {m.id})  BY FS_AddElement
  <2>5. HeldIn(batch, S)
    <3> HIDE DEF S
    <3> QED  BY <1>3, <2>2, <2>3, <2>4 DEF HeldIn
  <2> QED  BY <1>1, <1>2, <1>3, <1>5, <2>2, <2>3, <2>5
<1> QED  BY <1>4, <1>5 DEF PacketIn

\* What a packet makes known is of its batch, hence of its group, and was sent.
LEMMA FreshIn ==
    ASSUME NEW mem, MembersInv(mem), NEW m, PacketIn(m, mem),
           NEW group, GroupIn(m.group, group, mem)
    PROVE  /\ R!Fresh(group, m) \subseteq mem[m.batch]
           /\ R!Fresh(group, m) \subseteq GroupData(m.group)
           /\ \A p \in R!Fresh(group, m) : pkts[p].sent > 0
<1> DEFINE batch == R!AddToBatch(R!BatchOf(group, m), m)
<1>1. HeldIn(batch, mem[m.batch]) /\ \A p \in batch.cover : pkts[p].sent > 0
  BY BatchFound
<1>2. mem[m.batch] \subseteq GroupData(m.group)  BY BatchInGroup
<1>3. batch.cover \subseteq mem[m.batch]  BY <1>1 DEF HeldIn
<1>4. m.kind = "DATA" => m.id \in mem[m.batch] /\ pkts[m.id].sent > 0
  BY DEF PacketIn
<1>5. R!Fresh(group, m) \subseteq (IF m.kind = "DATA" THEN {m.id} ELSE {}) \cup batch.cover
  BY DEF R!Fresh
<1> HIDE DEF batch
<1> QED  BY <1>1, <1>2, <1>3, <1>4, <1>5

\* What PacketGroup::AddPacket leaves.
LEMMA AddKeeps ==
    ASSUME TypeInv, NEW mem, MembersInv(mem), NEW m, PacketIn(m, mem),
           NEW group, GroupIn(m.group, group, mem)
    PROVE  LET after == R!AddPacket(group, m)
           IN  /\ GroupIn(m.group, after, mem)
               /\ after.decoded = group.decoded \cup R!Fresh(group, m)
<1> DEFINE batch == R!AddToBatch(R!BatchOf(group, m), m)
           full == R!CheckComplete(batch)
           B == (DOMAIN group.batches \cup {m.batch}) \ (IF full THEN {m.batch} ELSE {})
<1>1. PICK enc : enc = IF m.encode < group.encode THEN m.encode ELSE group.encode
  OBVIOUS
<1>2. enc \in Nat  BY <1>1 DEF GroupIn, PacketIn
<1>3. PICK timed : timed = [group EXCEPT !.encode = enc]  OBVIOUS
<1>4. /\ timed = [encode |-> enc, num |-> group.num, batches |-> group.batches,
                  done |-> group.done, decoded |-> group.decoded]
  BY <1>3 DEF GroupIn
<1>5. PICK after : after = R!AddPacket(group, m)  OBVIOUS
<1>6. CASE R!Useless(group, m)
  <2>1. after = timed  BY <1>1, <1>3, <1>5, <1>6 DEF R!AddPacket
  <2>2. R!Fresh(group, m) = {}  BY <1>6 DEF R!Fresh
  <2>3. /\ after.encode = enc /\ after.num = group.num /\ after.batches = group.batches
        /\ after.done = group.done /\ after.decoded = group.decoded
        /\ after = [encode |-> after.encode, num |-> after.num, batches |-> after.batches,
                    done |-> after.done, decoded |-> after.decoded]
    BY <1>4, <2>1
  <2>4. GroupIn(m.group, after, mem)  BY <1>2, <2>3 DEF GroupIn
  <2> QED  BY <1>5, <2>2, <2>3, <2>4
<1>7. CASE ~R!Useless(group, m)
  <2>1. after = [timed EXCEPT
                   !.decoded = group.decoded \cup R!Fresh(group, m),
                   !.done    = IF full THEN group.done \cup {m.batch} ELSE group.done,
                   !.batches = [b \in B |-> IF b = m.batch THEN batch ELSE group.batches[b]]]
    BY <1>1, <1>3, <1>4, <1>5, <1>7 DEF R!AddPacket
  <2> HIDE DEF batch, full, B
  <2>2. /\ after.encode = enc /\ after.num = group.num
        /\ after.batches = [b \in B |-> IF b = m.batch THEN batch ELSE group.batches[b]]
        /\ after.done = IF full THEN group.done \cup {m.batch} ELSE group.done
        /\ after.decoded = group.decoded \cup R!Fresh(group, m)
        /\ after = [encode |-> after.encode, num |-> after.num, batches |-> after.batches,
                    done |-> after.done, decoded |-> after.decoded]
    BY <1>4, <2>1
  <2>3. m.batch \in Nat /\ m.batch < nextBatch /\ nextBatch \in Nat
    BY DEF PacketIn, TypeInv
  <2>4. after.done \subseteq 0 .. nextBatch - 1
    <3>1. m.batch \in 0 .. nextBatch - 1  BY <2>3
    <3>2. group.done \subseteq 0 .. nextBatch - 1  BY DEF GroupIn
    <3> QED  BY <2>2, <3>1, <3>2
  <2>5. after.decoded \subseteq GroupData(m.group)
    BY <2>2, FreshIn DEF GroupIn
  <2>6. /\ HeldIn(batch, mem[m.batch]) /\ \A p \in batch.cover : pkts[p].sent > 0
        /\ mem[m.batch] \subseteq GroupData(m.group)
    BY BatchFound, BatchInGroup DEF batch
  <2>7. DOMAIN after.batches = B /\ B \subseteq DOMAIN group.batches \cup {m.batch}
    BY <2>2 DEF B
  <2>8. ASSUME NEW b \in DOMAIN after.batches
        PROVE  /\ b \in Nat /\ b < nextBatch
               /\ HeldIn(after.batches[b], mem[b])
               /\ mem[b] \subseteq GroupData(m.group)
               /\ \A p \in after.batches[b].cover : pkts[p].sent > 0
    <3>1. CASE b = m.batch
      <4>1. after.batches[b] = batch  BY <2>2, <2>7, <3>1
      <4> QED  BY <3>1, <4>1, <2>3, <2>6
    <3>2. CASE b # m.batch
      <4>1. after.batches[b] = group.batches[b] /\ b \in DOMAIN group.batches
        BY <2>2, <2>7, <3>2
      <4> QED  BY <4>1 DEF GroupIn
    <3> QED  BY <3>1, <3>2
  <2>9. after.batches = [b \in DOMAIN after.batches |-> after.batches[b]]
    BY <2>2
  <2>10. /\ m.group \in Nat /\ m.group < nextGroup /\ GroupData(m.group) # {}
         /\ group.num = Cardinality(GroupData(m.group))
    BY DEF GroupIn
  <2>11. after.encode \in Nat /\ after.num = Cardinality(GroupData(m.group))
    BY <2>2, <2>10, <1>2
  <2>12. GroupIn(m.group, after, mem)
    BY <2>2, <2>4, <2>5, <2>8, <2>9, <2>10, <2>11 DEF GroupIn
  <2> QED  BY <1>5, <2>2, <2>12
<1> QED  BY <1>6, <1>7
\* The instance has a Cardinality of its own, with the same definition.
LEMMA CardinalityInReceiver == \A S : R!Cardinality(S) = Cardinality(S)
  BY DEF R!Cardinality, Cardinality

\* The receiver takes a packet: a step that leaves the sender alone.
LEMMA ReceiveKeeps ==
    ASSUME IInv, NEW mem, PathInv(mem), NEW m \in net, Receive(m)
    PROVE  PathInv(mem)'
<1>1. PacketIn(m, mem) /\ MembersInv(mem) /\ SettledInv /\ TypeInv
  BY DEF PathInv, NetInv, IInv
<1>2. PICK g : g = m.group  OBVIOUS
<1>3. PICK group : group = R!AddPacket(R!GroupOf(m), m)  OBVIOUS
<1>4. PICK fresh : fresh = R!Decoded(m)  OBVIOUS
<1>5. fresh = R!Fresh(R!GroupOf(m), m)  BY <1>4 DEF R!Decoded
<1>6. GroupIn(g, R!GroupOf(m), mem) /\ R!GroupOf(m).decoded \subseteq delivered
  BY <1>2, GroupFound
<1>7. /\ GroupIn(g, group, mem)
      /\ group.decoded \subseteq delivered \cup fresh
  BY <1>1, <1>2, <1>3, <1>5, <1>6, AddKeeps
<1>8. /\ fresh \subseteq GroupData(g) /\ \A p \in fresh : pkts[p].sent > 0
  BY <1>1, <1>2, <1>5, <1>6, FreshIn
<1>9. UNCHANGED senderVars  BY DEF Receive
<1>10. /\ pkts' = pkts /\ nextBatch' = nextBatch /\ nextGroup' = nextGroup /\ queue' = queue
  BY <1>9 DEF senderVars
<1>11. \A h : GroupData(h)' = GroupData(h)  BY <1>10 DEF GroupData
<1> DEFINE settled == g \in complete \cup timedOut
           full == ~settled /\ Cardinality(group.decoded) = group.num
           open == (DOMAIN incomplete \cup {g}) \ (IF full THEN {g} ELSE {})
           Held(h) == IF h = g THEN group ELSE incomplete[h]
           late == IF settled THEN {} ELSE {h \in open : now > Held(h).encode + DelayDdl}
<1>12. /\ incomplete' = [h \in open \ late |-> Held(h)]
       /\ complete' = IF full THEN complete \cup {g} ELSE complete
       /\ timedOut' = timedOut \cup late
       /\ delivered' = delivered \cup fresh
       /\ received' = received + 1
       /\ net' = net \ {m}
       /\ acks' = acks \cup ({fresh} \ {{}})
  <2>1. R!ReceiveUdpPacket(m, now) /\ net' = net \ {m} /\ acks' = acks \cup ({fresh} \ {{}})
    BY <1>4 DEF Receive
  <2>2. delivered' = delivered \cup fresh /\ received' = received + 1
    BY <2>1, <1>4 DEF R!ReceiveUdpPacket
  <2>3. /\ incomplete' = [h \in open \ late |-> Held(h)]
        /\ complete' = IF full THEN complete \cup {g} ELSE complete
        /\ timedOut' = timedOut \cup late
    BY <2>1, <1>2, <1>3, CardinalityInReceiver DEF R!ReceiveUdpPacket
  <2> QED  BY <2>1, <2>2, <2>3
<1>13. open \subseteq DOMAIN incomplete \cup {g} /\ late \subseteq open
  OBVIOUS
<1>14. ASSUME NEW h \in DOMAIN incomplete \cup {g}
       PROVE  GroupIn(h, Held(h), mem) /\ Held(h).decoded \subseteq delivered \cup fresh
  <2>1. CASE h = g  BY <2>1, <1>7
  <2>2. CASE h # g  BY <2>2, <1>14 DEF PathInv, GroupsInv
  <2> QED  BY <2>1, <2>2
<1>15. full => GroupData(g) \subseteq delivered \cup fresh
  <2> SUFFICES ASSUME full  PROVE GroupData(g) \subseteq delivered \cup fresh  OBVIOUS
  <2>1. /\ Cardinality(group.decoded) = Cardinality(GroupData(g))
        /\ group.decoded \subseteq GroupData(g)
    BY <1>7 DEF GroupIn
  <2>2. IsFiniteSet(GroupData(g))
    <3>1. GroupData(g) \in SUBSET DOMAIN pkts  BY DEF GroupData
    <3> QED  BY <1>1, <3>1, FinitePackets
  <2>3. GroupData(g) = group.decoded  BY <2>1, <2>2, FS_Subset
  <2> QED  BY <2>3, <1>7
<1> HIDE DEF settled, full, open, Held, late
<1>16. GroupsInv(mem)'
  <2> SUFFICES ASSUME NEW h \in DOMAIN incomplete'
               PROVE  GroupIn(h, incomplete[h], mem)' /\ incomplete'[h].decoded \subseteq delivered'
    BY DEF GroupsInv
  <2>1. h \in open \ late /\ incomplete'[h] = Held(h)  BY <1>12
  <2>2. PICK k : k = Held(h)  OBVIOUS
  <2>3. GroupIn(h, k, mem) /\ k.decoded \subseteq delivered'
    BY <2>1, <2>2, <1>12, <1>13, <1>14
  <2>4. GroupIn(h, k, mem)'  BY <2>3, <1>10, <1>11 DEF GroupIn
  <2>5. incomplete'[h] = k  BY <2>1, <2>2
  <2>6. GroupIn(h, incomplete[h], mem)'  BY <2>4, <2>5 DEF GroupIn
  <2> QED  BY <2>3, <2>5, <2>6
<1>17. SettledInv'
  <2>1. delivered' \subseteq DOMAIN pkts /\ \A p \in delivered' : pkts[p].sent > 0
    BY <1>1, <1>8, <1>12 DEF SettledInv, GroupData
  <2>2. \A h \in complete' \cup timedOut' : h \in Nat /\ h < nextGroup
    <3>1. \A h \in DOMAIN incomplete \cup {g} : h \in Nat /\ h < nextGroup
      BY <1>14 DEF GroupIn
    <3>2. complete' \cup timedOut' \subseteq complete \cup timedOut \cup (DOMAIN incomplete \cup {g})
      BY <1>12, <1>13
    <3> QED  BY <3>1, <3>2, <1>1 DEF SettledInv
  <2>3. CompleteIsDelivered'
    <3> SUFFICES ASSUME NEW h \in complete'  PROVE GroupData(h) \subseteq delivered'
      BY <1>11 DEF CompleteIsDelivered
    <3>1. CASE h \in complete
      BY <3>1, <1>1, <1>12 DEF SettledInv, CompleteIsDelivered
    <3>2. CASE h \notin complete
      <4>1. full /\ h = g  BY <3>2, <1>12
      <4> QED  BY <4>1, <1>12, <1>15
    <3> QED  BY <3>1, <3>2
  <2>4. AckInv'  BY <1>1, <1>12 DEF SettledInv, AckInv
  <2>5. incomplete' = [h \in DOMAIN incomplete' |-> incomplete'[h]]  BY <1>12
  <2>6. received' \in Nat  BY <1>1, <1>12 DEF SettledInv
  <2> QED  BY <2>1, <2>2, <2>3, <2>4, <2>5, <2>6, <1>10 DEF SettledInv
<1>18. MembersInv(mem)'  BY <1>1, <1>10 DEF MembersInv
<1>19. ItemsInv(mem)'
  <2> SUFFICES ASSUME NEW f \in queue, NEW x \in f.items  PROVE ItemIn(f, x, mem)'
    BY <1>10 DEF ItemsInv
  <2>1. ItemIn(f, x, mem)  BY DEF PathInv, ItemsInv
  <2> QED  BY <2>1, <1>10 DEF ItemIn, DataItem
<1>20. NetInv(mem)'
  <2> SUFFICES ASSUME NEW k \in net'  PROVE PacketIn(k, mem)'  BY DEF NetInv
  <2>1. PacketIn(k, mem)  BY <1>12 DEF PathInv, NetInv
  <2> QED  BY <2>1, <1>10, <1>11 DEF PacketIn
<1> QED  BY <1>16, <1>17, <1>18, <1>19, <1>20 DEF PathInv

\* Steps that change neither packets nor batches nor the receiver.
LEMMA OthersKeepPath ==
    ASSUME IInv, NEW mem, PathInv(mem), UNCHANGED <<pkts, queue, nextBatch, nextGroup>>,
           UNCHANGED receiverVars, net' = net, acks' \subseteq acks
    PROVE  PathInv(mem)'
<1>1. Grows(mem, mem)  BY DEF Grows, IInv, TypeInv
<1>2. GroupsInv(mem)' /\ SettledInv'  BY <1>1, ReceiverKept DEF PathInv
<1>3. MembersInv(mem)'  BY DEF PathInv, MembersInv
<1>4. ItemsInv(mem)'
  <2> SUFFICES ASSUME NEW f \in queue, NEW x \in f.items  PROVE ItemIn(f, x, mem)'
    BY DEF ItemsInv
  <2>1. ItemIn(f, x, mem)  BY DEF PathInv, ItemsInv
  <2> QED  BY <2>1 DEF ItemIn, DataItem
<1>5. NetInv(mem)'
  <2> SUFFICES ASSUME NEW k \in net'  PROVE PacketIn(k, mem)'  BY DEF NetInv
  <2>1. PacketIn(k, mem)  BY DEF PathInv, NetInv
  <2> QED  BY <2>1, <1>1, PacketKept
<1> QED  BY <1>2, <1>3, <1>4, <1>5 DEF PathInv

\* The invariant of the whole path.
WholeInv == IInv /\ now \in Nat \ {0} /\ \E mem : PathInv(mem)

LEMMA WholeInitial == PathInit => WholeInv
<1> SUFFICES ASSUME PathInit  PROVE WholeInv  OBVIOUS
<1>1. IInv  BY SenderAssumption, InitInv DEF PathInit
<1>2. now \in Nat \ {0}  BY SenderAssumption DEF PathInit, Init
<1>3. PICK mem : mem = [b \in Nat |-> {}]  OBVIOUS
<1>4. /\ DOMAIN pkts = {} /\ queue = {} /\ net = {} /\ acks = {} /\ nextBatch = 0
      /\ incomplete = [g \in {} |-> 0] /\ complete = {} /\ timedOut = {}
      /\ delivered = {} /\ received = 0
  BY DEF PathInit, Init, R!ReceiverInit
<1>5. mem \in [Nat -> SUBSET Nat]  BY <1>3
<1>6. MembersInv(mem)  BY <1>4, <1>5 DEF MembersInv
<1>7. ItemsInv(mem) /\ NetInv(mem) /\ GroupsInv(mem)
  BY <1>4 DEF ItemsInv, NetInv, GroupsInv
<1>8. SettledInv  BY <1>4 DEF SettledInv, CompleteIsDelivered, AckInv
<1> QED  BY <1>1, <1>2, <1>6, <1>7, <1>8 DEF PathInv, WholeInv

LEMMA WholeStep == WholeInv /\ [PathNext]_pathVars => WholeInv'
<1> SUFFICES ASSUME WholeInv, [PathNext]_pathVars  PROVE WholeInv'  OBVIOUS
<1>1. PICK mem : PathInv(mem)  BY DEF WholeInv
<1>2. IInv /\ now \in Nat \ {0} /\ SenderAssumption  BY SenderAssumption DEF WholeInv
<1>3. IInv'  BY <1>2, PathStepInv
<1>4. \A p \in DOMAIN pkts : pkts[p].batch < nextBatch  BY <1>1 DEF PathInv, MembersInv
<1>5. CASE PathSend
  <2>1. now' = now  BY <1>5 DEF PathSend, SendItem
  <2> QED  BY <2>1, <1>1, <1>2, <1>3, <1>5, SendKeepsPath DEF WholeInv
<1>6. CASE \E m \in net : Receive(m)
  <2>1. now' = now  BY <1>6 DEF Receive, senderVars
  <2> QED  BY <2>1, <1>1, <1>2, <1>3, <1>6, ReceiveKeeps DEF WholeInv
<1>7. CASE \E a \in acks : ReceiveAck(a)
  <2>1. /\ UNCHANGED <<pkts, queue, nextBatch, nextGroup>> /\ UNCHANGED receiverVars
        /\ net' = net /\ acks' \subseteq acks /\ now' = now
    BY <1>7 DEF ReceiveAck, RcvACKPacket
  <2> QED  BY <2>1, <1>1, <1>2, <1>3, OthersKeepPath DEF WholeInv
<1>8. CASE SenderAlone
  <2>1. UNCHANGED <<receiverVars, net, acks>>  BY <1>8 DEF SenderAlone
  <2>2. CASE \E n \in FrameSizes, gs \in GroupSizes, ff, fr \in FECNums :
                CreateFrame(n, gs, ff, fr)
    <3>1. now' = now  BY <2>2 DEF CreateFrame
    <3>2. BatchStep  BY <2>2, <1>2, <1>4, CreateBatches
    <3> QED  BY <3>1, <3>2, <2>1, <1>1, <1>2, <1>3, BatchStepKeeps DEF WholeInv
  <2>3. CASE Check
    <3>1. PICK rto \in [HistGroups -> Rtos], fec \in [HistGroups -> FECNums] :
             CheckRetransmission(rto, fec)
      BY <2>3 DEF Check
    <3>2. now' = now  BY <3>1 DEF CheckRetransmission
    <3>3. BatchStep  BY <3>1, <1>2, <1>4, CheckBatches
    <3> QED  BY <3>2, <3>3, <2>1, <1>1, <1>2, <1>3, BatchStepKeeps DEF WholeInv
  <2>4. CASE SendNothing \/ StopEncoding \/ StopRunning \/ Tick
    <3>1. UNCHANGED <<pkts, queue, nextBatch, nextGroup>> /\ (now' = now \/ now' = now + 1)
      BY <2>4 DEF SendNothing, StopEncoding, StopRunning, Tick
    <3>2. now' \in Nat \ {0}  BY <3>1, <1>2
    <3>3. net' = net /\ acks' \subseteq acks /\ UNCHANGED receiverVars  BY <2>1
    <3> QED  BY <3>1, <3>2, <3>3, <1>1, <1>2, <1>3, OthersKeepPath DEF WholeInv
  <2> QED  BY <2>2, <2>3, <2>4, <1>8 DEF SenderAlone
<1>9. CASE UNCHANGED pathVars
  <2>1. /\ UNCHANGED <<pkts, queue, nextBatch, nextGroup>> /\ UNCHANGED receiverVars
        /\ net' = net /\ acks' \subseteq acks /\ now' = now
    BY <1>9 DEF pathVars, senderVars
  <2> QED  BY <2>1, <1>1, <1>2, <1>3, OthersKeepPath DEF WholeInv
<1> QED  BY <1>5, <1>6, <1>7, <1>8, <1>9 DEF PathNext

\* The invariant of the path: every batch has the members it was made with,
\* wherever its packets and FEC packets are.
THEOREM PathInvariant == PathSpec => []WholeInv
  BY WholeInitial, WholeStep, PTL DEF PathSpec

\* The count by which a batch decides that it can be recovered is right: what
\* its FEC packets cover is all of the batch, although RetransmitGroup moves
\* the sender's packets from batch to batch while old packets are in flight.
THEOREM CountIsRight == PathSpec => []BatchAddsUp
<1>1. WholeInv => BatchAddsUp
  <2> SUFFICES ASSUME WholeInv, NEW g \in DOMAIN incomplete,
                      NEW b \in DOMAIN incomplete[g].batches,
                      incomplete[g].batches[b].fec # {}
               PROVE  LET batch == incomplete[g].batches[b]
                      IN  /\ batch.data \subseteq batch.cover
                          /\ Cardinality(batch.cover) = batch.num
    BY DEF BatchAddsUp
  <2>1. PICK mem : PathInv(mem)  BY DEF WholeInv
  <2>2. HeldIn(incomplete[g].batches[b], mem[b])
    BY <2>1 DEF PathInv, GroupsInv, GroupIn
  <2> QED  BY <2>2 DEF HeldIn
<1> QED  BY <1>1, PathInvariant, PTL

\* The receiver's maps and the network hold only what the sender made; what was
\* handed over, recovered packets included, had been sent.
THEOREM PathTypeCorrect == PathSpec => []PathTypeOK
<1>1. WholeInv => PathTypeOK
  <2> SUFFICES ASSUME WholeInv  PROVE PathTypeOK  OBVIOUS
  <2>1. PICK mem : PathInv(mem)  BY DEF WholeInv
  <2>2. TypeInv /\ nextGroup \in Nat /\ nextBatch \in Nat  BY DEF WholeInv, IInv, TypeInv
  <2>3. GroupsInv(mem) /\ SettledInv /\ NetInv(mem) /\ MembersInv(mem)  BY <2>1 DEF PathInv
  <2>4. ASSUME NEW g \in DOMAIN incomplete
        PROVE  /\ g \in 0 .. nextGroup - 1
               /\ incomplete[g].encode \in Nat /\ incomplete[g].num > 0
               /\ incomplete[g].decoded \subseteq GroupData(g)
               /\ DOMAIN incomplete[g].batches \cup incomplete[g].done \subseteq 0 .. nextBatch - 1
    <3>1. GroupIn(g, incomplete[g], mem)  BY <2>3 DEF GroupsInv
    <3>2. g \in 0 .. nextGroup - 1  BY <3>1, <2>2 DEF GroupIn
    <3>3. incomplete[g].num > 0
      <4>1. GroupData(g) \in SUBSET DOMAIN pkts  BY DEF GroupData
      <4>2. IsFiniteSet(GroupData(g)) /\ Cardinality(GroupData(g)) \in Nat
        BY <2>2, <4>1, FinitePackets
      <4>3. GroupData(g) # {} /\ incomplete[g].num = Cardinality(GroupData(g))
        BY <3>1 DEF GroupIn
      <4>4. Cardinality(GroupData(g)) # 0  BY <4>2, <4>3, FS_EmptySet
      <4> QED  BY <4>2, <4>3, <4>4
    <3>4. DOMAIN incomplete[g].batches \subseteq 0 .. nextBatch - 1
      <4>1. \A b \in DOMAIN incomplete[g].batches : b \in Nat /\ b < nextBatch
        BY <3>1 DEF GroupIn
      <4> QED  BY <4>1, <2>2
    <3>5. /\ incomplete[g].encode \in Nat /\ incomplete[g].decoded \subseteq GroupData(g)
          /\ incomplete[g].done \subseteq 0 .. nextBatch - 1
      BY <3>1 DEF GroupIn
    <3> QED  BY <3>2, <3>3, <3>4, <3>5
  <2>5. complete \cup timedOut \subseteq 0 .. nextGroup - 1
    BY <2>2, <2>3 DEF SettledInv
  <2>6. delivered \subseteq {p \in DOMAIN pkts : pkts[p].sent > 0}
    BY <2>3 DEF SettledInv
  <2>7. \A m \in net : m.of \subseteq DOMAIN pkts
    BY <2>3 DEF NetInv, PacketIn, GroupData
  <2>8. acks \subseteq SUBSET DOMAIN pkts /\ received \in Nat
    BY <2>3 DEF SettledInv, AckInv
  <2> QED  BY <2>4, <2>5, <2>6, <2>7, <2>8 DEF PathTypeOK
<1> QED  BY <1>1, PathInvariant, PTL
------------------------------------------------------------------------------
\* The FEC packets in the batches the receiver still has open.
Fecs == {t \in Nat \X Nat \X Nat :
            /\ t[1] \in DOMAIN incomplete
            /\ t[2] \in DOMAIN incomplete[t[1]].batches
            /\ t[3] \in incomplete[t[1]].batches[t[2]].fec}

\* Every packet that came is one handed over or one open FEC packet, or was of
\* no use: a recovered packet takes the place of a FEC packet.
CountInv == /\ IsFiniteSet(delivered) /\ IsFiniteSet(Fecs)
            /\ Cardinality(delivered) + Cardinality(Fecs) <= received

LEMMA UnionBound ==
    ASSUME NEW A, NEW B, IsFiniteSet(A), IsFiniteSet(B)
    PROVE  /\ IsFiniteSet(A \cup B)
           /\ Cardinality(A) \in Nat /\ Cardinality(B) \in Nat
           /\ Cardinality(A \cup B) \in Nat
           /\ Cardinality(A \cup B) <= Cardinality(A) + Cardinality(B)
<1>1. /\ IsFiniteSet(A \cup B)
      /\ Cardinality(A \cup B) = Cardinality(A) + Cardinality(B) - Cardinality(A \cap B)
  BY FS_Union
<1>2. IsFiniteSet(A \cap B)
  <2>1. A \cap B \in SUBSET A  OBVIOUS
  <2> QED  BY <2>1, FS_Subset
<1>3. Cardinality(A) \in Nat /\ Cardinality(B) \in Nat /\ Cardinality(A \cap B) \in Nat
      /\ Cardinality(A \cup B) \in Nat
  BY <1>1, <1>2, FS_CardinalityType
<1> QED  BY <1>1, <1>3

\* A batch that is complete recovers no more packets than it has FEC packets.
LEMMA RecoversNoMore ==
    ASSUME TypeInv, NEW S \in SUBSET DOMAIN pkts, NEW batch, HeldIn(batch, S),
           R!CheckComplete(batch)
    PROVE  /\ IsFiniteSet(batch.cover \ batch.data)
           /\ Cardinality(batch.cover \ batch.data) \in Nat /\ Cardinality(batch.fec) \in Nat
           /\ Cardinality(batch.cover \ batch.data) <= Cardinality(batch.fec)
<1>1. IsFiniteSet(S) /\ Cardinality(S) \in Nat  BY FinitePackets
<1>2. batch.data \in SUBSET S /\ batch.num = Cardinality(S)  BY DEF HeldIn
<1>3. IsFiniteSet(batch.data) /\ Cardinality(batch.data) \in Nat
  BY <1>1, <1>2, FS_Subset, FS_CardinalityType
<1>4. IsFiniteSet(batch.fec) /\ Cardinality(batch.fec) \in Nat
  BY FS_CardinalityType DEF HeldIn
<1>5. Cardinality(batch.data) + Cardinality(batch.fec) >= Cardinality(S)
  BY <1>2, CardinalityInReceiver DEF R!CheckComplete
<1>6. CASE batch.fec = {}
  <2>1. batch.cover \ batch.data = {}  BY <1>6 DEF HeldIn
  <2>2. IsFiniteSet({}) /\ Cardinality({}) = 0  BY FS_EmptySet
  <2> QED  BY <2>1, <2>2, <1>4
<1>7. CASE batch.fec # {}
  <2>1. batch.cover = S  BY <1>7 DEF HeldIn
  <2>2. /\ IsFiniteSet(S \ batch.data)
        /\ Cardinality(S \ batch.data) = Cardinality(S) - Cardinality(S \cap batch.data)
    BY <1>1, FS_Difference
  <2>3. S \cap batch.data = batch.data  BY <1>2
  <2>4. Cardinality(S \ batch.data) \in Nat  BY <2>2, FS_CardinalityType
  <2> DEFINE c == Cardinality(S)
             d == Cardinality(batch.data)
             f == Cardinality(batch.fec)
             r == Cardinality(S \ batch.data)
  <2>5. /\ c \in Nat /\ d \in Nat /\ f \in Nat /\ r \in Nat
        /\ r = c - d /\ d + f >= c
    BY <2>2, <2>3, <2>4, <1>1, <1>3, <1>4, <1>5
  <2> HIDE DEF c, d, f, r
  <2>6. r <= f  BY <2>5
  <2> QED  BY <2>1, <2>2, <2>4, <2>6, <1>4 DEF r, f
<1> QED  BY <1>6, <1>7

\* What a packet adds to the open FEC packets of its batch, and what the batch
\* takes away when it is done.
LEMMA FecsAfter ==
    ASSUME NEW mem, PathInv(mem), NEW m \in net, Receive(m)
    PROVE  LET group == R!GroupOf(m)
               old   == R!BatchOf(group, m)
               batch == R!AddToBatch(old, m)
               Mine  == {<<m.group, m.batch, i>> : i \in old.fec}
           IN  /\ Mine \subseteq Fecs
               /\ R!Useless(group, m) => Fecs' \subseteq Fecs
               /\ ~R!Useless(group, m) /\ R!CheckComplete(batch) => Fecs' \subseteq Fecs \ Mine
               /\ ~R!Useless(group, m) =>
                     Fecs' \subseteq Fecs \cup (IF m.kind = "FEC"
                                                THEN {<<m.group, m.batch, m.id>>} ELSE {})
<1>1. PICK g : g = m.group  OBVIOUS
<1>2. PICK b : b = m.batch  OBVIOUS
<1>3. PICK group : group = R!GroupOf(m)  OBVIOUS
<1>4. PICK old : old = R!BatchOf(group, m)  OBVIOUS
<1>5. PICK batch : batch = R!AddToBatch(old, m)  OBVIOUS
<1>6. PICK after : after = R!AddPacket(group, m)  OBVIOUS
<1> DEFINE Mine == {<<g, b, i>> : i \in old.fec}
<1>7. PacketIn(m, mem) /\ MembersInv(mem)  BY DEF PathInv, NetInv
<1>8. GroupIn(g, group, mem)  BY <1>1, <1>3, GroupFound
<1>9. /\ HeldIn(old, mem[b]) /\ g \in Nat /\ b \in Nat
      /\ m.kind = "DATA" => batch.fec = old.fec
      /\ m.kind = "FEC" => batch.fec = old.fec \cup {m.id}
      /\ m.kind \in {"DATA", "FEC"}
  <2>1. GroupIn(m.group, group, mem)  BY <1>1, <1>8
  <2> QED  BY <2>1, <1>1, <1>2, <1>4, <1>5, <1>7, BatchFound DEF PacketIn
<1>10. old.fec \subseteq Nat  BY <1>9 DEF HeldIn
\* The FEC packets of the old batch are open ones, and the other way round.
<1>11. Mine \subseteq Fecs
  <2> SUFFICES ASSUME NEW i \in old.fec  PROVE <<g, b, i>> \in Fecs  OBVIOUS
  <2>1. b \in DOMAIN group.batches /\ old = group.batches[b]
    <3>1. CASE b \in DOMAIN group.batches  BY <3>1, <1>2, <1>4 DEF R!BatchOf
    <3>2. CASE b \notin DOMAIN group.batches
      <4>1. old = [data |-> {}, fec |-> {}, cover |-> {}, num |-> m.bnum]
        BY <3>2, <1>2, <1>4 DEF R!BatchOf, R!NewBatch
      <4>2. old.fec = {}  BY <4>1
      <4> QED  BY <4>2
    <3> QED  BY <3>1, <3>2
  <2>2. g \in DOMAIN incomplete /\ group = incomplete[g]
    <3>1. CASE g \in DOMAIN incomplete  BY <3>1, <1>1, <1>3 DEF R!GroupOf
    <3>2. CASE g \notin DOMAIN incomplete
      <4>1. group = [encode |-> m.encode, num |-> m.gnum, batches |-> [c \in {} |-> 0],
                     done |-> {}, decoded |-> {}]
        BY <3>2, <1>1, <1>3 DEF R!GroupOf, R!NewGroup
      <4>2. DOMAIN group.batches = {}  BY <4>1
      <4> QED  BY <4>2, <2>1
    <3> QED  BY <3>1, <3>2
  <2>3. i \in Nat /\ i \in incomplete[g].batches[b].fec  BY <2>1, <2>2, <1>10
  <2>4. b \in DOMAIN incomplete[g].batches  BY <2>1, <2>2
  <2> QED  BY <2>2, <2>3, <2>4, <1>9 DEF Fecs
<1>12. /\ DOMAIN incomplete' \subseteq DOMAIN incomplete \cup {g}
       /\ \A h \in DOMAIN incomplete' : incomplete'[h] = IF h = g THEN after ELSE incomplete[h]
  <2>1. R!ReceiveUdpPacket(m, now)  BY DEF Receive
  <2> QED  BY <2>1, <1>1, <1>3, <1>6 DEF R!ReceiveUdpPacket
<1>13. ASSUME NEW t \in Fecs'
       PROVE  /\ t \in Nat \X Nat \X Nat /\ t = <<t[1], t[2], t[3]>>
              /\ \/ t \in Fecs /\ t[1] # g
                 \/ /\ t[1] = g /\ t[2] \in DOMAIN after.batches
                    /\ t[3] \in after.batches[t[2]].fec
  <2>1. /\ t \in Nat \X Nat \X Nat /\ t[1] \in DOMAIN incomplete'
        /\ t[2] \in DOMAIN incomplete'[t[1]].batches
        /\ t[3] \in incomplete'[t[1]].batches[t[2]].fec
    BY DEF Fecs
  <2>2. t = <<t[1], t[2], t[3]>>  BY <2>1
  <2>3. CASE t[1] = g  BY <2>1, <2>2, <2>3, <1>12
  <2>4. CASE t[1] # g
    <3>1. t[1] \in DOMAIN incomplete /\ incomplete'[t[1]] = incomplete[t[1]]
      BY <2>1, <2>4, <1>12
    <3> QED  BY <2>1, <2>2, <2>4, <3>1 DEF Fecs
  <2> QED  BY <2>3, <2>4
\* The open FEC packets of the group as it was.
<1>14. ASSUME NEW t \in Nat \X Nat \X Nat, t[1] = g, t[2] \in DOMAIN group.batches,
              t[3] \in group.batches[t[2]].fec
       PROVE  t \in Fecs
  <2>1. CASE g \in DOMAIN incomplete
    <3>1. group = incomplete[g]  BY <2>1, <1>1, <1>3 DEF R!GroupOf
    <3> QED  BY <2>1, <3>1, <1>14 DEF Fecs
  <2>2. CASE g \notin DOMAIN incomplete
    <3>1. group = [encode |-> m.encode, num |-> m.gnum, batches |-> [c \in {} |-> 0],
                   done |-> {}, decoded |-> {}]
      BY <2>2, <1>1, <1>3 DEF R!GroupOf, R!NewGroup
    <3>2. DOMAIN group.batches = {}  BY <3>1
    <3> QED  BY <3>2, <1>14
  <2> QED  BY <2>1, <2>2
<1>15. CASE R!Useless(group, m)
  <2>1. after.batches = group.batches  BY <1>6, <1>8, <1>15 DEF R!AddPacket, GroupIn
  <2>2. Fecs' \subseteq Fecs
    <3> SUFFICES ASSUME NEW t \in Fecs'  PROVE t \in Fecs  OBVIOUS
    <3> QED  BY <2>1, <1>13, <1>14
  <2> QED  BY <2>2, <1>1, <1>2, <1>3, <1>4, <1>5, <1>11, <1>15
<1>16. CASE ~R!Useless(group, m)
  <2> DEFINE full == R!CheckComplete(batch)
             B == (DOMAIN group.batches \cup {b}) \ (IF full THEN {b} ELSE {})
  <2>1. after.batches = [c \in B |-> IF c = b THEN batch ELSE group.batches[c]]
    BY <1>2, <1>4, <1>5, <1>6, <1>8, <1>16 DEF R!AddPacket, GroupIn
  <2>2. ASSUME full  PROVE Fecs' \subseteq Fecs \ Mine
    <3> SUFFICES ASSUME NEW t \in Fecs'  PROVE t \in Fecs /\ t \notin Mine  OBVIOUS
    <3>1. CASE t \in Fecs /\ t[1] # g
      <4>1. \A i \in old.fec : t # <<g, b, i>>  BY <3>1
      <4> QED  BY <3>1, <4>1
    <3>2. CASE t[1] = g /\ t[2] \in DOMAIN after.batches /\ t[3] \in after.batches[t[2]].fec
      <4>1. t[2] # b /\ t[2] \in DOMAIN group.batches /\ after.batches[t[2]] = group.batches[t[2]]
        BY <2>1, <2>2, <3>2
      <4>2. t \in Fecs  BY <3>2, <4>1, <1>13, <1>14
      <4>3. \A i \in old.fec : t # <<g, b, i>>  BY <4>1
      <4> QED  BY <4>2, <4>3
    <3> QED  BY <3>1, <3>2, <1>13
  <2>3. Fecs' \subseteq Fecs \cup (IF m.kind = "FEC" THEN {<<g, b, m.id>>} ELSE {})
    <3> SUFFICES ASSUME NEW t \in Fecs', t \notin Fecs
                 PROVE  m.kind = "FEC" /\ t = <<g, b, m.id>>
      OBVIOUS
    <3>1. t[1] = g /\ t[2] \in DOMAIN after.batches /\ t[3] \in after.batches[t[2]].fec
      BY <1>13
    <3>2. t[2] = b
      <4> SUFFICES ASSUME t[2] # b  PROVE FALSE  OBVIOUS
      <4>1. t[2] \in DOMAIN group.batches /\ after.batches[t[2]] = group.batches[t[2]]
        BY <2>1, <3>1
      <4> QED  BY <3>1, <4>1, <1>13, <1>14
    <3>3. t[3] \in batch.fec  BY <2>1, <3>1, <3>2
    <3>4. t[3] \notin old.fec
      <4> SUFFICES ASSUME t[3] \in old.fec  PROVE FALSE  OBVIOUS
      <4>1. t = <<g, b, t[3]>>  BY <3>1, <3>2, <1>13
      <4> QED  BY <4>1, <1>11
    <3>5. m.kind = "FEC" /\ t[3] = m.id  BY <3>3, <3>4, <1>9
    <3> QED  BY <3>1, <3>2, <3>5, <1>13
  <2> QED  BY <2>2, <2>3, <1>1, <1>2, <1>3, <1>4, <1>5, <1>11, <1>16
<1> QED  BY <1>15, <1>16
LEMMA ReceiveCounts ==
    ASSUME TypeInv, NEW mem, PathInv(mem), CountInv, NEW m \in net, Receive(m)
    PROVE  CountInv'
<1>1. PICK group : group = R!GroupOf(m)  OBVIOUS
<1>2. PICK old : old = R!BatchOf(group, m)  OBVIOUS
<1>3. PICK batch : batch = R!AddToBatch(old, m)  OBVIOUS
<1>4. PICK mine : mine = {<<m.group, m.batch, i>> : i \in old.fec}  OBVIOUS
<1>5. PICK new : new = IF m.kind = "FEC" THEN {<<m.group, m.batch, m.id>>} ELSE {}
  OBVIOUS
<1>6. PICK self : self = IF m.kind = "DATA" THEN {m.id} ELSE {}  OBVIOUS
<1>7. PICK won : won = batch.cover \ batch.data  OBVIOUS
<1>8. /\ mine \subseteq Fecs
      /\ R!Useless(group, m) => Fecs' \subseteq Fecs
      /\ ~R!Useless(group, m) /\ R!CheckComplete(batch) => Fecs' \subseteq Fecs \ mine
      /\ ~R!Useless(group, m) => Fecs' \subseteq Fecs \cup new
  BY <1>1, <1>2, <1>3, <1>4, <1>5, FecsAfter
<1>9. /\ R!Useless(group, m) => delivered' = delivered
      /\ ~R!Useless(group, m) /\ R!CheckComplete(batch) =>
            delivered' = (delivered \cup self) \cup won
      /\ ~R!Useless(group, m) /\ ~R!CheckComplete(batch) => delivered' = delivered \cup self
      /\ received' = received + 1
  <2>1. delivered' = delivered \cup R!Fresh(group, m) /\ received' = received + 1
    BY <1>1 DEF Receive, R!ReceiveUdpPacket, R!Decoded
  <2>2. /\ R!Useless(group, m) => R!Fresh(group, m) = {}
        /\ ~R!Useless(group, m) /\ R!CheckComplete(batch) => R!Fresh(group, m) = self \cup won
        /\ ~R!Useless(group, m) /\ ~R!CheckComplete(batch) => R!Fresh(group, m) = self
    BY <1>2, <1>3, <1>6, <1>7 DEF R!Fresh
  <2> QED  BY <2>1, <2>2
<1>10. /\ PacketIn(m, mem) /\ MembersInv(mem) /\ mem[m.batch] \in SUBSET DOMAIN pkts
       /\ received \in Nat
  BY DEF PathInv, NetInv, MembersInv, PacketIn, SettledInv
<1>11. /\ HeldIn(old, mem[m.batch]) /\ HeldIn(batch, mem[m.batch])
       /\ m.kind = "DATA" => batch.fec = old.fec
       /\ m.kind = "FEC" => batch.fec = old.fec \cup {m.id}
       /\ m.kind \in {"DATA", "FEC"}
  BY <1>1, <1>2, <1>3, <1>10, GroupFound, BatchFound DEF PacketIn
\* Of self and new, one has one element and the other none.
<1>12. /\ IsFiniteSet(self) /\ IsFiniteSet(new)
       /\ Cardinality(self) = IF m.kind = "DATA" THEN 1 ELSE 0
       /\ Cardinality(new) = IF m.kind = "DATA" THEN 0 ELSE 1
  BY <1>5, <1>6, <1>11, FS_Singleton, FS_EmptySet
<1>13. IsFiniteSet(delivered) /\ IsFiniteSet(Fecs)
       /\ Cardinality(delivered) + Cardinality(Fecs) <= received
  BY DEF CountInv
<1>14. Cardinality(delivered) \in Nat /\ Cardinality(Fecs) \in Nat
  BY <1>13, FS_CardinalityType
<1>15. /\ IsFiniteSet(delivered \cup self) /\ Cardinality(delivered \cup self) \in Nat
       /\ Cardinality(delivered \cup self) <= Cardinality(delivered) + Cardinality(self)
  BY <1>12, <1>13, UnionBound
<1>16. /\ IsFiniteSet(Fecs \cup new) /\ Cardinality(Fecs \cup new) \in Nat
       /\ Cardinality(Fecs \cup new) <= Cardinality(Fecs) + Cardinality(new)
  BY <1>12, <1>13, UnionBound
<1>17. CASE R!Useless(group, m)
  <2>1. Fecs' \in SUBSET Fecs /\ delivered' = delivered /\ received' = received + 1
    BY <1>8, <1>9, <1>17
  <2>2. IsFiniteSet(Fecs') /\ Cardinality(Fecs') <= Cardinality(Fecs)
    BY <2>1, <1>13, FS_Subset
  <2>3. Cardinality(Fecs') \in Nat  BY <2>2, FS_CardinalityType
  <2>4. Cardinality(delivered) + Cardinality(Fecs') <= received + 1
    <3> DEFINE f == Cardinality(Fecs)
               g == Cardinality(Fecs')
               d == Cardinality(delivered)
    <3>1. f \in Nat /\ g \in Nat /\ d \in Nat /\ g <= f /\ d + f <= received
      BY <2>2, <2>3, <1>13, <1>14
    <3> HIDE DEF f, g, d
    <3>2. d + g <= received + 1  BY <3>1, <1>10
    <3> QED  BY <3>2 DEF g, d
  <2> QED  BY <2>1, <2>2, <2>4, <1>13 DEF CountInv
<1>18. CASE ~R!Useless(group, m) /\ ~R!CheckComplete(batch)
  <2>1. /\ Fecs' \in SUBSET (Fecs \cup new) /\ delivered' = delivered \cup self
        /\ received' = received + 1
    BY <1>8, <1>9, <1>18
  <2>2. IsFiniteSet(Fecs') /\ Cardinality(Fecs') <= Cardinality(Fecs \cup new)
    BY <2>1, <1>16, FS_Subset
  <2>3. Cardinality(Fecs') \in Nat  BY <2>2, FS_CardinalityType
  <2>4. Cardinality(delivered \cup self) + Cardinality(Fecs') <= received + 1
    <3> DEFINE f == Cardinality(Fecs)
               g == Cardinality(Fecs')
               u == Cardinality(Fecs \cup new)
               d == Cardinality(delivered)
               e == Cardinality(delivered \cup self)
               s == Cardinality(self)
               n == Cardinality(new)
    <3>1. /\ f \in Nat /\ g \in Nat /\ u \in Nat /\ d \in Nat /\ e \in Nat
          /\ g <= u /\ u <= f + n /\ e <= d + s /\ d + f <= received
          /\ (s = 1 /\ n = 0) \/ (s = 0 /\ n = 1)
      BY <2>2, <2>3, <1>12, <1>13, <1>14, <1>15, <1>16
    <3> HIDE DEF f, g, u, d, e, s, n
    <3>2. e + g <= received + 1  BY <3>1, <1>10
    <3> QED  BY <3>2 DEF g, e
  <2> QED  BY <2>1, <2>2, <2>4, <1>15 DEF CountInv
<1>19. CASE ~R!Useless(group, m) /\ R!CheckComplete(batch)
  <2>1. /\ Fecs' \in SUBSET (Fecs \ mine) /\ delivered' = (delivered \cup self) \cup won
        /\ received' = received + 1
    BY <1>8, <1>9, <1>19
  <2>2. /\ IsFiniteSet(won) /\ Cardinality(won) \in Nat
        /\ Cardinality(batch.fec) \in Nat /\ Cardinality(won) <= Cardinality(batch.fec)
    BY <1>7, <1>10, <1>11, <1>19, RecoversNoMore
  <2>3. IsFiniteSet(old.fec) /\ Cardinality(old.fec) \in Nat
    BY <1>11, FS_CardinalityType DEF HeldIn
  <2>4. Cardinality(batch.fec) <= Cardinality(old.fec) + Cardinality(new)
    <3>1. CASE m.kind = "DATA"  BY <3>1, <2>3, <1>11, <1>12
    <3>2. CASE m.kind = "FEC"
      <4>1. Cardinality(old.fec \cup {m.id}) <= Cardinality(old.fec) + 1
        <5>1. Cardinality(old.fec \cup {m.id}) =
                IF m.id \in old.fec THEN Cardinality(old.fec) ELSE Cardinality(old.fec) + 1
          BY <2>3, FS_AddElement
        <5> QED  BY <5>1, <2>3
      <4> QED  BY <3>2, <4>1, <1>11, <1>12
    <3> QED  BY <3>1, <3>2, <1>11
  <2>5. IsFiniteSet(mine) /\ Cardinality(mine) \in Nat
    <3>1. mine \in SUBSET Fecs  BY <1>8
    <3> QED  BY <3>1, <1>13, FS_Subset, FS_CardinalityType
  <2>6. Cardinality(old.fec) <= Cardinality(mine)
    <3> DEFINE third == [t \in mine |-> t[3]]
    <3>1. third \in Surjection(mine, old.fec)
      <4>1. \A t \in mine : t[3] \in old.fec  BY <1>4
      <4>2. \A i \in old.fec : \E t \in mine : third[t] = i
        <5> SUFFICES ASSUME NEW i \in old.fec  PROVE \E t \in mine : third[t] = i
          OBVIOUS
        <5>1. <<m.group, m.batch, i>> \in mine  BY <1>4
        <5>2. third[<<m.group, m.batch, i>>] = i  BY <5>1
        <5> QED  BY <5>1, <5>2
      <4> QED  BY <4>1, <4>2 DEF Surjection
    <3> QED  BY <3>1, <2>5, FS_Surjection
  <2>7. /\ IsFiniteSet(Fecs \ mine) /\ Cardinality(Fecs \ mine) \in Nat
        /\ Cardinality(Fecs \ mine) = Cardinality(Fecs) - Cardinality(mine)
    <3>1. Fecs \cap mine = mine  BY <1>8
    <3>2. /\ IsFiniteSet(Fecs \ mine)
          /\ Cardinality(Fecs \ mine) = Cardinality(Fecs) - Cardinality(Fecs \cap mine)
      BY <1>13, FS_Difference
    <3>3. Cardinality(Fecs \ mine) \in Nat  BY <3>2, FS_CardinalityType
    <3> QED  BY <3>1, <3>2, <3>3
  <2>8. IsFiniteSet(Fecs') /\ Cardinality(Fecs') <= Cardinality(Fecs \ mine)
    BY <2>1, <2>7, FS_Subset
  <2>9. Cardinality(Fecs') \in Nat  BY <2>8, FS_CardinalityType
  <2>10. /\ IsFiniteSet((delivered \cup self) \cup won)
         /\ Cardinality((delivered \cup self) \cup won) \in Nat
         /\ Cardinality((delivered \cup self) \cup won)
               <= Cardinality(delivered \cup self) + Cardinality(won)
    BY <2>2, <1>15, UnionBound
  <2>11. Cardinality((delivered \cup self) \cup won) + Cardinality(Fecs') <= received + 1
    <3> DEFINE f == Cardinality(Fecs)
               g == Cardinality(Fecs')
               r == Cardinality(Fecs \ mine)
               k == Cardinality(mine)
               o == Cardinality(old.fec)
               b == Cardinality(batch.fec)
               w == Cardinality(won)
               d == Cardinality(delivered)
               e == Cardinality(delivered \cup self)
               a == Cardinality((delivered \cup self) \cup won)
               s == Cardinality(self)
               n == Cardinality(new)
    <3>1. /\ f \in Nat /\ g \in Nat /\ r \in Nat /\ k \in Nat /\ o \in Nat /\ b \in Nat
          /\ w \in Nat /\ d \in Nat /\ e \in Nat /\ a \in Nat
      BY <2>2, <2>3, <2>5, <2>7, <2>9, <2>10, <1>14, <1>15
    <3>2. /\ g <= r /\ r = f - k /\ o <= k /\ b <= o + n /\ w <= b
          /\ a <= e + w /\ e <= d + s /\ d + f <= received
      BY <2>2, <2>4, <2>6, <2>7, <2>8, <2>10, <1>13, <1>15
    <3>3. (s = 1 /\ n = 0) \/ (s = 0 /\ n = 1)  BY <1>12
    <3> HIDE DEF f, g, r, k, o, b, w, d, e, a, s, n
    <3>4. a + g <= received + 1  BY <3>1, <3>2, <3>3, <1>10
    <3> QED  BY <3>4 DEF a, g
  <2> QED  BY <2>1, <2>8, <2>10, <2>11 DEF CountInv
<1> QED  BY <1>17, <1>18, <1>19

\* What goes to the decoder is no less than the groups settled as complete hold
\* and no more than the packets that came: recovery makes no packet.
THEOREM DeliveriesAreSound == PathSpec => []DeliveriesSound
<1>1. PathInit => WholeInv /\ CountInv
  <2> SUFFICES ASSUME PathInit  PROVE WholeInv /\ CountInv  OBVIOUS
  <2>1. incomplete = [g \in {} |-> 0] /\ delivered = {} /\ received = 0
    BY DEF PathInit, R!ReceiverInit
  <2>2. Fecs = {}  BY <2>1 DEF Fecs
  <2>3. IsFiniteSet({}) /\ Cardinality({}) = 0  BY FS_EmptySet
  <2> QED  BY <2>1, <2>2, <2>3, WholeInitial DEF CountInv
<1>2. WholeInv /\ CountInv /\ [PathNext]_pathVars => (WholeInv /\ CountInv)'
  <2> SUFFICES ASSUME WholeInv, CountInv, [PathNext]_pathVars  PROVE WholeInv' /\ CountInv'
    OBVIOUS
  <2>1. WholeInv'  BY WholeStep
  <2>2. CASE \E m \in net : Receive(m)
    <3>1. PICK mem : PathInv(mem)  BY DEF WholeInv
    <3>2. TypeInv  BY DEF WholeInv, IInv
    <3> QED  BY <2>1, <2>2, <3>1, <3>2, ReceiveCounts
  <2>3. CASE UNCHANGED receiverVars
    BY <2>1, <2>3 DEF receiverVars, CountInv, Fecs
  <2>4. (\E m \in net : Receive(m)) \/ UNCHANGED receiverVars
    BY DEF PathNext, PathSend, ReceiveAck, SenderAlone, pathVars
  <2> QED  BY <2>2, <2>3, <2>4
<1>3. WholeInv /\ CountInv => DeliveriesSound
  <2> SUFFICES ASSUME WholeInv, CountInv  PROVE DeliveriesSound  OBVIOUS
  <2>1. CompleteIsDelivered /\ received \in Nat  BY DEF WholeInv, PathInv, SettledInv
  <2>2. Cardinality(delivered) \in Nat /\ Cardinality(Fecs) \in Nat
    BY FS_CardinalityType DEF CountInv
  <2>3. Cardinality(delivered) <= received  BY <2>1, <2>2 DEF CountInv
  <2> QED  BY <2>1, <2>3 DEF DeliveriesSound, NothingFromNothing
<1> QED  BY <1>1, <1>2, <1>3, PTL DEF PathSpec

------------------------------------------------------------------------------
(* The decoder, for every stream and every deadline.                       *)
(*                                                                         *)
(* The invariant: the settled frames are 0 .. p - 1 for some p, the frames *)
(* that wait are not among them and not newer than maxFrame, and           *)
(* m_lastPlayedFrameId, which the discard loop may move back, stays within *)
(* a deadline of maxFrame.  Hence the loop runs only for a packet of a new *)
(* newest frame, and its catch-up cannot play the frame of the packet.     *)

LEMMA SmallestNat ==
    ASSUME NEW S \in SUBSET Nat, S # {}
    PROVE  \E x \in S : \A y \in S : x <= y
<1>1. PICK x \in S : \A y \in S : ~(<<y, x>> \in OpToRel(<, Nat))
    BY NatLessThanWellFounded, WFMin, Zenon
<1>2. SUFFICES ASSUME NEW y \in S PROVE x <= y
    OBVIOUS
<1>3. ~(<<y, x>> \in OpToRel(<, Nat))
    BY <1>1
<1>4. ~(y < x)
    BY <1>3, Zenon DEF OpToRel
<1> QED BY <1>4

\* Induction on the numbers from a to b, for a set in the place of a predicate.
LEMMA UpTo ==
    ASSUME NEW a \in Int, NEW b \in Int, NEW P,
           a \in P, \A k \in a .. b - 1 : k \in P => k + 1 \in P
    PROVE  \A k \in a .. b : k \in P
<1> DEFINE Bad == {i \in Nat : a + i \in a .. b /\ a + i \notin P}
<1> SUFFICES ASSUME NEW k \in a .. b, k \notin P  PROVE FALSE  OBVIOUS
<1>1. Bad \in SUBSET Nat /\ k - a \in Bad
  <2>1. k - a \in Nat /\ a + (k - a) = k  OBVIOUS
  <2> QED  BY <2>1
<1>2. PICK m \in Bad : \A y \in Bad : m <= y  BY <1>1, SmallestNat
<1>3. m \in Nat /\ a + m \in a .. b /\ a + m \notin P /\ m # 0  BY <1>2
<1>4. m - 1 \in Nat /\ m - 1 \notin Bad /\ a + (m - 1) \in a .. b - 1  BY <1>2, <1>3
<1>5. a + (m - 1) \in P  BY <1>4
<1>6. (a + (m - 1)) + 1 = a + m  BY <1>3
<1> QED  BY <1>3, <1>4, <1>5, <1>6

------------------------------------------------------------------------------
\* s is a record of the decoder's variables.
IsState(s) ==
    /\ DOMAIN s = {"unplayed", "played", "last", "decoded", "acks"}
    /\ s = [x \in DOMAIN s |-> s[x]]

Increasing(d) == \A i, j \in 1 .. Len(d) : i < j => d[i] < d[j]

\* The frames 0 .. p - 1 are settled, those of the unplayed_frames are not.
StateOK(s, p) ==
    /\ IsState(s)
    /\ p \in Nat /\ 0 .. p - 1 \subseteq Frames
    /\ DOMAIN s.played = 0 .. p - 1
    /\ \A f \in DOMAIN s.played : s.played[f] \subseteq 1 .. FrameSize[f]
    /\ DOMAIN s.unplayed \subseteq Frames \ (0 .. p - 1)
    /\ \A f \in DOMAIN s.unplayed : s.unplayed[f] \subseteq 1 .. FrameSize[f] /\ s.unplayed[f] # {}
    /\ s.last \in -1 .. p - 1
    /\ s.decoded \in Seq(0 .. p - 1) /\ Increasing(s.decoded)

\* t has the played_frames, the unplayed_frames and the m_lastPlayedFrameId of s
\* after a .. b were moved.
Moved(s, t, a, b) ==
    /\ t.played = [g \in DOMAIN s.played \cup a .. b |->
                     IF g \notin a .. b THEN s.played[g]
                     ELSE IF g \in DOMAIN s.unplayed THEN s.unplayed[g] ELSE NoFrame]
    /\ t.unplayed = [g \in DOMAIN s.unplayed \ (a .. b) |-> s.unplayed[g]]
    /\ t.last = IF a <= b THEN b ELSE s.last

LEMMA MoveFields ==
    ASSUME NEW s, IsState(s), NEW a, NEW b
    PROVE  /\ IsState(Move(s, a, b)) /\ Moved(s, Move(s, a, b), a, b)
           /\ Move(s, a, b).decoded = s.decoded
<1>1. IsState(Move(s, a, b))
  <2>1. DOMAIN Move(s, a, b) = DOMAIN s  BY DEF IsState, Move
  <2>2. Move(s, a, b) = [x \in DOMAIN s |-> Move(s, a, b)[x]]  BY DEF IsState, Move
  <2> QED  BY <2>1, <2>2 DEF IsState
<1>2. Move(s, a, b).last = IF a <= b THEN b ELSE s.last  BY DEF IsState, Move
<1>3. Move(s, a, b).decoded = s.decoded  BY DEF IsState, Move
<1>4. Move(s, a, b).unplayed = [g \in DOMAIN s.unplayed \ (a .. b) |-> s.unplayed[g]]
  BY DEF IsState, Move
<1>5. Move(s, a, b).played =
        [g \in DOMAIN s.played \cup a .. b |->
           IF g \notin a .. b THEN s.played[g]
           ELSE IF g \in DOMAIN s.unplayed THEN s.unplayed[g] ELSE NoFrame]
  BY DEF IsState, Move
<1> QED  BY <1>1, <1>2, <1>3, <1>4, <1>5 DEF Moved

LEMMA PlayFields ==
    ASSUME NEW s, IsState(s), NEW a, NEW b
    PROVE  /\ IsState(Play(s, a, b)) /\ IsState(PlayAndAck(s, a, b))
           /\ Moved(s, Play(s, a, b), a, b) /\ Moved(s, PlayAndAck(s, a, b), a, b)
           /\ Play(s, a, b).decoded = s.decoded \o FramesFrom(a, b)
           /\ PlayAndAck(s, a, b).decoded = s.decoded \o FramesFrom(a, b)
<1>1. /\ IsState(Move(s, a, b)) /\ Moved(s, Move(s, a, b), a, b)
      /\ Move(s, a, b).decoded = s.decoded
  BY MoveFields
<1> DEFINE m == Move(s, a, b)
           t == Play(s, a, b)
           u == PlayAndAck(s, a, b)
<1>2. t = [m EXCEPT !.decoded = @ \o FramesFrom(a, b)]  BY DEF Play
<1>3. u = [t EXCEPT !.acks = @ \o FramesFrom(a, b)]  BY DEF PlayAndAck
<1> HIDE DEF m, t, u
<1>4. /\ DOMAIN t = DOMAIN m /\ t.decoded = m.decoded \o FramesFrom(a, b)
      /\ t.played = m.played /\ t.unplayed = m.unplayed /\ t.last = m.last
  BY <1>1, <1>2 DEF IsState, m
<1>5. t = [x \in DOMAIN t |-> t[x]]  BY <1>2
<1>6. IsState(t)  BY <1>1, <1>4, <1>5 DEF IsState, m
<1>7. /\ DOMAIN u = DOMAIN t /\ u.decoded = t.decoded
      /\ u.played = t.played /\ u.unplayed = t.unplayed /\ u.last = t.last
  BY <1>3, <1>6 DEF IsState
<1>8. u = [x \in DOMAIN u |-> u[x]]  BY <1>3
<1>9. IsState(u)  BY <1>6, <1>7, <1>8 DEF IsState
<1> QED  BY <1>1, <1>4, <1>6, <1>7, <1>9 DEF m, t, u, Moved

\* Frames behind all that are decoded keep the order.
LEMMA DecodedGrows ==
    ASSUME NEW p \in Nat, NEW q \in Nat, NEW d \in Seq(0 .. p - 1), Increasing(d),
           NEW a \in Nat, NEW b \in Int, p <= q, a - 1 <= b, b < q, a <= b => p <= a
    PROVE  /\ d \o FramesFrom(a, b) \in Seq(0 .. q - 1)
           /\ Increasing(d \o FramesFrom(a, b))
<1> DEFINE e == FramesFrom(a, b)
           n == b - a + 1
           T == 0 .. q - 1
           c == d \o e
<1>1. n \in Nat /\ Len(e) = n /\ e \in Seq(T) /\ \A i \in 1 .. n : e[i] = a + i - 1
  <2>1. n \in Nat /\ e = [i \in 1 .. n |-> a + i - 1]  BY DEF FramesFrom
  <2>2. \A i \in 1 .. n : a + i - 1 \in T  OBVIOUS
  <2>3. e \in [1 .. n -> T]
    <3> HIDE DEF n, T, e
    <3> QED  BY <2>1, <2>2
  <2>4. e \in Seq(T)
    <3> HIDE DEF n, T, e
    <3> QED  BY <2>1, <2>3, SeqDef, ZenonT(60)
  <2>5. Len(e) = n
    <3> HIDE DEF n, T
    <3> QED  BY <2>1
  <2> HIDE DEF T, e, n
  <2> QED  BY <2>1, <2>4, <2>5
<1>2. d \in Seq(T)
  <2>1. 0 .. p - 1 \subseteq T  OBVIOUS
  <2> HIDE DEF T
  <2> QED  BY <2>1, SeqMonotonic
<1>3. Len(d) \in Nat /\ \A i \in 1 .. Len(d) : d[i] \in 0 .. p - 1
  BY LenProperties, ElementOfSeq
<1>4. /\ c \in Seq(T) /\ Len(c) = Len(d) + Len(e)
      /\ \A i \in 1 .. Len(d) + Len(e) : c[i] = IF i <= Len(d) THEN d[i] ELSE e[i - Len(d)]
  <2> HIDE DEF T, e
  <2> QED  BY <1>1, <1>2, ConcatProperties
<1>5. Increasing(c)
  <2> SUFFICES ASSUME NEW i \in 1 .. Len(d) + n, NEW j \in 1 .. Len(d) + n, i < j
               PROVE  c[i] < c[j]
    BY <1>1, <1>4 DEF Increasing
  <2>0. p <= a \/ n = 0  OBVIOUS
  <2> HIDE DEF c, e, n
  <2>1. CASE j <= Len(d)
    <3>1. i \in 1 .. Len(d) /\ j \in 1 .. Len(d) /\ c[i] = d[i] /\ c[j] = d[j]
      BY <1>1, <1>3, <1>4, <2>1
    <3> QED  BY <3>1 DEF Increasing
  <2>2. CASE i <= Len(d) /\ j > Len(d)
    <3>1. j - Len(d) \in 1 .. n /\ c[j] = e[j - Len(d)]  BY <1>1, <1>3, <1>4, <2>2, SMTT(30)
    <3>2. c[j] = a + (j - Len(d)) - 1  BY <1>1, <3>1
    <3>3. i \in 1 .. Len(d) /\ c[i] = d[i]  BY <1>1, <1>3, <1>4, <2>2
    <3>4. c[i] \in 0 .. p - 1  BY <1>3, <3>3
    <3> QED  BY <1>1, <1>3, <2>0, <3>1, <3>2, <3>4
  <2>3. CASE i > Len(d)
    <3>1. i - Len(d) \in 1 .. n /\ j - Len(d) \in 1 .. n /\ j > Len(d)  BY <1>1, <1>3, <2>3
    <3>2. c[i] = e[i - Len(d)]  BY <1>1, <1>3, <1>4, <2>3
    <3>3. c[j] = e[j - Len(d)]  BY <1>1, <1>3, <1>4, <3>1
    <3>4. c[i] = a + (i - Len(d)) - 1 /\ c[j] = a + (j - Len(d)) - 1  BY <1>1, <3>1, <3>2, <3>3
    <3> QED  BY <1>1, <1>3, <3>1, <3>4
  <2> QED  BY <1>1, <1>3, <2>1, <2>2, <2>3
<1> QED  BY <1>4, <1>5

\* How many frames are settled after a .. b are, when 0 .. p - 1 were.
After(p, b) == IF b + 1 > p THEN b + 1 ELSE p

\* Settling frames of which the first is at most the first unsettled one.
LEMMA MoveKeeps ==
    ASSUME NEW s, NEW p, StateOK(s, p), NEW a \in 0 .. p, NEW b \in Int, a - 1 <= b,
           a .. b \subseteq Frames, NEW t, IsState(t),
           Moved(s, t, a, b),
           t.decoded \in Seq(0 .. After(p, b) - 1), Increasing(t.decoded)
    PROVE  StateOK(t, After(p, b))
<1> DEFINE q == After(p, b)
<1>1. /\ IsState(s) /\ p \in Nat /\ 0 .. p - 1 \subseteq Frames /\ DOMAIN s.played = 0 .. p - 1
      /\ s.last \in -1 .. p - 1
  BY DEF StateOK
<1>2. /\ t.played = [g \in DOMAIN s.played \cup a .. b |->
                       IF g \notin a .. b THEN s.played[g]
                       ELSE IF g \in DOMAIN s.unplayed THEN s.unplayed[g] ELSE NoFrame]
      /\ t.unplayed = [g \in DOMAIN s.unplayed \ (a .. b) |-> s.unplayed[g]]
      /\ t.last = IF a <= b THEN b ELSE s.last
  BY DEF Moved
<1>3. q \in Nat /\ (0 .. p - 1) \cup a .. b = 0 .. q - 1  BY <1>1 DEF After
<1>4. DOMAIN t.played = 0 .. q - 1  BY <1>1, <1>2, <1>3
<1>5. 0 .. q - 1 \subseteq Frames  BY <1>1, <1>3
<1>6. \A f \in DOMAIN t.played : t.played[f] \subseteq 1 .. FrameSize[f]
  BY <1>2 DEF StateOK, NoFrame
<1>7. DOMAIN t.unplayed \subseteq Frames \ (0 .. q - 1)
  <2> HIDE DEF q
  <2> QED  BY <1>2, <1>3 DEF StateOK
<1>8. \A f \in DOMAIN t.unplayed : t.unplayed[f] \subseteq 1 .. FrameSize[f] /\ t.unplayed[f] # {}
  BY <1>2 DEF StateOK
<1>9. t.last \in -1 .. q - 1  BY <1>1, <1>2 DEF After
<1> QED  BY <1>3, <1>4, <1>5, <1>6, <1>7, <1>8, <1>9 DEF StateOK

\* Playing frames from the first unsettled one on.
LEMMA PlayKeeps ==
    ASSUME NEW s, NEW p, StateOK(s, p), NEW a \in 0 .. p, NEW b \in Int, a - 1 <= b,
           a .. b \subseteq Frames, a <= b => a = p
    PROVE  /\ StateOK(Play(s, a, b), After(p, b))
           /\ StateOK(PlayAndAck(s, a, b), After(p, b))
<1>1. IsState(s) /\ p \in Nat /\ s.decoded \in Seq(0 .. p - 1) /\ Increasing(s.decoded)
  BY DEF StateOK
<1>2. After(p, b) \in Nat /\ p <= After(p, b) /\ b < After(p, b)  BY <1>1 DEF After
<1>3. s.decoded \o FramesFrom(a, b) \in Seq(0 .. After(p, b) - 1)
      /\ Increasing(s.decoded \o FramesFrom(a, b))
  <2>1. a \in Nat /\ (a <= b => p <= a)  BY <1>1
  <2> QED  BY <1>1, <1>2, <2>1, DecodedGrows
<1>4. /\ IsState(Play(s, a, b)) /\ IsState(PlayAndAck(s, a, b))
      /\ Moved(s, Play(s, a, b), a, b) /\ Moved(s, PlayAndAck(s, a, b), a, b)
      /\ Play(s, a, b).decoded = s.decoded \o FramesFrom(a, b)
      /\ PlayAndAck(s, a, b).decoded = s.decoded \o FramesFrom(a, b)
  BY <1>1, PlayFields
<1>5. StateOK(Play(s, a, b), After(p, b)) /\ StateOK(PlayAndAck(s, a, b), After(p, b))
  BY <1>3, <1>4, MoveKeeps
<1> QED  BY <1>5

\* The run of full frames that a catch-up loop plays.
LEMMA RunEndIs ==
    ASSUME NEW s, NEW f \in Nat, NEW top \in Int
    PROVE  /\ RunEnd(s, f, top) \in {f - 1} \cup f .. top
           /\ \A h \in f .. RunEnd(s, f, top) : Full(s, h)
           /\ RunEnd(s, f, top) < top => ~Full(s, RunEnd(s, f, top) + 1)
<1> DEFINE Is(e) == /\ \A h \in f .. e : Full(s, h)
                    /\ e < top => ~Full(s, e + 1)
           Gaps == {h \in f .. top : ~Full(s, h)}
<1>1. \E e \in {f - 1} \cup f .. top : Is(e)
  <2>1. CASE Gaps = {} /\ f <= top
    <3>1. top \in f .. top /\ Is(top)  BY <2>1
    <3> HIDE DEF Is
    <3> QED  BY <3>1
  <2>2. CASE top < f
    <3>1. Is(f - 1)  BY <2>2
    <3> HIDE DEF Is
    <3> QED  BY <3>1
  <2>3. CASE Gaps # {}
    <3>1. Gaps \in SUBSET Nat  OBVIOUS
    <3>2. PICK m \in Gaps : \A h \in Gaps : m <= h
      <4> HIDE DEF Gaps
      <4> QED  BY <2>3, <3>1, SmallestNat
    <3>3. m - 1 \in {f - 1} \cup f .. top /\ (m - 1) + 1 = m  OBVIOUS
    <3>4. \A h \in f .. m - 1 : Full(s, h)  BY <3>2
    <3>5. Is(m - 1)  BY <3>3, <3>4
    <3> HIDE DEF Is
    <3> QED  BY <3>3, <3>5
  <2> QED  BY <2>1, <2>2, <2>3
<1>2. RunEnd(s, f, top) = CHOOSE e \in {f - 1} \cup f .. top : Is(e)  BY DEF RunEnd
<1>3. RunEnd(s, f, top) \in {f - 1} \cup f .. top /\ Is(RunEnd(s, f, top))
  <2> HIDE DEF Is
  <2> QED  BY <1>1, <1>2, Zenon
<1> QED  BY <1>3

------------------------------------------------------------------------------
\* The loop of Discard, from s on.
LoopTurn(s, g, idx) == IF idx = s.last THEN s ELSE DiscardOne(g[idx - 1], idx)
IsLoop(s, g, b) == g = [idx \in s.last .. b |-> LoopTurn(s, g, idx)]

LEMMA LoopExists ==
    ASSUME NEW s, s.last \in Int, NEW b \in Int, s.last <= b
    PROVE  \E g : IsLoop(s, g, b)
<1> DEFINE a == s.last
           P == {m \in a .. b : \E g : IsLoop(s, g, m)}
<1>1. a \in P
  <2> DEFINE g == [idx \in a .. a |-> s]
  <2>1. IsLoop(s, g, a)  BY DEF IsLoop, LoopTurn
  <2> HIDE DEF g
  <2> QED  BY <2>1
<1>2. ASSUME NEW m \in a .. b - 1, m \in P  PROVE m + 1 \in P
  <2>1. PICK g : IsLoop(s, g, m)  BY <1>2
  <2> DEFINE h == [idx \in a .. m + 1 |->
                     IF idx = m + 1 THEN DiscardOne(g[m], m + 1) ELSE g[idx]]
  <2>2. \A idx \in a .. m : g[idx] = LoopTurn(s, g, idx)  BY <2>1 DEF IsLoop
  <2>3. ASSUME NEW idx \in a .. m + 1
        PROVE  h[idx] = LoopTurn(s, h, idx)
    <3>1. CASE idx = m + 1
      <4>1. h[idx] = DiscardOne(g[m], m + 1) /\ h[idx - 1] = g[m] /\ idx # a  BY <3>1
      <4> QED  BY <3>1, <4>1 DEF LoopTurn
    <3>2. CASE idx = a
      <4>1. h[idx] = g[idx] /\ g[idx] = s  BY <2>2, <3>2 DEF LoopTurn
      <4> QED  BY <3>2, <4>1 DEF LoopTurn
    <3>3. CASE idx # m + 1 /\ idx # a
      <4>1. h[idx] = g[idx] /\ h[idx - 1] = g[idx - 1] /\ idx \in a .. m  BY <3>3
      <4> HIDE DEF h
      <4> QED  BY <2>2, <3>3, <4>1 DEF LoopTurn
    <3> QED  BY <3>1, <3>2, <3>3
  <2>4. h = [idx \in a .. m + 1 |-> h[idx]]  OBVIOUS
  <2> HIDE DEF h
  <2>5. IsLoop(s, h, m + 1)  BY <2>3, <2>4 DEF IsLoop
  <2> QED  BY <2>5
<1>3. \A m \in a .. b : m \in P
  <2> HIDE DEF P
  <2> QED  BY <1>1, <1>2, UpTo
<1> QED  BY <1>3

\* What Discard returns, by the turns of its loop.
LEMMA DiscardIs ==
    ASSUME NEW s, s.last \in Int, NEW f \in Int
    PROVE  \/ Bound(f) <= s.last /\ Discard(s, f) = s
           \/ /\ Bound(f) > s.last
              /\ \E g : IsLoop(s, g, Bound(f)) /\ Discard(s, f) = g[Bound(f)]
<1> DEFINE Body(g) == [idx \in s.last .. Bound(f) |->
                         IF idx = s.last THEN s ELSE DiscardOne(g[idx - 1], idx)]
           loop == CHOOSE g : g = Body(g)
<1>1. Bound(f) \in Int  BY DecoderAssumption DEF Bound
<1>2. CASE Bound(f) <= s.last
  <2>1. ~(Bound(f) > s.last)  BY <1>1, <1>2
  <2> QED  BY <1>2, <2>1, Zenon DEF Discard
<1>3. CASE Bound(f) > s.last
  <2>1. PICK g : IsLoop(s, g, Bound(f))
    <3>1. s.last <= Bound(f)  BY <1>1, <1>3
    <3> QED  BY <1>1, <3>1, LoopExists
  <2>2. g = Body(g)  BY <2>1, Zenon DEF IsLoop, LoopTurn
  <2>3. loop = Body(loop)
    <3> HIDE DEF Body
    <3> QED  BY <2>2, Zenon
  <2>4. Discard(s, f) = loop[Bound(f)]  BY <1>3, Zenon DEF Discard
  <2> HIDE DEF loop
  <2>5. IsLoop(s, loop, Bound(f))  BY <2>3, Zenon DEF IsLoop, LoopTurn
  <2> QED  BY <1>3, <2>4, <2>5
<1> QED  BY <1>1, <1>2, <1>3

\* What a turn idx of the discard loop for a packet of the new frame f leaves.
Discarded(t, q, idx, f) ==
    /\ StateOK(t, q) /\ idx < q /\ q <= f
    /\ idx <= t.last
    /\ DOMAIN t.unplayed \subseteq 0 .. maxFrame

LEMMA DiscardOneKeeps ==
    ASSUME NEW s, NEW p, StateOK(s, p), NEW f \in Frames, p <= f,
           NEW idx \in 0 .. p, idx < f, maxFrame \in Nat, maxFrame < f,
           DOMAIN s.unplayed \subseteq 0 .. maxFrame
    PROVE  \E q : Discarded(DiscardOne(s, idx), q, idx, f)
<1> DEFINE gone == Move(s, idx, idx)
           e == RunEnd(gone, idx + 1, maxFrame)
           t == Play(gone, idx + 1, e)
           r == After(p, idx)
           q == After(r, e)
<1>1. IsState(s) /\ p \in Nat /\ s.decoded \in Seq(0 .. p - 1) /\ Increasing(s.decoded)
  BY DEF StateOK
<1>2. f \in Nat /\ 0 .. f \subseteq Frames /\ idx \in Nat  BY <1>1, DecoderAssumption DEF Frames
<1>3. IsState(gone) /\ Moved(s, gone, idx, idx) /\ gone.decoded = s.decoded
  BY <1>1, MoveFields
<1>4. r \in Nat /\ idx + 1 <= r /\ p <= r /\ r <= f  BY <1>1, <1>2 DEF After
<1>5. StateOK(gone, r)
  <2>1. gone.decoded \in Seq(0 .. r - 1)
    <3>1. 0 .. p - 1 \subseteq 0 .. r - 1  BY <1>1, <1>4
    <3> QED  BY <1>1, <1>3, <3>1, SeqMonotonic
  <2>2. idx .. idx \subseteq Frames /\ idx - 1 <= idx  BY <1>2
  <2> HIDE DEF gone
  <2> QED  BY <1>1, <1>2, <1>3, <2>1, <2>2, MoveKeeps
<1>6. /\ DOMAIN gone.unplayed \subseteq 0 .. maxFrame
      /\ DOMAIN gone.unplayed \subseteq Frames \ (0 .. r - 1)
      /\ gone.last = idx
  BY <1>2, <1>3, <1>5 DEF Moved, StateOK
<1> HIDE DEF gone, r
<1>7. /\ e \in {idx} \cup idx + 1 .. maxFrame
      /\ \A h \in idx + 1 .. e : Full(gone, h)
  <2>1. idx + 1 \in Nat /\ (idx + 1) - 1 = idx /\ maxFrame \in Int  BY <1>2
  <2> QED  BY <2>1, RunEndIs
<1> HIDE DEF e
<1>8. /\ \A h \in idx + 1 .. e : h \in DOMAIN gone.unplayed
      /\ e \in Int /\ idx <= e /\ e < f
  BY <1>2, <1>7 DEF Full
<1>9. idx + 1 <= e => idx + 1 = r
  <2> SUFFICES ASSUME idx + 1 <= e  PROVE idx + 1 = r  OBVIOUS
  <2>1. idx + 1 \in idx + 1 .. e  BY <1>2, <1>8
  <2>2. idx + 1 \notin 0 .. r - 1  BY <1>6, <1>8, <2>1
  <2> QED  BY <1>2, <1>4, <2>2
<1>10. StateOK(t, q)
  <2>1. idx + 1 \in 0 .. r /\ (idx + 1) - 1 <= e /\ idx + 1 .. e \subseteq Frames
    BY <1>2, <1>4, <1>6, <1>8
  <2> QED  BY <1>5, <1>8, <1>9, <2>1, PlayKeeps
<1>11. Moved(gone, t, idx + 1, e)  BY <1>3, PlayFields
<1>12. q <= f /\ idx < q  BY <1>2, <1>4, <1>8 DEF After
<1>13. DOMAIN t.unplayed \subseteq 0 .. maxFrame
  <2> HIDE DEF t
  <2> QED  BY <1>6, <1>11 DEF Moved
<1>14. idx <= t.last
  <2> HIDE DEF t
  <2> QED  BY <1>2, <1>6, <1>8, <1>11 DEF Moved
<1>15. DiscardOne(s, idx) = t  BY DEF DiscardOne, gone, e
<1> HIDE DEF t, q
<1> QED  BY <1>10, <1>12, <1>13, <1>14, <1>15 DEF Discarded

\* The discard loop runs only for a packet of a frame newer than all others.
LEMMA DiscardKeeps ==
    ASSUME NEW s, NEW p, StateOK(s, p), NEW f \in Frames, p <= f, maxFrame \in Nat,
           DOMAIN s.unplayed \subseteq 0 .. maxFrame, s.last >= maxFrame - DdlFrames
    PROVE  \E q : /\ StateOK(Discard(s, f), q) /\ q <= f
                  /\ DOMAIN Discard(s, f).unplayed \subseteq 0 .. maxFrame
                  /\ Discard(s, f).last >= maxFrame - DdlFrames
                  /\ Discard(s, f).last >= Bound(f)
<1>1. p \in Nat /\ s.last \in Int /\ -1 <= s.last /\ s.last < p  BY DEF StateOK
<1>2. /\ f \in Nat /\ DdlFrames \in Nat /\ DdlFrames > 0
      /\ Bound(f) = f - DdlFrames /\ Bound(f) \in Int
  BY DecoderAssumption DEF Frames, Bound
<1>3. CASE Bound(f) <= s.last /\ Discard(s, f) = s
  BY <1>1, <1>2, <1>3
<1>4. CASE Bound(f) > s.last /\ \E g : IsLoop(s, g, Bound(f)) /\ Discard(s, f) = g[Bound(f)]
  <2>1. PICK g : IsLoop(s, g, Bound(f)) /\ Discard(s, f) = g[Bound(f)]  BY <1>4
  <2>2. \A idx \in s.last .. Bound(f) : g[idx] = LoopTurn(s, g, idx)  BY <2>1 DEF IsLoop
  <2>3. maxFrame < f  BY <1>1, <1>2, <1>4
  <2> DEFINE P == {idx \in s.last .. Bound(f) : \E q : Discarded(g[idx], q, idx, f)}
  <2>4. s.last \in P
    <3>1. g[s.last] = s /\ s.last \in s.last .. Bound(f)  BY <1>1, <1>2, <1>4, <2>2 DEF LoopTurn
    <3>2. Discarded(g[s.last], p, s.last, f)  BY <1>1, <3>1 DEF Discarded
    <3> QED  BY <3>1, <3>2
  <2>5. ASSUME NEW k \in s.last .. Bound(f) - 1, k \in P  PROVE k + 1 \in P
    <3>1. PICK q : Discarded(g[k], q, k, f)  BY <2>5
    <3>2. /\ StateOK(g[k], q) /\ k < q /\ q <= f
          /\ DOMAIN g[k].unplayed \subseteq 0 .. maxFrame
      BY <3>1 DEF Discarded
    <3>3. /\ k + 1 \in s.last .. Bound(f) /\ k + 1 # s.last /\ (k + 1) - 1 = k
          /\ k + 1 \in Nat /\ k + 1 < f
      BY <1>1, <1>2
    <3>4. q \in Nat /\ k + 1 \in 0 .. q  BY <3>2, <3>3 DEF StateOK
    <3>5. g[k + 1] = DiscardOne(g[k], k + 1)  BY <2>2, <3>3 DEF LoopTurn
    <3>6. \E z : Discarded(DiscardOne(g[k], k + 1), z, k + 1, f)
      BY <2>3, <3>2, <3>3, <3>4, DiscardOneKeeps
    <3> QED  BY <3>3, <3>5, <3>6
  <2>6. Bound(f) \in P
    <3>1. \A k \in s.last .. Bound(f) : k \in P
      <4> HIDE DEF P
      <4> QED  BY <1>1, <1>2, <2>4, <2>5, UpTo
    <3> QED  BY <1>1, <1>2, <1>4, <3>1
  <2>7. PICK q : Discarded(Discard(s, f), q, Bound(f), f)  BY <2>1, <2>6
  <2>8. /\ StateOK(Discard(s, f), q) /\ q <= f /\ Bound(f) <= Discard(s, f).last
        /\ DOMAIN Discard(s, f).unplayed \subseteq 0 .. maxFrame
    BY <2>7 DEF Discarded
  <2>9. Discard(s, f).last \in Int  BY <2>8 DEF StateOK
  <2> QED  BY <1>2, <2>3, <2>8, <2>9
<1> QED  BY <1>1, <1>2, <1>3, <1>4, DiscardIs

\* Packet k of frame f, which is not settled, is put in unplayed_frames.
LEMMA FillKeeps ==
    ASSUME NEW s, NEW p, StateOK(s, p), NEW f \in Frames, p <= f, NEW k \in 1 .. FrameSize[f]
    PROVE  /\ StateOK(Fill(s, f, k), p)
           /\ DOMAIN Fill(s, f, k).unplayed = DOMAIN s.unplayed \cup {f}
           /\ Fill(s, f, k).last = s.last
<1> DEFINE t == Fill(s, f, k)
<1>1. /\ IsState(s) /\ p \in Nat /\ 0 .. p - 1 \subseteq Frames
      /\ DOMAIN s.unplayed \subseteq Frames \ (0 .. p - 1)
      /\ \A g \in DOMAIN s.unplayed : s.unplayed[g] \subseteq 1 .. FrameSize[g] /\ s.unplayed[g] # {}
  BY DEF StateOK
<1>2. f \in Nat  BY DecoderAssumption DEF Frames
<1>3. /\ t.unplayed = [g \in DOMAIN s.unplayed \cup {f} |->
                         IF g # f THEN s.unplayed[g]
                         ELSE IF f \in DOMAIN s.unplayed THEN s.unplayed[f] \cup {k} ELSE {k}]
      /\ t.played = s.played /\ t.last = s.last /\ t.decoded = s.decoded
  BY <1>1 DEF Fill, IsState
<1>4. IsState(t)
  <2>1. DOMAIN t = DOMAIN s  BY DEF Fill
  <2>2. t = [x \in DOMAIN t |-> t[x]]  BY DEF Fill
  <2> QED  BY <1>1, <2>1, <2>2 DEF IsState
<1> HIDE DEF t
<1>5. DOMAIN t.unplayed \subseteq Frames \ (0 .. p - 1)  BY <1>1, <1>2, <1>3
<1>6. \A g \in DOMAIN t.unplayed : t.unplayed[g] \subseteq 1 .. FrameSize[g] /\ t.unplayed[g] # {}
  BY <1>1, <1>3
<1>7. StateOK(t, p)
  <2>1. /\ DOMAIN s.played = 0 .. p - 1 /\ s.last \in -1 .. p - 1
        /\ \A g \in DOMAIN s.played : s.played[g] \subseteq 1 .. FrameSize[g]
        /\ s.decoded \in Seq(0 .. p - 1) /\ Increasing(s.decoded)
    BY DEF StateOK
  <2> QED  BY <1>1, <1>3, <1>4, <1>5, <1>6, <2>1 DEF StateOK
<1> QED  BY <1>3, <1>7 DEF t

\* A full frame is played from its place in the line only.
LEMMA PlayFromKeeps ==
    ASSUME NEW s, NEW p, StateOK(s, p), NEW f \in Frames, p <= f, NEW top \in Nat, f <= top
    PROVE  \E q : /\ StateOK(PlayFrom(s, f, top), q)
                  /\ DOMAIN PlayFrom(s, f, top).unplayed \subseteq DOMAIN s.unplayed
                  /\ PlayFrom(s, f, top).last >= s.last
<1>1. /\ IsState(s) /\ p \in Nat /\ 0 .. p - 1 \subseteq Frames
      /\ DOMAIN s.unplayed \subseteq Frames \ (0 .. p - 1) /\ s.last \in -1 .. p - 1
  BY DEF StateOK
<1>2. f \in Nat /\ 0 .. f \subseteq Frames  BY DecoderAssumption DEF Frames
<1>3. CASE PlayFrom(s, f, top) = s  BY <1>1, <1>3
<1>4. CASE f = 0 /\ PlayFrom(s, f, top) = Play(s, 0, 0)
  <2>1. /\ 0 \in 0 .. p /\ 0 - 1 <= 0 /\ 0 .. 0 \subseteq Frames /\ 0 = p
    BY <1>1, <1>2, <1>4
  <2>2. StateOK(Play(s, 0, 0), After(p, 0))  BY <2>1, PlayKeeps
  <2>3. Moved(s, Play(s, 0, 0), 0, 0)  BY <1>1, PlayFields
  <2>4. DOMAIN Play(s, 0, 0).unplayed \subseteq DOMAIN s.unplayed /\ Play(s, 0, 0).last = 0
    BY <2>3 DEF Moved
  <2> QED  BY <1>1, <1>4, <2>1, <2>2, <2>4
<1>5. CASE /\ Full(s, f) /\ f = s.last + 1
           /\ PlayFrom(s, f, top) = PlayAndAck(s, f, RunEnd(s, f, top))
  <2> DEFINE e == RunEnd(s, f, top)
             t == PlayAndAck(s, f, e)
  <2>1. e \in {f - 1} \cup f .. top /\ \A h \in f .. e : Full(s, h)  BY <1>2, RunEndIs
  <2> HIDE DEF e
  <2>2. e \in Int /\ f - 1 <= e /\ f .. e \subseteq Frames  BY <1>1, <1>2, <2>1 DEF Full
  <2>3. f = p /\ f \in 0 .. p  BY <1>1, <1>2, <1>5
  <2>4. StateOK(t, After(p, e))  BY <2>2, <2>3, PlayKeeps
  <2>5. Moved(s, t, f, e)  BY <1>1, PlayFields
  <2>6. DOMAIN t.unplayed \subseteq DOMAIN s.unplayed /\ t.last >= s.last
    <3> HIDE DEF t
    <3> QED  BY <1>1, <1>2, <1>5, <2>2, <2>5 DEF Moved
  <2> HIDE DEF t
  <2> QED  BY <1>5, <2>4, <2>6 DEF e, t
<1> QED
  <2>1. \/ PlayFrom(s, f, top) = s
        \/ f = 0 /\ PlayFrom(s, f, top) = Play(s, 0, 0)
        \/ /\ Full(s, f) /\ f = s.last + 1
           /\ PlayFrom(s, f, top) = PlayAndAck(s, f, RunEnd(s, f, top))
    BY Zenon DEF PlayFrom
  <2> QED  BY <1>3, <1>4, <1>5, <2>1

------------------------------------------------------------------------------
\* The inductive invariant.
DecoderInv ==
    /\ maxFrame \in Frames
    /\ \E p : StateOK(State, p)
    /\ DOMAIN unplayed \subseteq 0 .. maxFrame
    /\ last >= maxFrame - DdlFrames

LEMMA StateFields ==
    /\ State.unplayed = unplayed /\ State.played = played /\ State.last = last
    /\ State.decoded = decoded /\ State.acks = frameAcks
    /\ IsState(State)
  BY DEF State, IsState

LEMMA DecoderInvInit == DecoderInit => DecoderInv
<1> SUFFICES ASSUME DecoderInit  PROVE DecoderInv  OBVIOUS
<1>1. /\ unplayed = [f \in {} |-> {}] /\ played = [f \in {} |-> {}] /\ last = -1
      /\ maxFrame = 0 /\ decoded = <<>>
  BY DEF DecoderInit
<1>2. DOMAIN unplayed = {} /\ DOMAIN played = {}  BY <1>1
<1>3. maxFrame \in Frames /\ DdlFrames \in Nat \ {0}  BY <1>1, DecoderAssumption DEF Frames
<1>4. StateOK(State, 0)
  <2>1. decoded \in Seq(0 .. 0 - 1) /\ Len(decoded) = 0  BY <1>1
  <2>2. Increasing(decoded)  BY <2>1 DEF Increasing
  <2>3. 0 .. 0 - 1 = {}  OBVIOUS
  <2> QED  BY <1>1, <1>2, <2>1, <2>2, <2>3, StateFields DEF StateOK
<1>5. \E p : StateOK(State, p)  BY <1>4
<1> QED  BY <1>1, <1>2, <1>3, <1>5 DEF DecoderInv

LEMMA DecodeKeeps ==
    ASSUME DecoderInv, NEW f \in Frames, NEW k \in 1 .. FrameSize[f], DecodeDataPacket(f, k)
    PROVE  DecoderInv'
<1> DEFINE top == IF f > maxFrame THEN f ELSE maxFrame
           s1 == Discard(State, f)
           s2 == Fill(s1, f, k)
           s3 == PlayFrom(s2, f, top)
<1>1. PICK p : StateOK(State, p)  BY DEF DecoderInv
<1>2. /\ maxFrame \in Frames /\ maxFrame \in Nat /\ f \in Nat /\ DdlFrames \in Nat
      /\ DOMAIN unplayed \subseteq 0 .. maxFrame /\ last >= maxFrame - DdlFrames
      /\ p \in Nat /\ DOMAIN played = 0 .. p - 1 /\ last \in Int
  BY <1>1, DecoderAssumption, StateFields DEF DecoderInv, Frames, StateOK
<1>3. CASE f \in DOMAIN played
  <2>1. UNCHANGED decoderVars  BY <1>3, Zenon DEF DecodeDataPacket
  <2> QED  BY <2>1 DEF decoderVars, DecoderInv, State
<1>4. CASE f \notin DOMAIN played
  <2>1. /\ unplayed' = s3.unplayed /\ played' = s3.played /\ last' = s3.last
        /\ decoded' = s3.decoded /\ frameAcks' = s3.acks /\ maxFrame' = top
    BY <1>4, Zenon DEF DecodeDataPacket
  <2>2. p <= f  BY <1>2, <1>4
  <2>3. PICK q : /\ StateOK(s1, q) /\ q <= f
                 /\ DOMAIN s1.unplayed \subseteq 0 .. maxFrame
                 /\ s1.last >= maxFrame - DdlFrames /\ s1.last >= Bound(f)
    BY <1>1, <1>2, <2>2, StateFields, DiscardKeeps
  <2> HIDE DEF s1
  <2>4. /\ StateOK(s2, q) /\ DOMAIN s2.unplayed = DOMAIN s1.unplayed \cup {f}
        /\ s2.last = s1.last
    BY <2>3, FillKeeps
  <2>5. top \in Nat /\ f <= top /\ maxFrame <= top /\ top \in {f, maxFrame}  BY <1>2
  <2> HIDE DEF s2, top
  <2>6. PICK z : /\ StateOK(s3, z) /\ DOMAIN s3.unplayed \subseteq DOMAIN s2.unplayed
                 /\ s3.last >= s2.last
    BY <2>3, <2>4, <2>5, PlayFromKeeps
  <2>7. s1.last \in Int /\ s3.last \in Int  BY <2>3, <2>6 DEF StateOK
  <2> HIDE DEF s3
  <2>8. last' >= maxFrame' - DdlFrames
    BY <1>2, <2>1, <2>3, <2>4, <2>5, <2>6, <2>7 DEF Bound
  <2>9. DOMAIN unplayed' \subseteq 0 .. maxFrame'
    BY <1>2, <2>1, <2>3, <2>4, <2>5, <2>6
  <2>10. State' = s3
    <3>1. IsState(s3)  BY <2>6 DEF StateOK
    <3> QED  BY <2>1, <3>1 DEF State, IsState
  <2>11. (\E y : StateOK(State, y))'
    <3>1. StateOK(State', z)  BY <2>6, <2>10
    <3>2. StateOK(State, z)'  BY <3>1 DEF StateOK, Frames
    <3> QED  BY <3>2
  <2>12. maxFrame' \in Frames  BY <1>2, <2>1, <2>5
  <2> QED  BY <2>8, <2>9, <2>11, <2>12 DEF DecoderInv, Frames
<1> QED  BY <1>3, <1>4

LEMMA DecoderInvNext == DecoderInv /\ [DecoderNext]_decoderVars => DecoderInv'
<1> SUFFICES ASSUME DecoderInv, [DecoderNext]_decoderVars  PROVE DecoderInv'  OBVIOUS
<1>1. ASSUME NEW f \in Frames, NEW k \in 1 .. FrameSize[f], DecodeDataPacket(f, k)
      PROVE  DecoderInv'
  BY <1>1, DecodeKeeps
<1>2. CASE UNCHANGED decoderVars  BY <1>2 DEF decoderVars, DecoderInv, State
<1> QED  BY <1>1, <1>2 DEF DecoderNext

LEMMA DecoderInvHolds == DecoderSpec => []DecoderInv
  BY DecoderInvInit, DecoderInvNext, PTL DEF DecoderSpec

------------------------------------------------------------------------------
\* The maps of the decoder hold packets of the stream's frames only, a frame
\* that waits has one at least, and the two frame ids are those of the stream
\* (m_lastPlayedFrameId is -1 until the first frame is settled).
THEOREM DecoderTyped == DecoderSpec => []DecoderTypeOK
<1>1. DecoderInv => DecoderTypeOK
  <2> SUFFICES ASSUME DecoderInv  PROVE DecoderTypeOK  OBVIOUS
  <2>1. PICK p : StateOK(State, p)  BY DEF DecoderInv
  <2>2. last \in Frames \cup {-1}
    <3>1. last \in -1 .. p - 1 /\ p \in Nat /\ 0 .. p - 1 \subseteq Frames
      BY <2>1, StateFields DEF StateOK
    <3> QED  BY <3>1
  <2> QED  BY <2>1, <2>2, StateFields DEF StateOK, DecoderInv, DecoderTypeOK
<1> QED  BY <1>1, DecoderInvHolds, PTL

\* played_frames holds the frames 0 .. p - 1 for some p: no frame is settled
\* before an earlier one, whatever the order of the packets.
THEOREM PlayedHasNoGap == DecoderSpec => []PlayedIsPrefix
<1>1. DecoderInv => PlayedIsPrefix
  <2> SUFFICES ASSUME DecoderInv, NEW f \in DOMAIN played  PROVE 0 .. f \subseteq DOMAIN played
    BY DEF PlayedIsPrefix
  <2>1. PICK p : StateOK(State, p)  BY DEF DecoderInv
  <2>2. p \in Nat /\ DOMAIN played = 0 .. p - 1  BY <2>1, StateFields DEF StateOK
  <2> QED  BY <2>2
<1> QED  BY <1>1, DecoderInvHolds, PTL

\* A frame is reported as decoded at most once and in the order of the ids, and
\* a settled frame does not wait again.
THEOREM FramesSettleOnce == DecoderSpec => []SettledOnce
<1>1. DecoderInv => SettledOnce
  <2> SUFFICES ASSUME DecoderInv  PROVE SettledOnce  OBVIOUS
  <2>1. PICK p : StateOK(State, p)  BY DEF DecoderInv
  <2>2. /\ Increasing(decoded) /\ DOMAIN played = 0 .. p - 1
        /\ DOMAIN unplayed \subseteq Frames \ (0 .. p - 1)
    BY <2>1, StateFields DEF StateOK
  <2>3. DecodedInOrder  BY <2>2 DEF Increasing, DecodedInOrder
  <2>4. Disjoint  BY <2>2 DEF Disjoint
  <2> QED  BY <2>3, <2>4 DEF SettledOnce
<1> QED  BY <1>1, DecoderInvHolds, PTL

\* A frame that is a deadline behind the newest one is settled, although the
\* catch-up of the discard loop moves m_lastPlayedFrameId under its own index;
\* GetDDLMissRate counts the frames of one deadline as missed at most.
THEOREM LagIsBounded == DecoderSpec => []BoundedLag
<1>1. DecoderInv => BoundedLag
  <2> SUFFICES ASSUME DecoderInv  PROVE BoundedLag
    OBVIOUS
  <2>1. PICK p : StateOK(State, p)  BY DEF DecoderInv
  <2>2. /\ p \in Nat /\ DOMAIN played = 0 .. p - 1 /\ last \in -1 .. p - 1
        /\ last >= maxFrame - DdlFrames /\ maxFrame \in Nat /\ DdlFrames \in Nat
    BY <2>1, DecoderAssumption, StateFields DEF StateOK, DecoderInv, Frames
  <2>3. 0 .. maxFrame - DdlFrames \subseteq DOMAIN played  BY <2>2
  <2>4. Cardinality(DOMAIN played) = p
    <3>1. Cardinality(0 .. p - 1) = IF 0 > p - 1 THEN 0 ELSE p - 1 - 0 + 1
      BY <2>2, FS_Interval
    <3> QED  BY <2>2, <3>1
  <2>5. Missed <= DdlFrames  BY <2>2, <2>4 DEF Missed
  <2> QED  BY <2>3, <2>5 DEF BoundedLag
<1> QED  BY <1>1, DecoderInvHolds, PTL

==============================================================================

------------------------ MODULE SenderBasedController ------------------------
(***************************************************************************)
(* The packet histories of rmcat::SenderBasedController                    *)
(* (congestion-control/sender-based-controller.cc), which every rate       *)
(* controller inherits.  An object is a record; the methods are operators  *)
(* from an object to an object.  The n-th packet sent has the sequence     *)
(* number n % Ids; the code sees only that, n is kept beside it.           *)
(*                                                                         *)
(* Packets have one byte, so the size an entry of the packet history gets  *)
(* is the number of the packets it counts, and the model keeps that set.   *)
(* The field "sound" is FALSE once an assert of the class has failed or    *)
(* front() of an empty deque has been read.  Delays and rates derived from *)
(* the histories, and reset, which nobody calls, are left out.             *)
(***************************************************************************)
EXTENDS Integers, Sequences, FiniteSetsExt

CONSTANTS
    Ids,            \* number of sequence numbers: 65536
    MaxInterPacket, \* MAX_INTER_PACKET_TIME_US
    TransitAge,     \* 10 * MAX_INTER_PACKET_TIME_US
    HistoryLength,  \* m_historyLengthUs
    CountAge        \* the second after which a sent packet is not counted

ASSUME ControllerAssumption ==
    /\ Ids \in Nat \ {0, 1} /\ Ids % 2 = 0
    /\ MaxInterPacket \in Nat /\ TransitAge \in Nat
    /\ HistoryLength \in Nat \ {0} /\ CountAge \in Nat

Id(n) == n % Ids
Half == Ids \div 2

\* lessThan on uint16_t: the shorter way round.
LessThan(a, b) == (b - a) % Ids < (a - b) % Ids

Last(s) == s[Len(s)]

\* What the loops that pop the front of a deque leave: it starts at the first
\* of the positions in kept.
From(s, kept) == IF kept = {} THEN <<>> ELSE SubSeq(s, Min(kept), Len(s))

\* The sizes of a history added up.
Bytes(s) ==
    LET sum[k \in 0 .. Len(s)] ==
          IF k = 0 THEN 0 ELSE sum[k - 1] + Cardinality(s[k].counts)
    IN  sum[Len(s)]

\* The constructor: m_inTransitPackets, m_PacketTransitHistory (every packet
\* sent), m_packetHistory (those fed back), m_pktSizeSum, m_ilState.
NewController ==
    [firstSend |-> TRUE, lastSequence |-> 0, lastRecv |-> 0,
     transit |-> <<>>, sent |-> <<>>, history |-> <<>>, sizeSum |-> 0,
     expected |-> 0, intervals |-> <<0>>, sound |-> TRUE]

------------------------------------------------------------------------------
\* The loop over m_PacketTransitHistory that erases a reused number: every
\* packet passes here, so it is there at most once.
Without(s, seq) ==
    LET same == {i \in DOMAIN s : Id(s[i].n) = seq}
        i == Min(same)
    IN  IF same = {} THEN s ELSE SubSeq(s, 1, i - 1) \o SubSeq(s, i + 1, Len(s))

\* processSendPacket.  The sender hands every number over in order, so the
\* "illegal sequence" branch leaves only m_lastSequence changed.
ProcessSendPacket(c, t, n) ==
    LET next == IF c.firstSend THEN Id(n) ELSE (c.lastSequence + 1) % Ids
        p == [n |-> n, tx |-> t]
        all == Append(c.transit, p)
        young == {i \in DOMAIN all : ~(all[i].tx + TransitAge < t)}
    IN  IF Id(n) # next THEN [c EXCEPT !.firstSend = FALSE, !.lastSequence = next]
        ELSE [c EXCEPT !.firstSend = FALSE, !.lastSequence = next,
                       !.transit = From(all, young),
                       !.sent = Append(Without(@, next), p)]

\* updateInterLossData on a packet with sequence number seq.
UpdateInterLossData(c, seq) ==
    LET expected  == IF c.history = <<>> THEN seq ELSE c.expected
        intervals == IF c.history = <<>> THEN <<0>> ELSE c.intervals
        longer    == <<1>> \o intervals
    IN  IF seq = expected
        THEN [c EXCEPT !.expected = (seq + 1) % Ids,
                       !.intervals = [intervals EXCEPT ![1] = @ + 1]]
        ELSE [c EXCEPT !.expected = (seq + 1) % Ids,
                       !.intervals = IF Len(longer) > 9 THEN SubSeq(longer, 1, 9) ELSE longer,
                       !.sound = @ /\ LessThan(expected, seq)]

\* Fault: what was counted before is counted again.
FaultyPseudoSize(c, t, seq) ==
    {c.sent[i].n : i \in {j \in 1 .. Len(c.sent) :
        Id(c.sent[j].n) <= seq /\ t - c.sent[j].tx < CountAge}}

\* The packets an acknowledged one answers for: those sent after the last one
\* counted and up to it, compared as plain numbers, less than a second old.
PseudoSize(c, t, seq) ==
    {c.sent[i].n : i \in {j \in 1 .. Len(c.sent) :
        /\ Id(c.sent[j].n) > c.lastRecv /\ Id(c.sent[j].n) <= seq
        /\ t - c.sent[j].tx < CountAge}}

KeptSum(sum, before, after) == sum - (Bytes(before) - Bytes(after))

\* The history grows by packet p and is cut to its length: the end of
\* processFeedback.  Its two asserts need no part in "sound": Accepted lets only
\* packets pass that are no older than the last, and m_pktSizeSum is the sum of
\* the sizes it subtracts (SizesAddUp).
Counted(c, t, p) ==
    LET counts == PseudoSize(c, t, Id(p.n))
        longer == Append(c.history, [n |-> p.n, tx |-> p.tx, counts |-> counts])
        kept == From(longer, {i \in DOMAIN longer : p.tx < longer[i].tx + HistoryLength})
    IN  [c EXCEPT !.lastRecv = Id(p.n), !.history = kept,
                  !.sizeSum = KeptSum(@ + Cardinality(counts), longer, kept)]

\* The part of processFeedback after the packet was found in transit.
Accepted(c, t, p) ==
    LET obsolete == c.history # <<>> /\ Last(c.history).tx + MaxInterPacket < p.tx
        d == IF obsolete THEN [c EXCEPT !.history = <<>>, !.sizeSum = 0] ELSE c
    IN  IF c.history # <<>> /\ p.tx < Last(c.history).tx THEN c
        ELSE Counted(UpdateInterLossData(d, Id(p.n)), t, p)

\* processFeedback for sequence number seq.
ProcessFeedback(c, t, seq) ==
    LET live == {i \in DOMAIN c.transit : ~LessThan(Id(c.transit[i].n), seq)}
        rest == From(c.transit, live)
        d == [c EXCEPT !.transit = rest,
                       !.sound = @ /\ Id(Last(c.transit).n) = c.lastSequence
                                   /\ rest # <<>>]
    IN  IF LessThan(c.lastSequence, seq) \/ c.transit = <<>> THEN c
        ELSE IF rest = <<>> \/ LessThan(seq, Id(rest[1].n)) THEN d
        ELSE Accepted([d EXCEPT !.transit = Tail(@),
                                !.sound = @ /\ Id(rest[1].n) = seq], t, rest[1])

\* Fault: the packet itself is dropped too.
FaultyPrunTransitHistory(c, seq) ==
    LET rest == From(c.sent, {i \in DOMAIN c.sent : Id(c.sent[i].n) > seq})
    IN  [c EXCEPT !.sent = rest, !.sound = @ /\ rest # <<>>]

\* PrunTransitHistory: front() is read before every pop.
PrunTransitHistory(c, seq) ==
    LET rest == From(c.sent, {i \in DOMAIN c.sent : Id(c.sent[i].n) >= seq})
    IN  [c EXCEPT !.sent = rest, !.sound = @ /\ rest # <<>>]

\* GetPacketTxTimestamp: the last entry of the number, or -1.
NoTime == -1

GetPacketTxTimestamp(c, seq) ==
    LET found == {i \in 1 .. Len(c.sent) : Id(c.sent[i].n) = seq}
    IN  IF found = {} THEN NoTime
        ELSE c.sent[CHOOSE i \in found : \A j \in found : j <= i].tx

\* What getPktLossInfo asserts before it subtracts: the history is not longer
\* than the numbers it spans.
LossInfoAsserted(c) ==
    c.history # <<>> =>
        (1 + Id(Last(c.history).n) - Id(c.history[1].n)) % Ids >= Len(c.history)

==============================================================================

---------------------------- MODULE ZhugeAckDelay ----------------------------
(***************************************************************************)
(* The TCP side of the Zhuge AP (zhuge/model/network-queue-zhuge.cc).      *)
(* Whenever a downlink data segment shows that the AP's forwarding delay   *)
(* changed, SetAckDelay records the change; an uplink ACK of the flow is   *)
(* held back by a sampled change and by what is left of the delay of the   *)
(* ACK before it, so that the sender sees the queue at once.               *)
(*                                                                         *)
(* CalculateTotalDelayMs estimates the delay from the bytes queued and     *)
(* from what UpdateTxRate saw leave in the last milliseconds; these are    *)
(* inputs, those of a point-to-point link.  Events of one time fire        *)
(* in the order they were scheduled, here the order of the ACKs' ids.      *)
(* Time is in ticks; all that is due now happens before the clock moves.   *)
(***************************************************************************)
EXTENDS DeltaDelay

CONSTANTS
    MaxActualDelay, \* kMaxActualDelay
    WirtcEnable,    \* m_wirtcEnable: whether ACKs are delayed at all
    RateWindow,     \* kTxBytesListWindow: intervals the rate is taken over
    MinTxRate,      \* kMinTxRateBps, in bits per interval
    QueueSizes,     \* bits that may be queued in the qdisc and the device
    TxBits,         \* bits that may leave in a window
    MaxAcks,        \* bound: ACKs in a run
    MaxChanges,     \* bound: data segments that update the delay in a run
    MaxTime         \* bound: end of the run; ACKs arrive while they can still leave

ASSUME AckAssumption ==
    /\ MaxActualDelay \in Nat
    /\ WirtcEnable \in BOOLEAN
    /\ {RateWindow, MinTxRate} \cup TxBits \subseteq Nat \ {0}
    /\ QueueSizes \subseteq Nat
    /\ {MaxAcks, MaxChanges, MaxTime} \subseteq Nat

VARIABLES
    now,            \* Simulator::Now()
    deltaAckDelay,  \* m_deltaAckDelay
    lastDelay,      \* m_lastTotalDelayMs
    lastEmpty,      \* m_lastQSizeByte == 0
    isFirstAck,     \* m_isFirstAck
    lastArrv,       \* m_lastAckArrv
    lastSent,       \* m_lastAckSent
    pending,        \* scheduled SendPkt events: ACK id, arrival, firing time
    acks,           \* ACKs received
    changes         \* calls of SetAckDelay

ackVars == <<now, deltaAckDelay, lastDelay, lastEmpty, isFirstAck, lastArrv,
             lastSent, pending, acks, changes>>

------------------------------------------------------------------------------
\* m_lastQSizeByte is read before it is written: it may hold anything.
AckInit ==
    /\ now = 0
    /\ deltaAckDelay = NoHistory
    /\ lastDelay = 0
    /\ lastEmpty \in BOOLEAN
    /\ isFirstAck = TRUE
    /\ lastArrv = 0 /\ lastSent = 0
    /\ pending = {}
    /\ acks = 0 /\ changes = 0

\* What UpdateTxRate makes of m_txBytesList by the time SetAckDelay is called:
\* the last full window with an interval not idle, that is with a packet waiting
\* or leaving; some of these are busy, nothing leaves in them.  All are idle as
\* long as there has been no such window.
Windows ==
    {w \in [idle : 0 .. RateWindow, busy : 0 .. RateWindow, bits : TxBits \cup {0}] :
        /\ w.idle + w.busy <= RateWindow
        /\ w.bits = 0 <=> w.idle + w.busy = RateWindow}

\* m_curTxRateBps: what left in the intervals that were not idle.
TxRate(w) ==
    IF w.idle = RateWindow THEN MinTxRate
    ELSE Greatest(w.bits \div (RateWindow - w.idle), MinTxRate)

\* m_curTxDelayUs, in whole intervals: those it takes for one to send.
TxTime(w) ==
    LET used == RateWindow - w.idle
    IN  IF used = 0 THEN 0
        ELSE IF w.busy < used THEN used \div (used - w.busy) ELSE RateWindow

\* CalculateTotalDelayMs, with queued bits ahead of the next packet.
TotalDelay(queued, w) == queued \div TxRate(w) + TxTime(w)

\* A data segment reaches the AP: OnRecv_rcvdev calls SetAckDelay.
SetAckDelay(queued, w) ==
    /\ changes < MaxChanges
    /\ changes' = changes + 1
    /\ LET total == TotalDelay(queued, w)
       IN  /\ deltaAckDelay' =
                 IF queued = 0 /\ lastEmpty THEN deltaAckDelay
                 ELSE AddDeltaDelay(deltaAckDelay, now, total - lastDelay)
           /\ lastDelay' = total
    /\ lastEmpty' = (queued = 0)
    /\ UNCHANGED <<now, isFirstAck, lastArrv, lastSent, pending, acks>>

\* SendPkt for the ACK that arrives now is scheduled for time at.
Schedule(at) ==
    /\ acks < MaxAcks /\ now + MaxActualDelay <= MaxTime
    /\ acks' = acks + 1
    /\ pending' = pending \cup {[id |-> acks + 1, arrived |-> now, at |-> at]}

FirstAck ==
    /\ isFirstAck
    /\ isFirstAck' = FALSE
    /\ lastArrv' = now /\ lastSent' = now
    /\ Schedule(now)
    /\ UNCHANGED <<now, deltaAckDelay, lastDelay, lastEmpty, changes>>

\* Fault: the delay still pending for the last ACK is forgotten.
FaultyBase == now

\* When the ACK would leave before a sample is added.  One that arrives after
\* the last has left belongs to a new burst; the others queue behind it.
Base == IF now > lastSent THEN now ELSE now + (lastSent - lastArrv)

\* The minDeltaDelay of the sample, never positive.
Lowest == IF now > lastSent THEN 0 ELSE lastSent - Base

\* Fault: the delay of an ACK is not limited.
FaultySentAt(delay) == Base + delay

\* The time the ACK leaves, given the sample.
SentAt(delay) == Least(now + MaxActualDelay, Base + delay)

\* A later ACK of the flow: OnRecv_snddev.
NextAck ==
    /\ ~isFirstAck
    /\ \E s \in SampleDeltaDelay(deltaAckDelay, now, Lowest) :
          LET sent == SentAt(s.delay)
          IN  /\ deltaAckDelay' = s.after
              /\ lastArrv' = now /\ lastSent' = sent
              /\ Schedule(IF WirtcEnable /\ sent > now THEN sent ELSE now)
    /\ UNCHANGED <<now, lastDelay, lastEmpty, isFirstAck, changes>>

\* Fault: events of one time fire in any order.
FaultySendPkt(e) ==
    /\ e \in pending /\ e.at = now
    /\ pending' = pending \ {e}
    /\ UNCHANGED <<now, deltaAckDelay, lastDelay, lastEmpty, isFirstAck,
                   lastArrv, lastSent, acks, changes>>

\* The event of one ACK fires.
SendPkt(e) ==
    /\ e \in pending /\ e.at = now
    /\ \A f \in pending : f.at = now => e.id <= f.id
    /\ pending' = pending \ {e}
    /\ UNCHANGED <<now, deltaAckDelay, lastDelay, lastEmpty, isFirstAck,
                   lastArrv, lastSent, acks, changes>>

Tick ==
    /\ now < MaxTime
    /\ \A e \in pending : e.at # now
    /\ now' = now + 1
    /\ UNCHANGED <<deltaAckDelay, lastDelay, lastEmpty, isFirstAck, lastArrv,
                   lastSent, pending, acks, changes>>

AckNext ==
    \/ \E queued \in QueueSizes, w \in Windows : SetAckDelay(queued, w)
    \/ FirstAck
    \/ NextAck
    \/ \E e \in pending : SendPkt(e)
    \/ Tick

\* The simulator runs every event that is due, so time always goes on.
AckFairness == WF_ackVars(Tick) /\ WF_ackVars(\E e \in pending : SendPkt(e))

AckSpec == AckInit /\ [][AckNext]_ackVars /\ AckFairness

------------------------------------------------------------------------------
\* The types of the AP's state: no time, delay or amount goes negative, although
\* ACK times are relative to one another and tokens are paid in parts.
AckTypeOK ==
    /\ now \in Nat /\ lastDelay \in Nat /\ acks \in Nat /\ changes \in Nat
    /\ lastEmpty \in BOOLEAN /\ isFirstAck \in BOOLEAN
    /\ lastArrv \in Nat /\ lastSent \in Nat
    /\ pending \subseteq [id : Nat, arrived : Nat, at : Nat]
    /\ deltaAckDelay \in [deltas : Seq(Entry), tokens : Seq(Entry),
                          popped : Seq(Entry), lastwnd : Seq(Entry)]

\* An ACK never overtakes an earlier one of the flow, whatever is sampled and
\* whatever tokens shorten the sample: OnRecv_snddev (network-queue-zhuge.cc).
AcksInOrder == \A e, f \in pending : e.id < f.id => e.at <= f.at

\* No ACK is due before it arrives or later than kMaxActualDelay after, and the
\* event of none is ever missed.
HeldBriefly ==
    \A e \in pending : /\ e.arrived <= e.at /\ e.at <= e.arrived + MaxActualDelay
                       /\ now <= e.at

\* NS_ASSERT(resDeltaDelay <= MilliSeconds(10)) of SampleDeltaDelay holds for
\* the next ACK whatever is picked, and the sample is not negative.
SampleAsserted ==
    LET c == Cleared(deltaAckDelay, now)
    IN  c.deltas # <<>> =>
            \A s \in SampleDeltaDelay(deltaAckDelay, now, Lowest) :
                s.delay \in 0 .. MaxDelta

\* The ClearAged loops look at the front of a deque only, yet no delta and no
\* token, used or not, outlives the window: each deque is in time order.
WindowIsExact ==
    LET c == Cleared(deltaAckDelay, now)
    IN  \A s \in {c.deltas, c.tokens, c.popped} :
            \A i \in DOMAIN s : now - s[i].at <= HistoryLen

\* DeltaDelay keeps what it promises at every moment an ACK may ask for a
\* sample: the sample is within the assert and made of fresh entries.
DeltaSound == SampleAsserted /\ WindowIsExact

\* Every ACK is forwarded in the end: the queue of held ACKs always drains.
EveryAckLeaves == \A n \in 1 .. MaxAcks : acks >= n ~> \A e \in pending : e.id # n

\* The ACKs form a delay line: the AP implements AckDelayLine.
Line == INSTANCE AckDelayLine WITH
            Limit <- MaxActualDelay, clock <- now, entered <- acks,
            held <- {[id |-> e.id, arrived |-> e.arrived] : e \in pending}

ImplementsLine == Line!LineSpec

==============================================================================

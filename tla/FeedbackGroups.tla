---------------------------- MODULE FeedbackGroups ----------------------------
(***************************************************************************)
(* The UDP video sender's use of network-state reports for congestion      *)
(* control (bitrate-ctrl/model/packet-sender-udp.cc): the samples of the   *)
(* reports are cut into groups by the times at which their packets were    *)
(* sent, the first sample of a new group is fed to the controller, and the *)
(* history of sent packets is pruned up to the group before the last.      *)
(*                                                                         *)
(* Each sample is handled by a step of its own; one report's samples are   *)
(* several such steps at the same time.  They come in any order within     *)
(* Reorder packets and each at most once.                                  *)
(***************************************************************************)
EXTENDS SenderBasedController

CONSTANTS
    GroupGap,   \* 10000: the spread of the send times of one group
    LockGap,    \* 20 * m_interval * 1000: the gap between two groups
    Reorder,    \* bound: how far samples overtake each other
    MaxSent,    \* bound: packets sent
    MaxTime     \* bound: the clock

\* uint64_t, for the times of groups: larger than twice any time.
TimeRange == 4 * (MaxTime + 1)

ASSUME GroupAssumption ==
    /\ GroupGap \in Nat /\ LockGap \in Nat /\ GroupGap <= LockGap
    /\ 2 * LockGap <= TransitAge
    /\ Reorder \in Nat /\ MaxSent \in Nat /\ MaxTime \in Nat

VARIABLES
    now,            \* Simulator::Now()
    next,           \* the next packet; IPIDCounter is its id
    latest,         \* the latest packet a sample was delivered for, or -1
    skipped,        \* packets before it, within Reorder, not delivered
    controller,     \* m_controller
    firstFeedback,  \* m_firstFeedback
    groupStart,     \* m_groupstart_TxTime
    laterGroup,     \* m_group_id > 0
    prevId,         \* m_prev_id
    prevGroupEnd,   \* m_prev_groupend_id
    currPkts,       \* m_curr_pkts_in_frame
    prevPkts        \* m_prev_pkts_in_frame

groupVars == <<firstFeedback, groupStart, laterGroup, prevId, prevGroupEnd, currPkts, prevPkts>>
vars == <<now, next, latest, skipped, controller, groupVars>>

\* lessThan_64.
LessThan64(a, b) == (b - a) % TimeRange < (a - b) % TimeRange

------------------------------------------------------------------------------
TxTime(n) == GetPacketTxTimestamp(controller, Id(n)) % TimeRange

\* Fault: a group may start at any later time.
FaultyInReach(tx) == LessThan64(groupStart, tx) \/ groupStart = tx

\* The sample is neither before its group nor too long after it.
InReach(tx) ==
    \/ LessThan64(groupStart, tx) /\ (tx - groupStart) % TimeRange <= LockGap
    \/ groupStart = tx

\* All samples still to come are out of reach of the current group, and so is
\* whatever is sent from now on.
LockedOut ==
    /\ ~firstFeedback
    /\ now > groupStart + LockGap
    /\ \A n \in skipped \cup latest + 1 .. next - 1 : ~InReach(TxTime(n))

\* The numbers in use at one time stay within half of their range: those of
\* packets a sample may still come for and, as long as feedback can still be
\* taken into account, of packets in transit, of packets fed back and of packets
\* sent in the last TransitAge.  The first feedback comes before they wrap around.
NumbersSuffice ==
    /\ next - latest < Half
    /\ \A n \in skipped : next - n < Half
    /\ \/ LockedOut
       \/ /\ \A i \in DOMAIN controller.transit : next - controller.transit[i].n < Half
          /\ \A i \in DOMAIN controller.sent :
                controller.sent[i].tx + TransitAge >= now => next - controller.sent[i].n < Half
          /\ IF controller.history = <<>> THEN next < Ids
             ELSE next - controller.history[1].n < Half

\* SendPacket hands a packet to the controller.
SendPacket ==
    /\ next < MaxSent
    /\ NumbersSuffice
    /\ controller' = ProcessSendPacket(controller, now, next)
    /\ next' = next + 1
    /\ UNCHANGED <<now, latest, skipped, groupVars>>

\* A sample for packet n is taken out of a report.
Delivered(n) ==
    /\ n \in skipped \/ n \in latest + 1 .. next - 1
    /\ latest' = IF n > latest THEN n ELSE latest
    /\ skipped' = {m \in (skipped \cup latest + 1 .. n) \ {n} : m + Reorder >= latest'}

NewGroup(tx) == (tx - groupStart) % TimeRange > GroupGap

FirstSample(n) ==
    /\ firstFeedback
    /\ Delivered(n)
    /\ firstFeedback' = FALSE
    /\ prevId' = Id(n)
    /\ laterGroup' = FALSE
    /\ groupStart' = TxTime(n)
    /\ currPkts' = 1
    /\ UNCHANGED <<now, next, controller, prevGroupEnd, prevPkts>>

SameGroup(n) ==
    /\ ~firstFeedback
    /\ Delivered(n)
    /\ InReach(TxTime(n)) /\ ~NewGroup(TxTime(n))
    /\ currPkts' = currPkts + 1
    /\ prevId' = Id(n)
    /\ UNCHANGED <<now, next, controller, firstFeedback, groupStart, laterGroup,
                   prevGroupEnd, prevPkts>>

\* The controller is called from the second change of group on, with the
\* sample that starts the new group.
StartGroup(n) ==
    /\ ~firstFeedback
    /\ Delivered(n)
    /\ InReach(TxTime(n)) /\ NewGroup(TxTime(n))
    /\ controller' =
         PrunTransitHistory(
           IF laterGroup THEN ProcessFeedback(controller, now, Id(n)) ELSE controller,
           prevGroupEnd)
    /\ prevGroupEnd' = prevId
    /\ laterGroup' = TRUE
    /\ groupStart' = TxTime(n)
    /\ prevPkts' = currPkts
    /\ currPkts' = 1
    /\ prevId' = Id(n)
    /\ UNCHANGED <<now, next, firstFeedback>>

OutOfReach(n) ==
    /\ ~firstFeedback
    /\ Delivered(n)
    /\ ~InReach(TxTime(n))
    /\ UNCHANGED <<now, next, controller, groupVars>>

Tick ==
    /\ now < MaxTime
    /\ now' = now + 1
    /\ UNCHANGED <<next, latest, skipped, controller, groupVars>>

Init ==
    /\ now = 0 /\ next = 0 /\ latest = -1 /\ skipped = {}
    /\ controller = NewController
    /\ firstFeedback = TRUE /\ groupStart = 0 /\ laterGroup = FALSE
    /\ prevId = 0 /\ prevGroupEnd = 0 /\ currPkts = 0 /\ prevPkts = 0

Next ==
    \/ SendPacket
    \/ \E n \in 0 .. next - 1 : FirstSample(n) \/ SameGroup(n) \/ StartGroup(n) \/ OutOfReach(n)
    \/ Tick

Spec == Init /\ [][Next]_vars

------------------------------------------------------------------------------
\* The type invariant; the history of sent packets holds a number only once,
\* and there are at most nine loss intervals.
GroupTypeOK ==
    /\ now \in 0 .. MaxTime /\ next \in 0 .. MaxSent
    /\ latest \in -1 .. next - 1 /\ skipped \subseteq 0 .. next - 1
    /\ controller.transit \in Seq([n : 0 .. next - 1, tx : 0 .. now])
    /\ controller.sent \in Seq([n : 0 .. next - 1, tx : 0 .. now])
    /\ controller.history \in
          Seq([n : 0 .. next - 1, tx : 0 .. now, counts : SUBSET (0 .. next - 1)])
    /\ Len(controller.sent) <= Ids /\ Len(controller.intervals) \in 1 .. 9
    /\ controller.sizeSum \in Nat
    /\ {controller.lastSequence, controller.lastRecv, controller.expected, prevId, prevGroupEnd}
          \subseteq 0 .. Ids - 1
    /\ firstFeedback \in BOOLEAN /\ laterGroup \in BOOLEAN
    /\ groupStart \in 0 .. TimeRange - 1 /\ currPkts \in Nat /\ prevPkts \in Nat

\* No assert of the controller or of the sender fails, and no front() of an
\* empty history is read: what is pruned and popped always stops at a packet
\* that is still there, also when samples overtake each other and the numbers
\* wrap around.
AssertionsHold ==
    /\ controller.sound
    /\ LossInfoAsserted(controller)
    /\ laterGroup => prevPkts > 0

\* The histories keep their form and support every assert and front().
HistoriesSound == GroupTypeOK /\ AssertionsHold

\* m_pktSizeSum is the sum of the sizes in the packet history, whatever was
\* appended, cut off by age or cleared as obsolete.
SizesAddUp == controller.sizeSum = Bytes(controller.history)

\* A packet's bytes count for one acknowledged packet only, one sent with it
\* or later and after the one acknowledged before: throughput is never
\* counted twice.
CountedOnce ==
    LET h == controller.history
    IN  \A i \in 1 .. Len(h) : \A n \in h[i].counts :
            n <= h[i].n /\ \A j \in 1 .. i - 1 : n > h[j].n

\* The throughput rests on m_pktSizeSum being the sum over the history and on
\* every packet being in that sum at most once.
SizesCountOnce == SizesAddUp /\ CountedOnce

\* While no packet is old enough to be left out of the count, an acknowledged
\* packet answers for all that was sent after the one acknowledged before it,
\* also where numbers wrap: sender-based-controller.h:95 says "sequences,
\* uint16_t, can wrap (just like TCP)".
CountsWhatWasSent ==
    LET h == controller.history
    IN  now < CountAge =>
            \A i \in 2 .. Len(h) : h[i].counts = h[i - 1].n + 1 .. h[i].n

\* After a gap in the feedback longer than 20 frame intervals the start of the
\* group is never moved again: the controller gets no more feedback.
LockedOutForever == [][LockedOut => LockedOut' /\ UNCHANGED groupVars]_vars

==============================================================================

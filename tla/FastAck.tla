------------------------------- MODULE FastAck -------------------------------
(***************************************************************************)
(* The FastAck access point (zhuge/model/network-queue-fastack.cc): it     *)
(* answers the TCP sender itself for each segment the wireless link has    *)
(* delivered, keeps a copy of the segments, and sends one again when the   *)
(* client's own ACKs repeat.                                               *)
(*                                                                         *)
(* Segments are numbered from 1 and one unit long: segment n has sequence  *)
(* number n and is acknowledged by n + 1.  Other stands for a packet of    *)
(* another flow.  The sender, the wireless link with its list of delivered *)
(* packets and the client are external.  Receive window and m_HighestSeq   *)
(* go into header fields only and are left out.                            *)
(***************************************************************************)
EXTENDS Integers, Sequences, SequencesExt, FiniteSetsExt

CONSTANTS
    Modes,       \* m_mode: "WiFi" (0), "P2P" (1)
    MaxSeq,      \* bound: segments
    MaxTrouble,  \* bound: losses on the wireless link, segments the sender
                 \* sends again and packets of other flows, together
    MaxChecks    \* more pending checks than this are not told apart

ASSUME FastAckAssumption ==
    /\ Modes \subseteq {"WiFi", "P2P"}
    /\ {MaxSeq, MaxTrouble, MaxChecks} \subseteq Nat /\ MaxChecks > 1

VARIABLES
    mode, cc_create,
    stopped,     \* StopApplication was called
    checks,      \* pending CheckAck events
    hist,        \* SndTimeHistory and SndLengthHistory: sequence numbers
    qseq,        \* m_Qseq
    cache,       \* m_cache
    lastAck,     \* m_LastAckNumber
    lastRcvAck,  \* m_LastRcvAck
    dups,        \* m_DupNumber
    pending,     \* ACKs in a scheduled SendPkt
    atSender,    \* ACK numbers the sender got from the AP
    next, again, \* sender: the next new segment; segments sent again
    air,         \* the queue of the sending device
    lost,        \* segments lost so far, one entry for each loss
    others,      \* packets of other flows so far
    delivered,   \* m_PacketList of the device: what the link has delivered
    got,         \* segments the client has
    clientAcks,  \* the client's ACKs on their way to the AP
    seen         \* history: segments CreateAckPkt has dealt with

apVars  == <<mode, cc_create, hist, qseq, cache, lastAck, lastRcvAck, dups, seen>>
netVars == <<next, again, air, lost, others, delivered, got, clientAcks>>
vars == <<apVars, netVars, stopped, checks, pending, atSender>>

Other == 0
Trouble == Len(lost) + again + others

------------------------------------------------------------------------------
\* Setup assigns cc_create to itself, so it has any value.
Init ==
    /\ mode \in Modes /\ cc_create \in BOOLEAN
    /\ stopped = FALSE /\ checks = 1
    /\ hist = <<>> /\ qseq = <<>> /\ cache = <<>> /\ seen = {}
    /\ lastAck = 0 /\ lastRcvAck = 0 /\ dups = 0
    /\ pending = <<>> /\ atSender = {}
    /\ next = 1 /\ again = 0 /\ air = <<>> /\ lost = <<>> /\ others = 0
    /\ delivered = <<>> /\ got = {} /\ clientAcks = <<>>

\* OnRecv_rcvdev: a data segment of the flow is recorded and copied; the
\* router forwards it to the sending device.
OnRecv_rcvdev(n) ==
    /\ air' = Append(air, n)
    /\ IF cc_create THEN hist' = Append(hist, n) /\ cache' = Append(cache, n)
                    ELSE UNCHANGED <<hist, cache>>
    /\ UNCHANGED <<mode, cc_create, stopped, checks, qseq, lastAck, lastRcvAck, dups,
                   pending, atSender, lost, others, delivered, got, clientAcks, seen>>

\* The sender: new segments in order, and segments not acknowledged again.
SendNew == /\ next <= MaxSeq /\ next' = next + 1 /\ UNCHANGED again
           /\ OnRecv_rcvdev(next)

SendAgain == \E n \in 1 .. next - 1 :
                /\ \A a \in atSender : a <= n
                /\ Trouble < MaxTrouble /\ again' = again + 1 /\ UNCHANGED next
                /\ OnRecv_rcvdev(n)

\* A packet of another flow passes the AP.
OtherPacket ==
    /\ Trouble < MaxTrouble /\ others' = others + 1 /\ air' = Append(air, Other)
    /\ UNCHANGED <<apVars, stopped, checks, pending, atSender, next, again, lost,
                   delivered, got, clientAcks>>

\* The link delivers a packet: it enters the device's list, and the client
\* answers a segment with the number of the first one it misses.
Missing(S) == Min((1 .. MaxSeq + 1) \ S)

Deliver ==
    /\ air # <<>> /\ air' = Tail(air)
    /\ delivered' = Append(delivered, Head(air))
    /\ IF Head(air) = Other THEN UNCHANGED <<got, clientAcks>>
       ELSE /\ got' = got \cup {Head(air)}
            /\ clientAcks' = Append(clientAcks, Missing(got'))
    /\ UNCHANGED <<apVars, stopped, checks, pending, atSender, next, again, lost, others>>

Lose ==
    /\ air # <<>> /\ air' = Tail(air) /\ Trouble < MaxTrouble
    /\ lost' = Append(lost, Head(air))
    /\ UNCHANGED <<apVars, stopped, checks, pending, atSender, next, again, others,
                   delivered, got, clientAcks>>

------------------------------------------------------------------------------
\* Fault: a segment passed over counts as acknowledged.
FaultyAnswer(st, n) ==
    IF n = Other THEN st
    ELSE IF n = st.last THEN [st EXCEPT !.hist = RemoveFirst(@, n), !.last = n + 1]
    ELSE IF n \notin ToSet(st.hist) THEN st
    ELSE [hist |-> RemoveFirst(st.hist, n), last |-> n + 1,
          acks |-> Append(st.acks, n + 1)]

\* One round of the loop of CreateAckPkt.  The segment that the last ACK asks
\* for is dropped from the histories without an ACK; any other that is in them
\* leaves them and is acknowledged.
Answer(st, n) ==
    IF n = Other THEN st
    ELSE IF n = st.last THEN [st EXCEPT !.hist = RemoveFirst(@, n)]
    ELSE IF n \notin ToSet(st.hist) THEN st
    ELSE [hist |-> RemoveFirst(st.hist, n), last |-> n + 1,
          acks |-> Append(st.acks, n + 1)]

\* Fault: the first element is left out as well.
FaultyRounds(q) == Len(q) \div 2

\* The loop counts up to the size of the queue while it shortens it: it ends
\* half way.
Rounds(q) == (Len(q) + 1) \div 2

\* CreateAckPkt on a queue q, from the one state in sts to the one it leads to.
CreateAckPkt(sts, q) ==
    LET after[i \in 0 .. Rounds(q)] ==
            IF i = 0 THEN sts ELSE {Answer(st, q[i]) : st \in after[i - 1]}
    IN  after[Rounds(q)]
Rest(q) == SubSeq(q, Rounds(q) + 1, Len(q))

\* Fault: a check does not schedule the next.
FaultyNextChecks(k) == k - 1

\* The number of pending checks after one of k has run: the point-to-point
\* branch schedules a check and falls through to the line that schedules one.
NextChecks(k) == IF mode = "P2P" THEN Min({k + 1, MaxChecks}) ELSE k

Collected == qseq \o delivered

\* CheckAck: what the device has delivered joins the queue; in point-to-point
\* mode CreateAckPkt runs twice.
CheckAck ==
    /\ checks > 0 /\ checks' = NextChecks(checks)
    /\ \E q \in {Collected} :
       \E left \in {IF mode = "P2P" THEN Rest(Rest(q)) ELSE Rest(q)},
          first \in CreateAckPkt({[hist |-> hist, last |-> lastAck, acks |-> <<>>]}, q) :
       \E st \in IF mode = "P2P" THEN CreateAckPkt({first}, Rest(q)) ELSE {first} :
          /\ qseq' = left
          /\ hist' = st.hist /\ lastAck' = st.last
          /\ pending' = pending \o st.acks
          /\ seen' = seen \cup ToSet(SubSeq(q, 1, Len(q) - Len(left)))
    /\ delivered' = <<>>
    /\ UNCHANGED <<mode, cc_create, stopped, cache, lastRcvAck, dups, atSender,
                   next, again, air, lost, others, got, clientAcks>>

\* SendPkt: an ACK goes to the sender.
SendPkt ==
    /\ pending # <<>>
    /\ pending' = Tail(pending) /\ atSender' = atSender \cup {Head(pending)}
    /\ UNCHANGED <<apVars, netVars, stopped, checks>>

\* Fault: everything before the new ACK leaves, and the segment it asks for.
FaultyTrimmed(old, new) == SelectSeq(cache, LAMBDA n : n > new)

\* A higher ACK: the copies up to the one that ends at the previous ACK leave;
\* without such a copy all stay.
Trimmed(old, new) ==
    LET ends == {i \in DOMAIN cache : cache[i] + 1 = old}
    IN  IF ends = {} THEN cache ELSE SubSeq(cache, Min(ends) + 1, Len(cache))

\* The k-th equal ACK: the third makes the AP send its copy of the missing
\* segment, which it then no longer has.
Resend(ack, k) ==
    IF k = 3 /\ ack \in ToSet(cache)
    THEN air' = Append(air, ack) /\ cache' = RemoveFirst(cache, ack)
    ELSE UNCHANGED <<air, cache>>

\* OnRecv_snddev with a pure ACK of the client.
OnRecv_snddev ==
    LET ack == Head(clientAcks)
    IN  /\ clientAcks # <<>> /\ clientAcks' = Tail(clientAcks)
        /\ \/ /\ cc_create /\ ack = lastRcvAck
              /\ dups' = dups + 1 /\ Resend(ack, dups + 1)
              /\ UNCHANGED lastRcvAck
           \/ /\ cc_create /\ ack > lastRcvAck
              /\ dups' = 1 /\ lastRcvAck' = ack /\ cache' = Trimmed(lastRcvAck, ack)
              /\ UNCHANGED air
           \/ /\ ~cc_create \/ ack < lastRcvAck
              /\ UNCHANGED <<dups, lastRcvAck, cache, air>>
        /\ UNCHANGED <<mode, cc_create, hist, qseq, lastAck, seen, stopped, checks,
                       pending, atSender, next, again, lost, others, delivered, got>>

\* StopApplication cancels the check scheduled last.
StopApplication ==
    /\ ~stopped /\ stopped' = TRUE
    /\ checks' = checks - 1
    /\ UNCHANGED <<apVars, netVars, pending, atSender>>

Next ==
    \/ SendNew \/ SendAgain \/ OtherPacket \/ Deliver \/ Lose
    \/ CheckAck \/ SendPkt \/ OnRecv_snddev \/ StopApplication

Spec == Init /\ [][Next]_vars

\* The scheduler runs what is scheduled: the check and the ACKs.
\* Nothing is asked of the sender, the link or the client.
FairSpec == Spec /\ WF_vars(CheckAck) /\ WF_vars(SendPkt)

------------------------------------------------------------------------------
Sent == 1 .. next - 1
AckNumbers == atSender \cup ToSet(pending)

\* Every variable keeps its type.
FastAckTypeOK ==
    /\ mode \in Modes /\ {cc_create, stopped} \subseteq BOOLEAN
    /\ {checks, lastAck, lastRcvAck, dups, again, others} \subseteq Nat
    /\ next \in 1 .. MaxSeq + 1
    /\ UNION {ToSet(hist), ToSet(cache), got} \subseteq Sent
    /\ UNION {ToSet(qseq), ToSet(air), ToSet(delivered), ToSet(lost)} \subseteq Sent \cup {Other}
    /\ AckNumbers \cup ToSet(clientAcks) \subseteq 1 .. MaxSeq + 1

\* The AP answers for a segment only after the wireless link has delivered it.
AcksAreEarned == \A a \in AckNumbers : a - 1 \in got

\* Of the segments dealt with, the AP has acknowledged all, one by one or by a
\* later one, but for the latest: the segment its last ACK asked for is passed
\* over without an ACK, so the last segment of a burst may never get one.
OnlyLastUnanswered ==
    cc_create => \A n \in seen \ {Other} :
                    \/ \E a \in AckNumbers : a > n
                    \/ \A m \in seen : m <= n

\* Early ACKs answer for what the wireless link has delivered: for nothing else,
\* and for all of it that the AP has dealt with, but the latest.
AcksMatchDeliveries ==
    /\ FastAckTypeOK
    /\ AcksAreEarned
    /\ OnlyLastUnanswered

\* The AP acknowledges over gaps, so the sender will never send again what the
\* client still misses.  The AP can: a missing segment is copied in the cache
\* or under way, as long as the link loses a segment once only.  The sender must
\* not have sent anything again: a second copy of a segment stands in the cache
\* behind later segments, and Trimmed drops all that is before it.
MissingIsKept ==
    again = 0 =>
        \A n \in Sent \ got :
            (\E a \in AckNumbers : a > n)
                => \/ n \in ToSet(cache) \cup ToSet(air)
                   \/ \E i, j \in DOMAIN lost : i # j /\ lost[i] = n /\ lost[j] = n

\* Stopping the application ends the checks on WiFi; in point-to-point mode each
\* check has scheduled two, one of which the stop does not cancel.
StopMissesChecks ==
    /\ mode = "WiFi" /\ stopped => checks = 0
    /\ mode = "P2P" /\ seen # {} => checks > 0

\* What has been delivered is dealt with to the last packet, although a check
\* stops half way through its queue, unless the application stops.
DeliveredIsSeen == Collected # <<>> ~> Collected = <<>> \/ stopped

==============================================================================

--------------------------- MODULE NetStateFeedback ---------------------------
(***************************************************************************)
(* The two reporters of network state on the UDP path.  The video receiver *)
(* keeps the packets of a sliding window in order of their ids and reports *)
(* them from a timer (bitrate-ctrl/model/packet-receiver-udp.cc); the      *)
(* Zhuge AP reports a packet it predicts the arrival of, one millisecond   *)
(* after seeing it (zhuge/model/network-queue-zhuge.cc).  The flag wirtc   *)
(* only decides which of the two reports is really sent, and is left out.  *)
(*                                                                         *)
(* The n-th packet the server sends carries the id n % Ids.  Code compares *)
(* ids only; n is kept beside the id to state what a report is about.  A   *)
(* packet has one byte.  The unit of time is longer than the AP's          *)
(* millisecond, so a packet it holds is due before the clock advances.     *)
(***************************************************************************)
EXTENDS Integers, Sequences, FiniteSets

CONSTANTS
    Ids,        \* number of packet ids: 65536
    Window,     \* m_record's window, time_wnd_size
    Interval,   \* m_feedback_interval
    MaxSent,    \* bound: packets the server sends
    MaxTime     \* bound: the clock

ASSUME FeedbackAssumption ==
    /\ Ids \in Nat \ {0, 1} /\ Ids % 2 = 0
    /\ Window \in Nat /\ Interval \in Nat \ {0}
    /\ MaxSent \in Nat /\ MaxTime \in Nat

VARIABLES
    now,            \* Simulator::Now()
    sent,           \* how many packets the server has sent
    flight,         \* those between the AP and the receiver
    running,        \* FALSE after StopRunning
    record,         \* m_record: a sequence of [n, rt]
    bytes,          \* bytes_in_wnd
    timer,          \* when m_feedbackTimer expires, or Off
    lastFeedback,   \* m_last_feedback
    stats,          \* pkts_in_wnd and losses_in_wnd of the last report
    samples,        \* recvtime_hist of the receiver's last report
    top,            \* the latest packet reported so far, or -1
    pending,        \* arrivals of packets later than top, as [n, rt]
    rates,          \* the AP's m_txBytesList has an element
    held,           \* the packet Sendback is scheduled for, as a set
    apLast,         \* the AP's last_id
    apReport        \* the AP's last report: its packet, the packet of the
                    \* report before it, and the loss_seq

receiverVars == <<running, record, bytes, timer, lastFeedback, stats, samples, top, pending>>
apVars == <<rates, held, apLast, apReport>>
vars == <<now, sent, flight, receiverVars, apVars>>

Off == -1
Half == Ids \div 2
Id(n) == n % Ids

\* uint32_t, the type of the ids in a RcvTime: 65536 * 65536.
Wide == Ids * Ids

\* lessThan_simple: the shorter way round the circle of ids.
LessThan(a, b) == (b - a) % Ids < (a - b) % Ids

------------------------------------------------------------------------------
\* Fault: an entry is retired as soon as a report could be due.
FaultyStale(e) == e.rt < now

Stale(e) == e.rt < now - Window

\* The loop that slides the window.  It erases from the deque and goes on from
\* the erased iterator: libstdc++ closes the gap from the nearer end, so after
\* an erasure in the back half the next entry is passed over unexamined.
Slid(s) ==
    LET walk[k \in 0 .. Len(s)] ==
          IF k = 0 THEN [out |-> <<>>, gone |-> 0, pass |-> FALSE]
          ELSE IF walk[k - 1].pass \/ ~Stale(s[k])
          THEN [out |-> Append(walk[k - 1].out, s[k]), gone |-> walk[k - 1].gone, pass |-> FALSE]
          ELSE [out |-> walk[k - 1].out, gone |-> walk[k - 1].gone + 1,
                pass |-> k - 1 - walk[k - 1].gone >= (Len(s) - walk[k - 1].gone) \div 2]
    IN  walk[Len(s)].out

\* Fault: a packet is always the youngest.
FaultyInserted(s, e) == Append(s, e)

\* The new entry goes to the front, or behind the last entry with a lower id.
Inserted(s, e) ==
    LET lower == {k \in 1 .. Len(s) : LessThan(Id(s[k].n), Id(e.n))}
    IN  IF s = <<>> \/ LessThan(Id(e.n), Id(s[1].n)) THEN <<e>> \o s
        ELSE IF lower = {} THEN s
        ELSE LET k == CHOOSE k \in lower : \A l \in lower : l <= k
             IN  SubSeq(s, 1, k) \o <<e>> \o SubSeq(s, k + 1, Len(s))

BytesAfter(s) == bytes - (Len(record) - Len(s)) + 1

\* OnSocketRecv_receiver.
Receive(n) ==
    LET slid == Slid(record)
    IN  /\ running
        /\ n \in flight
        /\ flight' = flight \ {n}
        /\ record' = Inserted(slid, [n |-> n, rt |-> now])
        /\ bytes' = BytesAfter(slid)
        /\ timer' = IF record = <<>> /\ timer = Off THEN now + Interval ELSE timer
        /\ pending' = IF n > top THEN pending \cup {[n |-> n, rt |-> now]} ELSE pending
        /\ UNCHANGED <<now, sent, running, lastFeedback, stats, samples, top>>
        /\ UNCHANGED apVars

\* Fault: what was reported before is reported again.
FaultyIsNew(last, e) == TRUE

IsNew(last, e) == LessThan(last, Id(e.n))

\* m_recv_sample: the walk remembers the last id it took.
Samples(s) ==
    LET take[k \in 0 .. Len(s)] ==
          IF k = 0 THEN [last |-> lastFeedback, out |-> <<>>]
          ELSE IF IsNew(take[k - 1].last, s[k])
          THEN [last |-> Id(s[k].n), out |-> Append(take[k - 1].out, s[k].n)]
          ELSE take[k - 1]
    IN  take[Len(s)]

\* losses_in_wnd: the gaps between neighbours, subtracted as uint32_t.
Losses(s) ==
    LET sum[k \in 0 .. Len(s)] ==
          IF k <= 1 THEN 0
          ELSE IF (Id(s[k].n) - Id(s[k - 1].n)) % Ids = 1 THEN sum[k - 1]
          ELSE (sum[k - 1] + Id(s[k].n) - Id(s[k - 1].n) - 1) % Wide
    IN  sum[Len(s)]

\* Fault: the two ends are not both counted.
FaultySpan(s) ==
    IF Len(s) > 1 THEN (Id(s[Len(s)].n) - Id(s[1].n)) % Ids ELSE 0

\* pkts_in_wnd.
Span(s) ==
    IF Len(s) > 1 THEN (Id(s[Len(s)].n) - Id(s[1].n) + 1) % Ids ELSE 0

\* Feedback_NetState.
Feedback_NetState ==
    LET taken == Samples(record)
    IN  /\ running
        /\ timer = now
        /\ lastFeedback' = taken.last
        /\ samples' = taken.out
        /\ top' = IF taken.out = <<>> THEN top ELSE taken.out[Len(taken.out)]
        /\ pending' = {p \in pending : p.n > top'}
        /\ stats' = [pkts |-> Span(record), losses |-> Losses(record)]
        /\ timer' = now + Interval
        /\ UNCHANGED <<now, sent, flight, running, record, bytes>>
        /\ UNCHANGED apVars

StopRunning ==
    /\ running
    /\ running' = FALSE
    /\ timer' = Off
    /\ UNCHANGED <<now, sent, flight, record, bytes, lastFeedback, stats, samples, top, pending>>
    /\ UNCHANGED apVars

------------------------------------------------------------------------------
\* The server sends its next packet, which reaches the AP: OnRecv_rcvdev, the
\* branch for the flow's UDP packets.  The first packet that finds no Sendback
\* scheduled is remembered for one, whatever its type.
Send(isData) ==
    /\ sent < MaxSent
    /\ \A n \in flight : sent - n < Half
    /\ \A i \in 1 .. Len(record) : sent - record[i].n < Half
    /\ (sent - lastFeedback) % Ids < Half
    /\ (sent - apLast) % Ids < Half
    /\ sent' = sent + 1
    /\ flight' = flight \cup {sent}
    /\ held' = IF held = {} THEN {[n |-> sent, data |-> isData]} ELSE held
    /\ UNCHANGED <<now, rates, apLast, apReport>>
    /\ UNCHANGED receiverVars

\* UpdateTxRate puts the first element into m_txBytesList.
UpdateTxRate ==
    /\ ~rates
    /\ rates' = TRUE
    /\ UNCHANGED <<now, sent, flight, held, apLast, apReport>>
    /\ UNCHANGED receiverVars

\* The test of Sendback on the packet's id.
IsLater(id) == id > apLast \/ apLast - id > Half

\* Fault: the packets in between are counted.
FaultyGap(id) == (id + Ids - apLast - 1) % Ids

\* loss_seq of the AP's report: how far it is from the one before it.
Gap(id) == (id + Ids - apLast) % Ids

\* Sendback.
Sendback ==
    \E h \in held :
        LET id == Id(h.n)
            reports == rates /\ h.data /\ IsLater(id)
        IN  /\ held' = {}
            /\ apLast' = IF reports THEN id ELSE apLast
            /\ apReport' =
                 IF reports
                 THEN [n |-> h.n, before |-> apReport.n, gap |-> Gap(id)]
                 ELSE apReport
            /\ UNCHANGED <<now, sent, flight, rates>>
            /\ UNCHANGED receiverVars

\* A packet is lost behind the AP.
Lose(n) ==
    /\ n \in flight
    /\ flight' = flight \ {n}
    /\ UNCHANGED <<now, sent, apVars>>
    /\ UNCHANGED receiverVars

\* Time passes, but not past an event that is due.
Tick ==
    /\ now < MaxTime
    /\ timer # now
    /\ held = {}
    /\ now' = now + 1
    /\ UNCHANGED <<sent, flight, apVars>>
    /\ UNCHANGED receiverVars

Init ==
    /\ now = 0 /\ sent = 0 /\ flight = {}
    /\ running = TRUE /\ record = <<>> /\ bytes = 0 /\ timer = Off
    /\ lastFeedback = Ids - 1
    /\ stats = [pkts |-> 0, losses |-> 0]
    /\ samples = <<>> /\ top = -1 /\ pending = {}
    /\ rates = FALSE /\ held = {} /\ apLast = 0 /\ apReport = [n |-> 0, before |-> 0, gap |-> 0]

Next ==
    \/ \E isData \in BOOLEAN : Send(isData)
    \/ \E n \in flight : Receive(n) \/ Lose(n)
    \/ Feedback_NetState
    \/ StopRunning
    \/ UpdateTxRate
    \/ Sendback
    \/ Tick

Spec == Init /\ [][Next]_vars

------------------------------------------------------------------------------
\* The type invariant of the two reporters.
FeedbackTypeOK ==
    /\ now \in 0 .. MaxTime /\ sent \in 0 .. MaxSent /\ flight \subseteq 0 .. sent - 1
    /\ running \in BOOLEAN /\ rates \in BOOLEAN
    /\ record \in Seq([n : 0 .. sent - 1, rt : 0 .. now])
    /\ bytes \in Nat /\ timer \in {Off} \cup now .. now + Interval
    /\ lastFeedback \in 0 .. Ids - 1 /\ apLast \in 0 .. Ids - 1
    /\ stats \in [pkts : Nat, losses : Nat]
    /\ samples \in Seq(0 .. sent - 1) /\ pending \subseteq [n : 0 .. sent - 1, rt : 0 .. now]
    /\ top \in -1 .. sent - 1
    /\ held \subseteq [n : 0 .. sent - 1, data : BOOLEAN] /\ Cardinality(held) <= 1
    /\ apReport \in [n : Nat, before : Nat, gap : 0 .. Ids - 1]

\* The record is in the order in which the packets were sent, through losses,
\* late packets, sliding and the wrap-around of the ids ("history should be
\* ordered", the assertion of Feedback_NetState), and the bytes of the window
\* are those of its entries.
RecordOrdered ==
    /\ \A i, j \in 1 .. Len(record) : i < j => record[i].n < record[j].n
    /\ bytes = Len(record)

\* What a report is made from is well formed and ordered.
RecordSound == FeedbackTypeOK /\ RecordOrdered

\* A report goes on where the reports before it ended: its samples are in
\* sending order and later than everything reported so far.  The sender
\* relies on that when it forms groups.
ReportsAdvance ==
    [][samples' # samples =>
          \A j \in 1 .. Len(samples') :
              samples'[j] > (IF j = 1 THEN top ELSE samples'[j - 1])]_vars

\* An arrival is in the record for as long as the window lasts, unless a later
\* packet was reported before it came: inserting and retiring, an entry passed
\* over included, lose nothing younger.
NothingSkipped ==
    \A p \in pending : p.rt >= now - Window => \E i \in 1 .. Len(record) : record[i] = p

\* The losses of a report are the packets between the ends of the window that
\* are not in it, as long as the ids in the window do not wrap around.
LossesExact ==
    [][stats' # stats /\ Len(record) > 1 /\ Id(record[1].n) < Id(record[Len(record)].n) =>
          /\ stats'.pkts = record[Len(record)].n - record[1].n + 1
          /\ stats'.losses = stats'.pkts - Len(record)]_vars

\* The AP's reports follow the sending order, and each says how far it is from
\* the report before it.
ApGapExact ==
    /\ apReport.before <= apReport.n
    /\ apReport.gap = apReport.n - apReport.before

==============================================================================

--------------------------- MODULE PacketSenderUdp ---------------------------
(***************************************************************************)
(* The UDP video sender (bitrate-ctrl/model/packet-sender-udp.cc): frames  *)
(* are cut into data packets, packets into FEC groups; every first         *)
(* transmission is stored until it is acknowledged or misses its deadline, *)
(* and a timer sends the stored packets of a silent group again.           *)
(*                                                                         *)
(* Data packets are numbered in the order StorePackets records them, so    *)
(* the deque data_pkt_history_key is the set keys read in increasing       *)
(* order: it only grows at its back and its entries are distinct.  m_queue *)
(* is a set of PacketFrames with the order its insertions give it: see     *)
(* Front.  Time is in ticks; everything the simulator schedules for "now"  *)
(* runs before the clock moves.                                            *)
(***************************************************************************)
EXTENDS Integers, FiniteSets

CONSTANTS
    FrameSizes,     \* how many data packets a frame may have
    GroupSizes,     \* the fec_group_size a FEC policy may answer
    FECNums,        \* the number of FEC packets it may give a batch
    Rtos,           \* the values of srtt + 4 * sd + batch size * dispersion
    MinRtt,         \* m_netStat->min_rtt, set once by the constructor
    DelayDdl,       \* delay_ddl
    CheckInterval,  \* check_rtx_interval
    FrameInterval,  \* the encoder's period, 1e6 / fps
    StopGap,        \* from the end of encoding to the stop (fec-emulate.cc: DelayDdl)
    Start,          \* when the application starts
    MaxFrames,      \* bound: frames in a run
    LastEncode,     \* bound: no frame is encoded later
    MaxTime         \* bound: end of the run

ASSUME SenderAssumption ==
    /\ FrameSizes \subseteq Nat \ {0}
    /\ GroupSizes \subseteq Nat \ {0}
    /\ FECNums \subseteq Nat
    /\ Rtos \subseteq Nat
    /\ {MinRtt, DelayDdl, FrameInterval, LastEncode, MaxTime, MaxFrames} \subseteq Nat
    /\ CheckInterval \in Nat \ {0}
    /\ StopGap \in Nat
    /\ Start \in Nat \ {0} /\ \A r \in Rtos : r < Start

VARIABLES
    now,        \* Simulator::Now()
    pkts,       \* the DataPacket objects, shared by the store and the queue
    hist,       \* data_pkt_history
    keys,       \* data_pkt_history_key
    queue,      \* m_queue
    sends,      \* number of pending SendPacket events
    nextCheck,  \* when check_rtx_event fires
    nextGroup,  \* group_id
    nextBatch,  \* batch_id
    frames,     \* frame_id of the next frame
    stopAt,     \* when StopRunning is called; 0 while the encoder runs
    running     \* FALSE once StopRunning has been called

senderVars == <<now, pkts, hist, keys, queue, sends, nextCheck, nextGroup,
                nextBatch, frames, stopAt, running>>

------------------------------------------------------------------------------
\* Operators named Faulty... are not part of the model: each is the definition
\* after it with a bug put in, used to see that a property notices the bug.

\* The packets of group g that are still stored.
Stored(g, store) == {p \in store : pkts[p].group = g}

\* All the data packets of group g: GetGroupDataNum is its size.
GroupData(g) == {p \in DOMAIN pkts : pkts[p].group = g}

\* The packets of one batch as CreatePacketBatch lines them up: the data
\* packets (by reference), then fec FEC packets that each cover all of them.
BatchItems(batch, data, fec) ==
    {[kind |-> "DATA", batch |-> batch, id |-> p, of |-> {p}] : p \in data}
    \cup
    {[kind |-> "FEC", batch |-> batch, id |-> i, of |-> data] : i \in 1 .. fec}

\* m_queue[0].  SendRtx inserts at the front and SendFrame pushes at the back,
\* so retransmissions come first, the latest batch leading, and then the
\* frames in the order they were encoded.
Front(f) ==
    /\ f \in queue
    /\ \A g \in queue \ {f} :
          IF f.rtx THEN g.rtx => g.seq < f.seq
                   ELSE ~g.rtx /\ f.seq < g.seq

\* The packet at the head of PacketFrame f: batches in turn, data before FEC.
\* Data packets of a retransmission come in the order of a hash map, any order.
HeadOf(f, x) ==
    /\ x \in f.items
    /\ \A y \in f.items \ {x} :
          \/ x.batch < y.batch
          \/ x.batch = y.batch /\ x.kind = "DATA" /\ y.kind = "FEC"
          \/ x.batch = y.batch /\ x.kind = y.kind /\ (x.id < y.id \/ f.rtx)

------------------------------------------------------------------------------
Init ==
    /\ now = Start
    /\ pkts = [p \in {} |-> 0]
    /\ hist = {}
    /\ keys = {}
    /\ queue = {}
    /\ sends = 0
    /\ nextCheck = Start + CheckInterval
    /\ nextGroup = 0
    /\ nextBatch = 0
    /\ frames = 0
    /\ stopAt = 0
    /\ running = TRUE

\* The encoder hands over a frame of n data packets.  SendPackets cuts full
\* groups of gs packets, a remainder makes a last group, each with its own FEC
\* count; the frame is queued and its data packets are stored.
CreateFrame(n, gs, fecFull, fecRest) ==
    LET old      == DOMAIN pkts
        last     == Cardinality(old) + n
        new      == (1 .. last) \ old
        Nth(p)   == (p - Cardinality(old) - 1) \div gs
        Data(k)  == {p \in new : Nth(p) = k}
        Fec(k)   == IF Cardinality(Data(k)) = gs THEN fecFull ELSE fecRest
        groups   == {Nth(p) : p \in new}
    IN  /\ running /\ stopAt = 0
        /\ frames < MaxFrames /\ now <= LastEncode
        /\ \A p \in old : now - pkts[p].encode >= FrameInterval
        /\ pkts' = [p \in 1 .. last |->
                      IF p \in old THEN pkts[p]
                      ELSE [frame |-> frames, group |-> nextGroup + Nth(p),
                            encode |-> now, enq |-> now, sent |-> 0, tx |-> 0,
                            batch |-> nextBatch + Nth(p),
                            bnum |-> Cardinality(Data(Nth(p)))]]
        /\ hist' = hist \cup new
        /\ keys' = keys \cup new
        /\ queue' = queue \cup
              {[rtx |-> FALSE, seq |-> nextBatch,
                items |-> UNION {BatchItems(nextBatch + k, Data(k), Fec(k)) :
                                 k \in groups}]}
        /\ sends' = sends + 1
        /\ nextGroup' = nextGroup + Cardinality(groups)
        /\ nextBatch' = nextBatch + Cardinality(groups)
        /\ frames' = frames + 1
        /\ UNCHANGED <<now, nextCheck, stopAt, running>>

\* A pending SendPacket event finds a packet: x, at the head of m_queue[0],
\* goes to the socket and the next event is scheduled.
SendItem(x) ==
    \E f \in queue :
        /\ Front(f) /\ HeadOf(f, x)
        /\ sends > 0
        /\ pkts' = [p \in DOMAIN pkts |->
                      IF x.kind = "DATA" /\ p = x.id
                      THEN [pkts[p] EXCEPT !.sent = now] ELSE pkts[p]]
        /\ queue' = (queue \ {f}) \cup
                      {[f EXCEPT !.items = rest] : rest \in {f.items \ {x}} \ {{}}}
        /\ UNCHANGED <<now, hist, keys, sends, nextCheck, nextGroup, nextBatch,
                       frames, stopAt, running>>

SendPacket == \E f \in queue : \E x \in f.items : SendItem(x)

\* Fault: SendPacket runs without an event.
FaultySendNothing ==
    /\ queue = {}
    /\ sends' = sends - 1
    /\ UNCHANGED <<now, pkts, hist, keys, queue, nextCheck, nextGroup,
                   nextBatch, frames, stopAt, running>>

\* A pending SendPacket event finds m_queue empty: it schedules nothing.
SendNothing ==
    /\ sends > 0 /\ queue = {}
    /\ sends' = sends - 1
    /\ UNCHANGED <<now, pkts, hist, keys, queue, nextCheck, nextGroup,
                   nextBatch, frames, stopAt, running>>

------------------------------------------------------------------------------
\* Fault: the deadline is counted from the last enqueueing.
FaultyMissesDdl(p) == now - pkts[p].enq > DelayDdl

MissesDdl(p) == now - pkts[p].encode > DelayDdl

\* rto stands for srtt + 4 * sd + (size of the batch) * dispersion.
IsRtxTimeout(p, rto) == now > pkts[p].enq /\ now - pkts[p].sent > rto

\* The keys in front of the first stored packet that has property stop: the
\* part of the deque a loop visits when it breaks there.
Before(stop, store, deque) ==
    {k \in deque : \A s \in deque \cap store : stop[s] => k < s}

\* Fault: phase 1 looks at the oldest key only.
FaultyOutdated ==
    {k \in keys : (\A l \in keys : k <= l) /\ (k \in hist => MissesDdl(k))}

\* Phase 1 of CheckRetransmission leaves at the first packet in time.
Outdated ==
    Before([p \in DOMAIN pkts |-> ~MissesDdl(p)], hist, keys)

\* Phase 2 leaves at the first packet younger than min_rtt.
Visited ==
    Before([p \in DOMAIN pkts |-> now - pkts[p].encode < MinRtt],
           hist \ Outdated, keys \ Outdated)

\* The groups with a visited packet whose retransmission timer has expired.
SilentGroups(rto) ==
    {pkts[p].group : p \in {q \in Visited \cap hist :
                                IsRtxTimeout(q, rto[pkts[q].group])}}

\* RetransmitGroup and CreateRTXPacketBatch put pkt in a new batch of n packets.
Retransmitted(pkt, tx, batch, n) ==
    [pkt EXCEPT !.tx = tx, !.enq = now, !.batch = batch, !.bnum = n]

\* CheckRetransmission: outdated packets leave the store, then RetransmitGroup
\* sends what is left of every silent group as a new batch, and the timer is
\* set again.  rto and fec give the timeout and FEC count of each group.
CheckRetransmission(rto, fec) ==
    LET store    == hist \ Outdated
        again    == SilentGroups(rto)
        Batch(g) == nextBatch + Cardinality({h \in again : h < g})
        Tx(g)    == pkts[CHOOSE p \in Stored(g, store) : TRUE].tx + 1
    IN  /\ running /\ now = nextCheck
        /\ hist' = store
        /\ keys' = {k \in keys \ Outdated : k \in Visited => k \in hist}
        /\ pkts' = [p \in DOMAIN pkts |->
                      LET g == pkts[p].group
                      IN  IF g \in again /\ p \in Stored(g, store)
                          THEN Retransmitted(pkts[p], Tx(g), Batch(g),
                                             Cardinality(Stored(g, store)))
                          ELSE pkts[p]]
        /\ queue' = queue \cup
              {[rtx |-> TRUE, seq |-> Batch(g),
                items |-> BatchItems(Batch(g), Stored(g, store), fec[g])] :
               g \in again}
        /\ sends' = sends + Cardinality(again)
        /\ nextBatch' = nextBatch + Cardinality(again)
        /\ nextCheck' = now + CheckInterval
        /\ UNCHANGED <<now, nextGroup, frames, stopAt, running>>

\* Fault: an acknowledged packet takes the keys of its group with it.
FaultyRcvACKPacket(acked) ==
    /\ running
    /\ hist' = hist \ acked
    /\ keys' = {k \in keys : \A p \in acked : pkts[k].group # pkts[p].group}
    /\ UNCHANGED <<now, pkts, queue, sends, nextCheck, nextGroup,
                   nextBatch, frames, stopAt, running>>

\* An ACK packet names the packets of acked: they leave the store.  Their keys
\* stay for CheckRetransmission to clean.
RcvACKPacket(acked) ==
    /\ running
    /\ hist' = hist \ acked
    /\ UNCHANGED <<now, pkts, keys, queue, sends, nextCheck, nextGroup,
                   nextBatch, frames, stopAt, running>>

\* GameServer::StopEncoding; the application stops StopGap later.
StopEncoding ==
    /\ running /\ stopAt = 0
    /\ stopAt' = now + StopGap
    /\ UNCHANGED <<now, pkts, hist, keys, queue, sends, nextCheck, nextGroup,
                   nextBatch, frames, running>>

\* StopRunning cancels the timer and closes the socket.
StopRunning ==
    /\ running /\ stopAt > 0 /\ now = stopAt
    /\ running' = FALSE
    /\ UNCHANGED <<now, pkts, hist, keys, queue, sends, nextCheck, nextGroup,
                   nextBatch, frames, stopAt>>

\* Fault: packets are paced, so time passes while some are queued.
FaultyTick ==
    /\ now < MaxTime
    /\ running => now < nextCheck /\ (stopAt = 0 \/ now < stopAt)
    /\ now' = now + 1
    /\ UNCHANGED <<pkts, hist, keys, queue, sends, nextCheck, nextGroup,
                   nextBatch, frames, stopAt, running>>

\* The clock moves when nothing is left to do now.
Tick ==
    /\ sends = 0 /\ now < MaxTime
    /\ running => now < nextCheck /\ (stopAt = 0 \/ now < stopAt)
    /\ now' = now + 1
    /\ UNCHANGED <<pkts, hist, keys, queue, sends, nextCheck, nextGroup,
                   nextBatch, frames, stopAt, running>>

------------------------------------------------------------------------------
\* The packets an ACK may name to some effect: stored, and sent at least once.
Unacknowledged == {p \in hist : pkts[p].sent > 0}

HistGroups == {pkts[p].group : p \in hist}

Check == \E rto \in [HistGroups -> Rtos], fec \in [HistGroups -> FECNums] :
            CheckRetransmission(rto, fec)

Next ==
    \/ \E n \in FrameSizes, gs \in GroupSizes, ff, fr \in FECNums :
          CreateFrame(n, gs, ff, fr)
    \/ SendPacket
    \/ SendNothing
    \/ Check
    \/ \E acked \in SUBSET Unacknowledged : RcvACKPacket(acked)
    \/ StopEncoding
    \/ StopRunning
    \/ Tick

Spec == Init /\ [][Next]_senderVars

\* The simulator runs every scheduled event and time goes on; the encoder, the
\* network and the receiver may do nothing.
FairSpec ==
    /\ Spec
    /\ WF_senderVars(SendPacket \/ SendNothing)
    /\ WF_senderVars(Check)
    /\ WF_senderVars(StopRunning)
    /\ WF_senderVars(Tick)

------------------------------------------------------------------------------
Item == [kind : {"DATA", "FEC"}, batch : Nat, id : Nat, of : SUBSET DOMAIN pkts]

\* Every variable keeps its type; sends never goes negative, which takes the
\* guard of SendPacket on its pending event.
TypeOK ==
    /\ {now, sends, nextCheck, nextGroup, nextBatch, frames, stopAt} \subseteq Nat
    /\ DOMAIN pkts = 1 .. Cardinality(DOMAIN pkts)
    /\ \A p \in DOMAIN pkts :
          pkts[p] \in [frame : Nat, group : Nat, encode : Nat, enq : Nat,
                       sent : Nat, tx : Nat, batch : Nat, bnum : Nat]
    /\ hist \subseteq DOMAIN pkts
    /\ keys \subseteq DOMAIN pkts
    /\ \A f \in queue : /\ f \in [rtx : BOOLEAN, seq : Nat, items : SUBSET Item]
                        /\ f.items # {}
    /\ running \in BOOLEAN

\* Every stored packet has its key in the deque: RcvACKPacket removes a packet
\* and leaves its key, CheckRetransmission removes keys, and a packet without
\* a key would neither expire nor be sent again.
HistoryKeyed == hist \subseteq keys

\* data_pkt_history_key is "in time order" (packet-sender-udp.h), which is
\* what lets phase 1 of CheckRetransmission stop at the first packet in time.
KeysInTimeOrder ==
    \A p, q \in keys : p < q => pkts[p].encode <= pkts[q].encode

\* m_queue and data_pkt_history share the DataPacket objects.  RetransmitGroup
\* changes a packet's batch and time; it never does so to a packet that is
\* still queued, so what is sent belongs to the batch it was queued with.
QueueUntouched ==
    \A f \in queue : \A x \in f.items : \A p \in x.of :
        pkts[p].enq = now /\ pkts[p].batch = x.batch

\* The stored packets of a group are always in step: RetransmitGroup takes the
\* TX count of one of them for all and sends all of them as one batch.
GroupInStep ==
    \A p, q \in hist :
        pkts[p].group = pkts[q].group =>
            /\ pkts[p].tx = pkts[q].tx
            /\ pkts[p].batch = pkts[q].batch
            /\ pkts[p].encode = pkts[q].encode

\* No check saw packet p outdated before the stop: CheckRetransmission runs once
\* in CheckInterval, and it keeps a packet that may still make its deadline.
CutOff(p) == ~running /\ pkts[p].encode + DelayDdl + CheckInterval >= stopAt

\* When the application stops, each packet was acknowledged or missed its
\* deadline, but for those StopRunning cuts off: it cancels the timer and they
\* stay in the store for good.
StopLeavesLast == ~running => \A p \in hist : CutOff(p)

\* The store, its key deque, its groups and the stop of the application agree:
\* the parts that acknowledgements and CheckRetransmission change one by one.
StoreSound ==
    /\ HistoryKeyed
    /\ KeysInTimeOrder
    /\ GroupInStep
    /\ StopLeavesLast

Store == INSTANCE DeadlineStore WITH
            Ddl <- DelayDdl, Slack <- CheckInterval, clock <- now,
            born <- [p \in DOMAIN pkts |-> pkts[p].encode],
            resent <- [p \in DOMAIN pkts |-> pkts[p].tx],
            pending <- hist, open <- running

\* The groups, batches, deque and timers of the sender implement the promise of
\* DeadlineStore: CheckRetransmission expires exactly the outdated packets and
\* sends none of them again.
ImplementsStore == Store!StoreSpec

\* The numbers of the packets a run may have.
PacketIds == 1 .. MaxFrames * (CHOOSE n \in FrameSizes : \A m \in FrameSizes : m <= n)

\* Every stored packet leaves the store, by a CheckRetransmission if no ACK ever
\* comes, unless the stop of the application cuts it off.
Settles == \A p \in PacketIds : p \in hist ~> (p \notin hist \/ CutOff(p))

==============================================================================

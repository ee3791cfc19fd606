------------------------------- MODULE UdpPath -------------------------------
(***************************************************************************)
(* The UDP video path: PacketSenderUdp, a network and PacketReceiverUdp.   *)
(* Packets and ACKs may be delayed, overtake each other or be lost: a lost *)
(* one stays in flight and is never received.  An ACK that names no packet *)
(* changes nothing in the sender's store and is left out.                  *)
(***************************************************************************)
EXTENDS PacketSenderUdp

VARIABLES
    incomplete, complete, timedOut, delivered, received,    \* the receiver
    net,        \* data and FEC packets in flight
    acks        \* ACK packets in flight, each the set of packets it names

R == INSTANCE PacketReceiverUdp

receiverVars == <<incomplete, complete, timedOut, delivered, received>>
pathVars == <<senderVars, receiverVars, net, acks>>

PathInit ==
    /\ Init
    /\ R!ReceiverInit
    /\ net = {}
    /\ acks = {}

\* Fault: the batch number is written where the group number belongs.
FaultyWire(x) ==
    LET any == CHOOSE p \in x.of : TRUE
    IN  [kind |-> x.kind, batch |-> x.batch, id |-> x.id, of |-> x.of,
         group |-> x.batch, bnum |-> pkts[any].bnum, gnum |-> pkts[any].bnum,
         encode |-> pkts[any].encode]

\* The network packet the sender makes of x: the header fields are those of the
\* packet object when it is sent; a FEC packet has the encode time
\* it was made with.
Wire(x) ==
    LET any == CHOOSE p \in x.of : TRUE
        g   == pkts[any].group
    IN  [kind |-> x.kind, batch |-> IF x.kind = "DATA" THEN pkts[x.id].batch ELSE x.batch,
         id |-> x.id, of |-> x.of, group |-> g,
         bnum |-> pkts[any].bnum, gnum |-> Cardinality(GroupData(g)),
         encode |-> IF x.kind = "DATA" THEN pkts[x.id].encode ELSE now]

PathSend ==
    \E f \in queue : \E x \in f.items :
        /\ SendItem(x)
        /\ net' = net \cup {Wire(x)}
        /\ UNCHANGED <<receiverVars, acks>>

\* The receiver gets m and answers with an ACK.
Receive(m) ==
    /\ running
    /\ R!ReceiveUdpPacket(m, now)
    /\ net' = net \ {m}
    /\ acks' = acks \cup ({R!Decoded(m)} \ {{}})
    /\ UNCHANGED senderVars

\* Fault: an ACK for one packet of a group is taken for all of them.
FaultyReceiveAck(a) ==
    /\ RcvACKPacket({p \in hist : \E q \in a : pkts[p].group = pkts[q].group})
    /\ acks' = acks \ {a}
    /\ UNCHANGED <<receiverVars, net>>

ReceiveAck(a) ==
    /\ RcvACKPacket(a)
    /\ acks' = acks \ {a}
    /\ UNCHANGED <<receiverVars, net>>

SenderAlone ==
    /\ \/ \E n \in FrameSizes, gs \in GroupSizes, ff, fr \in FECNums :
             CreateFrame(n, gs, ff, fr)
       \/ SendNothing
       \/ Check
       \/ StopEncoding
       \/ StopRunning
       \/ Tick
    /\ UNCHANGED <<receiverVars, net, acks>>

PathNext ==
    \/ PathSend
    \/ \E m \in net : Receive(m)
    \/ \E a \in acks : ReceiveAck(a)
    \/ SenderAlone

PathSpec == PathInit /\ [][PathNext]_pathVars

------------------------------------------------------------------------------
\* The receiver's maps and the network hold only what the sender made.
PathTypeOK ==
    /\ DOMAIN incomplete \cup complete \cup timedOut \subseteq 0 .. nextGroup - 1
    /\ \A g \in DOMAIN incomplete :
          /\ incomplete[g].encode \in Nat /\ incomplete[g].num > 0
          /\ incomplete[g].decoded \subseteq GroupData(g)
          /\ DOMAIN incomplete[g].batches \cup incomplete[g].done \subseteq 0 .. nextBatch - 1
    /\ delivered \subseteq {p \in DOMAIN pkts : pkts[p].sent > 0}
    /\ \A m \in net : m.of \subseteq DOMAIN pkts
    /\ acks \subseteq SUBSET DOMAIN pkts
    /\ received \in Nat

\* A packet leaves the sender's store only when the decoder has it or its
\* deadline is over: losing packets and ACKs, FEC recovery and retransmission in
\* new batches never make the sender forget a packet that is still of use.
NeverForgotten ==
    \A p \in DOMAIN pkts : p \in hist \/ p \in delivered \/ MissesDdl(p)

\* A group the receiver moves to complete_groups has been decoded in full.
CompleteIsDelivered == \A g \in complete : GroupData(g) \subseteq delivered

\* A batch adds up data and FEC packets to decide that it can be recovered.
\* That count is right only if the data packets it holds are those its FEC
\* packets cover, although retransmission moves packets from batch to batch.
BatchAddsUp ==
    \A g \in DOMAIN incomplete : \A b \in DOMAIN incomplete[g].batches :
        LET batch == incomplete[g].batches[b]
        IN  batch.fec # {} => /\ batch.data \subseteq batch.cover
                              /\ Cardinality(batch.cover) = batch.num

\* FEC recovers packets but makes none: the decoder never gets more data packets
\* than the receiver got packets of either kind.
NothingFromNothing == Cardinality(delivered) <= received

\* What goes to the decoder is no less than the groups settled as complete hold
\* and no more than the packets that came can account for.
DeliveriesSound == CompleteIsDelivered /\ NothingFromNothing

==============================================================================

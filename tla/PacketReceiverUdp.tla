-------------------------- MODULE PacketReceiverUdp --------------------------
(***************************************************************************)
(* The UDP video receiver (bitrate-ctrl/model/packet-receiver-udp.cc) and  *)
(* its packet groups and batches (fec-policy/packet-group.cc): which data  *)
(* packets a received packet makes known, what goes to the decoder and is  *)
(* acknowledged, and when a group is complete or timed out.                *)
(*                                                                         *)
(* A packet on the wire is a record: kind ("DATA" or "FEC"), batch, id (of *)
(* the data packet, or the number of the FEC packet in its batch), of (the *)
(* data packets it carries), group, bnum and gnum (data packets of the     *)
(* batch and of the group) and encode (its encode time).  The DUP_FEC_PKT  *)
(* type is handled like a data packet and is never made.                   *)
(***************************************************************************)
EXTENDS Integers, FiniteSets

CONSTANT DelayDdl       \* delay_ddl

VARIABLES
    incomplete,     \* incomplete_groups: group_id -> its PacketGroup
    complete,       \* the keys of complete_groups
    timedOut,       \* the keys of timeout_groups
    delivered,      \* the data packets handed to the decoder so far
    received        \* rcvd_pkt_cnt

ReceiverInit ==
    /\ incomplete = [g \in {} |-> 0]
    /\ complete = {}
    /\ timedOut = {}
    /\ delivered = {}
    /\ received = 0

------------------------------------------------------------------------------
\* PacketGroup's constructor: no batch yet.  PacketBatch's: nothing received.
NewGroup(pkt) ==
    [encode |-> pkt.encode, num |-> pkt.gnum, batches |-> [b \in {} |-> 0],
     done |-> {}, decoded |-> {}]

NewBatch(pkt) == [data |-> {}, fec |-> {}, cover |-> {}, num |-> pkt.bnum]

\* Fault: the batches of a group are not told apart.
FaultyBatchOf(group, pkt) ==
    IF DOMAIN group.batches # {}
    THEN group.batches[CHOOSE b \in DOMAIN group.batches : TRUE] ELSE NewBatch(pkt)

BatchOf(group, pkt) ==
    IF pkt.batch \in DOMAIN group.batches
    THEN group.batches[pkt.batch] ELSE NewBatch(pkt)

\* The packets PacketGroup::AddPacket does not pass to a batch.
Useless(group, pkt) ==
    \/ pkt.batch \in group.done
    \/ pkt.kind = "DATA" /\ pkt.id \in group.decoded

\* PacketBatch::AddPacket.
AddToBatch(batch, pkt) ==
    IF pkt.kind = "DATA"
    THEN [batch EXCEPT !.data = @ \cup {pkt.id}]
    ELSE [batch EXCEPT !.fec = @ \cup {pkt.id}, !.cover = pkt.of]

\* PacketBatch::CheckComplete: any num packets of the batch are enough.
CheckComplete(batch) ==
    Cardinality(batch.data) + Cardinality(batch.fec) >= batch.num

\* The data packets pkt makes known: itself, and what FEC recovers.
Fresh(group, pkt) ==
    LET batch == AddToBatch(BatchOf(group, pkt), pkt)
    IN  IF Useless(group, pkt) THEN {}
        ELSE (IF pkt.kind = "DATA" THEN {pkt.id} ELSE {})
             \cup (IF CheckComplete(batch) THEN batch.cover \ batch.data ELSE {})

\* Fault: what a FEC packet covers is marked decoded when it arrives.
FaultyAddPacket(group, pkt) ==
    LET batch == AddToBatch(BatchOf(group, pkt), pkt)
    IN  IF Useless(group, pkt) THEN group
        ELSE [group EXCEPT
                !.decoded = @ \cup pkt.of,
                !.batches = [b \in DOMAIN @ \cup {pkt.batch} |->
                               IF b = pkt.batch THEN batch ELSE @[b]]]

\* PacketGroup::AddPacket, then GetUndecodedPackets marks the packets decoded.
AddPacket(group, pkt) ==
    LET batch == AddToBatch(BatchOf(group, pkt), pkt)
        timed == [group EXCEPT !.encode = IF pkt.encode < @ THEN pkt.encode ELSE @]
    IN  IF Useless(group, pkt) THEN timed
        ELSE [timed EXCEPT
                !.decoded = @ \cup Fresh(group, pkt),
                !.done    = IF CheckComplete(batch) THEN @ \cup {pkt.batch} ELSE @,
                !.batches = [b \in (DOMAIN @ \cup {pkt.batch})
                                     \ (IF CheckComplete(batch) THEN {pkt.batch} ELSE {}) |->
                               IF b = pkt.batch THEN batch ELSE @[b]]]

------------------------------------------------------------------------------
GroupOf(pkt) == IF pkt.group \in DOMAIN incomplete
                THEN incomplete[pkt.group] ELSE NewGroup(pkt)

\* What the ACK for pkt names.
Decoded(pkt) == Fresh(GroupOf(pkt), pkt)

\* ReceiveUdpPacket at time t.  The necessity check comes after the packet has
\* been added: a packet of a complete or timed-out group opens the group again,
\* is decoded and acknowledged, and only then is the rest skipped.
ReceiveUdpPacket(pkt, t) ==
    LET g       == pkt.group
        group   == AddPacket(GroupOf(pkt), pkt)
        settled == g \in complete \cup timedOut
        full    == ~settled /\ Cardinality(group.decoded) = group.num
        open    == (DOMAIN incomplete \cup {g}) \ (IF full THEN {g} ELSE {})
        Held(h) == IF h = g THEN group ELSE incomplete[h]
        late    == IF settled THEN {}
                   ELSE {h \in open : t > Held(h).encode + DelayDdl}
    IN  /\ incomplete' = [h \in open \ late |-> Held(h)]
        /\ complete' = IF full THEN complete \cup {g} ELSE complete
        /\ timedOut' = timedOut \cup late
        /\ delivered' = delivered \cup Decoded(pkt)
        /\ received' = received + 1

==============================================================================

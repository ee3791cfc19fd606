------------------------------- MODULE TcpVideo -------------------------------
(***************************************************************************)
(* Video over TCP: game-server.cc and video-encoder.cc make a frame every  *)
(* FrameInterval, packet-sender-tcp.cc queues it and writes it, with a     *)
(* header, to a TCP socket, packet-receiver-tcp.cc cuts frames out of the  *)
(* byte stream again.  Every Window the sender computes a bitrate from     *)
(* what left the socket's buffer, which gives the next frames their size.  *)
(*                                                                         *)
(* The stream is a row of byte positions: wrote, sent, acked (sender's     *)
(* socket) and rcvd (receiver's socket).  TCP itself is external: it sends *)
(* full segments or all it has, and an arrival may fill a hole, so that    *)
(* one callback covers several segments.                                   *)
(***************************************************************************)
EXTENDS Integers, Sequences, SequencesExt, FiniteSetsExt

CONSTANTS
    Hdr,            \* DataPacketHeader: 12 bytes
    MSS,            \* TcpSocket::SegmentSize
    TxBufSize,      \* m_txBufSize
    FrameInterval,  \* 1e6 / fps
    Window,         \* kTxRateUpdateWindowMs and m_cc_interval
    KMin, KMax,     \* kMinEncodeBps, kMaxEncodeBps
    Bits,           \* bits of a byte
    Kilo,           \* encodeRateBps >> 10
    Word,           \* 2^32
    InFlight,       \* bound: bytes sent and not acknowledged
    LastEncode,     \* when StopEncoding runs
    MaxTime         \* when StopRunning runs: the end of the run

ASSUME TcpVideoAssumption ==
    /\ {Hdr, MSS, TxBufSize, FrameInterval, Window, KMin, KMax, Bits, Kilo, Word,
        InFlight, LastEncode, MaxTime} \subseteq Nat \ {0}
    /\ MSS > Hdr /\ KMin <= KMax /\ LastEncode < MaxTime

VARIABLES
    clock,
    encodeAt, kbps,              \* the encoder: its event, its bitrate
    frames,                      \* the frames created so far, in order
    queue,                       \* m_queue: numbers of frames
    sends,                       \* pending SendPacket events
    m_connected, running,
    bitrate, firstUpdate, lastPending,  \* m_bitrate, m_firstUpdate, m_lastPendingBuf
    writes,                      \* m_time_history with m_write_history
    duty, dutyAt, updateAt,      \* m_dutyState, the two timers
    wrote, sent, acked, ends, established,  \* the sender's socket
    rcvd,                        \* in-order bytes at the receiver's socket
    rx,                          \* the fields of PacketReceiverTcp
    createdAt, burst             \* history: last CreateFrame; did one arrival
                                 \* ever complete several frames

appVars  == <<encodeAt, kbps, frames, queue, sends, createdAt>>
rateVars == <<bitrate, firstUpdate, lastPending, writes, duty, dutyAt, updateAt>>
sockVars == <<wrote, sent, acked, ends, established>>
recvVars == <<rcvd, rx, burst>>
vars == <<clock, m_connected, running, appVars, rateVars, sockVars, recvVars>>

------------------------------------------------------------------------------
\* GetTxAvailable, and the part of the buffer that was never sent.
TxAvailable == TxBufSize - (wrote - acked)
PendingBuf == wrote - sent

\* GameServer: StartApplication schedules the encoder's first frame for now.
AppInit ==
    /\ running = TRUE
    /\ encodeAt = 0 /\ kbps = 0
    /\ frames = <<>> /\ createdAt = -1

\* PacketSenderTcp, with its two timers; the constructor leaves m_connected unset.
SenderInit ==
    /\ queue = <<>> /\ sends = 0
    /\ m_connected \in BOOLEAN
    /\ bitrate = 0 /\ firstUpdate = TRUE /\ lastPending = 0 /\ writes = <<>>
    /\ duty = [i \in 0 .. Window - 1 |-> FALSE]
    /\ dutyAt = 1 /\ updateAt = Window

\* PacketReceiverTcp, before its first read.
ReceiverInit ==
    /\ burst = FALSE
    /\ rx = [start |-> TRUE, left |-> 0, cur |-> 0, read |-> 0,
             out |-> <<>>, broken |-> FALSE]

\* The connection before the three-way handshake.
SocketInit ==
    /\ established = FALSE
    /\ wrote = 0 /\ sent = 0 /\ acked = 0 /\ ends = {}
    /\ rcvd = 0

Init == clock = 0 /\ AppInit /\ SenderInit /\ SocketInit /\ ReceiverInit

\* The three-way handshake is over: ConnectionSucceeded.  It sends nothing.
ConnectionSucceeded ==
    /\ ~established
    /\ established' = TRUE /\ m_connected' = TRUE
    /\ UNCHANGED <<clock, running, appVars, rateVars, wrote, sent, acked, ends, recvVars>>

\* DumbVideoEncoder::EncodeFrame: the size of a frame at kbps.
FrameSize == (kbps * Kilo * FrameInterval) \div Bits

\* GameServer::SendFrame and CreateFrame: an empty frame is no frame; another
\* is queued and a SendPacket scheduled for now.
SendFrame(size) ==
    IF size = 0 THEN UNCHANGED <<frames, queue, sends, createdAt>>
    ELSE /\ frames' = Append(frames, [size |-> size, at |-> 0])
         /\ queue' = Append(queue, Len(frames) + 1)
         /\ sends' = sends + 1 /\ createdAt' = clock

\* Fault: the socket's own writability drives the queue.
FaultyEncodeFrame ==
    /\ \/ encodeAt = clock /\ clock <= LastEncode
          /\ SendFrame(FrameSize)
          /\ encodeAt' = clock + FrameInterval
       \/ /\ queue # <<>> /\ sends = 0 /\ TxAvailable > TxBufSize \div 2
          /\ sends' = 1
          /\ UNCHANGED <<frames, queue, createdAt, encodeAt>>
    /\ UNCHANGED <<clock, running, kbps, m_connected, rateVars, sockVars, recvVars>>

EncodeFrame ==
    /\ encodeAt = clock /\ clock <= LastEncode
    /\ SendFrame(FrameSize)
    /\ encodeAt' = clock + FrameInterval
    /\ UNCHANGED <<clock, running, kbps, m_connected, rateVars, sockVars, recvVars>>

\* Socket::Send takes a packet whole or refuses it; a closed socket refuses.
Accepts(bytes) == running /\ bytes <= TxAvailable

\* A SendPacket event: the first frame goes to the socket and the next event
\* is scheduled; a socket that refuses it, or is not connected, ends the chain.
SendPacket ==
    LET f == Head(queue)
        bytes == Hdr + frames[f].size
        ok == queue # <<>> /\ m_connected /\ Accepts(bytes)
    IN  /\ sends > 0
        /\ IF ok
           THEN /\ queue' = Tail(queue)
                /\ frames' = [frames EXCEPT ![f].at = wrote]
                /\ wrote' = wrote + bytes
                /\ writes' = Append(writes, [time |-> clock, size |-> bytes])
                /\ UNCHANGED sends
           ELSE /\ sends' = sends - 1
                /\ UNCHANGED <<queue, frames, wrote, writes>>
        /\ UNCHANGED <<clock, running, m_connected, encodeAt, kbps, createdAt,
                       bitrate, firstUpdate, lastPending, duty, dutyAt, updateAt,
                       sent, acked, ends, established, recvVars>>

------------------------------------------------------------------------------
\* UpdateDutyRatio, every millisecond: is there data that was not sent?
UpdateDutyRatio ==
    /\ running /\ dutyAt = clock
    /\ duty' = [duty EXCEPT ![clock % Window] = PendingBuf > 0]
    /\ dutyAt' = clock + 1
    /\ UNCHANGED <<clock, running, m_connected, appVars, bitrate, firstUpdate,
                   lastPending, writes, updateAt, sockVars, recvVars>>

\* writes without the entries before the first of those listed.
From(young) == IF young = {} THEN <<>> ELSE SubSeq(writes, Min(young), Len(writes))

\* Fault: the entries as old as the window go too.
FaultyInWindow(t) == From({i \in DOMAIN writes : t - writes[i].time < Window})

\* The write history after the entries older than the window were popped.
InWindow(t) == From({i \in DOMAIN writes : t - writes[i].time <= Window})

\* std::accumulate over a write history.
Bytes(history) ==
    LET sum[i \in 0 .. Len(history)] ==
          IF i = 0 THEN 0 ELSE sum[i - 1] + history[i].size
    IN  sum[Len(history)]

TotalWriteBytes(t) == Bytes(InWindow(t))

\* totalSendBytes, an unsigned difference.
TotalSendBytes(t) == (TotalWriteBytes(t) - (PendingBuf - lastPending)) % Word

Clamp(r) == IF r \in KMin .. KMax THEN r ELSE IF r < KMin THEN KMin ELSE KMax

\* The new bitrate: three quarters of what was sent, less what is waiting, or,
\* with nothing waiting, a step towards a duty ratio of three quarters.
NextRate ==
    LET total == TotalSendBytes(clock)
        last  == ((total * Bits) % Word) \div Window
        share == IF total = 0 THEN 0
                 ELSE Max({last \div 10, ((total - PendingBuf) * last) \div total})
        busy  == Cardinality({i \in DOMAIN duty : duty[i]})
    IN  Clamp(IF PendingBuf > 0
              THEN (3 * Min({bitrate, share})) \div 4
              ELSE (bitrate * (11 * Window - 4 * busy)) \div (8 * Window))

\* The controller's timer: UpdateBitrate calls UpdateSendingRate, hands the
\* rate to the encoder and sets itself again.
UpdateBitrate ==
    LET rate == IF firstUpdate THEN KMin ELSE NextRate
    IN  /\ running /\ updateAt = clock
        /\ writes' = InWindow(clock)
        /\ bitrate' = rate /\ firstUpdate' = FALSE
        /\ lastPending' = PendingBuf
        /\ kbps' = Clamp(rate) \div Kilo
        /\ updateAt' = clock + Window
        /\ UNCHANGED <<clock, running, m_connected, encodeAt, frames, queue, sends,
                       createdAt, duty, dutyAt, sockVars, recvVars>>

\* StopRunning cancels both timers and closes the socket; what the socket
\* holds still goes out.
StopRunning ==
    /\ running /\ clock = MaxTime
    /\ running' = FALSE
    /\ UNCHANGED <<clock, m_connected, appVars, rateVars, sockVars, recvVars>>

------------------------------------------------------------------------------
\* TCP: a full segment or all there is.
SendSegment ==
    LET end == sent + Min({MSS, PendingBuf})
    IN  /\ established /\ PendingBuf > 0
        /\ end - acked <= InFlight
        /\ sent' = end /\ ends' = ends \cup {end}
        /\ UNCHANGED <<clock, running, m_connected, appVars, rateVars, wrote, acked,
                       established, recvVars>>

\* The frames whose last byte is within the first n of the stream.
Whole(n) == {i \in DOMAIN frames :
                /\ i \notin ToSet(queue)
                /\ frames[i].at + Hdr + frames[i].size <= n}

\* Fault: what is still to come of a frame is not counted down.
FaultyOnSocketRecv(r, to) ==
    LET have == to - r.read
        here == {i \in DOMAIN frames : i \notin ToSet(queue) /\ frames[i].at = r.read}
        f    == CHOOSE i \in here : TRUE
        body == IF r.start THEN have - Hdr ELSE have
        need == IF r.start THEN frames[f].size ELSE r.left
        cur  == IF r.start THEN f ELSE r.cur
    IN  IF body <= 0 \/ (r.start /\ here = {}) THEN [r EXCEPT !.broken = TRUE]
        ELSE IF body < need
        THEN [r EXCEPT !.start = FALSE, !.read = to, !.left = need, !.cur = cur]
        ELSE [r EXCEPT !.start = TRUE, !.read = @ + (have - body) + need,
                       !.left = 0, !.cur = cur, !.out = Append(@, cur)]

\* OnSocketRecv_receiver with the bytes up to position to in the socket: at the
\* start of a frame it reads the header and as much of the body as there is,
\* else as much as is missing; a full frame goes to the decoder, and what is
\* behind it stays in the socket.  A header or body that is not there at all is
\* a null packet, and the frame is not known if no header begins here.
OnSocketRecv(r, to) ==
    LET have == to - r.read
        here == {i \in DOMAIN frames : i \notin ToSet(queue) /\ frames[i].at = r.read}
        f    == CHOOSE i \in here : TRUE
        body == IF r.start THEN have - Hdr ELSE have
        need == IF r.start THEN frames[f].size ELSE r.left
        cur  == IF r.start THEN f ELSE r.cur
    IN  IF body <= 0 \/ (r.start /\ here = {}) THEN [r EXCEPT !.broken = TRUE]
        ELSE IF body < need
        THEN [r EXCEPT !.start = FALSE, !.read = to, !.left = need - body, !.cur = cur]
        ELSE [r EXCEPT !.start = TRUE, !.read = @ + (have - body) + need,
                       !.left = 0, !.cur = cur, !.out = Append(@, cur)]

\* New in-order bytes reach the receiver's socket and its callback runs once.
Arrive ==
    \E to \in ends :
        /\ to > rcvd
        /\ rcvd' = to
        /\ rx' = OnSocketRecv(rx, to)
        /\ burst' = (burst \/ Cardinality(Whole(to) \ Whole(rcvd)) > 1)
        /\ UNCHANGED <<clock, running, m_connected, appVars, rateVars, sockVars>>

\* The ACK for all that has arrived.
Ack ==
    /\ acked < rcvd
    /\ acked' = rcvd /\ ends' = {e \in ends : e > rcvd}
    /\ UNCHANGED <<clock, running, m_connected, appVars, rateVars, wrote, sent,
                   established, recvVars>>

\* The clock moves when no event is left for now.
Tick ==
    /\ sends = 0 /\ clock < MaxTime
    /\ encodeAt > clock \/ clock > LastEncode
    /\ dutyAt > clock /\ updateAt > clock
    /\ clock' = clock + 1
    /\ UNCHANGED <<running, m_connected, appVars, rateVars, sockVars, recvVars>>

Next ==
    \/ ConnectionSucceeded \/ EncodeFrame \/ SendPacket
    \/ UpdateDutyRatio \/ UpdateBitrate \/ StopRunning
    \/ SendSegment \/ Arrive \/ Ack \/ Tick

Spec == Init /\ [][Next]_vars

------------------------------------------------------------------------------
\* Every variable keeps its type, and the stream's positions their order.
TcpTypeOK ==
    /\ {clock, encodeAt, kbps, sends, lastPending, dutyAt, updateAt} \subseteq Nat
    /\ bitrate \in 0 .. KMax
    /\ \A f \in ToSet(frames) : f \in [size : Nat \ {0}, at : Nat]
    /\ ToSet(queue) \subseteq DOMAIN frames
    /\ {m_connected, running, firstUpdate, established, burst} \subseteq BOOLEAN
    /\ acked <= rcvd /\ rcvd <= sent /\ sent <= wrote
    /\ rx.read <= rcvd /\ wrote - acked <= TxBufSize

\* The decoder gets every frame whole, in the order they were created and
\* without a gap, although the receiver finds frames only by adding up sizes.
DecodedInOrder ==
    /\ rx.out = [i \in 1 .. Len(rx.out) |-> i]
    /\ ToSet(rx.out) \subseteq Whole(rcvd)

\* A callback never meets a cut header or an empty body, which would be a null
\* packet: this rests on SendFrame dropping empty frames and on TCP cutting a
\* segment short only at the end of what was written.
NeverShortRead == ~rx.broken

\* The receiver takes one frame per callback: a whole frame waits in the socket
\* only if some arrival has completed two frames at once.
WaitsOnlyAfterBurst == burst \/ ToSet(rx.out) = Whole(rcvd)

\* The framing over the byte stream: sender, buffer and receiver stay in step,
\* so frames reach the decoder whole, in order and as soon as the code allows.
FramesArriveWhole ==
    /\ TcpTypeOK
    /\ DecodedInOrder
    /\ NeverShortRead
    /\ WaitsOnlyAfterBurst

\* What was written in the window is at least what the buffer grew by since the
\* last update, so totalSendBytes, which is unsigned, does not wrap.
SentNeverWraps ==
    ~firstUpdate /\ running => TotalWriteBytes(clock) >= PendingBuf - lastPending

\* A frame is written only at a time a frame is created: once the socket has
\* refused one, or before the connection, the queue waits for the next frame
\* even if there is room, and the last frames may never leave.
WritesAtFrameTimes == [][Len(queue') < Len(queue) => createdAt = clock]_vars

==============================================================================

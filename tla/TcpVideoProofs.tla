--------------------------- MODULE TcpVideoProofs ---------------------------
(***************************************************************************)
(* Theorems about TcpVideo: the framing over the byte stream, when frames  *)
(* are written, and the unsigned sum of the rate.                          *)
(***************************************************************************)
EXTENDS TcpVideo, FiniteSetTheorems, SequenceTheorems, NaturalsInduction,
        WellFoundedInduction, TLAPS

\* The frames already written are the first Written; After(k) is the position
\* in the stream behind the first k of them.
Written == Len(frames) - Len(queue)
After(k) == IF k = 0 THEN 0 ELSE frames[k].at + Hdr + frames[k].size

NumberTypes ==
    /\ clock \in Nat /\ encodeAt \in Nat /\ kbps \in Nat /\ sends \in Nat
    /\ lastPending \in Nat /\ dutyAt \in Nat /\ updateAt \in Nat
    /\ bitrate \in 0 .. KMax

FlagTypes == {m_connected, running, firstUpdate, established, burst} \subseteq BOOLEAN

ListTypes == frames \in Seq([size : Nat \ {0}, at : Nat]) /\ queue \in Seq(Nat)

SocketTypes ==
    /\ wrote \in Nat /\ sent \in Nat /\ acked \in Nat /\ rcvd \in Nat
    /\ acked <= rcvd /\ rcvd <= sent /\ sent <= wrote /\ wrote - acked <= TxBufSize
    /\ ends \subseteq acked + 1 .. sent

ReceiverType ==
    rx \in [start : BOOLEAN, left : Nat, cur : Nat, read : Nat,
            out : Seq(Nat), broken : {FALSE}]

TypeInv == NumberTypes /\ FlagTypes /\ ListTypes /\ SocketTypes /\ ReceiverType

\* The queue holds the frames that are not written, in order.
QueueInv ==
    /\ Len(queue) <= Len(frames)
    /\ \A i \in 1 .. Len(queue) : queue[i] = Written + i

\* The written frames lie in the stream one behind the other.
LayoutInv ==
    /\ wrote = After(Written)
    /\ \A i \in 1 .. Written : frames[i].at = After(i - 1)
    /\ \A i, j \in 0 .. Written : i < j => After(i) < After(j)

\* Two ends of segments are a segment apart, unless the later one is the end
\* of a frame.
SegmentInv ==
    \A d \in ends \cup {rcvd}, e \in ends :
        d < e => \/ d + MSS <= e
                 \/ \E j \in 0 .. Written : e = After(j)

\* The receiver stands at the start of the frame it takes next, or in it, with
\* all that has arrived read.
ReceiverInv ==
    LET k == Len(rx.out)
    IN  /\ k <= Written
        /\ \A i \in 1 .. k : rx.out[i] = i
        /\ After(k) <= rx.read /\ rx.read <= rcvd
        /\ rx.start => rx.read = After(k)
        /\ ~rx.start => /\ k < Written /\ rx.cur = k + 1 /\ rx.left > 0
                        /\ rx.read + rx.left = After(k + 1)
                        /\ rx.read = rcvd

\* No whole frame waits unless there was a burst.
WaitInv ==
    LET k == Len(rx.out)
    IN  burst \/ k = Written \/ rcvd < After(k + 1)

\* SendPacket events are for now, and so is the frame that caused them.
EventInv == sends > 0 => createdAt = clock

StreamInv == QueueInv /\ LayoutInv /\ SegmentInv /\ ReceiverInv /\ WaitInv
VideoInv == TypeInv /\ StreamInv /\ EventInv

streamVars == <<frames, queue, wrote, sent, acked, ends, rcvd, rx, burst>>

------------------------------------------------------------------------------
\* The smaller of two numbers.
LEMMA MinPair ==
    ASSUME NEW a \in Int, NEW b \in Int
    PROVE  Min({a, b}) = IF a <= b THEN a ELSE b
<1> DEFINE m == IF a <= b THEN a ELSE b
<1>1. m \in {a, b} /\ \A y \in {a, b} : m <= y  OBVIOUS
<1>2. \A x \in {a, b} : (\A y \in {a, b} : x <= y) => x = m  OBVIOUS
<1> QED  BY <1>1, <1>2 DEF Min

\* What the steps use of the assumption.
LEMMA Sizes ==
    /\ Hdr \in Nat \ {0} /\ MSS \in Nat /\ MSS > Hdr /\ TxBufSize \in Nat
    /\ FrameInterval \in Nat \ {0} /\ Window \in Nat \ {0} /\ Bits \in Nat \ {0}
    /\ Kilo \in Nat \ {0} /\ KMin \in Nat /\ KMax \in Nat /\ KMin <= KMax
<1> QED  BY TcpVideoAssumption

\* A bitrate is within the encoder's range after Clamp, whatever it was.
LEMMA ClampRange == \A r : Clamp(r) \in KMin .. KMax
<1> QED  BY Sizes DEF Clamp

\* The frames and the queue are sequences, with what follows from it.
LEMMA SequenceTypes ==
    ASSUME TypeInv
    PROVE  /\ Len(frames) \in Nat /\ DOMAIN frames = 1 .. Len(frames)
           /\ \A i \in 1 .. Len(frames) : frames[i].size \in Nat \ {0} /\ frames[i].at \in Nat
           /\ Len(queue) \in Nat /\ DOMAIN queue = 1 .. Len(queue)
<1> DEFINE S == [size : Nat \ {0}, at : Nat]
<1>1. frames \in Seq(S) /\ queue \in Seq(Nat)  BY DEF TypeInv, ListTypes
<1>2. \A f \in S : f.size \in Nat \ {0} /\ f.at \in Nat  OBVIOUS
<1> HIDE DEF S
<1>3. /\ Len(frames) \in Nat /\ DOMAIN frames = 1 .. Len(frames)
      /\ \A i \in 1 .. Len(frames) : frames[i] \in S
  BY <1>1
<1>4. Len(queue) \in Nat /\ DOMAIN queue = 1 .. Len(queue)  BY <1>1
<1> QED  BY <1>2, <1>3, <1>4

\* What is written of the frames, in terms of Written.
LEMMA WrittenFrames ==
    ASSUME TypeInv, QueueInv
    PROVE  /\ Written \in Nat /\ Written <= Len(frames)
           /\ \A i \in DOMAIN frames : i \notin ToSet(queue) <=> i <= Written
<1>1. Written \in Nat /\ Written <= Len(frames)
  BY SequenceTypes DEF QueueInv, Written
<1>2. ASSUME NEW i \in DOMAIN frames  PROVE i \notin ToSet(queue) <=> i <= Written
  <2>1. i \in Nat /\ i <= Len(frames)  BY SequenceTypes
  <2>2. CASE i <= Written  BY <2>1, <2>2, <1>1, SequenceTypes DEF QueueInv, ToSet
  <2>3. CASE i > Written
    <3>1. i - Written \in 1 .. Len(queue)
      BY <2>3, <2>1, <1>1, SequenceTypes DEF Written
    <3>2. queue[i - Written] = i  BY <3>1, <2>1, <1>1 DEF QueueInv
    <3> QED  BY <3>1, <3>2, <2>3, <2>1, <1>1, SequenceTypes DEF ToSet
  <2> QED  BY <2>1, <2>2, <2>3, <1>1
<1> QED  BY <1>1, <1>2

\* The frames that are whole within the first n bytes.
LEMMA WholeFrames ==
    ASSUME TypeInv, QueueInv, NEW n \in Nat
    PROVE  Whole(n) = {i \in 1 .. Written : After(i) <= n}
<1> QED  BY SequenceTypes, WrittenFrames, Sizes DEF Whole, After

LEMMA AfterType ==
    ASSUME TypeInv, QueueInv, NEW k \in 0 .. Written
    PROVE  After(k) \in Nat
<1>1. k = 0 \/ k \in 1 .. Len(frames)  BY WrittenFrames, SequenceTypes
<1> QED  BY <1>1, SequenceTypes, Sizes DEF After

\* Positions grow with the number of frames.
LEMMA AfterGrows ==
    ASSUME TypeInv, QueueInv, LayoutInv, NEW i \in 0 .. Written, NEW j \in 0 .. Written
    PROVE  /\ i < j => After(i) < After(j)
           /\ i <= j <=> After(i) <= After(j)
           /\ j > 0 => After(j) = After(j - 1) + Hdr + frames[j].size
           /\ After(j) <= wrote
<1>1. Written \in Nat /\ After(i) \in Nat /\ After(j) \in Nat  BY WrittenFrames, AfterType
<1>2. After(i) < After(j) <=> i < j
  <2>1. i < j => After(i) < After(j)  BY DEF LayoutInv
  <2>2. j < i => After(j) < After(i)  BY DEF LayoutInv
  <2> QED  BY <1>1, <2>1, <2>2
<1>3. j > 0 => After(j) = After(j - 1) + Hdr + frames[j].size
  BY <1>1 DEF LayoutInv, After
<1>4. After(j) <= wrote
  <2>1. j < Written => After(j) < After(Written)  BY <1>1 DEF LayoutInv
  <2>2. After(Written) \in Nat /\ wrote = After(Written)  BY <1>1, AfterType DEF LayoutInv
  <2> QED  BY <1>1, <2>1, <2>2
<1>5. i <= j <=> After(i) <= After(j)
  <2>1. After(j) < After(i) <=> j < i
    <3>1. i < j => After(i) < After(j)  BY DEF LayoutInv
    <3>2. j < i => After(j) < After(i)  BY DEF LayoutInv
    <3> QED  BY <1>1, <3>1, <3>2
  <2> QED  BY <1>1, <2>1
<1> QED  BY <1>2, <1>3, <1>4, <1>5

------------------------------------------------------------------------------
LEMMA VideoInitial == Init => VideoInv
<1> SUFFICES ASSUME Init  PROVE VideoInv  OBVIOUS
<1> USE DEF Init, AppInit, SenderInit, SocketInit, ReceiverInit
<1>1. TypeInv
  <2>1. frames = <<>> /\ queue = <<>>  OBVIOUS
  <2>2. rx \in [start : BOOLEAN, left : Nat, cur : Nat, read : Nat,
                out : Seq(Nat), broken : {FALSE}]
    OBVIOUS
  <2>3. bitrate \in 0 .. KMax /\ Window \in Nat  BY Sizes
  <2> QED  BY <2>1, <2>2, <2>3, Sizes DEF TypeInv, NumberTypes, FlagTypes, ListTypes, SocketTypes, ReceiverType
<1>2. Written = 0  BY DEF Written
<1>3. Len(queue) = 0 /\ Len(frames) = 0 /\ Len(rx.out) = 0 /\ After(0) = 0
  BY DEF After
<1>4. QueueInv  BY <1>3 DEF QueueInv
<1>5. LayoutInv  BY <1>2, <1>3 DEF LayoutInv
<1>6. SegmentInv  BY DEF SegmentInv
<1>7. ReceiverInv /\ WaitInv  BY <1>2, <1>3 DEF ReceiverInv, WaitInv
<1>8. EventInv  BY DEF EventInv
<1> QED  BY <1>1, <1>4, <1>5, <1>6, <1>7, <1>8 DEF VideoInv, StreamInv

\* A step that leaves the stream alone leaves what is known of it.
LEMMA QuietStream ==
    ASSUME StreamInv, UNCHANGED streamVars
    PROVE  StreamInv'
<1>1. Written' = Written /\ \A k : After(k)' = After(k)  BY DEF streamVars, Written, After
<1>2. QueueInv'  BY <1>1 DEF StreamInv, QueueInv, streamVars
<1>3. LayoutInv'  BY <1>1 DEF StreamInv, LayoutInv, streamVars
<1>4. SegmentInv'  BY <1>1 DEF StreamInv, SegmentInv, streamVars
<1>5. ReceiverInv' /\ WaitInv'
  BY <1>1 DEF StreamInv, ReceiverInv, WaitInv, streamVars
<1> QED  BY <1>2, <1>3, <1>4, <1>5 DEF StreamInv

\* The steps that only move the clock, the timers or the rate.
QuietStep ==
    ConnectionSucceeded \/ UpdateDutyRatio \/ UpdateBitrate \/ StopRunning \/ Tick

LEMMA QuietSteps ==
    ASSUME VideoInv, QuietStep
    PROVE  VideoInv'
<1> USE DEF VideoInv
<1>1. UNCHANGED streamVars
  BY DEF QuietStep, ConnectionSucceeded, UpdateDutyRatio, UpdateBitrate, StopRunning,
         Tick, streamVars, appVars, sockVars, recvVars
<1>2. StreamInv'  BY <1>1, QuietStream
<1>3. ListTypes' /\ SocketTypes' /\ ReceiverType'
  BY <1>1 DEF TypeInv, ListTypes, SocketTypes, ReceiverType, streamVars
<1>4. FlagTypes'
  BY <1>1 DEF QuietStep, ConnectionSucceeded, UpdateDutyRatio, UpdateBitrate, StopRunning,
         Tick, streamVars, rateVars, sockVars, TypeInv, FlagTypes
<1>5. NumberTypes'
  <2>1. CASE ConnectionSucceeded
    BY <2>1 DEF ConnectionSucceeded, TypeInv, NumberTypes, appVars, rateVars
  <2>2. CASE UpdateDutyRatio
    BY <2>2 DEF UpdateDutyRatio, TypeInv, NumberTypes, appVars
  <2>3. CASE UpdateBitrate
    <3>1. \A r : Clamp(r) \in 0 .. KMax /\ Clamp(r) \div Kilo \in Nat
      <4>1. \A n \in Nat : n \div Kilo \in Nat  BY Sizes
      <4>2. \A r : Clamp(r) \in 0 .. KMax  BY ClampRange, Sizes
      <4> QED  BY <4>1, <4>2
    <3>2. NextRate \in 0 .. KMax  BY <3>1 DEF NextRate
    <3>3. bitrate' \in 0 .. KMax /\ kbps' \in Nat
      BY <2>3, <3>1, <3>2, Sizes DEF UpdateBitrate
    <3>4. wrote - sent \in Nat  BY DEF TypeInv, SocketTypes
    <3> QED  BY <2>3, <3>3, <3>4, Sizes
             DEF UpdateBitrate, TypeInv, NumberTypes, PendingBuf
  <2>4. CASE StopRunning
    BY <2>4 DEF StopRunning, TypeInv, NumberTypes, appVars, rateVars
  <2>5. CASE Tick
    BY <2>5 DEF Tick, TypeInv, NumberTypes, appVars, rateVars
  <2> QED  BY <2>1, <2>2, <2>3, <2>4, <2>5 DEF QuietStep
<1>6. EventInv'
  BY DEF QuietStep, ConnectionSucceeded, UpdateDutyRatio, UpdateBitrate, StopRunning,
         Tick, EventInv, appVars
<1> QED  BY <1>2, <1>3, <1>4, <1>5, <1>6 DEF TypeInv

\* Another frame at the end of the frames and of the queue.
LEMMA EncodeStep ==
    ASSUME VideoInv, EncodeFrame
    PROVE  VideoInv'
<1> USE DEF VideoInv, StreamInv
<1>1. FrameSize \in Nat
  <2>1. kbps * Kilo * FrameInterval \in Nat
    <3>1. \A a, b, c \in Nat : a * b * c \in Nat  OBVIOUS
    <3> QED  BY <3>1, Sizes DEF TypeInv, NumberTypes
  <2> QED  BY <2>1, Sizes DEF FrameSize
<1>2. CASE FrameSize = 0
  <2>1. UNCHANGED streamVars
    BY <1>2 DEF EncodeFrame, SendFrame, streamVars, sockVars, recvVars
  <2>2. TypeInv'
    <3>1. ListTypes' /\ SocketTypes' /\ ReceiverType'
      BY <2>1 DEF TypeInv, ListTypes, SocketTypes, ReceiverType, streamVars
    <3>2. NumberTypes' /\ FlagTypes'
      BY <1>2, Sizes DEF EncodeFrame, SendFrame, TypeInv, NumberTypes, FlagTypes,
                         rateVars, sockVars, recvVars
    <3> QED  BY <3>1, <3>2 DEF TypeInv
  <2>3. EventInv'
    BY <1>2 DEF EncodeFrame, SendFrame, EventInv
  <2> QED  BY <2>1, <2>2, <2>3, QuietStream
<1>3. CASE FrameSize # 0
  <2> DEFINE f == [size |-> FrameSize, at |-> 0]
             S == [size : Nat \ {0}, at : Nat]
  <2>1. /\ frames' = Append(frames, f) /\ queue' = Append(queue, Len(frames) + 1)
        /\ sends' = sends + 1 /\ createdAt' = clock
        /\ UNCHANGED <<clock, running, kbps, m_connected, rateVars, sockVars, recvVars>>
        /\ encodeAt' = clock + FrameInterval
    BY <1>3 DEF EncodeFrame, SendFrame
  <2>2. f \in S /\ frames \in Seq(S) /\ queue \in Seq(Nat)  BY <1>1, <1>3 DEF TypeInv, ListTypes
  <2> HIDE DEF f, S
  <2>3. /\ frames' \in Seq(S) /\ Len(frames') = Len(frames) + 1
        /\ \A i \in 1 .. Len(frames) : frames'[i] = frames[i]
    BY <2>1, <2>2, SequenceTypes
  <2>4. /\ queue' \in Seq(Nat) /\ Len(queue') = Len(queue) + 1
        /\ \A i \in 1 .. Len(queue) : queue'[i] = queue[i]
        /\ queue'[Len(queue) + 1] = Len(frames) + 1
    BY <2>1, <2>2, SequenceTypes
  <2>5. TypeInv'
    <3>1. frames' \in Seq([size : Nat \ {0}, at : Nat])  BY <2>3 DEF S
    <3>2. NumberTypes' /\ FlagTypes'
      BY <2>1, Sizes DEF TypeInv, NumberTypes, FlagTypes, rateVars, sockVars, recvVars
    <3>3. SocketTypes' /\ ReceiverType'
      BY <2>1 DEF TypeInv, SocketTypes, ReceiverType, sockVars, recvVars
    <3> QED  BY <3>1, <3>2, <3>3, <2>4 DEF TypeInv, ListTypes
  <2>6. Written' = Written /\ Written \in Nat /\ Written <= Len(frames)
    BY <2>3, <2>4, SequenceTypes, WrittenFrames DEF Written
  <2>7. \A k \in 0 .. Written : After(k)' = After(k)
    BY <2>3, <2>6, SequenceTypes DEF After
  <2>8. QueueInv'
    <3>1. Len(queue') <= Len(frames')  BY <2>3, <2>4, SequenceTypes DEF QueueInv
    <3>2. ASSUME NEW i \in 1 .. Len(queue')  PROVE queue'[i] = Written' + i
      <4>1. CASE i = Len(queue) + 1
        BY <4>1, <2>4, <2>6, SequenceTypes, SMTT(30) DEF Written
      <4>2. CASE i \in 1 .. Len(queue)  BY <4>2, <2>4, <2>6 DEF QueueInv
      <4> QED  BY <4>1, <4>2, <2>4, SequenceTypes
    <3> QED  BY <3>1, <3>2 DEF QueueInv
  <2>9. wrote' = wrote /\ UNCHANGED <<ends, rcvd, rx, burst>>
    BY <2>1 DEF sockVars, recvVars
  <2>10. LayoutInv'
    <3>1. \A i \in 1 .. Written : frames'[i] = frames[i] /\ After(i - 1)' = After(i - 1)
      BY <2>3, <2>6, <2>7, SequenceTypes
    <3>2. After(Written)' = After(Written)  BY <2>6, <2>7
    <3> QED  BY <3>1, <3>2, <2>6, <2>7, <2>9 DEF LayoutInv
  <2>11. SegmentInv'  BY <2>6, <2>7, <2>9 DEF SegmentInv
  <2>12. ReceiverInv' /\ WaitInv'
    <3>1. rx' = rx /\ Len(rx.out) \in 0 .. Written
      BY <2>9, <2>6 DEF ReceiverInv, TypeInv, ReceiverType
    <3>2. After(Len(rx.out))' = After(Len(rx.out))  BY <3>1, <2>7
    <3>3. Len(rx.out) < Written => After(Len(rx.out) + 1)' = After(Len(rx.out) + 1)
      BY <3>1, <2>6, <2>7
    <3>4. ReceiverInv'  BY <3>1, <3>2, <3>3, <2>6, <2>9 DEF ReceiverInv
    <3>5. WaitInv'  BY <3>1, <3>2, <3>3, <2>6, <2>9 DEF WaitInv
    <3> QED  BY <3>4, <3>5
  <2>13. EventInv'  BY <2>1 DEF EventInv
  <2> QED  BY <2>5, <2>8, <2>10, <2>11, <2>12, <2>13
<1> QED  BY <1>2, <1>3

\* A frame goes from the head of the queue to the end of the stream.
LEMMA WriteStep ==
    ASSUME VideoInv, SendPacket
    PROVE  VideoInv'
<1> USE DEF VideoInv, StreamInv
<1> DEFINE f == Head(queue)
           bytes == Hdr + frames[f].size
           ok == queue # <<>> /\ m_connected /\ Accepts(bytes)
<1>1. CASE ~ok
  <2>1. /\ sends' = sends - 1 /\ sends > 0
        /\ UNCHANGED <<clock, encodeAt, kbps, createdAt, lastPending, dutyAt, updateAt,
                       bitrate, m_connected, running, firstUpdate, established>>
        /\ UNCHANGED streamVars
    BY <1>1 DEF SendPacket, streamVars, recvVars
  <2>2. ListTypes' /\ SocketTypes' /\ ReceiverType'
    BY <2>1 DEF TypeInv, ListTypes, SocketTypes, ReceiverType, streamVars
  <2>3. NumberTypes' /\ FlagTypes'
    BY <2>1 DEF TypeInv, NumberTypes, FlagTypes, streamVars
  <2>4. EventInv'  BY <2>1, <2>3 DEF EventInv
  <2> QED  BY <2>1, <2>2, <2>3, <2>4, QuietStream DEF TypeInv
<1>2. CASE ok
  <2> DEFINE S == [size : Nat \ {0}, at : Nat]
  <2>1. /\ queue' = Tail(queue) /\ queue # <<>>
        /\ frames' = [frames EXCEPT ![f].at = wrote]
        /\ wrote' = wrote + bytes /\ bytes <= TxBufSize - (wrote - acked)
        /\ UNCHANGED <<clock, encodeAt, kbps, sends, createdAt, lastPending, dutyAt,
                       updateAt, bitrate, m_connected, running, firstUpdate, established>>
        /\ UNCHANGED <<sent, acked, ends, rcvd, rx, burst>>
    BY <1>2 DEF SendPacket, recvVars, Accepts, TxAvailable
  <2>0. PICK w \in Nat : w = Written  BY WrittenFrames
  <2>2. /\ Len(queue) > 0 /\ f = w + 1 /\ f \in 1 .. Len(frames)
    <3>1. Len(queue) > 0 /\ f = queue[1]  BY <2>1, SequenceTypes DEF TypeInv, ListTypes
    <3> QED  BY <2>0, <3>1, WrittenFrames, SequenceTypes DEF QueueInv, Written
  <2>3. frames[f].size \in Nat \ {0}  BY <2>2, SequenceTypes
  <2> HIDE DEF f, bytes, ok
  <2>4. /\ queue' \in Seq(Nat) /\ Len(queue') = Len(queue) - 1
        /\ \A i \in 1 .. Len(queue) - 1 : queue'[i] = queue[i + 1]
    BY <2>1, <2>2, SequenceTypes DEF TypeInv, ListTypes
  <2>5. /\ frames' \in Seq(S) /\ Len(frames') = Len(frames)
        /\ \A i \in 1 .. Len(frames) : i # f => frames'[i] = frames[i]
        /\ frames'[f].at = wrote /\ frames'[f].size = frames[f].size
    <3>1. frames \in Seq(S) /\ wrote \in Nat
      BY DEF TypeInv, ListTypes, SocketTypes
    <3>2. /\ DOMAIN frames' = DOMAIN frames
          /\ \A i \in 1 .. Len(frames) : i # f => frames'[i] = frames[i]
          /\ frames'[f] = [frames[f] EXCEPT !.at = wrote]
      BY <2>1, <2>2, SequenceTypes
    <3>3. frames[f] \in S
      <4> HIDE DEF S
      <4> QED  BY <2>2, <3>1, SequenceTypes
    <3>4. /\ frames'[f] \in S /\ frames'[f].at = wrote
          /\ frames'[f].size = frames[f].size
      BY <3>1, <3>2, <3>3
    <3>5. \A i \in 1 .. Len(frames) : frames'[i] \in S
      <4> HIDE DEF S
      <4>1. \A i \in 1 .. Len(frames) : frames[i] \in S  BY <3>1, SequenceTypes
      <4> QED  BY <4>1, <3>2, <3>4
    <3>6. frames' \in Seq(S) /\ Len(frames') = Len(frames)
      <4> HIDE DEF S
      <4>1. frames' \in [1 .. Len(frames) -> S]
        BY <2>1, <3>2, <3>5, SequenceTypes
      <4> QED  BY <4>1, SequenceTypes
    <3> QED  BY <3>2, <3>4, <3>6
  <2>6. Written' = w + 1 /\ w + 1 <= Len(frames)
    BY <2>0, <2>2, <2>4, <2>5, SequenceTypes DEF Written
  <2>7. bytes \in Nat \ {0} /\ bytes = Hdr + frames[f].size  BY <2>3, Sizes DEF bytes
  <2>8. /\ \A k \in 0 .. w : After(k)' = After(k)
        /\ After(w + 1)' = wrote + bytes
    <3>1. \A k \in 1 .. w : k \in 1 .. Len(frames) /\ k # f
      BY <2>2, <2>6, SequenceTypes
    <3>2. \A k \in 0 .. w : After(k)' = After(k)
      BY <3>1, <2>2, <2>5, SMTT(30) DEF After
    <3>3. After(w + 1)' = wrote + bytes
      <4>1. frames'[w + 1].at = wrote /\ frames'[w + 1].size = frames[f].size
        BY <2>2, <2>5
      <4>2. w + 1 # 0  OBVIOUS
      <4>3. wrote \in Nat  BY DEF TypeInv, SocketTypes
      <4>4. After(w + 1)' = frames'[w + 1].at + Hdr + frames'[w + 1].size
        BY <4>2 DEF After
      <4> QED  BY <4>1, <4>3, <4>4, <2>3, <2>7, Sizes
    <3> QED  BY <3>2, <3>3
  <2>9. TypeInv'
    <3>1. ListTypes'  BY <2>4, <2>5 DEF ListTypes
    <3>2. NumberTypes' /\ FlagTypes'  BY <2>1 DEF TypeInv, NumberTypes, FlagTypes
    <3>3. ReceiverType'  BY <2>1 DEF TypeInv, ReceiverType
    <3>4. SocketTypes'
      <4>1. /\ wrote \in Nat /\ sent \in Nat /\ acked \in Nat /\ rcvd \in Nat
            /\ sent <= wrote
        BY DEF TypeInv, SocketTypes
      <4>2. wrote' \in Nat /\ sent <= wrote' /\ wrote' - acked <= TxBufSize
        <5>1. /\ wrote' = wrote + bytes /\ bytes <= TxBufSize - (wrote - acked)
              /\ bytes \in Nat /\ TxBufSize \in Nat
          BY <2>1, <2>7, Sizes
        <5> QED  BY <4>1, <5>1
      <4> QED  BY <4>2, <2>1 DEF TypeInv, SocketTypes
    <3> QED  BY <3>1, <3>2, <3>3, <3>4 DEF TypeInv
  <2>10. QueueInv'
    <3>1. Len(queue') <= Len(frames')
      BY <2>4, <2>5, SequenceTypes DEF QueueInv
    <3>2. ASSUME NEW i \in 1 .. Len(queue')  PROVE queue'[i] = Written' + i
      <4>1. queue'[i] = queue[i + 1] /\ i + 1 \in 1 .. Len(queue)
        BY <2>4, SequenceTypes
      <4>2. queue[i + 1] = w + (i + 1)  BY <4>1, <2>0 DEF QueueInv
      <4> QED  BY <4>1, <4>2, <2>2, <2>6
    <3> QED  BY <3>1, <3>2 DEF QueueInv
  <2>11. wrote \in Nat /\ wrote = After(w) /\ \A i \in 0 .. w : After(i) \in Nat
    BY <2>0, AfterType DEF TypeInv, SocketTypes, LayoutInv
  <2>12. LayoutInv'
    <3>1. wrote' = After(w + 1)'  BY <2>1, <2>8
    <3>2. ASSUME NEW i \in 1 .. w + 1  PROVE frames'[i].at = After(i - 1)'
      <4>1. CASE i = w + 1
        <5>1. i - 1 = w  BY <4>1
        <5> QED  BY <5>1, <4>1, <2>2, <2>5, <2>8, <2>11
      <4>2. CASE i \in 1 .. w
        <5>1. i \in 1 .. Len(frames) /\ i # f /\ i - 1 \in 0 .. w
          BY <4>2, <2>2, <2>6, SequenceTypes
        <5> QED  BY <5>1, <4>2, <2>0, <2>5, <2>8 DEF LayoutInv
      <4> QED  BY <4>1, <4>2
    <3>3. ASSUME NEW i \in 0 .. w + 1, NEW j \in 0 .. w + 1, i < j
          PROVE  After(i)' < After(j)'
      <4>1. i \in 0 .. w  BY <3>3
      <4>2. CASE j = w + 1
        <5>1. After(i) <= wrote  BY <4>1, <2>0, AfterGrows
        <5>2. After(i)' = After(i) /\ After(j)' = wrote + bytes  BY <4>1, <4>2, <2>8
        <5>3. After(i) \in Nat /\ wrote \in Nat /\ bytes \in Nat \ {0}
          BY <4>1, <2>7, <2>11
        <5> QED  BY <5>1, <5>2, <5>3
      <4>3. CASE j \in 0 .. w  BY <3>3, <4>1, <4>3, <2>0, <2>8 DEF LayoutInv
      <4> QED  BY <4>2, <4>3
    <3>4. After(Written)' = After(w + 1)'  BY <2>6 DEF After
    <3> QED  BY <3>1, <3>2, <3>3, <3>4, <2>6 DEF LayoutInv
  <2>13. SegmentInv'
    <3>1. \A j \in 0 .. w : j \in 0 .. Written' /\ After(j)' = After(j)
      BY <2>6, <2>8
    <3> QED  BY <3>1, <2>0, <2>1 DEF SegmentInv
  <2>14. PICK k \in 0 .. w : k = Len(rx.out)
    BY <2>0 DEF ReceiverInv, TypeInv, ReceiverType
  <2>15. /\ rx' = rx /\ After(k)' = After(k) /\ k <= Written'
         /\ k < w => After(k + 1)' = After(k + 1) /\ k < Written'
    BY <2>1, <2>6, <2>8
  <2>16. ReceiverInv' /\ WaitInv'
    <3>1. /\ After(Len(rx.out))' = After(k)' /\ After(Len(rx.out)) = After(k)
          /\ After(Len(rx.out) + 1)' = After(k + 1)'
          /\ After(Len(rx.out) + 1) = After(k + 1)
      BY <2>14, <2>15 DEF After
    <3>2. ReceiverInv'
      BY <3>1, <2>0, <2>1, <2>14, <2>15 DEF ReceiverInv
    <3>3. CASE k < w
      <4>1. burst \/ rcvd < After(k + 1)
        BY <3>1, <3>3, <2>0, <2>14 DEF WaitInv
      <4>2. burst' \/ rcvd' < After(k + 1)'  BY <4>1, <3>3, <2>1, <2>15
      <4> QED  BY <4>2, <3>1, <3>2 DEF WaitInv
    <3>4. CASE k = w
      <4>1. rcvd \in Nat /\ rcvd <= wrote /\ wrote \in Nat  BY DEF TypeInv, SocketTypes
      <4>2. rcvd' < After(k + 1)'  BY <4>1, <3>4, <2>1, <2>7, <2>8
      <4> QED  BY <4>2, <3>1, <3>2 DEF WaitInv
    <3> QED  BY <3>2, <3>3, <3>4
  <2>17. EventInv'  BY <2>1 DEF EventInv
  <2> QED  BY <2>9, <2>10, <2>12, <2>13, <2>16, <2>17
<1> QED  BY <1>1, <1>2

\* TCP sends: the new segment ends a full segment after all before it, or
\* where all that was written ends.
LEMMA SegmentStep ==
    ASSUME VideoInv, SendSegment
    PROVE  VideoInv'
<1> USE DEF VideoInv, StreamInv
<1> DEFINE end == sent + Min({MSS, PendingBuf})
<1>1. /\ sent' = end /\ ends' = ends \cup {end} /\ PendingBuf > 0
      /\ UNCHANGED <<clock, running, m_connected, appVars, rateVars, wrote, acked,
                     established, recvVars>>
  BY DEF SendSegment
<1>2. /\ end \in Nat /\ end > sent /\ end <= wrote
      /\ end = wrote \/ end = sent + MSS
  <2>1. PendingBuf \in Nat /\ PendingBuf = wrote - sent /\ wrote \in Nat /\ sent \in Nat
    BY DEF TypeInv, SocketTypes, PendingBuf
  <2>2. Min({MSS, PendingBuf}) = IF MSS <= PendingBuf THEN MSS ELSE PendingBuf
    BY <2>1, MinPair, Sizes
  <2> QED  BY <2>1, <2>2, <1>1, Sizes
<1> HIDE DEF end
<1>3. TypeInv'
  <2>1. ListTypes' /\ ReceiverType'
    BY <1>1 DEF TypeInv, ListTypes, ReceiverType, appVars, recvVars
  <2>2. NumberTypes' /\ FlagTypes'
    BY <1>1 DEF TypeInv, NumberTypes, FlagTypes, appVars, rateVars, recvVars
  <2>3. SocketTypes'  BY <1>1, <1>2 DEF TypeInv, SocketTypes, recvVars
  <2> QED  BY <2>1, <2>2, <2>3 DEF TypeInv
<1>4. Written' = Written /\ \A k : After(k)' = After(k)
  BY <1>1 DEF Written, After, appVars
<1>5. QueueInv' /\ LayoutInv' /\ ReceiverInv' /\ WaitInv' /\ EventInv'
  <2>1. QueueInv'  BY <1>1, <1>4 DEF QueueInv, appVars
  <2>2. LayoutInv'  BY <1>1, <1>4 DEF LayoutInv, appVars
  <2>3. ReceiverInv' /\ WaitInv'
    BY <1>1, <1>4 DEF ReceiverInv, WaitInv, recvVars
  <2>4. EventInv'  BY <1>1 DEF EventInv, appVars
  <2> QED  BY <2>1, <2>2, <2>3, <2>4
<1>6. SegmentInv'
  <2> SUFFICES ASSUME NEW d \in ends' \cup {rcvd'}, NEW e \in ends', d < e
               PROVE  d + MSS <= e \/ \E j \in 0 .. Written' : e = After(j)'
    BY DEF SegmentInv
  <2>1. /\ rcvd' = rcvd /\ rcvd \in Nat /\ rcvd <= sent /\ sent \in Nat
        /\ \A x \in ends : x \in Nat /\ x <= sent
    BY <1>1 DEF TypeInv, SocketTypes, recvVars
  <2>2. CASE e = end
    <3>1. d <= sent /\ d \in Nat  BY <1>1, <1>2, <2>1, <2>2
    <3>2. CASE end = wrote
      <4>1. Written \in 0 .. Written  BY WrittenFrames
      <4> QED  BY <4>1, <3>2, <2>2, <1>4 DEF LayoutInv
    <3>3. CASE end = sent + MSS  BY <3>1, <3>3, <2>1, <2>2, Sizes
    <3> QED  BY <3>2, <3>3, <1>2
  <2>3. CASE e # end
    <3>1. e \in ends /\ d \in ends \cup {rcvd}  BY <1>1, <1>2, <2>1, <2>3
    <3> QED  BY <3>1, <1>4 DEF SegmentInv
  <2> QED  BY <2>2, <2>3
<1> QED  BY <1>3, <1>5, <1>6

\* What one callback of the receiver does: all that has arrived is read, up to
\* the end of the next frame.
LEMMA OneCallback ==
    ASSUME VideoInv, NEW to \in ends, to > rcvd,
           NEW k \in Nat, k = Len(rx.out)
    PROVE  /\ k < Written /\ to \in Nat /\ to <= sent /\ After(k + 1) \in Nat
           /\ After(k) < After(k + 1)
           /\ OnSocketRecv(rx, to) =
                IF to < After(k + 1)
                THEN [rx EXCEPT !.start = FALSE, !.read = to,
                                !.left = After(k + 1) - to, !.cur = k + 1]
                ELSE [rx EXCEPT !.start = TRUE, !.read = After(k + 1), !.left = 0,
                                !.cur = k + 1, !.out = Append(@, k + 1)]
<1> USE DEF VideoInv, StreamInv
<1>1. /\ to \in Nat /\ to <= sent /\ sent \in Nat /\ sent <= wrote /\ wrote \in Nat
      /\ rcvd \in Nat /\ rx.read \in Nat /\ rx.left \in Nat /\ rx.start \in BOOLEAN
  BY DEF TypeInv, SocketTypes, ReceiverType
<1>2. /\ Written \in Nat /\ k \in 0 .. Written /\ After(k) \in Nat
      /\ After(k) <= rx.read /\ rx.read <= rcvd
      /\ rx.start => rx.read = After(k)
  BY WrittenFrames, AfterType DEF ReceiverInv
<1>3. k < Written
  <2>1. wrote = After(Written)  BY DEF LayoutInv
  <2> QED  BY <1>1, <1>2, <2>1
<1>4. /\ k + 1 \in 1 .. Written /\ k + 1 \in 0 .. Written /\ k + 1 \in 1 .. Len(frames)
      /\ After(k + 1) \in Nat /\ After(k) < After(k + 1)
      /\ After(k + 1) = After(k) + Hdr + frames[k + 1].size
      /\ frames[k + 1].size \in Nat \ {0}
  <2>1. k + 1 \in 1 .. Written /\ k + 1 \in 0 .. Written /\ k + 1 \in 1 .. Len(frames)
    BY <1>2, <1>3, WrittenFrames, SequenceTypes
  <2>2. After(k + 1) \in Nat  BY <2>1, AfterType
  <2>3. k + 1 > 0 /\ (k + 1) - 1 = k /\ k < k + 1  BY <1>2
  <2>4. After(k) < After(k + 1) /\ After(k + 1) = After(k) + Hdr + frames[k + 1].size
    BY <2>1, <2>3, <1>2, AfterGrows
  <2> QED  BY <2>1, <2>2, <2>4, SequenceTypes
<1> DEFINE have == to - rx.read
           here == {i \in DOMAIN frames : i \notin ToSet(queue) /\ frames[i].at = rx.read}
           f    == CHOOSE i \in here : TRUE
           body == IF rx.start THEN have - Hdr ELSE have
           need == IF rx.start THEN frames[f].size ELSE rx.left
           cur  == IF rx.start THEN f ELSE rx.cur
<1>5. OnSocketRecv(rx, to) =
        IF body <= 0 \/ (rx.start /\ here = {}) THEN [rx EXCEPT !.broken = TRUE]
        ELSE IF body < need
        THEN [rx EXCEPT !.start = FALSE, !.read = to, !.left = need - body, !.cur = cur]
        ELSE [rx EXCEPT !.start = TRUE, !.read = @ + (have - body) + need,
                        !.left = 0, !.cur = cur, !.out = Append(@, cur)]
  BY DEF OnSocketRecv
<1>6. rx.start => here = {k + 1} /\ f = k + 1
  <2> SUFFICES ASSUME rx.start  PROVE here = {k + 1}  OBVIOUS
  <2>1. k + 1 \in here
    <3>1. k + 1 \notin ToSet(queue)  BY <1>4, WrittenFrames, SequenceTypes
    <3>2. frames[k + 1].at = After((k + 1) - 1)  BY <1>4 DEF LayoutInv
    <3>3. (k + 1) - 1 = k  BY <1>2
    <3> QED  BY <3>1, <3>2, <3>3, <1>2, <1>4, SequenceTypes
  <2>2. ASSUME NEW i \in here  PROVE i = k + 1
    <3>1. i \in 1 .. Written /\ i - 1 \in 0 .. Written
      BY WrittenFrames, SequenceTypes
    <3>2. frames[i].at = After(i - 1) /\ frames[i].at = After(k)
      BY <3>1, <1>2 DEF LayoutInv
    <3>3. i - 1 <= k /\ k <= i - 1  BY <3>1, <3>2, <1>2, AfterGrows
    <3> QED  BY <3>1, <3>3, <1>2
  <2> QED  BY <2>1, <2>2
<1>7. /\ rx.start => /\ body = to - rx.read - Hdr /\ need = frames[k + 1].size
                     /\ cur = k + 1
      /\ ~rx.start => body = to - rx.read /\ need = rx.left /\ cur = rx.cur
      /\ have = to - rx.read
  <2> HIDE DEF here, f
  <2> QED  BY <1>6
<1> HIDE DEF here, f, body, need, cur, have
<1>8. body \in Int /\ body > 0
  <2>1. CASE rx.start
    <3>1. rcvd + MSS <= to \/ \E j \in 0 .. Written : to = After(j)
      <4>1. rcvd < to  BY <1>1
      <4> QED  BY <4>1 DEF SegmentInv
    <3>2. CASE rcvd + MSS <= to  BY <3>2, <2>1, <1>1, <1>2, <1>7, Sizes
    <3>3. ASSUME NEW j \in 0 .. Written, to = After(j)  PROVE body \in Int /\ body > 0
      <4>1. After(k) < After(j)  BY <3>3, <1>1, <1>2
      <4>2. ~(j <= k)  BY <4>1, <1>2, AfterType, AfterGrows
      <4>3. k + 1 <= j  BY <4>2, <1>2
      <4>4. After(k + 1) <= After(j)  BY <4>3, <1>4, AfterGrows
      <4>5. body = to - After(k) - Hdr  BY <2>1, <1>2, <1>7
      <4> DEFINE size == frames[k + 1].size
      <4>6. After(k + 1) = After(k) + Hdr + size /\ size \in Nat \ {0} /\ Hdr \in Nat
        BY <1>4, Sizes
      <4>7. to >= After(k + 1) /\ to \in Nat /\ After(k) \in Nat
        BY <4>4, <3>3, <1>1, <1>2
      <4> HIDE DEF size
      <4> QED  BY <4>5, <4>6, <4>7
    <3> QED  BY <3>1, <3>2, <3>3
  <2>2. CASE ~rx.start
    <3>1. rx.read = rcvd  BY <2>2 DEF ReceiverInv
    <3> QED  BY <3>1, <2>2, <1>1, <1>7
  <2> QED  BY <2>1, <2>2
<1>9. /\ cur = k + 1
      /\ rx.read + (have - body) + need = After(k + 1)
      /\ need \in Nat /\ need - body = After(k + 1) - to
  <2>1. CASE rx.start
    <3> DEFINE size == frames[k + 1].size
    <3>1. /\ body = to - rx.read - Hdr /\ need = size /\ cur = k + 1
          /\ have = to - rx.read /\ rx.read = After(k)
          /\ After(k + 1) = After(k) + Hdr + size /\ size \in Nat
      BY <2>1, <1>2, <1>4, <1>7
    <3> HIDE DEF size
    <3>2. After(k) \in Nat /\ to \in Nat /\ Hdr \in Nat  BY <1>1, <1>2, Sizes
    <3> QED  BY <3>1, <3>2
  <2>2. CASE ~rx.start
    <3>1. rx.cur = k + 1 /\ rx.read + rx.left = After(k + 1)
      BY <2>2 DEF ReceiverInv
    <3>2. need = rx.left /\ body = to - rx.read /\ have = to - rx.read /\ cur = rx.cur
      BY <2>2, <1>7
    <3>3. rx.left \in Nat /\ rx.read \in Nat /\ to \in Nat  BY <1>1
    <3> QED  BY <3>1, <3>2, <3>3
  <2> QED  BY <2>1, <2>2
<1>10. body < need <=> to < After(k + 1)
  BY <1>1, <1>4, <1>8, <1>9
<1>11. ~(body <= 0) /\ ~(rx.start /\ here = {})
  <2>1. ~(body <= 0)  BY <1>8
  <2>2. rx.start => here # {}  BY <1>6
  <2> QED  BY <2>1, <2>2
<1> QED  BY <1>1, <1>3, <1>4, <1>5, <1>9, <1>10, <1>11

LEMMA ArriveStep ==
    ASSUME VideoInv, Arrive
    PROVE  VideoInv'
<1> USE DEF VideoInv, StreamInv
<1>1. PICK to \in ends :
        /\ to > rcvd /\ rcvd' = to /\ rx' = OnSocketRecv(rx, to)
        /\ burst' = (burst \/ Cardinality(Whole(to) \ Whole(rcvd)) > 1)
        /\ UNCHANGED <<clock, running, m_connected, appVars, rateVars, sockVars>>
  BY DEF Arrive
<1>2. PICK k \in Nat : k = Len(rx.out)
  BY DEF TypeInv, ReceiverType
<1>3. /\ k < Written /\ to \in Nat /\ to <= sent /\ After(k + 1) \in Nat
      /\ After(k) < After(k + 1)
      /\ rx' = IF to < After(k + 1)
               THEN [rx EXCEPT !.start = FALSE, !.read = to,
                               !.left = After(k + 1) - to, !.cur = k + 1]
               ELSE [rx EXCEPT !.start = TRUE, !.read = After(k + 1), !.left = 0,
                               !.cur = k + 1, !.out = Append(@, k + 1)]
  BY <1>1, <1>2, OneCallback
<1>4. /\ Written' = Written /\ \A i : After(i)' = After(i)
      /\ Written \in Nat /\ After(k) \in Nat /\ rcvd \in Nat
  <2>1. Written \in Nat /\ k \in 0 .. Written  BY <1>2, <1>3, WrittenFrames
  <2> QED  BY <1>1, <2>1, AfterType
           DEF Written, After, appVars, TypeInv, SocketTypes
<1>5. /\ rx.out \in Seq(Nat)
      /\ rx \in [start : BOOLEAN, left : Nat, cur : Nat, read : Nat,
                 out : Seq(Nat), broken : {FALSE}]
  BY DEF TypeInv, ReceiverType
<1>6. /\ Append(rx.out, k + 1) \in Seq(Nat) /\ Len(Append(rx.out, k + 1)) = k + 1
      /\ \A i \in 1 .. k + 1 : Append(rx.out, k + 1)[i] = i
  BY <1>2, <1>5 DEF ReceiverInv
<1>7. ReceiverType' /\ ReceiverInv'
  <2>1. CASE to < After(k + 1)
    <3>1. rx' = [rx EXCEPT !.start = FALSE, !.read = to,
                           !.left = After(k + 1) - to, !.cur = k + 1]
      BY <1>3, <2>1
    <3>2. After(k + 1) - to \in Nat \ {0} /\ to + (After(k + 1) - to) = After(k + 1)
      BY <1>3, <2>1
    <3>3. /\ rx'.out = rx.out /\ rx'.start = FALSE /\ rx'.read = to
          /\ rx'.left = After(k + 1) - to /\ rx'.cur = k + 1
      BY <3>1, <1>5
    <3>4. ReceiverType'
      <4> DEFINE left == After(k + 1) - to
      <4>1. left \in Nat /\ k + 1 \in Nat /\ to \in Nat  BY <3>2, <1>3
      <4>2. rx' = [rx EXCEPT !.start = FALSE, !.read = to, !.left = left, !.cur = k + 1]
        BY <3>1
      <4> HIDE DEF left
      <4> QED  BY <4>1, <4>2, <1>5 DEF ReceiverType
    <3>5. After(k) <= to
      <4>1. After(k) <= rcvd  BY <1>2, <1>4, <1>5 DEF ReceiverInv
      <4> QED  BY <4>1, <1>1, <1>3, <1>4
    <3>6. Len(rx'.out) = k /\ After(Len(rx.out))' = After(k)
          /\ After(Len(rx.out) + 1)' = After(k + 1)
      BY <3>3, <1>2, <1>1 DEF After, appVars
    <3>7. \A i \in 1 .. k : rx'.out[i] = i  BY <3>3, <1>2 DEF ReceiverInv
    <3>8. ReceiverInv'
      BY <3>2, <3>3, <3>5, <3>6, <3>7, <1>1, <1>3, <1>4 DEF ReceiverInv
    <3> QED  BY <3>4, <3>8
  <2>2. CASE ~(to < After(k + 1))
    <3>1. rx' = [rx EXCEPT !.start = TRUE, !.read = After(k + 1), !.left = 0,
                           !.cur = k + 1, !.out = Append(@, k + 1)]
      BY <1>3, <2>2
    <3>2. /\ rx'.out = Append(rx.out, k + 1) /\ rx'.start = TRUE
          /\ rx'.read = After(k + 1)
      BY <3>1, <1>5
    <3>3. ReceiverType'
      <4> DEFINE out == Append(rx.out, k + 1)
                 pos == After(k + 1)
      <4>1. pos \in Nat /\ k + 1 \in Nat /\ out \in Seq(Nat)  BY <1>3, <1>6
      <4>2. rx' = [rx EXCEPT !.start = TRUE, !.read = pos, !.left = 0,
                             !.cur = k + 1, !.out = out]
        BY <3>1
      <4> HIDE DEF out, pos
      <4> QED  BY <4>1, <4>2, <1>5 DEF ReceiverType
    <3>4. Len(rx'.out) = k + 1 /\ After(Len(rx.out))' = After(k + 1)
      BY <3>2, <1>6, <1>1 DEF After, appVars
    <3>5. \A i \in 1 .. k + 1 : rx'.out[i] = i  BY <3>2, <1>6
    <3>6. ReceiverInv'
      BY <2>2, <3>2, <3>4, <3>5, <1>1, <1>3, <1>4 DEF ReceiverInv
    <3> QED  BY <3>3, <3>6
  <2> QED  BY <2>1, <2>2
<1>8. NumberTypes' /\ FlagTypes' /\ ListTypes' /\ SocketTypes'
  <2>1. NumberTypes' /\ ListTypes'
    BY <1>1 DEF TypeInv, NumberTypes, ListTypes, appVars, rateVars
  <2>2. burst' \in BOOLEAN  BY <1>1
  <2>3. FlagTypes'
    BY <1>1, <2>2 DEF TypeInv, FlagTypes, rateVars, sockVars
  <2>4. SocketTypes'
    BY <1>1, <1>3 DEF TypeInv, SocketTypes, sockVars
  <2> QED  BY <2>1, <2>3, <2>4
<1>9. QueueInv' /\ LayoutInv' /\ EventInv'
  BY <1>1, <1>4 DEF QueueInv, LayoutInv, EventInv, appVars, sockVars
<1>10. SegmentInv'  BY <1>1, <1>4 DEF SegmentInv, sockVars
<1>11. WaitInv'
  <2> SUFFICES ASSUME ~burst'
               PROVE  Len(rx'.out) = Written \/ to < After(Len(rx.out) + 1)'
    BY <1>1, <1>4 DEF WaitInv
  <2>1. ~burst /\ ~(Cardinality(Whole(to) \ Whole(rcvd)) > 1)  BY <1>1
  <2>2. CASE to < After(k + 1)
    <3>1. Len(rx'.out) = k  BY <2>2, <1>2, <1>3, <1>5
    <3> QED  BY <3>1, <2>2, <1>1 DEF After, appVars
  <2>3. CASE ~(to < After(k + 1))
    <3>1. Len(rx'.out) = k + 1  BY <2>3, <1>3, <1>5, <1>6
    <3>2. CASE k + 1 = Written  BY <3>1, <3>2
    <3>3. CASE k + 1 # Written
      <4> SUFFICES ASSUME ~(to < After(k + 2))  PROVE FALSE
        <5>1. After(Len(rx.out) + 1)' = After(k + 2)
          BY <3>1, <1>1 DEF After, appVars
        <5> QED  BY <5>1
      <4>1. /\ k + 1 \in 1 .. Written /\ k + 2 \in 1 .. Written
            /\ k + 1 \in 0 .. Written /\ k + 2 \in 0 .. Written
        BY <3>3, <1>3, <1>4
      <4>2. After(k + 2) \in Nat /\ After(k + 1) < After(k + 2)
        BY <4>1, AfterType, AfterGrows
      <4>3. rcvd < After(k + 1)  BY <2>1, <1>2, <1>3 DEF WaitInv
      <4>4. k + 1 \in Whole(to) \ Whole(rcvd) /\ k + 2 \in Whole(to) \ Whole(rcvd)
        BY <4>1, <4>2, <4>3, <2>3, <1>3, <1>4, WholeFrames
      <4>5. IsFiniteSet(Whole(to) \ Whole(rcvd))
        <5>1. Whole(to) \ Whole(rcvd) \subseteq 1 .. Written
          BY <1>3, <1>4, WholeFrames
        <5>2. IsFiniteSet(1 .. Written)  BY <1>4, FS_Interval
        <5> QED  BY <5>1, <5>2, FS_Subset
      <4>6. Cardinality({k + 1, k + 2}) = 2
        <5>1. {k + 1, k + 2} = k + 1 .. k + 2 /\ k + 1 \in Int /\ k + 2 \in Int
          OBVIOUS
        <5>2. ~(k + 1 > k + 2) /\ (k + 2) - (k + 1) + 1 = 2  OBVIOUS
        <5>3. Cardinality(k + 1 .. k + 2) = (k + 2) - (k + 1) + 1
          BY <5>1, <5>2, FS_Interval, Zenon
        <5> QED  BY <5>1, <5>2, <5>3
      <4>7. Cardinality({k + 1, k + 2}) <= Cardinality(Whole(to) \ Whole(rcvd))
        BY <4>4, <4>5, FS_Subset
      <4>8. Cardinality(Whole(to) \ Whole(rcvd)) \in Nat  BY <4>5, FS_CardinalityType
      <4> QED  BY <4>6, <4>7, <4>8, <2>1
    <3> QED  BY <3>2, <3>3
  <2> QED  BY <2>2, <2>3
<1> QED  BY <1>7, <1>8, <1>9, <1>10, <1>11 DEF TypeInv

LEMMA AckStep ==
    ASSUME VideoInv, Ack
    PROVE  VideoInv'
<1> USE DEF VideoInv, StreamInv
<1>1. /\ acked' = rcvd /\ acked < rcvd /\ ends' = {e \in ends : e > rcvd}
      /\ UNCHANGED <<clock, running, m_connected, appVars, rateVars, wrote, sent,
                     established, recvVars>>
  BY DEF Ack
<1>2. TypeInv'
  <2>1. ListTypes' /\ ReceiverType'
    BY <1>1 DEF TypeInv, ListTypes, ReceiverType, appVars, recvVars
  <2>2. NumberTypes' /\ FlagTypes'
    BY <1>1 DEF TypeInv, NumberTypes, FlagTypes, appVars, rateVars, recvVars
  <2>3. SocketTypes'
    <3>1. /\ wrote \in Nat /\ sent \in Nat /\ acked \in Nat /\ rcvd \in Nat
          /\ acked <= rcvd /\ rcvd <= sent /\ sent <= wrote /\ wrote - acked <= TxBufSize
          /\ ends \subseteq acked + 1 .. sent
      BY DEF TypeInv, SocketTypes
    <3>2. wrote - rcvd <= TxBufSize  BY <3>1, <1>1, Sizes
    <3>3. ends' \subseteq rcvd + 1 .. sent
      <4> SUFFICES ASSUME NEW e \in ends, e > rcvd  PROVE e \in rcvd + 1 .. sent
        BY <1>1
      <4>1. e \in Nat /\ e <= sent  BY <3>1
      <4> QED  BY <4>1, <3>1
    <3> QED  BY <3>1, <3>2, <3>3, <1>1 DEF SocketTypes, recvVars
  <2> QED  BY <2>1, <2>2, <2>3 DEF TypeInv
<1>3. Written' = Written /\ \A k : After(k)' = After(k)
  BY <1>1 DEF Written, After, appVars
<1>4. QueueInv' /\ LayoutInv'  BY <1>1, <1>3 DEF QueueInv, LayoutInv, appVars
<1>5. SegmentInv'  BY <1>1, <1>3 DEF SegmentInv, recvVars
<1>6. ReceiverInv' /\ WaitInv'  BY <1>1, <1>3 DEF ReceiverInv, WaitInv, recvVars
<1>7. EventInv'  BY <1>1 DEF EventInv, appVars
<1> QED  BY <1>2, <1>4, <1>5, <1>6, <1>7

\* Nothing of VideoInv mentions what a stuttering step could change.
LEMMA Stuttering ==
    ASSUME VideoInv, UNCHANGED vars
    PROVE  VideoInv'
<1> USE DEF VideoInv, vars, appVars, rateVars, sockVars, recvVars
<1>1. StreamInv'  BY QuietStream DEF streamVars
<1>2. TypeInv'
  BY DEF TypeInv, NumberTypes, FlagTypes, ListTypes, SocketTypes, ReceiverType
<1>3. EventInv'  BY DEF EventInv
<1> QED  BY <1>1, <1>2, <1>3

\* The sender, the stream and the receiver stay in step in every reachable
\* state.
THEOREM VideoInvariant == Spec => []VideoInv
<1>1. VideoInv /\ [Next]_vars => VideoInv'
  BY QuietSteps, EncodeStep, WriteStep, SegmentStep, ArriveStep, AckStep, Stuttering
     DEF Next, QuietStep
<1> QED  BY <1>1, VideoInitial, PTL DEF Spec

------------------------------------------------------------------------------
\* The framing of PacketSenderTcp and PacketReceiverTcp::OnSocketRecv_receiver
\* is sound: frames reach the decoder whole and in order, no read is short, and
\* a frame waits only after a burst.
THEOREM FramingIsSound == Spec => []FramesArriveWhole
<1>1. ASSUME VideoInv  PROVE FramesArriveWhole
  <2> USE <1>1 DEF VideoInv, StreamInv
  <2>1. TcpTypeOK
    <3>1. \A f \in ToSet(frames) : f \in [size : Nat \ {0}, at : Nat]
      <4> DEFINE S == [size : Nat \ {0}, at : Nat]
      <4>1. frames \in Seq(S)  BY DEF TypeInv, ListTypes
      <4> HIDE DEF S
      <4>2. \A i \in DOMAIN frames : frames[i] \in S  BY <4>1
      <4> QED  BY <4>2 DEF ToSet, S
    <3>2. ToSet(queue) \subseteq DOMAIN frames
      <4>1. ASSUME NEW i \in 1 .. Len(queue)  PROVE queue[i] \in 1 .. Len(frames)
        <5>1. queue[i] = Written + i  BY DEF QueueInv
        <5> QED  BY <5>1, WrittenFrames, SequenceTypes DEF Written
      <4> QED  BY <4>1, SequenceTypes DEF ToSet
    <3>3. {clock, encodeAt, kbps, sends, lastPending, dutyAt, updateAt} \subseteq Nat
          /\ bitrate \in 0 .. KMax
      BY DEF TypeInv, NumberTypes
    <3>4. {m_connected, running, firstUpdate, established, burst} \subseteq BOOLEAN
      BY DEF TypeInv, FlagTypes
    <3>5. /\ acked <= rcvd /\ rcvd <= sent /\ sent <= wrote
          /\ rx.read <= rcvd /\ wrote - acked <= TxBufSize
      BY DEF TypeInv, SocketTypes, ReceiverInv
    <3> QED  BY <3>1, <3>2, <3>3, <3>4, <3>5 DEF TcpTypeOK
  <2>2. PICK k \in 0 .. Written : k = Len(rx.out)
    BY WrittenFrames DEF TypeInv, ReceiverType, ReceiverInv
  <2>3. /\ rx.out \in Seq(Nat) /\ \A i \in 1 .. k : rx.out[i] = i
        /\ rcvd \in Nat /\ rx.read \in Nat /\ Written \in Nat
        /\ After(k) <= rx.read /\ rx.read <= rcvd /\ After(k) \in Nat
    BY <2>2, WrittenFrames, AfterType
       DEF TypeInv, SocketTypes, ReceiverType, ReceiverInv
  <2>4. ToSet(rx.out) = 1 .. k
    <3>1. DOMAIN rx.out = 1 .. k  BY <2>2, <2>3
    <3> QED  BY <3>1, <2>3 DEF ToSet
  <2>5. DecodedInOrder
    <3>1. rx.out = [i \in 1 .. Len(rx.out) |-> i]
      <4>1. DOMAIN rx.out = 1 .. Len(rx.out)  BY <2>3
      <4>2. rx.out = [i \in DOMAIN rx.out |-> rx.out[i]]  BY <2>3
      <4> QED  BY <4>1, <4>2, <2>2, <2>3
    <3>2. ASSUME NEW i \in 1 .. k  PROVE i \in Whole(rcvd)
      <4>1. i \in 1 .. Written /\ i \in 0 .. Written /\ i <= k  BY <2>2, <2>3
      <4>2. After(i) \in Nat /\ After(i) <= After(k)
        BY <4>1, <2>2, AfterType, AfterGrows
      <4> QED  BY <4>1, <4>2, <2>3, WholeFrames
    <3> QED  BY <3>1, <3>2, <2>4 DEF DecodedInOrder
  <2>6. NeverShortRead  BY DEF NeverShortRead, TypeInv, ReceiverType
  <2>7. WaitsOnlyAfterBurst
    <3> SUFFICES ASSUME ~burst, NEW i \in Whole(rcvd)  PROVE i <= k
      <4>1. ToSet(rx.out) \subseteq Whole(rcvd)  BY <2>5 DEF DecodedInOrder
      <4>2. \A j \in Whole(rcvd) : j \in Nat \ {0}  BY <2>3, WholeFrames
      <4>3. k \in Nat  BY <2>2, <2>3
      <4>4. (\A j \in Whole(rcvd) : j <= k) => Whole(rcvd) \subseteq 1 .. k
        BY <4>2, <4>3
      <4> QED  BY <4>1, <4>4, <2>4 DEF WaitsOnlyAfterBurst
    <3>1. i \in 1 .. Written /\ i \in 0 .. Written /\ After(i) <= rcvd
      BY <2>3, WholeFrames
    <3>2. CASE k = Written  BY <3>1, <3>2, <2>3
    <3>3. CASE k # Written
      <4>1. k + 1 \in 0 .. Written /\ rcvd < After(k + 1)
        BY <3>3, <2>2, <2>3 DEF WaitInv
      <4>2. After(k + 1) \in Nat /\ After(i) \in Nat
            /\ (k + 1 <= i => After(k + 1) <= After(i))
        BY <4>1, <3>1, AfterType, AfterGrows
      <4> QED  BY <4>1, <4>2, <3>1, <2>2, <2>3
    <3> QED  BY <3>2, <3>3
  <2> QED  BY <2>1, <2>5, <2>6, <2>7 DEF FramesArriveWhole
<1> QED  BY <1>1, VideoInvariant, PTL

\* PacketSenderTcp::SendPacket writes a frame only at a time CreateFrame was
\* called: nothing else drives the queue.
THEOREM WritesFollowFrames == Spec => WritesAtFrameTimes
<1>1. ASSUME VideoInv, [Next]_vars
      PROVE  [Len(queue') < Len(queue) => createdAt = clock]_vars
  <2> SUFFICES ASSUME Next, Len(queue') < Len(queue)  PROVE createdAt = clock
    BY <1>1
  <2>1. Len(queue) \in Nat  BY <1>1, SequenceTypes DEF VideoInv
  <2>2. CASE EncodeFrame
    <3>1. queue' = queue \/ queue' = Append(queue, Len(frames) + 1)
      BY <2>2 DEF EncodeFrame, SendFrame
    <3>2. queue \in Seq(Nat) /\ Len(frames) + 1 \in Nat
      BY <1>1, SequenceTypes DEF VideoInv, TypeInv, ListTypes
    <3>3. Len(Append(queue, Len(frames) + 1)) = Len(queue) + 1  BY <3>2
    <3> QED  BY <3>1, <3>3, <2>1
  <2>3. CASE SendPacket  BY <2>3, <1>1 DEF SendPacket, VideoInv, EventInv
  <2>4. CASE ~EncodeFrame /\ ~SendPacket
    <3>1. queue' = queue
      BY <2>4 DEF Next, ConnectionSucceeded, UpdateDutyRatio, UpdateBitrate, StopRunning,
                  Tick, SendSegment, Arrive, Ack, appVars
    <3> QED  BY <3>1, <2>1
  <2> QED  BY <2>2, <2>3, <2>4
<1> QED  BY <1>1, VideoInvariant, PTL DEF Spec, WritesAtFrameTimes
------------------------------------------------------------------------------
\* The rate of UpdateBitrate.  The writes that came after some point of the
\* history are not older than the last update, and they add up to at least
\* what the buffer grew by since then.
Entry == [time : Nat, size : Nat]

GrowthInv ==
    ~firstUpdate =>
        \E k \in 0 .. Len(writes) :
            /\ \A i \in k + 1 .. Len(writes) : writes[i].time >= updateAt - Window
            /\ PendingBuf - lastPending <= Bytes(SubSeq(writes, k + 1, Len(writes)))

RateInv ==
    /\ writes \in Seq(Entry)
    /\ clock <= updateAt /\ updateAt - Window <= clock
    /\ GrowthInv

LEMMA SmallestNat ==
    ASSUME NEW S \in SUBSET Nat, S # {}
    PROVE  Min(S) \in S /\ \A y \in S : Min(S) <= y
<1>1. PICK x \in S : \A y \in S : ~(<<y, x>> \in OpToRel(<, Nat))
    BY NatLessThanWellFounded, WFMin, Zenon
<1>2. ASSUME NEW y \in S  PROVE x <= y
  <2>1. ~(<<y, x>> \in OpToRel(<, Nat))  BY <1>1
  <2>2. ~(y < x)  BY <2>1, Zenon DEF OpToRel
  <2> QED  BY <2>2
<1> QED  BY <1>2 DEF Min

\* Induction on the numbers up to b, for a set in the place of a predicate.
LEMMA UpTo ==
    ASSUME NEW b \in Nat, NEW P, 0 \in P, \A k \in 0 .. b - 1 : k \in P => k + 1 \in P
    PROVE  \A k \in 0 .. b : k \in P
<1> DEFINE Bad == {i \in 0 .. b : i \notin P}
<1> SUFFICES ASSUME Bad # {}  PROVE FALSE  OBVIOUS
<1>1. Bad \in SUBSET Nat  OBVIOUS
<1>2. Min(Bad) \in Bad /\ \A y \in Bad : Min(Bad) <= y
  <2> HIDE DEF Bad
  <2> QED  BY <1>1, SmallestNat
<1> DEFINE m == Min(Bad)
<1> HIDE DEF m
<1>3. m \in 0 .. b /\ m \notin P /\ m # 0 /\ \A y \in Bad : m <= y  BY <1>2 DEF m
<1>4. m - 1 \in 0 .. b - 1 /\ m - 1 \notin Bad /\ (m - 1) + 1 = m  BY <1>3
<1>5. m - 1 \in P  BY <1>4
<1> QED  BY <1>3, <1>4, <1>5

\* g is the function Bytes adds up h with.
Part(h, g, i) == IF i = 0 THEN 0 ELSE g[i - 1] + h[i].size
IsSum(h, g, b) == g = [i \in 0 .. b |-> Part(h, g, i)]

LEMMA SumExists ==
    ASSUME NEW h, NEW b \in Nat
    PROVE  \E g : IsSum(h, g, b)
<1> DEFINE P == {k \in 0 .. b : \E g : IsSum(h, g, k)}
<1>1. 0 \in P
  <2> DEFINE g == [i \in 0 .. 0 |-> 0]
  <2>1. IsSum(h, g, 0)  BY DEF IsSum, Part
  <2> HIDE DEF g
  <2> QED  BY <2>1
<1>2. ASSUME NEW k \in 0 .. b - 1, k \in P  PROVE k + 1 \in P
  <2>1. PICK g : IsSum(h, g, k)  BY <1>2
  <2> DEFINE top == g[k] + h[k + 1].size
             e == [i \in 0 .. k + 1 |-> IF i = k + 1 THEN top ELSE g[i]]
  <2>2. \A i \in 0 .. k : g[i] = Part(h, g, i)  BY <2>1 DEF IsSum
  <2>3. ASSUME NEW i \in 0 .. k + 1  PROVE e[i] = Part(h, e, i)
    <3>1. CASE i = k + 1
      <4>1. e[i] = top /\ e[i - 1] = g[k] /\ i # 0  BY <3>1
      <4> HIDE DEF e
      <4> QED  BY <3>1, <4>1 DEF Part
    <3>2. CASE i = 0
      <4>1. e[i] = g[i] /\ g[i] = 0  BY <2>2, <3>2 DEF Part
      <4> HIDE DEF e
      <4> QED  BY <3>2, <4>1 DEF Part
    <3>3. CASE i # k + 1 /\ i # 0
      <4>1. e[i] = g[i] /\ e[i - 1] = g[i - 1] /\ i \in 0 .. k  BY <3>3
      <4> HIDE DEF e
      <4> QED  BY <2>2, <3>3, <4>1 DEF Part
    <3> QED  BY <3>1, <3>2, <3>3
  <2>4. e = [i \in 0 .. k + 1 |-> e[i]]  OBVIOUS
  <2> HIDE DEF e
  <2>5. IsSum(h, e, k + 1)  BY <2>3, <2>4 DEF IsSum
  <2> QED  BY <2>5
<1>3. \A k \in 0 .. b : k \in P
  <2> HIDE DEF P
  <2> QED  BY <1>1, <1>2, UpTo
<1> QED  BY <1>3

\* The sums of the parts of a history.
LEMMA BytesIs ==
    ASSUME NEW h \in Seq(Entry)
    PROVE  \E g : /\ Bytes(h) = g[Len(h)]
                  /\ g[0] = 0
                  /\ \A i \in 1 .. Len(h) : g[i] = g[i - 1] + h[i].size
                  /\ \A i \in 0 .. Len(h) : g[i] \in Nat
<1> DEFINE Body(g) == [i \in 0 .. Len(h) |-> IF i = 0 THEN 0 ELSE g[i - 1] + h[i].size]
           sum == CHOOSE g : g = Body(g)
<1>1. Len(h) \in Nat /\ \A i \in 1 .. Len(h) : h[i] \in Entry  OBVIOUS
<1>2. \A i \in 1 .. Len(h) : h[i].size \in Nat  BY <1>1 DEF Entry
<1>3. PICK g : IsSum(h, g, Len(h))  BY <1>1, SumExists
<1>4. g = Body(g)  BY <1>3, Zenon DEF IsSum, Part
<1>5. sum = Body(sum)
  <2> HIDE DEF Body
  <2> QED  BY <1>4, Zenon
<1>6. Bytes(h) = sum[Len(h)]  BY Zenon DEF Bytes
<1> HIDE DEF sum
<1>7. \A i \in 0 .. Len(h) : sum[i] = IF i = 0 THEN 0 ELSE sum[i - 1] + h[i].size
  <2> DEFINE t == sum
  <2>1. t = Body(t)  BY <1>5
  <2> HIDE DEF t
  <2>2. \A i \in 0 .. Len(h) : t[i] = IF i = 0 THEN 0 ELSE t[i - 1] + h[i].size
    BY <2>1
  <2> QED  BY <2>2 DEF t
<1> HIDE DEF Body
<1>8. sum[0] = 0  BY <1>1, <1>7
<1>9. \A i \in 1 .. Len(h) : sum[i] = sum[i - 1] + h[i].size
  <2> SUFFICES ASSUME NEW i \in 1 .. Len(h)  PROVE sum[i] = sum[i - 1] + h[i].size
    OBVIOUS
  <2>1. i \in 0 .. Len(h) /\ i # 0  BY <1>1
  <2> QED  BY <2>1, <1>7
<1> DEFINE P == {i \in 0 .. Len(h) : sum[i] \in Nat}
<1>10. 0 \in P  BY <1>1, <1>8
<1>11. ASSUME NEW k \in 0 .. Len(h) - 1, k \in P  PROVE k + 1 \in P
  <2>1. k + 1 \in 1 .. Len(h) /\ k + 1 \in 0 .. Len(h) /\ (k + 1) - 1 = k  BY <1>1
  <2>2. sum[k + 1] = sum[k] + h[k + 1].size  BY <2>1, <1>9
  <2>3. sum[k] \in Nat /\ h[k + 1].size \in Nat  BY <2>1, <1>2, <1>11
  <2> QED  BY <2>1, <2>2, <2>3
<1>12. \A k \in 0 .. Len(h) : k \in P
  <2> HIDE DEF P
  <2> QED  BY <1>1, <1>10, <1>11, UpTo
<1>13. \A i \in 0 .. Len(h) : sum[i] \in Nat  BY <1>12
<1> QED  BY <1>6, <1>8, <1>9, <1>13

\* A history that ends with another one is not lighter.
LEMMA BytesOfEnd ==
    ASSUME NEW h \in Seq(Entry), NEW j \in Seq(Entry), NEW d \in Nat,
           Len(h) = Len(j) + d, \A i \in 1 .. Len(j) : j[i] = h[i + d]
    PROVE  Bytes(j) \in Nat /\ Bytes(j) <= Bytes(h)
<1>1. Len(j) \in Nat /\ Len(h) \in Nat  OBVIOUS
<1>2. PICK f : /\ Bytes(h) = f[Len(h)]
               /\ \A i \in 1 .. Len(h) : f[i] = f[i - 1] + h[i].size
               /\ \A i \in 0 .. Len(h) : f[i] \in Nat
  BY BytesIs
<1>3. PICK g : /\ Bytes(j) = g[Len(j)] /\ g[0] = 0
               /\ \A i \in 1 .. Len(j) : g[i] = g[i - 1] + j[i].size
               /\ \A i \in 0 .. Len(j) : g[i] \in Nat
  BY BytesIs
<1> DEFINE P == {i \in 0 .. Len(j) : g[i] <= f[i + d]}
<1>4. 0 \in P
  <2>1. d \in 0 .. Len(h) /\ 0 + d = d  BY <1>1
  <2>2. f[d] \in Nat  BY <2>1, <1>2
  <2> QED  BY <2>1, <2>2, <1>1, <1>3
<1>5. ASSUME NEW k \in 0 .. Len(j) - 1, k \in P  PROVE k + 1 \in P
  <2>1. /\ k + 1 \in 1 .. Len(j) /\ (k + 1) - 1 = k /\ k \in 0 .. Len(j)
        /\ (k + 1) + d \in 1 .. Len(h) /\ ((k + 1) + d) - 1 = k + d
        /\ k + d \in 0 .. Len(h) /\ k + 1 \in 0 .. Len(j)
    BY <1>1
  <2>2. g[k + 1] = g[k] + j[k + 1].size  BY <2>1, <1>3
  <2>3. f[(k + 1) + d] = f[k + d] + h[(k + 1) + d].size  BY <2>1, <1>2
  <2>4. j[k + 1] = h[(k + 1) + d]  BY <2>1
  <2>5. j[k + 1] \in Entry  BY <2>1
  <2>6. j[k + 1].size \in Nat  BY <2>5 DEF Entry
  <2>7. g[k] \in Nat /\ f[k + d] \in Nat /\ g[k] <= f[k + d]  BY <2>1, <1>2, <1>3, <1>5
  <2>8. g[k + 1] <= f[(k + 1) + d]  BY <2>2, <2>3, <2>4, <2>6, <2>7, SMTT(30)
  <2> QED  BY <2>1, <2>8
<1>6. \A k \in 0 .. Len(j) : k \in P
  <2> HIDE DEF P
  <2> QED  BY <1>1, <1>4, <1>5, UpTo
<1>7. Len(j) \in 0 .. Len(j)  BY <1>1
<1>8. g[Len(j)] \in Nat /\ g[Len(j)] <= f[Len(j) + d]  BY <1>3, <1>6, <1>7
<1> QED  BY <1>2, <1>3, <1>8

\* One more write adds its size.
LEMMA BytesOfMore ==
    ASSUME NEW h \in Seq(Entry), NEW j \in Seq(Entry), Len(h) = Len(j) + 1,
           \A i \in 1 .. Len(j) : h[i] = j[i]
    PROVE  Bytes(h) = Bytes(j) + h[Len(h)].size
<1>1. Len(j) \in Nat /\ Len(h) \in Nat  OBVIOUS
<1>2. PICK f : /\ Bytes(h) = f[Len(h)] /\ f[0] = 0
               /\ \A i \in 1 .. Len(h) : f[i] = f[i - 1] + h[i].size
  BY BytesIs
<1>3. PICK g : /\ Bytes(j) = g[Len(j)] /\ g[0] = 0
               /\ \A i \in 1 .. Len(j) : g[i] = g[i - 1] + j[i].size
  BY BytesIs
<1> DEFINE P == {i \in 0 .. Len(j) : f[i] = g[i]}
<1>4. 0 \in P  BY <1>1, <1>2, <1>3
<1>5. ASSUME NEW k \in 0 .. Len(j) - 1, k \in P  PROVE k + 1 \in P
  <2>1. /\ k + 1 \in 1 .. Len(j) /\ (k + 1) - 1 = k
        /\ k + 1 \in 1 .. Len(h) /\ k + 1 \in 0 .. Len(j)
    BY <1>1
  <2>2. g[k + 1] = g[k] + j[k + 1].size  BY <2>1, <1>3
  <2>3. f[k + 1] = f[k] + h[k + 1].size  BY <2>1, <1>2
  <2>4. h[k + 1] = j[k + 1]  BY <2>1
  <2>5. f[k + 1] = g[k + 1]  BY <2>2, <2>3, <2>4, <1>5
  <2> QED  BY <2>1, <2>5
<1>6. \A k \in 0 .. Len(j) : k \in P
  <2> HIDE DEF P
  <2> QED  BY <1>1, <1>4, <1>5, UpTo
<1>7. Len(j) \in 0 .. Len(j) /\ Len(h) \in 1 .. Len(h) /\ Len(h) - 1 = Len(j)  BY <1>1
<1>8. f[Len(h)] = f[Len(j)] + h[Len(h)].size  BY <1>2, <1>7
<1>9. f[Len(j)] = g[Len(j)]  BY <1>6, <1>7
<1> QED  BY <1>2, <1>3, <1>8, <1>9

LEMMA BytesType ==
    ASSUME NEW h \in Seq(Entry)
    PROVE  Bytes(h) \in Nat
<1>1. Len(h) \in Nat /\ Len(h) \in 0 .. Len(h)  BY SMTT(30)
<1> QED  BY <1>1, BytesIs

\* The writes behind the first k.
LEMMA EndOfWrites ==
    ASSUME NEW h \in Seq(Entry), NEW k \in 0 .. Len(h)
    PROVE  /\ SubSeq(h, k + 1, Len(h)) \in Seq(Entry)
           /\ Len(SubSeq(h, k + 1, Len(h))) = Len(h) - k
           /\ \A i \in 1 .. Len(h) - k : SubSeq(h, k + 1, Len(h))[i] = h[i + k]
<1>1. Len(h) \in Nat  OBVIOUS
<1>2. k + 1 \in 1 .. Len(h) + 1 /\ Len(h) \in (k + 1) - 1 .. Len(h)  BY <1>1
<1>3. /\ SubSeq(h, k + 1, Len(h)) \in Seq(Entry)
      /\ Len(SubSeq(h, k + 1, Len(h))) = Len(h) - (k + 1) + 1
      /\ \A i \in 1 .. Len(h) - (k + 1) + 1 :
            SubSeq(h, k + 1, Len(h))[i] = h[(k + 1) + i - 1]
  BY <1>2, SubSeqProperties
<1>4. Len(h) - (k + 1) + 1 = Len(h) - k  BY <1>1
<1>5. \A i \in 1 .. Len(h) - k : (k + 1) + i - 1 = i + k  BY <1>1
<1> QED  BY <1>3, <1>4, <1>5

\* The history without its old entries is its end from some entry on, and
\* starts no later than a row of young entries at the end.
LEMMA WindowIsEnd ==
    ASSUME writes \in Seq(Entry), NEW t \in Nat
    PROVE  /\ InWindow(t) \in Seq(Entry)
           /\ \A k \in 0 .. Len(writes) :
                 (\A i \in k + 1 .. Len(writes) : t - writes[i].time <= Window) =>
                     Bytes(SubSeq(writes, k + 1, Len(writes))) <= Bytes(InWindow(t))
<1> DEFINE n == Len(writes)
           young == {i \in DOMAIN writes : t - writes[i].time <= Window}
<1>1. n \in Nat  OBVIOUS
<1>2. InWindow(t) = IF young = {} THEN <<>> ELSE SubSeq(writes, Min(young), n)
  BY DEF InWindow, From
<1>3. ASSUME NEW k \in 0 .. n, \A i \in k + 1 .. n : t - writes[i].time <= Window
      PROVE  k + 1 .. n \subseteq young
  <2>1. DOMAIN writes = 1 .. n  OBVIOUS
  <2> QED  BY <1>1, <1>3, <2>1
<1>4. young \subseteq 1 .. n
  <2>1. DOMAIN writes = 1 .. n  OBVIOUS
  <2> QED  BY <2>1
<1> HIDE DEF young
<1>5. CASE young = {}
  <2>1. InWindow(t) = <<>>  BY <1>2, <1>5
  <2>2. InWindow(t) \in Seq(Entry)  BY <2>1
  <2>3. ASSUME NEW k \in 0 .. n, \A i \in k + 1 .. n : t - writes[i].time <= Window
        PROVE  Bytes(SubSeq(writes, k + 1, n)) <= Bytes(InWindow(t))
    <3>1. k = n
      <4>1. k + 1 .. n = {}  BY <1>3, <1>5, <2>3
      <4>2. ~(k + 1 <= n)
        <5>1. k + 1 <= n => k + 1 \in k + 1 .. n  BY <1>1
        <5> QED  BY <4>1, <5>1
      <4> QED  BY ONLY <4>2, <1>1, k \in 0 .. n
    <3> DEFINE j == SubSeq(writes, k + 1, n)
    <3>2. j \in Seq(Entry) /\ Len(j) = 0  BY <3>1, <1>1, EndOfWrites
    <3>3. Len(InWindow(t)) = Len(j) + 0 /\ Len(j) = 0  BY <2>1, <3>2
    <3> HIDE DEF j
    <3>4. Bytes(j) <= Bytes(InWindow(t))
      <4>1. \A i \in 1 .. Len(j) : j[i] = InWindow(t)[i + 0]  BY <3>3
      <4> QED  BY <2>2, <3>2, <3>3, <4>1, BytesOfEnd
    <3> QED  BY <3>4 DEF j
  <2> QED  BY <2>2, <2>3
<1>6. CASE young # {}
  <2> DEFINE m == Min(young)
  <2>1. m \in 1 .. n /\ \A y \in young : m <= y
    <3>1. young \in SUBSET Nat  BY <1>4, <1>1
    <3>2. m \in young /\ \A y \in young : m <= y  BY <3>1, <1>6, SmallestNat
    <3> QED  BY <3>2, <1>4
  <2>2. InWindow(t) = SubSeq(writes, m, n)  BY <1>2, <1>6
  <2> HIDE DEF m
  <2>3. m - 1 \in 0 .. n /\ (m - 1) + 1 = m  BY <2>1, <1>1
  <2> DEFINE w == InWindow(t)
  <2>4. /\ w \in Seq(Entry) /\ Len(w) = n - (m - 1)
        /\ \A i \in 1 .. n - (m - 1) : w[i] = writes[i + (m - 1)]
    BY <2>2, <2>3, EndOfWrites
  <2> HIDE DEF w
  <2>5. ASSUME NEW k \in 0 .. n, \A i \in k + 1 .. n : t - writes[i].time <= Window
        PROVE  Bytes(SubSeq(writes, k + 1, n)) <= Bytes(w)
    <3> DEFINE j == SubSeq(writes, k + 1, n)
    <3>1. /\ j \in Seq(Entry) /\ Len(j) = n - k
          /\ \A i \in 1 .. n - k : j[i] = writes[i + k]
      BY EndOfWrites
    <3>2. m <= k + 1
      <4>1. k + 1 <= n => k + 1 \in young
        <5>1. k + 1 <= n => k + 1 \in k + 1 .. n  BY <1>1
        <5> QED  BY <5>1, <1>3, <2>5
      <4> QED  BY <4>1, <2>1, <1>1
    <3> DEFINE d == k - (m - 1)
    <3>3. d \in Nat /\ Len(w) = Len(j) + d
      <4>1. Len(j) = n - k /\ Len(w) = n - (m - 1)  BY <3>1, <2>4
      <4>2. k \in Nat /\ m \in Nat /\ d \in Nat  BY ONLY <3>2, <2>1, <1>1, k \in 0 .. n
      <4>3. n - (m - 1) = (n - k) + d  BY ONLY <4>2, <1>1
      <4> QED  BY ONLY <4>1, <4>2, <4>3
    <3>4. ASSUME NEW i \in 1 .. Len(j)  PROVE j[i] = w[i + d]
      <4>1. i \in 1 .. n - k /\ i + d \in 1 .. n - (m - 1)
        BY ONLY <3>1, <3>2, <2>1, <1>1, k \in 0 .. n, i \in 1 .. Len(j)
      <4>2. (i + d) + (m - 1) = i + k
        BY ONLY <2>1, <1>1, k \in 0 .. n, <4>1
      <4> QED  BY <4>1, <4>2, <3>1, <2>4
    <3> HIDE DEF j, d
    <3>5. Bytes(j) <= Bytes(w)  BY <2>4, <3>1, <3>3, <3>4, BytesOfEnd
    <3> QED  BY <3>5 DEF j
  <2> QED  BY <2>4, <2>5 DEF w
<1> QED  BY <1>5, <1>6

LEMMA RateInitial == Init => RateInv
<1> SUFFICES ASSUME Init  PROVE RateInv  OBVIOUS
<1>1. writes = <<>> /\ clock = 0 /\ updateAt = Window /\ firstUpdate = TRUE
  BY DEF Init, SenderInit
<1>2. writes \in Seq(Entry)  BY <1>1
<1>3. clock <= updateAt /\ updateAt - Window <= clock  BY <1>1, Sizes
<1> QED  BY <1>1, <1>2, <1>3 DEF RateInv, GrowthInv

\* A step that writes nothing, updates nothing and lets the buffer shrink.
LEMMA QuietRate ==
    ASSUME VideoInv, RateInv,
           UNCHANGED <<writes, updateAt, firstUpdate, lastPending>>,
           clock' \in Nat, clock <= clock', clock' <= updateAt,
           PendingBuf' \in Int, PendingBuf' <= PendingBuf
    PROVE  RateInv'
<1>1. /\ updateAt \in Nat /\ clock \in Nat /\ lastPending \in Nat /\ PendingBuf \in Int
      /\ Window \in Nat
  BY Sizes DEF VideoInv, TypeInv, NumberTypes, SocketTypes, PendingBuf
<1>2. writes' \in Seq(Entry) /\ clock' <= updateAt' /\ updateAt' - Window <= clock'
  BY <1>1 DEF RateInv
<1>3. GrowthInv'
  <2> SUFFICES ASSUME ~firstUpdate
               PROVE  \E k \in 0 .. Len(writes) :
                        /\ \A i \in k + 1 .. Len(writes) : writes[i].time >= updateAt - Window
                        /\ PendingBuf' - lastPending <= Bytes(SubSeq(writes, k + 1, Len(writes)))
    BY DEF GrowthInv
  <2>1. PICK k \in 0 .. Len(writes) :
            /\ \A i \in k + 1 .. Len(writes) : writes[i].time >= updateAt - Window
            /\ PendingBuf - lastPending <= Bytes(SubSeq(writes, k + 1, Len(writes)))
    BY DEF RateInv, GrowthInv
  <2> DEFINE j == SubSeq(writes, k + 1, Len(writes))
  <2>2. j \in Seq(Entry)  BY EndOfWrites DEF RateInv
  <2>3. PendingBuf - lastPending <= Bytes(j)  BY <2>1
  <2> HIDE DEF j
  <2>4. Bytes(j) \in Nat  BY <2>2, BytesType
  <2>5. PendingBuf' - lastPending <= Bytes(j)  BY <1>1, <2>3, <2>4
  <2> QED  BY <2>1, <2>5 DEF j
<1> QED  BY <1>2, <1>3 DEF RateInv

\* A write adds to the buffer what it adds to the history.
LEMMA WriteRate ==
    ASSUME VideoInv, RateInv, SendPacket
    PROVE  RateInv'
<1> DEFINE f == Head(queue)
           bytes == Hdr + frames[f].size
           ok == queue # <<>> /\ m_connected /\ Accepts(bytes)
<1>1. /\ updateAt \in Nat /\ clock \in Nat /\ lastPending \in Nat /\ Window \in Nat
      /\ wrote \in Nat /\ sent \in Nat /\ PendingBuf = wrote - sent
  BY Sizes DEF VideoInv, TypeInv, NumberTypes, SocketTypes, PendingBuf
<1>2. UNCHANGED <<updateAt, firstUpdate, lastPending, clock, sent>>
  BY DEF SendPacket
<1>3. CASE ~ok
  <2>1. wrote' = wrote /\ writes' = writes  BY <1>3 DEF SendPacket
  <2>2. PendingBuf' = PendingBuf /\ PendingBuf' \in Int /\ PendingBuf' <= PendingBuf
    BY <2>1, <1>1, <1>2 DEF PendingBuf
  <2> QED  BY <2>1, <2>2, <1>1, <1>2, QuietRate DEF RateInv
<1>4. CASE ok
  <2> DEFINE e == [time |-> clock, size |-> bytes]
             n == Len(writes)
  <2>1. wrote' = wrote + bytes /\ writes' = Append(writes, e)  BY <1>4 DEF SendPacket
  <2>2. bytes \in Nat
    <3>1. queue # <<>> /\ Len(queue) \in Nat /\ queue \in Seq(Nat)
      BY <1>4, SequenceTypes DEF VideoInv, TypeInv, ListTypes
    <3>2. Len(queue) > 0 /\ f = queue[1]  BY <3>1
    <3>3. f \in 1 .. Len(frames)
      <4>1. 1 \in 1 .. Len(queue)  BY <3>1, <3>2
      <4>2. queue[1] = Written + 1 /\ Len(queue) <= Len(frames) /\ Len(frames) \in Nat
        BY <4>1, SequenceTypes DEF VideoInv, StreamInv, QueueInv
      <4> QED  BY <3>1, <3>2, <4>2 DEF Written
    <3>4. frames[f].size \in Nat  BY <3>3, SequenceTypes DEF VideoInv
    <3> QED  BY <3>4, Sizes
  <2> HIDE DEF bytes
  <2>3. e \in Entry  BY <1>1, <2>2 DEF Entry
  <2>4. e.time = clock /\ e.size = bytes  OBVIOUS
  <2> HIDE DEF e
  <2>5. writes \in Seq(Entry) /\ n \in Nat  BY DEF RateInv
  <2>6. /\ writes' \in Seq(Entry) /\ Len(writes') = n + 1
        /\ \A i \in 1 .. n : writes'[i] = writes[i]
        /\ writes'[n + 1] = e
    BY <2>1, <2>3, <2>5
  <2>7. PendingBuf' = PendingBuf + bytes /\ PendingBuf \in Int
    BY <2>1, <2>2, <1>1, <1>2 DEF PendingBuf
  <2>8. GrowthInv'
    <3> SUFFICES ASSUME ~firstUpdate
                 PROVE  \E k \in 0 .. Len(writes') :
                          /\ \A i \in k + 1 .. Len(writes') :
                                writes'[i].time >= updateAt - Window
                          /\ PendingBuf' - lastPending
                                <= Bytes(SubSeq(writes', k + 1, Len(writes')))
      BY <1>2 DEF GrowthInv
    <3>1. PICK k \in 0 .. n :
              /\ \A i \in k + 1 .. n : writes[i].time >= updateAt - Window
              /\ PendingBuf - lastPending <= Bytes(SubSeq(writes, k + 1, n))
      BY DEF RateInv, GrowthInv
    <3> DEFINE j == SubSeq(writes, k + 1, n)
               h == SubSeq(writes', k + 1, Len(writes'))
    <3>2. /\ j \in Seq(Entry) /\ Len(j) = n - k
          /\ \A i \in 1 .. n - k : j[i] = writes[i + k]
      BY <2>5, EndOfWrites
    <3>3. k \in 0 .. Len(writes')  BY <2>5, <2>6
    <3>4. /\ h \in Seq(Entry) /\ Len(h) = Len(writes') - k
          /\ \A i \in 1 .. Len(writes') - k : h[i] = writes'[i + k]
      BY <2>6, <3>3, EndOfWrites
    <3>5. PendingBuf - lastPending <= Bytes(j)  BY <3>1
    <3> HIDE DEF j, h
    <3>6. Len(h) = Len(j) + 1  BY <2>5, <2>6, <3>2, <3>4
    <3>7. ASSUME NEW i \in 1 .. Len(j)  PROVE h[i] = j[i]
      <4>1. i \in 1 .. n - k /\ i \in 1 .. Len(writes') - k /\ i + k \in 1 .. n
        BY <2>5, <2>6, <3>2
      <4> QED  BY <4>1, <2>6, <3>2, <3>4
    <3>8. h[Len(h)] = e
      <4>1. Len(h) \in 1 .. Len(writes') - k /\ Len(h) + k = n + 1
        BY <2>5, <2>6, <3>4
      <4> QED  BY <4>1, <2>6, <3>4
    <3>9. Bytes(h) = Bytes(j) + bytes
      <4>1. Bytes(h) = Bytes(j) + h[Len(h)].size  BY <3>2, <3>4, <3>6, <3>7, BytesOfMore
      <4> QED  BY <4>1, <3>8, <2>4
    <3>10. Bytes(j) \in Nat  BY <3>2, BytesType
    <3>11. PendingBuf' - lastPending <= Bytes(h)
      BY <2>2, <2>7, <3>5, <3>9, <3>10, <1>1
    <3>12. ASSUME NEW i \in k + 1 .. Len(writes')
           PROVE  writes'[i].time >= updateAt - Window
      <4>1. CASE i = n + 1
        <5>1. clock >= updateAt - Window  BY <1>1 DEF RateInv
        <5> QED  BY <4>1, <5>1, <2>4, <2>6
      <4>2. CASE i # n + 1
        <5>1. i \in k + 1 .. n /\ i \in 1 .. n  BY <4>2, <2>5, <2>6
        <5> QED  BY <5>1, <2>6, <3>1
      <4> QED  BY <4>1, <4>2
    <3> QED  BY <3>3, <3>11, <3>12 DEF h
  <2> QED  BY <2>6, <2>8, <1>2 DEF RateInv
<1> QED  BY <1>3, <1>4

\* An update starts to count afresh.
LEMMA UpdateRate ==
    ASSUME VideoInv, RateInv, UpdateBitrate
    PROVE  RateInv'
<1>1. /\ clock \in Nat /\ Window \in Nat /\ wrote \in Nat /\ sent \in Nat
  BY Sizes DEF VideoInv, TypeInv, NumberTypes, SocketTypes
<1>2. /\ writes' = InWindow(clock) /\ lastPending' = PendingBuf
      /\ updateAt' = clock + Window /\ UNCHANGED <<clock, wrote, sent>>
  BY DEF UpdateBitrate, sockVars
<1>3. writes' \in Seq(Entry)  BY <1>1, <1>2, WindowIsEnd DEF RateInv
<1>4. clock' <= updateAt' /\ updateAt' - Window <= clock'  BY <1>1, <1>2
<1>5. PendingBuf' - lastPending' = 0  BY <1>1, <1>2 DEF PendingBuf
<1> DEFINE n == Len(writes')
           j == SubSeq(writes', n + 1, n)
<1>6. n \in Nat /\ n \in 0 .. n /\ n + 1 .. n = {}  BY <1>3
<1>7. j \in Seq(Entry)  BY <1>3, <1>6, EndOfWrites
<1> HIDE DEF j
<1>8. Bytes(j) \in Nat  BY <1>7, BytesType
<1>9. PendingBuf' - lastPending' <= Bytes(j)  BY <1>5, <1>8
<1>10. \A i \in n + 1 .. n : writes'[i].time >= updateAt' - Window  BY <1>6
<1>11. GrowthInv'  BY <1>6, <1>9, <1>10 DEF GrowthInv, j
<1> QED  BY <1>3, <1>4, <1>11 DEF RateInv

LEMMA RateStep ==
    ASSUME VideoInv, RateInv, [Next]_vars
    PROVE  RateInv'
<1>1. /\ updateAt \in Nat /\ clock \in Nat /\ clock <= updateAt
      /\ wrote \in Nat /\ sent \in Nat /\ sent <= wrote
      /\ PendingBuf = wrote - sent /\ PendingBuf \in Nat
  BY DEF VideoInv, TypeInv, NumberTypes, SocketTypes, PendingBuf, RateInv
<1>2. CASE SendPacket  BY <1>2, WriteRate
<1>3. CASE UpdateBitrate  BY <1>3, UpdateRate
<1>4. CASE SendSegment
  <2>1. /\ UNCHANGED <<writes, updateAt, firstUpdate, lastPending, clock, wrote>>
        /\ sent' = sent + Min({MSS, PendingBuf})
    BY <1>4 DEF SendSegment, rateVars
  <2>2. Min({MSS, PendingBuf}) \in Nat
    <3>1. MSS \in Int /\ PendingBuf \in Int /\ MSS \in Nat  BY <1>1, Sizes
    <3>2. Min({MSS, PendingBuf}) = IF MSS <= PendingBuf THEN MSS ELSE PendingBuf
      BY <3>1, MinPair
    <3> QED  BY <3>1, <3>2, <1>1
  <2>3. PendingBuf' \in Int /\ PendingBuf' <= PendingBuf
    BY <1>1, <2>1, <2>2 DEF PendingBuf
  <2> QED  BY <1>1, <2>1, <2>3, QuietRate
<1>5. CASE Tick
  <2>1. /\ UNCHANGED <<writes, updateAt, firstUpdate, lastPending, wrote, sent>>
        /\ clock' = clock + 1 /\ updateAt > clock
    BY <1>5 DEF Tick, rateVars, sockVars
  <2>2. PendingBuf' = PendingBuf /\ PendingBuf' \in Int /\ PendingBuf' <= PendingBuf
    BY <1>1, <2>1 DEF PendingBuf
  <2>3. clock' \in Nat /\ clock <= clock' /\ clock' <= updateAt  BY <1>1, <2>1
  <2> QED  BY <2>1, <2>2, <2>3, QuietRate
<1>6. CASE \/ ConnectionSucceeded \/ EncodeFrame \/ UpdateDutyRatio \/ StopRunning
           \/ Arrive \/ Ack \/ UNCHANGED vars
  <2>1. UNCHANGED <<writes, updateAt, firstUpdate, lastPending, clock, wrote, sent>>
    BY <1>6 DEF ConnectionSucceeded, EncodeFrame, UpdateDutyRatio, StopRunning, Arrive, Ack,
                vars, rateVars, sockVars
  <2>2. PendingBuf' = PendingBuf /\ PendingBuf' \in Int /\ PendingBuf' <= PendingBuf
    BY <1>1, <2>1 DEF PendingBuf
  <2> QED  BY <1>1, <2>1, <2>2, QuietRate
<1> QED  BY <1>2, <1>3, <1>4, <1>5, <1>6 DEF Next

\* PacketSenderTcp::UpdateSendingRate: the sum of the writes of the window is
\* at least the growth of the buffer since the last update, so the unsigned
\* difference of the two does not wrap, wherever in the window the update falls.
THEOREM SendRateIsSound == Spec => []SentNeverWraps
<1>1. VideoInv /\ RateInv => SentNeverWraps
  <2> SUFFICES ASSUME VideoInv, RateInv, ~firstUpdate
               PROVE  TotalWriteBytes(clock) >= PendingBuf - lastPending
    BY DEF SentNeverWraps
  <2>1. /\ updateAt \in Nat /\ clock \in Nat /\ clock <= updateAt /\ lastPending \in Nat
        /\ writes \in Seq(Entry) /\ PendingBuf \in Int /\ Window \in Nat
    BY Sizes DEF VideoInv, TypeInv, NumberTypes, SocketTypes, PendingBuf, RateInv
  <2>2. PICK k \in 0 .. Len(writes) :
            /\ \A i \in k + 1 .. Len(writes) : writes[i].time >= updateAt - Window
            /\ PendingBuf - lastPending <= Bytes(SubSeq(writes, k + 1, Len(writes)))
    BY DEF RateInv, GrowthInv
  <2>3. ASSUME NEW i \in k + 1 .. Len(writes)  PROVE clock - writes[i].time <= Window
    <3>1. i \in 1 .. Len(writes)  BY <2>1
    <3>2. writes[i] \in Entry  BY <3>1, <2>1
    <3>3. writes[i].time \in Nat  BY <3>2 DEF Entry
    <3>4. writes[i].time >= updateAt - Window  BY <2>2
    <3> QED  BY <3>3, <3>4, <2>1
  <2>4. Bytes(SubSeq(writes, k + 1, Len(writes))) <= Bytes(InWindow(clock))
    BY <2>1, <2>3, WindowIsEnd
  <2> DEFINE j == SubSeq(writes, k + 1, Len(writes))
             w == InWindow(clock)
  <2>5. j \in Seq(Entry) /\ w \in Seq(Entry)  BY <2>1, EndOfWrites, WindowIsEnd
  <2>6. PendingBuf - lastPending <= Bytes(j) /\ Bytes(j) <= Bytes(w)  BY <2>2, <2>4
  <2> HIDE DEF j
  <2>7. TotalWriteBytes(clock) = Bytes(w)  BY DEF TotalWriteBytes
  <2> HIDE DEF w
  <2>8. Bytes(j) \in Nat  BY <2>5, BytesType
  <2>9. Bytes(w) \in Nat  BY <2>5, BytesType
  <2> QED  BY <2>1, <2>6, <2>7, <2>8, <2>9
<1>2. Spec => []RateInv
  BY RateInitial, RateStep, VideoInvariant, PTL DEF Spec
<1> QED  BY <1>1, <1>2, VideoInvariant, PTL
=============================================================================

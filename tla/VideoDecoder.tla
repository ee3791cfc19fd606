---------------------------- MODULE VideoDecoder ----------------------------
(***************************************************************************)
(* The video decoder (bitrate-ctrl/model/video-decoder.cc): data packets   *)
(* fill frames; a full frame that is next in line is played, with the full *)
(* frames after it; frames a deadline behind the newest are discarded.     *)
(*                                                                         *)
(* Packets come in any order and more than once: the receiver decodes a    *)
(* packet again when its group is opened again, and retransmissions        *)
(* overtake first transmissions.  Frame ids stay far below 2^32, so the    *)
(* uint32_t m_lastPlayedFrameId, set to -1 by the constructor and used     *)
(* only as m_lastPlayedFrameId + 1, is the integer -1; the discard bound   *)
(* frame_id - delay_ddl / m_frameInterval is computed as an int64_t.       *)
(***************************************************************************)
EXTENDS Integers, Sequences, FiniteSets

CONSTANTS
    FrameSize,  \* FrameSize[f]: the number of data packets of frame f
    DdlFrames   \* delay_ddl / m_frameInterval

ASSUME DecoderAssumption ==
    /\ 0 \in DOMAIN FrameSize /\ DOMAIN FrameSize \subseteq Nat
    /\ \A f \in DOMAIN FrameSize : FrameSize[f] \in Nat \ {0} /\ 0 .. f \subseteq DOMAIN FrameSize
    /\ DdlFrames \in Nat \ {0}

Frames == DOMAIN FrameSize

VARIABLES
    unplayed,   \* unplayed_frames: frame id -> the packets of the frame so far
    played,     \* played_frames: frame id -> its packets
    last,       \* m_lastPlayedFrameId
    maxFrame,   \* max_frame_id
    decoded,    \* the frames the decoder reported as decoded, in order
    frameAcks   \* the frames ReplyFrameAck was called for, in order

decoderVars == <<unplayed, played, last, maxFrame, decoded, frameAcks>>

\* A null Ptr in played_frames; a VideoFrame has at least one packet.
NoFrame == {}

DecoderInit ==
    /\ unplayed = [f \in {} |-> {}]
    /\ played = [f \in {} |-> {}]
    /\ last = -1
    /\ maxFrame = 0
    /\ decoded = <<>>
    /\ frameAcks = <<>>

------------------------------------------------------------------------------
\* The loops of DecodeDataPacket work on a record of the decoder's variables.
State == [unplayed |-> unplayed, played |-> played, last |-> last,
          decoded |-> decoded, acks |-> frameAcks]

\* f is in unplayed_frames with all its packets.
Full(s, f) == f \in DOMAIN s.unplayed /\ Cardinality(s.unplayed[f]) = FrameSize[f]

\* played_frames[f] = unplayed_frames[f]; unplayed_frames.erase(f), for the
\* frames a .. b in turn: operator[] on a missing key gives a null pointer.
Move(s, a, b) ==
    [s EXCEPT
        !.played   = [g \in DOMAIN @ \cup a .. b |->
                        IF g \notin a .. b THEN @[g]
                        ELSE IF g \in DOMAIN s.unplayed THEN s.unplayed[g] ELSE NoFrame],
        !.unplayed = [g \in DOMAIN @ \ (a .. b) |-> @[g]],
        !.last     = IF a <= b THEN b ELSE @]

FramesFrom(a, b) == [i \in 1 .. b - a + 1 |-> a + i - 1]

Play(s, a, b) == [Move(s, a, b) EXCEPT !.decoded = @ \o FramesFrom(a, b)]

\* The last frame a catch-up loop from f plays, f - 1 if none: it leaves at the
\* first that is missing or not full.
RunEnd(s, f, top) ==
    CHOOSE e \in {f - 1} \cup f .. top :
        /\ \A h \in f .. e : Full(s, h)
        /\ e < top => ~Full(s, e + 1)

\* One turn of the discard loop: idx goes, the full frames behind it are played.
\* The catch-up moves m_lastPlayedFrameId but not idx.
DiscardOne(s, idx) ==
    LET gone == Move(s, idx, idx)
    IN  Play(gone, idx + 1, RunEnd(gone, idx + 1, maxFrame))

\* Fault: the bound is off by one frame.
FaultyBound(f) == f - DdlFrames - 1

Bound(f) == f - DdlFrames

\* The discard loop, idx from m_lastPlayedFrameId + 1 to f - DdlFrames.
Discard(s, f) ==
    LET loop[idx \in s.last .. Bound(f)] ==
          IF idx = s.last THEN s ELSE DiscardOne(loop[idx - 1], idx)
    IN  IF Bound(f) > s.last THEN loop[Bound(f)] ELSE s

\* Fault: a new VideoFrame forgets the packet it is made of.
FaultyFill(s, f, p) ==
    [s EXCEPT !.unplayed = [g \in DOMAIN @ \cup {f} |->
                              IF g \notin DOMAIN @ THEN {}
                              ELSE IF g = f THEN @[g] \cup {p} ELSE @[g]]]

\* Packet p of frame f is put in unplayed_frames.
Fill(s, f, p) ==
    [s EXCEPT !.unplayed = [g \in DOMAIN @ \cup {f} |->
                              IF g # f THEN @[g]
                              ELSE IF f \in DOMAIN @ THEN @[f] \cup {p} ELSE {p}]]

PlayAndAck(s, a, b) == [Play(s, a, b) EXCEPT !.acks = @ \o FramesFrom(a, b)]

\* Fault: any full frame is played.
FaultyPlayFrom(s, f, top) ==
    IF Full(s, f) THEN PlayAndAck(s, f, RunEnd(s, f, top)) ELSE s

\* A full frame f is played if it is frame 0, alone and unacknowledged, or if
\* it is next in line, with the full frames behind it.
PlayFrom(s, f, top) ==
    IF ~Full(s, f) THEN s
    ELSE IF f = 0 THEN Play(s, 0, 0)
    ELSE IF f = s.last + 1 THEN PlayAndAck(s, f, RunEnd(s, f, top))
    ELSE s

\* Fault: packets of played frames are not skipped.
FaultyDecodeDataPacket(f, p) ==
    LET top  == IF f > maxFrame THEN f ELSE maxFrame
        next == PlayFrom(Fill(Discard(State, f), f, p), f, top)
    IN  /\ unplayed' = next.unplayed
        /\ played' = next.played
        /\ last' = next.last
        /\ decoded' = next.decoded
        /\ frameAcks' = next.acks
        /\ maxFrame' = top

\* DecodeDataPacket for one packet of its vector.
DecodeDataPacket(f, p) ==
    LET top  == IF f > maxFrame THEN f ELSE maxFrame
        next == PlayFrom(Fill(Discard(State, f), f, p), f, top)
    IN  IF f \in DOMAIN played THEN UNCHANGED decoderVars
        ELSE /\ unplayed' = next.unplayed
             /\ played' = next.played
             /\ last' = next.last
             /\ decoded' = next.decoded
             /\ frameAcks' = next.acks
             /\ maxFrame' = top

\* The frames GetDDLMissRate takes for missed: min_frame_id stays 0, and a frame
\* that was discarded is in played_frames as well.
Missed == maxFrame + 1 - Cardinality(DOMAIN played)

DecoderNext == \E f \in Frames : \E p \in 1 .. FrameSize[f] : DecodeDataPacket(f, p)

DecoderSpec == DecoderInit /\ [][DecoderNext]_decoderVars

------------------------------------------------------------------------------
\* The maps hold frames of the stream, and a waiting frame has a packet.
DecoderTypeOK ==
    /\ DOMAIN unplayed \subseteq Frames /\ DOMAIN played \subseteq Frames
    /\ \A f \in DOMAIN unplayed : unplayed[f] \subseteq 1 .. FrameSize[f] /\ unplayed[f] # {}
    /\ \A f \in DOMAIN played : played[f] \subseteq 1 .. FrameSize[f]
    /\ last \in Frames \cup {-1}
    /\ maxFrame \in Frames

\* played_frames has no gap: frames are settled, played or discarded, in order,
\* although packets arrive out of order and m_lastPlayedFrameId may move back.
PlayedIsPrefix ==
    \A f \in DOMAIN played : 0 .. f \subseteq DOMAIN played

\* Frames are decoded in order and at most once, discarding included.
DecodedInOrder ==
    \A i, j \in 1 .. Len(decoded) : i < j => decoded[i] < decoded[j]

\* No frame a deadline behind the newest one is still waiting to be played: the
\* rate of GetDDLMissRate never counts more than the frames of one deadline as
\* missed, however many were discarded before.
BoundedLag ==
    /\ 0 .. maxFrame - DdlFrames \subseteq DOMAIN played
    /\ Missed <= DdlFrames

\* A frame is waiting or settled, not both: the catch-up of the discard loop may
\* play any full frame, but never the one whose packet is being added.
Disjoint == DOMAIN played \cap DOMAIN unplayed = {}

\* A frame leaves unplayed_frames for good: it is decoded once, in its turn, and
\* never waits again, late packets and the catch-up of the discard loop included.
SettledOnce == DecodedInOrder /\ Disjoint

==============================================================================

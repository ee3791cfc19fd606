--------------------------- MODULE VideoDecoderMC ---------------------------
(***************************************************************************)
(* Instances of VideoDecoder for TLC: frames of one and two packets.       *)
(***************************************************************************)
EXTENDS VideoDecoder

MCFrameSize == [f \in 0 .. 7 |-> IF f \in {1, 4} THEN 2 ELSE 1]

==============================================================================

----------------------------- MODULE SbcFrames -----------------------------
(***************************************************************************)
(* SBC headers, frame lengths and the splitting of a packet into frames,   *)
(* bendio/audio/framing.py.  Bytes are numbers.                            *)
(***************************************************************************)
EXTENDS Integers, Sequences

SYNC == 156

Modes == <<"mono", "dual", "stereo", "joint">>

\* decode_sbc_header, for a frame that begins with SYNC.
DecodeHeader(b1, b2) ==
  [blocks   |-> 4 * (((b1 \div 16) % 4) + 1),
   mode     |-> Modes[((b1 \div 4) % 4) + 1],
   subbands |-> IF b1 % 2 = 1 THEN 8 ELSE 4,
   bitpool  |-> b2]

BytesFor(bits) == (bits + 7) \div 8

\* A mistake: no join flags in mode "joint".
FrameLengthUnjoined(h) ==
  LET channels == IF h.mode = "mono" THEN 1 ELSE 2
  IN 4 + BytesFor(4 * h.subbands * channels)
     + (CASE h.mode \in {"mono", "dual"} -> BytesFor(h.blocks * channels * h.bitpool)
          [] h.mode = "stereo"           -> BytesFor(h.blocks * h.bitpool) * 2
          [] h.mode = "joint"            -> BytesFor(h.blocks * h.bitpool))

\* sbc_frame_length
FrameLength(h) ==
  LET channels == IF h.mode = "mono" THEN 1 ELSE 2
  IN 4 + BytesFor(4 * h.subbands * channels)
     + (CASE h.mode \in {"mono", "dual"} -> BytesFor(h.blocks * channels * h.bitpool)
          [] h.mode = "stereo"           -> BytesFor(h.blocks * h.bitpool) * 2
          [] h.mode = "joint"            -> BytesFor(h.subbands + h.blocks * h.bitpool))

\* split_sbc_frames, which stops at the first frame that is cut off or out of step.
SplitFrames(packet) ==
  LET body == Tail(packet)
      n == FrameLength(DecodeHeader(body[2], body[3]))
      At(i) == n * (i - 1)
      Whole(i) == At(i) + n <= Len(body) /\ body[At(i) + 1] = SYNC
      count == CHOOSE c \in 0..Len(body) : ~Whole(c + 1) /\ \A i \in 1..c : Whole(i)
  IN IF packet = <<>> THEN <<>>
     ELSE IF Len(body) < 4 THEN <<>>
     ELSE IF body[1] # SYNC \/ n > 512 THEN <<>>
     ELSE [i \in 1..count |-> SubSeq(body, At(i) + 1, At(i) + n)]
=============================================================================

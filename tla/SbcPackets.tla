----------------------------- MODULE SbcPackets -----------------------------
(***************************************************************************)
(* Audio packets as the radio puts them together: a header byte, SBC       *)
(* frames of one configuration, and possibly the beginning of another.     *)
(* SbcFrames has to take them apart.                                       *)
(***************************************************************************)
EXTENDS SbcFrames

CONSTANTS BitPools,
          Samples,    \* what may follow the header of a frame, byte by byte
          Rests,      \* how many bytes may be left over at the end of a packet
          MaxFrames   \* bound for TLC

Byte == 0..255
LongestFrame == 1040

ASSUME PacketAssumption == /\ BitPools \subseteq Byte
                           /\ Samples \subseteq [1..LongestFrame -> Byte]
                           /\ Rests \subseteq Nat

VARIABLES packet,    \* the bytes of the packet, and the SBC frames put into it
          sent,
          complete   \* nothing more is put into it

packetVars == <<packet, sent, complete>>

\* The length of an SBC frame by A2DP 1.3, section 12.9.
A2dpLength(h) ==
  LET channels == IF h.mode = "mono" THEN 1 ELSE 2
      samples == h.blocks * h.bitpool * (IF h.mode = "dual" THEN 2 ELSE 1)
      join == IF h.mode = "joint" THEN h.subbands ELSE 0
  IN 4 + (h.subbands * channels) \div 2 + (join + samples) \div 8
     + (IF (join + samples) % 8 = 0 THEN 0 ELSE 1)

SbcFrame(b1, b2, s) ==
  <<SYNC, b1, b2>> \o [i \in 1..A2dpLength(DecodeHeader(b1, b2)) - 3 |-> s[i]]

PacketInit == packet = <<>> /\ sent = <<>> /\ complete = FALSE

FirstFrame(b1, b2, s) == /\ packet = <<>>
                         /\ sent' = <<SbcFrame(b1, b2, s)>>
                         /\ packet' = <<0>> \o SbcFrame(b1, b2, s)
                         /\ UNCHANGED complete

NextFrame(s) == /\ packet # <<>> /\ ~complete /\ Len(sent) < MaxFrames
                /\ LET f == SbcFrame(sent[1][2], sent[1][3], s)
                   IN sent' = Append(sent, f) /\ packet' = packet \o f
                /\ UNCHANGED complete

\* The end of the packet: bytes that are no whole frame.
Remainder(n, s) == /\ packet # <<>> /\ ~complete /\ complete' = TRUE
                   /\ n < Len(sent[1])
                   /\ packet' = packet \o [i \in 1..n |-> s[i]]
                   /\ UNCHANGED sent

PacketNext == \E s \in Samples :
                \/ \E b1 \in Byte, b2 \in BitPools : FirstFrame(b1, b2, s)
                \/ NextFrame(s)
                \/ \E n \in Rests : Remainder(n, s)

PacketSpec == PacketInit /\ [][PacketNext]_packetVars
-----------------------------------------------------------------------------
\* Packets come apart into the SBC frames they were made of, whatever the samples
\* look like.  Not so in mode "stereo", whose frames split_sbc_frames takes for
\* longer than they are, nor beyond 512 bytes, where it gives up.
PacketsAreSplitExactly ==
  packet # <<>> /\ Len(sent[1]) <= 512 /\ DecodeHeader(sent[1][2], sent[1][3]).mode # "stereo"
    => SplitFrames(packet) = sent
=============================================================================

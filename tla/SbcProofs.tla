----------------------------- MODULE SbcProofs -----------------------------
(***************************************************************************)
(* Proofs about SbcFrames: the length of a frame is the one of A2DP, and   *)
(* packets of any number of frames come apart into them, whatever the      *)
(* samples look like.                                                      *)
(***************************************************************************)
EXTENDS SbcPackets, SequenceTheorems, TLAPS

\* What a header of three bytes may say.
Headers == [blocks : {4, 8, 12, 16}, mode : {"mono", "dual", "stereo", "joint"},
            subbands : {4, 8}, bitpool : Byte]

\* DecodeHeader reads no more out of two bytes.
LEMMA HeadersAreDecoded ==
  ASSUME NEW b1 \in Byte, NEW b2 \in Byte
  PROVE  DecodeHeader(b1, b2) \in Headers
  <1>1. (b1 \div 16) % 4 \in 0..3 /\ (b1 \div 4) % 4 \in 0..3
    BY DEF Byte
  <1>2. 4 * (((b1 \div 16) % 4) + 1) \in {4, 8, 12, 16}
    BY <1>1
  <1>3. Modes[((b1 \div 4) % 4) + 1] \in {"mono", "dual", "stereo", "joint"}
    <2>1. (b1 \div 4) % 4 = 0 \/ (b1 \div 4) % 4 = 1 \/ (b1 \div 4) % 4 = 2 \/ (b1 \div 4) % 4 = 3
      BY <1>1
    <2> QED
      BY <2>1 DEF Modes
  <1> QED
    BY <1>2, <1>3 DEF DecodeHeader, Headers

\* Rounding up by adding 7 is rounding up by looking at the rest.
LEMMA RoundsUp ==
  ASSUME NEW bits \in Nat
  PROVE  BytesFor(bits) = bits \div 8 + (IF bits % 8 = 0 THEN 0 ELSE 1)
  BY DEF BytesFor

\* sbc_frame_length() follows A2DP in the modes "mono", "dual" and "joint".
THEOREM FrameLengthIsA2dp ==
  ASSUME NEW h \in Headers, h.mode # "stereo"
  PROVE  FrameLength(h) = A2dpLength(h)
  <1>1. /\ h.bitpool \in Nat /\ h.blocks \in Nat /\ h.subbands \in {4, 8}
        /\ h.mode \in {"mono", "dual", "joint"}
    BY DEF Headers, Byte
  <1>3. CASE h.mode = "mono"
    <2> DEFINE bits == h.blocks * 1 * h.bitpool
               a2dpBits == 0 + h.blocks * h.bitpool * 1
    <2>1. FrameLength(h) = 4 + BytesFor(4 * h.subbands * 1) + BytesFor(bits)
      BY <1>3 DEF FrameLength
    <2>2. A2dpLength(h) = 4 + (h.subbands * 1) \div 2 + a2dpBits \div 8
                          + (IF a2dpBits % 8 = 0 THEN 0 ELSE 1)
      BY <1>3 DEF A2dpLength
    <2>3. BytesFor(4 * h.subbands * 1) = (h.subbands * 1) \div 2
      BY <1>1 DEF BytesFor
    <2>4. bits = a2dpBits /\ bits \in Nat
      BY <1>1
    <2> QED
      <3> HIDE DEF bits, a2dpBits
      <3> QED
        BY <1>1, <2>1, <2>2, <2>3, <2>4, RoundsUp
  <1>4. CASE h.mode = "dual"
    <2> DEFINE bits == h.blocks * 2 * h.bitpool
               a2dpBits == 0 + h.blocks * h.bitpool * 2
    <2>1. FrameLength(h) = 4 + BytesFor(4 * h.subbands * 2) + BytesFor(bits)
      BY <1>4 DEF FrameLength
    <2>2. A2dpLength(h) = 4 + (h.subbands * 2) \div 2 + a2dpBits \div 8
                          + (IF a2dpBits % 8 = 0 THEN 0 ELSE 1)
      BY <1>4 DEF A2dpLength
    <2>3. BytesFor(4 * h.subbands * 2) = (h.subbands * 2) \div 2
      BY <1>1 DEF BytesFor
    <2>4. bits = a2dpBits /\ bits \in Nat
      BY <1>1
    <2> QED
      <3> HIDE DEF bits, a2dpBits
      <3> QED
        BY <1>1, <2>1, <2>2, <2>3, <2>4, RoundsUp
  <1>5. CASE h.mode = "joint"
    <2> DEFINE bits == h.subbands + h.blocks * h.bitpool
               a2dpBits == h.subbands + h.blocks * h.bitpool * 1
    <2>1. FrameLength(h) = 4 + BytesFor(4 * h.subbands * 2) + BytesFor(bits)
      BY <1>5 DEF FrameLength
    <2>2. A2dpLength(h) = 4 + (h.subbands * 2) \div 2 + a2dpBits \div 8
                          + (IF a2dpBits % 8 = 0 THEN 0 ELSE 1)
      BY <1>5 DEF A2dpLength
    <2>3. BytesFor(4 * h.subbands * 2) = (h.subbands * 2) \div 2
      BY <1>1 DEF BytesFor
    <2>4. bits = a2dpBits /\ bits \in Nat
      BY <1>1
    <2> QED
      <3> HIDE DEF bits, a2dpBits
      <3> QED
        BY <1>1, <2>1, <2>2, <2>3, <2>4, RoundsUp
  <1> QED
    BY <1>1, <1>3, <1>4, <1>5

\* No frame is longer than the samples there are for it.
LEMMA FramesAreNoLonger ==
  ASSUME NEW h \in Headers
  PROVE  A2dpLength(h) \in Nat /\ 4 <= A2dpLength(h) /\ A2dpLength(h) <= LongestFrame
  <1> DEFINE product == h.blocks * h.bitpool
             samples == product * (IF h.mode = "dual" THEN 2 ELSE 1)
             join == IF h.mode = "joint" THEN h.subbands ELSE 0
             bits == join + samples
             scales == (h.subbands * (IF h.mode = "mono" THEN 1 ELSE 2)) \div 2
  <1>1. A2dpLength(h) = 4 + scales + bits \div 8 + (IF bits % 8 = 0 THEN 0 ELSE 1)
    BY DEF A2dpLength
  <1>2. product \in 0..4080
    BY DEF Headers, Byte
  <1>3. h.subbands \in {4, 8}
    BY DEF Headers
  <1>4. scales \in 2..8
    BY <1>3
  <1>5. bits \in 0..8168
    <2> HIDE DEF product
    <2>1. samples \in 0..8160
      BY <1>2
    <2>2. join \in 0..8
      BY <1>3
    <2> HIDE DEF samples, join
    <2> QED
      BY <2>1, <2>2
  <1> QED
    <2> HIDE DEF bits, scales
    <2>1. bits \in Nat /\ bits <= 8168
      BY <1>5
    <2>2. bits \div 8 \in Nat /\ bits \div 8 <= 1021
      BY <2>1
    <2> QED
      BY <1>1, <1>4, <2>2 DEF LongestFrame

\* What a frame is: a header and as many samples as the header says.
LEMMA FramesAreWellFormed ==
  ASSUME NEW b1 \in Byte, NEW b2 \in Byte, NEW s \in Samples
  PROVE  LET n == A2dpLength(DecodeHeader(b1, b2))
             f == SbcFrame(b1, b2, s)
         IN /\ n \in Nat /\ 4 <= n /\ n <= LongestFrame /\ f \in Seq(Byte) /\ Len(f) = n
            /\ f[1] = SYNC /\ f[2] = b1 /\ f[3] = b2
  <1> DEFINE n == A2dpLength(DecodeHeader(b1, b2))
             head == <<SYNC, b1, b2>>
             tail == [i \in 1..n - 3 |-> s[i]]
  <1>1. n \in Nat /\ 4 <= n /\ n <= LongestFrame
    BY HeadersAreDecoded, FramesAreNoLonger
  <1>2. head \in Seq(Byte) /\ Len(head) = 3
    BY DEF SYNC, Byte
  <1>3. tail \in Seq(Byte) /\ Len(tail) = n - 3
    <2> HIDE DEF n
    <2>1. \A i \in 1..n - 3 : s[i] \in Byte
      BY <1>1, PacketAssumption DEF LongestFrame
    <2> QED
      BY <1>1, <2>1, IsASeq
  <1>4. SbcFrame(b1, b2, s) = head \o tail
    BY DEF SbcFrame
  <1> HIDE DEF n, tail
  <1>5. /\ head \o tail \in Seq(Byte) /\ Len(head \o tail) = 3 + (n - 3)
        /\ \A i \in 1..3 : (head \o tail)[i] = head[i]
    <2>1. /\ head \o tail \in Seq(Byte) /\ Len(head \o tail) = Len(head) + Len(tail)
          /\ \A i \in 1..Len(head) + Len(tail) :
               (head \o tail)[i] = IF i <= Len(head) THEN head[i] ELSE tail[i - Len(head)]
      BY <1>2, <1>3, ConcatProperties
    <2> HIDE DEF head
    <2> QED
      BY <1>1, <1>2, <1>3, <2>1
  <1> QED
    BY <1>1, <1>4, <1>5 DEF n
-----------------------------------------------------------------------------
\* Where the i-th frame of n bytes begins behind the header byte.
Start(n, i) == n * (i - 1)

\* Each frame begins where the one before it ends, and ends where k frames do or
\* before.
LEMMA StartsAdvance ==
  ASSUME NEW n \in Nat, 4 <= n, NEW k \in Nat
  PROVE  /\ Start(n, 1) = 0 /\ Start(n, k + 1) \in Nat /\ k <= Start(n, k + 1)
         /\ Start(n, k + 2) = Start(n, k + 1) + n
         /\ \A i \in 1..k : Start(n, i) \in Nat /\ Start(n, i) + n <= Start(n, k + 1)
  <1>1. \A i \in 1..k : n * (i - 1) \in Nat /\ n * (i - 1) + n <= n * k
    <2> SUFFICES ASSUME NEW i \in 1..k PROVE n * (i - 1) \in Nat /\ n * (i - 1) + n <= n * k
      OBVIOUS
    <2>1. PICK d \in Nat : k = i + d
      BY k - i \in Nat
    <2>2. n * k = n * (i - 1) + n + n * d /\ n * d \in Nat /\ n * (i - 1) \in Nat
      BY <2>1
    <2> QED
      BY <2>2
  <1>2. n * k \in Nat /\ k <= n * k
    <2>1. PICK d \in Nat : n = 1 + d
      BY n - 1 \in Nat
    <2>2. n * k = k + d * k /\ d * k \in Nat
      BY <2>1
    <2> QED
      BY <2>2
  <1>3. n * ((k + 1) - 1) = n * k /\ n * ((k + 2) - 1) = n * k + n /\ n * (1 - 1) = 0
    OBVIOUS
  <1> QED
    BY <1>1, <1>2, <1>3 DEF Start

\* Frames of n bytes one after the other behind the header byte, with less than
\* another frame at the end.
Carries(bytes, frames, n) ==
  /\ bytes \in Seq(Byte) /\ frames \in Seq(Seq(Byte))
  /\ Start(n, Len(frames) + 1) < Len(bytes) /\ Len(bytes) <= Start(n, Len(frames) + 1) + n
  /\ \A i \in 1..Len(frames) : Len(frames[i]) = n /\ frames[i][1] = SYNC
  /\ \A i \in 1..Len(frames), j \in 1..n : bytes[1 + Start(n, i) + j] = frames[i][j]

\* The length that split_sbc_frames() takes from the header of the first frame.
LengthRead(bytes) == FrameLength(DecodeHeader(Tail(bytes)[2], Tail(bytes)[3]))

\* It gives back the frames a packet carries, if that is their length.
LEMMA SplitsExactly ==
  ASSUME NEW bytes, NEW frames, frames # <<>>,
         LengthRead(bytes) \in Nat, 4 <= LengthRead(bytes), LengthRead(bytes) <= 512,
         Carries(bytes, frames, LengthRead(bytes))
  PROVE  SplitFrames(bytes) = frames
  <1> DEFINE n == LengthRead(bytes)
             k == Len(frames)
             body == Tail(bytes)
             Whole(i) == Start(n, i) + n <= Len(body) /\ body[Start(n, i) + 1] = SYNC
  <1>0. n \in Nat /\ 4 <= n /\ n <= 512 /\ Carries(bytes, frames, n)
    BY Zenon
  <1> HIDE DEF n, k, body
  <1>1. /\ bytes \in Seq(Byte) /\ frames \in Seq(Seq(Byte)) /\ k \in Nat /\ 1 <= k
        /\ Len(bytes) \in Nat
    <2>1. bytes \in Seq(Byte) /\ frames \in Seq(Seq(Byte))
      BY <1>0 DEF Carries
    <2>2. Len(bytes) \in Nat
      BY <2>1, LenProperties
    <2>3. k \in Nat /\ 1 <= k
      BY <2>1 DEF k
    <2> QED
      BY <2>1, <2>2, <2>3
  <1>2. /\ body \in Seq(Byte) /\ Len(body) = Len(bytes) - 1 /\ Len(bytes) >= 1
        /\ \A p \in 1..Len(body) : body[p] = bytes[p + 1]
    <2>0. Start(n, k + 1) \in Nat /\ Start(n, k + 1) < Len(bytes)
      BY <1>0, <1>1, StartsAdvance DEF Carries, k
    <2>1. bytes \in Seq(Byte) /\ bytes # <<>> /\ Len(bytes) \in Nat /\ Len(bytes) >= 1
      BY <1>1, <2>0
    <2>2. body = SubSeq(bytes, 2, Len(bytes)) /\ body \in Seq(Byte) /\ Len(body) = Len(bytes) - 1
      BY <2>1, HeadTailProperties, TailIsSubSeq DEF body
    <2>3. \A p \in 2..Len(bytes) : bytes[p] \in Byte
      BY <2>1
    <2>4. \A p \in 1..Len(bytes) - 2 + 1 : SubSeq(bytes, 2, Len(bytes))[p] = bytes[2 + p - 1]
      BY <2>1, <2>3, SubSeqProperties
    <2>5. \A p \in 1..Len(body) : p \in 1..Len(bytes) - 2 + 1 /\ 2 + p - 1 = p + 1
      BY <2>1, <2>2
    <2>6. \A p \in 1..Len(body) : body[p] = bytes[p + 1]
      BY <2>2, <2>4, <2>5, Zenon
    <2> QED
      BY <2>1, <2>2, <2>6, Zenon
  <1>3. /\ Start(n, 1) = 0 /\ Start(n, k + 1) \in Nat /\ k <= Start(n, k + 1)
        /\ \A i \in 1..k : Start(n, i) \in Nat /\ Start(n, i) + n <= Start(n, k + 1)
    BY <1>0, <1>1, StartsAdvance
  <1>4. Start(n, k + 1) <= Len(body) /\ Len(body) < Start(n, k + 1) + n
    <2>1. Start(n, k + 1) < Len(bytes) /\ Len(bytes) <= Start(n, k + 1) + n
      BY <1>0 DEF Carries, k
    <2> QED
      BY <1>0, <1>1, <1>2, <1>3, <2>1
  <1>5. \A i \in 1..k : Start(n, i) + n <= Len(body)
    BY <1>0, <1>1, <1>2, <1>3, <1>4
  <1>6. \A i \in 1..k, j \in 1..n : body[Start(n, i) + j] = frames[i][j]
    <2> SUFFICES ASSUME NEW i \in 1..k, NEW j \in 1..n
                 PROVE  body[Start(n, i) + j] = frames[i][j]
      OBVIOUS
    <2>1. Start(n, i) + j \in 1..Len(body)
      BY <1>0, <1>2, <1>3, <1>5
    <2>2. bytes[1 + Start(n, i) + j] = frames[i][j]
      BY <1>0 DEF Carries, k
    <2>3. 1 + Start(n, i) + j = (Start(n, i) + j) + 1
      BY <1>3
    <2> QED
      BY <1>2, <2>1, <2>2, <2>3
  <1>7. \A i \in 1..k : body[Start(n, i) + 1] = SYNC
    <2> SUFFICES ASSUME NEW i \in 1..k PROVE body[Start(n, i) + 1] = SYNC
      OBVIOUS
    <2>1. frames[i][1] = SYNC
      BY <1>0 DEF Carries, k
    <2>2. 1 \in 1..n
      BY <1>0
    <2> QED
      BY <1>6, <2>1, <2>2
  <1>8. (\A i \in 1..k : Whole(i)) /\ ~Whole(k + 1)
    <2>1. \A i \in 1..k : Whole(i)
      BY <1>5, <1>7
    <2>2. ~(Start(n, k + 1) + n <= Len(body))
      BY <1>0, <1>2, <1>3, <1>4
    <2> QED
      BY <2>1, <2>2
  <1> DEFINE Count(c) == ~Whole(c + 1) /\ \A i \in 1..c : Whole(i)
  <1>9. (CHOOSE c \in 0..Len(body) : Count(c)) = k
    <2>1. k \in 0..Len(body)
      BY <1>1, <1>2, <1>3, <1>4
    <2>2. Count(k)
      BY <1>8
    <2>3. \A c \in 0..Len(body) : Count(c) => c = k
      <3> SUFFICES ASSUME NEW c \in 0..Len(body), Count(c) PROVE c = k
        OBVIOUS
      <3> HIDE DEF Whole
      <3>1. ~(c < k)
        BY <1>1, <1>8
      <3>2. ~(k < c)
        BY <1>1, <1>8
      <3> QED
        BY <1>1, <3>1, <3>2
    <2> HIDE DEF Count
    <2> QED
      BY <2>1, <2>2, <2>3
  <1>10. body[1] = SYNC /\ ~(Len(body) < 4) /\ ~(n > 512) /\ bytes # <<>>
    <2>1. 1 \in 1..k
      BY <1>1
    <2>2. body[0 + 1] = SYNC /\ 0 + n <= Len(body)
      BY <1>3, <1>5, <1>7, <2>1
    <2>3. ~(Len(body) < 4) /\ ~(n > 512)
      BY <1>0, <1>2, <2>2
    <2>4. bytes # <<>>
      BY <1>1, <1>2
    <2> QED
      BY <2>2, <2>3, <2>4
  <1>11. SplitFrames(bytes) = [i \in 1..k |-> SubSeq(body, Start(n, i) + 1, Start(n, i) + n)]
    BY <1>9, <1>10, Zenon DEF SplitFrames, Start, LengthRead, n, body
  <1>12. \A i \in 1..k : SubSeq(body, Start(n, i) + 1, Start(n, i) + n) = frames[i]
    <2> SUFFICES ASSUME NEW i \in 1..k
                 PROVE  SubSeq(body, Start(n, i) + 1, Start(n, i) + n) = frames[i]
      OBVIOUS
    <2> DEFINE a == Start(n, i) + 1
               b == Start(n, i) + n
               cut == SubSeq(body, a, b)
    <2>0. Start(n, i) \in Nat /\ Start(n, i) + n <= Len(body)
      BY <1>3, <1>5, Zenon
    <2>1. a \in Int /\ b \in Int /\ b - a + 1 = n /\ a <= b /\ 1 <= a /\ b <= Len(body)
      BY <1>0, <2>0
    <2>2. \A j \in 1..n : a + j - 1 = Start(n, i) + j
      BY <1>0, <1>3
    <2> HIDE DEF a, b
    <2>3. \A p \in a..b : body[p] \in Byte
      BY <1>1, <1>2, <2>1
    <2>4. cut \in Seq(Byte) /\ Len(cut) = n /\ \A j \in 1..n : cut[j] = body[a + j - 1]
      <3>1. /\ cut \in Seq(Byte) /\ Len(cut) = (IF a <= b THEN b - a + 1 ELSE 0)
            /\ \A j \in 1..b - a + 1 : cut[j] = body[a + j - 1]
        BY <2>1, <2>3, SubSeqProperties
      <3> HIDE DEF cut
      <3> QED
        BY <2>1, <3>1
    <2> HIDE DEF cut
    <2>5. \A j \in 1..n : cut[j] = frames[i][j]
      BY <1>6, <2>2, <2>4
    <2>6. frames[i] \in Seq(Byte) /\ Len(frames[i]) = n
      BY <1>0, <1>1 DEF Carries, k
    <2>7. cut = frames[i]
      BY <2>4, <2>5, <2>6, SeqEqual
    <2> QED
      BY <2>7 DEF cut, a, b
  <1>13. frames = [i \in 1..k |-> frames[i]]
    BY <1>1 DEF k
  <1> QED
    BY <1>11, <1>12, <1>13
-----------------------------------------------------------------------------
\* A packet carries the frames put into it, all of one configuration.
HeaderOf(f) == DecodeHeader(f[2], f[3])

PacketInv ==
  IF packet = <<>> THEN sent = <<>> /\ complete = FALSE
  ELSE /\ sent # <<>> /\ sent[1][2] \in Byte /\ sent[1][3] \in Byte
       /\ Len(sent[1]) = A2dpLength(HeaderOf(sent[1]))
       /\ Carries(packet, sent, Len(sent[1]))
       /\ ~complete => Len(packet) = 1 + Start(Len(sent[1]), Len(sent) + 1)

\* The first frame, after the header byte.
LEMMA FirstFrameIsCarried ==
  ASSUME PacketInv, NEW b1 \in Byte, NEW b2 \in BitPools, NEW s \in Samples, FirstFrame(b1, b2, s)
  PROVE  PacketInv'
  <1> DEFINE f == SbcFrame(b1, b2, s)
             n == A2dpLength(DecodeHeader(b1, b2))
  <1>1. /\ n \in Nat /\ 4 <= n /\ f \in Seq(Byte) /\ Len(f) = n
        /\ f[1] = SYNC /\ f[2] = b1 /\ f[3] = b2 /\ b2 \in Byte
    <2>1. b2 \in Byte
      BY PacketAssumption
    <2> QED
      BY <2>1, FramesAreWellFormed
  <1>2. packet' = <<0>> \o f /\ sent' = <<f>> /\ complete' = FALSE /\ packet = <<>>
    BY DEF FirstFrame, PacketInv
  <1> HIDE DEF f, n
  <1>3. /\ packet' \in Seq(Byte) /\ Len(packet') = 1 + n
        /\ \A j \in 1..n : packet'[1 + j] = f[j]
    <2>1. <<0>> \in Seq(Byte) /\ Len(<<0>>) = 1
      BY DEF Byte
    <2>2. /\ <<0>> \o f \in Seq(Byte) /\ Len(<<0>> \o f) = 1 + n
          /\ \A p \in 1..1 + n : (<<0>> \o f)[p] = IF p <= 1 THEN <<0>>[p] ELSE f[p - 1]
      BY <1>1, <2>1, ConcatProperties
    <2>3. \A j \in 1..n : 1 + j \in 1..1 + n /\ ~(1 + j <= 1) /\ (1 + j) - 1 = j
      BY <1>1
    <2> QED
      BY <1>2, <2>2, <2>3
  <1>4. sent' \in Seq(Seq(Byte)) /\ Len(sent') = 1 /\ sent'[1] = f /\ sent' # <<>>
    BY <1>1, <1>2
  <1>5. Start(n, 1) = 0 /\ Start(n, 1 + 1) = n
    BY <1>1 DEF Start
  <1>6. Carries(packet', sent', n)
    <2>1. \A i \in 1..Len(sent') : i = 1
      BY <1>4
    <2>2. \A j \in 1..n : 1 + Start(n, 1) + j = 1 + j
      BY <1>1, <1>5
    <2>3. Start(n, Len(sent') + 1) < Len(packet') /\ Len(packet') <= Start(n, Len(sent') + 1) + n
      BY <1>1, <1>3, <1>4, <1>5
    <2>4. \A i \in 1..Len(sent') : Len(sent'[i]) = n /\ sent'[i][1] = SYNC
      BY <1>1, <1>4, <2>1
    <2>5. \A i \in 1..Len(sent'), j \in 1..n : packet'[1 + Start(n, i) + j] = sent'[i][j]
      BY <1>3, <1>4, <2>1, <2>2
    <2> QED
      BY <1>3, <1>4, <2>3, <2>4, <2>5 DEF Carries
  <1>7. /\ Len(sent'[1]) = n /\ A2dpLength(HeaderOf(sent'[1])) = n
        /\ sent'[1][2] \in Byte /\ sent'[1][3] \in Byte
    BY <1>1, <1>4 DEF HeaderOf, n
  <1>8. packet' # <<>> /\ Len(packet') = 1 + Start(n, Len(sent') + 1)
    BY <1>1, <1>3, <1>4, <1>5
  <1> QED
    BY <1>4, <1>6, <1>7, <1>8, Zenon DEF PacketInv

\* A step that adds bytes at the end leaves the frames before them in place.
LEMMA BytesStay ==
  ASSUME NEW bytes, NEW frames, NEW n \in Nat, 4 <= n, Carries(bytes, frames, n),
         NEW more \in Seq(Byte)
  PROVE  /\ bytes \o more \in Seq(Byte) /\ Len(bytes \o more) = Len(bytes) + Len(more)
         /\ \A i \in 1..Len(frames), j \in 1..n :
              (bytes \o more)[1 + Start(n, i) + j] = frames[i][j]
         /\ \A j \in 1..Len(more) : (bytes \o more)[Len(bytes) + j] = more[j]
  <1> DEFINE k == Len(frames)
             all == bytes \o more
  <1>1. /\ bytes \in Seq(Byte) /\ Len(bytes) \in Nat /\ Len(more) \in Nat
        /\ k \in Nat /\ Start(n, k + 1) < Len(bytes)
    <2>1. bytes \in Seq(Byte) /\ frames \in Seq(Seq(Byte)) /\ Start(n, k + 1) < Len(bytes)
      BY DEF Carries
    <2> QED
      BY <2>1, LenProperties
  <1>2. /\ all \in Seq(Byte) /\ Len(all) = Len(bytes) + Len(more)
        /\ \A p \in 1..Len(bytes) + Len(more) :
             all[p] = IF p <= Len(bytes) THEN bytes[p] ELSE more[p - Len(bytes)]
    BY <1>1, ConcatProperties
  <1> HIDE DEF all
  <1>3. \A i \in 1..k, j \in 1..n : all[1 + Start(n, i) + j] = frames[i][j]
    <2> SUFFICES ASSUME NEW i \in 1..k, NEW j \in 1..n
                 PROVE  all[1 + Start(n, i) + j] = frames[i][j]
      OBVIOUS
    <2> DEFINE p == 1 + Start(n, i) + j
    <2>1. bytes[p] = frames[i][j]
      BY DEF Carries
    <2> HIDE DEF k
    <2>2. Start(n, i) \in Nat /\ Start(n, i) + n <= Start(n, k + 1) /\ Start(n, k + 1) \in Nat
      BY <1>1, StartsAdvance
    <2>3. p \in 1..Len(bytes)
      BY <1>1, <2>2
    <2> HIDE DEF p
    <2>4. all[p] = bytes[p]
      BY <1>1, <1>2, <2>3
    <2> QED
      BY <2>1, <2>4, Zenon DEF p
  <1>4. \A j \in 1..Len(more) : all[Len(bytes) + j] = more[j]
    BY <1>1, <1>2
  <1> QED
    BY <1>2, <1>3, <1>4 DEF all

\* Another frame of the same configuration.
LEMMA NextFrameIsCarried ==
  ASSUME PacketInv, NEW s \in Samples, NextFrame(s)
  PROVE  PacketInv'
  <1> DEFINE b1 == sent[1][2]
             b2 == sent[1][3]
             f == SbcFrame(b1, b2, s)
             n == Len(sent[1])
             k == Len(sent)
  <1>0. packet # <<>> /\ ~complete
    BY DEF NextFrame
  <1>1. /\ sent # <<>> /\ b1 \in Byte /\ b2 \in Byte /\ n = A2dpLength(DecodeHeader(b1, b2))
        /\ Carries(packet, sent, n) /\ Len(packet) = 1 + Start(n, k + 1)
    BY <1>0 DEF PacketInv, HeaderOf
  <1>2. packet' = packet \o f /\ sent' = Append(sent, f) /\ complete' = complete
    BY DEF NextFrame
  <1>3. sent \in Seq(Seq(Byte)) /\ k \in Nat /\ 1 <= k
    <2>1. sent \in Seq(Seq(Byte))
      BY <1>1 DEF Carries
    <2> QED
      BY <1>1, <2>1
  <1> HIDE DEF b1, b2, f, n, k
  <1>4. n \in Nat /\ 4 <= n /\ f \in Seq(Byte) /\ Len(f) = n /\ f[1] = SYNC
    <2>1. /\ A2dpLength(DecodeHeader(b1, b2)) \in Nat /\ 4 <= A2dpLength(DecodeHeader(b1, b2))
          /\ f \in Seq(Byte) /\ Len(f) = A2dpLength(DecodeHeader(b1, b2)) /\ f[1] = SYNC
      BY <1>1, FramesAreWellFormed DEF f
    <2> QED
      BY <1>1, <2>1, Zenon
  <1>5. /\ sent' \in Seq(Seq(Byte)) /\ Len(sent') = k + 1 /\ sent' # <<>>
        /\ sent'[k + 1] = f /\ \A i \in 1..k : sent'[i] = sent[i]
    BY <1>2, <1>3, <1>4, AppendProperties DEF k
  <1>6. sent'[1] = sent[1]
    BY <1>3, <1>5
  <1>7. /\ Start(n, k + 1) \in Nat /\ Start(n, (k + 1) + 1) = Start(n, k + 1) + n
    <2>1. Start(n, k + 1) \in Nat /\ Start(n, k + 2) = Start(n, k + 1) + n
      BY <1>3, <1>4, StartsAdvance
    <2>2. (k + 1) + 1 = k + 2
      BY <1>3
    <2> QED
      BY <2>1, <2>2, Zenon
  <1>8. /\ packet' \in Seq(Byte) /\ Len(packet') = Len(packet) + n
        /\ \A i \in 1..k, j \in 1..n : packet'[1 + Start(n, i) + j] = sent[i][j]
        /\ \A j \in 1..n : packet'[Len(packet) + j] = f[j]
    <2>1. /\ packet \o f \in Seq(Byte) /\ Len(packet \o f) = Len(packet) + Len(f)
          /\ \A i \in 1..k, j \in 1..n : (packet \o f)[1 + Start(n, i) + j] = sent[i][j]
          /\ \A j \in 1..Len(f) : (packet \o f)[Len(packet) + j] = f[j]
      BY <1>1, <1>4, BytesStay DEF k
    <2> QED
      BY <1>2, <1>4, <2>1
  <1>9. \A i \in 1..k + 1 : Len(sent'[i]) = n /\ sent'[i][1] = SYNC
    <2>1. \A i \in 1..k : Len(sent[i]) = n /\ sent[i][1] = SYNC
      BY <1>1 DEF Carries, k
    <2> SUFFICES ASSUME NEW i \in 1..k + 1 PROVE Len(sent'[i]) = n /\ sent'[i][1] = SYNC
      OBVIOUS
    <2>2. i \in 1..k \/ i = k + 1
      BY <1>3
    <2> QED
      BY <1>4, <1>5, <2>1, <2>2, Zenon
  <1>10. \A i \in 1..k + 1, j \in 1..n : packet'[1 + Start(n, i) + j] = sent'[i][j]
    <2> SUFFICES ASSUME NEW i \in 1..k + 1, NEW j \in 1..n
                 PROVE  packet'[1 + Start(n, i) + j] = sent'[i][j]
      OBVIOUS
    <2>1. CASE i \in 1..k
      BY <1>5, <1>8, <2>1, Zenon
    <2>2. CASE i = k + 1
      BY <1>1, <1>5, <1>8, <2>2, Zenon
    <2>3. i \in 1..k \/ i = k + 1
      BY <1>3
    <2> QED
      BY <2>1, <2>2, <2>3
  <1>11. Len(packet') = 1 + Start(n, Len(sent') + 1) /\ packet' # <<>>
    <2>1. Len(packet') = 1 + Start(n, (k + 1) + 1)
      BY <1>1, <1>4, <1>7, <1>8
    <2>2. packet' # <<>>
      BY <1>4, <1>7, <2>1
    <2> QED
      BY <1>5, <2>1, <2>2, Zenon
  <1>12. Carries(packet', sent', n)
    <2>1. Start(n, Len(sent') + 1) \in Nat
      BY <1>4, <1>5, <1>7
    <2>2. /\ Start(n, Len(sent') + 1) < Len(packet')
          /\ Len(packet') <= Start(n, Len(sent') + 1) + n
      BY <1>4, <1>11, <2>1
    <2> QED
      BY <1>5, <1>8, <1>9, <1>10, <2>2, Zenon DEF Carries
  <1>13. Len(sent'[1]) = n /\ HeaderOf(sent'[1]) = DecodeHeader(b1, b2)
    BY <1>6 DEF HeaderOf, n, b1, b2
  <1>14. sent'[1][2] = b1 /\ sent'[1][3] = b2
    BY <1>6 DEF b1, b2
  <1> QED
    BY <1>1, <1>5, <1>11, <1>12, <1>13, <1>14, Zenon DEF PacketInv

\* Bytes that are no whole frame do not count as one.
LEMMA RemainderIsCarried ==
  ASSUME PacketInv, NEW r \in Rests, NEW s \in Samples, Remainder(r, s)
  PROVE  PacketInv'
  <1> DEFINE n == Len(sent[1])
             k == Len(sent)
             rest == [i \in 1..r |-> s[i]]
  <1>1. /\ packet # <<>> /\ ~complete /\ complete' = TRUE /\ sent' = sent
        /\ packet' = packet \o rest /\ r < n
    BY DEF Remainder
  <1>2. /\ sent # <<>> /\ sent[1][2] \in Byte /\ sent[1][3] \in Byte
        /\ n = A2dpLength(HeaderOf(sent[1]))
        /\ Carries(packet, sent, n) /\ Len(packet) = 1 + Start(n, k + 1)
    BY <1>1 DEF PacketInv
  <1>3. HeaderOf(sent[1]) \in Headers
    BY <1>2, HeadersAreDecoded DEF HeaderOf
  <1>4. sent \in Seq(Seq(Byte)) /\ k \in Nat
    <2>1. sent \in Seq(Seq(Byte))
      BY <1>2 DEF Carries
    <2> QED
      BY <2>1
  <1> HIDE DEF n, k
  <1>5. n \in Nat /\ 4 <= n /\ n <= LongestFrame /\ r \in Nat /\ r < n
    <2>1. n \in Nat /\ 4 <= n /\ n <= LongestFrame
      BY <1>2, <1>3, FramesAreNoLonger, Zenon
    <2> QED
      BY <1>1, <2>1, PacketAssumption, Zenon
  <1>6. rest \in Seq(Byte) /\ Len(rest) = r
    <2>1. \A i \in 1..r : s[i] \in Byte
      BY <1>5, PacketAssumption DEF LongestFrame
    <2> QED
      BY <1>5, <2>1, IsASeq
  <1> HIDE DEF rest
  <1>7. /\ packet' \in Seq(Byte) /\ Len(packet') = Len(packet) + r
        /\ \A i \in 1..k, j \in 1..n : packet'[1 + Start(n, i) + j] = sent[i][j]
    <2>1. /\ packet \o rest \in Seq(Byte) /\ Len(packet \o rest) = Len(packet) + Len(rest)
          /\ \A i \in 1..k, j \in 1..n : (packet \o rest)[1 + Start(n, i) + j] = sent[i][j]
          /\ \A j \in 1..Len(rest) : (packet \o rest)[Len(packet) + j] = rest[j]
      <3>1. n \in Nat /\ 4 <= n /\ rest \in Seq(Byte) /\ Len(rest) = r
        BY <1>5, <1>6, Zenon
      <3>2. Carries(packet, sent, n)
        BY <1>2, Zenon
      <3> QED
        BY <3>1, <3>2, BytesStay DEF k
    <2> QED
      BY <1>1, <1>6, <2>1
  <1>8. Start(n, k + 1) \in Nat
    BY <1>4, <1>5, StartsAdvance
  <1>9. /\ Start(n, k + 1) < Len(packet') /\ Len(packet') <= Start(n, k + 1) + n
        /\ packet' # <<>>
    BY <1>2, <1>5, <1>7, <1>8
  <1>10. Carries(packet', sent', n)
    <2>1. \A i \in 1..k : Len(sent[i]) = n /\ sent[i][1] = SYNC
      BY <1>2 DEF Carries, k
    <2> QED
      BY <1>1, <1>4, <1>7, <1>9, <2>1, Zenon DEF Carries, k
  <1> QED
    BY <1>1, <1>2, <1>9, <1>10, Zenon DEF PacketInv, n

\* Whatever is put into a packet, it carries the frames.
THEOREM PacketsCarryFrames == PacketSpec => []PacketInv
  <1>1. PacketInit => PacketInv
    BY DEF PacketInit, PacketInv
  <1>2. PacketInv /\ [PacketNext]_packetVars => PacketInv'
    <2> SUFFICES ASSUME PacketInv, [PacketNext]_packetVars PROVE PacketInv'
      OBVIOUS
    <2>1. CASE \E s \in Samples, b1 \in Byte, b2 \in BitPools : FirstFrame(b1, b2, s)
      BY <2>1, FirstFrameIsCarried
    <2>2. CASE \E s \in Samples : NextFrame(s)
      BY <2>2, NextFrameIsCarried
    <2>3. CASE \E s \in Samples, r \in Rests : Remainder(r, s)
      BY <2>3, RemainderIsCarried
    <2>4. CASE UNCHANGED packetVars
      BY <2>4 DEF packetVars, PacketInv, Carries
    <2> QED
      BY <2>1, <2>2, <2>3, <2>4 DEF PacketNext
  <1> QED
    BY <1>1, <1>2, PTL DEF PacketSpec

\* Packets of any number of frames, with any samples and any rest, come apart into
\* their frames, but in mode "stereo" and beyond 512 bytes.
THEOREM PacketsComeApart == PacketSpec => []PacketsAreSplitExactly
  <1>1. PacketInv => PacketsAreSplitExactly
    <2> SUFFICES ASSUME PacketInv, packet # <<>>, Len(sent[1]) <= 512,
                        DecodeHeader(sent[1][2], sent[1][3]).mode # "stereo"
                 PROVE  SplitFrames(packet) = sent
      BY DEF PacketsAreSplitExactly
    <2> DEFINE n == Len(sent[1])
               b1 == sent[1][2]
               b2 == sent[1][3]
    <2>1. /\ sent # <<>> /\ b1 \in Byte /\ b2 \in Byte /\ n = A2dpLength(DecodeHeader(b1, b2))
          /\ Carries(packet, sent, n)
      BY DEF PacketInv, HeaderOf
    <2>2. DecodeHeader(b1, b2) \in Headers
      BY <2>1, HeadersAreDecoded
    <2>3. FrameLength(DecodeHeader(b1, b2)) = n
      BY <2>1, <2>2, FrameLengthIsA2dp
    <2>4. n \in Nat /\ 4 <= n /\ n <= 512
      BY <2>1, <2>2, FramesAreNoLonger, Zenon
    <2>5. Tail(packet)[2] = b1 /\ Tail(packet)[3] = b2
      <3>1. \A j \in 1..n : packet[1 + Start(n, 1) + j] = sent[1][j]
        <4>1. 1 \in 1..Len(sent)
          <5>1. sent \in Seq(Seq(Byte))
            BY <2>1 DEF Carries
          <5> QED
            BY <2>1, <5>1
        <4> HIDE DEF n
        <4> QED
          BY <2>1, <4>1, Zenon DEF Carries
      <3> HIDE DEF n
      <3>2. 1 + Start(n, 1) + 2 = 3 /\ 1 + Start(n, 1) + 3 = 4 /\ 2 \in 1..n /\ 3 \in 1..n
        BY <2>4 DEF Start
      <3>3. packet[3] = b1 /\ packet[4] = b2
        BY <3>1, <3>2
      <3>4. packet \in Seq(Byte) /\ Len(packet) \in Nat /\ Start(n, Len(sent) + 1) < Len(packet)
        BY <2>1 DEF Carries
      <3>5. Len(packet) >= 4
        <4>1. Len(sent) \in Nat
          BY <2>1 DEF Carries
        <4>2. 1 <= Len(sent)
          BY <2>1 DEF Carries
        <4>3. /\ Start(n, 1) = 0 /\ Start(n, Len(sent) + 1) \in Nat
              /\ \A i \in 1..Len(sent) : Start(n, i) + n <= Start(n, Len(sent) + 1)
          BY <2>4, <4>1, StartsAdvance
        <4>4. Start(n, 1) + n <= Start(n, Len(sent) + 1)
          BY <4>1, <4>2, <4>3
        <4> QED
          BY <2>4, <3>4, <4>3, <4>4
      <3> QED
        BY <3>3, <3>4, <3>5
    <2>6. LengthRead(packet) = n
      BY <2>3, <2>5, Zenon DEF LengthRead
    <2> HIDE DEF n
    <2> QED
      BY <2>1, <2>4, <2>6, SplitsExactly, Zenon
  <1> QED
    BY <1>1, PacketsCarryFrames, PTL
=============================================================================

---------------------------- MODULE FramingProofs ----------------------------
(***************************************************************************)
(* Proofs about Framing: for every byte alphabet, every packet and any     *)
(* number of them, the Deframer returns the packets that were sent.        *)
(***************************************************************************)
EXTENDS Framing, SequenceTheorems, TLAPS

\* The two ways a sequence of this module comes about.
LEMMA SeqFacts ==
  ASSUME NEW S
  PROVE  /\ <<>> \in Seq(S)
         /\ \A s \in Seq(S), e \in S : Append(s, e) \in Seq(S) /\ Append(s, e) # <<>>
         /\ \A e \in S : <<e>> \in Seq(S) /\ <<e>> # <<>> /\ <<e>> = Append(<<>>, e)
<1>1. \A s \in Seq(S), e \in S : Append(s, e) \in Seq(S) /\ Append(s, e) # <<>>
  BY AppendProperties
<1>2. <<>> \in Seq(S)
  OBVIOUS
<1>3. \A e : <<e>> = Append(<<>>, e)
  OBVIOUS
<1> QED BY <1>1, <1>2, <1>3

\* The sender's side: what it may be in the middle of.
SenderOK ==
  /\ phase = "escaped" => next \in {FLAG, ESCAPE}
  /\ seen /\ phase = "command" => payload = <<>>
  /\ seen /\ phase \in {"body", "escaped"} => payload # <<>>

\* The Deframer holds nothing between packets, and nothing at all of a packet
\* whose beginning it missed.
BetweenPackets ==
  /\ phase = "flag" => buf = <<>>
  /\ ~seen /\ phase # "flag" => ~inFrame

IInv == /\ TypeOK /\ SenderOK /\ BetweenPackets
        /\ EveryPacketArrivesIntact /\ BufferIsThePacket

\* A Deframer stays a Deframer, whatever byte it is given.
LEMMA ReceiveType ==
  ASSUME TypeOK, NEW b \in Byte, Receive(b)
  PROVE  /\ buf' \in Seq(Byte) /\ inFrame' \in BOOLEAN /\ escaped' \in BOOLEAN
         /\ out' \in Seq(Seq(Byte))
<1> USE DEF TypeOK
<1>1. CASE b = FLAG
  <2>1. /\ out' = out \/ out' = Append(out, buf)
        /\ buf' = <<>> /\ inFrame' = TRUE /\ escaped' = FALSE
    BY <1>1, Zenon DEF Receive
  <2>2. buf' \in Seq(Byte)
    BY <2>1, SeqFacts
  <2>3. out' \in Seq(Seq(Byte))
    BY <2>1, SeqFacts
  <2> QED BY <2>1, <2>2, <2>3, Zenon
<1>2. CASE b # FLAG
  <2>1. /\ buf' = buf \/ buf' = Append(buf, b) \/ buf' = Append(buf, Xor[b])
        /\ inFrame' = inFrame /\ out' = out
        /\ escaped' = escaped \/ escaped' = TRUE \/ escaped' = FALSE
    BY <1>2, Zenon DEF Receive, deframerVars
  <2>2. Xor[b] \in Byte
    BY FramingAssumption
  <2>3. buf' \in Seq(Byte)
    BY <2>1, <2>2, SeqFacts
  <2> QED BY <2>1, <2>3, Zenon
<1> QED BY <1>1, <1>2

\* A flag ends the frame, if there is one and it is not empty, and begins another.
LEMMA ReceiveFlag ==
  ASSUME Receive(FLAG)
  PROVE  /\ out' = IF inFrame /\ buf # <<>> THEN Append(out, buf) ELSE out
         /\ buf' = <<>> /\ inFrame' = TRUE /\ escaped' = FALSE
BY DEF Receive

\* Outside a frame every other byte is skipped.
LEMMA ReceiveOutside ==
  ASSUME NEW b, b # FLAG, ~inFrame, Receive(b)
  PROVE  UNCHANGED deframerVars
BY DEF Receive

THEOREM InitIInv == Init => IInv
BY FramingAssumption, SeqFacts
   DEF Init, IInv, TypeOK, Phases, SenderOK, BetweenPackets, EveryPacketArrivesIntact,
       BufferIsThePacket

\* A byte that is sent as it is.
LEMMA PlainStep ==
  ASSUME IInv, NEW b \in Byte \ {FLAG, ESCAPE},
         phase \in {"command", "body"}, phase' = "body",
         payload' = IF phase = "command" THEN <<b>> ELSE Append(payload, b),
         Receive(b), UNCHANGED <<next, seen, log>>
  PROVE  IInv'
<1> USE FramingAssumption
<1>1. TypeOK'
  BY ReceiveType, SeqFacts DEF IInv, TypeOK, Phases
<1>2. payload' # <<>>
  BY SeqFacts DEF IInv, TypeOK
<1>3. CASE seen
  <2>1. inFrame /\ buf = payload /\ ~escaped
    BY <1>3 DEF IInv, BufferIsThePacket
  <2>2. buf' = Append(buf, b) /\ UNCHANGED <<inFrame, escaped, out>>
    BY <2>1, Zenon DEF Receive
  <2>3. phase = "command" => buf = <<>>
    BY <1>3, <2>1 DEF IInv, SenderOK
  <2>4. buf' = payload'
    BY <2>1, <2>2, <2>3, SeqFacts
  <2> QED
    BY <1>1, <1>2, <1>3, <2>1, <2>2, <2>4
    DEF IInv, SenderOK, BetweenPackets, EveryPacketArrivesIntact, BufferIsThePacket
<1>4. CASE ~seen
  <2>1. ~inFrame /\ UNCHANGED deframerVars
    BY <1>4, ReceiveOutside DEF IInv, BetweenPackets
  <2> QED
    BY <1>1, <1>4, <2>1
    DEF IInv, SenderOK, BetweenPackets, EveryPacketArrivesIntact, BufferIsThePacket,
        deframerVars
<1> QED BY <1>3, <1>4 DEF IInv, TypeOK

\* The escape before a byte that cannot be sent as it is.
LEMMA EscapeStep ==
  ASSUME IInv, NEW b \in Byte, EscapeByte(b)
  PROVE  IInv'
<1> USE FramingAssumption
<1>1. TypeOK'
  BY ReceiveType, SeqFacts DEF IInv, TypeOK, Phases, EscapeByte
<1>2. CASE seen
  <2>1. inFrame /\ buf = payload /\ ~escaped
    BY <1>2 DEF IInv, BufferIsThePacket, EscapeByte
  <2>2. escaped' = TRUE /\ UNCHANGED <<buf, inFrame, out>>
    BY <2>1 DEF Receive, EscapeByte
  <2> QED
    BY <1>1, <1>2, <2>1, <2>2
    DEF IInv, SenderOK, BetweenPackets, EveryPacketArrivesIntact, BufferIsThePacket,
        EscapeByte
<1>3. CASE ~seen
  <2>1. ~inFrame /\ UNCHANGED deframerVars
    BY <1>3, ReceiveOutside DEF IInv, BetweenPackets, EscapeByte
  <2> QED
    BY <1>1, <1>3, <2>1
    DEF IInv, SenderOK, BetweenPackets, EveryPacketArrivesIntact, BufferIsThePacket,
        deframerVars, EscapeByte
<1> QED BY <1>2, <1>3 DEF IInv, TypeOK

\* The escaped byte: its XOR is no flag, and undoing it gives the byte back.
LEMMA EscapedStep ==
  ASSUME IInv, EscapedByte
  PROVE  IInv'
<1> USE FramingAssumption
<1>1. next \in {FLAG, ESCAPE} /\ Xor[next] \in Byte /\ Xor[next] # FLAG
  BY DEF IInv, SenderOK, EscapedByte
<1>2. Xor[Xor[next]] = next
  BY <1>1
<1>3. TypeOK'
  BY <1>1, ReceiveType, SeqFacts DEF IInv, TypeOK, Phases, EscapedByte
<1>4. payload' # <<>>
  BY SeqFacts DEF IInv, TypeOK, EscapedByte
<1>5. CASE seen
  <2>1. inFrame /\ buf = payload /\ escaped
    BY <1>5 DEF IInv, BufferIsThePacket, EscapedByte
  <2>2. buf' = Append(buf, next) /\ ~escaped' /\ UNCHANGED <<inFrame, out>>
    BY <1>1, <1>2, <2>1 DEF Receive, EscapedByte
  <2> QED
    BY <1>3, <1>4, <1>5, <2>1, <2>2
    DEF IInv, SenderOK, BetweenPackets, EveryPacketArrivesIntact, BufferIsThePacket,
        EscapedByte
<1>6. CASE ~seen
  <2>1. ~inFrame /\ UNCHANGED deframerVars
    BY <1>1, <1>6, ReceiveOutside DEF IInv, BetweenPackets, EscapedByte
  <2> QED
    BY <1>3, <1>6, <2>1
    DEF IInv, SenderOK, BetweenPackets, EveryPacketArrivesIntact, BufferIsThePacket,
        deframerVars, EscapedByte
<1> QED BY <1>5, <1>6 DEF IInv, TypeOK

THEOREM StepIInv == IInv /\ [Next]_vars => IInv'
<1> USE FramingAssumption
<1> SUFFICES ASSUME IInv, [Next]_vars PROVE IInv'
  OBVIOUS
<1>1. CASE OpeningFlag
  <2>1. TypeOK'
    BY <1>1, ReceiveType, SeqFacts DEF IInv, TypeOK, Phases, OpeningFlag
  <2>2. /\ UNCHANGED out
        /\ buf' = <<>> /\ inFrame' = TRUE /\ escaped' = FALSE
    BY <1>1, ReceiveFlag DEF IInv, BetweenPackets, OpeningFlag
  <2> QED
    BY <1>1, <2>1, <2>2
    DEF IInv, SenderOK, BetweenPackets, EveryPacketArrivesIntact, BufferIsThePacket,
        OpeningFlag
<1>2. ASSUME NEW c \in Commands, CommandByte(c) PROVE IInv'
  BY <1>2, PlainStep DEF CommandByte
<1>3. ASSUME NEW b \in Byte, PlainByte(b) PROVE IInv'
  BY <1>3, PlainStep DEF PlainByte
<1>4. ASSUME NEW b \in Byte, EscapeByte(b) PROVE IInv'
  BY <1>4, EscapeStep
<1>5. CASE EscapedByte
  BY <1>5, EscapedStep
<1>6. CASE ClosingFlag
  <2>1. TypeOK'
    BY <1>6, ReceiveType DEF IInv, TypeOK, Phases, ClosingFlag
  <2>2. /\ out' = IF inFrame /\ buf # <<>> THEN Append(out, buf) ELSE out
        /\ buf' = <<>> /\ inFrame' = TRUE /\ escaped' = FALSE
    BY <1>6, ReceiveFlag DEF ClosingFlag
  <2>3. IF seen THEN inFrame /\ buf = payload /\ payload # <<>> ELSE ~inFrame
    BY <1>6 DEF IInv, SenderOK, BetweenPackets, BufferIsThePacket, ClosingFlag
  <2>4. out' = log'
    BY <1>6, <2>2, <2>3 DEF IInv, EveryPacketArrivesIntact, ClosingFlag
  <2> QED
    BY <1>6, <2>1, <2>2, <2>4
    DEF IInv, SenderOK, BetweenPackets, EveryPacketArrivesIntact, BufferIsThePacket,
        ClosingFlag
<1>7. CASE UNCHANGED vars
  BY <1>7
  DEF IInv, TypeOK, SenderOK, BetweenPackets, EveryPacketArrivesIntact, BufferIsThePacket,
      vars, senderVars, deframerVars
<1> QED
  BY <1>1, <1>2, <1>3, <1>4, <1>5, <1>6, <1>7 DEF Next

\* The strengthened invariant holds in every reachable state.
THEOREM Inductive == Spec => []IInv
BY InitIInv, StepIInv, PTL DEF Spec

\* Type correctness of the sender and the Deframer.
THEOREM FramingTypes == Spec => []TypeOK
<1>1. IInv => TypeOK
  BY DEF IInv
<1> QED BY <1>1, Inductive, PTL

\* What build_audio_packet escapes and the Deframer unescapes is the packet that
\* was sent, however many came before it and wherever the receiver came in.
THEOREM DeframerIsFaithful == Spec => []EveryPacketArrivesIntact
<1>1. IInv => EveryPacketArrivesIntact
  BY DEF IInv
<1> QED BY <1>1, Inductive, PTL

\* Between two calls of feed() the Deframer has exactly the part received so far.
THEOREM BufferIsFaithful == Spec => []BufferIsThePacket
<1>1. IInv => BufferIsThePacket
  BY DEF IInv
<1> QED BY <1>1, Inductive, PTL
=============================================================================

------------------------------- MODULE Framing -------------------------------
(***************************************************************************)
(* The byte stream of the audio channel, bendio/audio/framing.py: packets  *)
(* as build_audio_packet makes them, and the Deframer at the other end.    *)
(*                                                                         *)
(* A step puts one byte on the wire and runs the loop body of              *)
(* Deframer.feed() for it.  How feed() is called, with one byte or with    *)
(* many packets, makes no difference to that loop.  A packet is chosen     *)
(* byte by byte as it is sent, so every packet of every length occurs.     *)
(***************************************************************************)
EXTENDS Naturals, Sequences

CONSTANTS Byte, FLAG, ESCAPE,
          Xor,        \* Xor[b]: b ^ 0x20
          Commands    \* the command bytes, which are sent as they are

ASSUME FramingAssumption ==
  /\ {FLAG, ESCAPE} \subseteq Byte /\ FLAG # ESCAPE
  /\ Xor \in [Byte -> Byte] /\ \A b \in Byte : Xor[Xor[b]] = b
  /\ {Xor[FLAG], Xor[ESCAPE]} \cap {FLAG, ESCAPE} = {}
  /\ Commands \subseteq Byte \ {FLAG, ESCAPE}

VARIABLES phase,    \* what the sender puts on the wire next
          payload,  \* command byte and data bytes sent of this packet
          next,     \* the byte whose escape has been sent
          seen,     \* the receiver was there when this packet began
          log,      \* the packets sent in full before the receiver's eyes
          buf, inFrame, escaped,   \* the Deframer
          out       \* the packets it has returned

senderVars == <<phase, payload, next, seen, log>>
deframerVars == <<buf, inFrame, escaped, out>>
vars == <<senderVars, deframerVars>>

Phases == {"flag", "command", "body", "escaped"}

TypeOK == /\ phase \in Phases
          /\ payload \in Seq(Byte) /\ next \in Byte
          /\ seen \in BOOLEAN /\ log \in Seq(Seq(Byte))
          /\ buf \in Seq(Byte) /\ inFrame \in BOOLEAN /\ escaped \in BOOLEAN
          /\ out \in Seq(Seq(Byte))

\* The receiver may open its channel in the middle of a packet.
Init == /\ phase \in Phases
        /\ payload = <<>> /\ next = ESCAPE /\ seen = FALSE /\ log = <<>>
        /\ buf = <<>> /\ inFrame = FALSE /\ escaped = FALSE /\ out = <<>>
-----------------------------------------------------------------------------
\* Mistakes feed() could make: extend() where it appends a packet, an escape that
\* outlives the byte it stands for, and bytes taken before the first flag.
ReceiveExtends(b) ==
  IF b = FLAG
  THEN /\ out' = out \o buf
       /\ buf' = <<>> /\ inFrame' = TRUE /\ escaped' = FALSE
  ELSE IF ~inFrame THEN UNCHANGED deframerVars
  ELSE IF escaped
       THEN buf' = Append(buf, Xor[b]) /\ escaped' = FALSE /\ UNCHANGED <<inFrame, out>>
  ELSE IF b = ESCAPE THEN escaped' = TRUE /\ UNCHANGED <<buf, inFrame, out>>
  ELSE buf' = Append(buf, b) /\ UNCHANGED <<inFrame, escaped, out>>

ReceiveStaysEscaped(b) ==
  IF b = FLAG
  THEN /\ out' = IF inFrame /\ buf # <<>> THEN Append(out, buf) ELSE out
       /\ buf' = <<>> /\ inFrame' = TRUE /\ escaped' = FALSE
  ELSE IF ~inFrame THEN UNCHANGED deframerVars
  ELSE IF escaped
       THEN buf' = Append(buf, Xor[b]) /\ UNCHANGED <<inFrame, escaped, out>>
  ELSE IF b = ESCAPE THEN escaped' = TRUE /\ UNCHANGED <<buf, inFrame, out>>
  ELSE buf' = Append(buf, b) /\ UNCHANGED <<inFrame, escaped, out>>

ReceiveUnsynced(b) ==
  IF b = FLAG
  THEN /\ out' = IF buf # <<>> THEN Append(out, buf) ELSE out
       /\ buf' = <<>> /\ inFrame' = TRUE /\ escaped' = FALSE
  ELSE IF escaped
       THEN buf' = Append(buf, Xor[b]) /\ escaped' = FALSE /\ UNCHANGED <<inFrame, out>>
  ELSE IF b = ESCAPE THEN escaped' = TRUE /\ UNCHANGED <<buf, inFrame, out>>
  ELSE buf' = Append(buf, b) /\ UNCHANGED <<inFrame, escaped, out>>

\* The loop body of Deframer.feed() for byte b.
Receive(b) ==
  IF b = FLAG
  THEN /\ out' = IF inFrame /\ buf # <<>> THEN Append(out, buf) ELSE out
       /\ buf' = <<>> /\ inFrame' = TRUE /\ escaped' = FALSE
  ELSE IF ~inFrame THEN UNCHANGED deframerVars
  ELSE IF escaped
       THEN buf' = Append(buf, Xor[b]) /\ escaped' = FALSE /\ UNCHANGED <<inFrame, out>>
  ELSE IF b = ESCAPE THEN escaped' = TRUE /\ UNCHANGED <<buf, inFrame, out>>
  ELSE buf' = Append(buf, b) /\ UNCHANGED <<inFrame, escaped, out>>
-----------------------------------------------------------------------------
\* build_audio_packet and END_OF_TX_PACKET, a byte at a time.
OpeningFlag == /\ phase = "flag" /\ phase' = "command"
               /\ payload' = <<>> /\ seen' = TRUE
               /\ Receive(FLAG)
               /\ UNCHANGED <<next, log>>

CommandByte(c) == /\ phase = "command" /\ phase' = "body"
                  /\ payload' = <<c>>
                  /\ Receive(c)
                  /\ UNCHANGED <<next, seen, log>>

PlainByte(b) == /\ phase = "body" /\ b \notin {FLAG, ESCAPE}
                /\ payload' = Append(payload, b)
                /\ Receive(b)
                /\ UNCHANGED <<phase, next, seen, log>>

\* A mistake of build_audio_packet: only the flag is escaped.
FlagEscape(b) == /\ phase = "body" /\ b = FLAG /\ phase' = "escaped"
                 /\ next' = b
                 /\ Receive(ESCAPE)
                 /\ UNCHANGED <<payload, seen, log>>

EscapeByte(b) == /\ phase = "body" /\ b \in {FLAG, ESCAPE} /\ phase' = "escaped"
                 /\ next' = b
                 /\ Receive(ESCAPE)
                 /\ UNCHANGED <<payload, seen, log>>

\* A mistake: the escaped byte is sent as it is.
EscapedAsIs == /\ phase = "escaped" /\ phase' = "body"
               /\ payload' = Append(payload, next)
               /\ Receive(next)
               /\ UNCHANGED <<next, seen, log>>

EscapedByte == /\ phase = "escaped" /\ phase' = "body"
               /\ payload' = Append(payload, next)
               /\ Receive(Xor[next])
               /\ UNCHANGED <<next, seen, log>>

ClosingFlag == /\ phase = "body" /\ phase' = "flag"
               /\ log' = IF seen THEN Append(log, payload) ELSE log
               /\ Receive(FLAG)
               /\ UNCHANGED <<payload, next, seen>>

Next == \/ OpeningFlag \/ EscapedByte \/ ClosingFlag
        \/ \E c \in Commands : CommandByte(c)
        \/ \E b \in Byte : PlainByte(b) \/ EscapeByte(b)

Spec == Init /\ [][Next]_vars
-----------------------------------------------------------------------------
\* Every packet whose opening flag the receiver has seen comes out whole, with
\* its escapes undone, in order, and nothing else does: not the rest of the
\* packet it came into, and no empty one between two flags.
EveryPacketArrivesIntact == out = log

\* Inside such a packet the Deframer holds exactly what has been sent of it.
BufferIsThePacket ==
  seen /\ phase # "flag" =>
    inFrame /\ buf = payload /\ (escaped <=> phase = "escaped")
=============================================================================

------------------------------ MODULE Messages ------------------------------
(***************************************************************************)
(* Messages as the library reads and writes them: Message and GaiaFrame    *)
(* with the field engine, and what Radio._on_frame makes of a frame.       *)
(***************************************************************************)
EXTENDS Fields

VARIABLE frame   \* the bits of a message frame

ParseMessage(bits) == FromBits(Message, bits)   \* Message.from_bytes
ParseGaia(bits) == FromBits(GaiaFrame, bits)    \* GaiaFrame.from_bytes

BitsOf(bytes) == FlattenSeq([i \in DOMAIN bytes |-> FromInt(bytes[i], 8)[1]])
BytesOf(bits) == [i \in 1..Len(bits) \div 8 |-> ToInt(SubSeq(bits, 8 * i - 7, 8 * i))]

\* The parsing in Radio._on_frame: a bare message, else a wrapped one.
Understand(bits) ==
  LET raw == ParseMessage(bits)
      gaia == ParseGaia(bits)
  IN IF raw # Raises THEN raw
     ELSE IF gaia = Raises THEN Raises
     ELSE ParseMessage(BitsOf(gaia[1].v[5].v))
-----------------------------------------------------------------------------
\* An unknown extended command is read as UNKNOWN.
Canonical(bits) ==
  IF ToInt(SubSeq(bits, 1, 16)) = EXTENDED /\ ToInt(SubSeq(bits, 18, 32)) \notin ExtendedCommands
  THEN SubSeq(bits, 1, 17) \o FromInt(0, 15)[1] \o SubSeq(bits, 33, Len(bits))
  ELSE bits

\* A message read from the radio and written again (read_settings and then
\* WRITE_SETTINGS, a channel read and written back) is bit for bit the same, but
\* for exactly the values that LosesValue names.
WhatIsReadIsWrittenBack ==
  LET m == ParseMessage(frame)
  IN m # Raises => (ToBits(m[1]) = <<Canonical(frame)>> <=> ~ObjectLoses(m[1]))
-----------------------------------------------------------------------------
\* A frame wrapped as on Bluetooth classic, checksum or not.
Wrapped(bits, flags) ==
  BitsOf(<<255, 1, flags, Len(bits) \div 8 - 4>>) \o bits \o IF flags = 1 THEN BitsOf(<<170>>) ELSE <<>>

\* _on_frame() tries a bare message first and a GAIA frame second: a wrapped
\* message is never taken for a bare one and comes out as if it had been bare.
WrappedFramesAreUnderstood ==
  LET m == ParseMessage(frame)
  IN m # Raises => \A flags \in {0, 1} : Understand(Wrapped(frame, flags)) = m

\* A reply that says no: the status and nothing else.
Refusal(cmd, status) ==
  FromInt(BASIC, 16)[1] \o <<1>> \o FromInt(cmd, 15)[1] \o FromInt(status, 8)[1]

\* A radio that refuses a command answers with the status alone: the reply must
\* parse, or the caller would wait for its time-out (Radio._on_frame drops what
\* does not).  GET_PF and WRITE_RF_CH expect their data even then.
RefusalsAreUnderstood ==
  \A cmd \in DOMAIN Replies \ {Cmd.GET_PF, Cmd.WRITE_RF_CH}, status \in 1..7 :
    frame = Refusal(cmd, status) =>
      LET m == ParseMessage(frame)
      IN m # Raises /\ m[1].v[2] /\ m[1].v[3] = cmd /\ m[1].v[4].v[1] = status
=============================================================================

SPECIFICATION Spec
CONSTANTS
  Byte <- MCByte
  FLAG = "7E"
  ESCAPE = "7D"
  Xor <- MCXor
  Commands <- MCCommands
  MaxPayload = 3
  MaxPackets = 2
CONSTRAINT Bounded
INVARIANTS
  TypeOK
  EveryPacketArrivesIntact
  BufferIsThePacket

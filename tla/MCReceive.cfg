SPECIFICATION FairSpec
CONSTANTS
  MaxFrames = 8
  PacketFrames = 2
  PipeFrames = 2
  ChunkFrames = 3
INVARIANTS
  TypeOK
  NothingIsLeftRunning
  ChannelIsReleased
PROPERTIES
  StopOrCloseEndsTheCommand
  AllButOneChunkIsHeard
CHECK_DEADLOCK FALSE

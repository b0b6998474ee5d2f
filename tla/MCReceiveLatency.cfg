SPECIFICATION FairSpec
CONSTANTS
  MaxFrames = 3
  PacketFrames = 2
  PipeFrames = 2
  ChunkFrames = 2
PROPERTY
  EveryFrameIsHeard
CHECK_DEADLOCK FALSE

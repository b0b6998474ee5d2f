SPECIFICATION FairSpec
CONSTANTS
  MaxFrames = 5
  ChunkFrames = 2
  TailRepeats = 3
INVARIANTS
  TypeOK
  WedgedOnlyByInterruptLossOrBacklog
  NothingIsCutOff
  ChannelIsReleased
PROPERTIES
  OnlyTheBacklogFollowsTheEnd
  StopEndsTheCommand
CHECK_DEADLOCK FALSE

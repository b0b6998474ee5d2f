SPECIFICATION Spec
CONSTANTS
  MaxFrames = 3
  ChunkFrames = 2
  TailRepeats = 2
INVARIANT
  EveryTransmissionEndsThere
CHECK_DEADLOCK FALSE

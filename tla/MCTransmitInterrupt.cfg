SPECIFICATION Spec
CONSTANTS
  MaxFrames = 3
  ChunkFrames = 2
  TailRepeats = 2
INVARIANT
  EveryTransmissionIsEnded
CHECK_DEADLOCK FALSE

SPECIFICATION Spec
CONSTANTS
  Short <- MCShort
  Read <- ReadType
  Write <- WriteType
  Loses <- LosesType
  BitPools = {2, 18, 125}
  Samples <- MCSamples
  Rests = {1, 11}
  MaxFrames = 2
CHECK_DEADLOCK FALSE
INVARIANTS
  WhatIsReadIsWrittenBack
  WrappedFramesAreUnderstood
  RefusalsAreUnderstood
  PacketsAreSplitExactly

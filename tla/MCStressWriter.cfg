SPECIFICATION WriterSpec
CONSTANTS
  BlockSizes <- MCBlockSizes
  RingBytes = 8
  DelaySlots = 4
  Period = 1
  CountLimit = 22
  TimeLimit = 9
  TimeWord = 18
  Clock <- MCClock
  PageBytes = 3
  HeaderBytes = 1
INVARIANTS
  WriterTypeOK
  LogIsStream
  ReleasedBytesAreStored
  CleanReleaseIsComplete
PROPERTIES
  FinishEnds
CHECK_DEADLOCK FALSE

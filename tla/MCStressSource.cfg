SPECIFICATION Spec
CONSTANTS
  BlockSizes <- MCBlockSizes
  RingBytes = 8
  DelaySlots = 4
  Period = 2
  CountLimit = 20
  TimeLimit = 16
  TimeWord = 32
  Clock <- MCClock
INVARIANTS
  SourceTypeOK
  RingHoldsStream
  NoSilentReduction
  HeaderDescribesItsBlocks
  LoadFollowsClock

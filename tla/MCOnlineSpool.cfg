SPECIFICATION SpoolSpec
CONSTANTS
  RegionPages = 8
  SectorPages = 2
  BlockSectors = 2
  RecordSizes <- MCRecordSizes
  InFlightMax = 2
  MaxGeneration = 1
  PreeraseMin = 4
  EraseHigh = 4
  SessionLimit = 2
INVARIANTS
  SpoolTypeOK
  LiveBytesIntact
  ReservedRoomIsErased
  RecordsFillTheRing
  RetryIsReported
  BookkeepingNeverFails
PROPERTIES
  ImplementsRecordLog
  WriterGetsRoom
  StoppedSessionDrains
CHECK_DEADLOCK FALSE

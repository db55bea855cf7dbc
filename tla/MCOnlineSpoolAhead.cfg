SPECIFICATION SpoolSpec
CONSTANTS
  RegionPages = 12
  SectorPages = 2
  BlockSectors = 2
  RecordSizes <- MCRecordSizes
  InFlightMax = 2
  MaxGeneration = 1
  PreeraseMin = 4
  EraseHigh = 8
  SessionLimit = 1
INVARIANT
  ReservedRoomIsErased
PROPERTY
  WriterGetsRoom
CHECK_DEADLOCK FALSE

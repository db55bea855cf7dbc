SPECIFICATION SpoolSafety
CONSTANTS
  RegionPages = 8
  SectorPages = 2
  BlockSectors = 2
  RecordSizes <- MCRecordSizes
  InFlightMax = 1
  MaxGeneration = 1
  PreeraseMin = 4
  EraseHigh = 4
  SessionLimit = 1
INVARIANT
  SendNotBehindAck
CHECK_DEADLOCK FALSE

SPECIFICATION HostSpec
CONSTANTS
  Records = 2
  Fragments = 1
  Window = 2
  SessionLimit = 1
  AirLimit = 3
  Faults <- StorageAndWrites
INVARIANTS
  HostTypeOK
  RetiredIsSaved
  EndedIsComplete
  WaitStartIsNoLoss
CHECK_DEADLOCK FALSE

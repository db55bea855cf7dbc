SPECIFICATION FairStreamSpec
CONSTANTS
  SlotCount = 2
  Window = 1
  Records = 1
  Fragments = 1
  SessionLimit = 1
  Faults <- CaptureFault
  StressStatus = FALSE
PROPERTIES
  StopsForGood
CHECK_DEADLOCK FALSE

SPECIFICATION StreamSpec
CONSTANTS
  SlotCount = 2
  Window = 2
  Records = 2
  Fragments = 2
  SessionLimit = 2
  Faults <- AllFaults
  StressStatus = TRUE
INVARIANTS
  StreamTypeOK
  HeldBuffersKept
  CompletionsMatchStack
  StagedInOrder
PROPERTIES
  StopReportIsTrue
  ImplementsDevice
CHECK_DEADLOCK FALSE

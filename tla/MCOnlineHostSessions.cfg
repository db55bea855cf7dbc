SPECIFICATION HostSpec
CONSTANTS
  Records = 1
  Fragments = 1
  Window = 1
  SessionLimit = 2
  AirLimit = 2
  Faults <- Restarts
INVARIANTS
  RetiredIsSaved
PROPERTIES
  EndedOutlivesTheLink
CHECK_DEADLOCK FALSE

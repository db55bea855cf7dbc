SPECIFICATION HostFairSpec
CONSTANTS
  Records = 1
  Fragments = 1
  Window = 1
  SessionLimit = 1
  AirLimit = 2
  Faults <- Callbacks
PROPERTIES
  SettlesOnDisk
CHECK_DEADLOCK FALSE

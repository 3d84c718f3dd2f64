CONSTANTS
  NrPackage = 2
  NrCase = 2
  Timeout = 3
SPECIFICATION DriverSpec
CHECK_DEADLOCK FALSE
INVARIANTS DriverTypeOK OneCaseAtATime RunnerOnlyWhenBuilt QemuStopped
PROPERTIES EndsUnlessCtrlDoesNot

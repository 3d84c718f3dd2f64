CONSTANTS
  Types = {"CREATE", "SYNC"}
  MaxLen = 5
  MaxNames = 1
  MaxFds = 1
SPECIFICATION Spec
CHECK_DEADLOCK FALSE
INVARIANTS PrefixManifests

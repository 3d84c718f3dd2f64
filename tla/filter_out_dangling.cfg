CONSTANTS
  Types = {"MKDIR", "CREATE", "RENAME", "OPEN"}
  MaxLen = 4
  MaxNames = 3
  MaxFds = 3
SPECIFICATION Spec
CHECK_DEADLOCK FALSE
INVARIANTS NothingDangles

CONSTANTS
  NSystems = 2
  Numbered = {1}
  Named = {}
  Limits = {}
  NoLimit = NoLimit
  Faults = {"crash"}
  MaxFaults = 1
  MaxStarts = 1
SPECIFICATION Spec
CHECK_DEADLOCK FALSE
INVARIANTS TracesAreOwn

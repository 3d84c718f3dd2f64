CONSTANTS
  NSystems = 2
  Numbered = {1, 2}
  Named = {1}
  Limits = {0, 2}
  NoLimit = NoLimit
  Faults = {"script", "crash", "unread", "raise", "interrupt"}
  MaxFaults = 2
  MaxStarts = 3
SPECIFICATION FairSpec
CHECK_DEADLOCK FALSE
INVARIANTS TypeOK FreshAtRun CleanBetweenRuns WholeTestCompared
PROPERTIES DifferencesCounted Terminates FinishesUnlessDisturbed

CONSTANTS
  Types = {"MKDIR", "CREATE", "HARDLINK", "OPEN", "READ", "CLOSE"}
  MaxLen = 8
  MaxNames = 2
  MaxFds = 1
SPECIFICATION FairSpec
CHECK_DEADLOCK FALSE
INVARIANTS ResultManifests NothingMoreToTakeOut CandidatesSucceed PrefixIsAlmostShortest
PROPERTIES Terminates

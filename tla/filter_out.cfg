CONSTANTS
  Types = {"MKDIR", "CREATE", "HARDLINK", "SYMLINK", "RENAME", "REMOVE", "REDUCE", "OPEN", "FSYNC", "SYNC"}
  MaxLen = 5
  MaxNames = 3
  MaxFds = 2
SPECIFICATION FairSpec
CHECK_DEADLOCK FALSE
INVARIANTS TypeOK RemovesTheLeastClosedSet CallersSeeTheWorklist DescriptorsStayDeclared SavedTextReadsBack WhatIsLeftSucceeds
PROPERTIES FilterOutReturns

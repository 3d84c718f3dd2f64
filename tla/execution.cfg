CONSTANTS
  MaxJnode = 3
  NoNode = NoNode
  MaxName = 3
  MaxFd = 2
  TreeMaxSize = 100
  CommandTypes = {"MKDIR","CREATE","SYMLINK","HARDLINK","REMOVE","RENAME","REDUCE","OPEN","CLOSE","READ","SYNC","ENLARGE","DEEPEN","STATFS"}
  SureTypes = {"MKDIR"}
  Declared = {1, 2}
  MaxOpen = 2
  NotOpen = NotOpen
SPECIFICATION RunSpec
CHECK_DEADLOCK FALSE
INVARIANTS DescriptorsAreOwn SamePathSameKind
PROPERTIES StaysInStep FailuresAreExplained
VIEW WithoutEntry

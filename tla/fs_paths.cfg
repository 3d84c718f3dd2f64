CONSTANTS
  MaxJnode = 4
  NoNode = NoNode
  MaxName = 4
  MaxFd = 0
  TreeMaxSize = 4
  CommandTypes = {"MKDIR","CREATE","SYMLINK","HARDLINK","REMOVE","RENAME","REDUCE","OPEN","CLOSE"}
  SureTypes = {"MKDIR","CREATE","SYMLINK","HARDLINK","OPEN","CLOSE","RENAME"}
SPECIFICATION Spec
CHECK_DEADLOCK FALSE
INVARIANTS SizeWithinLimit
PROPERTIES NamesKeepKind ImplementsPathTree

CONSTANTS
  MaxJnode = 3
  NoNode = NoNode
  MaxName = 4
  MaxFd = 1
  TreeMaxSize = 100
  CommandTypes = {"MKDIR","CREATE","SYMLINK","HARDLINK","REMOVE","RENAME","REDUCE","CHROOT","MKNOD","OPEN","CLOSE","ENLARGE","FALLOCATE","DEEPEN","WRITE_XATTR","READ_XATTR"}
  SureTypes = {"MKDIR"}
SPECIFICATION Spec
CHECK_DEADLOCK FALSE
INVARIANTS TypeOK EdgesMirrored NamesAreUids DirTree PathsResolve NoException DeletionIsStepwise

PROPERTIES CountDriftsByRenames SymlinksAccounted

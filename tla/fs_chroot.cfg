CONSTANTS
  MaxJnode = 3
  NoNode = NoNode
  MaxName = 4
  MaxFd = 0
  TreeMaxSize = 100
  CommandTypes = {"MKDIR","CREATE","REMOVE","CHROOT","RENAME"}
  SureTypes = {"MKDIR"}
SPECIFICATION Spec
CHECK_DEADLOCK FALSE
PROPERTIES AddsUnderWorkingRoot

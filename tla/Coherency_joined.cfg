CONSTANTS
  Nodes = {0, 1, 2}
  Home = 0
  Links <- MCLinks
  Accessors = {1, 2}
  Programs <- Joined
  WtMasks = {{}}
  MaxEvict = 1
  MaxTidy = 1
  MaxFail = 1
SPECIFICATION Spec
INVARIANT ValidIsAllocated
CHECK_DEADLOCK FALSE

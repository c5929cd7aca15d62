CONSTANTS
  N = 4
  Thread <- SameThread
  Handles = {1, 2}
  MaxBuffers = 3
  Programs <- Orders
  UIntMax = 15
SPECIFICATION FairSpec
CHECK_DEADLOCK FALSE
INVARIANTS NoStaleTask 
PROPERTIES Sequential AllServed

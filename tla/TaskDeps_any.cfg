CONSTANTS
  NTasks = 3
  MaxDeclare = 2
  MaxRounds = 1
  Mixes <- AnyMix
SPECIFICATION Spec
CHECK_DEADLOCK FALSE
INVARIANT NoEarlyStart

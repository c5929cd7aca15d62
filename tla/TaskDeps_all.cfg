CONSTANTS
  NTasks = 3
  MaxDeclare = 3
  MaxRounds = 2
  Mixes <- AllMixes
SPECIFICATION FairSpec
CHECK_DEADLOCK FALSE
PROPERTY AllTasksRun
INVARIANTS NoEarlyStart PushedOnce FreedInTime EndDepsRespected

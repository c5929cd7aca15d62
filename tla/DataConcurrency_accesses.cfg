CONSTANTS
  Tasks = {1, 2}
  Users = {3}
  Handles = {1, 2}
  UserHandles = {2}
  Root <- OwnRoots
  Prio <- FirstUrgent
  Modes = {"R", "RW"}
  MaxBuffers = 2
  Kinds = {"acquire", "async", "unregister"}
SPECIFICATION FairSpec
CHECK_DEADLOCK FALSE
INVARIANTS ExclusiveWrite  NoForgottenRequest NoCircularWait NoUseAfterFree
PROPERTY AllServed

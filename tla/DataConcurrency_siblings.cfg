CONSTANTS
  Tasks = {1, 2}
  Users = {3}
  Handles = {1, 2}
  UserHandles = {1, 2}
  Root <- OneRoot
  Prio <- FirstUrgent
  Modes = {"R", "W"}
  MaxBuffers = 2
  Kinds = {"acquire"}
SPECIFICATION Spec
CHECK_DEADLOCK FALSE
INVARIANT NoCircularWait

CONSTANTS
  App = {a1, a2}
  Workers = {w1, w2}
  LimitMin = 1
  LimitMax = 1
  MaxSubmit = 4
  MaxRegenerate = 1
  MayTerminate = TRUE
  Inheritor = TRUE
SPECIFICATION FairSpec
CHECK_DEADLOCK FALSE
INVARIANTS TypeOK NoLostWakeup CountIsExact ThrottleBound
PROPERTIES WaitersReturn WaitForAllReturnsDrained

CONSTANTS
  Nodes = {0, 1, 2}
  Home = 0
  Links <- MCLinks
  Accessors = {1, 2, 3}
  Programs <- Mixed
  WtMasks <- MCWtMasks
  MaxEvict = 1
  MaxTidy = 1
  MaxFail = 1
SPECIFICATION FairSpec
INVARIANTS CopiesAgree ReadsLatest WriterAlone RefcntExact NoFreedRequest
PROPERTY AllServed
CHECK_DEADLOCK FALSE

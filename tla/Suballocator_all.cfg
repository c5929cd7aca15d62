SPECIFICATION SpecAll
CONSTANTS
  Threads = {t1, t2}
  Sizes = {1, 2}
  Limits = {0, 9}
  SizeMax = 15
  UsedMax = 11
  CHUNK_NBLOCKS = 4
  CHUNK_SIZE = 2
  CHUNKS_NFREE = 1
  BigSize = 3
  MaxChunks = 2
  MaxFailures = 1
  Loads <- MCLoads
INVARIANTS NoStrandedWaiter BlocksPartitioned FreeCountsExact NeverUndercounted
PROPERTY WaitersReturn
CHECK_DEADLOCK FALSE

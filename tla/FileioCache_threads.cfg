SPECIFICATION CacheSpec
CONSTANTS
  Paths = {"p"}
  Blocks = 2
  FD_CACHE_COUNT = 2
  Streams = 4
  MaxStores = 2
  CacheOptions = {FALSE}
  Threaded = TRUE
INVARIANTS NoUseAfterClose
CHECK_DEADLOCK FALSE

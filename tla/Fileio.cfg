SPECIFICATION MCSpec
CONSTANTS
  PubsubCount = 2
  WQ_MAX_PENDING = 2
  PipeCapacity = 9
  SendBufferReplies = 1
  MaxWrites = 3
  MaxOps = 1
  MaxBuffers = 2
  ThreadingOptions = {FALSE, TRUE}
  Paths = {"p", "q"}
  Blocks = 2
  FD_CACHE_COUNT = 1
  Streams = 2
  MaxStores = 2
  CacheOptions = {FALSE, TRUE}
  Threaded = FALSE
INVARIANTS RequestsIntact PendingIsQueued OperationRunsAlone CacheIsCoherent
PROPERTIES WritesInOrder WorkCompletes
CHECK_DEADLOCK FALSE

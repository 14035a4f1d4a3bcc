SPECIFICATION FairSpec
CONSTANTS
  PubsubCount = 1
  WQ_MAX_PENDING = 2
  PipeCapacity = 9
  SendBufferReplies = 1
  MaxWrites = 2
  MaxOps = 0
  MaxBuffers = 2
  ThreadingOptions = {FALSE}
PROPERTIES WriteAnswered
CHECK_DEADLOCK FALSE

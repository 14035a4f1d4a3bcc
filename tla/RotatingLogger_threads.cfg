SPECIFICATION FairSpec
CONSTANTS
  Dirs = {"a"}
  Volumes = {"v", "w"}
  InitialMounts <- MCInitialMounts
  InitialNames <- MCInitialNames
  Sizes = {1}
  Slices = {1, 2}
  POLL_PERIOD = 1
  MAX_QUEUE_SIZE = 2
  NEW_FILE_PAD_SIZE = 2
  MAX_SESSION = 3
  MAX_MINUTE = 1
  MaxFrames = 3
  MaxTime = 2
  MaxEvents = 3
PROPERTIES FramesAreKept  StopReturns
CHECK_DEADLOCK FALSE

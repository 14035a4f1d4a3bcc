SPECIFICATION MCSpec
CONSTANTS
  RTCM3_PREAMBLE = 7
  RTCM3_HEADER_LENGTH = 3
  RTCM3_FOOTER_LENGTH = 1
  RTCM3_FRAME_SIZE_MAX = 7
  CRC_MODULUS = 8
  LENGTH_MODULUS = 4
  Pieces <- MCPieces
  MaxPieces = 3
  READ_BUFFER_SIZE = 6
  Numbers = {1, 2, 3, 4}
  Settings <- MCSettings
  MsgTypes = {1, 2}
  TYPE_MODULUS = 8
  DIVISOR_MODULUS = 4
  MaxWhitelists = 2
  MaxMessages = 3
  FRAME_BYTES = 3
  MaxOut = 3
  outq = 5
  QUEUE_BYTES = 6
  Children = {1, 2}
  MaxFd = 12
  MaxRounds = 3
  ChunkFrames = {1, 2}
  MaxChunks = 2
  MaxFrames = 3
  PIPE_PACKETS = 2
  RxContexts = {"app", "settings"}
  SettingsRx = "settings"
  FdLimit = 13
  SrLoads <- MCSrLoads
  NUM_ENDPOINTS = 2
  TX_BUFF_SIZE = 2
  MAX_BUF_SUBMIT = 5
  RX_FIFO_SIZE = 6
  RpReaders = {"r1", "r2"}
  RpWriters = {"w1", "w2"}
  RpDevice <- MCRpDevice
  RpLengths = {3, 7}
  RpRecords = {0, 1, 4}
  MaxRpWrites = 2
  RpLoads <- MCRpLoads
  ITEM_COUNT = 2
  MAX_PROCESS_COUNT = 3
  MAX_FILE_COUNT = 3
  READ_SIZE = 4
  PS_BUF = 10
  FILE_STR = 4
  SUMMARY_MAX = 9
  FileLen <- MCFileLen
  RealFiles = {"/a", "/b", "/c", "anon"}
  Paths = {"/a", "/b", "/c"}
  interface_list <- MCOrder
  RmIntervals = {0, 1, 2}
  RmLoads <- MCRmLoads
  MetricsTable <- MCTable
  ValueLimit = 128
  MAX_METRICS = 3
  BUF = 4
  MetricValues = {12}
  MeLoads <- MCMeLoads
INVARIANTS
  FramerIsRight
  
  
  RoundsLeaveNothing
  CanKeepsOrder
  HandlesAreLive
  WritesAreWhole
  
  ReportsWereFlushed
PROPERTIES
  CanThreadsAreJoined
  WaitReturns
  
CHECK_DEADLOCK FALSE

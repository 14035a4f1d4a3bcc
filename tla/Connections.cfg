SPECIFICATION MCSpec
CONSTANTS
  MAX_STALL_TIME_S = 1
  gga_xfer_secs = 1
  max_bytes = 1
  BODY = 2
  CHUNK = 2
  PIPE_SIZE = 1
  Requesters = {r1}
  MaxSignals = 1
  Daemons = {"ntrip"}
  Pids = {1, 2, 3}
  Urls = {1, 2}
  MaxSupWrites = 2
  MaxCommands = 1
  MaxDeaths = 1
  Ttys = {"ttyACM0", "ttyACM1"}
  Answers <- MCAnswers
  PROBE_RETRIES = 5
  CELL_MODEM_MAX_BOOT_RETRIES = 1
  MaxPlugs = 2
  MaxWrites = 2
  Versions <- MCVersions
  BadOffer = BadOffer
  OtaUrls = {1, 2}
  MaxFailures = 1
  MaxOffers = 1
  MaxOtaWrites = 2
INVARIANTS
  BytesInOrder
  ChildrenAreInHand
  
  
PROPERTIES
  AbortsOnlyIdle
  
  DisabledStops
  OfferIsInstalled
CHECK_DEADLOCK FALSE

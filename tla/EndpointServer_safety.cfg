SPECIFICATION Spec
CONSTANTS
  Clients = {c1, c2}
  c1 = c1
  c2 = c2
  Types = {"SUB_SERVER", "PUB_SERVER", "REP"}
  Writers = {"SUB_SERVER", "REP"}
  ENDPOINT_SERVICE_MAX = 2
  MAX_SEND_SLEEP_COUNT = 3
  QueueLimit = 1
  MaxConnects = 3
  MaxMsgs = 2
  MaxPubs = 2
SYMMETRY ClientSymmetry
 
PROPERTIES ChannelSpec
CHECK_DEADLOCK FALSE

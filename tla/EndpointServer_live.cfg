SPECIFICATION FairSpec
CONSTANTS
  Clients = {c1, c2}
  c1 = c1
  c2 = c2
  Types = {"SUB_SERVER", "PUB_SERVER"}
  Writers = {"SUB_SERVER", "PUB_SERVER"}
  ENDPOINT_SERVICE_MAX = 2
  MAX_SEND_SLEEP_COUNT = 3
  QueueLimit = 1
  MaxConnects = 2
  MaxMsgs = 3
  MaxPubs = 1
PROPERTIES ClientsAreServed
CHECK_DEADLOCK FALSE

SPECIFICATION Spec
CONSTANTS
  Clients = {c1, c2}
  c1 = c1
  c2 = c2
  Types = {"PUB_SERVER"}
  Writers = {}
  ENDPOINT_SERVICE_MAX = 2
  MAX_SEND_SLEEP_COUNT = 3
  QueueLimit = 1
  MaxConnects = 3
  MaxMsgs = 3
  MaxPubs = 3
PROPERTIES FullClientIsGivenTime
CHECK_DEADLOCK FALSE

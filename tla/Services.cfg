SPECIFICATION MCSpec
CONSTANTS
  PortNames = {"a", "b"}
  Bytes = {0, 1}
  MAX_PREFIX_LEN = 2
  MaxPorts = 2
  MaxRules = 2
  MaxFilters = 3
  MaxLen = 2
  MaxElements = 8
  MaxDataLen = 2
  Sections = {"s", "t"}
  Names = {"a", "b"}
  Values = {"x", "x#"}
  Unclean = {"x#"}
  Cleaned = "x"
  MaxEvents = 4
  MaxRegistered = 4
INVARIANTS RuleCacheIsRight
PROPERTIES SavedIsRead ReadingIsComplete
CHECK_DEADLOCK FALSE

INIT SysInit
NEXT SysNext
CONSTANTS
  Addresses = {"a", "b", "bad"}
  ValidAddresses = {"a", "b"}
  DefaultAddress = "a"
  Frequencies = {0, 1, 5}
  SCALE = 10
  MAX_PERIOD = 5
  DefaultFrequency = 5
  CommandIds = {1, 2}
  SysLoads = {{"system_time", "frequency"}}
INVARIANTS NtpFollowsSetting
CHECK_DEADLOCK FALSE

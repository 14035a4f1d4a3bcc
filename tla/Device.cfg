SPECIFICATION MCSpec
CONSTANTS
  Ports = {"uart0", "tcp0", "can0", "can1"}
  Scenarios <- MCScenarios
  RestartPorts = {"uart0"}
  CanPorts = {"can0", "can1"}
  Modes = {1, 2}
  MODE_SBP = 1
  MODE_DISABLED = 0
  Opts = {0, 1}
  MaxExits = 1
  MonitorSets = {{"baseline"}, {"glo_obs", "glo_bias"}, {"glo_obs", "sats"}, {"glo_obs", "ntrip"}}
  Sats = {1, 2}
  MIN_SATS_FOR_PVT = 2
  U8_VALUES = 5
  BASELINE_ALERT_RATE_LIMIT = 5
  GLO_OBS_ALERT_RATE_LIMIT = 3
  GLO_OBS_RESET_BASE_CONN_RATE_LIMIT = 6
  GLO_BIAS_ALERT_RATE_LIMIT = 4
  NTRIP_OBS_ALERT_RATE_LIMIT = 1
  NTRIP_OBS_PERIOD_BEFORE_WARN = 2
  BASE_NUM_SATS_SAMPLE_RATE = 1
  BASE_NUM_SATS_ALERT_RATE_LIMIT = 3
  LED_MODE_TIMEOUT = 2
  SLOW_BLINK_PERIOD = 2
  FAST_BLINK_PERIOD = 1
  Loads <- MCLoads
  Addresses = {"a", "b", "bad"}
  ValidAddresses = {"a", "b"}
  DefaultAddress = "a"
  Frequencies = {0, 1, 5}
  SCALE = 10
  MAX_PERIOD = 5
  DefaultFrequency = 5
  CommandIds = {1, 2}
  SysLoads = {{"interface_mode", "ip"}, {"system_time", "frequency"}, {"command"}}
INVARIANTS
  
  WarningsAreTrue
  DeviceFollowsSettings
PROPERTIES
  LedsShowSolution
  
CHECK_DEADLOCK FALSE

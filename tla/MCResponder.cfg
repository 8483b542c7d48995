SPECIFICATION FairRespSpec
CONSTANTS
  IPs = {a4}
  V4 = {a4}
  Rates = {10}
  Durations = {0, 2}
  MaxTime = 3
  MaxCommands = 3
  MaxFailures = 1
  MaxStops = 1
INVARIANTS RespTypeOK RulesAccounted LimitsEnforced XdpKeysOwned
PROPERTY TasksEnd

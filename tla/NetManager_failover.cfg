SPECIFICATION NetSpec
CONSTANTS
  RebootDelay = 1
  EthStable = 2
  RetryAfter = 1
  ProvenAfter = 3
  WatchdogGrace = 1
  WatchdogRetry = 1
  SwitchGrace = 4
  Window = 5
  MaxOutside = 2
PROPERTIES
  LeavesDeadWire
  SettlesOnWire

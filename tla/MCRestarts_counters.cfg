SPECIFICATION CountersSpec
CONSTANTS
  RebootDelay = 1
  EthStable = 1
  RetryAfter = 1
  ProvenAfter = 2
  WatchdogGrace = 1
  WatchdogRetry = 1
  SwitchGrace = 2
  Window = 2
  MaxOutside = 1
  Flush = 2
  Top = 3
  MaxDue = 3
  MaxHours = 4
  MaxEvents = 2
INVARIANTS
  Persisted
  CountedOnce
  UndefinedNeverCounted
PROPERTIES
  DropsOnlyRough
CHECK_DEADLOCK FALSE

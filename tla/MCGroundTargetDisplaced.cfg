CONSTANTS
  console = console
  bench = bench
  loopback = loopback
  NoHost = NoHost
  Host <- MCHost
  BeaconPriority <- MCBeaconPriority
  CommandPriority <- MCCommandPriority
  Configured = NoHost
  Rediscover = 1
  Grace = 1
  MaxWait = 2
  OversizeRetry = 2
SPECIFICATION Spec
PROPERTIES LowerNeverDisplaces

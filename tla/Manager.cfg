SPECIFICATION FairSpec
CONSTANTS
  Clients = {c1, c2}
  Ops = {"getMany", "set", "delete", "getOrCreate"}
  Levels = {"redis", "both"}
  Async = {TRUE, FALSE}
  RedisEnabled = TRUE
  Faults = {"memory", "redis", "factory", "evict", "expire"}
  MaxValue = 2
  MaxBackfills = 1
  MaxPendingWrites = 1
INVARIANTS FlightIsLed
PROPERTIES EveryCallReturns

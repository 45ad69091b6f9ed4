SPECIFICATION RacesSpec
CONSTANTS
  Clients = {c1, c2}
  Ops = {"get", "getMany", "set", "setMany", "delete", "getOrCreate"}
  Levels = {"memory", "redis", "both"}
  Async = {TRUE, FALSE}
  RedisEnabled = TRUE
  Faults = {"evict", "expire"}
  MaxValue = 3
  MaxBackfills = 1
  MaxPendingWrites = 2
INVARIANTS OnlyRacesDivide CreatedOnce
SYMMETRY Symmetry

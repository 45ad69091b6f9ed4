SPECIFICATION Spec
CONSTANTS
  Clients = {c1}
  Ops = {"getOrCreate", "get"}
  Levels = {"both"}
  Async = {FALSE}
  RedisEnabled = FALSE
  Faults = {"evict"}
  MaxValue = 1
  MaxBackfills = 1
  MaxPendingWrites = 1
PROPERTY GetOrCreateDegrades

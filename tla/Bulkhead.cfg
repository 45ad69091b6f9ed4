SPECIFICATION FairSpec
CONSTANTS
  Callers = {c1, c2, c3, c4}
  MaxConcurrent = 1
  MaxQueue = 1
  CounterSpan = 3
INVARIANTS TypeOK NothingLeaks CallsAreCounted
PROPERTIES EveryCallReturns LimitsConcurrency

SPECIFICATION ConfigSpec
CONSTANTS
  Resilience = {"breaker", "retry", "bulkhead"}
  MaxGiven = 2
INVARIANTS BuiltFromValid StrongestSourceCounts
CHECK_DEADLOCK FALSE

SPECIFICATION Spec
CONSTANTS
  Callers = {c1, c2, c3}
  MaxConcurrent = 1
  MaxQueue = 1
  MaxAttempts = 2
  FailureThreshold = 1
  SuccessThreshold = 1
  HalfOpenMaxRequests = 1
  CounterSpan = 1
  BackendErrors = {"timeout", "network"}
INVARIANTS CallsNest BackendLoad QuietPolicyServes
PROPERTIES RefusalIsFinal
SYMMETRY Symmetry

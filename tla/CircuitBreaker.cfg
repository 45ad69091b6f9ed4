SPECIFICATION QuotaSpec
CONSTANTS
  Callers = {c1, c2, c3}
  FailureThreshold = 2
  SuccessThreshold = 0
  HalfOpenMaxRequests = 2
  ResetCalls = TRUE
INVARIANTS TypeOK NoProbeLeak CountersFitState HerdIsLimited
PROPERTIES NotificationsAddUp Recovers TripsWhenDown

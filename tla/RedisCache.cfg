SPECIFICATION FairSpec
CONSTANTS
  Clients = {c1}
  MaxPendingWrites = 2
  disconnectErrorThreshold = 2
  HealthCheck = TRUE
INVARIANTS PendingIsAccounted NoWriteAfterClose
PROPERTIES CloseReturns Reconnects NoticesOutage

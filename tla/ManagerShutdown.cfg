SPECIFICATION FairSpec
CONSTANTS
  Users = {u1, u2}
  Closers = {k1, k2}
  MaxWork = 3
INVARIANTS WorkIsCounted LayersOutliveWork LayersCloseOnce
PROPERTIES NoAddAfterClose CloseReturns

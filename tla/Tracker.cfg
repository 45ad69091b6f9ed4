SPECIFICATION TrackerSpec
CONSTANTS
  g1 = g1
  g2 = g2
  r1 = r1
  Recorders = {g1, g2}
  Readers = {r1}
  Events = {"memoryHit", "set", "error"}
  BufferSize = 2
  MaxRecords = 3
  MaxResets = 1
INVARIANTS RingHoldsTheLatest CountsAddUp SnapshotFitsTogether

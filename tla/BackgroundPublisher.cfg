SPECIFICATION FairSpec
CONSTANTS
  MaxStarts = 2
  MaxRecorded = 2
INVARIANTS FinalPublishTellsAll
PROPERTIES StopAlwaysReturns

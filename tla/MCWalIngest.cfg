SPECIFICATION IngestSpec
CONSTANTS
  XLOG_BLCKSZ = 20
  HeaderCells = 3
  SegSize = 40
  ShortHeader = 2
  LongHeader = 4
  Maxalign = 2
  Scenes <- MCScenes
  Chunks = {1, 7}
  Reader = {r1, r2}
  Own = r1
  MaxReads = 2
  MaxRedoFaults = 2
INVARIANTS
  
  RedoExact
PROPERTY EveryReadReturns
CHECK_DEADLOCK FALSE

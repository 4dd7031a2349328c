SPECIFICATION CompactionSpec
CONSTANTS
  Regions = {k1, k2}
  Readers = {r1}
  Writer = w
  Worker = worker
  Closer = closer
  Files = {f1, f2, f3, f4, f5}
  NoRegion = NoRegion
  NoFile = NoFile
  Nobody = Nobody
  MaxOpen = 1
  MaxCalls = 3
PROPERTIES
  CompactionEnds
CHECK_DEADLOCK FALSE

\* Background saving under fairness; no symmetry.
CONSTANTS
  Chunks = {c1}
  Blocks = {b1, b2}
  Savers = {s1, s2}
  Loaders = {}
  Deltas = {d1, d2, d3, d4, d5}
  NoDelta = NoDelta
  NoChunk = NoChunk
  QueueCap = 1
  MaxCache = 0
  CleanupBatch = 1
  MaxCalls = 2
SPECIFICATION FairSpec
PROPERTIES EventuallySaved
CHECK_DEADLOCK FALSE

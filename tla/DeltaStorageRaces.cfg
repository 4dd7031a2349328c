\* Two savers and a loader on one chunk, a full queue within reach.
CONSTANTS
  Chunks = {c1}
  Blocks = {b1, b2}
  Savers = {s1, s2}
  Loaders = {l1}
  Deltas = {d1, d2, d3}
  NoDelta = NoDelta
  NoChunk = NoChunk
  QueueCap = 1
  MaxCache = 0
  CleanupBatch = 1
  MaxCalls = 3
SYMMETRY Symmetric
SPECIFICATION Spec
INVARIANTS TypeOK ReadYourWrites DirtyCoversUnsaved ClosePersists
PROPERTIES ImplementsStore
CHECK_DEADLOCK FALSE

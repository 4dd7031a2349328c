\* Two chunks and three saves of deltas of several lengths; a reader; crashes at any time.
CONSTANTS
  Chunks = {c1, c2}
  Deltas <- SampleDeltas
  NoChunk = NoChunk
  NoDelta = NoDelta
  Readers = {r1}
  Cells <- CellValues
  SizeMax = 8
  MaxSaves = 3
  Serialize <- SerializeChunk
  ByteMax = 3
  CountMax = 10
SYMMETRY Symmetric
SPECIFICATION Spec
INVARIANTS TypeOK SurvivesCrash ReadsCurrent
PROPERTY ImplementsRegionStore
CHECK_DEADLOCK FALSE

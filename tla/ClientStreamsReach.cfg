\* The claim that a broadcast reaches every connected client.
CONSTANTS
  Players = {p1, p2}
  Streams = {s1, s2, s3}
  NoStream = NoStream
  NoPlayer = NoPlayer
  MaxMoves = 1
SYMMETRY Symmetric
SPECIFICATION Spec
INVARIANTS BroadcastReachesConnected
CHECK_DEADLOCK FALSE

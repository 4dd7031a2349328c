\* Two players and three streams, two of them open at a time: reconnects, an
\* older stream of a player, a client that moves the other player, Stop at any time.
CONSTANTS
  Players = {p1, p2}
  Streams = {s1, s2, s3}
  NoStream = NoStream
  NoPlayer = NoPlayer
  MaxMoves = 1
SYMMETRY Symmetric
CONSTRAINT TwoAtATime
SPECIFICATION Spec
INVARIANTS NoPanic StreamIsRegistered LeftIsSaved
CHECK_DEADLOCK FALSE

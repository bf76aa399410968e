SPECIFICATION DeltaFairSpec
CONSTANTS
  a = a
  b = b
  Byte = {a, b}
  Hash <- LastByte
  MinMatch = 2
  HashLen = 2
  Bits = 3
  MaxBase = 5
  MaxTarget = 5
  Base <- MCBase
  Target <- MCTarget
  Peer <- MCPeer
INVARIANTS
  DeltaTypeOK
  RoundTrip
  OpsCover
PROPERTY
  DeltaEnds

SPECIFICATION BinaryCacheFairSpec
CONSTANTS
  p1 = p1
  p2 = p2
  head = head
  b1 = b1
  b2 = b2
  Byte = {head, b1, b2}
  Path = {p1, p2}
  Archive <- MCArchive
  MaxRuns = 3
INVARIANTS
  ChunksKept
  CompletedWhole
  TookSent
PROPERTIES
  Publishes
  RunsEnd
CHECK_DEADLOCK FALSE

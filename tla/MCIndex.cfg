SPECIFICATION MCIndexSpec
CONSTANTS
  q1 = q1
  q2 = q2
  lib = lib
  old = old
  app = app
  h1 = h1
  h2 = h2
  h3 = h3
  one = one
  two = two
  Packer = {q1, q2}
  StorePath = {lib, old, app}
  StoreDir = dir
  Refs <- MCRefs
  InOrder <- MCInOrder
  GCRoots <- MCGCRoots
  Job <- MCJob
  Build = {one, two}
  Gone = gone
  Workers = 2
  MaxRuns = 3
  MaxChanges = 1
INVARIANTS
  MissingStays
  AllIndexed
  ImportableInOrder
  InfosRight
PROPERTIES
  Catalogues
  PackersEnd
CHECK_DEADLOCK FALSE

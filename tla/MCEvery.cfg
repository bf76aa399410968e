SPECIFICATION DeploySpec
CONSTANTS
  L1 = L1
  L2 = L2
  N1 = N1
  N2 = N2
  bin = bin
  lib = lib
  lib64 = lib64
  B1 = B1
  B2 = B2
  B3 = B3
  x = x
  y = y
  StorePath = {L1, L2, N1, N2}
  Name = {bin, lib, lib64}
  NamePrefix <- MCNamePrefix
  Block = {B1, B2, B3}
  Link = {x, y}
  DirSize = 1
  Nil = Nil
  RefSizeFactor = 1
  RefSizeFloor = 2
  World <- Every
INVARIANTS
  OnlyConfusedDiffer
  OnlyConfusedFail
  StreamsFit
  WholeOrStopped
  ReferencesResolve
  NothingSentInVain

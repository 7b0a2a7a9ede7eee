CONSTANTS
  top = top
  documents = documents
  lib = lib
  inner = inner
  sub = sub
  f1 = f1
  f2 = f2
  f3 = f3
  f4 = f4
  g1 = g1
  dot = dot
  Nodes = {top, documents, lib, inner, sub, f1, f2, f3, f4, g1, dot}
  Top = top
  Documents = documents
  Parent <- MCParent
  Folders = {top, documents, lib, inner, sub, dot}
  Name <- MCName
  Fold <- MCFold
  Sizes = {0, 2, 3}
  ClusterUnits = 2
  StemLength = 3
  ExtLength = 1
  LastTail = 2
  FragmentLength = 5
  MaxEntries = 10
  MaxSubdirs = 3
  MaxDepth = 1
  MaxClusters = 12
  RootSlots = 12
  SubSlots = 13
  NoNode = nonode
  Synthetic <- MCSynthetic
  MaxToggles = 1
SPECIFICATION Spec
INVARIANTS
  ListedApart NothingHidden ChainsHold DocumentsServed
CHECK_DEADLOCK FALSE

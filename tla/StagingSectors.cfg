CONSTANTS
  Clusters <- MCTwoClusters
  MaxPending = 2
  ClusterSectors = 2
  InitCap = 1
  SlotCap = 3
  GlobalCap = 4
  Values = {v, w}
  Blank = blank
  FatWrites <- MCNoFat
  Declared = {0, 1}
  Faults = {"realloc", "open"}
SPECIFICATION Spec
SYMMETRY MCSymmetry
INVARIANTS
  HandleCoherent BufferBounds NothingSilentlyLost

CONSTANTS
  Clusters <- MCClusters
  MaxPending = 2
  ClusterSectors = 1
  InitCap = 1
  SlotCap = 2
  GlobalCap = 2
  Values = {v}
  Blank = blank
  FatWrites <- MCFatWrites
  Declared = {0, 1}
  Faults = {"realloc", "open"}
SPECIFICATION Spec
INVARIANTS
  RamAccounting HandleCoherent NoLitter
  NothingSilentlyLost SavedIntact

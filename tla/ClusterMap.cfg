CONSTANTS
  LastCluster = 4
  ClusterSectors = 2
  MaxEdits = 3
  MaxReads = 1
SPECIFICATION Spec
INVARIANTS
  NoCrossTalk Stored
PROPERTIES
  ReadsStored
CHECK_DEADLOCK FALSE

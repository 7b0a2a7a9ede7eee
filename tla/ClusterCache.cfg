CONSTANTS
  LastCluster = 4
  ClusterSectors = 2
  MaxEdits = 3
  MaxReads = 1
SPECIFICATION Spec
PROPERTIES
  LinkedDataLands
CHECK_DEADLOCK FALSE

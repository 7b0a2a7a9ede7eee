CONSTANTS
  root = root
  sub = sub
  v = v
  w = w
  Dirs <- MCDirs
  Names <- MCNames
  DotNames <- MCDot
  StagingNames <- MCStaging
  MaxCluster = 5
  TableSlots = 2
  MaxEntries = 4
  Contents <- MCContents
  Hole = hole
  InitialFiles <- OneFile
  HostOps = {"create", "delete", "reuse"}
  MaxOps = 2
SPECIFICATION Spec
INVARIANT NewFilesHoldTheirData
CHECK_DEADLOCK FALSE

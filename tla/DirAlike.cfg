CONSTANTS
  root = root
  sub = sub
  v = v
  w = w
  Dirs <- MCDirs
  Names <- AlikeNames
  DotNames <- NoNames
  StagingNames <- NoNames
  MaxCluster = 5
  TableSlots = 2
  MaxEntries = 4
  Contents <- MCContents
  Hole = hole
  InitialFiles <- OneFile
  HostOps = {"rename", "stale"}
  MaxOps = 1
SPECIFICATION Spec
INVARIANT RewriteHarmless
CHECK_DEADLOCK FALSE

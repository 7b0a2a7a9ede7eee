CONSTANTS
  root = root
  sub = sub
  v = v
  w = w
  Dirs <- MCDirs
  Names <- AlikeNames
  DotNames <- NoNames
  StagingNames <- NoNames
  MaxCluster = 4
  TableSlots = 3
  MaxEntries = 4
  Contents <- MCContents
  Hole = hole
  InitialFiles <- AlikeFiles
  HostOps = {"create", "touch", "edit", "empty", "overwrite", "delete", "rename",
             "replace", "exchange", "reuse", "stale", "hasty", "kill"}
  MaxOps = 2
SPECIFICATION Spec
INVARIANTS
  BystandersUntouched
CHECK_DEADLOCK FALSE

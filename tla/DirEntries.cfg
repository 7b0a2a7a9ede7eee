CONSTANTS
  root = root
  sub = sub
  v = v
  w = w
  Dirs <- MCDirs
  Names <- MCNames
  DotNames <- MCDot
  StagingNames <- MCStaging
  MaxCluster = 4
  TableSlots = 2
  MaxEntries = 4
  Contents <- MCContents
  Hole = hole
  InitialFiles <- OneFile
  HostOps = {"create", "edit", "delete", "rename"}
  MaxOps = 3
SPECIFICATION Spec
INVARIANTS
  EjectedAsHostSawIt TrackedApart TrackedExists RewriteHarmless
CHECK_DEADLOCK FALSE

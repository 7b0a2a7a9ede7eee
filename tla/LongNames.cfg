CONSTANTS
  DirTables = {root, sub}
  Sectors = 3
  SectorSlots = 2
  Files = {f1, f2}
  root = root
  sub = sub
  f1 = f1
  f2 = f2
  long = long
  medium = medium
  short = short
  FileNames = {long, medium, short}
  Fragments <- MCFragments
  Sum <- MCSum
  Again = FALSE
  MaxEdits = 3
SYMMETRY MCSymmetry
SPECIFICATION LongSpec
INVARIANTS
  OwnName
PROPERTIES
  LongNameKept
CHECK_DEADLOCK FALSE

CONSTANTS
  f1 = f1
  f2 = f2
  f3 = f3
  a1 = a1
  a2 = a2
  b1 = b1
  b2 = b2
  da = da
  db = db
  x1 = x1
  x2 = x2
  Folders = {f1, f2, f3}
  Places = {a1, a2, b1, b2}
  Files = {x1, x2}
  Parent <- MCParent
  SlotOrder <- MCSlots
  Chunks <- MCChunks
  InitialPlace <- MCOneFolder
  QueueMax = 1
  MaxEntries = 3
  Faults = {"list"}
  HostOps = {"move"}
  MaxOps = 2
  Nowhere = nowhere
  Edited = edited
SPECIFICATION Spec
INVARIANT
  NothingLost
CHECK_DEADLOCK FALSE

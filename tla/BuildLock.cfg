SPECIFICATION LockFairSpec
CONSTANTS
  p1 = p1
  p2 = p2
  p3 = p3
  Procs = {p1, p2}
  Timeout = 3
  Locking = TRUE
  Timely = TRUE
  Mortal = {p2}
INVARIANTS LockTypeOK MutualExclusion HolderHasFile
PROPERTIES NoStarvation

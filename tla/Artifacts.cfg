SPECIFICATION Spec
CONSTANTS
  Process = {p1, p2}
  Package = {1, 2}
  Sha = {"s", "l"}
  Path <- MCPath
  Contents <- MCContents
  Absent = "none"
  Big = {"l"}
  Locks <- MCLocks
  Workers = 2
  MaxRuns = 2
SYMMETRY Projects
INVARIANT TypeOK
INVARIANT InstalledIsLocked
INVARIANT FetchCountIsExact
INVARIANT NeverStuck
PROPERTY StoreRefined
CHECK_DEADLOCK FALSE

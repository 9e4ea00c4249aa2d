SPECIFICATION Spec
CONSTANTS
  Process = {p1, p2}
  Package = {1, 2}
  Sha = {"s", "l"}
  Path <- MCPath
  Contents <- MCContents
  Absent = "none"
  Big = {"l"}
  Locks <- MCLocks
  Workers = 2
  MaxRuns = 2
SYMMETRY Projects
INVARIANT InstallRepairs
CHECK_DEADLOCK FALSE

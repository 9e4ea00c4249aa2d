SPECIFICATION Spec
CONSTANTS
  Package = {1, 2}
  Version = {1, 2}
  Manifests <- MCManifests
  NoLock = NoLock
  Corrupt = Corrupt
  MaxRuns = 2
INVARIANT InstallUsesUpToDateLock
CHECK_DEADLOCK FALSE

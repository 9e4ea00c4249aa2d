SPECIFICATION Spec
CONSTANTS
  Package = {1, 2}
  Version = {1, 2}
  Manifests <- MCManifests
  NoLock = NoLock
  Corrupt = Corrupt
  MaxRuns = 3
INVARIANT TypeOK
INVARIANT InstalledAsLocked
INVARIANT VendorIsExact
INVARIANT TransactionAtomic
PROPERTY InstallKeepsLock
PROPERTY LockComesLast
VIEW Live
CHECK_DEADLOCK FALSE

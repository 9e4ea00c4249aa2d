SPECIFICATION Spec
CONSTANTS
  Name = {"a", "b", "v"}
  VcsName = "v"
  Root = {"a"}
  Locked = {"b"}
  Needs <- MCNeeds
  Missing <- MCMissing
  Changing <- MCChanging
  Workers = 1
  MaxRev = 2
  MaxRuns = 2
INVARIANT TypeOK
INVARIANT NoBorrowedCancellation
INVARIANT PoolIsDrained
INVARIANT NamedRepositoryIsWhole
PROPERTY AnswersAreFresh
PROPERTY PipelineEnds
CHECK_DEADLOCK FALSE

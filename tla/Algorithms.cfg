SPECIFICATION Spec
CONSTANTS
  Branch <- MCBranch
  TextRank <- MCTextRank
  Unpinned <- MCUnpinned
  MaxInt = 12
  ParseError = ParseError
  Failed = Failed
  Literals <- MCLiterals
  Releases <- MCReleases
  LockedVersions <- MCLockedVersions
  Texts <- MCTexts
  Registries <- MCRegistries
  Platforms <- MCPlatforms
  IgnoredSets <- MCIgnoredSets
  NoVersion = NoVersion
  NoPlatform = NoPlatform
  Identifier <- MCIdentifier
  Globs <- MCGlobs
  MaxRefDepth = 1
INVARIANT VersionsAreOrdered
INVARIANT RangesMeanTheirSeries
INVARIANT AggregateKeepsEveryOwner
INVARIANT BranchIsFound
 
INVARIANT ReportIsTrue
 
INVARIANT ExclusionFloats
INVARIANT ClassmapIsTrue
INVARIANT AutoloadIsComplete
INVARIANT ScriptsRunAsWritten
INVARIANT EveryPackageIsExplained
INVARIANT ValidateAcceptsUpdate
INVARIANT ExplanationHolds
INVARIANT EditsAreSound
INVARIANT ReportedAsItWent
CHECK_DEADLOCK FALSE

SPECIFICATION Spec
CONSTANTS
  Absent = Absent
  Dir = Dir
  Link = Link
  Bad = Bad
  Paths <- MCPaths
  Above <- MCAbove
  Rank <- MCRank
  Protected = {"proj/.resources"}
  Contents <- MCContents
  Rendered <- MCRendered
  Patched <- MCPatched
  Profiles <- AllProfiles
  Trees <- MCTrees
  Runtime = {"proj/.resources"}
  Written = {"c1"}
  Faults = {"kill", "io"}
INVARIANT TypeOK
INVARIANT ResultExact
INVARIANT OldOrNew
INVARIANT DeletesLast
INVARIANT ReportsChanges
INVARIANT LitterCollected
INVARIANT NoHollowDirectory
INVARIANT FailsOnlyOnKindChange
PROPERTY ImplementsUpdate

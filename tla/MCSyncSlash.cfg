SPECIFICATION Spec
CONSTANTS
  Absent = Absent
  Dir = Dir
  Link = Link
  Bad = Bad
  Paths <- MCPaths
  Above <- MCAbove
  Rank <- MCRank
  Protected = {"proj/.resources"}
  Contents <- MCContents
  Rendered <- MCRendered
  Patched <- MCPatched
  Profiles <- Releases
  Trees <- MCTrees
  Runtime = {"proj/.resources"}
  Written = {"c1"}
  Faults = {}
INVARIANT OrphansCleaned

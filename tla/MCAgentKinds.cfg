SPECIFICATION FairSpec
CONSTANTS
  Commits = {1}
  Refs = {r1}
  Docs = {1, 2, 3, 4, 5}
  Resolve <- AllKinds
  None = None
  Faults = {}
  Env = {"designers", "sigterm"}
INVARIANT BlockedMeansWaiting
PROPERTY PostCommissionNotStarved

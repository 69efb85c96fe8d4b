SPECIFICATION FairSpec
CONSTANTS
  Commits = {1, 2}
  Refs = {r1}
  Docs = {1}
  Resolve <- OnlyPlain
  None = None
  Faults <- PostScanFaults
  Env = {}
PROPERTY ErrorIsRetried

SPECIFICATION FairSpec
CONSTANTS
  Commits = {1, 2}
  Refs = {r1, r2}
  Docs = {1}
  Resolve <- OnlyPlain
  None = None
  Faults <- MainFaults
  Env = {"crash", "pause"}
PROPERTY GatewayConverges
PROPERTY RecordSettles

SPECIFICATION FairSpec
CHECK_DEADLOCK FALSE
CONSTANTS
  Refs = {r1, r2}
  Base <- Distinct
  Commits = {c1, c2}
  Pods = {}
  None = None
  Polling = TRUE
  Faults = {}
  Env = {"edit", "push", "webhook"}
  MaxMoves = 3
PROPERTY RefFollowed

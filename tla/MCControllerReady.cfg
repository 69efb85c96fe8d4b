SPECIFICATION FairSpec
CHECK_DEADLOCK FALSE
CONSTANTS
  Refs = {r1}
  Base <- Distinct
  Commits = {c1}
  Pods = {p1}
  None = None
  Polling = TRUE
  Faults = {"report"}
  Env = {"pods", "bare", "agents", "profiles"}
  MaxMoves = 4
PROPERTY ReadySettles
PROPERTY AgentsUnblocked

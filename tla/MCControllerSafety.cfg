SPECIFICATION Spec
CHECK_DEADLOCK FALSE
CONSTANTS
  Refs = {r1}
  Base <- Distinct
  Commits = {c1}
  Pods = {p1}
  None = None
  Polling = TRUE
  Faults <- AllCalls
  Env = {"normal", "pause", "webhook", "delete", "restart", "secrets"}
  MaxMoves = 4
INVARIANT TypeOK
INVARIANT MetaOwned
INVARIANT StaysScheduled
INVARIANT ControllerInv

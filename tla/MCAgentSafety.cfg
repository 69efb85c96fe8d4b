SPECIFICATION Spec
CONSTANTS
  Commits = {1, 2}
  Refs = {r1}
  Docs = {1}
  Resolve <- OnlyPlain
  None = None
  Faults <- AllFaults
  Env = {"push", "crash", "sigterm", "gatewayCrash", "delete"}
INVARIANT TypeOK
INVARIANT SyncExclusive
INVARIANT NoTriggerAtShutdown
INVARIANT SyncedMeansLoaded
INVARIANT TriggerReportsCopiedCommit
INVARIANT AgentInv
PROPERTY RecordMeansLoaded

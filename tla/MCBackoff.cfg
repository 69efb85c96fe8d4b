SPECIFICATION Spec
CONSTANTS
  Keys = {k1, k2}
  Causes = {"gitSecret", "ref", "apiKey"}
  Webhooks = TRUE
  MaxRow = 8
  MaxErrors = 80
INVARIANT TypeOK
INVARIANT DelaysAsDocumented
INVARIANT AgentWaits

SPECIFICATION Spec
CONSTANTS
  k1 = k1
  k2 = k2
  ssh = ssh
  pat = pat
  Keys = {k1, k2}
  Others = {ssh, pat}
  Auth <- Configured
  Namespace <- Spread
  Pods = {p1}
  None = None
  Interval <- PollOne
  Lifetime = 6
  Buffer = 5
  Delay <- FirstDelay
  MaxRow = 1
  Span = 0
  Faults <- FaultsOfOne
  Tolerated = 1
  Setback = 2
INVARIANT TypeOK
INVARIANT TokenFresh
INVARIANT AgentAuthenticates

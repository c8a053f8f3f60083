SPECIFICATION ApiSpec
CONSTANTS
  Caller = {web, phone}
  Loopback = {"cli"}
  Limit = 2
  Window = 3
  Second = 2
  SweepAbove = 1
  LoadedRow <- MCLoadedRow
  LoadedEdges = {}
  CorrectionId = {3, 7}
  MaterialMax = 2
  MaxTime = 6
  MaxRequests = 5
SYMMETRY Callers
CONSTRAINT Aside
INVARIANT TwiceTheLimitAtMost
INVARIANT RetryAfterIsHonest
INVARIANT StandingClaimLeads
INVARIANT ChainsAreConfirmed

SPECIFICATION Spec
CONSTANTS
  Backend = "memory"
  Requests = {r1, r2}
  Codes = {c1, c2}
  MaxPosts = 2
  PresentationTimeout = 1
  CodeDuration = 1
  CodeIssuanceMargin = 2
  Latency = 1
  MinRetention = 1
  MaxTime = 6
  None = None
SYMMETRY Interchangeable
INVARIANT TypeOK
INVARIANT OneTokenPerCode
INVARIANT SignsPresentedClaims

SPECIFICATION Spec
CONSTANTS
  Backend = "mongo"
  Requests = {r1, r2}
  Codes = {c1, c2}
  MaxPosts = 1
  PresentationTimeout = 1
  CodeDuration = 1
  CodeIssuanceMargin = 0
  Latency = 0
  MinRetention = 1
  MaxTime = 4
  None = None
SYMMETRY Interchangeable
INVARIANT OneTokenPerCode

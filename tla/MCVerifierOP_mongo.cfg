SPECIFICATION Spec
CONSTANTS
  Backend = "mongo"
  Requests = {r1, r2}
  Codes = {c1}
  MaxPosts = 1
  PresentationTimeout = 1
  CodeDuration = 1
  CodeIssuanceMargin = 2
  Latency = 1
  MinRetention = 1
  MaxTime = 5
  None = None
SYMMETRY Interchangeable
INVARIANT PollCarriesCode
INVARIANT CodeRetained

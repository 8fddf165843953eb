SPECIFICATION Spec
CONSTANTS
  Backend = "mongo"
  RequestURITTL = 2
  AuthorizationCodeTTL = 2
  AuthContextTTL = 3
  MaxTime = 4
  Requests = {r1, r2}
  Tokens = {t1, t2, t3}
  Ptrs = {p1, p2, p3}
  None = None
SYMMETRY Interchangeable
INVARIANT OneTokenPerCode
INVARIANT RefreshTokenOnce
INVARIANT LatestTokenResolves
INVARIANT ContextOutlivesCode
PROPERTY StoredFactsStick
CHECK_DEADLOCK FALSE

SPECIFICATION Spec
CONSTANTS
  Backend = "memory"
  RequestURITTL = 1
  AuthorizationCodeTTL = 2
  AuthContextTTL = 3
  MaxTime = 4
  Requests = {r1, r2}
  Tokens = {t1, t2}
  Ptrs = {p1, p2, p3, p4}
  None = None
SYMMETRY Interchangeable
INVARIANT TypeOK
INVARIANT OneTokenPerCode
CHECK_DEADLOCK FALSE

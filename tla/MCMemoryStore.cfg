SPECIFICATION Spec
CONSTANTS
  s1 = s1
  Sessions = {s1}
  Handles = {"code", "rt1", "rt2", "is1", "as1"}
  Requests = {r1, r2}
  Ptrs = {p1, p2, p3, p4}
  Keys = {}
  FieldOf <- MCFieldOf
  OwnerOf <- MCOwnerOf
  TTL = 1
  MaxPreAuthRedeemers = 0
  MaxTXCodeAttempts = 0
  InPlaceRotation = FALSE
  None = None
SYMMETRY PtrSymmetry
INVARIANT TypeOK
INVARIANT IndexCovered
INVARIANT IndexComplete

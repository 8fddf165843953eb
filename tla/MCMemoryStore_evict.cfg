SPECIFICATION FairSpec
CONSTANTS
  s1 = s1
  Sessions = {s1}
  Handles = {"code", "uri", "at1"}
  Requests = {r1}
  Ptrs = {p1, p2, p3}
  Keys = {k1}
  FieldOf <- MCFieldOf
  OwnerOf <- MCOwnerOf
  TTL = 2
  MaxPreAuthRedeemers = 1
  MaxTXCodeAttempts = 1
  InPlaceRotation = FALSE
  None = None
PROPERTY ExpiredHandlesVanish

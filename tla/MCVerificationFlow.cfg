SPECIFICATION Spec
CONSTANTS
  s1 = s1  c1 = c1  c2 = c2  h1 = h1  h2 = h2  t1 = t1  p1 = p1  p2 = p2
  j1 = j1  j2 = j2  Jtis = {j1, j2}
  Ids = {s1}  Messages = {c1, c2}  Streams = {h1, h2}  Tabs = {t1}
  Posts = {p1, p2}  None = None  Pending = Pending  MaxFaults = 1
SYMMETRY JtiSymmetry
INVARIANTS TypeOK CodesResolve NoLostCompletion PaymentAcceptedOnce WatcherHasAnEnd GroupAccounted
CHECK_DEADLOCK FALSE

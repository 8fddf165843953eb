CONSTANTS
  Entries <- MCEntries
  Callers = {c1, c2}
  Statuses = {0, 1}
  None = None
  Nonces = {n1, n2}
  JTIs = {j1}
  MaxBatch = 2
  MaxFaults = 1
SYMMETRY MCSymmetry
SPECIFICATION Spec
INVARIANTS TypeOK NonceBuysOneResponse WalletOwnsEntry WalletIsSearchable
CHECK_DEADLOCK FALSE

CONSTANTS
  Callers = {r1, r2}
  Tokens = {t1, t2}
  TTL = 1
  None = None
  MaxClients = 3
  Flows = {f1}
  Life = 3
  Session = 1
  Margin = 0
  Skew = 0
  RetryBase = 1
  RetryMax = 1
  MaxFaults = 1
SPECIFICATION FairRenewSpec
INVARIANTS RenewTypeOK SessionClientStored LiveHolderKeepsLock
PROPERTIES OneRenewalPerSecret ExpiredSecretReplaced OrphanedLockIsFreed

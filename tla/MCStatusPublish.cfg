CONSTANTS
  Entries <- MCEntries
  Callers = {c1}
  Statuses = {0}
  None = None
  Sections = {0}
  Size = 2
  Workers = {w1, w2}
  Interval = 3
  Validity = 2
  MaxWrites = 2
  MaxFaults = 1
SPECIFICATION FairSpec
INVARIANTS TypeOK
PROPERTIES ListsNeverGoBack StatusPublished

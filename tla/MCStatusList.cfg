CONSTANTS
  Callers = {c1, c2}
  SectionSize = 2
  LowDecoys = 0
  Want = 2
  MaxRetries = 2
  Statuses = {0, 1}
  MaxSection = 1
  MaxFaults = 1
  None = None
SPECIFICATION FairSpec
INVARIANTS TypeOK PositionIsIndex SectionsInOrder
PROPERTIES ImplementsAllocator LowSectionRollsOver

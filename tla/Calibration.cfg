SPECIFICATION FairSpec
CONSTANTS
  n1 = n1
  n2 = n2
  Lo = 0
  Hi = 2
  First = n1
  Second = n2
  Original <- MCOriginal
  Needs = {0, 1}
  Interval = 1
  Limit = 1
  Faults = {}
  None = None
INVARIANTS
  OffsetIsNeverLost
PROPERTIES
  NothingCompounds
  HandsBack
CHECK_DEADLOCK FALSE

SPECIFICATION PartsFairSpec
CONSTANTS
  Supported = {"off", "cool"}
  CanHeat = FALSE
  CanCool = TRUE
  GuardOn = TRUE
  MinOff = 2
  ModeHold = 0
  Reassert = 2
  Skew = 0
  WallBack = 1
  Silent = FALSE
  Wishes <- TwoWishes
  Faults = {"offline", "crash"}
  None = None
  Running = Running
INVARIANTS
  TypeOK
PROPERTIES
  WishIsServed
  SourceFollowsTheRoom
CHECK_DEADLOCK FALSE

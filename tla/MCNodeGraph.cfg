CONSTANTS
  N = 4
  MaxRoots = 2
SPECIFICATION FairSpec
INVARIANTS TypeOK Hierarchy ScenesReachNoCycle ValidateIsRight
PROPERTY CallsReturn
CHECK_DEADLOCK FALSE

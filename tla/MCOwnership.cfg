\* One root key with its objects, two fields an object, two elements an array:
\* a second target's second attribute is the deepest place.
CONSTANTS
  MaxBlocks = 7
  MaxElements = 2
  MaxKeys = 2
  MaxRootKeys = 1
SPECIFICATION Spec
INVARIANTS TypeOK Owned NothingLeaks HeldIsComplete FailureShows
CHECK_DEADLOCK FALSE

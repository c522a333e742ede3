\* The smallest document in which cgltf_free steps through a null array.
CONSTANTS
  MaxBlocks = 7
  MaxElements = 2
  MaxKeys = 2
  MaxRootKeys = 1
SPECIFICATION Spec
INVARIANT FreeCompletes
CHECK_DEADLOCK FALSE

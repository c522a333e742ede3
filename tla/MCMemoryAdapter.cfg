CONSTANTS
  HeaderSize = 2
  Alignment = 2
  WordSize = 2
  MaxSize = 17
  HeapEnd = 13
  Sizes <- MCSizes
SPECIFICATION Spec
INVARIANTS TypeOK LentIsHanded HeaderIntact NoBadFree
PROPERTY MallocContract

CONSTANTS
  N = 2
  V = 1
SPECIFICATION Spec
INVARIANTS TypeOK NoLeak NoMisfree DataIsThere FreeReadsTheDocument
PROPERTIES LoadFillsUris LoadedStays CallsReturn Contract
CHECK_DEADLOCK FALSE

CONSTANTS
    Features <- MCFeatures
    Uint32 <- MCUint32
    Lengths = {0, 1, 2, 3, 4, 7, 12, 19, 20, 23, 24, 28, 30, 41}
    Foreign <- MCForeign
SPECIFICATION Spec
INVARIANTS JsonIsWritten ExtensionsDeclared ContainerIsRight
CHECK_DEADLOCK FALSE

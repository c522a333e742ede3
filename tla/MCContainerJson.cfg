CONSTANTS
    Features <- MCExtensions
    Uint32 <- MCUint32
    Lengths = {0, 1}
    Foreign = {}
SPECIFICATION Spec
INVARIANT TextIsJson
CHECK_DEADLOCK FALSE

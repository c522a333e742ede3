CONSTANTS
    Usize <- MCUsize
    Documents <- MCDocuments
    Outs = {0, 1, 4, 5, 18}
SPECIFICATION Spec
INVARIANTS OnlyThePrefixIsWritten

SPECIFICATION Spec
CONSTANTS
    ReservedPrependSize = 2
    InitialBufferSize = 3
    ExtraSize = 3
    SizeMax = 256
    MaxLen = 3
    MaxBytes = 9
INVARIANT HoldsContent
PROPERTY GrowsOnlyWhenFull
CHECK_DEADLOCK FALSE

CONSTANTS
    StartAddr = 4
    Length <- SmallHeapLength
    BlockSize = 2
    SizeBits = 4
    Requests <- WrapRequests

SPECIFICATION Spec

INVARIANT ExclusiveOwnership

CONSTANTS
    StartAddr = 4
    Length <- SmallHeapLength
    BlockSize = 2
    SizeBits = 4
    Requests <- SmallRequests

SPECIFICATION Spec

INVARIANT MaxBlockIsFree

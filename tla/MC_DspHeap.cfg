CONSTANTS
    StartAddr = 4
    Length <- SmallHeapLength
    BlockSize = 2
    SizeBits = 4
    Requests <- SmallRequests

SPECIFICATION Spec

INVARIANT TypeOK
INVARIANT ExclusiveOwnership
INVARIANT HeapPartition
INVARIANT Coalesced
PROPERTY HeapRefinement

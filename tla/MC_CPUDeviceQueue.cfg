CONSTANTS
    w1 = w1
    w2 = w2
    w3 = w3
    k1 = k1
    k2 = k2
    m1 = m1
    NoCmd = NoCmd
    Workers <- MCWorkers
    Cmds <- MCCmds
    Kernels <- MCKernels
    Slots <- MCSlots

SPECIFICATION Spec

INVARIANT TypeOK
INVARIANT SlotAccounting
INVARIANT NoUseAfterFree
INVARIANT FifoAdmission
INVARIANT ClzMatchesReference
INVARIANT AbsMatchesReference
INVARIANT UpsampleMatchesReference
PROPERTY QueueRefinement
PROPERTY EveryEventCompletes
PROPERTY DestroyJoins

CONSTANTS
    p1 = p1
    p2 = p2
    b1 = b1
    b2 = b2
    NoBlock = NoBlock
    NotCached = NotCached
    Procs <- MCProcs2
    Blocks <- MCBlocks2
    Data = {0, 1}
    MAXOPBLOCKS = 2
    LOGSIZE = 4
    nlog = 4
    MaxCrashes = 2
SPECIFICATION Spec
SYMMETRY Symmetry2
INVARIANTS Durable Reserved NoLostWakeup
PROPERTIES Atomic

CONSTANTS
    p1 = p1
    p2 = p2
    b1 = b1
    b2 = b2
    b3 = b3
    NoProc = NoProc
    NoBlock = NoBlock
    Procs <- MCProcs
    Blocks <- MCBlocks
    Data = {0, 1}
    NBUF = 2
SPECIFICATION LiveSpec
CHECK_DEADLOCK FALSE
INVARIANTS OneBuffer GetsItsBlock RequestsSound SleepersWait
PROPERTIES Coherent Served

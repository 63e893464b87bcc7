CONSTANTS
    p1 = p1
    p2 = p2
    p3 = p3
    Procs <- MCProcs
    initproc = p1
    NPAGES = 17
    PGSIZE = 2
    NPTENTRIES = 2
    KERNBASE = 8
    KTABS = 1
    Programs <- MCPrograms
    Amounts <- MCAmounts
    Writable <- MCWritable
    MaxCalls = 4
SPECIFICATION Spec
SYMMETRY MCSymmetry
INVARIANTS PagesOwned Mapped
PROPERTY PrivateMemory
CHECK_DEADLOCK FALSE

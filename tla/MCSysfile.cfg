CONSTANTS
    p1 = p1
    p2 = p2
    Procs <- MCProcs
    ninodes = 4
    NINODE = 3
    Names <- MCNames
    None = None
    Calls <- MCCalls
    Others = {"close", "dup", "fork", "exit"}
    NOFILE = 2
    NFILE = 1
    MaxGroup = 2
    MaxCrashes = 1
    mkfs <- MCMkfs
SPECIFICATION Spec
INVARIANTS RefsCounted WriteThrough NamesLinked
CHECK_DEADLOCK FALSE

CONSTANTS
    p1 = p1
    p2 = p2
    Procs <- MCProcs
    ninodes = 4
    NINODE = 3
    Names <- MCNames
    None = None
    Calls <- MCSameName
    Others = {"fork"}
    NOFILE = 2
    NFILE = 1
    MaxGroup = 2
    MaxCrashes = 0
    mkfs <- MCMkfs
SPECIFICATION Spec
INVARIANT NoDeadlock
CHECK_DEADLOCK FALSE

CONSTANTS
    Procs = {1, 2}
    Inums = {1, 2}
    Files = {1, 2}
    ip <- MCIp
    BSIZE = 2
    NDIRECT = 1
    NINDIRECT = 2
    BPB = 1
    nblocks = 5
    MAXOPBLOCKS = 6
    Sizes = {1, 3}
    MaxWrites = 2
    MaxCrashes = 1
SPECIFICATION Spec
INVARIANTS BlocksOwned WriteFits ReadsBack
PROPERTY FilesAreBytes
CHECK_DEADLOCK FALSE

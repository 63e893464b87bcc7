CONSTANTS
    Lines <- MCLines
    MAXARGS = 3
    NPROC = 5
    NOFILE = 9
    MinUnits = 4
    HeapMax = 13
    HeaderSize = 8
    Requests = {8, 9, 40}
    MaxOwn = 1
SPECIFICATION MCSpec
INVARIANTS ParsesGrammar Attended HeapIntact
PROPERTY Prompt
CHECK_DEADLOCK FALSE

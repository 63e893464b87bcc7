CONSTANTS
    r1 = r1
    w1 = w1
    w2 = w2
    Readers <- MCReaders
    Writers <- MCWriters
    Killable = {r1, w1}
    Bytes = {0, 1}
    PIPESIZE = 2
    UINT = 4
    MaxN = 2
SPECIFICATION LiveSpec
INVARIANTS NoUseAfterFree SleepersWait
PROPERTIES FifoQueue Freed

CONSTANTS
    p1 = p1
    q1 = q1
    l1 = l1
    kbd = kbd
    NoOne = NoOne
    Readers = {p1}
    Writers = {q1}
    Listers = {l1}
    Keys = {"a", "nul", "nl", "^D", "^U", "^H", "^P"}
    INPUT_BUF = 3
    UINT = 6
    MaxN = 2
SPECIFICATION Spec
CHECK_DEADLOCK FALSE
INVARIANTS FullIsFinished ReaderWaits
PROPERTIES Lines

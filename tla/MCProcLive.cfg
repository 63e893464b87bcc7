CONSTANTS
    NPROC = 3
    c1 = c1
    c2 = c2
    Cpus = {c1}
    NoCpu = NoCpu
    Calls = {"fork", "exit", "wait"}
    Prios = {0}
    MaxPid = 3
SPECIFICATION LiveSpec
PROPERTIES RoundRobin OrphansReaped

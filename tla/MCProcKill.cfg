CONSTANTS
    NPROC = 2
    c1 = c1
    c2 = c2
    Cpus <- MCCpus
    NoCpu = NoCpu
    Calls = {"fork", "exit", "wait", "sleep", "kill", "fault", "exec"}
    Prios = {0}
    MaxPid = 3
SPECIFICATION LiveSpec
PROPERTIES KilledExits

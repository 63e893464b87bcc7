CONSTANTS
    NPROC = 3
    c1 = c1
    c2 = c2
    Cpus <- MCCpus
    NoCpu = NoCpu
    Calls = {"fork", "exit", "wait", "nice", "exec", "sleep", "fault"}
    Prios = {1}
    MaxPid = 3
SPECIFICATION Spec
SYMMETRY CpuSymmetry
INVARIANTS OneCpuEach StackOwned NoLostWait NoOrphan IInv
PROPERTIES PriorityOrder

SPECIFICATION Spec
CONSTANTS
    p1 = p1
    p2 = p2
    Procs = {p1}
    Programs = {"plain"}
    ParentOpen = {0, 1, 2}
    MaxFd = 8
    Faults = {}
INVARIANTS
    CrashMeansKilled
CHECK_DEADLOCK FALSE

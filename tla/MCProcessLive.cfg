SPECIFICATION FairSpec
CONSTANTS
    p1 = p1
    p2 = p2
    Procs = {p1, p2}
    Programs = {"plain", "filter"}
    ParentOpen = {0, 1, 2}
    MaxFd = 11
    Faults = {"fork"}
PROPERTIES
    TerminateReturns
    WaitReturns
CHECK_DEADLOCK FALSE

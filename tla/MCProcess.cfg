SPECIFICATION Spec
CONSTANTS
    p1 = p1
    p2 = p2
    Procs = {p1, p2}
    Programs = {"plain", "filter", "missing"}
    ParentOpen = {0, 1, 2}
    MaxFd = 11
    Faults = {"fork", "kill", "eintr"}
SYMMETRY Symmetry
INVARIANTS
    TypeOK
    ChildIsConnected
    ParentIsConnected
    RunningWhileAlive
CHECK_DEADLOCK FALSE

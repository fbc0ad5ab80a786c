SPECIFICATION Spec
CONSTANTS
    Consumers = {c1, c2}
    Reader = Reader
    NoOne = NoOne
    Capacity = 3
    BufferSize = 3
    MaxBytes = 4
    Budget = 2
    Faults = {"poll", "read"}
SYMMETRY Symmetry
INVARIANTS
    TypeOK
    PartialLineOnlyUnderLock
    NoLostWakeup
    NothingLostOrReordered
PROPERTY ImplementsChannel
CHECK_DEADLOCK FALSE

SPECIFICATION FairSpec
CONSTANTS
    Consumers = {c1, c2}
    Reader = Reader
    NoOne = NoOne
    Capacity = 2
    BufferSize = 2
    MaxBytes = 3
    Budget = 2
    Faults = {}
PROPERTIES
    OutputBecomesLines
    ExpectIsReleased
CHECK_DEADLOCK FALSE

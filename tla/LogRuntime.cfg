SPECIFICATION Spec
CONSTANTS
    Producer = {p1, p2}
    Capacity = 2
    Reserve = 1
    MaxSequence = 4
INVARIANTS
    NothingLost
    FlushComplete
PROPERTIES
    AcceptedGetWritten
CHECK_DEADLOCK FALSE

SPECIFICATION Spec
CONSTANTS
    Producer = {p1, p2}
    Capacity = 2
    Reserve = 1
    MaxSequence = 1
PROPERTIES
    StopTerminates
CHECK_DEADLOCK FALSE

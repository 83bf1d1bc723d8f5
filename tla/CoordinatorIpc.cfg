SPECIFICATION Spec
CONSTANTS
    None = None
    Callers = {c1}
    Subscriber = s
    Clients = {{c1, s}}
    Workers = {w1}
    Capacity = 1
    History = 2
    Descriptors = 2
    MaxTransitions = 1
    c1 = c1
    s = s
    w1 = w1
CHECK_DEADLOCK FALSE
INVARIANTS
    ActiveIsOpen
    EventsOnce
PROPERTY ServerStops

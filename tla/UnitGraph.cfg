SPECIFICATION Spec
CONSTANT N = 4
INVARIANTS
    AcceptedIffAcyclic
    ListsOrdered
CHECK_DEADLOCK FALSE

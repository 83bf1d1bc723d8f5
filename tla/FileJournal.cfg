SPECIFICATION Spec
CONSTANTS
    Synchronize = TRUE
    MaxRecords = 4
    Budget <- EveryFault
INVARIANTS
    ReplaySucceeds
    AcknowledgedReplayed
CHECK_DEADLOCK FALSE

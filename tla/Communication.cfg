SPECIFICATION RuntimeSpec
CONSTANTS
    c1 = c1
    w1 = w1
    None = None
    Clients = {c1}
    Workers = {w1}
    Roles = {"event", "method", "discovery", "runtime"}
    Dispatchers = {"pool", "inline"}
    QueueLimit <- QueueLimits
    MaxHandle = 5
    MaxSamples = 2
    MaxEndpoints = 3
    MaxOperations = 2
    StopAnytime = FALSE
    MaxReports = 5
CHECK_DEADLOCK FALSE
INVARIANTS
    NothingCalledBackAfterEnd
    RetainedIsAwaited
    DiscoveryComplete
    AllOrNothing
PROPERTY CallsReturn

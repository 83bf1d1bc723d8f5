SPECIFICATION CoordinatorSpec
CONSTANTS
    d1 = d1
    d2 = d2
    m1 = m1
    m2 = m2
    a = a
    b = b
    Domain = {d1, d2}
    Mode = {m1, m2}
    Unit = {a, b}
    Resource = {}
    NoMode = NoMode
    ModesOf <- TwoModes
    InitialMode <- FirstMode
    FallbackMode <- FirstMode
    UnitsOf <- OwnUnits
    Bootstrap = {}
    Dependencies <- NoDependencies
    ExclusiveResources <- NoResources
    Constraint = {}
    Transition <- ThreeTransitions
    Requested <- TwoModes
    Readiness <- LifecycleChannel
    Setups <- BothServices
INVARIANTS
    ActiveIsNewest
    QueuedRunsAsPlanned
PROPERTY RequestsFinish
CHECK_DEADLOCK FALSE

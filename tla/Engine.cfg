SPECIFICATION Spec
CONSTANTS
    d1 = d1
    d2 = d2
    d3 = d3
    m1 = m1
    m2 = m2
    m3 = m3
    a = a
    b = b
    s = s
    r = r
    Domain = {d1, d2, d3}
    Mode = {m1, m2, m3}
    Unit = {a, b, s}
    Resource = {r}
    NoMode = NoMode
    ModesOf <- DefinedModes
    InitialMode <- FirstMode
    FallbackMode <- Fallback
    UnitsOf <- Units
    Bootstrap = {}
    Dependencies <- NeedsShared
    ExclusiveResources <- OneResource
    Constraint <- Constraints
    Transition <- TwoTransitions
    Requested <- RequestedModes
    Readiness <- MixedReadiness
    Setups <- Deployments
INVARIANTS
    ModesConsistent
    JournalFaithful
    SharedUnitsKept
    RunningDependencies
PROPERTIES
    CancelEffective
    TransitionsFinish
CHECK_DEADLOCK FALSE

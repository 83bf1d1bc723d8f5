SPECIFICATION Spec
CONSTANTS
    Caller = {c1, c2, c3}
    Owner = {t1, t2, t3}
    NoOwner = NoOwner
    d1 = d1
    d2 = d2
    u1 = u1
    r1 = r1
    Domain = {d1, d2}
    Unit = {u1}
    Resource = {r1}
    Request <- MCRequest
INVARIANTS
    OwnerMapsExact
    NoLostWakeup
PROPERTIES
    OnlyOvertaken
    ImplementsLocks

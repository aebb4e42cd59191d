SPECIFICATION Spec
CONSTANTS
    t1 = t1
    t2 = t2
    t3 = t3
    Tables = {t1, t2, t3}
    Routing <- ThreeTargets
    Keys = {k1}
    Single = FALSE
    Valid = {v1, v2}
    Corrupt = {bad}
    Absent = absent
    Clients = {c1, c2}
    Readers = {g1}
    Healers = {h1, h2}
    MaxWrites = 3
    MaxFaults = 1
CHECK_DEADLOCK FALSE
SYMMETRY Symmetric
INVARIANTS
    TypeOK
    SidesHoldAcked
    FallbackIsFresh
PROPERTIES
    HealKeepsBest

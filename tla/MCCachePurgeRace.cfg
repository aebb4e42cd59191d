SPECIFICATION Spec
CONSTANTS
    Keys = {k1}
    Clients = {c1}
    Refreshers = {r1}
    Learning = TRUE
    Ttls = {2}
    MinHits = 1
    MaxEntries = 2
    CountFactor = 1
    SweepAt = 1
    RefreshNum = 1
    RefreshDen = 2
    LockIds <- Locks
    None = none
    MaxUpdates = 1
CHECK_DEADLOCK FALSE
SYMMETRY Symmetric
INVARIANTS
    PurgeTakesEffect

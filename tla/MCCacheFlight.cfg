SPECIFICATION FairSpec
CONSTANTS
    Keys = {k1}
    Clients = {c1, c2}
    Refreshers = {r1}
    Learning = TRUE
    Ttls = {2}
    MinHits = 1
    MaxEntries = 2
    CountFactor = 1
    SweepAt = 1
    RefreshNum = 1
    RefreshDen = 2
    LockIds <- Locks
    None = none
    MaxUpdates = 1
CHECK_DEADLOCK FALSE
INVARIANTS
    TypeOK
    OneRenderPerKey
    LeaderFillsGap
    PurgeSticks
PROPERTIES
    RequestsEnd
    PagesCatchUp

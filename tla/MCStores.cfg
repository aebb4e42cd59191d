SPECIFICATION StoresSpec
CONSTANTS
    Keys = {k1, k2, k3}
    Clients = {c1}
    Refreshers = {r1}
    Learning = FALSE
    Ttls = {2}
    MinHits = 2
    MaxEntries = 2
    CountFactor = 1
    SweepAt = 1
    RefreshNum = 1
    RefreshDen = 2
    LockIds <- Locks
    None = none
    MaxUpdates = 0
    Paths <- FourPages
    MaxTracked = 4
    HitsWanted = 1
    MinTtl = 1
    MaxTtl = 2
    DefaultTtl = 1
    MaxCost = 1
    LastSecond = 2
    MaxLessons = 2
    MaxLearned = 4
    Posts = {p1, p2}
    Docs = {q, m}
    Cacheable = {q}
    Ttl = 2
    Slack = 1
    Sunset = 4
    MaxChanges = 1
    Sessions = {s1, s2}
    RowKeys = {w1}
    MaxPuts = 3
    MemberCount = 3
    MaxWritten = 3
    Users = {u1, u2}
CHECK_DEADLOCK FALSE
SYMMETRY Symmetric
INVARIANTS
    StoresTypeOK
    MemoryBounded
    SteadyPageAdmitted
    AnswersAreFaithful
    
PROPERTIES
    GivesWayInOrder
    SoundSaveKeepsLearning

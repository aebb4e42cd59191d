SPECIFICATION ProcessesSpec
CONSTANTS
    t1 = t1
    t2 = t2
    t3 = t3
    Tables = {t1, t2, t3}
    Routing <- ThreeTargets
    Keys = {k1}
    Single = FALSE
    Valid = {v1, v2}
    Corrupt = {bad}
    Absent = absent
    Clients = {d1, d2}
    Readers = {}
    Healers = {}
    MaxWrites = 4
    MaxFaults = 0
    Conns = {c1, c2, c3}
    BaseBackoff = 1
    MaxBackoff = 3
    MaxRapid = 3
    HealthyAfter = 2
    MaxLost = 1
    Sockets = {s1, s2}
    Workers = {w1, w2}
    QueueDepth = 1
    Hosts = {h1}
    NoSocket = nosocket
    Registrars = {r1, r2}
    Subscribers = {u1}
    Stages = {dev, prod}
    Capacity = 1
    MaxVersions = 2
    MaxEvents = 2
    MaxInstant = 1
    MaxCommits = 2
    MaxMessages = 2
    MaxControls = 1
    Sizes = {126, 65536}
    Wire = 2
    Orders = {o1, o2}
    MaxAttempts = 2
CHECK_DEADLOCK FALSE
INVARIANTS
    ProcessesTypeOK
    InFlightFinishes
    ChildIsKept
    QueuedAtStopServed
    
    ChallengeStaysUp
PROPERTIES
    ToldTakesNoMore
    
    
    MessagesArrive
    EchoesAsChannel
    ActsAsOneStore

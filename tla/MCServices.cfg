SPECIFICATION ServicesSpec
CONSTANTS
    b1 = b1
    b2 = b2
    f1 = f1
    f2 = f2
    Visited = {"schemas", "db", "scim", "analytics"}
    MaxTasks = 3
    Trees <- AllTrees
    Served <- AtStart
    MaxUpdates = 2
    Pages = {b1, b2}
    Calls = {f1, f2}
    PageOf <- CallOwner
    Functions = {"list"}
    MaxKeys = 3
    MaxRefusals = 1
    Allowed = {"https://a"}
    Origins = {"https://a", "https://b"}
    Requests = {q1, q2}
    Ops = {o1, o2}
    MaxRequests = 1
    Window = 2
    MaxBuffered = 1
    Horizon = 3
    Callers = {c1, c2}
    KeyIds = {i1}
    Life = 1
    SessionTtl = 1
    Cooldown = 2
    Warmup = 1
    Bedtime = 2
    Admins = {a1, a2}
    Rows = {w1, w2}
    Names = {n1, n2}
    Ids = {u1, u2}
    Keys = {k1, k2}
    Tasks = {t1, t2}
    None = none
    MaxFaults = 1
    MaxFields = 2
    LongName = 128
CHECK_DEADLOCK FALSE
SYMMETRY Symmetric
INVARIANTS
    ServicesTypeOK
    ClientHolds
    RoutesAreReached
    PathSound
    ClosedStaysClosed
    
    SealedHasNoKey
    NamesUnique
    
PROPERTY
    QuarantineHolds

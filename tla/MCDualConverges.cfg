SPECIFICATION FairSpec
CONSTANTS
    t1 = t1
    t2 = t2
    t3 = t3
    Tables = {t1, t2}
    Routing <- TwoTables
    Keys = {k1}
    Single = FALSE
    Valid = {v1}
    Corrupt = {bad}
    Absent = absent
    Clients = {c1, c2}
    Readers = {}
    Healers = {h1}
    MaxWrites = 2
    MaxFaults = 2
CHECK_DEADLOCK FALSE
PROPERTIES
    EventuallyInSync

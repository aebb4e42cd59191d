SPECIFICATION Spec
CONSTANTS
    t1 = t1
    t2 = t2
    t3 = t3
    Tables = {t1}
    Routing <- OneTable
    Keys = {k1}
    Single = FALSE
    Valid = {v1, v2}
    Corrupt = {bad}
    Absent = absent
    Clients = {c1}
    Readers = {}
    Healers = {h1}
    MaxWrites = 2
    MaxFaults = 0
CHECK_DEADLOCK FALSE
PROPERTIES
    HealSparesGoodPrimary

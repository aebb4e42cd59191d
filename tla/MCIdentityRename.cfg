SPECIFICATION IdentitySpec
CONSTANTS
    Names = {n1, n2}
    Ids = {u1}
    Keys = {k1}
    Tasks = {t1}
    None = none
    MaxFaults = 0
CHECK_DEADLOCK FALSE
PROPERTIES
    DeprovisionKillsKeys

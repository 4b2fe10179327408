SPECIFICATION CacheSpec
CONSTANTS
    i1 = i1
    d1 = d1
    d2 = d2
    Instances = {i1}
    Admins = {d1, d2}
    Home <- MCHome
    Policies = {"p", "q"}
    Default = "q"
    TTL = 2
    MaxLoad = 1
    MaxWrites = 2
    Horizon = 4
    Absent = absent
INVARIANTS
    EnforcedInTime
    LiftedInTime
    CleanWriteIsImmediate
CHECK_DEADLOCK FALSE

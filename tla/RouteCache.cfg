SPECIFICATION Spec
CONSTANTS
    i1 = i1
    i2 = i2
    d1 = d1
    d2 = d2
    Instances = {i1, i2}
    Admins = {d1, d2}
    Home <- MCHome
    RouteIds = {"r1"}
    TTL = 2
    MaxLoad = 1
    MaxWrites = 2
    Horizon = 4
    None = none
INVARIANTS
    StaleForBoundedTime
    CleanWriteIsImmediate
PROPERTIES
    ImplementsBoundedStaleness
CHECK_DEADLOCK FALSE

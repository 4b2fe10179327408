SPECIFICATION Spec
CONSTANTS
    r1 = r1
    r2 = r2
    k1 = k1
    k2 = k2
    Requests = {r1, r2}
    AdminKeys = {k1, k2}
    Matches <- MCMatches
    Roles = {"admin", "viewer", "owner"}
    InitialRows <- MCRows
    TTL = 2
    MaxLoad = 0
    MaxVerify = 0
    MaxChanges = 1
    Horizon = 2
    None = None
    Environments <- MCEnvironments
    DataPlaneConnections = {r1}
    HandlerErrors = {"Validation"}
    Rejections = {405, 422}
INVARIANTS
    ResponseTells
PROPERTIES
    AdminDecisionJustified
    
    ShutdownCompletes
CHECK_DEADLOCK FALSE

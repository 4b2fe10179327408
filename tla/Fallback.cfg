SPECIFICATION WalkSpec
CONSTANTS
    Routes <- MCRoutes
    Tenant = "acme"
    Alias = "smart"
    Global = "global"
    BackoffCap = 3
    MaxBackoffShift = 1
INVARIANTS
    ReportedAttemptsAreCallsMade
    EarlierRoutesGivenUp
    FailureOnlyAfterEveryRoute
    SleepsOnlyForRetries
CHECK_DEADLOCK FALSE

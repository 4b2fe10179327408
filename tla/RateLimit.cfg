SPECIFICATION Spec
CONSTANTS
    a = a
    b = b
    Requests = {r1, r2, r3}
    ServiceAccounts = {a, b}
    Global = global
    NoLimit = none
    RpmLimit <- MCRpmLimitOpen
    GlobalRpm = 2
    Window = 2
    MaxDelay = 1
    Horizon = 7
SYMMETRY Perms
INVARIANTS
    GlobalLimitPerWindow
    SaLimitPerWindow
    CountersAccounted
PROPERTY
    SlidingWindowBound
CHECK_DEADLOCK FALSE

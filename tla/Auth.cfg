SPECIFICATION Spec
CONSTANTS
    Requests = {"r1", "r2", "r3"}
    Msg <- MCMsg
    Signed <- MCSigned
    Owner = "sa"
    Nonces = {"n"}
    Skew = 2
    KeyBound = 2
    ExpiresAt = 2
    Horizon = 3
    Never = never
INVARIANTS
    RepeatedOnlyEarly
    OnlyVerifiedLeaveTraces
    AdmittedWasEntitled
CHECK_DEADLOCK FALSE

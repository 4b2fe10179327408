SPECIFICATION FairSpec
CONSTANTS
    o1 = o1
    o2 = o2
    None = None
    Rows = {1, 2, 3}
    Owners = {o1, o2}
    Owning <- MCOwning
    MaxLimit = 2
    Limits <- MCLimits
    Horizon = 1
INVARIANTS
    NoRowTwice
    NoRowMissed
    OnlyOwnRows
PROPERTIES
    WalkEnds
CHECK_DEADLOCK FALSE

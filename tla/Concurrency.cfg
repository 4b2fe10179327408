SPECIFICATION FairPermitSpec
CONSTANTS
    r1 = r1
    r2 = r2
    r3 = r3
    i1 = i1
    i2 = i2
    Slots = {r1, r2, r3}
    Instances = {i1, i2}
    Host <- MCHost
    Limits = {1, 2}
    KeyTTL = 2
INVARIANTS
    CounterAccounts
PROPERTIES
    GrantWithinLimit
    RefusalOnlyWhenFull
    QuietCounterDrains
